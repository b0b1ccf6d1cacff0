# A verification project for go_learn

go_learn is a collection of small programs written to learn Go, its runtime and
the system calls below it, with notes beside them. There is no one system:
each directory is a program of its own, and what they have in common is the
Go scheduler and the kernel. This project models the programs in which something
can go wrong that a test would hardly reach: several goroutines or threads,
a kernel that delivers in its own time, a limit that is reached, an answer that
is lost.

- `*.tla` without a prefix: a program, or what one promises (`AtomicWord`)
- `MC*.tla`, `MC*.cfg`: the instances TLC checks
- `*Proofs.tla`: theorems, checked by TLAPS, for every value of the constants
- `PROJECT.json`: components, runs, mutants, hazards, and the source lines each
  definition stands for

To repeat a run or a proof:

    tlc -config MCEchoSafety.cfg MCEchoServer.tla
    tlapm EchoServerProofs.tla

## 1. Inventory

| part | source under `src/` | state it keeps | operations | what is hard |
|---|---|---|---|---|
| TCP echo program | `std_pkg/net/tcp/main.go` | two channels used as signals, descriptor table, accept queue, two byte streams per connection | set the limit, listen, accept, handle, dial, write, half-close, read, close | any number of goroutines that share one descriptor table; short reads and writes; resets; main's return kills the rest |
| atomic operations | `plan9/my_atomic/atomic.s`; `plan9/main.go` calls its swap (line 70) and its compare-and-swap (line 80), and for the addition the standard library's (line 62) | memory words, registers, flags, result slots | add, swap, compare-and-swap | interleaving of instructions, wrapping |
| epoll loop | `std_pkg/runtime/poll/epoll.c` | epoll instance, event, O_NONBLOCK, the kernel's ready list | set up, wait, read, finish | edge triggering: an event is reported once; data gone before the read |
| configuration publisher | `std_pkg/sync/atomic/value.go` | maps on the heap, the current one, what each reader holds | copy, add, store; load, range, print | maps that may not be read while they are written, no lock, garbage collection |
| sync.Once program | `std_pkg/sync/once.go` | the once, an unbuffered channel | Do, send, receive | a goroutine that comes while f is running; main's return |
| blocking readers | `gmp/call_rawsyscall.go` | readers, a buffered channel, the mode of standard input, an HTTP listener | check, read, send, receive, listen | check and read 20 seconds apart; one receive too many; end by panic or by the runtime |
| SQL session | `std_pkg/database/sql/sql.go` | connection, open rows, transaction | ping, query, next, scan, update, begin, insert, rollback, commit | each request can fail or lose its answer; resources on every way out |
| comparison and copy by reflection | `interface/value.go` (the functions stand in comments of it) | pointers, slices, maps in memory | myDeepEqual, myDeepCopy, main's writes after the copy | what reflect panics at for each kind, nil, cycles, what a copy still shares |
| type metadata walk | `interface/change_type.go` | fields of a type made at run time, their names as bytes | main's loop, readVarint, name, Set | continuation bits, shifts out of the word, no bound on the bytes |
| instruction table lookup | `stack_trace_learn/stack_trace.go` | a table of differences, two addresses, a value | pcvalue, round by round | the first and the last instruction of a range |
| strings and slices | `data_structure/slice/convert.go`, `split.go`, `string/string.go`, `function/fuction_value.go`, `method.go` | blocks of memory, what each variable refers to | String2Bytes, Bytes2String, cut, append, concatenate, write, toUpper, setName, getName | which bytes two variables share; what a capacity lets an append reach; a literal is read-only |
| network poller | `std_pkg/net/poll/main.go`, `io.md` beside it (the runtime's code, traced) | one word per direction that is a state and a waiting goroutine, deadline with sequence number, a lock, timers | Read, pollWait, netpollblock, netpollunblock, netpoll, netpolldeadlineimpl, SetDeadline, Close | ready, deadline and close race for the word, most of it without the lock; netpoll runs in several places at once |
| others | `std_pkg/sync/pool.go`, `std_pkg/runtime/timer/timer.go`, `pprof/heap.go`, `std_pkg/net/http/`, language and library snippets, build notes, `tmp.s` (77,555 generated lines), the `.md` files | - | - | sequential snippets, one call to a library, prose |

**How the parts interact.** They do not call each other; inside a part the
interactions are these. *Echo*: `ch` lets the clients go once the server
listens, `closeChan` lets main return once the server has given up; clients
and handlers speak through the kernel's streams and take descriptors from the
same table. *Atomics*: threads share words and nothing else. *Epoll*: the
kernel puts standard input on the ready list, other processes write to it and
read from it. *Publisher*: one `atomic.Value`. *Once*: a mutex and a flag inside
`sync.Once`, a channel outside. *Readers*: a channel, and the mode of standard
input, which any process on the same terminal may change. *SQL*: a server that
may refuse, or act and not be heard. *Poller*: the reader, the calls of netpoll
(scheduler, monitor and collector make them, several at a time), a timer for
each deadline and the user share the word; timers and user take turns
under `pd.lock`. *Reflection, metadata, table*: sequential; their inputs are what
is varied. *Strings and slices*: sequential, through the memory they share; the order
of the operations is what is varied.

**What makes each correct**: a client that ends without an error has its whole
echo, no goroutine leaks a descriptor and no two wait for each other for
ever (echo); each call is one instant (atomics); the loop never blocks in a
read, keeps nothing and falls behind only where it says so (epoll); what is
printed was once the whole configuration and never goes back (publisher);
nobody passes `Do` before f is done (once); the program stays up while it is
observed (readers); no connection is kept and no insert without the update
(SQL); a read returns for data, for their end, for its own deadline or for a close, and
then does return (poller); what is found equal `reflect.DeepEqual` calls equal, which it
does not always (findings 4 to 7), and nothing else goes wrong; a copy shares nothing
that is written later (reflection); the walk never leaves a name's
bytes and finds the one field (metadata); the value is that of the range the
instruction lies in (table); a string keeps its bytes, unless a conversion without
copying has passed them on (strings and slices).

## 2. Modules, and how they correspond to the code

A goroutine is a program counter (`mpc`, `spc`, `cpc`, `hpc`, `gpc`, `rpc`,
`upc`, `pc`), an action is the stretch of code up to the next point where another
goroutine, the kernel or the server can tell the difference. Printing is left
out everywhere. Operators marked `\* Mutant:` stand before the operator whose
bug they are; no specification uses them. The exact lines are in `map` of
PROJECT.json.

### EchoServer (`std_pkg/net/tcp/main.go`)

| code | model |
|---|---|
| `main` 120-128, `setMaxOpenFile` 112-118 | `MainStep`: `SetMaxOpenFile` (errors ignored, so the limit may stay), `GoStartServer`, `GoClient`, `MainReturn` |
| `startServer` 13-39 | `ServerStep`: `Listen` (its error return closes neither channel), `Announce` (`close(ch)`), `Accept`, `AcceptFail`, `AcceptPark`, `ListenerClose` (the deferred close) |
| `handleRequest` 42-72 | `HandlerStep`: `HandlerNext`, `HandlerRead`, `HandlerWrite`, `HandlerReturn` with the deferred close |
| `clientFunc` 74-110 | `ClientStep`: `ClientAwait`, `DialSocket`, `DialConnect`, `DialFail`, `ClientWrite`, `ClientCloseWrite`, `ClientRead`, `ClientReturn` |
| the kernel | `FdFree`, `PortsUsed`, `Put`, `Get`, `Fin`, `EOF`, `ReadError`, `Reset` |

A connection is named by the client that dialled it. A stream is three things:
bytes sent, bytes got, FIN sent; TCP keeps the order and every client sends the
same text, so counts are enough. Reads and writes may be short, down to a byte.
`Running` guards every goroutine's step: main's return stops them where they are.
`NobodyCanMove` says of each goroutine what it waits for (`MainWaits`, `ServerWaits`,
`HandlerWaits`, `ClientWaits`); `Stopped` is a stuttering step there and nowhere else, so
that a run with TLC's deadlock check on shows that everywhere else somebody does move.

### AtomicWord, MyAtomic (`plan9/my_atomic`)

`MyAtomic` runs `atomic.s` instruction by instruction: arguments into registers
(`MovArgs`), the locked instruction (`Xadd`, `Xchg`, `Cmpxchg`), the second
addition of `AddInt64` (`Addq`), the result slot (`StoreResult`). `AtomicWord` is
what the three functions promise: a call takes effect at an instant and returns
what it saw. `Linearizable == Atomic!Spec` is the refinement: a call is done as
soon as its locked instruction is, and `Outcome` says what its registers will
make it return.

### EpollServer (`std_pkg/runtime/poll/epoll.c`)

`boot_server` step by step (`SetNonblock`, `EpollCreate`, `EpollAdd`), the loop
(`WaitReady` for `handle_events`, `ReadByte` and `ReadNothing` for
`read_all_data`), `WaitError` and `Finalizer`. Around it `Arrive`, `HangUp` and
`Steal`, another reader of the same terminal. `edge` is standard input's place
on the ready list: set by arrival, taken by `epoll_wait`, not set again by what
was left unread. Standard input may be closed or a regular file, and standard
output may be the same open file.

### ConfigValue (`std_pkg/sync/atomic/value.go`)

The writer is `WriterLoad` (load and `make`), `CopyKey` for each key in any order,
`AddKey`, `WriterStore`; a reader is `ReaderLoad`, `RangeKey`, `PrintCfg`. Maps are
addresses of a heap; `range` looks at the map itself, not at a copy taken at
its start, so a write under a reader would be seen. `WriterLoad` takes any
address that `Reachable`, the collector's roots, does not hold.

### NetPoll, PollWait (`std_pkg/net/poll`)

| code | model |
|---|---|
| `FD.Read`, `prepareRead` | `Begin`, `PrepareRead` (forgets an old note), `Syscall` (the non-blocking read: data, perhaps not all of it, the end, or EAGAIN, which alone goes on to wait) |
| `pollWait` | `CheckErr` before and after each block, with `netpollcheckerr` |
| `netpollblock` | `Block` (take a note, or announce the wait), `Recheck`, `Commit` (park, unless the word changed), `Unwait` (take what it says) |
| `netpollunblock`, `goready` | `Load`, `Cas`, `Goready` of each call of netpoll, of each timer and of the user |
| `netpoll` | `Poll`: any of `NetPolls` calls that is free takes the edge that `Arrive` or `HangUp` raised |
| `netpolldeadlineimpl` | `Fire` (the time comes), then the action of that name, once the lock is free |
| `poll_runtime_pollSetDeadline`, `FD.Close` | `SetDeadline`, which bumps `seq` when it moves a timer that is set, and `Close`, which always does |

netpollunblock stands in `main.go` line by line; FD.Read, pollWait, netpoll and
netpolldeadlineimpl stand in `io.md`, and `main.go` has their calls. `rg` is the word: "nil", "ready" (`pdReady`), "wait" (`pdWait`) or "g", the
goroutine. Between `Load` and `Cas` anything may happen to it. A timer has the name
of the `SetDeadline` that set it and keeps the `seq` of that moment (`tseq`).
`PollWait` is what a read promises its caller, with no word, no lock and no
sequence numbers in it; `Implements` is the refinement, with its liveness. `ended` says
that no byte will come any more, because the peer has closed or there was an error, and
`HangUp` makes it so, with the bytes that are unread still there or, for a reset, gone.
The write half (`wg`, `wd`, `wseq`) is left out, and `everr` with it. The two halves share
the lock, the close and, where one call sets both deadlines, the timer and its
sequence number (`rseq`): such a timer goes on to the writer under the same lock.

### Reflection, and MCInterface that gives it values (`interface/value.go`)

| code | model |
|---|---|
| a `reflect.Value` | a location of the memory `mem`; 0 is the zero Value. What lies there is a node: a type, plain data, and the locations it consists of or refers to; of a string the data is which text it is, and it consists of its bytes |
| the methods of `reflect.Value` | `Accepts` (any other kind panics, as in the Go 1.20 of `go.mod`: `Len` and `Index` are for strings too), `Admits` (of pointers only one to an array has a `Len`), `Text` (`String` panics for nothing: of an int it is "<int Value>", of the zero Value "<invalid Value>"), `Pointer`, `IsNil`, `PartKeys`, `Part`, `Size` |
| `myDeepEqual` 29-38 | `myDeepEqual`: the two types, then the first call |
| `myDoDeepEqual` 40-117 | `CallEqual` (what it comes to `AtOnce`), `EqualPart` for each round of a loop and each `Elem`, `EqualReturn` |
| `myDeepCopy` 216-219 | `myDeepCopy` |
| `myDoDeepCopy` 223-260 | `CallCopy` (`Allocated` is what New, MakeSlice and MakeMap make), `CopyPart` (`CanSet`, the call for the part, and its `Set` into the memory, `WithPart`), `CopyReturn` |
| main 262-286 | `Write`: to anything the source refers to, after the copy, something of its type (`Stores`) |

The two recursions are a stack of `calls`, each with the parts it still has to go through,
so aliases and cycles need no special case, and the stack has an end (`Stack`). The keys of
a map come in any order. A copy of a part is put into its place when the call for it
starts, not when it returns: nobody looks at it before. Three histories say what the
properties are about: `same` the pairs a call returned true for, `from` which location each
copied one is the copy of, `snapshot` the memory that was copied. `Differ` and `EqualIf` are the
rules of `reflect.DeepEqual`, and `DeepEqualPairs` what it calls equal by them: the largest
set of pairs such that two are in it if their parts are, since DeepEqual takes for equal what it
is already comparing. `EqualIsDeepEqual` says that the code agrees, which it does not;
`EqualIsJustified` says exactly how far. Of two values of one type it names the exceptions
(`EqualButFor`); values of two types (`SameType`), to which DeepEqual always says no, get as far as
`SeemEqual`: one number of one class (int 0 and int8 0), one length where the code compares
lengths and nothing else follows (an empty map and ""), the bytes of a string and an
array of them, the text "<int Value>" and an int. They meet below interfaces only, as the code
compares types in the first call (line 33) and never again. `IsHeap` is what Go itself sees to
(values of one type have parts of one type, a slice lies inside its block, a string is its
bytes) and is all that is assumed of an input. Two locations are two addresses: a pointer to a
structure and one to its first field, or to an array and a slice of it, are not the same
place here. A channel is empty (its `Len` is 0).

### TypeMetadata, PcValue (`interface/change_type.go`, `stack_trace_learn/stack_trace.go`)

`TypeMetadata` is main: `StructOf` with two fields, `NextField`, one `readVarint` step
for each byte, `name`, `Set`; walking off the bytes is "stray". `Varint` and
`NewName` are how the library writes what main reads. `PcValue` is one `Step` for
each round of pcvalue, on any table that ends as the linker ends one.

### OnceProgram, StdinReaders, SqlSession, and MCPrograms that runs the small ones

`OnceProgram` (`std_pkg/sync/once.go`): `Go` is main's first loop, `Meet` a send on
the unbuffered channel with main's receive, `Return` its end; `Do`, `Lock`,
`Store` and `Unlock` are the library's `sync.Once`.

`StdinReaders` (`gmp/call_rawsyscall.go`): `Check` is `isNonBlock` with its two
panics, `Read` the raw read, `Send`, `Receive` (which returns from main after
`ThreadCount + 1` messages), `Listen` the profiler's server, `AllAsleep` the
runtime's deadlock detection. `SetMode`, `Type` and `HangUp` are other processes.

`SqlSession` (`std_pkg/database/sql/sql.go`): one action for each request and one
for each way out. A request succeeds, is refused, or is carried out with its
answer lost (`Succeed`, `Fail`). The file has `:=` at line 145 where nothing new is
declared, which does not compile; it is read as the assignment it stands for.

`MCPrograms` picks one of the six (these three, `TypeMetadata`, `PcValue`,
`SharedMemory`) and runs it; they have nothing in common but the run.

### SharedMemory (strings and slices)

| code | model |
|---|---|
| a string header, a slice header | `Refs`: block, offset, length, and for a slice the capacity |
| `String2Bytes`, `Bytes2String` | the header with its capacity set or dropped; `mixed` remembers the cells |
| `string(b)`, `[]byte(s)`, `make`, `append` beyond the capacity, `s + t` | `Copy`, `Make`, `Extend`, `Concat`: new memory (`Allocate`), except `s + t` with one of them empty |
| `b[i] = v`, `c = append(b, ...)` within the capacity, c being b or another variable | `Write`, `Extend`: `Overwrite`, a fault where the block is the literal's |
| `s[i:j]`, `b[i:j:k]` | `Substring`, `Reslice`, which panics beyond length or capacity |
| `length, i = toUpper(i)`, or `:=` in the closure | `ToUpper(s, t)`, t the captured variable or one of the closure's own |
| `setName`, `getName`, assignment | `Assign`: the header is copied, the bytes are shared |

The file has each of these once; the model takes them in any order. Some of them stand in
mains that are commented out, one of which faults, as its comment says.

## 3. Runs

| run | instance | what it shows |
|---|---|---|
| echo_safety | 3 clients, two of which may be reset (symmetric), 2-byte requests, 1-byte reads and socket buffers, queue of 1, 3 to 5 descriptors to share, 2 ports; 317,274 states | `EchoComplete`, `BytesInOrder`, `SocketsReleased`, `StopsOnlyWhenDone` |
| echo_live | 2 clients, one may be reset, fair | `ClientsFinish`, `GiveUpEndsProgram` |
| echo_answered | 2 clients, no resets, fair | a counterexample to `RequestsEchoed` (finding 1) |
| atomic_words | 3 threads, 2 words of 2 bits, every mix of six calls; 394,336 states | `TicketsDistinct`, `SwapConserves`, `Linearizable`, `WaitFree` |
| epoll_loop | 4 bytes in bursts of up to 2, every kind of standard input; 2,084 states | `NothingLeaks`, `KeepsUpWithSingleBytes`, `NeverHangsInRead` |
| epoll_all_data | 2 bytes, fair | a counterexample to `AllDataRead` (finding 2) |
| config_value | 2 readers, 3 stores, 4 addresses; 192,076 states | `NoConcurrentMapAccess`, `WholeSnapshots`, `MonotonicReads`, `FreshReads` |
| programs | 5 goroutines; 3 readers, 2 bytes; 2 rows; names of 1 to 5 bytes; tables of up to 3 entries; 2 strings and a slice over a literal and a block of 2 bytes; 115,529 states | `DoneOnceBeforeAnybodyGoesOn`, `OnceReturns`; `OneMessageEach`, `EndsWithoutListener`; `NothingIsKept`, `InsertNeedsUpdate`; `PersonRefersToItself`; `ValueOfTheInstruction`; `StringsKeepTheirBytes` |
| sql_rows | 2 rows | a counterexample to `RowsPrinted` (finding 3) |
| netpoll | a reader, 2 calls of netpoll at a time, 2 deadlines, a close, 2 bytes, their end; fair; 679,242 states | `OneWakeForEachPark`, `ConsistentDeadline`, `Implements` |
| reflection | pairs of values of 25 types over memories of 8 to 22 locations, a stack of 17 calls, then one write; 110,526 states | `EqualIsJustified`, `DifferenceIsReal`, `OverflowMeansCycle`, `CopyStandsAlone` |
| reflection_fields | two structures of four fields that differ in each | a counterexample to `EqualIsDeepEqual`; each field is one of the findings 4 to 7 |

Every run but the counterexamples checks a type invariant too, and every
property is broken by a mutant of the code it speaks about (`mutants`).

**Bounds.** Echo: with two bytes and one-byte buffers a request arrives whole, in
parts, or blocks the writer; three clients for fewer descriptors make dials and
accepts fail at every point; a fourth client brings no new kind of contention,
and the proofs cover any number. Atomics: width 2 wraps with the deltas 1 and 3,
three threads are one more than a race needs. Epoll: a byte before the
registration, one at the edge, one behind it and one with the hangup are four.
ConfigValue: four addresses are what two readers, the current map and the
one being filled can hold at once, so each is handed out again as early as
possible; three stores let a reader be two configurations behind. Programs: one
goroutine inside f, one at the lock, one at the flag, one sending, one ended;
of three readers one can be checking, one reading, one done; names are longer than
one group of their varint holds (a group of 2 values, a word of 16, for 2^7 and 2^64), so
lengths of one, two and three groups occur; three entries are a first, a middle and a last;
a block of two bytes, of which one string shows both and another the first, has a byte
behind the result of String2Bytes for an append to reach.
NetPoll: two deadlines are an old timer that fires late and the one that replaced it;
two bytes are data in the socket and data that comes while a wake-up is under
way; two calls of netpoll are one with an edge under way and one with the next; reads are
not bounded. Reflection: two addresses of each sort, so that two
references are one or two things; two keys; every pair of 26 things in two interfaces; one
write after the copy, since any sharing shows at the first. Seventeen calls of stack are one
more than any memory with a cycle has locations, so that only a cycle uses them up; the memory
with the texts is larger, has none, and no call there goes deeper than three. `CHECK_DEADLOCK
FALSE` stands where a program ends: not for `NetPoll`, where a reader always may
read again, and not for `EchoServer`, where `Stopped` is the one step of a state in which
nobody can move and `StopsOnlyWhenDone` says which states these are. The liveness
properties (`OnceReturns`, `EndsWithoutListener`, `WaitFree`) say it for the others.

**Fairness.** Weak fairness, for goroutines and threads only: the Go scheduler is
preemptive, timers fire, and an operating-system thread that can run runs. A
system call that waits (accept, read, a receive) is an action that is not
enabled. Nothing is assumed of what lies outside: connections need not be reset
or spared, bytes need not arrive, `epoll_wait` need not fail, nobody need
close the terminal. In `ConfigValue` the writer's fairness stops at `MaxWrites`. In
`NetPoll` the reader inside a Read, the polling of a raised edge, each caller of
`netpollunblock` and each callback that waits for the lock are fair one by
one; the user, the data and the clock are not. The lock is held over a few
instructions, and no more often than the deadline is set, fires or the user
closes, so weak fairness is enough.

## 4. Findings

1. *Echo, code bug.* A failed accept closes `closeChan` (line 32), main returns
   and the process ends with handlers still asleep: requests whose connection
   was accepted, and which nobody reset, are never answered.
2. *Epoll, comment and code differ.* `read_all_data` "reads all data of fd" (line
   32) but makes one round with a one-byte buffer on an edge-triggered
   descriptor: of two bytes that arrive together the second stays.
3. *SQL, code bug.* `Scan` is given two destinations for three columns (lines 78,
   90), against the rule the same file states at line 68: no row is ever
   printed, and update and transaction run only when nobody is alive.

The other four are about myDeepEqual, which the comment above it calls "an implementation of
reflect.DeepEqual" (`value.go:25`); the run compares two structures with a field for each.

4. *Reflection, code bug.* The map case looks the key of dst up in dst twice
   (`value.go:87`): any two maps of one length whose values equal themselves are equal.
5. *Reflection, code bug.* The interface case goes on with what both hold and never
   compares the types (`value.go:100`): `any(int(0))` and `any(int8(0))` are equal, and so
   are other values of two types that no method told apart.
6. *Reflection, code bug.* Of slices only the lengths are compared before the elements
   (`value.go:53`): a nil slice and an empty one are equal.
7. *Reflection, code bug.* A nil pointer is followed to the zero Value (`value.go:106`): it
   equals one to a structure or an array without parts. (Others panic.)

Seen while modelling, without a document to hold them against: a failed
`Commit` is ignored and the new id still announced (`sql.go:151`); an error of
`rows.Next` counts as the end of the rows (`sql.go:88`); the failed listen of the
echo server closes no channel, so main and every client wait for ever
(`main.go:17-21`, the second case of `StopsOnlyWhenDone`). The copy panics at a nil
pointer and at a field that is not exported (`CopyStandsAlone` says at nothing else), and
overflows the stack on a cycle (`OverflowMeansCycle`); it shares what an interface
holds. The comparison calls a channel different from itself, and, since it compares a map
with itself, can overflow when only one of the two is cyclic. Finding 7, and that a nil pointer
also equals one to the text "<invalid Value>", came out of the proof: without these exceptions
the invariant about pairs found equal did not hold. The list of questions at the end of
`std_pkg/net/poll/main.go` (lines 168-170) says that a timer that finds a waiting goroutine removes
the socket from the poller, closes it and sends an error; the trace in the same file (57-66) and `io.md`
(208-252) only set `rd` to -1 and wake the goroutine, and so does the model: a Read after the
deadline has been moved is served.

## 5. Proofs

All theorems hold for every value of the constants that satisfies the named
assumptions of the module.

**EchoServerProofs.** `TypeCorrect`. The bytes rest on `ByteInv`, one statement for
each connection that follows a byte around the circle: got never exceeds
sent, FIN is sent only behind the last byte, a handler in its write loop has
the whole request, and so the FIN of the way back stands behind the whole echo.
`EchoComplete` alone is not inductive: a client at EOF says nothing about its
handler. From it `EchoIsComplete`, `EchoFollowsRequest`, `FinIsLast` and, the two in one,
`BytesKeepTheirOrder`.
`ListenBeforeDial` (no client dials a server that does not listen yet) rests on `StartInv`: `ch` is closed only behind the listen.
`NoSocketLeaks` is inductive with the types. `FdsStayWithinLimit` counts: a step
opens at most one socket and only below the limit, and the limit only
grows (`OneMore`, `FdsMove`, from the library's facts on cardinality).

`NobodyIsLeftWaiting` is `Spec => []StopsOnlyWhenDone`: the program stops only where
everything is done. Suppose nobody can move and main has not returned. `ServerInv` says
what the program counters of main and the server and the two channels know of each
other, so that the server is either gone before anybody dials or parked at an empty queue.
`LinkInv` says of each connection, unless it was reset, which of its ends exist: a client
that is connected is in the queue or has a handler, and the other way round; a client that
reads or has returned, and a handler that has returned, has sent its FIN. With the queue empty every connected
client has a handler; and `NoEmbrace` shows that the two cannot both wait: a client that
waits to write has filled a buffer the handler can read from, a client that waits to read
has half-closed, so the handler's next read yields bytes or the EOF, and its writes find the
buffer the client has emptied. The step that matters is `FinKept`: no step but a reset takes a
FIN back. `NobodyCanMove` is written without ENABLED, which the prover cannot
expand; that it is neither too wide nor too narrow is what the deadlock check of echo_safety
and echo_live shows.

**MyAtomicProofs.** `TypeCorrect`, then `AssemblyIsAtomic`: `Spec => Linearizable`, for
any number of threads and words, any width and any calls. `RegInv` says that
the register an instruction is about to use still holds the argument;
`MapTake` maps each locked instruction to `Take`, `MapStutter` everything else to
a stutter, because `Outcome` does not change once it is settled.

`TicketsAreDistinct` and `SwapsConserve` count. `WordStep` says that a step is the
instant of one call or changes nothing that counts. `SwapInv`: of a word that is
only swapped, whatever was put in has been returned or is in it. `TicketInv`:
the outcomes of the increments so far are the last values of the counter
(`Back`), one each; up to as many threads as a word has values they differ,
and the counter may wrap. Both need a finite set of threads
(`ThreadsAssumption`).

**NetPollProofs.** For any number of calls of netpoll. `WokenOnce` rests on `WakeInv`: while the goroutine is in the word
nobody has found it, and once somebody has, it is in no word and nobody else
has; "wait" is there only between `Block` and `Unwait`. `DeadlinesConsistent` is not
inductive, since it speaks of a timer whose callback has begun: `TimerInv` says of
every timer that may still fire with the current `seq` that it is the only one, and
that rd is its deadline. That needs `SeqInv` (no timer is ahead of `seq`), `SetInv` (no
timer that was never set) and `LockInv` (who unblocks under the lock holds it). From
these `ReadKeepsItsPromise`: every step is one of `PollWait` or none; `PromiseStep`
needs `rd = -1 => deadline = "due"` for the timeout.

**EpollProofs.** `HeldInv` (what is open at each place) gives `GivesBack`; `ByteInv` (a
byte waits, was stolen or was echoed) and `EdgeInv` (as long as bytes come alone
there is at most one, and the edge tells of it) give `KeepsUp`, for any number
of bytes.

**ProgramProofs.** `OnceIsOnce` from mutual exclusion
(`MutexInv`) and `DoneInv`: the flag is set behind the call. `NobodyIsCutOff` counts
(`CountInv`). `EveryMessageCounted`: received and buffered messages are the
goroutines that have ended (`MessageInv`), so the last receive never comes.
`ConnectionsComeBack` and `NoInsertAlone` from what is open at each statement
(`OpenInv`, `TxInv`); `NoRowWithoutDestinations` is finding 3 for any number of
columns and destinations that differ. `ProgramsAreTyped`, `ProgramsAreRight` and
`ProgramsKeepStrings` are about `MCPrograms` itself: each step of the run is a step of one program
and a stutter of the others, so the conjunction of the six invariants (`ProgramsInv`) is
inductive and what was proved of each holds of the run.

**SequentialProofs**, first part: two programs that compute by recursion, one over a table and
one over the bytes of a number. What is needed of the natural numbers is proved first, from the fact that <
is well-founded: `Smallest` (a set of naturals that is not empty has a least one),
`Induction` over a set, and `Recursion` (a function defined by its first value and by
how each follows from the last exists), the last with the unions of the partial
solutions (`Prefix`, `PrefixesAgree`, `PrefixExists`). These speak of sets, not of
operators, which is why the provers can use them. From them follow what the recursive functions
of the models are: `SumsAre`, `RestIs`, `ShiftIs`.

`LineOfTheInstruction`: `PcInv` says that after k rounds p is the table without its first k
entries, and nextpc and value are the sums of these (`Walked`), and that the target lies
behind every range passed. `ValueOfTheInstruction` speaks of the end only and is not
inductive. `WalkFindsPerson`: `NewNameIs` says which byte of a name is which,
`GroupsAre` that a varint has an end, and `WalkInv` carries the sum the loop of
readVarint is about: what has been read, plus what is left of the length times
the weight of the next group, is the length. The length is below the size of a word
(`MetadataAssumption`), so no shift loses a bit.

**SequentialProofs**, second part: `StringsAreSafe`, an action property: a step changes a byte that a
string shows only where a conversion has passed it on. `MixInv`: a cell that a string shows
and that a slice can reach, up to its capacity, is in `mixed`; and so is every
cell of the literal that a slice can reach. Without the second half a
literal turned into a slice, and then assigned to a string again, breaks the first.
`SharedIsTyped` is the half of it that keeps every reference inside its block. Each
action is of one of three kinds, with a lemma each: a reference is set
(`SetKeeps`), memory is new (`AllocateKeeps`), bytes are overwritten (`OverwriteKeeps`).

**ConfigValueProofs.** `IInv` has four parts: the current map holds 0 .. n-1
(`CurrentInv`); what a reader ranges over was current once and lies inside it
(`RangeInv`); the map being filled is none of these (`WriterInv`); what was
printed is whole and not ahead (`PrintedInv`). None is inductive alone: a reader's
map stays whole only because nobody else writes it. From it `TypeCorrect`,
`NobodyReadsWhatIsWritten`, `PrintsWholeConfigurations` and, as an action
property, `ConfigurationsGoForward`.

**ReflectionProofs.** Five theorems for any types, any heap (cycles and aliases included),
any two arguments and any depth of the stack; assumed are the kinds of Go
(`TypesAssumption`) and that the inputs are heaps of Go (`InputsAssumption`, by `IsHeap`). The
invariant `IInv` has five parts. `PhaseInv` and `MemoryInv` say what is set when, and
that a memory refers to nothing outside it; `FrameInv` that the calls are about locations of it.

`EqualInv` is about the comparison. None of its properties is inductive, since they speak of the
end: `EqualIsJustified` needs that the parts a call has come past were found equal
(`PastInv`), which its return turns into a pair of `same` that is `Proved`;
`DifferenceIsReal` and `OverflowMeansCycle` need that each call is about a part of the values
of the one before (`ChainInv`), which is also where the wrong look-up of line 87 comes in:
below a map the two sides are one value. Two lemmas then go from the
code's rules to those of the property, kind by kind: `PairJustified` for two values of one type
(`EqualButFor`), where values of one type must have parts of one type, and
`PairSeems` for two of different types (`SeemEqual`). Every exception the theorem names is one that
one of these two proofs needs.

`CopyInv` is about the copy. `CopyOf` says of each location in `from` that it is what it
is the copy of, as far as it has been filled in, that its parts are again in `from`, and that
it lies, with the block of its elements, behind the snapshot; `Filled` that only calls under
way have parts to come. Two copies never have one block (`Holder` is injective), or filling one
would fill the other: `CopyStandsAlone` alone cannot exclude it. `CopyKept` and
`CopyGrows` are the two ways a step leaves a copy. No write through the source reaches any of it, since `Write` stays inside the snapshot.

`OnlyCyclesOverflow` counts: a stack with more calls than there are locations has two calls about one
location (`Pigeons`, from the library's pigeonhole principle), and the calls lead from one to
the next.

**Only model-checked.** Every liveness property, the liveness half of `Implements`
among them: the prover knows no fairness. That a state is without a step only where
`NobodyCanMove` holds: ENABLED. Every safety invariant, every type invariant and every action property of
the passing runs is stated by a theorem.

## 6. Not modelled, and why

The contents of bytes, rows and texts; time (a sleep is a step not yet taken;
the deadline of a dial is a failure at any moment); the weak memory of Go
variables that are not atomic, since none is shared in the programs modelled;
the runtime's limit of 10,000 threads, to which `call_rawsyscall.go` with its 9900 comes
close (the number of threads the runtime needs besides is not in the repository).
`Incr` and `Swap` in `plan9/main.go` report on a channel nobody receives from (the loop that would
start them is commented out); that part is left out. The addition of the assembly has no
caller in the repository: what the model says of it holds of whoever calls it.

Of the poller: writing (a second copy of the same word, with a deadline and a sequence
number of its own), so also a timer that serves both directions; the error `everr` that an event of
nothing but EPOLLERR leaves for the check after it; the retry after EINTR, which comes before
anything else is done; which error ended the bytes (the end of the stream and a read error
other than EAGAIN are one "end"); and a listener's descriptor. Of
`reflect`: the kinds the code treats as it treats one that is there (int16, uint32
and so on; uintptr and complex numbers, which have no case and end in `false`, as a channel does), map keys other than numbers, and the spare capacity of a copied slice. Of strings and slices: TLC's run has one slice, so that `append` into another variable is covered by
the proof, which is for any number; runes, maps and arrays, and the integer a closure of `outter` counts
with. Of the function table
only pcvalue; the rest of that file is prose. The programs listed
as "others" in the inventory: PROJECT.json gives the reason for each.

## 7. Plan

Written, in the order of what matters most: `EchoServer`, `MyAtomic` with
`AtomicWord`, `EpollServer`, `ConfigValue`, `OnceProgram`, `StdinReaders`,
`SqlSession`; then `NetPoll` with `PollWait`, `Reflection`, `TypeMetadata`, `PcValue` and
`SharedMemory`; and the proofs of all of them.

What could follow: the write direction of the poller, with one `SetDeadline` that
moves both timers (`combo` in the runtime); a second reader of one connection, which
the runtime keeps out by an fdMutex that the notes only name. The programs that
are left have one order of steps each.
