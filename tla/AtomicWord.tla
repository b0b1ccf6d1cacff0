----------------------------- MODULE AtomicWord -----------------------------
(***************************************************************************)
(* What the three functions of src/plan9/my_atomic promise: each call      *)
(* takes effect at one instant, on one Width-bit word, and returns what    *)
(* that instant saw.  atomic.go declares them, atomic.s implements them    *)
(* (MyAtomic.tla).                                                         *)
(***************************************************************************)
EXTENDS Integers

CONSTANTS
  Threads,  \* the callers, one call each
  Addrs,    \* the words they call on
  Width,    \* bits of a word, 64 in the code
  Calls     \* the calls a thread may make

Word == 0 .. 2^Width - 1

\* Two's complement addition, a word being the residue of its int64.
Wrap(x) == x % 2^Width

\* x is delta (add), new (swap) or old (cas); y is new (cas).
CallType == [op : {"add", "swap", "cas"}, addr : Addrs, x : Word, y : Word]

VARIABLES
  mem,   \* the words
  call,  \* the call of each thread
  done,  \* threads whose call has taken effect
  res    \* what it returns (for cas, 1 if swapped and 0 if not)

wordVars == <<mem, call, done, res>>

Init ==
  /\ mem \in [Addrs -> Word]
  /\ call \in [Threads -> Calls]
  /\ done = {}
  /\ res = [t \in Threads |-> 0]

\* What a call writes to a word that holds v, and what it returns.
Effect(k, v) ==
  CASE k.op = "add"  -> Wrap(v + k.x)
    [] k.op = "swap" -> k.x
    [] k.op = "cas"  -> IF v = k.x THEN k.y ELSE v

Result(k, v) ==
  CASE k.op = "add"  -> Wrap(v + k.x)
    [] k.op = "swap" -> v
    [] k.op = "cas"  -> IF v = k.x THEN 1 ELSE 0

Take(t) ==
  /\ t \notin done
  /\ done' = done \cup {t}
  /\ mem' = [mem EXCEPT ![call[t].addr] = Effect(call[t], @)]
  /\ res' = [res EXCEPT ![t] = Result(call[t], mem[call[t].addr])]
  /\ UNCHANGED call

Next == \E t \in Threads : Take(t)

Spec == Init /\ [][Next]_wordVars
=============================================================================
