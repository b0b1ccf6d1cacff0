----------------------------- MODULE EchoServer -----------------------------
(***************************************************************************)
(* The TCP echo program of src/std_pkg/net/tcp/main.go: main, one server   *)
(* goroutine, one goroutine per client and one handler per accepted        *)
(* connection, all in ONE process with one descriptor table.  main returns *)
(* when closeChan is closed, which ends every other goroutine anywhere.    *)
(*                                                                         *)
(* A connection is named by the client that dialled it.  A stream is how   *)
(* many bytes were sent and received and whether FIN was sent: TCP keeps   *)
(* the order, and all clients send the same text.                          *)
(***************************************************************************)
EXTENDS Integers, Sequences, FiniteSets

CONSTANTS
  Clients,    \* the client goroutines, and so the connections
  InfoLen,    \* len(info): the bytes each client sends ("ping")
  BufSize,    \* the length of tmpBuf, the most one Read returns
  SockBuf,    \* the capacity of one direction of a connection in the kernel
  Backlog,    \* the capacity of the listener's accept queue
  BaseFds,    \* descriptors the process holds besides the connections
  SoftLimit,  \* RLIMIT_NOFILE before main, limit.Cur
  HardLimit,  \* its ceiling, limit.Max
  Ports,      \* the ephemeral ports a dialling socket can be given
  Flaky       \* the connections the network may reset

ASSUME LengthsAssumption ==
  InfoLen \in Nat /\ BufSize \in Nat \ {0} /\ SockBuf \in Nat \ {0}

ASSUME LimitsAssumption ==
  /\ IsFiniteSet(Clients) /\ Flaky \subseteq Clients
  /\ Backlog \in Nat \ {0} /\ Ports \in Nat
  /\ BaseFds \in Nat /\ SoftLimit \in Nat /\ HardLimit \in Nat
  /\ BaseFds <= SoftLimit /\ SoftLimit <= HardLimit

VARIABLES
  mpc, spc,   \* where main and startServer are
  cpc, hpc,   \* where each clientFunc and each handleRequest is
  closed,     \* which of the two channels ch and closeChan are closed
  fdLimit,    \* the process's RLIMIT_NOFILE
  open,       \* the open sockets: <<"client", c>> and <<"server", c>>
  queue,      \* the listener's accept queue
  up, down,   \* the streams client -> server and server -> client
  rst         \* connections that were reset

net  == <<up, down, rst>>
vars == <<mpc, spc, cpc, hpc, closed, fdLimit, open, queue, net>>

ClientPCs  == {"unborn", "await", "dial", "connect", "write", "read",
               "ok", "failed"}
HandlerPCs == {"none", "sleep", "read", "write", "ok", "failed"}
Stream     == [sent : Nat, got : Nat, fin : BOOLEAN]

TypeOK ==
  /\ mpc \in {"setlimit", "boot", "spawn", "exited"}
  /\ spc \in {"unborn", "listen", "announce", "accept", "park", "close",
              "closed", "dead"}
  /\ cpc \in [Clients -> ClientPCs]
  /\ hpc \in [Clients -> HandlerPCs]
  /\ closed \subseteq {"ch", "closeChan"}
  /\ fdLimit \in {SoftLimit, HardLimit}
  /\ open \subseteq {"client", "server"} \X Clients
  /\ queue \in Seq(Clients)
  /\ up \in [Clients -> Stream]
  /\ down \in [Clients -> Stream]
  /\ rst \subseteq Clients

NewStream == [sent |-> 0, got |-> 0, fin |-> FALSE]

Init ==
  /\ mpc = "setlimit" /\ spc = "unborn"
  /\ cpc = [c \in Clients |-> "unborn"]
  /\ hpc = [c \in Clients |-> "none"]
  /\ closed = {} /\ fdLimit = SoftLimit /\ open = {} /\ queue = <<>>
  /\ up = [c \in Clients |-> NewStream]
  /\ down = [c \in Clients |-> NewStream]
  /\ rst = {}

-----------------------------------------------------------------------------
(* The kernel: descriptors, ports and streams.                             *)

Running == mpc # "exited"
FdsInUse == BaseFds + Cardinality(open)

FdFree == FdsInUse < fdLimit

Listening == spc \in {"announce", "accept", "park", "close"}
PortsUsed(stages) == Cardinality({c \in Clients : cpc[c] \in stages})

\* Goroutine c of kind pc goes from one stage to another.
Move(pc, c, from, to) == pc[c] = from /\ pc' = [pc EXCEPT ![c] = to]

InKernel(s, c) == s[c].sent - s[c].got

\* Write hands the kernel some of the bytes still to send.
Put(s, c, len) ==
  \E n \in 1..SockBuf :
    /\ s[c].sent + n <= len
    /\ InKernel(s, c) + n <= SockBuf
    /\ s' = [s EXCEPT ![c].sent = @ + n]

\* Read returns some of what has arrived, and totalBuf grows by it.
Get(s, c) ==
  \E n \in 1..BufSize :
    n <= InKernel(s, c) /\ s' = [s EXCEPT ![c].got = @ + n]

EOFWhenDrained(s, c) == InKernel(s, c) = 0 /\ s[c].got > 0     \* Mutant.
EOFOnError(s, c) == InKernel(s, c) = 0 /\ (s[c].fin \/ c \in rst)  \* Mutant.
EOF(s, c) == InKernel(s, c) = 0 /\ s[c].fin
ReadError(s, c) == InKernel(s, c) = 0 /\ ~s[c].fin /\ c \in rst

FinNot(s, c) == s' = s  \* Mutant: the writing side stays open.
\* CloseWrite and Close send FIN unless the connection is already reset.
Fin(s, c) == s' = [s EXCEPT ![c].fin = @ \/ c \notin rst]

-----------------------------------------------------------------------------
(* main                                                                    *)

SetMaxOpenFileUnread ==  \* Mutant: without Getrlimit, limit.Max is still zero.
  /\ mpc = "setlimit" /\ mpc' = "boot"
  /\ fdLimit' \in {fdLimit, 0}
  /\ UNCHANGED <<spc, cpc, hpc, closed, open, queue, net>>

\* Neither call's error is looked at, so the limit may stay what it was.
SetMaxOpenFile ==
  /\ mpc = "setlimit" /\ mpc' = "boot"
  /\ fdLimit' \in {fdLimit, HardLimit}
  /\ UNCHANGED <<spc, cpc, hpc, closed, open, queue, net>>

GoStartServer ==
  /\ mpc = "boot" /\ mpc' = "spawn" /\ spc' = "listen"
  /\ UNCHANGED <<cpc, hpc, closed, fdLimit, open, queue, net>>

GoClient(c) ==
  /\ mpc = "spawn" /\ Move(cpc, c, "unborn", "await")
  /\ UNCHANGED <<mpc, spc, hpc, closed, fdLimit, open, queue, net>>

MainReturn ==
  /\ mpc = "spawn" /\ \A c \in Clients : cpc[c] # "unborn"
  /\ "closeChan" \in closed
  /\ mpc' = "exited"
  /\ UNCHANGED <<spc, cpc, hpc, closed, fdLimit, open, queue, net>>

MainStep ==
  SetMaxOpenFile \/ GoStartServer \/ (\E c \in Clients : GoClient(c)) \/ MainReturn

-----------------------------------------------------------------------------
(* startServer                                                             *)

\* The early return on an error closes neither ch nor closeChan.
Listen ==
  /\ spc = "listen" /\ spc' \in {"announce", "dead"}
  /\ UNCHANGED <<mpc, cpc, hpc, closed, fdLimit, open, queue, net>>

Announce ==
  /\ spc = "announce" /\ spc' = "accept"
  /\ closed' = closed \cup {"ch"}
  /\ UNCHANGED <<mpc, cpc, hpc, fdLimit, open, queue, net>>

Accept ==
  /\ spc = "accept" /\ FdFree /\ queue # <<>>
  /\ queue' = Tail(queue)
  /\ open' = open \cup {<<"server", Head(queue)>>}
  /\ hpc' = [hpc EXCEPT ![Head(queue)] = "sleep"]
  /\ UNCHANGED <<mpc, spc, cpc, closed, fdLimit, net>>

AcceptFailSilent ==  \* Mutant: the server returns and nobody tells main.
  /\ spc = "accept" /\ ~FdFree /\ spc' = "close"
  /\ UNCHANGED <<mpc, cpc, hpc, closed, fdLimit, open, queue, net>>

\* accept4 reserves a descriptor before it looks at the queue, so a full
\* table fails the call (EMFILE) whether or not a connection is there.
AcceptFail ==
  /\ spc = "accept" /\ ~FdFree /\ spc' = "close"
  /\ closed' = closed \cup {"closeChan"}
  /\ UNCHANGED <<mpc, cpc, hpc, fdLimit, open, queue, net>>

\* On EAGAIN the goroutine is parked until the listener becomes readable.
AcceptPark ==
  /\ \/ spc = "accept" /\ FdFree /\ queue = <<>> /\ spc' = "park"
     \/ spc = "park" /\ queue # <<>> /\ spc' = "accept"
  /\ UNCHANGED <<mpc, cpc, hpc, closed, fdLimit, open, queue, net>>

\* The deferred listener.Close(): the kernel resets what was never accepted.
ListenerClose ==
  /\ spc = "close" /\ spc' = "closed"
  /\ rst' = rst \cup {queue[i] : i \in DOMAIN queue} /\ queue' = <<>>
  /\ UNCHANGED <<mpc, cpc, hpc, closed, fdLimit, open, up, down>>

ServerStep ==
  /\ Running
  /\ Listen \/ Announce \/ Accept \/ AcceptFail \/ AcceptPark \/ ListenerClose

-----------------------------------------------------------------------------
(* handleRequest: read until EOF, then write everything back.              *)

\* A stage that ends without a return: the sleep is over, or EOF is read.
HandlerNext(c) ==
  /\ \/ Move(hpc, c, "sleep", "read")
     \/ EOF(up, c) /\ Move(hpc, c, "read", "write")
  /\ UNCHANGED <<mpc, spc, cpc, closed, fdLimit, open, queue, net>>

HandlerRead(c) ==
  /\ hpc[c] = "read" /\ Get(up, c)
  /\ UNCHANGED <<mpc, spc, cpc, hpc, closed, fdLimit, open, queue, down, rst>>

HandlerWrite(c) ==
  /\ hpc[c] = "write" /\ c \notin rst /\ Put(down, c, up[c].got)
  /\ UNCHANGED <<mpc, spc, cpc, hpc, closed, fdLimit, open, queue, up, rst>>

HandlerReturnLeak(c) ==  \* Mutant: the error return precedes the defer.
  /\ \/ ReadError(up, c) /\ Move(hpc, c, "read", "failed") /\ open' = open
     \/ /\ down[c].sent = up[c].got /\ Move(hpc, c, "write", "ok")
        /\ open' = open \ {<<"server", c>>}
  /\ Fin(down, c)
  /\ UNCHANGED <<mpc, spc, cpc, closed, fdLimit, queue, up, rst>>

HandlerReturnOpen(c) ==  \* Mutant: no deferred conn.Close() at all.
  /\ \/ c \in rst /\ Move(hpc, c, hpc[c], "failed") /\ hpc[c] \in {"read", "write"}
     \/ down[c].sent = up[c].got /\ Move(hpc, c, "write", "ok")
  /\ UNCHANGED <<mpc, spc, cpc, closed, fdLimit, open, queue, net>>

\* A return, on an error or at the end, and the deferred conn.Close().
HandlerReturn(c) ==
  /\ \/ ReadError(up, c) /\ Move(hpc, c, "read", "failed")
     \/ /\ c \in rst /\ down[c].sent < up[c].got
        /\ Move(hpc, c, "write", "failed")
     \/ down[c].sent = up[c].got /\ Move(hpc, c, "write", "ok")
  /\ open' = open \ {<<"server", c>>} /\ Fin(down, c)
  /\ UNCHANGED <<mpc, spc, cpc, closed, fdLimit, queue, up, rst>>

HandlerStep(c) ==
  /\ Running
  /\ HandlerNext(c) \/ HandlerRead(c) \/ HandlerWrite(c) \/ HandlerReturn(c)

-----------------------------------------------------------------------------
(* clientFunc: wait for ch, dial, write info, CloseWrite, read until EOF.  *)

ClientAwaitNot(c) ==  \* Mutant: clientFunc without <-ch.
  /\ Move(cpc, c, "await", "dial")
  /\ UNCHANGED <<mpc, spc, hpc, closed, fdLimit, open, queue, net>>

ClientAwait(c) ==
  /\ "ch" \in closed /\ Move(cpc, c, "await", "dial")
  /\ UNCHANGED <<mpc, spc, hpc, closed, fdLimit, open, queue, net>>

DialSocket(c) ==
  /\ FdFree /\ Move(cpc, c, "dial", "connect")
  /\ open' = open \cup {<<"client", c>>}
  /\ UNCHANGED <<mpc, spc, hpc, closed, fdLimit, queue, net>>

\* The kernel completes the handshake without the server goroutine.
DialConnect(c) ==
  /\ Listening /\ Len(queue) < Backlog /\ PortsUsed({"write", "read"}) < Ports
  /\ Move(cpc, c, "connect", "write") /\ queue' = Append(queue, c)
  /\ UNCHANGED <<mpc, spc, hpc, closed, fdLimit, open, net>>

\* No descriptor; or refused by a closed listener, timed out on a full accept
\* queue, or out of ports, which a finished client may still hold (TIME_WAIT).
DialFail(c) ==
  /\ \/ ~FdFree /\ Move(cpc, c, "dial", "failed")
     \/ /\ \/ ~Listening \/ Len(queue) >= Backlog
           \/ PortsUsed({"write", "read", "ok"}) >= Ports
        /\ Move(cpc, c, "connect", "failed")
  /\ open' = open \ {<<"client", c>>}
  /\ UNCHANGED <<mpc, spc, hpc, closed, fdLimit, queue, net>>

ClientWrite(c) ==
  /\ cpc[c] = "write" /\ c \notin rst /\ Put(up, c, InfoLen)
  /\ UNCHANGED <<mpc, spc, cpc, hpc, closed, fdLimit, open, queue, down, rst>>

ClientCloseWriteEarly(c) ==  \* Mutant: a short count of Write goes unnoticed.
  /\ up[c].sent > 0 /\ Move(cpc, c, "write", "read") /\ Fin(up, c)
  /\ UNCHANGED <<mpc, spc, hpc, closed, fdLimit, open, queue, down, rst>>

ClientCloseWrite(c) ==
  /\ up[c].sent = InfoLen /\ Move(cpc, c, "write", "read") /\ Fin(up, c)
  /\ UNCHANGED <<mpc, spc, hpc, closed, fdLimit, open, queue, down, rst>>

ClientRead(c) ==
  /\ cpc[c] = "read" /\ Get(down, c)
  /\ UNCHANGED <<mpc, spc, cpc, hpc, closed, fdLimit, open, queue, up, rst>>

\* A return, on an error or at EOF, and the deferred conn.Close().
ClientReturn(c) ==
  /\ \/ /\ c \in rst /\ up[c].sent < InfoLen
        /\ Move(cpc, c, "write", "failed")
     \/ ReadError(down, c) /\ Move(cpc, c, "read", "failed")
     \/ EOF(down, c) /\ Move(cpc, c, "read", "ok")
  /\ open' = open \ {<<"client", c>>} /\ Fin(up, c)
  /\ UNCHANGED <<mpc, spc, hpc, closed, fdLimit, queue, down, rst>>

ClientStep(c) ==
  /\ Running
  /\ \/ ClientAwait(c) \/ DialSocket(c) \/ DialConnect(c) \/ DialFail(c)
     \/ ClientWrite(c) \/ ClientCloseWrite(c) \/ ClientRead(c) \/ ClientReturn(c)

\* The network resets an established connection.
Reset(c) ==
  /\ Running /\ c \in Flaky \ rst /\ cpc[c] \in {"write", "read"}
  /\ rst' = rst \cup {c}
  /\ UNCHANGED <<mpc, spc, cpc, hpc, closed, fdLimit, open, queue, up, down>>

-----------------------------------------------------------------------------
GoroutineStep ==
  MainStep \/ ServerStep \/ \E c \in Clients : HandlerStep(c) \/ ClientStep(c)

(* Where nobody has a step: the same guards, the other way round.          *)

MainWaits ==
  /\ mpc = "spawn" /\ \A c \in Clients : cpc[c] # "unborn"
  /\ "closeChan" \notin closed

ServerWaits == spc \in {"unborn", "dead", "closed"} \/ (spc = "park" /\ queue = <<>>)

\* A write that finds the kernel's buffer full, a read that finds it empty.
WriteWaits(s, c, len) ==
  c \notin rst /\ s[c].sent < len /\ InKernel(s, c) >= SockBuf
ReadWaits(s, c) == c \notin rst /\ InKernel(s, c) = 0 /\ ~s[c].fin

HandlerWaits(c) ==
  \/ hpc[c] \in {"none", "ok", "failed"}
  \/ hpc[c] = "read" /\ ReadWaits(up, c)
  \/ hpc[c] = "write" /\ WriteWaits(down, c, up[c].got)

\* A dial always gets an answer.
ClientWaits(c) ==
  \/ cpc[c] \in {"unborn", "ok", "failed"}
  \/ cpc[c] = "await" /\ "ch" \notin closed
  \/ cpc[c] = "write" /\ WriteWaits(up, c, InfoLen)
  \/ cpc[c] = "read" /\ ReadWaits(down, c)

NobodyCanMove ==
  \/ mpc = "exited"
  \/ /\ MainWaits /\ ServerWaits
     /\ \A c \in Clients : HandlerWaits(c) /\ ClientWaits(c)

\* A step of TLC's only: a state in which nobody can move, and no other, is one
\* in which the program may stop.
Stopped == NobodyCanMove /\ UNCHANGED vars

Next == GoroutineStep \/ Stopped \/ \E c \in Clients : Reset(c)

Spec == Init /\ [][Next]_vars

\* The Go scheduler is preemptive and its timers fire: a goroutine that can
\* run for ever does run.  Nothing forces the network to reset anything.
Fairness ==
  /\ WF_vars(MainStep)
  /\ WF_vars(ServerStep)
  /\ \A c \in Clients : WF_vars(HandlerStep(c)) /\ WF_vars(ClientStep(c))

FairSpec == Spec /\ Fairness

-----------------------------------------------------------------------------
(* What the program promises.                                              *)

\* A client that reaches the end of its read loop without an error got back
\* every byte it sent: no reset, early close or short write can be taken
\* for the end of the echo (clientFunc's EOF branch, line 103).
EchoComplete == \A c \in Clients : cpc[c] = "ok" => down[c].got = InfoLen

\* handleRequest echoes nothing before it has the client's whole request,
\* however the request was cut into reads, and never more than it has.
EchoAfterWhole ==
  \A c \in Clients :
    /\ down[c].sent > 0 => up[c].got = InfoLen
    /\ down[c].got <= down[c].sent /\ down[c].sent <= up[c].got

\* FIN travels behind the bytes: one from the client means that its whole
\* request was written, a handler past its read loop holds all of it, and one
\* from the handler means that all of it was echoed.
FinAfterBytes ==
  \A c \in Clients :
    /\ up[c].got <= up[c].sent /\ up[c].sent <= InfoLen
    /\ up[c].fin => up[c].sent = InfoLen
    /\ hpc[c] \in {"write", "ok"} => up[c].got = InfoLen
    /\ down[c].fin => down[c].sent = InfoLen

BytesInOrder == EchoAfterWhole /\ FinAfterBytes

\* No client dials before the server listens (close(ch) is after ListenTCP
\* and every clientFunc starts with <-ch), so none is refused for being early.
DialAfterListen ==
  \A c \in Clients :
    cpc[c] \notin {"unborn", "await"} =>
      spc \in {"accept", "park", "close", "closed"}

\* A descriptor is held by exactly one living goroutine: every return of
\* clientFunc and handleRequest gives its own back, a failed dial included,
\* and none is given back while a goroutine still uses it.
SocketsReleased ==
  \A c \in Clients :
    /\ <<"client", c>> \in open <=> cpc[c] \in {"connect", "write", "read"}
    /\ <<"server", c>> \in open <=> hpc[c] \in {"sleep", "read", "write"}

\* Server and clients share one descriptor table: together they stay within
\* the limit setMaxOpenFile left.
FdsWithinLimit == FdsInUse <= fdLimit

\* No goroutine can move in three cases only: main returned; the listener
\* could not be made, and then every client is still waiting for it; or all
\* clients and handlers have returned and the server waits for more.  In
\* particular no client and handler ever wait for each other.
StopsOnlyWhenDone ==
  NobodyCanMove =>
    \/ mpc = "exited"
    \/ spc = "dead" /\ \A c \in Clients : cpc[c] = "await"
    \/ /\ spc = "park"
       /\ \A c \in Clients : /\ cpc[c] \in {"ok", "failed"}
                            /\ hpc[c] \in {"none", "ok", "failed"}

\* Every client that was let through to the dial comes to an end, unless
\* main's return ends it first: the half-closes and EOFs of the two sides
\* always meet.
ClientsFinish ==
  \A c \in Clients :
    cpc[c] = "dial" ~> cpc[c] \in {"ok", "failed"} \/ mpc = "exited"

\* A server that stops accepting takes the program with it, even while main
\* is still starting clients: nobody is left waiting for a server that is gone.
GiveUpEndsProgram == spc = "close" ~> mpc = "exited"

\* The comment on handleRequest (line 41) says that it echoes the request: a
\* connection whose handler was started and that nobody resets is answered.
RequestsEchoed ==
  \A c \in Clients : hpc[c] = "sleep" ~> cpc[c] = "ok" \/ c \in rst
=============================================================================
