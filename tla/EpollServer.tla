---------------------------- MODULE EpollServer ----------------------------
(***************************************************************************)
(* The edge-triggered epoll loop of src/std_pkg/runtime/poll/epoll.c: it   *)
(* echoes standard input.  The kernel's side is the ready list (edge), the *)
(* bytes waiting in standard input and the writers and other readers that  *)
(* share it.  epoll_wait's timeout and EINTR only print and go round, so   *)
(* they are no steps; read's EINTR branch is dead, since the one handler   *)
(* is installed with SA_RESTART and the read does not block.               *)
(***************************************************************************)
EXTENDS Integers

CONSTANTS
  MaxSent,  \* bound: bytes written to standard input, in all
  MaxBurst  \* bound: bytes that arrive at once

ASSUME BoundsAssumption == MaxSent \in Nat /\ MaxBurst \in Nat \ {0}

VARIABLES
  pc,         \* where boot_server is
  kind,       \* what standard input is: closed, a regular file, a stream
  shared,     \* standard output is the same open file as standard input
  nonblock,   \* O_NONBLOCK is set on standard input
  epfd,       \* the epoll instance is open
  event,      \* the epoll_event is allocated
  edge,       \* standard input is on the ready list
  stdin,      \* bytes waiting
  hup,        \* every writer has closed
  sent, taken, out,  \* bytes written to it, read by others, echoed
  burst       \* history: data arrived that did not come alone to an idle loop

server == <<pc, epfd, event>>
world  == <<kind, shared>>
flow   == <<stdin, hup, sent, taken>>
vars   == <<server, world, nonblock, edge, flow, out, burst>>

TypeOK ==
  /\ pc \in {"nonblock", "create", "add", "wait", "read", "exited"}
  /\ kind \in {"closed", "file", "stream"}
  /\ shared \in BOOLEAN /\ nonblock \in BOOLEAN /\ epfd \in BOOLEAN
  /\ event \in BOOLEAN /\ edge \in BOOLEAN /\ hup \in BOOLEAN /\ burst \in BOOLEAN
  /\ stdin \in Nat /\ sent \in 0..MaxSent
  /\ taken \in 0..sent /\ out \in 0..sent

Init ==
  /\ pc = "nonblock" /\ kind \in {"closed", "file", "stream"}
  /\ shared \in BOOLEAN /\ nonblock \in BOOLEAN
  /\ epfd = FALSE /\ event = FALSE /\ edge = FALSE /\ hup = FALSE
  /\ stdin = 0 /\ sent = 0 /\ taken = 0 /\ out = 0 /\ burst = FALSE

-----------------------------------------------------------------------------
SetNonblockNot ==  \* Mutant: F_SETFL with the flags as they were.
  /\ pc = "nonblock" /\ pc' = "create"
  /\ UNCHANGED <<epfd, event, world, nonblock, edge, flow, out, burst>>

\* fcntl fails on a closed descriptor only, and nobody looks.
SetNonblock ==
  /\ pc = "nonblock" /\ pc' = "create"
  /\ nonblock' = (nonblock \/ kind # "closed")
  /\ UNCHANGED <<epfd, event, world, edge, flow, out, burst>>

EpollCreate ==
  /\ pc = "create"
  /\ \/ pc' = "add" /\ epfd' = TRUE
     \/ pc' = "exited" /\ UNCHANGED epfd
  /\ UNCHANGED <<event, world, nonblock, edge, flow, out, burst>>

FinalizerLeak == epfd' = epfd /\ event' = FALSE  \* Mutant: epfd stays open.
\* finalizer leaves standard input open.
Finalizer == epfd' = FALSE /\ event' = FALSE

\* Only a stream can be polled (EBADF, EPERM otherwise); what is ready
\* already goes on the ready list at once.
EpollAdd ==
  /\ pc = "add"
  /\ IF kind = "stream"
     THEN /\ pc' = "wait" /\ event' = TRUE
          /\ edge' = (stdin > 0 \/ hup) /\ UNCHANGED epfd
     ELSE pc' = "exited" /\ Finalizer /\ UNCHANGED edge
  /\ UNCHANGED <<world, nonblock, flow, out, burst>>

WaitReadyOnly ==  \* Mutant: events == EPOLLIN, so EPOLLIN|EPOLLHUP is missed.
  /\ pc = "wait" /\ edge /\ edge' = FALSE
  /\ pc' = IF stdin > 0 /\ ~hup THEN "read" ELSE "wait"
  /\ UNCHANGED <<epfd, event, world, nonblock, flow, out, burst>>

\* EPOLLET: reported once, and off the ready list.  With no data left there
\* is no EPOLLIN in the event (nothing, or EPOLLHUP), and it is skipped.
WaitReady ==
  /\ pc = "wait" /\ edge /\ edge' = FALSE
  /\ pc' = IF stdin > 0 THEN "read" ELSE "wait"
  /\ UNCHANGED <<epfd, event, world, nonblock, flow, out, burst>>

WaitError ==
  /\ pc = "wait" /\ pc' = "exited" /\ Finalizer
  /\ UNCHANGED <<world, nonblock, edge, flow, out, burst>>

ReadByteTwice ==  \* Mutant: a buffer of two, written whole, whatever was read.
  /\ pc = "read" /\ pc' = "wait" /\ stdin > 0
  /\ stdin' = stdin - 1 /\ out' = out + 2
  /\ UNCHANGED <<epfd, event, world, nonblock, edge, hup, sent, taken, burst>>

\* read_all_data: BUFSIZE is 1 and so is the number of rounds.  The write is
\* not looked at: it may be refused where O_NONBLOCK hit the output as well.
ReadByte ==
  /\ pc = "read" /\ pc' = "wait" /\ stdin > 0
  /\ stdin' = stdin - 1
  /\ out' \in {out + 1} \cup (IF shared THEN {out} ELSE {})
  /\ UNCHANGED <<epfd, event, world, nonblock, edge, hup, sent, taken, burst>>

\* Nothing there any more: EAGAIN, end of file or, from a terminal that hung
\* up, an error; a blocking read waits.
ReadNothing ==
  /\ pc = "read" /\ pc' = "wait" /\ stdin = 0 /\ (nonblock \/ hup)
  /\ UNCHANGED <<epfd, event, world, nonblock, edge, flow, out, burst>>

ServerStep ==
  \/ SetNonblock \/ EpollCreate \/ EpollAdd
  \/ WaitReady \/ ReadByte \/ ReadNothing

\* Data arrives, or the last writer closes: an edge, once it is registered.
Arrive(n) ==
  /\ kind = "stream" /\ ~hup /\ sent + n <= MaxSent
  /\ sent' = sent + n /\ stdin' = stdin + n
  /\ edge' = (edge \/ event)
  /\ burst' = (burst \/ n > 1 \/ stdin > 0 \/ pc = "read")
  /\ UNCHANGED <<server, world, nonblock, hup, taken, out>>

HangUp ==
  /\ kind = "stream" /\ ~hup /\ hup' = TRUE
  /\ edge' = (edge \/ event)
  /\ UNCHANGED <<server, world, nonblock, stdin, sent, taken, out, burst>>

\* Another process that reads the same terminal or pipe.
Steal ==
  /\ stdin > 0 /\ stdin' = stdin - 1 /\ taken' = taken + 1
  /\ UNCHANGED <<server, world, nonblock, edge, hup, sent, out, burst>>

Next ==
  \/ ServerStep \/ WaitError
  \/ (\E n \in 1..MaxBurst : Arrive(n)) \/ HangUp \/ Steal

Spec == Init /\ [][Next]_vars

\* The process is scheduled; epoll_wait need not fail, nor data arrive.
FairSpec == Spec /\ WF_vars(ServerStep)

-----------------------------------------------------------------------------
\* Whatever way boot_server returns, the epoll instance is closed and the
\* event freed (finalizer).
NothingLeaks == pc = "exited" => ~epfd /\ ~event

\* One byte at a time works: as long as each byte comes to a loop that has
\* dealt with those before, an idle loop has left none behind, whether it
\* came before the registration, with a hangup, or was stolen in between; and
\* what was not stolen was echoed, unless the output refused it.
KeepsUpWithSingleBytes ==
  pc = "wait" /\ ~edge /\ ~burst =>
    stdin = 0 /\ (~shared => sent = taken + out)

\* A readable descriptor may be empty by the time it is read: the loop never
\* hangs in that read.
NeverHangsInRead == pc = "read" ~> pc # "read"

\* The comment of read_all_data (line 32): it reads ALL data of fd and prints
\* it, so what has arrived does not stay behind while the loop runs.
AllDataRead == stdin > 0 ~> stdin = 0 \/ pc = "exited"
=============================================================================
