------------------------------ MODULE NetPoll ------------------------------
(***************************************************************************)
(* How a goroutine waits for a socket, as std_pkg/net/poll/main.go traces  *)
(* it through the runtime: netpollunblock is there line by line, FD.Read,  *)
(* pollWait, netpoll and netpolldeadlineimpl are in io.md beside it.       *)
(* conn.Read of one goroutine, those that call netpoll, the timers of the  *)
(* deadline, and a user that moves the deadline or closes.  One word, rg,  *)
(* says that the socket is ready, that nobody waits, that somebody is      *)
(* about to, or who does.  Writes have a word, a deadline and an everr of  *)
(* their own, which are left out: what the two halves share is the lock    *)
(* and, where one call sets both deadlines, the timer and its number.      *)
(***************************************************************************)
EXTENDS Integers, FiniteSets

CONSTANTS NetPolls, \* calls of netpoll at a time: scheduler, monitor, collector
          MaxSets,  \* bound: calls of SetDeadline
          MaxBytes  \* bound: bytes that ever arrive

ASSUME BoundsAssumption == NetPolls \in Nat /\ MaxSets \in Nat /\ MaxBytes \in Nat

VARIABLES
  pc, last,     \* the reader, and how its last Read ended
  rg,           \* "nil" "ready" (pdReady) "wait" (pdWait) "g" (the goroutine)
  lock,         \* who holds pd.lock
  closing, seq, rd, rtf,  \* the rest of the pollDesc; rtf: rt.f is set
  sets, tseq,   \* SetDeadline calls; the seq each timer was set with
  upc, old,     \* those that may call netpollunblock; what they loaded, until used
  event,        \* the socket is on the ready list of epoll
  avail, arrived, \* bytes in the socket, bytes that ever came
  ended,        \* none will come: the peer has closed, or there was an error
  deadline      \* against the clock: "none" "ahead" "due"

desc   == <<closing, seq, rd, rtf>>
timers == <<sets, tseq>>
socket == <<event, avail, arrived, ended>>
vars   == <<pc, last, rg, lock, desc, timers, upc, old, socket, deadline>>

\* A timer is named by the call that set it.
Timers  == 1..MaxSets
Pollers == (MaxSets + 1)..(MaxSets + NetPolls)
User    == 0
Nobody  == -1
Callers == {User} \cup Timers \cup Pollers
IoReady(u) == u \in Pollers

TypeOK ==
  /\ pc \in {"idle", "prepare", "syscall", "check", "block", "recheck",
             "commit", "parked", "unwait"}
  /\ last \in {"none", "data", "end", "timeout", "closed"}
  /\ rg \in {"nil", "ready", "wait", "g"}
  /\ lock \in Callers \cup {Nobody}
  /\ closing \in BOOLEAN /\ rtf \in BOOLEAN /\ {event, ended} \subseteq BOOLEAN
  /\ seq \in 0..(MaxSets + 1) /\ rd \in {-1, 0, 1}
  /\ sets \in 0..MaxSets /\ tseq \in [Timers -> 0..MaxSets]
  /\ upc \in [Callers -> {"idle", "armed", "lock", "load", "cas", "wake"}]
  /\ old \in [Callers -> {"nil", "ready", "wait", "g"}]
  /\ arrived \in 0..MaxBytes /\ avail \in 0..arrived
  /\ deadline \in {"none", "ahead", "due"}

Init ==
  /\ pc = "idle" /\ last = "none" /\ rg = "nil" /\ lock = Nobody
  /\ closing = FALSE /\ seq = 0 /\ rd = 0 /\ rtf = FALSE
  /\ sets = 0 /\ tseq = [k \in Timers |-> 0]
  /\ upc = [u \in Callers |-> "idle"] /\ old = [u \in Callers |-> "nil"]
  /\ event = FALSE /\ avail = 0 /\ arrived = 0 /\ ended = FALSE
  /\ deadline = "none"

-----------------------------------------------------------------------------
(* conn.Read.                                                              *)

netpollcheckerr ==
  IF closing THEN "closed" ELSE IF rd < 0 THEN "timeout" ELSE "ok"

Return(result) == pc' = "idle" /\ last' = result

Begin ==
  /\ pc = "idle" /\ pc' = "prepare"
  /\ UNCHANGED <<last, rg, lock, desc, timers, upc, old, socket, deadline>>

\* pd.prepareRead: whatever was noted before this Read is forgotten.
PrepareRead ==
  /\ pc = "prepare"
  /\ IF netpollcheckerr = "ok"
       THEN pc' = "syscall" /\ rg' = "nil" /\ UNCHANGED last
       ELSE Return(netpollcheckerr) /\ UNCHANGED rg
  /\ UNCHANGED <<lock, desc, timers, upc, old, socket, deadline>>

SyscallBlind ==  \* Mutant: takes the wake-up for data.
  /\ pc = "syscall" /\ Return("data") /\ avail' = avail - 1
  /\ UNCHANGED <<rg, lock, desc, timers, upc, old, event, arrived, ended, deadline>>

\* The non-blocking read; it need not take everything.  Of what it returns but data
\* only EAGAIN leads to the wait: the end of the stream and other errors do not.
Syscall ==
  /\ pc = "syscall"
  /\ \/ avail > 0 /\ Return("data") /\ avail' \in 0..(avail - 1)
     \/ avail = 0 /\ ended /\ Return("end") /\ UNCHANGED avail
     \/ avail = 0 /\ ~ended /\ pc' = "check" /\ UNCHANGED <<last, avail>>
  /\ UNCHANGED <<rg, lock, desc, timers, upc, old, event, arrived, ended, deadline>>

\* pollWait looks for an error before and after each netpollblock.
CheckErr ==
  /\ pc = "check"
  /\ IF netpollcheckerr = "ok" THEN pc' = "block" /\ UNCHANGED last
                               ELSE Return(netpollcheckerr)
  /\ UNCHANGED <<rg, lock, desc, timers, upc, old, socket, deadline>>

\* netpollblock: take a note that is there already, or announce the wait.
Block ==
  /\ pc = "block"
  /\ \/ rg = "ready" /\ rg' = "nil" /\ pc' = "syscall"
     \/ rg = "nil" /\ rg' = "wait" /\ pc' = "recheck"
  /\ UNCHANGED <<last, lock, desc, timers, upc, old, socket, deadline>>

\* ... look again, since closing and rd are stored before rg is loaded ...
Recheck ==
  /\ pc = "recheck"
  /\ pc' = IF netpollcheckerr = "ok" THEN "commit" ELSE "unwait"
  /\ UNCHANGED <<last, rg, lock, desc, timers, upc, old, socket, deadline>>

\* ... park, unless somebody has been there in between ...
Commit ==
  /\ pc = "commit"
  /\ IF rg = "wait" THEN rg' = "g" /\ pc' = "parked"
                    ELSE pc' = "unwait" /\ UNCHANGED rg
  /\ UNCHANGED <<last, lock, desc, timers, upc, old, socket, deadline>>

\* ... and take whatever the word says by then.
Unwait ==
  /\ pc = "unwait" /\ rg' = "nil"
  /\ pc' = IF rg = "ready" THEN "syscall" ELSE "check"
  /\ UNCHANGED <<last, lock, desc, timers, upc, old, socket, deadline>>

Reader ==
  \/ PrepareRead \/ Syscall \/ CheckErr
  \/ Block \/ Recheck \/ Commit \/ Unwait

-----------------------------------------------------------------------------
(* netpollunblock, and goready of the goroutine it returns.                *)

\* It returns without a goroutine, and its caller unlocks.
Nothing(u) ==
  /\ upc' = [upc EXCEPT ![u] = "idle"]
  /\ lock' = IF lock = u THEN Nobody ELSE lock

Load(u) ==
  /\ upc[u] = "load"
  /\ IF rg = "ready" \/ (rg = "nil" /\ ~IoReady(u))
       THEN Nothing(u) /\ UNCHANGED old
       ELSE /\ old' = [old EXCEPT ![u] = rg]
            /\ upc' = [upc EXCEPT ![u] = "cas"] /\ UNCHANGED lock
  /\ UNCHANGED <<pc, last, rg, desc, timers, socket, deadline>>

\* What rg becomes, and the goroutine that was found.
Unblock(u) ==
  /\ rg' = IF IoReady(u) THEN "ready" ELSE "nil"
  /\ IF old[u] = "g"
       THEN /\ upc' = [upc EXCEPT ![u] = "wake"]
            /\ lock' = IF lock = u THEN Nobody ELSE lock
       ELSE Nothing(u)

Store(u) ==  \* Mutant: a store in place of the compare-and-swap.
  /\ upc[u] = "cas" /\ Unblock(u) /\ old' = [old EXCEPT ![u] = "nil"]
  /\ UNCHANGED <<pc, last, desc, timers, socket, deadline>>

Cas(u) ==
  /\ upc[u] = "cas" /\ old' = [old EXCEPT ![u] = "nil"]
  /\ IF rg = old[u]
       THEN Unblock(u)
       ELSE upc' = [upc EXCEPT ![u] = "load"] /\ UNCHANGED <<rg, lock>>
  /\ UNCHANGED <<pc, last, desc, timers, socket, deadline>>

Goready(u) ==
  /\ upc[u] = "wake" /\ upc' = [upc EXCEPT ![u] = "idle"]
  /\ pc' = "unwait"
  /\ UNCHANGED <<last, rg, lock, desc, timers, old, socket, deadline>>

\* epoll_wait reports an edge once, netpollready passes it on.
Poll ==
  /\ event /\ event' = FALSE
  /\ \E u \in Pollers : upc[u] = "idle" /\ upc' = [upc EXCEPT ![u] = "load"]
  /\ UNCHANGED <<pc, last, rg, lock, desc, timers, old, avail, arrived, ended, deadline>>

DeadlineAnySeq(k) ==  \* Mutant: the sequence number is not looked at.
  /\ upc[k] = "lock" /\ lock = Nobody
  /\ rd' = -1 /\ lock' = k /\ upc' = [upc EXCEPT ![k] = "load"]
  /\ UNCHANGED <<pc, last, rg, closing, seq, rtf, timers, old, socket, deadline>>

\* netpolldeadlineimpl: a timer that was moved while it waited for the lock
\* is of no account any more.
netpolldeadlineimpl(k) ==
  /\ upc[k] = "lock" /\ lock = Nobody
  /\ IF tseq[k] = seq
       THEN rd' = -1 /\ lock' = k /\ upc' = [upc EXCEPT ![k] = "load"]
       ELSE upc' = [upc EXCEPT ![k] = "idle"] /\ UNCHANGED <<rd, lock>>
  /\ UNCHANGED <<pc, last, rg, closing, seq, rtf, timers, old, socket, deadline>>

Caller(u) == Load(u) \/ Cas(u) \/ Goready(u)

-----------------------------------------------------------------------------
(* The user and the world.                                                 *)

Disarmed == [u \in Callers |-> IF upc[u] = "armed" THEN "idle" ELSE upc[u]]

Instant(d) == CASE d = "ahead" -> 1 [] d = "due" -> -1 [] OTHER -> 0

\* poll_runtime_pollSetDeadline: a timer that is set is moved or deleted, and
\* seq tells its late callback so; a deadline in the past unblocks at once.
SetDeadlineSeq(d, bump) ==
  /\ sets < MaxSets /\ ~closing
  /\ lock = Nobody /\ upc[User] = "idle"
  /\ sets' = sets + 1 /\ deadline' = d /\ rd' = Instant(d)
  /\ LET moved == rtf /\ (d = "ahead" \/ rd' # rd) IN
       /\ seq' = IF moved THEN seq + bump ELSE seq
       /\ rtf' = (d = "ahead" \/ (rtf /\ ~moved))
       /\ tseq' = [tseq EXCEPT ![sets'] = seq']
  /\ upc' = CASE d = "ahead" -> [Disarmed EXCEPT ![sets'] = "armed"]
              [] d = "due"   -> [Disarmed EXCEPT ![User] = "load"]
              [] d = "none"  -> Disarmed
  /\ lock' = IF d = "due" THEN User ELSE lock
  /\ UNCHANGED <<pc, last, rg, closing, old, socket>>

SetDeadlineStill(d) == SetDeadlineSeq(d, 0)  \* Mutant: seq stays.
SetDeadline(d) == SetDeadlineSeq(d, 1)

\* FD.Close, whose evict unblocks the reader.
Close ==
  /\ ~closing /\ lock = Nobody /\ upc[User] = "idle"
  /\ closing' = TRUE /\ seq' = seq + 1 /\ rtf' = FALSE
  /\ lock' = User /\ upc' = [Disarmed EXCEPT ![User] = "load"]
  /\ UNCHANGED <<pc, last, rg, rd, timers, old, socket, deadline>>

\* The time has come; the callback still has to get the lock.
Fire(k) ==
  /\ upc[k] = "armed" /\ upc' = [upc EXCEPT ![k] = "lock"]
  /\ deadline' = "due"
  /\ UNCHANGED <<pc, last, rg, lock, desc, timers, old, socket>>

Arrive ==
  /\ arrived < MaxBytes /\ ~ended /\ arrived' = arrived + 1
  /\ avail' = avail + 1 /\ event' = TRUE
  /\ UNCHANGED <<pc, last, rg, lock, desc, timers, upc, old, ended, deadline>>

\* EPOLLRDHUP, EPOLLHUP and EPOLLERR make a socket readable too; a reset discards
\* what has not been read.
HangUp ==
  /\ ~ended /\ ended' = TRUE /\ event' = TRUE
  /\ avail' \in {0, avail}
  /\ UNCHANGED <<pc, last, rg, lock, desc, timers, upc, old, arrived, deadline>>

Next ==
  \/ Begin \/ Reader \/ Poll \/ Close \/ Arrive \/ HangUp
  \/ \E u \in Callers : Caller(u)
  \/ \E k \in Timers : netpolldeadlineimpl(k) \/ Fire(k)
  \/ \E d \in {"none", "ahead", "due"} : SetDeadline(d)

Spec == Init /\ [][Next]_vars

\* Goroutines and timers that can run do run, somebody keeps polling.  Nothing
\* makes the user read, nor data arrive or end, nor time come.
FairSpec ==
  /\ Spec
  /\ WF_vars(Reader) /\ WF_vars(Poll)
  /\ \A u \in Callers : WF_vars(Caller(u))
  /\ \A k \in Timers : WF_vars(netpolldeadlineimpl(k))

-----------------------------------------------------------------------------
(* Properties                                                              *)

Wakers == {u \in Callers : upc[u] = "wake"}

\* Data, deadline and close may come together, but only one of them gets hold
\* of a parked goroutine, it is still parked when it is made runnable (goready
\* of any other ends the program), and no goroutine is parked that nobody
\* could find in rg.
OneWakeForEachPark ==
  /\ \A u, v \in Wakers : u = v
  /\ Wakers # {} => pc = "parked"
  /\ pc = "parked" /\ Wakers = {} => rg = "g"

\* A timer whose sequence number is the current one finds the deadline it was
\* set for, still to come: the runtime's throw("inconsistent read deadline")
\* is never reached (io.md:229).
ConsistentDeadline ==
  \A k \in Timers : upc[k] = "lock" /\ tseq[k] = seq => rd > 0 /\ rtf

\* A Read times out only when the deadline in force has come, never for one that
\* was moved; and no wake-up is lost: with data, the end of them, a deadline that
\* has come or the connection closed, Read returns.
Promise == INSTANCE PollWait WITH reading <- pc # "idle", closed <- closing
Implements == Promise!FairSpec
=============================================================================
