--------------------------- MODULE NetPollProofs ---------------------------
(***************************************************************************)
(* For any number of netpolls, deadlines and bytes: a parked reader is     *)
(* woken once, a timer that was moved is without effect, and the poll      *)
(* descriptor implements PollWait (but for its liveness).                  *)
(***************************************************************************)
EXTENDS NetPoll, TLAPS

\* Settings of the deadline are what makes seq grow, and the close once.
SeqInv ==
  /\ seq <= sets + (IF closing THEN 1 ELSE 0)
  /\ \A k \in Timers : tseq[k] <= seq

\* Those that may not call netpollunblock without the lock hold it while they do.
LockInv ==
  /\ lock \notin Pollers
  /\ \A u \in Callers \ Pollers : upc[u] \in {"load", "cas"} <=> lock = u

\* Only timers are set, and only those that SetDeadline has come to.
SetInv ==
  /\ \A u \in {User} \cup Pollers : upc[u] \in {"idle", "load", "cas", "wake"}
  /\ \A k \in Timers : k > sets => upc[k] = "idle"

\* rg holds the goroutine while nobody has found it, and only then.
WakeInv ==
  /\ \A u \in Callers : upc[u] = "wake" => pc = "parked" /\ rg # "g"
  /\ \A u, v \in Callers : upc[u] = "wake" /\ upc[v] = "wake" => u = v
  /\ pc = "parked" => rg = "g" \/ \E u \in Callers : upc[u] = "wake"
  /\ rg = "g" => pc = "parked"
  /\ rg = "wait" => pc \in {"recheck", "commit", "unwait"}

Pending(k) == upc[k] \in {"armed", "lock"} /\ tseq[k] = seq

\* At most one timer is of account, and it is the one of the deadline in force.
TimerInv ==
  /\ \A k \in Timers : Pending(k) => rd = 1 /\ rtf
  /\ \A j, k \in Timers : Pending(j) /\ Pending(k) => j = k
  /\ \A k \in Timers : Pending(k) /\ upc[k] = "lock" => deadline = "due"
  /\ rd = -1 => deadline = "due"

IInv == TypeOK /\ SeqInv /\ LockInv /\ SetInv /\ WakeInv /\ TimerInv

-----------------------------------------------------------------------------

\* The names of those that may call netpollunblock are told apart.
LEMMA Names ==
  /\ Callers = {User} \cup Timers \cup Pollers
  /\ User \notin Timers /\ User \notin Pollers /\ User \in Callers
  /\ Nobody \notin Callers /\ Nobody \notin Pollers
  /\ \A k \in Timers : k \in Callers /\ k # User /\ k \notin Pollers
  /\ \A u \in Pollers : u \in Callers /\ u # User /\ u \notin Timers
  BY BoundsAssumption DEF Callers, User, Timers, Pollers, Nobody

\* The reader's steps leave the rest alone.
LEMMA ReaderLeaves ==
  ASSUME Reader \/ Begin
  PROVE  UNCHANGED <<lock, closing, seq, rd, rtf, sets, tseq, upc, old,
                     event, arrived, ended, deadline>>
  BY DEF Reader, Begin, PrepareRead, Syscall, CheckErr, Block, Recheck, Commit,
         Unwait, desc, timers, socket

LEMMA TypeInitial == Init => TypeOK
<1> SUFFICES ASSUME Init  PROVE TypeOK
  OBVIOUS
<1> USE BoundsAssumption DEF Init
<1>1. tseq \in [Timers -> 0..MaxSets]
  OBVIOUS
<1>2. /\ upc \in [Callers -> {"idle", "armed", "lock", "load", "cas", "wake"}]
      /\ old \in [Callers -> {"nil", "ready", "wait", "g"}]
  OBVIOUS
<1>3. seq \in 0..(MaxSets + 1) /\ sets \in 0..MaxSets
  OBVIOUS
<1>4. arrived \in 0..MaxBytes /\ avail \in 0..arrived
  OBVIOUS
<1> QED  BY <1>1, <1>2, <1>3, <1>4 DEF TypeOK

\* What a call of netpollunblock may do.
LEMMA CallerSteps ==
  ASSUME NEW u \in Callers, Caller(u)
  PROVE  /\ UNCHANGED <<last, closing, seq, rd, rtf, sets, tseq, event, avail,
                        arrived, ended, deadline>>
         /\ \E x \in {"idle", "load", "cas", "wake"} : upc' = [upc EXCEPT ![u] = x]
         /\ lock' = lock \/ lock' = Nobody
         /\ pc' = pc \/ pc' = "unwait"
         /\ rg' = rg \/ rg' \in {"nil", "ready"}
         /\ old' = old \/ \E x \in {rg, "nil"} : old' = [old EXCEPT ![u] = x]
  BY DEF Caller, Load, Cas, Goready, Nothing, Unblock, desc, timers, socket

LEMMA TypeStep ==
  ASSUME TypeOK, SeqInv, [Next]_vars
  PROVE  TypeOK'
<1> USE BoundsAssumption DEF TypeOK
<1>1. CASE Reader \/ Begin
  <2>1. /\ pc' \in {"idle", "prepare", "syscall", "check", "block", "recheck",
                    "commit", "parked", "unwait"}
        /\ last' \in {"none", "data", "end", "timeout", "closed"}
        /\ rg' \in {"nil", "ready", "wait", "g"}
        /\ avail' \in 0..arrived
    BY <1>1 DEF Reader, Begin, PrepareRead, Syscall, CheckErr, Block, Recheck,
         Commit, Unwait, Return, netpollcheckerr, socket
  <2> QED  BY <1>1, <2>1, ReaderLeaves
<1>2. CASE Poll
  <2>1. upc' \in [Callers -> {"idle", "armed", "lock", "load", "cas", "wake"}]
    BY <1>2 DEF Poll
  <2>2. UNCHANGED <<pc, last, rg, lock, closing, seq, rd, rtf, sets, tseq, old,
                     avail, arrived, ended, deadline>>
    BY <1>2 DEF Poll, desc, timers
  <2>3. event' \in BOOLEAN
    BY <1>2 DEF Poll, desc, timers
  <2> QED  BY <2>1, <2>2, <2>3
<1>3. CASE Close
  <2>1. upc' \in [Callers -> {"idle", "armed", "lock", "load", "cas", "wake"}]
    BY <1>3 DEF Close, Disarmed
  <2>2. seq' \in 0..(MaxSets + 1)
    BY <1>3 DEF Close, SeqInv
  <2>3. lock' \in Callers
    BY <1>3 DEF Close, Callers
  <2> QED  BY <1>3, <2>1, <2>2, <2>3 DEF Close, timers, socket
<1>4. CASE Arrive \/ HangUp
  <2>1. UNCHANGED <<pc, last, rg, lock, closing, seq, rd, rtf, sets, tseq, upc, old,
                     deadline>>
    BY <1>4 DEF Arrive, HangUp, desc, timers
  <2>2. arrived' \in 0..MaxBytes /\ avail' \in 0..arrived'
    BY <1>4 DEF Arrive, HangUp
  <2>3. event' \in BOOLEAN /\ ended' \in BOOLEAN
    BY <1>4 DEF Arrive, HangUp
  <2> QED  BY <2>1, <2>2, <2>3
<1>5. ASSUME NEW u \in Callers, Caller(u)  PROVE TypeOK'
  BY <1>5, CallerSteps DEF Nobody
<1>6. ASSUME NEW k \in Timers, netpolldeadlineimpl(k)  PROVE TypeOK'
  BY <1>6 DEF netpolldeadlineimpl, timers, socket, Callers
<1>7. ASSUME NEW k \in Timers, Fire(k)  PROVE TypeOK'
  BY <1>7 DEF Fire, desc, timers, socket, Callers
<1>8. ASSUME NEW d \in {"none", "ahead", "due"}, SetDeadline(d)  PROVE TypeOK'
  <2> USE <1>8 DEF SetDeadline, SetDeadlineSeq, Instant
  <2>1. sets' \in 0..MaxSets /\ sets' \in Timers /\ rd' \in {-1, 0, 1} /\ rtf' \in BOOLEAN
    BY DEF Timers
  <2>2. seq' \in 0..(MaxSets + 1) /\ seq' \in 0..MaxSets
    BY DEF SeqInv
  <2>3. tseq' \in [Timers -> 0..MaxSets]
    BY <2>1, <2>2
  <2>4. upc' \in [Callers -> {"idle", "armed", "lock", "load", "cas", "wake"}]
    BY DEF Disarmed, Callers
  <2>5. lock' \in Callers \cup {Nobody}
    BY DEF Callers
  <2> QED  BY <2>1, <2>2, <2>3, <2>4, <2>5 DEF socket
<1>9. CASE UNCHANGED vars
  BY <1>9 DEF vars, desc, timers, socket
<1> QED
  BY <1>1, <1>2, <1>3, <1>4, <1>5, <1>6, <1>7, <1>8, <1>9 DEF Next

\* Nothing but the user touches the bookkeeping of the deadline.
LEMMA KeepsSettings ==
  ASSUME Next,
         ~Close, \A d \in {"none", "ahead", "due"} : ~SetDeadline(d)
  PROVE  UNCHANGED <<closing, seq, rtf, sets, tseq>>
<1>1. CASE Reader \/ Begin
  BY <1>1, ReaderLeaves
<1>2. CASE Poll \/ Arrive \/ HangUp
  BY <1>2 DEF Poll, Arrive, HangUp, desc, timers
<1>3. ASSUME NEW u \in Callers, Caller(u)
      PROVE UNCHANGED <<closing, seq, rtf, sets, tseq>>
  BY <1>3, CallerSteps
<1>4. ASSUME NEW k \in Timers, netpolldeadlineimpl(k) \/ Fire(k)
      PROVE UNCHANGED <<closing, seq, rtf, sets, tseq>>
  BY <1>4 DEF netpolldeadlineimpl, Fire, desc, timers
<1> QED  BY <1>1, <1>2, <1>3, <1>4 DEF Next

LEMMA SeqStep ==
  ASSUME TypeOK, SeqInv, Next
  PROVE  SeqInv'
<1> USE DEF SeqInv
<1>1. CASE Close
  <2>1. closing' = TRUE /\ seq' = seq + 1 /\ ~closing /\ UNCHANGED <<sets, tseq>>
    BY <1>1 DEF Close, timers
  <2> QED  BY <2>1 DEF TypeOK, Timers
<1>2. ASSUME NEW d \in {"none", "ahead", "due"}, SetDeadline(d)  PROVE SeqInv'
  <2>1. /\ ~closing /\ UNCHANGED closing
        /\ sets' = sets + 1
        /\ seq' = seq \/ seq' = seq + 1
        /\ tseq' = [tseq EXCEPT ![sets'] = seq']
    BY <1>2 DEF SetDeadline, SetDeadlineSeq
  <2> QED  BY <2>1 DEF TypeOK, Timers
<1> QED
  BY <1>1, <1>2, KeepsSettings

LEMMA LockStep ==
  ASSUME TypeOK, LockInv, Next
  PROVE  LockInv'
<1> USE DEF TypeOK
<1>1. CASE Reader \/ Begin
  BY <1>1, ReaderLeaves DEF LockInv
<1>2. CASE Poll
  BY <1>2 DEF Poll, LockInv
<1>3. CASE Close
  BY <1>3, Names DEF Close, Disarmed, LockInv
<1>4. CASE Arrive \/ HangUp
  BY <1>4 DEF Arrive, HangUp, LockInv
<1>5. ASSUME NEW u \in Callers, Caller(u)  PROVE LockInv'
  <2>1. CASE Load(u)
    BY <2>1, Names DEF Load, Nothing, LockInv
  <2>2. CASE Cas(u)
    BY <2>2, Names DEF Cas, Unblock, Nothing, LockInv
  <2>3. CASE Goready(u)
    BY <2>3 DEF Goready, LockInv
  <2> QED  BY <1>5, <2>1, <2>2, <2>3 DEF Caller
<1>6. ASSUME NEW k \in Timers, netpolldeadlineimpl(k)  PROVE LockInv'
  BY <1>6, Names DEF netpolldeadlineimpl, LockInv
<1>7. ASSUME NEW k \in Timers, Fire(k)  PROVE LockInv'
  BY <1>7 DEF Fire, LockInv
<1>8. ASSUME NEW d \in {"none", "ahead", "due"}, SetDeadline(d)  PROVE LockInv'
  <2>1. lock = Nobody /\ upc[User] = "idle" /\ sets' \in Timers
    BY <1>8, BoundsAssumption DEF SetDeadline, SetDeadlineSeq, Timers
  <2>2. CASE d = "due"
    BY <1>8, <2>1, <2>2, Names DEF SetDeadline, SetDeadlineSeq, Disarmed, LockInv
  <2>3. CASE d # "due"
    BY <1>8, <2>1, <2>3, Names DEF SetDeadline, SetDeadlineSeq, Disarmed, LockInv
  <2> QED  BY <2>2, <2>3
<1> QED
  BY <1>1, <1>2, <1>3, <1>4, <1>5, <1>6, <1>7, <1>8 DEF Next

LEMMA SetStep ==
  ASSUME TypeOK, SetInv, Next
  PROVE  SetInv'
<1> USE DEF TypeOK, SetInv
<1>1. CASE Reader \/ Begin \/ Arrive \/ HangUp
  BY <1>1, ReaderLeaves DEF Arrive, HangUp, timers
<1>2. CASE Poll
  BY <1>2, Names DEF Poll, timers
<1>3. CASE Close
  BY <1>3, Names DEF Close, Disarmed, timers
<1>4. ASSUME NEW u \in Callers, Caller(u)  PROVE SetInv'
  <2>1. upc[u] # "idle"
    BY <1>4 DEF Caller, Load, Cas, Goready
  <2> QED  BY <1>4, <2>1, CallerSteps, Names
<1>5. ASSUME NEW k \in Timers, netpolldeadlineimpl(k) \/ Fire(k)  PROVE SetInv'
  BY <1>5, Names DEF netpolldeadlineimpl, Fire, timers
<1>6. ASSUME NEW d \in {"none", "ahead", "due"}, SetDeadline(d)  PROVE SetInv'
  <2>1. /\ sets' = sets + 1 /\ sets' \in Timers
        /\ \/ upc' = [Disarmed EXCEPT ![sets'] = "armed"]
           \/ upc' = [Disarmed EXCEPT ![User] = "load"]
           \/ upc' = Disarmed
    BY <1>6, BoundsAssumption DEF SetDeadline, SetDeadlineSeq, Timers
  <2>2. \A x \in Callers : x # sets' =>
          upc'[x] \in {upc[x], "idle"} \/ (x = User /\ upc'[x] = "load")
    <3>1. \A x \in Callers : Disarmed[x] \in {upc[x], "idle"}
      BY DEF Disarmed
    <3>2. DOMAIN Disarmed = Callers /\ User \in Callers /\ sets' \in Callers
      BY <2>1, Names DEF Disarmed
    <3>3. ASSUME NEW x \in Callers, x # sets'
          PROVE upc'[x] = Disarmed[x] \/ (x = User /\ upc'[x] = "load")
      BY <2>1, <3>2, <3>3 DEF Disarmed
    <3> QED  BY <3>1, <3>3
  <2>3. upc'[User] \in {"idle", "load", "cas", "wake"}
    BY <2>1, <2>2, Names
  <2>4. \A u \in Pollers : upc'[u] \in {"idle", "load", "cas", "wake"}
    BY <2>1, <2>2, Names
  <2>5. \A k \in Timers : k > sets' => upc'[k] = "idle"
    BY <2>1, <2>2, Names DEF Timers
  <2> QED  BY <2>3, <2>4, <2>5
<1> QED
  BY <1>1, <1>2, <1>3, <1>4, <1>5, <1>6 DEF Next

\* Pollers, timers and user do not make runnable, nor touch the word.
LEMMA OthersWakeNobody ==
  ASSUME TypeOK, SetInv,
         \/ Poll \/ Close \/ Arrive \/ HangUp
         \/ \E k \in Timers : netpolldeadlineimpl(k) \/ Fire(k)
         \/ \E d \in {"none", "ahead", "due"} : SetDeadline(d)
  PROVE  /\ UNCHANGED <<pc, rg>>
         /\ \A x \in Callers : upc'[x] = "wake" <=> upc[x] = "wake"
<1> USE DEF TypeOK
<1>1. CASE Poll \/ Arrive \/ HangUp
  BY <1>1 DEF Poll, Arrive, HangUp
<1>2. CASE Close
  BY <1>2 DEF Close, Disarmed
<1>3. ASSUME NEW k \in Timers, netpolldeadlineimpl(k) \/ Fire(k)
      PROVE  /\ UNCHANGED <<pc, rg>>
             /\ \A x \in Callers : upc'[x] = "wake" <=> upc[x] = "wake"
  BY <1>3 DEF netpolldeadlineimpl, Fire
<1>4. ASSUME NEW d \in {"none", "ahead", "due"}, SetDeadline(d)
      PROVE  /\ UNCHANGED <<pc, rg>>
             /\ \A x \in Callers : upc'[x] = "wake" <=> upc[x] = "wake"
  <2>1. UNCHANGED <<pc, rg>> /\ upc[User] = "idle" /\ sets' = sets + 1 /\ sets' \in Timers
    BY <1>4, BoundsAssumption DEF SetDeadline, SetDeadlineSeq, Timers
  <2>2. \A x \in Callers : Disarmed[x] = "wake" <=> upc[x] = "wake"
    BY DEF Disarmed
  <2>3. \/ upc' = [Disarmed EXCEPT ![sets'] = "armed"]
        \/ upc' = [Disarmed EXCEPT ![User] = "load"]
        \/ upc' = Disarmed
    BY <1>4 DEF SetDeadline, SetDeadlineSeq
  <2>4. upc[sets'] = "idle"
    BY <2>1 DEF SetInv
  <2>5. DOMAIN Disarmed = Callers
    BY DEF Disarmed
  <2> QED  BY <2>1, <2>2, <2>3, <2>4, <2>5
<1> QED  BY <1>1, <1>2, <1>3, <1>4

LEMMA WakeStep ==
  ASSUME TypeOK, SetInv, WakeInv, Next
  PROVE  WakeInv'
<1> USE DEF TypeOK
<1>1. CASE Reader \/ Begin
  <2>1. UNCHANGED upc /\ pc # "parked" /\ \A u \in Callers : upc[u] # "wake"
    BY <1>1, ReaderLeaves DEF WakeInv, Reader, Begin, PrepareRead, Syscall, CheckErr,
       Block, Recheck, Commit, Unwait
  <2>2. /\ pc' = "parked" => rg' = "g"
        /\ rg' = "g" => pc' = "parked"
        /\ rg' = "wait" => pc' \in {"recheck", "commit", "unwait"}
    BY <1>1 DEF WakeInv, Reader, Begin, PrepareRead, Syscall, CheckErr,
       Block, Recheck, Commit, Unwait, Return
  <2> QED  BY <2>1, <2>2 DEF WakeInv
<1>2. ASSUME NEW u \in Callers, Caller(u)  PROVE WakeInv'
  <2>1. CASE Load(u)
    <3>1. UNCHANGED <<pc, rg>>
      BY <2>1 DEF Load
    <3>2. \A v \in Callers : upc'[v] = "wake" <=> upc[v] = "wake"
      BY <2>1 DEF Load, Nothing
    <3> QED  BY <3>1, <3>2 DEF WakeInv
  <2>2. CASE Cas(u)
    <3>1. UNCHANGED pc /\ upc[u] = "cas"
      BY <2>2 DEF Cas
    <3>2. CASE rg # old[u]
      BY <2>2, <3>1, <3>2 DEF Cas, WakeInv
    <3>3. CASE rg = old[u] /\ rg = "g"
      <4>1. upc' = [upc EXCEPT ![u] = "wake"] /\ rg' \in {"nil", "ready"}
        BY <2>2, <3>3 DEF Cas, Unblock
      <4>2. pc = "parked" /\ \A v \in Callers : upc[v] # "wake"
        BY <3>3 DEF WakeInv
      <4> QED  BY <3>1, <4>1, <4>2 DEF WakeInv
    <3>4. CASE rg = old[u] /\ rg # "g"
      <4>1. upc' = [upc EXCEPT ![u] = "idle"] /\ rg' \in {"nil", "ready"}
        BY <2>2, <3>4 DEF Cas, Unblock, Nothing
      <4> QED  BY <3>1, <3>4, <4>1 DEF WakeInv
    <3> QED  BY <3>2, <3>3, <3>4
  <2>3. CASE Goready(u)
    BY <2>3 DEF Goready, WakeInv
  <2> QED  BY <1>2, <2>1, <2>2, <2>3 DEF Caller
<1>3. CASE ~(Reader \/ Begin) /\ ~(\E u \in Callers : Caller(u))
  <2>1. /\ UNCHANGED <<pc, rg>>
        /\ \A x \in Callers : upc'[x] = "wake" <=> upc[x] = "wake"
    BY <1>3, OthersWakeNobody DEF Next
  <2> QED  BY <2>1 DEF WakeInv
<1> QED
  BY <1>1, <1>2, <1>3

LEMMA TimerStep ==
  ASSUME TypeOK, SeqInv, SetInv, TimerInv, Next
  PROVE  TimerInv'
<1> USE DEF TypeOK
<1>0. \A k \in Timers : k \in Callers /\ k # User /\ k \notin Pollers
  BY Names
<1>1. CASE Reader \/ Begin \/ Arrive \/ HangUp
  <2>1. UNCHANGED <<upc, tseq, seq, rd, rtf, deadline>>
    BY <1>1, ReaderLeaves DEF Arrive, HangUp, desc, timers
  <2> QED  BY <2>1 DEF TimerInv, Pending
<1>2. CASE Poll
  <2>1. UNCHANGED <<tseq, seq, rd, rtf, deadline>> /\ \A k \in Timers : upc'[k] = upc[k]
    BY <1>0, <1>2 DEF Poll, desc, timers
  <2> QED  BY <2>1 DEF TimerInv, Pending
<1>3. CASE Close
  <2>1. seq' = seq + 1 /\ UNCHANGED <<tseq, rd, deadline>>
    BY <1>3 DEF Close, timers
  <2>2. \A k \in Timers : ~Pending(k)'
    BY <2>1 DEF Pending, SeqInv
  <2> QED  BY <2>1, <2>2 DEF TimerInv
<1>4. ASSUME NEW u \in Callers, Caller(u)  PROVE TimerInv'
  <2>1. UNCHANGED <<tseq, seq, rd, rtf, deadline>>
    BY <1>4, CallerSteps
  <2>2. \A k \in Timers : Pending(k)' => Pending(k) /\ upc'[k] = upc[k]
    BY <1>0, <1>4, <2>1, CallerSteps DEF Pending
  <2> QED  BY <2>1, <2>2 DEF TimerInv
<1>5. ASSUME NEW k \in Timers, netpolldeadlineimpl(k)  PROVE TimerInv'
  <2>1. upc[k] = "lock" /\ UNCHANGED <<tseq, seq, rtf, deadline>>
    BY <1>5 DEF netpolldeadlineimpl, timers
  <2>2. \A j \in Timers : Pending(j)' => Pending(j) /\ j # k /\ upc'[j] = upc[j]
    BY <1>0, <1>5, <2>1 DEF netpolldeadlineimpl, Pending
  <2>3. CASE tseq[k] = seq
    <3>1. rd' = -1
      BY <1>5, <2>3 DEF netpolldeadlineimpl
    <3>2. Pending(k)
      BY <2>1, <2>3 DEF Pending
    <3>3. deadline = "due" /\ \A j \in Timers : ~Pending(j)'
      BY <2>1, <2>2, <3>2 DEF TimerInv
    <3> QED  BY <2>1, <3>1, <3>3 DEF TimerInv
  <2>4. CASE tseq[k] # seq
    <3>1. rd' = rd
      BY <1>5, <2>4 DEF netpolldeadlineimpl
    <3> QED  BY <2>1, <2>2, <3>1 DEF TimerInv
  <2> QED  BY <2>3, <2>4
<1>6. ASSUME NEW k \in Timers, Fire(k)  PROVE TimerInv'
  <2>1. deadline' = "due" /\ UNCHANGED <<tseq, seq, rd, rtf>>
    BY <1>6 DEF Fire, desc, timers
  <2>2. \A j \in Timers : Pending(j)' => Pending(j)
    BY <1>0, <1>6, <2>1 DEF Fire, Pending
  <2> QED  BY <2>1, <2>2 DEF TimerInv
<1>7. ASSUME NEW d \in {"none", "ahead", "due"}, SetDeadline(d)  PROVE TimerInv'
  <2>0. /\ sets' = sets + 1 /\ sets' \in Timers /\ deadline' = d
        /\ rd' = Instant(d) /\ tseq' = [tseq EXCEPT ![sets'] = seq']
    BY <1>7, BoundsAssumption DEF SetDeadline, SetDeadlineSeq, Timers
  <2>1. rd' = -1 => deadline' = "due"
    BY <2>0 DEF Instant
  <2>2. upc' = CASE d = "ahead" -> [Disarmed EXCEPT ![sets'] = "armed"]
                 [] d = "due"   -> [Disarmed EXCEPT ![User] = "load"]
                 [] d = "none"  -> Disarmed
    BY <1>7 DEF SetDeadline, SetDeadlineSeq
  <2>3. ASSUME NEW k \in Timers, k # sets', Pending(k)'  PROVE FALSE
    <3>1. upc'[k] = Disarmed[k]
      BY <1>0, <2>0, <2>2, <2>3 DEF Disarmed
    <3>2. upc[k] = "lock" /\ tseq[k] = seq'
      BY <1>0, <2>0, <2>3, <3>1 DEF Pending, Disarmed
    <3>3. seq' = seq
      BY <1>7, <3>2 DEF SeqInv, SetDeadline, SetDeadlineSeq
    <3>4. rd = 1 /\ rtf
      BY <3>2, <3>3 DEF Pending, TimerInv
    <3>5. d # "ahead" /\ rd' = rd
      BY <1>7, <3>3, <3>4 DEF SetDeadline, SetDeadlineSeq
    <3> QED  BY <2>0, <3>4, <3>5 DEF Instant
  <2>4. ASSUME NEW k \in Timers, k = sets', Pending(k)'
        PROVE  rd' = 1 /\ rtf' /\ upc'[k] = "armed"
    <3>0. Disarmed[k] = "idle"
      BY <1>0, <2>0, <2>4 DEF Disarmed, SetInv
    <3>1. d = "ahead"
      BY <1>0, <2>0, <2>2, <2>4, <3>0 DEF Pending
    <3>2. rd' = 1 /\ rtf'
      BY <1>7, <2>0, <3>1 DEF SetDeadline, SetDeadlineSeq, Instant
    <3>3. upc'[k] = "armed"
      BY <1>0, <2>0, <2>2, <2>4, <3>1 DEF Disarmed
    <3> QED  BY <3>2, <3>3
  <2>5. \A k \in Timers : Pending(k)' =>
          k = sets' /\ rd' = 1 /\ rtf' /\ upc'[k] # "lock"
    BY <2>3, <2>4
  <2> QED  BY <2>1, <2>5 DEF TimerInv
<1> QED
  BY <1>1, <1>2, <1>3, <1>4, <1>5, <1>6, <1>7 DEF Next

LEMMA Initial == Init => IInv
<1> SUFFICES ASSUME Init  PROVE IInv
  OBVIOUS
<1>1. TypeOK
  BY TypeInitial
<1>2. SeqInv /\ LockInv /\ SetInv
  BY Names DEF Init, SeqInv, LockInv, SetInv
<1>3. WakeInv /\ TimerInv
  BY DEF Init, WakeInv, TimerInv, Pending, Callers
<1> QED  BY <1>1, <1>2, <1>3 DEF IInv

LEMMA Inductive == IInv /\ [Next]_vars => IInv'
<1>1. ASSUME IInv, Next  PROVE IInv'
  BY <1>1, TypeStep, SeqStep, LockStep, SetStep, WakeStep, TimerStep DEF IInv
<1>2. ASSUME IInv, UNCHANGED vars  PROVE IInv'
  BY <1>2 DEF IInv, TypeOK, SeqInv, LockInv, SetInv, WakeInv, TimerInv, Pending, vars,
     desc, timers, socket
<1> QED  BY <1>1, <1>2

LEMMA Invariance == Spec => []IInv
  BY Initial, Inductive, PTL DEF Spec

\* No bound of the model hides a state: whatever the number of deadlines and
\* bytes, every variable of the poll descriptor keeps to its values.
THEOREM TypeCorrect == Spec => []TypeOK
<1>1. IInv => TypeOK
  BY DEF IInv
<1> QED  BY <1>1, Invariance, PTL

\* netpollunblock hands out a parked goroutine once and to one caller, and
\* none is parked that rg does not hold.
THEOREM WokenOnce == Spec => []OneWakeForEachPark
<1>1. IInv => OneWakeForEachPark
  BY DEF IInv, WakeInv, OneWakeForEachPark, Wakers
<1> QED  BY <1>1, Invariance, PTL

\* A late callback of netpolldeadlineimpl that carries the current sequence
\* number carries the current deadline.
THEOREM DeadlinesConsistent == Spec => []ConsistentDeadline
<1>1. IInv => ConsistentDeadline
  BY DEF IInv, TimerInv, Pending, ConsistentDeadline
<1> QED  BY <1>1, Invariance, PTL

-----------------------------------------------------------------------------

\* Every step of the reader, the poller, the timers and the user is a step that
\* PollWait allows, or none.
LEMMA PromiseStep ==
  ASSUME IInv, [Next]_vars
  PROVE  [Promise!Next]_Promise!vars
<1> USE DEF Promise!Next, Promise!vars
<1>0. TypeOK /\ TimerInv /\ WakeInv
  BY DEF IInv
<1>1. CASE Begin
  BY <1>1 DEF Begin, Promise!Begin, desc, socket
<1>2. CASE Reader
  <2>1. UNCHANGED <<closing, ended, deadline>>
    BY <1>2, ReaderLeaves
  <2>2. pc # "idle"
    BY <1>2 DEF Reader, PrepareRead, Syscall, CheckErr, Block, Recheck, Commit, Unwait
  <2>3. CASE UNCHANGED <<last, avail>> /\ pc' # "idle"
    BY <2>1, <2>2, <2>3
  <2>4. CASE Syscall /\ pc' = "idle"
    BY <1>0, <2>1, <2>2, <2>4 DEF Syscall, Return, Promise!Finish, TypeOK
  <2>5. CASE (PrepareRead \/ CheckErr) /\ pc' = "idle"
    <3>1. UNCHANGED avail /\ last' = netpollcheckerr /\ netpollcheckerr # "ok"
      BY <2>5 DEF PrepareRead, CheckErr, Return, socket
    <3>2. \/ last' = "closed" /\ closing
          \/ last' = "timeout" /\ deadline = "due"
      BY <1>0, <3>1 DEF netpollcheckerr, TypeOK, TimerInv
    <3> QED  BY <2>1, <2>2, <2>5, <3>1, <3>2 DEF Promise!Finish
  <2> QED
    BY <1>2, <2>3, <2>4, <2>5 DEF Reader, PrepareRead, Syscall, CheckErr, Block,
       Recheck, Commit, Unwait, Return, socket
<1>3. CASE Poll
  BY <1>3 DEF Poll, desc
<1>4. CASE Close
  BY <1>4 DEF Close, Promise!Close, socket
<1>5. CASE Arrive \/ HangUp
  BY <1>5 DEF Arrive, HangUp, Promise!Arrive, Promise!End, desc
<1>6. ASSUME NEW u \in Callers, Caller(u)
      PROVE UNCHANGED <<pc # "idle", last, avail, ended, deadline, closing>>
  <2>1. CASE Goready(u)
    BY <1>0, <2>1, CallerSteps DEF Goready, WakeInv, Caller, desc, socket
  <2>2. CASE Load(u) \/ Cas(u)
    BY <2>2 DEF Load, Cas, desc, socket
  <2> QED  BY <1>6, <2>1, <2>2 DEF Caller
<1>7. ASSUME NEW k \in Timers, netpolldeadlineimpl(k)
      PROVE UNCHANGED <<pc # "idle", last, avail, ended, deadline, closing>>
  BY <1>7 DEF netpolldeadlineimpl, socket
<1>8. ASSUME NEW k \in Timers, Fire(k)
      PROVE Promise!SetDeadline
  BY <1>8 DEF Fire, Promise!SetDeadline, desc, socket
<1>9. ASSUME NEW d \in {"none", "ahead", "due"}, SetDeadline(d)
      PROVE Promise!SetDeadline
  BY <1>9 DEF SetDeadline, SetDeadlineSeq, Promise!SetDeadline, socket
<1>10. CASE UNCHANGED vars
  BY <1>10 DEF vars, desc, socket
<1> QED
  BY <1>1, <1>2, <1>3, <1>4, <1>5, <1>6, <1>7, <1>8, <1>9, <1>10 DEF Next

\* conn.Read returns data that was there, a timeout only when the deadline in
\* force has come, and a closed connection only when it was closed.
THEOREM ReadKeepsItsPromise == Spec => Promise!Spec
<1>1. Init => Promise!Init
  BY DEF Init, Promise!Init
<1> QED  BY <1>1, Invariance, PromiseStep, PTL DEF Spec, Promise!Spec
=============================================================================
