--------------------------- MODULE ProgramProofs ---------------------------
(***************************************************************************)
(* The small programs, for any number of goroutines, readers, rows and     *)
(* columns, any table and any names: each on its own, and then the run     *)
(* that picks one of them.                                                 *)
(***************************************************************************)
EXTENDS MCPrograms, SequentialProofs, FiniteSetTheorems

-----------------------------------------------------------------------------
(* sync.Once: f has been called, and has returned, before anybody is past  *)
(* once.Do, and nobody is left when main returns.                          *)

\* The mutex is held by the one goroutine that is inside doSlow.
MutexInv ==
  \A g \in Goroutines : gpc[g] \in {"f", "store", "unlock"} <=> m = g

\* The flag is set behind the call, and those behind the flag have seen it.
DoneInv ==
  /\ done => calls = 1
  /\ ~done => calls = IF \E g \in Goroutines : gpc[g] = "store" THEN 1 ELSE 0
  /\ \A g \in Goroutines :
       /\ gpc[g] \in {"f", "store"} => ~done
       /\ gpc[g] \in {"unlock", "send", "end"} => done

GoroutinesEnded == {g \in Goroutines : gpc[g] = "end"}

\* main has started the first i, and has received from those that have ended.
CountInv ==
  /\ \A g \in Goroutines : gpc[g] = "idle" <=> g > i
  /\ got = Cardinality(GoroutinesEnded)
  /\ exited => got = N

OnceInv == OnceTypeOK /\ MutexInv /\ DoneInv /\ CountInv

-----------------------------------------------------------------------------

LEMMA GoroutinesFinite ==
  /\ IsFiniteSet(Goroutines) /\ Cardinality(Goroutines) = N
  /\ GoroutinesEnded \subseteq Goroutines /\ IsFiniteSet(GoroutinesEnded)
<1>1. N \in Nat /\ 1 \in Int
  BY NAssumption
<1>2. IsFiniteSet(1..N) /\ Cardinality(1..N) = N
  BY <1>1, FS_Interval
<1> QED  BY <1>2, FS_Subset DEF Goroutines, GoroutinesEnded

LEMMA OnceInitial == OnceInit => OnceInv
<1> SUFFICES ASSUME OnceInit  PROVE OnceInv
  OBVIOUS
<1> USE NAssumption DEF OnceInit, Goroutines
<1>1. OnceTypeOK
  <2>1. gpc \in [Goroutines -> {"idle", "do", "lock", "f", "store", "unlock", "send", "end"}]
    OBVIOUS
  <2>2. i \in 0..N /\ got \in 0..i /\ m \in 0..N /\ calls \in 0..N
    OBVIOUS
  <2> QED  BY <2>1, <2>2 DEF OnceTypeOK
<1>2. MutexInv /\ DoneInv
  BY DEF MutexInv, DoneInv
<1>3. GoroutinesEnded = {}
  BY DEF GoroutinesEnded
<1>4. CountInv
  BY <1>3, FS_EmptySet DEF CountInv
<1> QED  BY <1>1, <1>2, <1>4 DEF OnceInv

LEMMA OnceTypeStep ==
  ASSUME OnceTypeOK, MutexInv, DoneInv, OnceNext
  PROVE  OnceTypeOK'
<1> USE NAssumption DEF OnceTypeOK
<1> DEFINE PCs == {"idle", "do", "lock", "f", "store", "unlock", "send", "end"}
<1>1. CASE Go
  <2>1. gpc' \in [Goroutines -> PCs]
    BY <1>1 DEF Go
  <2>2. i' \in 0..N /\ got' \in 0..i' /\ UNCHANGED <<exited, done, m, calls>>
    BY <1>1 DEF Go
  <2> QED  BY <2>1, <2>2
<1>2. CASE Return
  BY <1>2 DEF Return
<1>3. ASSUME NEW g \in Goroutines, Goroutine(g) \/ Meet(g)  PROVE OnceTypeOK'
  <2>1. gpc' \in [Goroutines -> PCs] /\ UNCHANGED <<i, exited>>
    BY <1>3 DEF Goroutine, Do, Lock, F, Store, Unlock, Meet
  <2>2. m' \in 0..N
    BY <1>3 DEF Goroutine, Do, Lock, F, Store, Unlock, Meet, Goroutines
  <2>3. got' \in 0..i' /\ done' \in BOOLEAN
    <3>1. CASE Meet(g)
      BY <3>1, <2>1 DEF Meet
    <3>2. CASE Goroutine(g)
      BY <3>2, <2>1 DEF Goroutine, Do, Lock, F, Store, Unlock
    <3> QED  BY <1>3, <3>1, <3>2
  <2>4. calls' \in 0..N
    <3>1. CASE F(g)
      <4>1. ~done /\ \A h \in Goroutines : gpc[h] # "store"
        BY <3>1 DEF F, DoneInv, MutexInv, Goroutines
      <4>2. calls' = 1
        BY <3>1, <4>1 DEF F, DoneInv
      <4> QED  BY <4>2
    <3> QED  BY <1>3, <3>1 DEF Goroutine, Do, Lock, Store, Unlock, Meet
  <2> QED  BY <2>1, <2>2, <2>3, <2>4
<1> QED  BY <1>1, <1>2, <1>3 DEF OnceNext

LEMMA OnceMutexStep ==
  ASSUME OnceTypeOK, MutexInv, CountInv, OnceNext
  PROVE  MutexInv'
<1> USE NAssumption DEF OnceTypeOK, MutexInv, Goroutines
<1>1. CASE Go \/ Return
  BY <1>1 DEF Go, Return, CountInv
<1>2. ASSUME NEW g \in Goroutines, Goroutine(g) \/ Meet(g)  PROVE MutexInv'
  BY <1>2 DEF Goroutine, Do, Lock, F, Store, Unlock, Meet
<1> QED  BY <1>1, <1>2 DEF OnceNext

LEMMA OnceDoneStep ==
  ASSUME OnceTypeOK, MutexInv, DoneInv, CountInv, OnceNext
  PROVE  DoneInv'
<1> USE NAssumption DEF OnceTypeOK, MutexInv, DoneInv, Goroutines
<1>1. CASE Go
  <2>1. UNCHANGED <<done, calls>> /\ gpc[i + 1] = "idle" /\ i + 1 \in Goroutines
    BY <1>1 DEF Go, CountInv
  <2>2. gpc' = [gpc EXCEPT ![i + 1] = "do"]
    BY <1>1 DEF Go
  <2> QED  BY <2>1, <2>2
<1>2. CASE Return
  BY <1>2 DEF Return
<1>3. ASSUME NEW g \in Goroutines, Do(g)  PROVE DoneInv'
  BY <1>3 DEF Do
<1>4. ASSUME NEW g \in Goroutines, Lock(g)  PROVE DoneInv'
  BY <1>4 DEF Lock
<1>5. ASSUME NEW g \in Goroutines, F(g)  PROVE DoneInv'
  <2>1. ~done /\ calls = 0
    BY <1>5 DEF F
  <2>2. ~done' /\ calls' = 1 /\ gpc' = [gpc EXCEPT ![g] = "store"]
    BY <1>5, <2>1 DEF F
  <2> QED  BY <2>1, <2>2
<1>6. ASSUME NEW g \in Goroutines, Store(g)  PROVE DoneInv'
  <2>1. calls = 1 /\ calls' = 1 /\ done' /\ gpc' = [gpc EXCEPT ![g] = "unlock"]
    BY <1>6 DEF Store
  <2>2. \A h \in Goroutines : h # g => gpc[h] \notin {"f", "store"}
    BY <1>6 DEF Store
  <2> QED  BY <2>1, <2>2
<1>7. ASSUME NEW g \in Goroutines, Unlock(g) \/ Meet(g)  PROVE DoneInv'
  BY <1>7 DEF Unlock, Meet
<1> QED
  BY <1>1, <1>2, <1>3, <1>4, <1>5, <1>6, <1>7 DEF OnceNext, Goroutine

LEMMA OnceCountStep ==
  ASSUME OnceTypeOK, CountInv, OnceNext
  PROVE  CountInv'
<1> USE NAssumption DEF OnceTypeOK, CountInv, Goroutines
<1>1. CASE Go
  <2>1. GoroutinesEnded' = GoroutinesEnded
    BY <1>1 DEF Go, GoroutinesEnded
  <2> QED  BY <1>1, <2>1 DEF Go, OnceNext
<1>2. CASE Return
  <2>1. GoroutinesEnded' = GoroutinesEnded
    BY <1>2 DEF Return, GoroutinesEnded
  <2> QED  BY <1>2, <2>1 DEF Return
<1>3. ASSUME NEW g \in Goroutines, Goroutine(g)  PROVE CountInv'
  <2>1. GoroutinesEnded' = GoroutinesEnded /\ UNCHANGED <<i, got, exited>>
    BY <1>3 DEF Goroutine, Do, Lock, F, Store, Unlock, GoroutinesEnded
  <2>2. \A h \in Goroutines : gpc'[h] = "idle" <=> gpc[h] = "idle"
    BY <1>3 DEF Goroutine, Do, Lock, F, Store, Unlock
  <2> QED  BY <2>1, <2>2
<1>4. ASSUME NEW g \in Goroutines, Meet(g)  PROVE CountInv'
  <2>1. GoroutinesEnded' = GoroutinesEnded \cup {g} /\ g \notin GoroutinesEnded
    BY <1>4 DEF Meet, GoroutinesEnded
  <2>2. Cardinality(GoroutinesEnded') = Cardinality(GoroutinesEnded) + 1
    BY <2>1, GoroutinesFinite, FS_AddElement
  <2>3. ~exited
    BY <1>4 DEF Meet
  <2> QED  BY <1>4, <2>2, <2>3 DEF Meet
<1> QED  BY <1>1, <1>2, <1>3, <1>4 DEF OnceNext

LEMMA OnceInductive == OnceInv /\ [OnceNext]_onceVars => OnceInv'
<1>1. ASSUME OnceInv, OnceNext  PROVE OnceInv'
  BY <1>1, OnceTypeStep, OnceMutexStep, OnceDoneStep, OnceCountStep DEF OnceInv
<1>2. ASSUME OnceInv, UNCHANGED onceVars  PROVE OnceInv'
  BY <1>2 DEF OnceInv, OnceTypeOK, MutexInv, DoneInv, CountInv, GoroutinesEnded, onceVars
<1> QED  BY <1>1, <1>2

LEMMA OnceInvariance == OnceSpec => []OnceInv
BY OnceInitial, OnceInductive, PTL DEF OnceSpec

\* once.Do(f) calls f once and lets nobody past before f has returned, however
\* many goroutines there are.
THEOREM OnceIsOnce == OnceSpec => []DoneOnceBeforeAnybodyGoesOn
<1>1. OnceInv => DoneOnceBeforeAnybodyGoesOn
  BY DEF OnceInv, DoneInv, DoneOnceBeforeAnybodyGoesOn, OnceTypeOK
<1> QED  BY <1>1, OnceInvariance, PTL

\* main's return cuts nobody off: N messages received are N goroutines at their
\* end, so no goroutine is lost with what it was doing.
THEOREM NobodyIsCutOff ==
  OnceSpec => [](exited => \A g \in Goroutines : gpc[g] = "end")
<1>1. OnceInv => (exited => \A g \in Goroutines : gpc[g] = "end")
  <2> SUFFICES ASSUME OnceInv, exited  PROVE \A g \in Goroutines : gpc[g] = "end"
    OBVIOUS
  <2>1. Cardinality(GoroutinesEnded) = Cardinality(Goroutines)
    BY GoroutinesFinite DEF OnceInv, CountInv
  <2>2. GoroutinesEnded = Goroutines
    BY <2>1, GoroutinesFinite, FS_Subset
  <2> QED  BY <2>2 DEF GoroutinesEnded
<1> QED  BY <1>1, OnceInvariance, PTL

-----------------------------------------------------------------------------
(* Blocking readers: no message is lost or counted twice, so main's last   *)
(* receive never comes.                                                    *)

ThreadsEnded == {t \in Threads : rpc[t] = "end"}

\* Each goroutine sends once, and main has received what is not in the channel.
MessageInv == received + ch = Cardinality(ThreadsEnded)

\* The program is ended by a panic or, after its listener failed, by the runtime.
StatusInv ==
  /\ status # "returned"
  /\ status = "deadlock" => server = "failed" /\ received = ThreadCount

\* Goroutines that have not been started have not done anything.
StartInv == \A t \in Threads : t > started => rpc[t] = "idle"

StdinInv == StdinTypeOK /\ StartInv /\ MessageInv /\ StatusInv

-----------------------------------------------------------------------------

LEMMA ThreadsFinite ==
  /\ IsFiniteSet(Threads) /\ Cardinality(Threads) = ThreadCount
  /\ ThreadsEnded \subseteq Threads /\ IsFiniteSet(ThreadsEnded)
  /\ Cardinality(ThreadsEnded) \in 0..ThreadCount
<1>1. ThreadCount \in Nat /\ 1 \in Int
  BY StdinCountsAssumption
<1>2. IsFiniteSet(1..ThreadCount) /\ Cardinality(1..ThreadCount) = ThreadCount
  BY <1>1, FS_Interval
<1>3. ThreadsEnded \subseteq Threads
  BY DEF ThreadsEnded
<1>4. /\ IsFiniteSet(Threads) /\ Cardinality(Threads) = ThreadCount
      /\ IsFiniteSet(ThreadsEnded) /\ Cardinality(ThreadsEnded) <= ThreadCount
  BY <1>2, <1>3, FS_Subset DEF Threads
<1>5. Cardinality(ThreadsEnded) \in Nat
  BY <1>4, FS_CardinalityType
<1> QED  BY <1>1, <1>3, <1>4, <1>5

LEMMA StdinInitial == StdinInit => StdinInv
<1> SUFFICES ASSUME StdinInit  PROVE StdinInv
  OBVIOUS
<1> USE StdinCountsAssumption DEF StdinInit
<1>1. rpc \in [Threads -> {"idle", "check", "read", "send", "end"}]
  OBVIOUS
<1>2. StdinTypeOK
  <2>1. /\ started \in 0..ThreadCount /\ ch \in 0..ThreadCount
        /\ received \in 0..(ThreadCount + 1)
        /\ arrived \in 0..MaxBytes /\ waiting \in 0..arrived
    OBVIOUS
  <2> QED  BY <1>1, <2>1 DEF StdinTypeOK
<1>3. ThreadsEnded = {}
  BY DEF ThreadsEnded
<1>4. StartInv /\ MessageInv /\ StatusInv
  BY <1>3, FS_EmptySet DEF StartInv, MessageInv, StatusInv
<1> QED  BY <1>2, <1>4 DEF StdinInv

\* Main takes at most one message for each goroutine.
LEMMA NotOneMore ==
  ASSUME StdinTypeOK, MessageInv, Receive
  PROVE  received' <= ThreadCount /\ UNCHANGED status
<1>1. received + ch <= ThreadCount
  BY ThreadsFinite DEF MessageInv
<1> QED  BY <1>1, StdinCountsAssumption DEF Receive, StdinTypeOK

LEMMA StdinTypeStep ==
  ASSUME StdinTypeOK, MessageInv, StdinNext
  PROVE  StdinTypeOK'
<1> USE StdinCountsAssumption DEF StdinTypeOK
<1> DEFINE PCs == {"idle", "check", "read", "send", "end"}
<1>1. CASE Listen \/ AllAsleep \/ SetMode \/ HangUp
  BY <1>1 DEF Listen, AllAsleep, SetMode, HangUp, world
<1>2. CASE Start
  <2>1. rpc' \in [Threads -> PCs]
    BY <1>2 DEF Start
  <2>2. started' \in 0..ThreadCount
    BY <1>2 DEF Start
  <2> QED  BY <1>2, <2>1, <2>2 DEF Start, world
<1>3. CASE Receive
  BY <1>3, NotOneMore DEF Receive, world
<1>4. CASE Type
  BY <1>4 DEF Type
<1>5. ASSUME NEW t \in Threads, Thread(t)  PROVE StdinTypeOK'
  <2>1. rpc' \in [Threads -> PCs]
    BY <1>5 DEF Thread, Check, Read, Send
  <2>2. CASE Check(t)
    BY <2>1, <2>2 DEF Check, world
  <2>3. CASE Read(t)
    <3>1. waiting' \in 0..arrived
      BY <2>3 DEF Read
    <3> QED  BY <2>1, <2>3, <3>1 DEF Read
  <2>4. CASE Send(t)
    BY <2>1, <2>4 DEF Send, world
  <2> QED  BY <1>5, <2>2, <2>3, <2>4 DEF Thread
<1> QED  BY <1>1, <1>2, <1>3, <1>4, <1>5 DEF StdinNext, Program

LEMMA StdinMessageStep ==
  ASSUME StdinTypeOK, StartInv, MessageInv, StdinNext
  PROVE  MessageInv'
<1> USE StdinCountsAssumption DEF StdinTypeOK, MessageInv
<1>1. CASE Listen \/ AllAsleep \/ SetMode \/ HangUp \/ Type
  <2>1. ThreadsEnded' = ThreadsEnded /\ UNCHANGED <<ch, received>>
    BY <1>1 DEF Listen, AllAsleep, SetMode, HangUp, Type, ThreadsEnded
  <2> QED  BY <2>1
<1>2. CASE Start
  <2>1. ThreadsEnded' = ThreadsEnded /\ UNCHANGED <<ch, received>>
    BY <1>2 DEF Start, StartInv, ThreadsEnded, Threads
  <2> QED  BY <2>1
<1>3. CASE Receive
  <2>1. ThreadsEnded' = ThreadsEnded
    BY <1>3 DEF Receive, ThreadsEnded
  <2> QED  BY <1>3, <2>1 DEF Receive
<1>4. ASSUME NEW t \in Threads, Check(t) \/ Read(t)  PROVE MessageInv'
  <2>1. ThreadsEnded' = ThreadsEnded /\ UNCHANGED <<ch, received>>
    BY <1>4 DEF Check, Read, ThreadsEnded
  <2> QED  BY <2>1
<1>5. ASSUME NEW t \in Threads, Send(t)  PROVE MessageInv'
  <2>1. ThreadsEnded' = ThreadsEnded \cup {t} /\ t \notin ThreadsEnded
    BY <1>5 DEF Send, ThreadsEnded
  <2>2. Cardinality(ThreadsEnded') = Cardinality(ThreadsEnded) + 1
    BY <2>1, ThreadsFinite, FS_AddElement
  <2> QED  BY <1>5, <2>2 DEF Send
<1> QED  BY <1>1, <1>2, <1>3, <1>4, <1>5 DEF StdinNext, Program, Thread

LEMMA StdinStartStep ==
  ASSUME StdinTypeOK, StartInv, StdinNext
  PROVE  StartInv'
<1> USE StdinCountsAssumption DEF StdinTypeOK, StartInv, Threads
<1>1. CASE Listen \/ AllAsleep \/ SetMode \/ HangUp \/ Type \/ Receive
  BY <1>1 DEF Listen, AllAsleep, SetMode, HangUp, Type, Receive
<1>2. CASE Start
  BY <1>2 DEF Start
<1>3. ASSUME NEW t \in Threads, Thread(t)  PROVE StartInv'
  <2>1. rpc[t] # "idle" /\ UNCHANGED started
    BY <1>3 DEF Thread, Check, Read, Send
  <2>2. \A u \in Threads : u # t => rpc'[u] = rpc[u]
    BY <1>3 DEF Thread, Check, Read, Send
  <2> QED  BY <2>1, <2>2
<1> QED  BY <1>1, <1>2, <1>3 DEF StdinNext, Program

LEMMA StdinStatusStep ==
  ASSUME StdinTypeOK, MessageInv, StatusInv, StdinNext
  PROVE  StatusInv'
<1> USE DEF StatusInv
<1>0. status = "running"
  BY DEF StdinNext
<1>1. CASE Receive
  BY <1>0, <1>1, NotOneMore
<1>2. CASE AllAsleep
  <2>1. ThreadsEnded = Threads
    BY <1>2 DEF AllAsleep, ThreadsEnded
  <2>2. received = ThreadCount
    BY <1>2, <2>1, ThreadsFinite DEF AllAsleep, MessageInv, StdinTypeOK
  <2> QED  BY <1>2, <2>2 DEF AllAsleep
<1>3. CASE Listen \/ Start \/ SetMode \/ HangUp \/ Type
  BY <1>0, <1>3 DEF Listen, Start, SetMode, HangUp, Type
<1>4. ASSUME NEW t \in Threads, Thread(t)  PROVE StatusInv'
  BY <1>0, <1>4 DEF Thread, Check, Read, Send
<1> QED  BY <1>1, <1>2, <1>3, <1>4 DEF StdinNext, Program

LEMMA StdinInductive == StdinInv /\ [StdinNext]_stdinVars => StdinInv'
<1>1. ASSUME StdinInv, StdinNext  PROVE StdinInv'
  BY <1>1, StdinTypeStep, StdinStartStep, StdinMessageStep, StdinStatusStep DEF StdinInv
<1>2. ASSUME StdinInv, UNCHANGED stdinVars  PROVE StdinInv'
  BY <1>2 DEF StdinInv, StdinTypeOK, StartInv, MessageInv, StatusInv, ThreadsEnded, stdinVars, world
<1> QED  BY <1>1, <1>2

LEMMA StdinInvariance == StdinSpec => []StdinInv
BY StdinInitial, StdinInductive, PTL DEF StdinSpec

\* Every goroutine of readFromStdIn accounts for one message and main asks for one
\* more: with any number of them the program serves the profiler until a panic, or,
\* without a listener, until the runtime finds everybody asleep.
THEOREM EveryMessageCounted == StdinSpec => []OneMessageEach
<1>1. StdinInv => OneMessageEach
  BY DEF StdinInv, StdinTypeOK, MessageInv, StatusInv, OneMessageEach, ThreadsEnded
<1> QED  BY <1>1, StdinInvariance, PTL

-----------------------------------------------------------------------------
(* The SQL session, whatever request the server refuses or leaves          *)
(* unanswered.                                                             *)

\* Behind these statements the update has been made, before them nothing of the
\* transaction.
BeforeTx == {"ping", "query", "next", "scan", "update", "begin"}
InTx     == {"insert", "rollback", "commit"}

\* Every row the server found is still there, printed, or in main's hands.
RowsInv ==
  /\ printed + rows + (IF pc = "scan" THEN 1 ELSE 0) <= total
  /\ pc \in {"ping", "query"} => total = 0

\* The rows are open from Query to the end of the loop; main's deferred Close
\* is the only one behind a Scan that failed.
OpenInv == rowsOpen => pc \in {"next", "scan", "deferred"}

TxInv ==
  /\ pc \in BeforeTx => tx = "none" /\ ~insert /\ ~newId
  /\ pc = "begin" => updated
  /\ pc \in InTx => tx = "open" /\ updated /\ ~newId
  /\ pc \in {"commit", "id"} => insert
  /\ tx = "open" => pc \in InTx
  /\ tx = "committed" => updated /\ insert
  /\ newId => insert
  /\ pc = "id" => tx \in {"committed", "aborted"}

SqlInv == SqlTypeOK /\ RowsInv /\ OpenInv /\ TxInv

-----------------------------------------------------------------------------

LEMMA SqlInitial == SqlInit => SqlInv
<1> SUFFICES ASSUME SqlInit  PROVE SqlInv
  OBVIOUS
<1> USE SqlCountsAssumption DEF SqlInit
<1>1. SqlTypeOK
  <2>1. total \in 0..MaxRows /\ rows \in 0..total /\ printed \in 0..total
    OBVIOUS
  <2> QED  BY <2>1 DEF SqlTypeOK
<1>2. RowsInv /\ OpenInv /\ TxInv
  BY DEF RowsInv, OpenInv, TxInv, BeforeTx, InTx
<1> QED  BY <1>1, <1>2 DEF SqlInv

LEMMA RequestStep ==
  ASSUME SqlInv, InitDB \/ Query \/ RowsNext \/ Scan
  PROVE  SqlInv'
<1> USE SqlCountsAssumption DEF SqlInv, Succeed, Fail, BeforeTx, InTx
<1>1. SqlTypeOK' /\ RowsInv'
  <2>1. CASE InitDB
    BY <2>1 DEF InitDB, SqlTypeOK, RowsInv
  <2>2. CASE Query
    <3>1. /\ total' \in 0..MaxRows /\ rows' \in 0..total' /\ printed' \in 0..total'
          /\ RowsInv'
      BY <2>2 DEF Query, SqlTypeOK, RowsInv
    <3>2. rowsOpen' \in BOOLEAN /\ failed' \in BOOLEAN /\ pc' \in {"next", "end"}
      BY <2>2 DEF Query, SqlTypeOK
    <3> QED  BY <2>2, <3>1, <3>2 DEF Query, SqlTypeOK
  <2>3. CASE RowsNext
    <3>1. /\ rows' \in 0..total' /\ RowsInv'
      BY <2>3 DEF RowsNext, SqlTypeOK, RowsInv
    <3>2. rowsOpen' \in BOOLEAN /\ failed' \in BOOLEAN /\ pc' \in {"scan", "update"}
      BY <2>3 DEF RowsNext, SqlTypeOK
    <3> QED  BY <2>3, <3>1, <3>2 DEF RowsNext, SqlTypeOK
  <2>4. CASE Scan
    BY <2>4 DEF Scan, SqlTypeOK, RowsInv
  <2> QED  BY <2>1, <2>2, <2>3, <2>4
<1>2. OpenInv'
  BY DEF InitDB, Query, RowsNext, Scan, OpenInv, SqlTypeOK
<1>3. TxInv'
  BY DEF InitDB, Query, RowsNext, Scan, TxInv
<1> QED  BY <1>1, <1>2, <1>3

LEMMA TransactionStep ==
  ASSUME SqlInv, Update \/ Begin \/ Insert \/ Rollback \/ Commit \/ LastInsertId \/ RowsClose
  PROVE  SqlInv'
<1> USE SqlCountsAssumption DEF SqlInv, Succeed, Fail, BeforeTx, InTx
<1>1. SqlTypeOK' /\ RowsInv'
  <2>1. CASE Update \/ Begin
    BY <2>1 DEF Update, Begin, SqlTypeOK, RowsInv
  <2>2. CASE Insert \/ Rollback
    BY <2>2 DEF Insert, Rollback, SqlTypeOK, RowsInv
  <2>3. CASE Commit \/ LastInsertId \/ RowsClose
    BY <2>3 DEF Commit, LastInsertId, RowsClose, SqlTypeOK, RowsInv
  <2> QED  BY <2>1, <2>2, <2>3
<1>2. OpenInv'
  BY DEF Update, Begin, Insert, Rollback, Commit, LastInsertId, RowsClose, OpenInv, SqlTypeOK
<1>3. TxInv'
  <2>1. CASE Update \/ Begin
    BY <2>1 DEF Update, Begin, TxInv
  <2>2. CASE Insert \/ Rollback
    BY <2>2 DEF Insert, Rollback, TxInv
  <2>3. CASE Commit
    BY <2>3 DEF Commit, TxInv
  <2>4. CASE LastInsertId \/ RowsClose
    BY <2>4 DEF LastInsertId, RowsClose, TxInv
  <2> QED  BY <2>1, <2>2, <2>3, <2>4
<1> QED  BY <1>1, <1>2, <1>3

LEMMA SqlInductive == SqlInv /\ [SqlNext]_sqlVars => SqlInv'
<1>1. ASSUME SqlInv, SqlNext  PROVE SqlInv'
  BY <1>1, RequestStep, TransactionStep DEF SqlNext
<1>2. ASSUME SqlInv, UNCHANGED sqlVars  PROVE SqlInv'
  BY <1>2 DEF SqlInv, SqlTypeOK, RowsInv, OpenInv, TxInv, sqlVars
<1> QED  BY <1>1, <1>2

LEMMA SqlInvariance == SqlSpec => []SqlInv
BY SqlInitial, SqlInductive, PTL DEF SqlSpec

\* However main returns, its rows and its transaction have given their connections
\* back, and it never asked for a second one while it held the first.
THEOREM ConnectionsComeBack == SqlSpec => []NothingIsKept
<1>1. SqlInv => NothingIsKept
  BY DEF SqlInv, OpenInv, TxInv, InTx, NothingIsKept
<1> QED  BY <1>1, SqlInvariance, PTL

\* Only an insert that was made is committed and announced, and only behind the update.
THEOREM NoInsertAlone == SqlSpec => []InsertNeedsUpdate
<1>1. SqlInv => InsertNeedsUpdate
  BY DEF SqlInv, TxInv, InsertNeedsUpdate
<1> QED  BY <1>1, SqlInvariance, PTL

\* With a destination for each column no row is printed that was not found, and
\* with any other number none is printed at all (sql.go:90).
THEOREM NoRowWithoutDestinations ==
  SqlSpec => [](printed <= total /\ (Dests # Columns => printed = 0))
<1> DEFINE J == Dests # Columns => printed = 0
<1>1. SqlInit => J
  BY DEF SqlInit
<1>2. J /\ [SqlNext]_sqlVars => J'
  BY DEF SqlNext, InitDB, Query, RowsNext, Scan, Update, Begin, Insert, Rollback,
     Commit, LastInsertId, RowsClose, sqlVars
<1>3. SqlInv => printed <= total
  BY DEF SqlInv, SqlTypeOK
<1> QED  BY <1>1, <1>2, <1>3, SqlInvariance, PTL DEF SqlSpec

-----------------------------------------------------------------------------
(* One of them runs *)

ProgramsInv == OnceInv /\ StdinInv /\ SqlInv /\ WalkInv /\ PcInv /\ LiteralInv

LEMMA ProgramsInitial == Init => ProgramsInv
BY OnceInitial, StdinInitial, SqlInitial, WalkInitial, PcInitial, LiteralIsThere
DEF Init, ProgramsInv

LEMMA ProgramsStep == ProgramsInv /\ [Next]_vars => ProgramsInv'
<1> SUFFICES ASSUME ProgramsInv, [Next]_vars  PROVE ProgramsInv'
  OBVIOUS
<1>1. [OnceNext]_onceVars /\ [StdinNext]_stdinVars /\ [SqlNext]_sqlVars
      /\ [WalkNext]_walkVars /\ [PcNext]_pcVars /\ [SharedNext]_sharedVars
  BY DEF Next, vars, Once, Stdin, Sql, Walk, Lookup, Share
<1> QED
  BY <1>1, OnceInductive, StdinInductive, SqlInductive, WalkInductive, PcInductive,
     LiteralIsThere
  DEF ProgramsInv

LEMMA ProgramsInvariance == Spec => []ProgramsInv
BY ProgramsInitial, ProgramsStep, PTL DEF Spec

\* Every variable of every program keeps to its values, whichever of them runs.
THEOREM ProgramsAreTyped == Spec => []TypeOK
<1>1. ProgramsInv => TypeOK
  BY WalkIsTyped
  DEF ProgramsInv, OnceInv, StdinInv, SqlInv, PcInv, LiteralInv, SharedInv, TypeOK
<1> QED  BY <1>1, ProgramsInvariance, PTL

\* What holds of each program by itself holds of the run that picks one of them.
THEOREM ProgramsAreRight ==
  Spec => [](/\ DoneOnceBeforeAnybodyGoesOn /\ OneMessageEach
             /\ NothingIsKept /\ InsertNeedsUpdate
             /\ PersonRefersToItself /\ ValueOfTheInstruction)
<1>1. OnceInv => DoneOnceBeforeAnybodyGoesOn
  BY DEF OnceInv, DoneInv, DoneOnceBeforeAnybodyGoesOn, OnceTypeOK
<1>2. StdinInv => OneMessageEach
  BY DEF StdinInv, StdinTypeOK, MessageInv, StatusInv, OneMessageEach, ThreadsEnded
<1>3. SqlInv => NothingIsKept /\ InsertNeedsUpdate
  BY DEF SqlInv, OpenInv, TxInv, InTx, NothingIsKept, InsertNeedsUpdate
<1>4. WalkInv => PersonRefersToItself
  BY DEF WalkInv, PersonRefersToItself
<1>5. PcInv => ValueOfTheInstruction
  BY DEF PcInv
<1> QED  BY <1>1, <1>2, <1>3, <1>4, <1>5, ProgramsInvariance, PTL DEF ProgramsInv

\* So does what they may never do to a string.
THEOREM ProgramsKeepStrings == Spec => StringsKeepTheirBytes
<1>1. ProgramsInv /\ [Next]_vars => [KeepsStrings]_sharedVars
  BY LiteralIsThere DEF ProgramsInv, Next, vars, Once, Stdin, Sql, Walk, Lookup, Share
<1> QED
  BY <1>1, ProgramsInvariance, PTL DEF Spec, StringsKeepTheirBytes, KeepsStrings
=============================================================================
