--------------------------- MODULE MyAtomicProofs ---------------------------
(***************************************************************************)
(* That atomic.s implements the atomic word, for any number of threads and *)
(* words, any width and any calls.  The mapping needs two facts about a    *)
(* thread between its instructions: before the locked one its register     *)
(* holds its first argument, and only an addition reaches the ADDQ.        *)
(***************************************************************************)
EXTENDS MyAtomic, FiniteSetTheorems, TLAPS

USE DEF vars, regs, Addr, Is

LEMMA WrapIsWord == \A x \in Int : Wrap(x) \in Word
<1>1. \A x \in Int, m \in Nat \ {0} : x % m \in 0 .. m - 1
  OBVIOUS
<1>2. 2^Width \in Nat \ {0}
  BY CallsAssumption
<1> DEFINE m == 2^Width
<1>3. m \in Nat \ {0}
  BY <1>2
<1>4. \A x \in Int : x % m \in 0 .. m - 1
  <2> HIDE DEF m
  <2> QED
    BY <1>1, <1>3
<1> QED
  BY <1>4 DEF Wrap, Word

LEMMA WordIsInt == Word \subseteq Int
  BY CallsAssumption DEF Word

LEMMA ZeroIsWord == 0 \in Word
<1> DEFINE m == 2^Width
<1>1. m \in Nat \ {0}
  BY CallsAssumption
<1>2. 0 \in 0 .. m - 1
  <2> HIDE DEF m
  <2> QED
    BY <1>1
<1> QED
  BY <1>2 DEF Word

LEMMA TypeInit == Init => TypeOK
  BY ZeroIsWord DEF Init, TypeOK, PCs

LEMMA TypeStep == TypeOK /\ [Next]_vars => TypeOK'
<1> SUFFICES ASSUME TypeOK, [Next]_vars PROVE TypeOK'
  OBVIOUS
<1> USE DEF TypeOK, PCs
<1>1. ASSUME NEW t \in Threads, Step(t) PROVE TypeOK'
  <2>1. /\ call[t].x \in Word /\ call[t].y \in Word /\ call[t].addr \in Addrs
        /\ val[t] \in Word /\ mem[call[t].addr] \in Word
    BY CallsAssumption DEF CallType
  <2>2. /\ Wrap(mem[call[t].addr] + val[t]) \in Word
        /\ Wrap(val[t] + call[t].x) \in Word
    <3>1. \A v, w \in Word : v + w \in Int
      BY WordIsInt
    <3> QED
      BY <2>1, <3>1, WrapIsWord
  <2>3. CASE MovArgs(t)
    BY <2>1, <2>3 DEF MovArgs
  <2>4. CASE Xadd(t)
    BY <2>1, <2>2, <2>4 DEF Xadd
  <2>5. CASE Addq(t)
    BY <2>1, <2>2, <2>5 DEF Addq
  <2>6. CASE Xchg(t)
    BY <2>1, <2>6 DEF Xchg
  <2>7. CASE Cmpxchg(t)
    BY <2>1, <2>7 DEF Cmpxchg
  <2>8. CASE StoreResult(t)
    BY <2>1, <2>8 DEF StoreResult
  <2> QED
    BY <1>1, <2>3, <2>4, <2>5, <2>6, <2>7, <2>8 DEF Step
<1>2. CASE UNCHANGED vars
  BY <1>2
<1> QED
  BY <1>1, <1>2 DEF Next

\* Memory, registers, flags and result slots keep their width.
THEOREM TypeCorrect == Spec => []TypeOK
<1>1. Init => TypeOK
  BY TypeInit
<1>2. TypeOK /\ [Next]_vars => TypeOK'
  BY TypeStep
<1> QED
  BY <1>1, <1>2, PTL DEF Spec

-----------------------------------------------------------------------------
(* What a thread's registers hold between its instructions.                *)

RegInv ==
  \A t \in Threads :
    /\ pc[t] = "lock" => val[t] = call[t].x
    /\ pc[t] = "addq" => Is(t, "add")

LEMMA RegInvInit == Init => RegInv
  BY DEF Init, RegInv

LEMMA RegInvStep == TypeOK /\ RegInv /\ [Next]_vars => RegInv'
<1> SUFFICES ASSUME TypeOK, RegInv, [Next]_vars PROVE RegInv'
  OBVIOUS
<1> USE DEF TypeOK, RegInv
<1>1. ASSUME NEW t \in Threads, Step(t) PROVE RegInv'
  <2>1. CASE MovArgs(t)
    BY <2>1 DEF MovArgs
  <2>2. CASE Xadd(t)
    BY <2>2 DEF Xadd
  <2>3. CASE Addq(t)
    BY <2>3 DEF Addq
  <2>4. CASE Xchg(t)
    BY <2>4 DEF Xchg
  <2>5. CASE Cmpxchg(t)
    BY <2>5 DEF Cmpxchg
  <2>6. CASE StoreResult(t)
    BY <2>6 DEF StoreResult
  <2> QED
    BY <1>1, <2>1, <2>2, <2>3, <2>4, <2>5, <2>6 DEF Step
<1>2. CASE UNCHANGED vars
  BY <1>2
<1> QED
  BY <1>1, <1>2 DEF Next

-----------------------------------------------------------------------------
(* The refinement: the locked instruction is the instant of the call.      *)

resBar == [t \in Threads |-> Outcome(t)]

LEMMA MapInit == Init => Atomic!Init
<1> SUFFICES ASSUME Init PROVE Atomic!Init
  OBVIOUS
<1>1. Settled = {}
  BY DEF Init, Settled
<1>2. [t \in Threads |-> Outcome(t)] = [t \in Threads |-> 0]
  BY DEF Init, Outcome
<1> QED
  BY <1>1, <1>2 DEF Init, Atomic!Init, Word, Atomic!Word

\* A step of t changes no other thread's registers, so no other outcome.
LEMMA OutcomeOfOthers ==
  ASSUME TypeOK, NEW t \in Threads, Step(t), NEW u \in Threads, u # t
  PROVE  Outcome(u)' = Outcome(u) /\ (u \in Settled' <=> u \in Settled)
<1>1. /\ pc'[u] = pc[u] /\ val'[u] = val[u] /\ zf'[u] = zf[u]
      /\ ret'[u] = ret[u] /\ call' = call
  BY DEF TypeOK, Step, MovArgs, Xadd, Addq, Xchg, Cmpxchg, StoreResult
<1> QED
  BY <1>1 DEF Outcome, Settled

LEMMA MapTake ==
  ASSUME TypeOK, RegInv, NEW t \in Threads, Xadd(t) \/ Xchg(t) \/ Cmpxchg(t)
  PROVE  Atomic!Take(t)
<1> DEFINE v == mem[call[t].addr]
<1>1. Step(t) /\ call' = call /\ call[t].addr \in Addrs
  BY CallsAssumption
  DEF Step, Xadd, Xchg, Cmpxchg, TypeOK, CallType
<1>2. pc[t] = "lock" /\ pc'[t] \in {"addq", "store"} /\ val[t] = call[t].x
  BY DEF Xadd, Xchg, Cmpxchg, TypeOK, RegInv
<1>3. t \notin Settled /\ Settled' = Settled \cup {t}
  BY <1>1, <1>2, OutcomeOfOthers DEF Settled
<1>4. /\ mem' = [mem EXCEPT ![call[t].addr] = Atomic!Effect(call[t], @)]
      /\ Outcome(t)' = Atomic!Result(call[t], v)
  <2>1. CASE Xadd(t)
    <3>1. /\ call[t].op = "add" /\ pc'[t] = "addq" /\ val'[t] = v
          /\ mem' = [mem EXCEPT ![call[t].addr] = Wrap(@ + call[t].x)]
      BY <1>2, <2>1 DEF Xadd, TypeOK
    <3> QED
      BY <1>1, <3>1 DEF Outcome, Wrap, Atomic!Effect, Atomic!Result,
         Atomic!Wrap
  <2>2. CASE Xchg(t)
    <3>1. /\ call[t].op = "swap" /\ pc'[t] = "store" /\ val'[t] = v
          /\ mem' = [mem EXCEPT ![call[t].addr] = call[t].x]
      BY <1>2, <2>2 DEF Xchg, TypeOK
    <3> QED
      BY <1>1, <3>1 DEF Outcome, Atomic!Effect, Atomic!Result
  <2>3. CASE Cmpxchg(t)
    <3>1. /\ call[t].op = "cas" /\ pc'[t] = "store"
          /\ zf'[t] = IF v = call[t].x THEN 1 ELSE 0
      BY <1>2, <2>3 DEF Cmpxchg, TypeOK
    <3>2. mem' = [mem EXCEPT ![call[t].addr] =
                     IF @ = call[t].x THEN call[t].y ELSE @]
      BY <1>1, <1>2, <2>3 DEF Cmpxchg, TypeOK
    <3> QED
      BY <1>1, <3>1, <3>2 DEF Outcome, Atomic!Effect, Atomic!Result
  <2> QED
    BY <2>1, <2>2, <2>3
<1>5. resBar' = [resBar EXCEPT ![t] = Atomic!Result(call[t], v)]
  BY <1>1, <1>4, OutcomeOfOthers DEF resBar
<1> QED
  BY <1>1, <1>3, <1>4, <1>5 DEF Atomic!Take, resBar

LEMMA MapStutter ==
  ASSUME TypeOK, RegInv, NEW t \in Threads,
         MovArgs(t) \/ Addq(t) \/ StoreResult(t)
  PROVE  UNCHANGED Atomic!wordVars
<1>1. Step(t) /\ call' = call /\ mem' = mem
  BY DEF Step, MovArgs, Addq, StoreResult
<1>2. Outcome(t)' = Outcome(t) /\ (t \in Settled' <=> t \in Settled)
  <2>1. CASE MovArgs(t)
    BY <2>1 DEF MovArgs, TypeOK, Outcome, Settled
  <2>2. CASE Addq(t)
    <3>1. /\ pc[t] = "addq" /\ pc'[t] = "store" /\ call[t].op = "add"
          /\ val'[t] = Wrap(val[t] + call[t].x)
      BY <2>2 DEF Addq, TypeOK, RegInv
    <3> QED
      BY <1>1, <3>1 DEF Outcome, Settled
  <2>3. CASE StoreResult(t)
    BY <2>3 DEF StoreResult, TypeOK, Outcome, Settled
  <2> QED
    BY <2>1, <2>2, <2>3
<1>3. Settled' = Settled
  BY <1>1, <1>2, OutcomeOfOthers DEF Settled
<1>4. resBar' = resBar
  BY <1>1, <1>2, OutcomeOfOthers DEF resBar
<1> QED
  BY <1>1, <1>3, <1>4 DEF Atomic!wordVars, resBar

LEMMA MapStep ==
  TypeOK /\ RegInv /\ [Next]_vars => [Atomic!Next]_(Atomic!wordVars)
<1> SUFFICES ASSUME TypeOK, RegInv, [Next]_vars
             PROVE  Atomic!Next \/ UNCHANGED Atomic!wordVars
  OBVIOUS
<1>1. ASSUME NEW t \in Threads, Step(t)
      PROVE  Atomic!Next \/ UNCHANGED Atomic!wordVars
  BY <1>1, MapTake, MapStutter DEF Step, Atomic!Next
<1>2. CASE UNCHANGED vars
  BY <1>2 DEF Atomic!wordVars, Settled, Outcome
<1> QED
  BY <1>1, <1>2 DEF Next

\* The assembly implements the atomic word.
THEOREM AssemblyIsAtomic == Spec => Linearizable
<1>1. Init => Atomic!Init
  BY MapInit
<1>2. Init => RegInv
  BY RegInvInit
<1>3. TypeOK /\ RegInv /\ [Next]_vars => RegInv'
  BY RegInvStep
<1>4. TypeOK /\ RegInv /\ [Next]_vars => [Atomic!Next]_(Atomic!wordVars)
  BY MapStep
<1> QED
  BY <1>1, <1>2, <1>3, <1>4, TypeCorrect, PTL
  DEF Spec, Linearizable, Atomic!Spec

-----------------------------------------------------------------------------
(* Counting over the atomic word: what holds of its calls holds of the     *)
(* assembly's, whose outcomes are settled at the same instant.             *)

Taken(a) == {t \in Callers(a) : t \in Settled}

LEMMA TakenFinite ==
  ASSUME NEW a
  PROVE  /\ IsFiniteSet(Callers(a)) /\ IsFiniteSet(Taken(a))
         /\ Cardinality(Callers(a)) \in Nat /\ Cardinality(Taken(a)) \in Nat
         /\ Cardinality(Taken(a)) <= Cardinality(Callers(a))
<1>1. Callers(a) \in SUBSET Threads /\ Taken(a) \in SUBSET Callers(a)
  BY DEF Callers, Taken
<1>2. IsFiniteSet(Callers(a))
  BY <1>1, ThreadsAssumption, FS_Subset
<1>3. IsFiniteSet(Taken(a)) /\ Cardinality(Taken(a)) <= Cardinality(Callers(a))
  BY <1>1, <1>2, FS_Subset
<1> QED  BY <1>2, <1>3, FS_CardinalityType

\* A step either is the instant of one call, or changes nothing that counts.
LEMMA WordStep ==
  ASSUME TypeOK, RegInv, [Next]_vars
  PROVE  \/ \E t \in Threads :
              /\ t \notin Settled /\ Settled' = Settled \cup {t}
              /\ mem' = [mem EXCEPT ![Addr(t)] = Atomic!Effect(call[t], @)]
              /\ Outcome(t)' = Atomic!Result(call[t], mem[Addr(t)])
              /\ \A u \in Threads \ {t} : Outcome(u)' = Outcome(u)
              /\ UNCHANGED call
         \/ /\ UNCHANGED <<mem, call, Settled>>
            /\ \A u \in Threads : Outcome(u)' = Outcome(u)
<1>1. (\E t \in Threads : Atomic!Take(t)) \/ UNCHANGED Atomic!wordVars
  BY MapStep DEF Atomic!Next
<1>2. ASSUME NEW t \in Threads, Atomic!Take(t)
      PROVE  /\ t \notin Settled /\ Settled' = Settled \cup {t}
             /\ mem' = [mem EXCEPT ![Addr(t)] = Atomic!Effect(call[t], @)]
             /\ Outcome(t)' = Atomic!Result(call[t], mem[Addr(t)])
             /\ \A u \in Threads \ {t} : Outcome(u)' = Outcome(u)
             /\ UNCHANGED call
  <2>1. resBar' = [resBar EXCEPT ![t] = Atomic!Result(call[t], mem[call[t].addr])]
    BY <1>2 DEF Atomic!Take, resBar
  <2>2. \A u \in Threads : resBar[u] = Outcome(u) /\ resBar'[u] = Outcome(u)'
    BY DEF resBar
  <2> QED  BY <1>2, <2>1, <2>2 DEF Atomic!Take, resBar
<1>3. ASSUME UNCHANGED Atomic!wordVars
      PROVE  /\ UNCHANGED <<mem, call, Settled>>
             /\ \A u \in Threads : Outcome(u)' = Outcome(u)
  <2>1. resBar' = resBar /\ UNCHANGED <<mem, call, Settled>>
    BY <1>3 DEF Atomic!wordVars, resBar
  <2>2. \A u \in Threads : resBar[u] = Outcome(u) /\ resBar'[u] = Outcome(u)'
    BY DEF resBar
  <2> QED  BY <2>1, <2>2
<1> QED  BY <1>1, <1>2, <1>3

Swaps(a) == \A t \in Callers(a) : Is(t, "swap")
PutIn(a, v)    == {t \in Taken(a) : call[t].x = v}
Returned(a, v) == {t \in Taken(a) : Outcome(t) = v}

\* Of the swaps that have happened, none has lost a value.
SwapInv ==
  \A a \in Addrs : \A v \in Word : Swaps(a) =>
    Cardinality(PutIn(a, v)) <= Cardinality(Returned(a, v)) + (IF mem[a] = v THEN 1 ELSE 0)

LEMMA SwapFinite ==
  ASSUME NEW a, NEW v
  PROVE  /\ IsFiniteSet(PutIn(a, v)) /\ IsFiniteSet(Returned(a, v))
         /\ Cardinality(PutIn(a, v)) \in Nat /\ Cardinality(Returned(a, v)) \in Nat
<1>1. PutIn(a, v) \in SUBSET Taken(a) /\ Returned(a, v) \in SUBSET Taken(a)
  BY DEF PutIn, Returned
<1> QED  BY <1>1, TakenFinite, FS_Subset, FS_CardinalityType

LEMMA SwapInit == Init => SwapInv
<1> SUFFICES ASSUME Init, NEW a \in Addrs, NEW v \in Word
             PROVE  Cardinality(PutIn(a, v)) = 0
  BY SwapFinite DEF SwapInv
<1>1. PutIn(a, v) = {}
  BY DEF Init, PutIn, Taken, Settled, Callers
<1> QED  BY <1>1, FS_EmptySet

LEMMA SwapStep == TypeOK /\ RegInv /\ SwapInv /\ [Next]_vars => SwapInv'
<1> SUFFICES ASSUME TypeOK, RegInv, SwapInv, [Next]_vars, NEW a \in Addrs, NEW v \in Word,
                    Swaps(a)'
             PROVE  (Cardinality(PutIn(a, v)) <=
                       Cardinality(Returned(a, v)) + (IF mem[a] = v THEN 1 ELSE 0))'
  BY DEF SwapInv, Word
<1>0. call' = call /\ Callers(a)' = Callers(a) /\ Swaps(a)
  BY WordStep DEF Callers, Swaps
<1>1. Cardinality(PutIn(a, v)) <= Cardinality(Returned(a, v)) + (IF mem[a] = v THEN 1 ELSE 0)
  BY <1>0 DEF SwapInv
<1>2. CASE /\ UNCHANGED <<mem, call, Settled>>
           /\ \A u \in Threads : Outcome(u)' = Outcome(u)
  <2>1. PutIn(a, v)' = PutIn(a, v) /\ Returned(a, v)' = Returned(a, v)
    BY <1>0, <1>2 DEF PutIn, Returned, Taken, Callers
  <2> QED  BY <1>1, <1>2, <2>1
<1>3. ASSUME NEW t \in Threads,
             t \notin Settled, Settled' = Settled \cup {t},
             mem' = [mem EXCEPT ![Addr(t)] = Atomic!Effect(call[t], @)],
             Outcome(t)' = Atomic!Result(call[t], mem[Addr(t)]),
             \A u \in Threads \ {t} : Outcome(u)' = Outcome(u)
      PROVE  (Cardinality(PutIn(a, v)) <=
                Cardinality(Returned(a, v)) + (IF mem[a] = v THEN 1 ELSE 0))'
  <2>1. CASE Addr(t) # a
    <3>1. t \notin Callers(a) /\ Taken(a)' = Taken(a)
      BY <1>0, <1>3, <2>1 DEF Taken, Callers
    <3>2. PutIn(a, v)' = PutIn(a, v) /\ Returned(a, v)' = Returned(a, v)
      BY <1>0, <1>3, <3>1 DEF PutIn, Returned, Taken, Callers
    <3>3. mem'[a] = mem[a]
      BY <1>3, <2>1 DEF TypeOK
    <3> QED  BY <1>1, <3>2, <3>3
  <2>2. CASE Addr(t) = a
    <3>1. t \in Callers(a) /\ t \notin Taken(a) /\ Taken(a)' = Taken(a) \cup {t}
      BY <1>0, <1>3, <2>2 DEF Taken, Callers
    <3>2. Outcome(t)' = mem[a] /\ mem'[a] = call[t].x
      BY <1>0, <1>3, <2>2, <3>1 DEF Swaps, Atomic!Effect, Atomic!Result, TypeOK
    <3>3. /\ PutIn(a, v)' = IF call[t].x = v THEN PutIn(a, v) \cup {t} ELSE PutIn(a, v)
          /\ Returned(a, v)' = IF mem[a] = v THEN Returned(a, v) \cup {t} ELSE Returned(a, v)
          /\ t \notin PutIn(a, v) /\ t \notin Returned(a, v)
      BY <1>0, <1>3, <3>1, <3>2 DEF PutIn, Returned, Taken, Callers
    <3>4. /\ Cardinality(PutIn(a, v)') =
               Cardinality(PutIn(a, v)) + (IF call[t].x = v THEN 1 ELSE 0)
          /\ Cardinality(Returned(a, v)') =
               Cardinality(Returned(a, v)) + (IF mem[a] = v THEN 1 ELSE 0)
      <4>1. /\ Cardinality(PutIn(a, v) \cup {t}) = Cardinality(PutIn(a, v)) + 1
            /\ Cardinality(Returned(a, v) \cup {t}) = Cardinality(Returned(a, v)) + 1
        BY <3>3, SwapFinite, FS_AddElement
      <4>2. PutIn(a, v)' = PutIn(a, v) => Cardinality(PutIn(a, v)') = Cardinality(PutIn(a, v))
        OBVIOUS
      <4>3. Returned(a, v)' = Returned(a, v)
              => Cardinality(Returned(a, v)') = Cardinality(Returned(a, v))
        OBVIOUS
      <4>4. Cardinality(PutIn(a, v)) \in Nat /\ Cardinality(Returned(a, v)) \in Nat
        BY SwapFinite
      <4>5. CASE call[t].x = v /\ mem[a] = v
        BY <3>3, <4>1, <4>5
      <4>6. CASE call[t].x = v /\ mem[a] # v
        BY <3>3, <4>1, <4>3, <4>4, <4>6
      <4>7. CASE call[t].x # v /\ mem[a] = v
        BY <3>3, <4>1, <4>2, <4>4, <4>7
      <4>8. CASE call[t].x # v /\ mem[a] # v
        BY <3>3, <4>2, <4>3, <4>4, <4>8
      <4> QED  BY <4>5, <4>6, <4>7, <4>8
    <3> QED  BY <1>1, <3>2, <3>4, SwapFinite
  <2> QED  BY <2>1, <2>2
<1> QED  BY <1>2, <1>3, WordStep

\* Of a word that is only swapped no value is lost, whatever the number of threads
\* and of values, and however their instructions interleave.
THEOREM SwapsConserve == Spec => []SwapConserves
<1>1. ASSUME TypeOK, SwapInv  PROVE SwapConserves
  <2> SUFFICES ASSUME NEW a \in Addrs, NEW t \in Callers(a),
                      \A u \in Callers(a) : Is(u, "swap") /\ pc[u] = "ret"
               PROVE  LET v == call[t].x IN
                      Cardinality({u \in Callers(a) : call[u].x = v})
                        <= Cardinality({u \in Callers(a) : ret[u] = v})
                           + (IF mem[a] = v THEN 1 ELSE 0)
    BY DEF SwapConserves
  <2> DEFINE v == call[t].x
  <2>1. v \in Word /\ Swaps(a)
    BY <1>1, CallsAssumption DEF Callers, Swaps, TypeOK, CallType
  <2>2. /\ PutIn(a, v) = {u \in Callers(a) : call[u].x = v}
        /\ Returned(a, v) = {u \in Callers(a) : ret[u] = v}
    BY DEF PutIn, Returned, Taken, Settled, Outcome, Callers
  <2> QED  BY <1>1, <2>1, <2>2 DEF SwapInv
<1> QED
  BY <1>1, RegInvInit, RegInvStep, SwapInit, SwapStep, TypeCorrect, PTL DEF Spec

Values == 2^Width

\* The value j additions of one ago.
Back(y, j) == IF j <= y THEN y - j ELSE y - j + Values

Tickets(a) ==
  /\ \A t \in Callers(a) : Is(t, "add") /\ call[t].x = 1
  /\ Cardinality(Callers(a)) <= Values

\* The tickets drawn are the last values of the counter, each drawn once.
TicketInv ==
  \A a \in Addrs : Tickets(a) =>
    /\ \A t \in Taken(a) :
         \E j \in 0 .. Cardinality(Taken(a)) - 1 : Outcome(t) = Back(mem[a], j)
    /\ \A t, u \in Taken(a) : t # u => Outcome(t) # Outcome(u)

LEMMA WrapNext ==
  ASSUME NEW y \in Word
  PROVE  Wrap(y + 1) = IF y + 1 = Values THEN 0 ELSE y + 1
<1>1. \A m \in Nat \ {0} : \A x \in 0 .. m - 1 :
        (x + 1) % m = IF x + 1 = m THEN 0 ELSE x + 1
  OBVIOUS
<1>2. Values \in Nat \ {0} /\ y \in 0 .. Values - 1
  BY CallsAssumption DEF Values, Word
<1> QED  BY <1>1, <1>2 DEF Wrap, Values

\* One more addition puts every earlier value one further back, and is none of them.
LEMMA BackNext ==
  ASSUME NEW y \in Word, NEW j \in Nat, j + 1 < Values
  PROVE  /\ Back(Wrap(y + 1), j + 1) = Back(y, j)
         /\ Back(y, j) # Wrap(y + 1)
         /\ Back(Wrap(y + 1), 0) = Wrap(y + 1)
<1>1. Values \in Nat \ {0} /\ y \in 0 .. Values - 1
  BY CallsAssumption DEF Values, Word
<1>2. CASE y + 1 = Values
  BY <1>1, <1>2, WrapNext DEF Back
<1>3. CASE y + 1 # Values
  BY <1>1, <1>3, WrapNext DEF Back
<1> QED  BY <1>2, <1>3

LEMMA TicketInit == Init => TicketInv
  BY DEF Init, TicketInv, Taken, Settled, Callers

LEMMA TicketStep == TypeOK /\ RegInv /\ TicketInv /\ [Next]_vars => TicketInv'
<1> SUFFICES ASSUME TypeOK, RegInv, TicketInv, [Next]_vars, NEW a \in Addrs, Tickets(a)'
             PROVE  (/\ \A t \in Taken(a) :
                          \E j \in 0 .. Cardinality(Taken(a)) - 1 : Outcome(t) = Back(mem[a], j)
                     /\ \A t, u \in Taken(a) : t # u => Outcome(t) # Outcome(u))'
  BY DEF TicketInv
<1>0. call' = call /\ Callers(a)' = Callers(a) /\ Tickets(a)
  BY WordStep DEF Callers, Tickets
<1>1. /\ \A t \in Taken(a) :
           \E j \in 0 .. Cardinality(Taken(a)) - 1 : Outcome(t) = Back(mem[a], j)
      /\ \A t, u \in Taken(a) : t # u => Outcome(t) # Outcome(u)
  BY <1>0 DEF TicketInv
<1>2. ASSUME Taken(a)' = Taken(a), mem'[a] = mem[a],
             \A u \in Taken(a) : Outcome(u)' = Outcome(u)
      PROVE  (/\ \A t \in Taken(a) :
                   \E j \in 0 .. Cardinality(Taken(a)) - 1 : Outcome(t) = Back(mem[a], j)
              /\ \A t, u \in Taken(a) : t # u => Outcome(t) # Outcome(u))'
  BY <1>1, <1>2 DEF Back
<1>3. CASE /\ UNCHANGED <<mem, call, Settled>>
           /\ \A u \in Threads : Outcome(u)' = Outcome(u)
  <2>1. Taken(a)' = Taken(a) /\ \A u \in Taken(a) : Outcome(u)' = Outcome(u)
    BY <1>0, <1>3 DEF Taken, Callers
  <2> QED  BY <1>2, <1>3, <2>1
<1>4. ASSUME NEW t \in Threads,
             t \notin Settled, Settled' = Settled \cup {t},
             mem' = [mem EXCEPT ![Addr(t)] = Atomic!Effect(call[t], @)],
             Outcome(t)' = Atomic!Result(call[t], mem[Addr(t)]),
             \A u \in Threads \ {t} : Outcome(u)' = Outcome(u)
      PROVE  (/\ \A u \in Taken(a) :
                   \E j \in 0 .. Cardinality(Taken(a)) - 1 : Outcome(u) = Back(mem[a], j)
              /\ \A u, w \in Taken(a) : u # w => Outcome(u) # Outcome(w))'
  <2>1. CASE Addr(t) # a
    <3>1. /\ Taken(a)' = Taken(a) /\ t \notin Taken(a) /\ mem'[a] = mem[a]
          /\ Taken(a) \subseteq Threads
      BY <1>0, <1>4, <2>1 DEF Taken, Callers, TypeOK
    <3> QED  BY <1>2, <1>4, <3>1
  <2>2. CASE Addr(t) = a
    <3> DEFINE y == mem[a]
               k == Cardinality(Taken(a))
    <3>1. /\ t \in Callers(a) /\ t \notin Taken(a) /\ Taken(a)' = Taken(a) \cup {t}
          /\ Taken(a) \subseteq Threads
      BY <1>0, <1>4, <2>2 DEF Taken, Callers
    <3>2. y \in Word /\ Outcome(t)' = Wrap(y + 1) /\ mem'[a] = Wrap(y + 1)
      BY <1>0, <1>4, <2>2, <3>1 DEF Tickets, Atomic!Effect, Atomic!Result, Atomic!Wrap,
         Wrap, TypeOK
    <3>3. /\ k \in Nat /\ Cardinality(Taken(a)') = k + 1 /\ k + 1 <= Values
      <4>1. Cardinality(Taken(a)') = k + 1
        BY <3>1, TakenFinite, FS_AddElement
      <4>2. Taken(a)' \in SUBSET Callers(a)
        BY <3>1 DEF Taken
      <4>3. k + 1 <= Cardinality(Callers(a))
        BY <4>1, <4>2, TakenFinite, FS_Subset
      <4>4. k \in Nat /\ Cardinality(Callers(a)) \in Nat /\ Values \in Nat
        BY TakenFinite, CallsAssumption DEF Values
      <4> QED  BY <1>0, <4>1, <4>3, <4>4 DEF Tickets
    <3>4. ASSUME NEW u \in Taken(a)
          PROVE  /\ Outcome(u)' = Outcome(u) /\ Outcome(u) # Wrap(y + 1)
                 /\ \E j \in 0 .. k : Outcome(u) = Back(Wrap(y + 1), j)
      <4>1. PICK j \in 0 .. k - 1 : Outcome(u) = Back(y, j)
        BY <1>1
      <4>2. j \in Nat /\ j + 1 < Values /\ j + 1 \in 0 .. k
        BY <3>3, CallsAssumption DEF Values
      <4>3. Outcome(u)' = Outcome(u)
        BY <1>4, <3>1
      <4> QED  BY <3>2, <4>1, <4>2, <4>3, BackNext
    <3>5. Back(Wrap(y + 1), 0) = Wrap(y + 1) /\ 0 \in 0 .. k
      <4>1. Wrap(y + 1) \in Nat
        BY <3>2, WrapNext, CallsAssumption DEF Word, Values
      <4> QED  BY <3>3, <4>1 DEF Back
    <3>6. \A u \in Taken(a)' :
            \E j \in 0 .. Cardinality(Taken(a)') - 1 : Outcome(u)' = Back(mem'[a], j)
      BY <3>1, <3>2, <3>3, <3>4, <3>5
    <3>7. \A u, w \in Taken(a)' : u # w => Outcome(u)' # Outcome(w)'
      BY <1>1, <3>1, <3>2, <3>4
    <3> QED  BY <3>6, <3>7 DEF Back
  <2> QED  BY <2>1, <2>2
<1> QED  BY <1>3, <1>4, WordStep

\* Threads that add one to a word draw distinct values from it, for any width and
\* any number of threads up to the values of a word.
THEOREM TicketsAreDistinct == Spec => []TicketsDistinct
<1>1. ASSUME TicketInv  PROVE TicketsDistinct
  <2>1. \A a : \A t \in Callers(a) : pc[t] = "ret" => t \in Taken(a) /\ Outcome(t) = ret[t]
    BY DEF Taken, Settled, Outcome, Callers
  <2> QED  BY <1>1, <2>1 DEF TicketInv, TicketsDistinct, Tickets, Values
<1> QED
  BY <1>1, RegInvInit, RegInvStep, TicketInit, TicketStep, TypeCorrect, PTL DEF Spec
=============================================================================
