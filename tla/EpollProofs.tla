---------------------------- MODULE EpollProofs ----------------------------
(***************************************************************************)
(* For any number of bytes and bursts of any size: the loop gives back     *)
(* what it opened, and keeps up with bytes that come one by one.           *)
(***************************************************************************)
EXTENDS EpollServer, TLAPS

\* What boot_server holds at each place.
HeldInv ==
  /\ epfd <=> pc \in {"add", "wait", "read"}
  /\ event <=> pc \in {"wait", "read"}

\* A byte waits, was stolen or was echoed; or the shared output refused it.
ByteInv ==
  /\ taken + out + stdin <= sent
  /\ ~shared => taken + out + stdin = sent

\* As long as bytes come alone there is one at most, and the edge tells of it.
EdgeInv ==
  ~burst => /\ stdin <= 1
            /\ pc = "wait" /\ stdin > 0 => edge

IInv == TypeOK /\ HeldInv /\ ByteInv /\ EdgeInv

-----------------------------------------------------------------------------

LEMMA Initial == Init => IInv
<1> SUFFICES ASSUME Init  PROVE IInv
  OBVIOUS
<1> USE BoundsAssumption DEF Init
<1>1. stdin \in Nat /\ sent \in 0..MaxSent /\ taken \in 0..sent /\ out \in 0..sent
  OBVIOUS
<1>2. TypeOK
  BY <1>1 DEF TypeOK
<1>3. HeldInv /\ ByteInv /\ EdgeInv
  BY DEF HeldInv, ByteInv, EdgeInv
<1> QED  BY <1>2, <1>3 DEF IInv

\* The steps before the loop, and those that leave it.
LEMMA SetupStep ==
  ASSUME IInv, SetNonblock \/ EpollCreate \/ EpollAdd \/ WaitError
  PROVE  IInv'
<1> USE DEF IInv, server, world, flow, Finalizer
<1>1. CASE SetNonblock
  <2>1. nonblock' \in BOOLEAN /\ pc' = "create" /\ pc = "nonblock"
    BY <1>1 DEF SetNonblock, TypeOK
  <2>2. UNCHANGED <<epfd, event, kind, shared, edge, stdin, hup, sent, taken, out, burst>>
    BY <1>1 DEF SetNonblock
  <2>3. TypeOK'
    BY <2>1, <2>2 DEF TypeOK
  <2>4. HeldInv' /\ ByteInv' /\ EdgeInv'
    BY <2>1, <2>2 DEF HeldInv, ByteInv, EdgeInv
  <2> QED  BY <2>3, <2>4
<1>2. CASE EpollCreate
  <2>1. /\ pc = "create" /\ pc' \in {"add", "exited"}
        /\ (epfd' = TRUE /\ pc' = "add") \/ (epfd' = epfd /\ pc' = "exited")
        /\ UNCHANGED <<event, kind, shared, nonblock, edge, stdin, hup, sent, taken,
                       out, burst>>
    BY <1>2 DEF EpollCreate
  <2>2. TypeOK'
    <3>1. epfd' \in BOOLEAN
      BY <2>1 DEF TypeOK
    <3> QED  BY <2>1, <3>1 DEF TypeOK
  <2>3. HeldInv'
    BY <2>1 DEF HeldInv
  <2>4. ByteInv' /\ EdgeInv'
    BY <2>1 DEF ByteInv, EdgeInv
  <2> QED  BY <2>2, <2>3, <2>4
<1>3. CASE EpollAdd
  <2>1. edge' \in BOOLEAN /\ epfd' \in BOOLEAN /\ event' \in BOOLEAN
    BY <1>3 DEF EpollAdd, TypeOK
  <2>2. TypeOK' /\ ByteInv'
    BY <1>3, <2>1 DEF EpollAdd, TypeOK, ByteInv
  <2>3. HeldInv'
    BY <1>3 DEF EpollAdd, HeldInv
  <2>4. EdgeInv'
    BY <1>3 DEF EpollAdd, EdgeInv
  <2> QED  BY <2>2, <2>3, <2>4
<1>4. CASE WaitError
  BY <1>4 DEF WaitError, TypeOK, HeldInv, ByteInv, EdgeInv
<1> QED  BY <1>1, <1>2, <1>3, <1>4

\* The loop.
LEMMA LoopStep ==
  ASSUME IInv, WaitReady \/ ReadByte \/ ReadNothing
  PROVE  IInv'
<1> USE DEF IInv, server, world, flow
<1>1. CASE WaitReady
  BY <1>1 DEF WaitReady, TypeOK, HeldInv, ByteInv, EdgeInv
<1>2. CASE ReadByte
  <2>1. /\ pc = "read" /\ pc' = "wait" /\ stdin' = stdin - 1 /\ stdin > 0
        /\ out' = out + 1 \/ (shared /\ out' = out)
        /\ UNCHANGED <<epfd, event, kind, shared, nonblock, edge, hup, sent, taken, burst>>
    BY <1>2 DEF ReadByte
  <2>2. ByteInv' /\ out' \in 0..sent' /\ stdin' \in Nat
    BY <2>1 DEF ByteInv, TypeOK
  <2>3. TypeOK' /\ HeldInv'
    BY <2>1, <2>2 DEF TypeOK, HeldInv
  <2>4. EdgeInv'
    BY <2>1 DEF EdgeInv, TypeOK
  <2> QED  BY <2>2, <2>3, <2>4
<1>3. CASE ReadNothing
  BY <1>3 DEF ReadNothing, TypeOK, HeldInv, ByteInv, EdgeInv
<1> QED  BY <1>1, <1>2, <1>3

\* Those that share standard input.
LEMMA WorldStep ==
  ASSUME IInv, (\E n \in 1..MaxBurst : Arrive(n)) \/ HangUp \/ Steal
  PROVE  IInv'
<1> USE BoundsAssumption DEF IInv, server, world, flow
<1>1. ASSUME NEW n \in 1..MaxBurst, Arrive(n)  PROVE IInv'
  <2>1. /\ sent' = sent + n /\ stdin' = stdin + n /\ sent + n <= MaxSent
        /\ edge' = (edge \/ event)
        /\ burst' = (burst \/ n > 1 \/ stdin > 0 \/ pc = "read")
        /\ UNCHANGED <<pc, epfd, event, kind, shared, nonblock, hup, taken, out>>
    BY <1>1 DEF Arrive
  <2>2. /\ sent' \in 0..MaxSent /\ stdin' \in Nat /\ taken' \in 0..sent'
        /\ out' \in 0..sent' /\ ByteInv'
    BY <2>1 DEF TypeOK, ByteInv
  <2>3. TypeOK' /\ HeldInv'
    BY <2>1, <2>2 DEF TypeOK, HeldInv
  <2>4. EdgeInv'
    <3> SUFFICES ASSUME ~burst'  PROVE stdin' <= 1 /\ (pc' = "wait" => edge')
      BY DEF EdgeInv
    <3>1. ~(n > 1) /\ ~(stdin > 0)
      BY <2>1
    <3>2. stdin' <= 1
      BY <2>1, <3>1 DEF TypeOK
    <3>3. pc = "wait" => event
      BY DEF HeldInv
    <3>4. pc' = "wait" => edge'
      BY <2>1, <3>3
    <3> QED  BY <3>2, <3>4
  <2> QED  BY <2>2, <2>3, <2>4
<1>2. CASE HangUp
  BY <1>2 DEF HangUp, TypeOK, HeldInv, ByteInv, EdgeInv
<1>3. CASE Steal
  <2>1. /\ stdin > 0 /\ stdin' = stdin - 1 /\ taken' = taken + 1
        /\ UNCHANGED <<pc, epfd, event, kind, shared, nonblock, edge, hup, sent, out, burst>>
    BY <1>3 DEF Steal
  <2>2. ByteInv' /\ taken' \in 0..sent' /\ stdin' \in Nat
    BY <2>1 DEF ByteInv, TypeOK
  <2>3. TypeOK' /\ HeldInv' /\ EdgeInv'
    BY <2>1, <2>2 DEF TypeOK, HeldInv, EdgeInv
  <2> QED  BY <2>2, <2>3
<1> QED  BY <1>1, <1>2, <1>3

LEMMA Invariance == Spec => []IInv
<1>1. ASSUME IInv, Next  PROVE IInv'
  BY <1>1, SetupStep, LoopStep, WorldStep DEF Next, ServerStep
<1>2. ASSUME IInv, UNCHANGED vars  PROVE IInv'
  BY <1>2 DEF IInv, TypeOK, HeldInv, ByteInv, EdgeInv, vars, server, world, flow
<1> QED  BY <1>1, <1>2, Initial, PTL DEF Spec

\* Every variable of boot_server and of the kernel's side keeps to its values.
THEOREM TypeCorrect == Spec => []TypeOK
<1>1. IInv => TypeOK
  BY DEF IInv
<1> QED  BY <1>1, Invariance, PTL

\* boot_server closes the epoll instance and frees the event whichever of its
\* calls failed.
THEOREM GivesBack == Spec => []NothingLeaks
<1>1. IInv => NothingLeaks
  BY DEF IInv, HeldInv, NothingLeaks
<1> QED  BY <1>1, Invariance, PTL

\* Any number of bytes that come one by one are echoed or stolen, none stays behind.
THEOREM KeepsUp == Spec => []KeepsUpWithSingleBytes
<1>1. IInv => KeepsUpWithSingleBytes
  BY DEF IInv, TypeOK, ByteInv, EdgeInv, KeepsUpWithSingleBytes
<1> QED  BY <1>1, Invariance, PTL
=============================================================================
