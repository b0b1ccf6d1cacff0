-------------------------- MODULE EchoServerProofs --------------------------
(***************************************************************************)
(* What TLAPS proves of EchoServer, for any number of clients, any lengths,*)
(* any limits and any resets.                                              *)
(*                                                                         *)
(* EchoComplete is not inductive: a client knows the echo is whole only    *)
(* because FIN travels behind the bytes.  ByteInv carries that argument:   *)
(* the client's FIN means its request was written, so a handler that sees  *)
(* EOF holds all of it; the handler's FIN means all of it was echoed, so a *)
(* client that sees EOF got all of it back.                                *)
(***************************************************************************)
EXTENDS EchoServer, FiniteSetTheorems, SequenceTheorems, TLAPS

USE DEF vars, net, Move

(* Every variable keeps its type: main, server, handlers and clients.      *)
LEMMA TypeInit == Init => TypeOK
<1> SUFFICES ASSUME Init PROVE TypeOK
  OBVIOUS
<1>1. queue \in Seq(Clients)
  BY EmptySeq DEF Init
<1>2. /\ mpc \in {"setlimit", "boot", "spawn", "exited"}
      /\ spc \in {"unborn", "listen", "announce", "accept", "park", "close",
                  "closed", "dead"}
      /\ cpc \in [Clients -> ClientPCs]
      /\ hpc \in [Clients -> HandlerPCs]
  BY DEF Init, ClientPCs, HandlerPCs
<1>3. /\ fdLimit \in {SoftLimit, HardLimit}
      /\ closed \subseteq {"ch", "closeChan"}
      /\ open \subseteq {"client", "server"} \X Clients
      /\ rst \subseteq Clients
      /\ up \in [Clients -> Stream] /\ down \in [Clients -> Stream]
  BY DEF Init, NewStream, Stream
<1> QED
  BY <1>1, <1>2, <1>3 DEF TypeOK

\* What Put, Get and Fin make of a stream is a stream.
LEMMA StreamSent ==
  ASSUME NEW r \in Stream, NEW n \in Nat
  PROVE  [r EXCEPT !.sent = @ + n] \in Stream
  BY DEF Stream

LEMMA StreamGot ==
  ASSUME NEW r \in Stream, NEW n \in Nat
  PROVE  [r EXCEPT !.got = @ + n] \in Stream
  BY DEF Stream

LEMMA StreamFin ==
  ASSUME NEW r \in Stream, NEW P
  PROVE  [r EXCEPT !.fin = (@ \/ P)] \in Stream
<1>1. [r EXCEPT !.fin = (@ \/ P)] =
        [sent |-> r.sent, got |-> r.got, fin |-> (r.fin \/ P)]
  BY DEF Stream
<1> QED
  BY <1>1 DEF Stream

LEMMA StreamUpdate ==
  ASSUME NEW s \in [Clients -> Stream], NEW c \in Clients, NEW n \in Nat
  PROVE  /\ [s EXCEPT ![c].sent = @ + n] \in [Clients -> Stream]
         /\ [s EXCEPT ![c].got = @ + n] \in [Clients -> Stream]
         /\ [s EXCEPT ![c].fin = (@ \/ c \notin rst)] \in [Clients -> Stream]
<1>1. [s EXCEPT ![c].sent = @ + n] \in [Clients -> Stream]
  BY StreamSent
<1>2. [s EXCEPT ![c].got = @ + n] \in [Clients -> Stream]
  BY StreamGot
<1>3. [s EXCEPT ![c].fin = (@ \/ c \notin rst)] \in [Clients -> Stream]
  BY StreamFin
<1> QED
  BY <1>1, <1>2, <1>3

LEMMA TypeStep == TypeOK /\ [Next]_vars => TypeOK'
<1> SUFFICES ASSUME TypeOK, [Next]_vars PROVE TypeOK'
  OBVIOUS
<1> USE LengthsAssumption, LimitsAssumption DEF TypeOK
<1>1. CASE MainStep
  BY <1>1 DEF MainStep, SetMaxOpenFile, GoStartServer, GoClient, MainReturn,
     ClientPCs
<1>2. CASE ServerStep
  <2>1. CASE Listen \/ Announce \/ AcceptFail \/ AcceptPark
    BY <2>1 DEF Listen, Announce, AcceptFail, AcceptPark
  <2>2. CASE Accept
    <3>1. Head(queue) \in Clients /\ Tail(queue) \in Seq(Clients)
      BY <2>2 DEF Accept
    <3> QED
      BY <2>2, <3>1 DEF Accept, HandlerPCs
  <2>3. CASE ListenerClose
    BY <2>3 DEF ListenerClose
  <2> QED
    BY <1>2, <2>1, <2>2, <2>3 DEF ServerStep
<1>3. ASSUME NEW c \in Clients, HandlerStep(c) PROVE TypeOK'
  <2>1. CASE HandlerNext(c)
    BY <2>1 DEF HandlerNext, HandlerPCs
  <2>2. CASE HandlerRead(c)
    <3>1. PICK n \in 1..BufSize : up' = [up EXCEPT ![c].got = @ + n]
      BY <2>2 DEF HandlerRead, Get
    <3>2. up' \in [Clients -> Stream]
      BY <3>1, n \in Nat, StreamUpdate
    <3> QED
      BY <2>2, <3>2 DEF HandlerRead
  <2>3. CASE HandlerWrite(c)
    <3>1. PICK n \in 1..SockBuf : down' = [down EXCEPT ![c].sent = @ + n]
      BY <2>3 DEF HandlerWrite, Put
    <3>2. down' \in [Clients -> Stream]
      BY <3>1, n \in Nat, StreamUpdate
    <3> QED
      BY <2>3, <3>2 DEF HandlerWrite
  <2>4. CASE HandlerReturn(c)
    <3>1. down' \in [Clients -> Stream]
      BY <2>4, StreamUpdate DEF HandlerReturn, Fin
    <3>2. hpc' \in [Clients -> HandlerPCs]
      BY <2>4 DEF HandlerReturn, HandlerPCs
    <3> QED
      BY <2>4, <3>1, <3>2 DEF HandlerReturn
  <2> QED
    BY <1>3, <2>1, <2>2, <2>3, <2>4 DEF HandlerStep
<1>4. ASSUME NEW c \in Clients, ClientStep(c) PROVE TypeOK'
  <2>1. CASE ClientAwait(c) \/ DialSocket(c) \/ DialFail(c)
    <3>1. cpc' \in [Clients -> ClientPCs]
      BY <2>1 DEF ClientAwait, DialSocket, DialFail, ClientPCs
    <3>2. open' \subseteq {"client", "server"} \X Clients
      BY <2>1 DEF ClientAwait, DialSocket, DialFail
    <3> QED
      BY <2>1, <3>1, <3>2 DEF ClientAwait, DialSocket, DialFail
  <2>2. CASE DialConnect(c)
    BY <2>2 DEF DialConnect, ClientPCs
  <2>3. CASE ClientWrite(c)
    <3>1. PICK n \in 1..SockBuf : up' = [up EXCEPT ![c].sent = @ + n]
      BY <2>3 DEF ClientWrite, Put
    <3>2. up' \in [Clients -> Stream]
      BY <3>1, n \in Nat, StreamUpdate
    <3> QED
      BY <2>3, <3>2 DEF ClientWrite
  <2>4. CASE ClientRead(c)
    <3>1. PICK n \in 1..BufSize : down' = [down EXCEPT ![c].got = @ + n]
      BY <2>4 DEF ClientRead, Get
    <3>2. down' \in [Clients -> Stream]
      BY <3>1, n \in Nat, StreamUpdate
    <3> QED
      BY <2>4, <3>2 DEF ClientRead
  <2>5. CASE ClientCloseWrite(c) \/ ClientReturn(c)
    <3>0. Fin(up, c)
      BY <2>5 DEF ClientCloseWrite, ClientReturn
    <3>1. up' \in [Clients -> Stream]
      BY <3>0, StreamUpdate DEF Fin
    <3>2. cpc' \in [Clients -> ClientPCs]
      BY <2>5 DEF ClientCloseWrite, ClientReturn, ClientPCs
    <3> QED
      BY <2>5, <3>1, <3>2 DEF ClientCloseWrite, ClientReturn
  <2> QED
    BY <1>4, <2>1, <2>2, <2>3, <2>4, <2>5 DEF ClientStep
<1>5. ASSUME NEW c \in Clients, Reset(c) PROVE TypeOK'
  BY <1>5 DEF Reset
<1>6. CASE UNCHANGED vars
  BY <1>6
<1> QED
  BY <1>1, <1>2, <1>3, <1>4, <1>5, <1>6 DEF Next, GoroutineStep, Stopped

\* Every variable of the program keeps its type in every reachable state.
THEOREM TypeCorrect == Spec => []TypeOK
<1>1. Init => TypeOK
  BY TypeInit
<1>2. TypeOK /\ [Next]_vars => TypeOK'
  BY TypeStep
<1> QED
  BY <1>1, <1>2, PTL DEF Spec

-----------------------------------------------------------------------------
(* The bytes of one connection: the inductive invariant behind EchoComplete *)

ByteInvOf(c) ==
  /\ up[c].got <= up[c].sent /\ up[c].sent <= InfoLen
  /\ up[c].fin => up[c].sent = InfoLen
  /\ hpc[c] \in {"write", "ok"} => up[c].got = InfoLen
  /\ down[c].sent > 0 => up[c].got = InfoLen
  /\ down[c].got <= down[c].sent /\ down[c].sent <= up[c].got
  /\ down[c].fin => down[c].sent = InfoLen
  /\ cpc[c] = "ok" => down[c].got = InfoLen

ByteInv == \A c \in Clients : ByteInvOf(c)

LEMMA ByteInvMeaning ==
  ByteInv <=> EchoAfterWhole /\ FinAfterBytes /\ EchoComplete
  BY DEF ByteInv, ByteInvOf, EchoAfterWhole, FinAfterBytes, EchoComplete

LEMMA ByteInvInit == Init => ByteInv
  BY LengthsAssumption DEF Init, ByteInv, ByteInvOf, NewStream

\* A step that leaves d's streams alone and does not bring its client or
\* handler to a stage that promises something.
LEMMA ByteInvQuiet ==
  ASSUME NEW d \in Clients, ByteInvOf(d), up'[d] = up[d], down'[d] = down[d],
         hpc'[d] \in {"write", "ok"} => hpc[d] \in {"write", "ok"},
         cpc'[d] = "ok" => cpc[d] = "ok"
  PROVE  ByteInvOf(d)'
  BY DEF ByteInvOf

LEMMA ByteInvStep == TypeOK /\ ByteInv /\ [Next]_vars => ByteInv'
<1> SUFFICES ASSUME TypeOK, ByteInv, [Next]_vars, NEW d \in Clients
             PROVE  ByteInvOf(d)'
  BY DEF ByteInv
<1>d. ByteInvOf(d)
  BY DEF ByteInv
<1> USE LengthsAssumption DEF TypeOK
<1>1. CASE MainStep
  <2>1. UNCHANGED <<hpc, up, down>>
    BY <1>1 DEF MainStep, SetMaxOpenFile, GoStartServer, GoClient, MainReturn
  <2>2. cpc'[d] = "ok" => cpc[d] = "ok"
    BY <1>1 DEF MainStep, SetMaxOpenFile, GoStartServer, GoClient, MainReturn
  <2> QED
    BY <1>d, <2>1, <2>2, ByteInvQuiet
<1>2. CASE ServerStep
  <2>1. UNCHANGED <<cpc, up, down>>
    BY <1>2 DEF ServerStep, Listen, Announce, Accept, AcceptFail, AcceptPark,
       ListenerClose
  <2>2. hpc'[d] \in {"write", "ok"} => hpc[d] \in {"write", "ok"}
    BY <1>2 DEF ServerStep, Listen, Announce, Accept, AcceptFail, AcceptPark,
       ListenerClose
  <2> QED
    BY <1>d, <2>1, <2>2, ByteInvQuiet
<1>3. ASSUME NEW c \in Clients, HandlerStep(c), c = d PROVE ByteInvOf(d)'
  <2> USE <1>d, <1>3 DEF Stream, InKernel
  <2>1. CASE HandlerNext(c)
    BY <2>1 DEF HandlerNext, EOF, ByteInvOf
  <2>2. CASE HandlerRead(c)
    <3>1. PICK n \in 1..BufSize : /\ n <= up[c].sent - up[c].got
                                  /\ up' = [up EXCEPT ![c].got = @ + n]
      BY <2>2 DEF HandlerRead, Get
    <3>2. /\ up'[c].got = up[c].got + n /\ up'[c].sent = up[c].sent
          /\ up'[c].fin = up[c].fin
      BY <3>1
    <3>3. UNCHANGED <<cpc, hpc, down>> /\ hpc[c] = "read"
      BY <2>2 DEF HandlerRead
    <3>4. down[c].sent = 0
      BY <3>1 DEF ByteInvOf
    <3> QED
      BY <3>1, <3>2, <3>3, <3>4 DEF ByteInvOf
  <2>3. CASE HandlerWrite(c)
    <3>1. PICK n \in 1..SockBuf : /\ down[c].sent + n <= up[c].got
                                  /\ down' = [down EXCEPT ![c].sent = @ + n]
      BY <2>3 DEF HandlerWrite, Put
    <3>2. /\ down'[c].sent = down[c].sent + n /\ down'[c].got = down[c].got
          /\ down'[c].fin = down[c].fin
      BY <3>1
    <3>3. UNCHANGED <<cpc, hpc, up>> /\ hpc[c] = "write"
      BY <2>3 DEF HandlerWrite
    <3> QED
      BY <3>1, <3>2, <3>3 DEF ByteInvOf
  <2>4. CASE HandlerReturn(c)
    <3>1. /\ down'[c].sent = down[c].sent /\ down'[c].got = down[c].got
          /\ down'[c].fin = (down[c].fin \/ c \notin rst)
      BY <2>4 DEF HandlerReturn, Fin
    <3>2. UNCHANGED <<cpc, up>>
      BY <2>4 DEF HandlerReturn
    <3>3. \/ c \in rst /\ hpc'[c] = "failed"
          \/ down[c].sent = up[c].got /\ hpc[c] = "write"
      BY <2>4 DEF HandlerReturn, ReadError
    <3> QED
      BY <3>1, <3>2, <3>3 DEF ByteInvOf
  <2> QED
    BY <2>1, <2>2, <2>3, <2>4 DEF HandlerStep
<1>4. ASSUME NEW c \in Clients, HandlerStep(c), c # d PROVE ByteInvOf(d)'
  <2>1. up'[d] = up[d] /\ down'[d] = down[d] /\ hpc'[d] = hpc[d] /\ cpc' = cpc
    BY <1>4 DEF HandlerStep, HandlerNext, HandlerRead, HandlerWrite,
       HandlerReturn, Get, Put, Fin
  <2> QED
    BY <1>d, <2>1, ByteInvQuiet
<1>5. ASSUME NEW c \in Clients, ClientStep(c), c = d PROVE ByteInvOf(d)'
  <2> USE <1>d, <1>5 DEF Stream, InKernel
  <2>1. CASE ClientAwait(c) \/ DialSocket(c) \/ DialConnect(c) \/ DialFail(c)
    BY <2>1, ByteInvQuiet DEF ClientAwait, DialSocket, DialConnect, DialFail
  <2>2. CASE ClientWrite(c)
    <3>1. PICK n \in 1..SockBuf : /\ up[c].sent + n <= InfoLen
                                  /\ up' = [up EXCEPT ![c].sent = @ + n]
      BY <2>2 DEF ClientWrite, Put
    <3>2. /\ up'[c].sent = up[c].sent + n /\ up'[c].got = up[c].got
          /\ up'[c].fin = up[c].fin
      BY <3>1
    <3>3. UNCHANGED <<cpc, hpc, down>>
      BY <2>2 DEF ClientWrite
    <3> QED
      BY <3>1, <3>2, <3>3 DEF ByteInvOf
  <2>3. CASE ClientCloseWrite(c)
    <3>1. /\ up'[c].sent = up[c].sent /\ up'[c].got = up[c].got
          /\ up[c].sent = InfoLen /\ cpc'[c] = "read"
      BY <2>3 DEF ClientCloseWrite, Fin
    <3>2. UNCHANGED <<hpc, down>>
      BY <2>3 DEF ClientCloseWrite
    <3> QED
      BY <3>1, <3>2 DEF ByteInvOf
  <2>4. CASE ClientRead(c)
    <3>1. PICK n \in 1..BufSize : /\ n <= down[c].sent - down[c].got
                                  /\ down' = [down EXCEPT ![c].got = @ + n]
      BY <2>4 DEF ClientRead, Get
    <3>2. /\ down'[c].got = down[c].got + n /\ down'[c].sent = down[c].sent
          /\ down'[c].fin = down[c].fin
      BY <3>1
    <3>3. UNCHANGED <<cpc, hpc, up>> /\ cpc[c] = "read"
      BY <2>4 DEF ClientRead
    <3> QED
      BY <3>1, <3>2, <3>3 DEF ByteInvOf
  <2>5. CASE ClientReturn(c)
    <3>1. /\ up'[c].sent = up[c].sent /\ up'[c].got = up[c].got
          /\ up'[c].fin = (up[c].fin \/ c \notin rst)
      BY <2>5 DEF ClientReturn, Fin
    <3>2. UNCHANGED <<hpc, down>>
      BY <2>5 DEF ClientReturn
    <3>3. \/ c \in rst /\ cpc'[c] = "failed"
          \/ down[c].fin /\ down[c].sent = down[c].got
      BY <2>5 DEF ClientReturn, ReadError, EOF
    <3> QED
      BY <3>1, <3>2, <3>3 DEF ByteInvOf
  <2> QED
    BY <2>1, <2>2, <2>3, <2>4, <2>5 DEF ClientStep
<1>6. ASSUME NEW c \in Clients, ClientStep(c), c # d PROVE ByteInvOf(d)'
  <2>1. up'[d] = up[d] /\ down'[d] = down[d] /\ hpc' = hpc /\ cpc'[d] = cpc[d]
    BY <1>6 DEF ClientStep, ClientAwait, DialSocket, DialConnect, DialFail,
       ClientWrite, ClientCloseWrite, ClientRead, ClientReturn, Get, Put, Fin
  <2> QED
    BY <1>d, <2>1, ByteInvQuiet
<1>7. ASSUME NEW c \in Clients, Reset(c) PROVE ByteInvOf(d)'
  BY <1>7, <1>d, ByteInvQuiet DEF Reset
<1>8. CASE UNCHANGED vars
  BY <1>8, <1>d, ByteInvQuiet
<1> QED
  BY <1>1, <1>2, <1>3, <1>4, <1>5, <1>6, <1>7, <1>8 DEF Next, GoroutineStep, Stopped

LEMMA ByteInvAlways == Spec => []ByteInv
<1>1. Init => ByteInv
  BY ByteInvInit
<1>2. TypeOK /\ ByteInv /\ [Next]_vars => ByteInv'
  BY ByteInvStep
<1> QED
  BY <1>1, <1>2, TypeCorrect, PTL DEF Spec

\* A client that ends without an error has its whole echo.
THEOREM EchoIsComplete == Spec => []EchoComplete
  BY ByteInvAlways, ByteInvMeaning, PTL

\* The handler echoes nothing before it has the whole request, and never more.
THEOREM EchoFollowsRequest == Spec => []EchoAfterWhole
  BY ByteInvAlways, ByteInvMeaning, PTL

\* Neither side sends FIN before its bytes.
THEOREM FinIsLast == Spec => []FinAfterBytes
  BY ByteInvAlways, ByteInvMeaning, PTL

\* Both together: in either direction the bytes keep their order, FIN included.
THEOREM BytesKeepTheirOrder == Spec => []BytesInOrder
  BY EchoFollowsRequest, FinIsLast, PTL DEF BytesInOrder

-----------------------------------------------------------------------------
(* DialAfterListen: the chain GoStartServer, ListenTCP, close(ch), <-ch.   *)

StartInv ==
  /\ mpc \in {"setlimit", "boot"} => spc = "unborn"
  /\ "ch" \in closed => spc \in {"accept", "park", "close", "closed"}
  /\ \A c \in Clients : cpc[c] \notin {"unborn", "await"} => "ch" \in closed

LEMMA StartInvInit == Init => StartInv
  BY DEF Init, StartInv

LEMMA StartInvStep == TypeOK /\ StartInv /\ [Next]_vars => StartInv'
<1> SUFFICES ASSUME TypeOK, StartInv, [Next]_vars PROVE StartInv'
  OBVIOUS
<1> USE DEF TypeOK, StartInv
<1>1. CASE MainStep
  <2>1. CASE SetMaxOpenFile
    BY <2>1 DEF SetMaxOpenFile
  <2>2. CASE GoStartServer
    BY <2>2 DEF GoStartServer
  <2>3. ASSUME NEW c \in Clients, GoClient(c) PROVE StartInv'
    BY <2>3 DEF GoClient
  <2>4. CASE MainReturn
    BY <2>4 DEF MainReturn
  <2> QED
    BY <1>1, <2>1, <2>2, <2>3, <2>4 DEF MainStep
<1>2. CASE ServerStep
  <2>1. CASE Listen \/ Announce
    BY <2>1 DEF Listen, Announce
  <2>2. CASE Accept \/ AcceptFail \/ AcceptPark
    BY <2>2 DEF Accept, AcceptFail, AcceptPark
  <2>3. CASE ListenerClose
    BY <2>3 DEF ListenerClose
  <2> QED
    BY <1>2, <2>1, <2>2, <2>3 DEF ServerStep
<1>3. ASSUME NEW c \in Clients, HandlerStep(c) PROVE StartInv'
  <2>1. UNCHANGED <<mpc, spc, cpc, closed>>
    BY <1>3 DEF HandlerStep, HandlerNext, HandlerRead, HandlerWrite,
       HandlerReturn
  <2> QED
    BY <2>1
<1>4. ASSUME NEW c \in Clients, ClientStep(c) PROVE StartInv'
  <2>1. UNCHANGED <<mpc, spc, closed>>
    BY <1>4 DEF ClientStep, ClientAwait, DialSocket, DialConnect, DialFail,
       ClientWrite, ClientCloseWrite, ClientRead, ClientReturn
  <2>2. "ch" \in closed
    BY <1>4 DEF ClientStep, ClientAwait, DialSocket, DialConnect, DialFail,
       ClientWrite, ClientCloseWrite, ClientRead, ClientReturn
  <2> QED
    BY <2>1, <2>2
<1>5. ASSUME NEW c \in Clients, Reset(c) PROVE StartInv'
  BY <1>5 DEF Reset
<1>6. CASE UNCHANGED vars
  BY <1>6
<1> QED
  BY <1>1, <1>2, <1>3, <1>4, <1>5, <1>6 DEF Next, GoroutineStep, Stopped

\* No client dials before the server listens.
THEOREM ListenBeforeDial == Spec => []DialAfterListen
<1>1. Init => StartInv
  BY StartInvInit
<1>2. TypeOK /\ StartInv /\ [Next]_vars => StartInv'
  BY StartInvStep
<1>3. StartInv => DialAfterListen
  BY DEF StartInv, DialAfterListen
<1> QED
  BY <1>1, <1>2, <1>3, TypeCorrect, PTL DEF Spec

-----------------------------------------------------------------------------
(* The descriptor table.                                                   *)

LEMMA SocketsInit == Init => SocketsReleased
  BY DEF Init, SocketsReleased

LEMMA SocketsStep ==
  TypeOK /\ SocketsReleased /\ [Next]_vars => SocketsReleased'
<1> SUFFICES ASSUME TypeOK, SocketsReleased, [Next]_vars
             PROVE  SocketsReleased'
  OBVIOUS
<1> USE DEF TypeOK, SocketsReleased
<1>1. CASE MainStep
  BY <1>1 DEF MainStep, SetMaxOpenFile, GoStartServer, GoClient, MainReturn
<1>2. CASE ServerStep
  <2>1. CASE Accept
    <3>1. Head(queue) \in Clients
      BY <2>1 DEF Accept
    <3> QED
      BY <2>1, <3>1 DEF Accept
  <2>2. CASE ~Accept
    BY <1>2, <2>2 DEF ServerStep, Listen, Announce, AcceptFail, AcceptPark,
       ListenerClose
  <2> QED
    BY <2>1, <2>2
<1>3. ASSUME NEW c \in Clients, HandlerStep(c) PROVE SocketsReleased'
  <2>1. CASE HandlerNext(c) \/ HandlerRead(c) \/ HandlerWrite(c)
    BY <2>1 DEF HandlerNext, HandlerRead, HandlerWrite
  <2>2. CASE HandlerReturn(c)
    BY <2>2 DEF HandlerReturn
  <2> QED
    BY <1>3, <2>1, <2>2 DEF HandlerStep
<1>4. ASSUME NEW c \in Clients, ClientStep(c) PROVE SocketsReleased'
  <2>1. CASE ClientAwait(c) \/ DialConnect(c) \/ ClientWrite(c)
             \/ ClientCloseWrite(c) \/ ClientRead(c)
    BY <2>1 DEF ClientAwait, DialConnect, ClientWrite, ClientCloseWrite,
       ClientRead
  <2>2. CASE DialSocket(c)
    BY <2>2 DEF DialSocket
  <2>3. CASE DialFail(c)
    BY <2>3 DEF DialFail
  <2>4. CASE ClientReturn(c)
    BY <2>4 DEF ClientReturn
  <2> QED
    BY <1>4, <2>1, <2>2, <2>3, <2>4 DEF ClientStep
<1>5. ASSUME NEW c \in Clients, Reset(c) PROVE SocketsReleased'
  BY <1>5 DEF Reset
<1>6. CASE UNCHANGED vars
  BY <1>6
<1> QED
  BY <1>1, <1>2, <1>3, <1>4, <1>5, <1>6 DEF Next, GoroutineStep, Stopped

\* The open sockets are exactly those of the goroutines that still use one.
THEOREM NoSocketLeaks == Spec => []SocketsReleased
<1>1. Init => SocketsReleased
  BY SocketsInit
<1>2. TypeOK /\ SocketsReleased /\ [Next]_vars => SocketsReleased'
  BY SocketsStep
<1> QED
  BY <1>1, <1>2, TypeCorrect, PTL DEF Spec

LEMMA OpenIsFinite == TypeOK => IsFiniteSet(open) /\ Cardinality(open) \in Nat
<1> SUFFICES ASSUME TypeOK PROVE IsFiniteSet(open)
  BY FS_CardinalityType
<1>1. IsFiniteSet({"client", "server"})
  <2>1. IsFiniteSet({"client"})
    BY FS_Singleton
  <2>2. {"client", "server"} = {"client"} \cup {"server"}
    OBVIOUS
  <2> QED
    BY <2>1, <2>2, FS_AddElement
<1>2. IsFiniteSet({"client", "server"} \X Clients)
  BY <1>1, LimitsAssumption, FS_Product
<1> QED
  BY <1>2, FS_Subset DEF TypeOK

\* Opening a socket takes at most one descriptor, closing one takes none.
LEMMA OneMore ==
  ASSUME NEW S, IsFiniteSet(S), NEW k
  PROVE  /\ Cardinality(S) \in Nat
         /\ Cardinality(S \cup {k}) \in Nat
         /\ Cardinality(S \cup {k}) <= Cardinality(S) + 1
         /\ Cardinality(S \ {k}) \in Nat
         /\ Cardinality(S \ {k}) <= Cardinality(S)
<1>1. Cardinality(S) \in Nat
  BY FS_CardinalityType
<1>2. /\ Cardinality(S \cup {k}) \in Nat
      /\ Cardinality(S \cup {k}) <= Cardinality(S) + 1
  BY <1>1, FS_AddElement
<1>3. Cardinality(S \ {k}) \in Nat
  BY FS_RemoveElement, FS_CardinalityType
<1>4. Cardinality(S \ {k}) <= Cardinality(S)
  BY <1>1, FS_RemoveElement
<1> QED
  BY <1>1, <1>2, <1>3, <1>4

\* What a step can do to the table: raise the limit, open one socket while a
\* descriptor is free, close one, or nothing.
LEMMA FdsMove ==
  ASSUME TypeOK, [Next]_vars
  PROVE  \/ open' = open /\ fdLimit' \in {fdLimit, HardLimit}
         \/ \E k : open' = open \cup {k} /\ FdFree /\ fdLimit' = fdLimit
         \/ \E k : open' = open \ {k} /\ fdLimit' = fdLimit
<1>1. CASE MainStep
  BY <1>1 DEF MainStep, SetMaxOpenFile, GoStartServer, GoClient, MainReturn
<1>2. CASE ServerStep
  BY <1>2 DEF ServerStep, Listen, Announce, Accept, AcceptFail, AcceptPark,
     ListenerClose
<1>3. ASSUME NEW c \in Clients, HandlerStep(c)
      PROVE  fdLimit' = fdLimit /\ open' \in {open, open \ {<<"server", c>>}}
  BY <1>3 DEF HandlerStep, HandlerNext, HandlerRead, HandlerWrite,
     HandlerReturn
<1>4. ASSUME NEW c \in Clients, ClientStep(c)
      PROVE  /\ fdLimit' = fdLimit
             /\ \/ open' \in {open, open \ {<<"client", c>>}}
                \/ open' = open \cup {<<"client", c>>} /\ FdFree
  BY <1>4 DEF ClientStep, ClientAwait, DialSocket, DialConnect, DialFail,
     ClientWrite, ClientCloseWrite, ClientRead, ClientReturn
<1>5. ASSUME NEW c \in Clients, Reset(c)
      PROVE  open' = open /\ fdLimit' = fdLimit
  BY <1>5 DEF Reset
<1>6. CASE UNCHANGED vars
  BY <1>6
<1> QED
  BY <1>1, <1>2, <1>3, <1>4, <1>5, <1>6 DEF Next, GoroutineStep, Stopped

LEMMA FdsInit == Init => FdsWithinLimit
  BY LimitsAssumption, FS_EmptySet DEF Init, FdsWithinLimit, FdsInUse

LEMMA FdsStep == TypeOK /\ FdsWithinLimit /\ [Next]_vars => FdsWithinLimit'
<1> SUFFICES ASSUME TypeOK, FdsWithinLimit, [Next]_vars PROVE FdsWithinLimit'
  OBVIOUS
<1>1. /\ IsFiniteSet(open) /\ Cardinality(open) \in Nat
      /\ fdLimit \in Nat /\ fdLimit <= HardLimit
  BY OpenIsFinite, LimitsAssumption DEF TypeOK
<1> USE LimitsAssumption DEF FdsWithinLimit, FdsInUse
<1>2. CASE open' = open /\ fdLimit' \in {fdLimit, HardLimit}
  BY <1>1, <1>2
<1>3. ASSUME NEW k, open' = open \cup {k}, FdFree, fdLimit' = fdLimit
      PROVE  FdsWithinLimit'
  <2>1. Cardinality(open') <= Cardinality(open) + 1 /\ Cardinality(open') \in Nat
    BY <1>1, <1>3, OneMore
  <2> QED
    BY <1>1, <1>3, <2>1 DEF FdFree
<1>4. ASSUME NEW k, open' = open \ {k}, fdLimit' = fdLimit
      PROVE  FdsWithinLimit'
  <2>1. Cardinality(open') <= Cardinality(open) /\ Cardinality(open') \in Nat
    BY <1>1, <1>4, OneMore
  <2> QED
    BY <1>1, <1>4, <2>1
<1> QED
  BY <1>2, <1>3, <1>4, FdsMove

\* Clients and server together never hold more descriptors than the limit.
THEOREM FdsStayWithinLimit == Spec => []FdsWithinLimit
<1>1. Init => FdsWithinLimit
  BY FdsInit
<1>2. TypeOK /\ FdsWithinLimit /\ [Next]_vars => FdsWithinLimit'
  BY FdsStep
<1> QED
  BY <1>1, <1>2, TypeCorrect, PTL DEF Spec

-----------------------------------------------------------------------------
(* StopsOnlyWhenDone.  That client and handler never wait for each other   *)
(* needs to be known of a connection that is not reset: it has a handler   *)
(* or is queued, and whoever is past its last byte has sent FIN.           *)

Queued(c) == \E i \in DOMAIN queue : queue[i] = c

LinkInvOf(c) ==
  /\ hpc[c] # "none" \/ Queued(c) =>
       cpc[c] \in {"write", "read", "ok"} \/ (cpc[c] = "failed" /\ c \in rst)
  /\ cpc[c] \in {"write", "read", "ok"} => hpc[c] # "none" \/ Queued(c) \/ c \in rst
  /\ cpc[c] \in {"read", "ok"} => up[c].fin \/ c \in rst
  /\ hpc[c] = "ok" => down[c].fin \/ c \in rst
  /\ hpc[c] = "failed" => c \in rst

LinkInv == \A c \in Clients : LinkInvOf(c)

\* The server and its two channels; main listens to closeChan only.
ServerInv ==
  /\ spc = "unborn" <=> mpc \in {"setlimit", "boot"}
  /\ spc \in {"accept", "park", "close", "closed"} <=> "ch" \in closed
  /\ spc \in {"close", "closed"} => "closeChan" \in closed
  /\ "ch" \notin closed => \A c \in Clients : cpc[c] \in {"unborn", "await"}

LEMMA ServerInvInit == Init => ServerInv
  BY DEF Init, ServerInv

LEMMA ServerInvStep == TypeOK /\ ServerInv /\ [Next]_vars => ServerInv'
<1> SUFFICES ASSUME TypeOK, ServerInv, [Next]_vars PROVE ServerInv'
  OBVIOUS
<1> USE DEF TypeOK, ServerInv
<1>1. CASE MainStep
  <2>1. CASE SetMaxOpenFile \/ GoStartServer
    BY <2>1 DEF SetMaxOpenFile, GoStartServer
  <2>2. ASSUME NEW c \in Clients, GoClient(c) PROVE ServerInv'
    BY <2>2 DEF GoClient
  <2>3. CASE MainReturn
    BY <2>3 DEF MainReturn
  <2> QED
    BY <1>1, <2>1, <2>2, <2>3 DEF MainStep
<1>2. CASE ServerStep
  <2>1. CASE Listen \/ Announce
    BY <2>1 DEF Listen, Announce
  <2>2. CASE Accept \/ AcceptFail \/ AcceptPark
    BY <2>2 DEF Accept, AcceptFail, AcceptPark
  <2>3. CASE ListenerClose
    BY <2>3 DEF ListenerClose
  <2> QED
    BY <1>2, <2>1, <2>2, <2>3 DEF ServerStep
<1>3. ASSUME NEW c \in Clients, HandlerStep(c) PROVE ServerInv'
  <2>1. UNCHANGED <<mpc, spc, cpc, closed>>
    BY <1>3 DEF HandlerStep, HandlerNext, HandlerRead, HandlerWrite,
       HandlerReturn
  <2> QED
    BY <2>1
<1>4. ASSUME NEW c \in Clients, ClientStep(c) PROVE ServerInv'
  <2>1. UNCHANGED <<mpc, spc, closed>>
    BY <1>4 DEF ClientStep, ClientAwait, DialSocket, DialConnect, DialFail,
       ClientWrite, ClientCloseWrite, ClientRead, ClientReturn
  <2>2. "ch" \in closed
    BY <1>4 DEF ClientStep, ClientAwait, DialSocket, DialConnect, DialFail,
       ClientWrite, ClientCloseWrite, ClientRead, ClientReturn
  <2> QED
    BY <2>1, <2>2
<1>5. ASSUME NEW c \in Clients, Reset(c) PROVE ServerInv'
  BY <1>5 DEF Reset
<1>6. CASE UNCHANGED vars
  BY <1>6
<1> QED
  BY <1>1, <1>2, <1>3, <1>4, <1>5, <1>6 DEF Next, GoroutineStep, Stopped

LEMMA LinkInvInit == Init => LinkInv
<1> SUFFICES ASSUME Init, NEW c \in Clients PROVE LinkInvOf(c)
  BY DEF LinkInv
<1>1. ~Queued(c)
  BY DEF Init, Queued
<1> QED
  BY <1>1 DEF Init, LinkInvOf

\* What a step does to a connection that is not its own.
LEMMA LinkInvQuiet ==
  ASSUME NEW d \in Clients, LinkInvOf(d), cpc'[d] = cpc[d], hpc'[d] = hpc[d],
         up'[d] = up[d], down'[d] = down[d], Queued(d)' <=> Queued(d), rst \subseteq rst'
  PROVE  LinkInvOf(d)'
  BY DEF LinkInvOf

\* Bytes that are put or got leave FIN as it is.
LEMMA FinKept ==
  ASSUME TypeOK, NEW c \in Clients, NEW len
  PROVE  /\ Get(up, c) => up'[c].fin = up[c].fin
         /\ Get(down, c) => down'[c].fin = down[c].fin
         /\ Put(up, c, len) => up'[c].fin = up[c].fin
         /\ Put(down, c, len) => down'[c].fin = down[c].fin
<1>1. ASSUME NEW s \in [Clients -> Stream], NEW t, NEW n,
             \/ t = [s EXCEPT ![c].got = @ + n]
             \/ t = [s EXCEPT ![c].sent = @ + n]
      PROVE  t[c].fin = s[c].fin
  BY <1>1 DEF Stream
<1>2. up \in [Clients -> Stream] /\ down \in [Clients -> Stream]
  BY DEF TypeOK
<1>3. ASSUME Get(up, c)  PROVE up'[c].fin = up[c].fin
  <2>1. PICK n \in 1..BufSize : up' = [up EXCEPT ![c].got = @ + n]
    BY <1>3 DEF Get
  <2> QED
    BY <1>1, <1>2, <2>1
<1>4. ASSUME Get(down, c)  PROVE down'[c].fin = down[c].fin
  <2>1. PICK n \in 1..BufSize : down' = [down EXCEPT ![c].got = @ + n]
    BY <1>4 DEF Get
  <2> QED
    BY <1>1, <1>2, <2>1
<1>5. ASSUME Put(up, c, len)  PROVE up'[c].fin = up[c].fin
  <2>1. PICK n \in 1..SockBuf : up' = [up EXCEPT ![c].sent = @ + n]
    BY <1>5 DEF Put
  <2> QED
    BY <1>1, <1>2, <2>1
<1>6. ASSUME Put(down, c, len)  PROVE down'[c].fin = down[c].fin
  <2>1. PICK n \in 1..SockBuf : down' = [down EXCEPT ![c].sent = @ + n]
    BY <1>6 DEF Put
  <2> QED
    BY <1>1, <1>2, <2>1
<1> QED
  BY <1>3, <1>4, <1>5, <1>6

LEMMA LinkInvStep == TypeOK /\ LinkInv /\ [Next]_vars => LinkInv'
<1> SUFFICES ASSUME TypeOK, LinkInv, [Next]_vars, NEW d \in Clients
             PROVE  LinkInvOf(d)'
  BY DEF LinkInv
<1>d. LinkInvOf(d)
  BY DEF LinkInv
<1> USE DEF TypeOK
<1>q. queue' = queue => (Queued(d)' <=> Queued(d))
  BY DEF Queued
<1>1. CASE MainStep
  <2>1. UNCHANGED <<hpc, up, down, queue, rst>>
    BY <1>1 DEF MainStep, SetMaxOpenFile, GoStartServer, GoClient, MainReturn
  <2>2. cpc'[d] = cpc[d] \/ (cpc[d] = "unborn" /\ cpc'[d] = "await")
    BY <1>1 DEF MainStep, SetMaxOpenFile, GoStartServer, GoClient, MainReturn
  <2> QED
    BY <1>d, <1>q, <2>1, <2>2 DEF LinkInvOf
<1>2. CASE ServerStep
  <2>1. CASE Listen \/ Announce \/ AcceptFail \/ AcceptPark
    <3>1. UNCHANGED <<cpc, hpc, up, down, queue, rst>>
      BY <2>1 DEF Listen, Announce, AcceptFail, AcceptPark
    <3> QED
      BY <1>d, <1>q, <3>1, LinkInvQuiet
  <2>2. CASE Accept
    <3>1. /\ queue \in Seq(Clients) /\ queue # <<>> /\ queue' = Tail(queue)
          /\ hpc' = [hpc EXCEPT ![Head(queue)] = "sleep"]
          /\ UNCHANGED <<cpc, up, down, rst>>
      BY <2>2 DEF Accept
    <3>2. /\ Queued(d) => Queued(d)' \/ d = Head(queue)
          /\ Queued(d)' => Queued(d)
          /\ Queued(Head(queue)) /\ Head(queue) \in Clients
      <4>1. /\ Len(queue) \in Nat \ {0} /\ DOMAIN queue = 1..Len(queue)
            /\ DOMAIN Tail(queue) = 1..(Len(queue) - 1) /\ Head(queue) = queue[1]
            /\ \A i \in 1..(Len(queue) - 1) : Tail(queue)[i] = queue[i + 1]
        BY <3>1
      <4>2. ASSUME NEW i \in DOMAIN queue, queue[i] = d, i # 1  PROVE Queued(d)'
        <5>1. i - 1 \in DOMAIN Tail(queue) /\ Tail(queue)[i - 1] = d
          BY <4>1, <4>2
        <5> QED
          BY <3>1, <5>1 DEF Queued
      <4>3. ASSUME NEW i \in DOMAIN queue', queue'[i] = d  PROVE Queued(d)
        <5>0. i \in 1..(Len(queue) - 1) /\ Tail(queue)[i] = d
          BY <3>1, <4>1, <4>3
        <5>1. i + 1 \in DOMAIN queue /\ queue[i + 1] = d
          BY <4>1, <5>0
        <5> QED
          BY <5>1 DEF Queued
      <4>4. Queued(d) => Queued(d)' \/ d = Head(queue)
        BY <4>1, <4>2 DEF Queued
      <4>5. Queued(d)' => Queued(d)
        <5>1. (\E i \in DOMAIN queue' : queue'[i] = d) => Queued(d)
          BY <4>3
        <5> QED
          BY <5>1 DEF Queued
      <4>6. 1 \in DOMAIN queue
        BY <4>1
      <4>7. Head(queue) \in Clients
        BY <3>1
      <4> QED
        BY <4>1, <4>4, <4>5, <4>6, <4>7 DEF Queued
    <3>3. CASE d = Head(queue)
      BY <1>d, <3>1, <3>2, <3>3 DEF LinkInvOf
    <3>4. CASE d # Head(queue)
      BY <1>d, <3>1, <3>2, <3>4, LinkInvQuiet
    <3> QED
      BY <3>3, <3>4
  <2>3. CASE ListenerClose
    <3>1. /\ UNCHANGED <<cpc, hpc, up, down>> /\ queue' = <<>> /\ rst \subseteq rst'
          /\ Queued(d) => d \in rst'
      BY <2>3 DEF ListenerClose, Queued
    <3>2. ~Queued(d)'
      BY <3>1 DEF Queued
    <3> QED
      BY <1>d, <3>1, <3>2 DEF LinkInvOf
  <2> QED
    BY <1>2, <2>1, <2>2, <2>3 DEF ServerStep
<1>3. ASSUME NEW c \in Clients, HandlerStep(c), c = d PROVE LinkInvOf(d)'
  <2>0. UNCHANGED <<cpc, queue, rst>> /\ (up' = up \/ Get(up, c))
    BY <1>3 DEF HandlerStep, HandlerNext, HandlerRead, HandlerWrite,
       HandlerReturn
  <2>1. UNCHANGED <<cpc, queue, rst>> /\ up'[d].fin = up[d].fin
    BY <1>3, <2>0, FinKept
  <2>2. CASE HandlerNext(c) \/ HandlerRead(c) \/ HandlerWrite(c)
    <3>0. down' = down \/ Put(down, c, up[c].got)
      BY <2>2 DEF HandlerNext, HandlerRead, HandlerWrite
    <3>1. /\ hpc[d] \in {"sleep", "read", "write"} /\ hpc'[d] \in {"sleep", "read", "write"}
          /\ down'[d].fin = down[d].fin
      BY <1>3, <2>2, <3>0, FinKept DEF HandlerNext, HandlerRead, HandlerWrite
    <3> QED
      BY <1>d, <1>q, <2>1, <3>1 DEF LinkInvOf
  <2>3. CASE HandlerReturn(c)
    <3>1. /\ hpc[d] # "none" /\ down'[d].fin = (down[d].fin \/ d \notin rst)
          /\ hpc'[d] = "ok" \/ (hpc'[d] = "failed" /\ d \in rst)
      BY <1>3, <2>3 DEF HandlerReturn, Fin, ReadError, Stream
    <3> QED
      BY <1>d, <1>q, <2>1, <3>1 DEF LinkInvOf
  <2> QED
    BY <1>3, <2>2, <2>3 DEF HandlerStep
<1>4. ASSUME NEW c \in Clients, HandlerStep(c), c # d PROVE LinkInvOf(d)'
  <2>1. /\ up'[d] = up[d] /\ down'[d] = down[d] /\ hpc'[d] = hpc[d]
        /\ UNCHANGED <<cpc, queue, rst>>
    BY <1>4 DEF HandlerStep, HandlerNext, HandlerRead, HandlerWrite,
       HandlerReturn, Get, Put, Fin
  <2> QED
    BY <1>d, <1>q, <2>1, LinkInvQuiet
<1>5. ASSUME NEW c \in Clients, ClientStep(c), c = d PROVE LinkInvOf(d)'
  <2>1. CASE ClientAwait(c) \/ DialSocket(c) \/ DialFail(c)
    <3>1. /\ UNCHANGED <<hpc, up, down, queue, rst>>
          /\ cpc[d] \in {"await", "dial", "connect"}
          /\ cpc'[d] \in {"dial", "connect", "failed"}
      BY <1>5, <2>1 DEF ClientAwait, DialSocket, DialFail
    <3> QED
      BY <1>d, <1>q, <3>1 DEF LinkInvOf
  <2>2. CASE DialConnect(c)
    <3>1. /\ UNCHANGED <<hpc, up, down, rst>> /\ queue' = Append(queue, d)
          /\ cpc[d] = "connect" /\ cpc'[d] = "write"
      BY <1>5, <2>2 DEF DialConnect
    <3>2. Queued(d)'
      <4>1. Len(queue) + 1 \in DOMAIN queue' /\ queue'[Len(queue) + 1] = d
        BY <3>1
      <4> QED
        BY <4>1 DEF Queued
    <3> QED
      BY <1>d, <3>1, <3>2 DEF LinkInvOf
  <2>3. CASE ClientWrite(c) \/ ClientRead(c)
    <3>0. /\ UNCHANGED <<cpc, hpc, queue, rst>>
          /\ up' = up \/ Put(up, c, InfoLen)
          /\ down' = down \/ Get(down, c)
      BY <2>3 DEF ClientWrite, ClientRead
    <3>1. /\ UNCHANGED <<cpc, hpc, queue, rst>>
          /\ up'[d].fin = up[d].fin /\ down'[d].fin = down[d].fin
      BY <1>5, <3>0, FinKept
    <3> QED
      BY <1>d, <1>q, <3>1 DEF LinkInvOf
  <2>4. CASE ClientCloseWrite(c) \/ ClientReturn(c)
    <3>1. /\ UNCHANGED <<hpc, down, queue, rst>>
          /\ up'[d].fin = (up[d].fin \/ d \notin rst)
          /\ cpc[d] \in {"write", "read"}
          /\ cpc'[d] \in {"read", "ok"} \/ (cpc'[d] = "failed" /\ d \in rst)
      BY <1>5, <2>4 DEF ClientCloseWrite, ClientReturn, Fin, ReadError, Stream
    <3> QED
      BY <1>d, <1>q, <3>1 DEF LinkInvOf
  <2> QED
    BY <1>5, <2>1, <2>2, <2>3, <2>4 DEF ClientStep
<1>6. ASSUME NEW c \in Clients, ClientStep(c), c # d PROVE LinkInvOf(d)'
  <2>1. /\ up'[d] = up[d] /\ down'[d] = down[d] /\ hpc' = hpc /\ cpc'[d] = cpc[d]
        /\ rst' = rst
    BY <1>6 DEF ClientStep, ClientAwait, DialSocket, DialConnect, DialFail,
       ClientWrite, ClientCloseWrite, ClientRead, ClientReturn, Get, Put, Fin
  <2>2. queue' = queue \/ queue' = Append(queue, c)
    BY <1>6 DEF ClientStep, ClientAwait, DialSocket, DialConnect, DialFail,
       ClientWrite, ClientCloseWrite, ClientRead, ClientReturn
  <2>3. CASE queue' = Append(queue, c)
    <3>1. Queued(d)' <=> Queued(d)
      <4>1. /\ DOMAIN queue' = 1..(Len(queue) + 1) /\ DOMAIN queue = 1..Len(queue)
            /\ Len(queue) \in Nat /\ queue'[Len(queue) + 1] = c
            /\ \A i \in 1..Len(queue) : queue'[i] = queue[i]
        BY <2>3
      <4> QED
        BY <1>6, <4>1 DEF Queued
    <3> QED
      BY <1>d, <2>1, <3>1, LinkInvQuiet
  <2> QED
    BY <1>d, <1>q, <2>1, <2>2, <2>3, LinkInvQuiet
<1>7. ASSUME NEW c \in Clients, Reset(c) PROVE LinkInvOf(d)'
  <2>1. UNCHANGED <<cpc, hpc, up, down, queue>> /\ rst \subseteq rst'
    BY <1>7 DEF Reset
  <2> QED
    BY <1>d, <1>q, <2>1, LinkInvQuiet
<1>8. CASE UNCHANGED vars
  BY <1>8, <1>d, <1>q, LinkInvQuiet
<1> QED
  BY <1>1, <1>2, <1>3, <1>4, <1>5, <1>6, <1>7, <1>8
  DEF Next, GoroutineStep, Stopped

\* A client whose connection has not been reset does not wait for ever, nor does
\* a handler whose client has returned.
LEMMA NoEmbrace ==
  ASSUME TypeOK, ByteInv, LinkInv, NEW c \in Clients,
         HandlerWaits(c), ClientWaits(c), ~Queued(c),
         cpc[c] \notin {"unborn", "await"}
  PROVE  cpc[c] \in {"ok", "failed"} /\ hpc[c] \in {"none", "ok", "failed"}
<1>1. ByteInvOf(c) /\ LinkInvOf(c)
  BY DEF ByteInv, LinkInv
<1>2. /\ up[c] \in Stream /\ down[c] \in Stream
      /\ cpc[c] \in ClientPCs /\ hpc[c] \in HandlerPCs
  BY DEF TypeOK
<1>3. /\ up[c].sent \in Nat /\ up[c].got \in Nat /\ down[c].sent \in Nat
      /\ down[c].got \in Nat /\ InfoLen \in Nat /\ SockBuf \in Nat \ {0}
  BY <1>2, LengthsAssumption DEF Stream
<1>4. cpc[c] # "write"
  <2> SUFFICES ASSUME cpc[c] = "write" PROVE FALSE
    OBVIOUS
  <2>1. c \notin rst /\ up[c].sent < InfoLen /\ up[c].sent - up[c].got >= SockBuf
    BY DEF ClientWaits, WriteWaits, InKernel
  <2>2. hpc[c] \notin {"none", "failed"}
    BY <1>1, <2>1 DEF LinkInvOf
  <2>3. hpc[c] \notin {"write", "ok"}
    BY <1>1, <1>3, <2>1 DEF ByteInvOf
  <2>4. hpc[c] = "read" /\ up[c].sent - up[c].got = 0
    BY <2>2, <2>3 DEF HandlerWaits, ReadWaits, InKernel
  <2> QED
    BY <1>3, <2>1, <2>4
<1>5. cpc[c] # "read"
  <2> SUFFICES ASSUME cpc[c] = "read" PROVE FALSE
    OBVIOUS
  <2>1. c \notin rst /\ down[c].sent - down[c].got = 0 /\ ~down[c].fin
    BY DEF ClientWaits, ReadWaits, InKernel
  <2>2. up[c].fin /\ hpc[c] \notin {"none", "ok", "failed"}
    BY <1>1, <2>1 DEF LinkInvOf
  <2>3. hpc[c] = "write" /\ down[c].sent - down[c].got >= SockBuf
    BY <2>2 DEF HandlerWaits, ReadWaits, WriteWaits, InKernel
  <2> QED
    BY <1>3, <2>1, <2>3
<1>6. cpc[c] \in {"ok", "failed"}
  BY <1>4, <1>5 DEF ClientWaits
<1>7. hpc[c] # "read"
  <2> SUFFICES ASSUME hpc[c] = "read" PROVE FALSE
    OBVIOUS
  <2>1. c \notin rst /\ ~up[c].fin
    BY DEF HandlerWaits, ReadWaits
  <2> QED
    BY <1>1, <1>6, <2>1 DEF LinkInvOf
<1>8. hpc[c] # "write"
  <2> SUFFICES ASSUME hpc[c] = "write" PROVE FALSE
    OBVIOUS
  <2>1. c \notin rst /\ down[c].sent - down[c].got >= SockBuf
    BY DEF HandlerWaits, WriteWaits, InKernel
  <2>2. cpc[c] = "ok"
    BY <1>1, <1>6, <2>1 DEF LinkInvOf
  <2>3. down[c].got = InfoLen /\ down[c].sent <= InfoLen
    BY <1>1, <1>3, <2>2 DEF ByteInvOf
  <2> QED
    BY <1>3, <2>1, <2>3
<1> QED
  BY <1>6, <1>7, <1>8 DEF HandlerWaits

\* The program stops only when main has returned, when there is no listener, or
\* when every client and every handler has returned: for any number of clients,
\* any sizes of the buffers, any limits and any resets nobody waits for ever for
\* somebody who waits as well.
THEOREM NobodyIsLeftWaiting == Spec => []StopsOnlyWhenDone
<1>1. TypeOK /\ ByteInv /\ LinkInv /\ ServerInv => StopsOnlyWhenDone
  <2> SUFFICES ASSUME TypeOK, ByteInv, LinkInv, ServerInv, NobodyCanMove,
                      mpc # "exited"
               PROVE  \/ spc = "dead" /\ \A c \in Clients : cpc[c] = "await"
                      \/ /\ spc = "park"
                         /\ \A c \in Clients : /\ cpc[c] \in {"ok", "failed"}
                                              /\ hpc[c] \in {"none", "ok", "failed"}
    BY DEF StopsOnlyWhenDone
  <2>1. MainWaits /\ ServerWaits /\ \A c \in Clients : HandlerWaits(c) /\ ClientWaits(c)
    BY DEF NobodyCanMove
  <2>2. mpc = "spawn" /\ "closeChan" \notin closed /\ \A c \in Clients : cpc[c] # "unborn"
    BY <2>1 DEF MainWaits
  <2>3. spc = "dead" \/ (spc = "park" /\ queue = <<>>)
    BY <2>1, <2>2 DEF ServerWaits, ServerInv
  <2>4. CASE spc = "dead"
    BY <2>2, <2>4 DEF ServerInv
  <2>5. CASE spc = "park" /\ queue = <<>>
    <3>1. ASSUME NEW c \in Clients
          PROVE  cpc[c] \in {"ok", "failed"} /\ hpc[c] \in {"none", "ok", "failed"}
      <4>1. ~Queued(c)
        BY <2>5 DEF Queued
      <4>2. cpc[c] \notin {"unborn", "await"}
        BY <2>1, <2>2, <2>5 DEF ServerInv, ClientWaits
      <4> QED
        BY <2>1, <4>1, <4>2, NoEmbrace
    <3> QED
      BY <2>5, <3>1
  <2> QED
    BY <2>3, <2>4, <2>5
<1>2. Spec => [](ServerInv /\ LinkInv)
  <2>1. Init => ServerInv /\ LinkInv
    BY ServerInvInit, LinkInvInit
  <2>2. TypeOK /\ (ServerInv /\ LinkInv) /\ [Next]_vars => (ServerInv /\ LinkInv)'
    BY ServerInvStep, LinkInvStep
  <2> QED
    BY <2>1, <2>2, TypeCorrect, PTL DEF Spec
<1> QED
  BY <1>1, <1>2, TypeCorrect, ByteInvAlways, PTL
=============================================================================
