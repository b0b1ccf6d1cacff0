------------------------------ MODULE MyAtomic ------------------------------
(***************************************************************************)
(* The assembly of src/plan9/my_atomic/atomic.s, one action for each       *)
(* stretch of instructions that touches shared memory at most once, run by *)
(* any number of threads.  plan9/main.go calls the swap (line 70) and the  *)
(* compare-and-swap (line 80); its Incr calls the addition of the standard *)
(* library (line 62) and drops the result.  A LOCK-prefixed instruction is *)
(* one step; registers are the thread's own.                               *)
(***************************************************************************)
EXTENDS Integers, FiniteSets

CONSTANTS
  Threads,  \* the callers, one call each
  Addrs,    \* the words they call on
  Width,    \* bits of a word, 64 in the code
  Calls     \* the calls a thread may make

VARIABLES
  mem,   \* the words
  call,  \* the arguments on each thread's frame
  pc,    \* the next instruction of each thread
  val,   \* the register the locked instruction reads and writes (AX or BX)
  zf,    \* the zero flag CMPXCHGQ sets, as 0 or 1
  ret    \* the result slot of each thread's frame

regs == <<val, zf, ret>>
vars == <<mem, call, pc, regs>>

Word == 0 .. 2^Width - 1
Wrap(x) == x % 2^Width

\* x is delta (add), new (swap) or old (cas); y is new (cas).
CallType == [op : {"add", "swap", "cas"}, addr : Addrs, x : Word, y : Word]

ASSUME ThreadsAssumption == IsFiniteSet(Threads)

ASSUME CallsAssumption ==
  Width \in Nat \ {0} /\ 2^Width \in Nat \ {0} /\ Calls \subseteq CallType

Addr(t) == call[t].addr
Is(t, op) == call[t].op = op

PCs == {"args", "lock", "addq", "store", "ret"}

TypeOK ==
  /\ mem \in [Addrs -> Word]
  /\ call \in [Threads -> Calls]
  /\ pc \in [Threads -> PCs]
  /\ val \in [Threads -> Word]
  /\ zf \in [Threads -> {0, 1}]
  /\ ret \in [Threads -> Word \cup {0, 1}]
  /\ \A t \in Threads : Is(t, "cas") => ret[t] \in {0, 1}

\* Registers, flags and result slots hold anything before they are written.
Init ==
  /\ mem \in [Addrs -> Word]
  /\ call \in [Threads -> Calls]
  /\ pc = [t \in Threads |-> "args"]
  /\ val = [t \in Threads |-> 0]
  /\ zf = [t \in Threads |-> 0]
  /\ ret = [t \in Threads |-> 0]

\* The MOVQs of the arguments; CMPXCHGQ's new value stays on the frame.
MovArgs(t) ==
  /\ pc[t] = "args" /\ pc' = [pc EXCEPT ![t] = "lock"]
  /\ val' = [val EXCEPT ![t] = call[t].x]
  /\ UNCHANGED <<mem, call, zf, ret>>

XaddUnlocked(t) ==  \* Mutant: no LOCK, the load and the store are two steps.
  /\ Is(t, "add") /\ pc[t] = "lock"
  /\ \/ /\ zf[t] = 0 /\ zf' = [zf EXCEPT ![t] = 1]
        /\ val' = [val EXCEPT ![t] = mem[Addr(t)]] /\ UNCHANGED <<mem, pc>>
     \/ /\ zf[t] = 1 /\ pc' = [pc EXCEPT ![t] = "addq"] /\ UNCHANGED <<val, zf>>
        /\ mem' = [mem EXCEPT ![Addr(t)] = Wrap(val[t] + call[t].x)]
  /\ UNCHANGED <<call, ret>>

Xadd(t) ==
  /\ Is(t, "add") /\ pc[t] = "lock" /\ pc' = [pc EXCEPT ![t] = "addq"]
  /\ val' = [val EXCEPT ![t] = mem[Addr(t)]]
  /\ mem' = [mem EXCEPT ![Addr(t)] = Wrap(@ + val[t])]
  /\ UNCHANGED <<call, zf, ret>>

AddqNot(t) ==  \* Mutant: the old value is returned.
  /\ pc[t] = "addq" /\ pc' = [pc EXCEPT ![t] = "store"]
  /\ UNCHANGED <<mem, call, regs>>

\* XADDQ left the old value in AX: the new one is that plus delta.
Addq(t) ==
  /\ pc[t] = "addq" /\ pc' = [pc EXCEPT ![t] = "store"]
  /\ val' = [val EXCEPT ![t] = Wrap(@ + call[t].x)]
  /\ UNCHANGED <<mem, call, zf, ret>>

XchgUnlocked(t) ==  \* Mutant: two MOVQs in place of the exchange.
  /\ Is(t, "swap") /\ pc[t] = "lock"
  /\ \/ /\ zf[t] = 0 /\ zf' = [zf EXCEPT ![t] = 1]
        /\ val' = [val EXCEPT ![t] = mem[Addr(t)]] /\ UNCHANGED <<mem, pc>>
     \/ /\ zf[t] = 1 /\ pc' = [pc EXCEPT ![t] = "store"] /\ UNCHANGED <<val, zf>>
        /\ mem' = [mem EXCEPT ![Addr(t)] = call[t].x]
  /\ UNCHANGED <<call, ret>>

Xchg(t) ==
  /\ Is(t, "swap") /\ pc[t] = "lock" /\ pc' = [pc EXCEPT ![t] = "store"]
  /\ val' = [val EXCEPT ![t] = mem[Addr(t)]]
  /\ mem' = [mem EXCEPT ![Addr(t)] = val[t]]
  /\ UNCHANGED <<call, zf, ret>>

CmpxchgSpins(t) ==  \* Mutant: it retries until the word is what it expects.
  /\ Is(t, "cas") /\ pc[t] = "lock" /\ mem[Addr(t)] = val[t]
  /\ pc' = [pc EXCEPT ![t] = "store"]
  /\ mem' = [mem EXCEPT ![Addr(t)] = call[t].y]
  /\ zf' = [zf EXCEPT ![t] = 1]
  /\ UNCHANGED <<call, val, ret>>

\* Compares with AX; on a mismatch AX gets the word, which is not returned.
Cmpxchg(t) ==
  /\ Is(t, "cas") /\ pc[t] = "lock" /\ pc' = [pc EXCEPT ![t] = "store"]
  /\ IF mem[Addr(t)] = val[t]
     THEN /\ mem' = [mem EXCEPT ![Addr(t)] = call[t].y]
          /\ zf' = [zf EXCEPT ![t] = 1]
          /\ UNCHANGED val
     ELSE /\ val' = [val EXCEPT ![t] = mem[Addr(t)]]
          /\ zf' = [zf EXCEPT ![t] = 0]
          /\ UNCHANGED mem
  /\ UNCHANGED <<call, ret>>

StoreAX(t) ==  \* Mutant: MOVQ of AX where compare-and-swap has SETEQ.
  /\ pc[t] = "store" /\ pc' = [pc EXCEPT ![t] = "ret"]
  /\ ret' = [ret EXCEPT ![t] = val[t]]
  /\ UNCHANGED <<mem, call, val, zf>>

\* MOVQ or SETEQ into the result slot, and RET.
StoreResult(t) ==
  /\ pc[t] = "store" /\ pc' = [pc EXCEPT ![t] = "ret"]
  /\ ret' = [ret EXCEPT ![t] = IF Is(t, "cas") THEN zf[t] ELSE val[t]]
  /\ UNCHANGED <<mem, call, val, zf>>

Step(t) ==
  MovArgs(t) \/ Xadd(t) \/ Addq(t) \/ Xchg(t) \/ Cmpxchg(t) \/ StoreResult(t)

Next == \E t \in Threads : Step(t)

Spec == Init /\ [][Next]_vars

\* A thread that is scheduled for ever is not stopped between instructions.
FairSpec == Spec /\ \A t \in Threads : WF_vars(Step(t))

-----------------------------------------------------------------------------
(* What the callers rely on.                                               *)

\* A call takes effect at its locked instruction, and what it will return is
\* settled then, whatever the other threads do before the result is stored.
Settled == {t \in Threads : pc[t] \notin {"args", "lock"}}

Outcome(t) ==
  CASE pc[t] \in {"args", "lock"} -> 0
    [] pc[t] = "addq"             -> Wrap(val[t] + call[t].x)
    [] pc[t] = "store"            -> IF Is(t, "cas") THEN zf[t] ELSE val[t]
    [] pc[t] = "ret"              -> ret[t]

Atomic == INSTANCE AtomicWord
          WITH done <- Settled, res <- [t \in Threads |-> Outcome(t)]

\* The assembly implements the atomic word: every run of the threads is one
\* in which each call happens at an instant and returns what it saw there.
Linearizable == Atomic!Spec

Callers(a) == {t \in Threads : Addr(t) = a}

\* What AddInt64 (atomic.s:3-10) is for, though no caller in the repository uses
\* its result: threads that add one to a word get a value of their own each, so
\* no increment is lost, as long as they are no more than a word has values.
TicketsDistinct ==
  \A a \in Addrs :
    /\ \A t \in Callers(a) : Is(t, "add") /\ call[t].x = 1
    /\ Cardinality(Callers(a)) <= 2^Width
    => \A t, u \in {t \in Callers(a) : pc[t] = "ret"} :
         t # u => ret[t] # ret[u]

\* Swap conserves: of a word that is only swapped, each value put in is still
\* there or was returned, as often as it was put in.
SwapConserves ==
  \A a \in Addrs :
    \A t \in Callers(a) :
      (\A u \in Callers(a) : Is(u, "swap") /\ pc[u] = "ret") =>
        LET v == call[t].x IN
        Cardinality({u \in Callers(a) : call[u].x = v})
          <= Cardinality({u \in Callers(a) : ret[u] = v})
             + (IF mem[a] = v THEN 1 ELSE 0)

\* No call waits for another: each one returns.
WaitFree == \A t \in Threads : <>(pc[t] = "ret")
=============================================================================
