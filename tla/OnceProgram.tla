---------------------------- MODULE OnceProgram ----------------------------
(* std_pkg/sync/once.go: ten goroutines call once.Do(f) and then send on an  *)
(* unbuffered channel; main receives ten times and returns, which ends the   *)
(* program whatever the goroutines are doing. sync.Once is the standard      *)
(* library's: a flag read without the lock, and read again, set and cleared  *)
(* from under it.                                                            *)
EXTENDS Integers, FiniteSets

CONSTANT N   \* the number of goroutines, 10 in the code

ASSUME NAssumption == N \in Nat \ {0}

VARIABLES i,      \* goroutines started so far
          got,    \* messages received
          exited, \* main has returned
          gpc,    \* each goroutine: "idle" "do" "lock" "f" "store" "unlock" "send" "end"
          done,   \* the flag of once
          m,      \* who holds the mutex of once, 0 for nobody
          calls   \* times f has been called

onceVars == <<i, got, exited, gpc, done, m, calls>>

Goroutines == 1..N

OnceTypeOK ==
  /\ i \in 0..N /\ got \in 0..i /\ exited \in BOOLEAN
  /\ gpc \in [Goroutines -> {"idle", "do", "lock", "f", "store", "unlock", "send", "end"}]
  /\ done \in BOOLEAN /\ m \in 0..N /\ calls \in 0..N

OnceInit ==
  /\ i = 0 /\ got = 0 /\ exited = FALSE
  /\ gpc = [g \in Goroutines |-> "idle"]
  /\ done = FALSE /\ m = 0 /\ calls = 0

---------------------------------------------------------------------------

Go ==
  /\ i < N
  /\ i' = i + 1
  /\ gpc' = [gpc EXCEPT ![i + 1] = "do"]
  /\ UNCHANGED <<got, exited, done, m, calls>>

\* sync.Once.Do
DoUnlocked(g) ==  \* Mutant: a flag of one's own, tested without the lock.
  /\ gpc[g] = "do"
  /\ gpc' = [gpc EXCEPT ![g] = IF done THEN "send" ELSE "f"]
  /\ UNCHANGED <<i, got, exited, done, m, calls>>

Do(g) ==
  /\ gpc[g] = "do"
  /\ gpc' = [gpc EXCEPT ![g] = IF done THEN "send" ELSE "lock"]
  /\ UNCHANGED <<i, got, exited, done, m, calls>>

Lock(g) ==
  /\ gpc[g] = "lock" /\ m = 0
  /\ m' = g
  /\ gpc' = [gpc EXCEPT ![g] = IF done THEN "unlock" ELSE "f"]
  /\ UNCHANGED <<i, got, exited, done, calls>>

F(g) ==
  /\ gpc[g] = "f"
  /\ calls' = calls + 1
  /\ gpc' = [gpc EXCEPT ![g] = "store"]
  /\ UNCHANGED <<i, got, exited, done, m>>

Store(g) ==
  /\ gpc[g] = "store"
  /\ done' = TRUE
  /\ gpc' = [gpc EXCEPT ![g] = "unlock"]
  /\ UNCHANGED <<i, got, exited, m, calls>>

UnlockNot(g) ==  \* Mutant: the lock is kept.
  /\ gpc[g] = "unlock"
  /\ gpc' = [gpc EXCEPT ![g] = "send"]
  /\ UNCHANGED <<i, got, exited, done, m, calls>>

Unlock(g) ==
  /\ gpc[g] = "unlock"
  /\ m' = 0
  /\ gpc' = [gpc EXCEPT ![g] = "send"]
  /\ UNCHANGED <<i, got, exited, done, calls>>

\* main receives only after it has started everybody; sender and receiver meet.
MeetTwice(g) ==  \* Mutant: a message is counted twice.
  /\ i = N /\ got < N /\ gpc[g] = "send"
  /\ got' = got + 2
  /\ gpc' = [gpc EXCEPT ![g] = "end"]
  /\ UNCHANGED <<i, exited, done, m, calls>>

Meet(g) ==
  /\ i = N /\ got < N /\ gpc[g] = "send"
  /\ got' = got + 1
  /\ gpc' = [gpc EXCEPT ![g] = "end"]
  /\ UNCHANGED <<i, exited, done, m, calls>>

Return ==
  /\ got = N /\ ~exited
  /\ exited' = TRUE
  /\ UNCHANGED <<i, got, gpc, done, m, calls>>

Goroutine(g) == Do(g) \/ Lock(g) \/ F(g) \/ Store(g) \/ Unlock(g)

\* Main's return ends the program.
OnceNext ==
  /\ ~exited
  /\ \/ Go \/ Return
     \/ \E g \in Goroutines : Goroutine(g) \/ Meet(g)

OnceSpec == OnceInit /\ [][OnceNext]_onceVars

---------------------------------------------------------------------------
(* Properties *)

\* Nobody is past once.Do before f has been called and has returned, and f is
\* called by one goroutine only.
DoneOnceBeforeAnybodyGoesOn ==
  /\ calls <= 1
  /\ \A g \in Goroutines : gpc[g] \in {"send", "end"} => calls = 1 /\ done
=============================================================================
