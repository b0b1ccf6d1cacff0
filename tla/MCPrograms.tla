----------------------------- MODULE MCPrograms -----------------------------
(* The small programs, checked in one run: a behaviour picks one of them and *)
(* runs that one only.                                                       *)
EXTENDS OnceProgram, StdinReaders, SqlSession, TypeMetadata, PcValue,
  SharedMemory

VARIABLE program  \* "once" "stdin" "sql" "walk" "pcvalue" "shared"

vars == <<program, onceVars, stdinVars, sqlVars, walkVars, pcVars, sharedVars>>

\* Names of one to five bytes; Person has three.
MCPerson == <<1, 2, 1>>
MCNames == {MCPerson, <<1>>, <<1, 2>>, <<2, 2, 1>>, <<1, 2, 1, 1>>, <<1, 2, 1, 2, 1>>}
MCValSteps == {-1, 0, 2}
MCLiteral == <<97>>

TypeOK == OnceTypeOK /\ StdinTypeOK /\ SqlTypeOK /\ WalkTypeOK /\ PcTypeOK /\ SharedTypeOK

Init ==
  /\ program \in {"once", "stdin", "sql", "walk", "pcvalue", "shared"}
  /\ OnceInit /\ StdinInit /\ SqlInit /\ WalkInit /\ PcInit /\ SharedInit
  /\ program = "stdin" \/ mode = "block"  \* the others do not look at it

Once ==
  /\ program = "once" /\ OnceNext
  /\ UNCHANGED <<program, stdinVars, sqlVars, walkVars, pcVars, sharedVars>>
Stdin ==
  /\ program = "stdin" /\ StdinNext
  /\ UNCHANGED <<program, onceVars, sqlVars, walkVars, pcVars, sharedVars>>
Sql ==
  /\ program = "sql" /\ SqlNext
  /\ UNCHANGED <<program, onceVars, stdinVars, walkVars, pcVars, sharedVars>>
Walk ==
  /\ program = "walk" /\ WalkNext
  /\ UNCHANGED <<program, onceVars, stdinVars, sqlVars, pcVars, sharedVars>>
Lookup ==
  /\ program = "pcvalue" /\ PcNext
  /\ UNCHANGED <<program, onceVars, stdinVars, sqlVars, walkVars, sharedVars>>
Share ==
  /\ program = "shared" /\ SharedNext
  /\ UNCHANGED <<program, onceVars, stdinVars, sqlVars, walkVars, pcVars>>

Next == Once \/ Stdin \/ Sql \/ Walk \/ Lookup \/ Share

\* Goroutines keep being scheduled; what comes from outside may stay away.
StdinProgram ==
  /\ program = "stdin" /\ status = "running" /\ Program
  /\ UNCHANGED <<program, onceVars, sqlVars, walkVars, pcVars, sharedVars>>

Spec == Init /\ [][Next]_vars /\ WF_vars(Once) /\ WF_vars(StdinProgram)

\* Main receives from everybody and returns: nobody waits for ever for the lock
\* of once, or for a partner on the unbuffered channel, and nobody is cut off.
OnceReturns ==
  program = "once" ~> exited /\ \A g \in Goroutines : gpc[g] = "end"
=============================================================================
