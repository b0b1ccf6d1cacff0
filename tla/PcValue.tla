------------------------------ MODULE PcValue ------------------------------
(***************************************************************************)
(* pcvalue, as stack_trace_learn/stack_trace.go quotes it from the         *)
(* runtime: the line (or file, or frame size) of an instruction is found   *)
(* by walking a table of differences from the function's entry until the   *)
(* target has been passed.                                                 *)
(***************************************************************************)
EXTENDS Integers, Sequences

CONSTANTS
  PcSteps,  \* differences between instruction addresses
  ValSteps, \* differences between values
  MaxTable, \* bound: entries of a table
  Entry     \* address of the function

ASSUME PcAssumption ==
  /\ PcSteps \subseteq Nat \ {0} /\ ValSteps \subseteq Int
  /\ MaxTable \in Nat /\ Entry \in Nat

VARIABLES
  look,            \* "call" "loop" "return" "missing"
  pctab, targetpc, \* the table of the function; the address looked for
  p,               \* what is left of the table
  nextpc, prevpc, value \* pc, prevpc and val of pcvalue

pcVars == <<look, pctab, targetpc, p, nextpc, prevpc, value>>

Tables == UNION {[1..n -> [pc : PcSteps, val : ValSteps]] : n \in 1..MaxTable}

\* A zero difference of values ends a table, except in its first entry.
Proper(table) == \A k \in DOMAIN table \ {1} : table[k].val # 0

PcInit ==
  /\ look = "call" /\ pctab = <<>> /\ targetpc = Entry
  /\ p = <<>> /\ nextpc = Entry /\ prevpc = Entry /\ value = -1

\* What the first k of n differences add up to, from a.
Sums(a, n, d) == LET f[k \in 0..n] == IF k = 0 THEN a ELSE f[k - 1] + d[k] IN f

\* Where the ranges of a table end, and the value in each.
RangeEnd(table) == Sums(Entry, Len(table), [k \in DOMAIN table |-> table[k].pc])
RangeValue(table) == Sums(-1, Len(table), [k \in DOMAIN table |-> table[k].val])

\* Of any address of the function, or the first one behind it.
Call ==
  /\ look = "call" /\ look' = "loop"
  /\ pctab' \in {table \in Tables : Proper(table)} /\ p' = pctab'
  /\ targetpc' \in Entry..RangeEnd(pctab')[Len(pctab')]
  /\ UNCHANGED <<nextpc, prevpc, value>>

StepInclusive ==  \* Mutant: targetpc <= pc.
  /\ look = "loop" /\ p # <<>>
  /\ p' = Tail(p)
  /\ nextpc' = nextpc + Head(p).pc /\ value' = value + Head(p).val
  /\ IF targetpc <= nextpc' THEN look' = "return" /\ UNCHANGED prevpc
                            ELSE prevpc' = nextpc' /\ UNCHANGED look
  /\ UNCHANGED <<pctab, targetpc>>

\* One round: step moves to the next entry, and the value it yields is that of
\* the instructions before the new pc.
Step ==
  /\ look = "loop" /\ p # <<>>
  /\ p' = Tail(p)
  /\ nextpc' = nextpc + Head(p).pc /\ value' = value + Head(p).val
  /\ IF targetpc < nextpc' THEN look' = "return" /\ UNCHANGED prevpc
                           ELSE prevpc' = nextpc' /\ UNCHANGED look
  /\ UNCHANGED <<pctab, targetpc>>

\* step is not ok: the loop is left, and nothing is returned.
Exhausted ==
  /\ look = "loop" /\ p = <<>> /\ look' = "missing"
  /\ UNCHANGED <<pctab, targetpc, p, nextpc, prevpc, value>>

PcNext == Call \/ Step \/ Exhausted

PcSpec == PcInit /\ [][PcNext]_pcVars

-----------------------------------------------------------------------------
(* Properties *)

PcTypeOK ==
  /\ look \in {"call", "loop", "return", "missing"}
  /\ targetpc \in Nat /\ Len(p) <= Len(pctab)
  /\ Entry <= prevpc /\ prevpc <= nextpc

\* What is returned is the value of the range the instruction lies in and the
\* start of that range, the first and the last instruction of a range included;
\* nothing is found only behind the function (stack_trace.go:48-49).
ValueOfTheInstruction ==
  /\ look = "return" => \E k \in DOMAIN pctab :
       /\ RangeEnd(pctab)[k - 1] <= targetpc /\ targetpc < RangeEnd(pctab)[k]
       /\ value = RangeValue(pctab)[k] /\ prevpc = RangeEnd(pctab)[k - 1]
  /\ look = "missing" => targetpc = RangeEnd(pctab)[Len(pctab)]
=============================================================================
