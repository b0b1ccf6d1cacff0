------------------------- MODULE ConfigValueProofs -------------------------
(* For any number of goroutines, any heap and any number of stores: what     *)
(* value.go prints is a whole configuration, no goroutine sees the           *)
(* configuration go back, and no map is written while somebody reads it.     *)
(*                                                                           *)
(* The argument is about the current map. It holds the keys 0 .. n-1 from    *)
(* the moment it is stored (CurrentInv), every map a goroutine ranges over   *)
(* was once the current one and lies inside it (RangeInv), and the map the   *)
(* writer fills is none of these (WriterInv): so filling it changes nothing  *)
(* that anybody else can see.                                                *)
EXTENDS ConfigValue, TLAPS

\* A configuration that was current after some number of stores.
Whole(s) == \E n \in 0..i : s = 0..(n - 1)

CurrentInv ==
  /\ wpc \in {"load", "copy"} => maps[config] = 0..(i - 1)
  /\ wpc = "store" => maps[config] = 0..(i - 2) /\ i > 0

WriterInv ==
  /\ wpc = "copy" => originCfg = config /\ maps[newCfg] \subseteq maps[config] /\ i < MaxWrites
  /\ wpc = "store" => maps[newCfg] = 0..(i - 1)
  /\ wpc \in {"copy", "store"} =>
        /\ newCfg # config
        /\ \A g \in Readers : rpc[g] = "range" => cfg[g] # newCfg

RangeInv ==
  \A g \in Readers : rpc[g] = "range" =>
    /\ Whole(maps[cfg[g]])
    /\ info[g] \subseteq maps[cfg[g]] /\ printed[g] \subseteq maps[cfg[g]]
    /\ maps[cfg[g]] \subseteq maps[config]

PrintedInv ==
  \A g \in Readers : Whole(printed[g]) /\ printed[g] \subseteq maps[config]

IInv == TypeOK /\ CurrentInv /\ WriterInv /\ RangeInv /\ PrintedInv

---------------------------------------------------------------------------

\* The first configuration is the empty map, and nobody has printed anything.
LEMMA InitInv == Init => IInv
<1> SUFFICES ASSUME Init PROVE IInv
  OBVIOUS
<1> USE MaxWritesAssumption DEF Init
<1>1. TypeOK
  BY DEF TypeOK, Keys
<1>2. {} = 0..(0 - 1) /\ 0 \in 0..0
  OBVIOUS
<1>3. Whole({})
  BY <1>2 DEF Whole
<1> QED
  BY <1>1, <1>2, <1>3 DEF IInv, CurrentInv, WriterInv, RangeInv, PrintedInv

\* A step of the writer: the map it fills is nobody else's, and the map it
\* stores holds all that the current one held.
LEMMA WriterPreserves == ASSUME IInv, Writer PROVE IInv'
<1> USE MaxWritesAssumption
<1>t. TypeOK /\ CurrentInv /\ WriterInv /\ RangeInv /\ PrintedInv
  BY DEF IInv
<1>1. CASE WriterLoad
  <2> USE <1>1 DEF WriterLoad, readerVars
  <2>1. PICK a \in Addr \ Reachable : newCfg' = a /\ maps' = [maps EXCEPT ![a] = {}]
    OBVIOUS
  <2>2. a # config /\ \A g \in Readers : rpc[g] = "range" => cfg[g] # a
    BY <2>1 DEF Reachable
  <2>3. TypeOK'
    BY <1>t, <2>1 DEF TypeOK
  <2>4. maps'[config] = maps[config]
          /\ \A g \in Readers : rpc[g] = "range" => maps'[cfg[g]] = maps[cfg[g]]
    BY <1>t, <2>1, <2>2 DEF TypeOK
  <2>5. CurrentInv'
    BY <1>t, <2>4 DEF CurrentInv
  <2>6. WriterInv'
    BY <1>t, <2>1, <2>2 DEF WriterInv, TypeOK
  <2>7. RangeInv' /\ PrintedInv'
    BY <1>t, <2>4 DEF RangeInv, PrintedInv, Whole
  <2> QED
    BY <2>3, <2>5, <2>6, <2>7 DEF IInv
<1>2. CASE CopyKey
  <2> USE <1>2 DEF CopyKey, readerVars, writerVars
  <2>1. PICK key \in maps[originCfg] \ maps[newCfg] :
            maps' = [maps EXCEPT ![newCfg] = @ \cup {key}]
    OBVIOUS
  <2>2. newCfg # config /\ \A g \in Readers : rpc[g] = "range" => cfg[g] # newCfg
    BY <1>t DEF WriterInv
  <2>3. TypeOK'
    BY <1>t, <2>1 DEF TypeOK
  <2>4. maps'[config] = maps[config]
          /\ \A g \in Readers : rpc[g] = "range" => maps'[cfg[g]] = maps[cfg[g]]
    BY <1>t, <2>1, <2>2 DEF TypeOK
  <2>5. maps'[newCfg] \subseteq maps[config]
    BY <1>t, <2>1 DEF WriterInv, TypeOK
  <2>6. CurrentInv' /\ WriterInv'
    BY <1>t, <2>2, <2>4, <2>5 DEF CurrentInv, WriterInv
  <2>7. RangeInv' /\ PrintedInv'
    BY <1>t, <2>4 DEF RangeInv, PrintedInv, Whole
  <2> QED
    BY <2>3, <2>6, <2>7 DEF IInv
<1>3. CASE AddKey
  <2> USE <1>3 DEF AddKey, readerVars
  <2>1. newCfg # config /\ \A g \in Readers : rpc[g] = "range" => cfg[g] # newCfg
    BY <1>t DEF WriterInv
  <2>2. i \in Nat /\ i < MaxWrites /\ i' = i + 1
    BY <1>t DEF TypeOK, WriterInv
  <2>3. TypeOK'
    BY <1>t, <2>2 DEF TypeOK, Keys
  <2>4. maps'[config] = maps[config]
          /\ \A g \in Readers : rpc[g] = "range" => maps'[cfg[g]] = maps[cfg[g]]
    BY <1>t, <2>1 DEF TypeOK
  <2>5. maps[newCfg] = 0..(i - 1)
    BY <1>t DEF WriterInv, CurrentInv
  <2>6. maps'[newCfg] = 0..(i' - 1)
    <3>1. maps'[newCfg] = maps[newCfg] \cup {i}
      BY <1>t DEF TypeOK
    <3>2. 0..(i - 1) \cup {i} = 0..((i + 1) - 1)
      BY <2>2
    <3> QED
      BY <2>2, <2>5, <3>1, <3>2
  <2>7. CurrentInv' /\ WriterInv'
    BY <1>t, <2>1, <2>2, <2>4, <2>6 DEF CurrentInv, WriterInv
  <2>8. \A s : Whole(s) => \E n \in 0..i' : s = 0..(n - 1)
    BY <2>2 DEF Whole
  <2>9. RangeInv'
    <3> SUFFICES ASSUME NEW g \in Readers, rpc[g] = "range"
                 PROVE  /\ Whole(maps[cfg[g]])' /\ maps'[cfg[g]] \subseteq maps'[config]
                        /\ info[g] \subseteq maps'[cfg[g]] /\ printed[g] \subseteq maps'[cfg[g]]
      BY DEF RangeInv
    <3>1. maps'[cfg[g]] = maps[cfg[g]] /\ maps'[config] = maps[config]
      BY <2>4
    <3>2. PICK n \in 0..i : maps[cfg[g]] = 0..(n - 1)
      BY <1>t DEF RangeInv, Whole
    <3>3. n \in 0..i'
      BY <2>2
    <3>4. Whole(maps[cfg[g]])'
      BY <3>1, <3>2, <3>3 DEF Whole
    <3> QED
      BY <1>t, <3>1, <3>4 DEF RangeInv
  <2>10. PrintedInv'
    BY <1>t, <2>4, <2>8 DEF PrintedInv, Whole
  <2> QED
    BY <2>3, <2>7, <2>9, <2>10 DEF IInv
<1>4. CASE WriterStore
  <2> USE <1>4 DEF WriterStore, readerVars
  <2>1. TypeOK'
    BY <1>t DEF TypeOK
  <2>2. maps[newCfg] = 0..(i - 1) /\ maps[config] = 0..(i - 2) /\ i \in Nat
    BY <1>t DEF WriterInv, CurrentInv, TypeOK
  <2>3. maps[config] \subseteq maps'[config']
    BY <2>2
  <2>4. CurrentInv' /\ WriterInv'
    BY <2>2 DEF CurrentInv, WriterInv
  <2>5. \A s : s \subseteq maps[config] => s \subseteq maps'[config']
    BY <2>3
  <2>6. RangeInv' /\ PrintedInv'
    BY <1>t, <2>5 DEF RangeInv, PrintedInv, Whole
  <2> QED
    BY <2>1, <2>4, <2>6 DEF IInv
<1> QED
  BY <1>1, <1>2, <1>3, <1>4 DEF Writer

\* A step of a goroutine that reads changes nobody's map.
LEMMA ReaderPreserves ==
  ASSUME IInv, NEW g \in Readers, Reader(g) PROVE IInv'
<1> USE MaxWritesAssumption
<1>t. TypeOK /\ CurrentInv /\ WriterInv /\ RangeInv /\ PrintedInv
  BY DEF IInv
<1>1. CASE ReaderLoad(g)
  <2> USE <1>1 DEF ReaderLoad, writerVars
  <2>1. TypeOK'
    BY <1>t DEF TypeOK
  <2>2. CurrentInv' /\ WriterInv'
    BY <1>t DEF CurrentInv, WriterInv, TypeOK
  <2>3. Whole(maps[config])
    <3>1. i \in Nat /\ i \in 0..i /\ (i > 0 => i - 1 \in 0..i)
      BY <1>t DEF TypeOK
    <3>2. maps[config] = 0..(i - 1) \/ (maps[config] = 0..((i - 1) - 1) /\ i > 0)
      BY <1>t, <3>1 DEF CurrentInv, TypeOK
    <3> QED
      BY <3>1, <3>2 DEF Whole
  <2>4. RangeInv' /\ PrintedInv'
    BY <1>t, <2>3 DEF RangeInv, PrintedInv, Whole, TypeOK
  <2> QED
    BY <2>1, <2>2, <2>4 DEF IInv
<1>2. CASE RangeKey(g)
  <2> USE <1>2 DEF RangeKey, writerVars
  <2>1. TypeOK'
    BY <1>t DEF TypeOK
  <2>2. CurrentInv' /\ WriterInv' /\ PrintedInv'
    BY <1>t DEF CurrentInv, WriterInv, PrintedInv, Whole
  <2>3. RangeInv'
    BY <1>t DEF RangeInv, Whole, TypeOK
  <2> QED
    BY <2>1, <2>2, <2>3 DEF IInv
<1>3. CASE PrintCfg(g)
  <2> USE <1>3 DEF PrintCfg, writerVars
  <2>1. TypeOK'
    BY <1>t DEF TypeOK
  <2>2. CurrentInv' /\ WriterInv'
    BY <1>t DEF CurrentInv, WriterInv, TypeOK
  <2>3. info[g] = maps[cfg[g]]
    BY <1>t DEF RangeInv
  <2>4. RangeInv' /\ PrintedInv'
    BY <1>t, <2>3 DEF RangeInv, PrintedInv, Whole, TypeOK
  <2> QED
    BY <2>1, <2>2, <2>4 DEF IInv
<1> QED
  BY <1>1, <1>2, <1>3 DEF Reader

\* The invariant above holds in every state of the program.
THEOREM Invariance == Spec => []IInv
<1>1. IInv /\ [Next]_vars => IInv'
  <2> SUFFICES ASSUME IInv, [Next]_vars PROVE IInv'
    OBVIOUS
  <2>1. CASE UNCHANGED vars
    BY <2>1 DEF IInv, TypeOK, CurrentInv, WriterInv, RangeInv, PrintedInv, Whole, vars
  <2> QED
    BY <2>1, WriterPreserves, ReaderPreserves DEF Next
<1> QED
  BY <1>1, InitInv, PTL DEF Spec

\* Every variable keeps its type.
THEOREM TypeCorrect == Spec => []TypeOK
BY Invariance, PTL DEF IInv

\* The map the writer fills is ranged over by nobody, itself included.
THEOREM NobodyReadsWhatIsWritten == Spec => []NoConcurrentMapAccess
<1>1. IInv => NoConcurrentMapAccess
  BY DEF IInv, WriterInv, NoConcurrentMapAccess
<1> QED
  BY <1>1, Invariance, PTL

\* Whatever is printed is a configuration that was stored, with all its keys.
THEOREM PrintsWholeConfigurations == Spec => []WholeSnapshots
<1>1. IInv => WholeSnapshots
  BY DEF IInv, PrintedInv, Whole, WholeSnapshots
<1> QED
  BY <1>1, Invariance, PTL

\* No goroutine prints a configuration older than its last one.
THEOREM ConfigurationsGoForward == Spec => MonotonicReads
<1>1. IInv /\ [Next]_vars => [\A g \in Readers : printed[g] \subseteq printed'[g]]_vars
  <2> SUFFICES ASSUME IInv, Next PROVE \A g \in Readers : printed[g] \subseteq printed'[g]
    OBVIOUS
  <2>1. CASE UNCHANGED printed
    BY <2>1
  <2>2. ASSUME NEW h \in Readers, PrintCfg(h)
        PROVE \A g \in Readers : printed[g] \subseteq printed'[g]
    BY <2>2 DEF PrintCfg, IInv, RangeInv, TypeOK
  <2> QED
    BY <2>1, <2>2 DEF Next, Writer, WriterLoad, CopyKey, AddKey, WriterStore,
       Reader, ReaderLoad, RangeKey, readerVars, writerVars
<1> QED
  BY <1>1, Invariance, PTL DEF Spec, MonotonicReads
=============================================================================
