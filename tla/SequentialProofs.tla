-------------------------- MODULE SequentialProofs --------------------------
(***************************************************************************)
(* The programs of one thread.  Two read data that says nothing of where   *)
(* it ends: pcvalue finds the range of every instruction in any table of   *)
(* differences, and readVarint the length of every name.  Both follow a    *)
(* sequence defined by recursion, so induction and recursion over the      *)
(* naturals are proved first, from the well-foundedness of <.  The third   *)
(* shares memory: strings keep their bytes, for any variables, any literal *)
(* and any number and length of blocks.                                    *)
(***************************************************************************)
EXTENDS PcValue, TypeMetadata, SharedMemory, SequenceTheorems, WellFoundedInduction, TLAPS

Less == {ss \in Nat \X Nat : ss[1] < ss[2]}

\* < on the naturals is well-founded.
LEMMA Smallest ==
  ASSUME NEW T, T \subseteq Nat, T # {}
  PROVE  \E n \in T : \A k \in T : n <= k
<1>1. IsWellFoundedOn(Less, Nat)
  <2>1. OpToRel(<, Nat) = Less
    BY DEF OpToRel, Less
  <2> QED  BY <2>1, NatLessThanWellFounded
<1>2. PICK n \in T : \A k \in T : ~(<<k, n>> \in Less)
  BY <1>1, WFMin
<1>3. ASSUME NEW k \in T  PROVE n <= k
  <2>1. k \in Nat /\ n \in Nat
    OBVIOUS
  <2>2. ~(k < n)
    BY <1>2, <2>1 DEF Less
  <2> QED  BY <2>1, <2>2
<1> QED  BY <1>3

\* A set of naturals with 0, and with the successor of each of its members, is all.
LEMMA Induction ==
  ASSUME NEW S, 0 \in S, \A n \in Nat : n \in S => n + 1 \in S
  PROVE  \A n \in Nat : n \in S
<1> SUFFICES ASSUME Nat \ S # {}  PROVE FALSE
  OBVIOUS
<1>1. PICK n \in Nat \ S : \A k \in Nat \ S : n <= k
  BY Smallest
<1>2. n # 0 /\ n - 1 \in Nat /\ n - 1 \notin Nat \ S
  BY <1>1
<1>3. n - 1 \in S
  BY <1>2
<1>4. n = (n - 1) + 1
  OBVIOUS
<1> QED  BY <1>2, <1>3, <1>4

\* The first n + 1 values of the function that starts with a and goes on with h.
Prefix(a, h, n) ==
  {f \in [0..n -> Int] : f[0] = a /\ \A i \in 1..n : f[i] = h[<<f[i - 1], i>>]}

LEMMA PrefixesAgree ==
  ASSUME NEW a, NEW h, NEW m \in Nat, NEW n \in Nat,
         NEW f \in Prefix(a, h, m), NEW g \in Prefix(a, h, n)
  PROVE  \A i \in Nat : i <= m /\ i <= n => f[i] = g[i]
<1> DEFINE A == {i \in Nat : i <= m /\ i <= n => f[i] = g[i]}
<1>1. 0 \in A
  BY DEF Prefix
<1>2. ASSUME NEW i \in Nat, i \in A  PROVE i + 1 \in A
  <2> SUFFICES ASSUME i + 1 <= m, i + 1 <= n  PROVE f[i + 1] = g[i + 1]
    OBVIOUS
  <2>1. f[i] = g[i]
    BY <1>2
  <2>2. i + 1 \in 1..m /\ i + 1 \in 1..n /\ (i + 1) - 1 = i
    OBVIOUS
  <2>3. f[i + 1] = h[<<f[i], i + 1>>] /\ g[i + 1] = h[<<g[i], i + 1>>]
    BY <2>2 DEF Prefix
  <2> QED  BY <2>1, <2>3
<1>3. \A i \in Nat : i \in A
  <2> HIDE DEF A
  <2> QED  BY <1>1, <1>2, Induction
<1> QED  BY <1>3

LEMMA PrefixExists ==
  ASSUME NEW a \in Int, NEW h \in [Int \X Nat -> Int]
  PROVE  \A n \in Nat : Prefix(a, h, n) # {}
<1> DEFINE A == {n \in Nat : Prefix(a, h, n) # {}}
<1>1. 0 \in A
  <2>1. [i \in 0..0 |-> a] \in Prefix(a, h, 0)
    BY DEF Prefix
  <2> QED  BY <2>1
<1>2. ASSUME NEW n \in Nat, n \in A  PROVE n + 1 \in A
  <2>1. PICK f : f \in Prefix(a, h, n)
    BY <1>2
  <2> DEFINE g == [i \in 0..(n + 1) |-> IF i = n + 1 THEN h[<<f[n], n + 1>>] ELSE f[i]]
  <2>2. f \in [0..n -> Int] /\ f[n] \in Int /\ h[<<f[n], n + 1>>] \in Int
    BY <2>1 DEF Prefix
  <2>3. g \in [0..(n + 1) -> Int]
    BY <2>2
  <2>4. g[0] = a
    BY <2>1 DEF Prefix
  <2>5. ASSUME NEW i \in 1..(n + 1)  PROVE g[i] = h[<<g[i - 1], i>>]
    <3>1. CASE i = n + 1
      <4>1. i - 1 = n /\ n \in 0..(n + 1) /\ n # n + 1
        BY <3>1
      <4>2. g[i - 1] = f[n] /\ g[i] = h[<<f[n], n + 1>>]
        BY <3>1, <4>1
      <4> QED  BY <3>1, <4>2
    <3>2. CASE i # n + 1
      <4>1. i \in 1..n /\ i - 1 \in 0..n /\ i - 1 # n + 1
        BY <3>2
      <4>2. f[i] = h[<<f[i - 1], i>>]
        BY <2>1, <4>1 DEF Prefix
      <4>3. g[i] = f[i] /\ g[i - 1] = f[i - 1]
        BY <3>2, <4>1
      <4> QED  BY <4>2, <4>3
    <3> QED  BY <3>1, <3>2
  <2>6. g \in Prefix(a, h, n + 1)
    BY <2>3, <2>4, <2>5 DEF Prefix
  <2> QED  BY <2>6
<1>3. \A n \in Nat : n \in A
  <2> HIDE DEF A
  <2> QED  BY <1>1, <1>2, Induction
<1> QED  BY <1>3

\* A function is defined by its first value and by how each follows from the last.
LEMMA Recursion ==
  ASSUME NEW a \in Int, NEW h \in [Int \X Nat -> Int]
  PROVE  \E f \in [Nat -> Int] :
           f[0] = a /\ \A n \in Nat \ {0} : f[n] = h[<<f[n - 1], n>>]
<1> DEFINE G(n) == CHOOSE f : f \in Prefix(a, h, n)
           F == [n \in Nat |-> G(n)[n]]
<1>1. ASSUME NEW n \in Nat  PROVE G(n) \in Prefix(a, h, n)
  BY PrefixExists
<1> HIDE DEF G
<1>2. ASSUME NEW n \in Nat  PROVE G(n) \in [0..n -> Int] /\ G(n)[n] \in Int
  BY <1>1 DEF Prefix
<1>3. F \in [Nat -> Int]
  BY <1>2
<1>4. F[0] = a
  BY <1>1 DEF Prefix
<1>5. ASSUME NEW n \in Nat \ {0}  PROVE F[n] = h[<<F[n - 1], n>>]
  <2>1. n - 1 \in Nat /\ n - 1 <= n /\ n \in 1..n
    OBVIOUS
  <2>2. G(n)[n - 1] = G(n - 1)[n - 1]
    BY <1>1, <2>1, PrefixesAgree
  <2>3. G(n)[n] = h[<<G(n)[n - 1], n>>]
    BY <1>1, <2>1 DEF Prefix
  <2> QED  BY <2>1, <2>2, <2>3
<1> QED  BY <1>3, <1>4, <1>5

-----------------------------------------------------------------------------
(* pcvalue *)

PcEntry == [pc : Nat \ {0}, val : Int]

\* The definition of Sums has a solution, and this is what it says.
LEMMA SumsAre ==
  ASSUME NEW n \in Nat, NEW a \in Int, NEW d \in [1..n -> Int]
  PROVE  /\ Sums(a, n, d) \in [0..n -> Int] /\ Sums(a, n, d)[0] = a
         /\ \A k \in 1..n : Sums(a, n, d)[k] = Sums(a, n, d)[k - 1] + d[k]
<1> DEFINE h == [q \in Int \X Nat |-> IF q[2] \in 1..n THEN q[1] + d[q[2]] ELSE q[1]]
           Is(g) == g = [k \in 0..n |-> IF k = 0 THEN a ELSE g[k - 1] + d[k]]
<1>1. \A q \in Int \X Nat : h[q] \in Int
  OBVIOUS
<1>2. h \in [Int \X Nat -> Int]
  <2>1. h = [q \in Int \X Nat |-> h[q]]
    OBVIOUS
  <2> HIDE DEF h
  <2> QED  BY <1>1, <2>1
<1>3. PICK F \in [Nat -> Int] : F[0] = a /\ \A k \in Nat \ {0} : F[k] = h[<<F[k - 1], k>>]
  <2>1. \A H \in [Int \X Nat -> Int] : \E F \in [Nat -> Int] :
          F[0] = a /\ \A k \in Nat \ {0} : F[k] = H[<<F[k - 1], k>>]
    BY Recursion
  <2> HIDE DEF h, Is
  <2> QED  BY <1>2, <2>1
<1> DEFINE G == [k \in 0..n |-> F[k]]
<1>4. ASSUME NEW k \in 0..n  PROVE G[k] = IF k = 0 THEN a ELSE G[k - 1] + d[k]
  <2>1. CASE k = 0
    BY <1>3, <2>1
  <2>2. CASE k # 0
    <3>1. k \in 1..n /\ k \in Nat \ {0} /\ k - 1 \in 0..n /\ k - 1 \in Nat
      BY <2>2
    <3>2. F[k - 1] \in Int
      BY <3>1, <1>3
    <3>3. h[<<F[k - 1], k>>] = F[k - 1] + d[k]
      BY <3>1, <3>2
    <3>4. G[k] = F[k] /\ G[k - 1] = F[k - 1]
      BY <3>1
    <3> QED  BY <1>3, <2>2, <3>1, <3>3, <3>4
  <2> QED  BY <2>1, <2>2
<1>5. Is(G)
  <2>1. G = [k \in 0..n |-> G[k]]
    OBVIOUS
  <2> HIDE DEF G
  <2> QED  BY <1>4, <2>1
<1>6. Is(Sums(a, n, d))
  <2> HIDE DEF G
  <2> QED  BY <1>5 DEF Sums
<1> DEFINE f == Sums(a, n, d)
<1> HIDE DEF f
<1>7. f = [k \in 0..n |-> f[k]]
  BY <1>6 DEF f
<1>8. ASSUME NEW k \in 0..n  PROVE f[k] = IF k = 0 THEN a ELSE f[k - 1] + d[k]
  BY <1>6 DEF f
<1> HIDE DEF Is, h, G
<1>9. f[0] = a /\ \A k \in 1..n : f[k] = f[k - 1] + d[k]
  <2>1. f[0] = a
    BY <1>8
  <2>2. ASSUME NEW k \in 1..n  PROVE f[k] = f[k - 1] + d[k]
    <3>1. k \in 0..n /\ k # 0
      OBVIOUS
    <3> QED  BY <1>8, <3>1
  <2> QED  BY <2>1, <2>2
<1>10. \A k \in Nat : k \in 0..n => f[k] \in Int
  <2> DEFINE A == {k \in Nat : k \in 0..n => f[k] \in Int}
  <2>1. 0 \in A
    BY <1>9
  <2>2. ASSUME NEW k \in Nat, k \in A  PROVE k + 1 \in A
    <3> SUFFICES ASSUME k + 1 \in 0..n  PROVE f[k + 1] \in Int
      OBVIOUS
    <3>1. k + 1 \in 1..n /\ (k + 1) - 1 = k /\ k \in 0..n
      OBVIOUS
    <3>2. f[k + 1] = f[k] + d[k + 1] /\ f[k] \in Int
      BY <1>9, <2>2, <3>1
    <3> QED  BY <3>1, <3>2
  <2>3. \A k \in Nat : k \in A
    <3> HIDE DEF A
    <3> QED  BY <2>1, <2>2, Induction
  <2> QED  BY <2>3
<1>11. f \in [0..n -> Int]
  BY <1>7, <1>10
<1> QED  BY <1>9, <1>11 DEF f

\* Each range of a table is as long as its difference of addresses says, and its
\* value differs by the other from that of the range before.
LEMMA RangesAre ==
  ASSUME NEW table \in Seq(PcEntry)
  PROVE  /\ RangeEnd(table) \in [0..Len(table) -> Int] /\ RangeEnd(table)[0] = Entry
         /\ RangeValue(table) \in [0..Len(table) -> Int] /\ RangeValue(table)[0] = -1
         /\ \A k \in 1..Len(table) :
              /\ RangeEnd(table)[k] = RangeEnd(table)[k - 1] + table[k].pc
              /\ RangeValue(table)[k] = RangeValue(table)[k - 1] + table[k].val
<1> DEFINE n == Len(table)
           d == [k \in DOMAIN table |-> table[k].pc]
           e == [k \in DOMAIN table |-> table[k].val]
<1>1. n \in Nat /\ DOMAIN table = 1..n /\ \A k \in 1..n : table[k] \in PcEntry
  OBVIOUS
<1>2. d \in [1..n -> Int] /\ e \in [1..n -> Int] /\ Entry \in Int /\ -1 \in Int
  BY <1>1, PcAssumption DEF PcEntry
<1> HIDE DEF d, e
<1>3. /\ Sums(Entry, n, d) \in [0..n -> Int] /\ Sums(Entry, n, d)[0] = Entry
      /\ \A k \in 1..n : Sums(Entry, n, d)[k] = Sums(Entry, n, d)[k - 1] + d[k]
  BY <1>1, <1>2, SumsAre
<1>4. /\ Sums(-1, n, e) \in [0..n -> Int] /\ Sums(-1, n, e)[0] = -1
      /\ \A k \in 1..n : Sums(-1, n, e)[k] = Sums(-1, n, e)[k - 1] + e[k]
  BY <1>1, <1>2, SumsAre
<1>5. RangeEnd(table) = Sums(Entry, n, d) /\ RangeValue(table) = Sums(-1, n, e)
  BY DEF d, e, RangeEnd, RangeValue
<1>6. \A k \in 1..n : d[k] = table[k].pc /\ e[k] = table[k].val
  BY <1>1 DEF d, e
<1> QED  BY <1>3, <1>4, <1>5, <1>6

\* k entries have been taken from the table.
Walked(k) ==
  /\ p = SubSeq(pctab, k + 1, Len(pctab))
  /\ nextpc = RangeEnd(pctab)[k] /\ value = RangeValue(pctab)[k]
  /\ prevpc = nextpc /\ nextpc <= targetpc

PcInv ==
  /\ PcTypeOK
  /\ pctab \in Seq(PcEntry)
  /\ nextpc \in Int /\ prevpc \in Int /\ value \in Int
  /\ look = "call" => nextpc = Entry /\ prevpc = Entry /\ value = -1
  /\ look = "loop" =>
       /\ targetpc <= RangeEnd(pctab)[Len(pctab)]
       /\ \E k \in 0..Len(pctab) : Walked(k)
  /\ ValueOfTheInstruction

LEMMA PcInitial == PcInit => PcInv
<1> SUFFICES ASSUME PcInit  PROVE PcInv
  OBVIOUS
<1>1. <<>> \in Seq(PcEntry) /\ Len(<<>>) = 0
  OBVIOUS
<1> QED  BY <1>1, PcAssumption DEF PcInit, PcInv, PcTypeOK, ValueOfTheInstruction

LEMMA CallStep == PcInv /\ Call => PcInv'
<1> SUFFICES ASSUME PcInv, Call  PROVE PcInv'
  OBVIOUS
<1>1. PICK n \in 1..MaxTable : pctab' \in [1..n -> [pc : PcSteps, val : ValSteps]]
  BY DEF Call, Tables
<1>2. n \in Nat /\ pctab' \in [1..n -> PcEntry]
  <2>1. [pc : PcSteps, val : ValSteps] \subseteq PcEntry
    BY PcAssumption DEF PcEntry
  <2>2. \A k \in 1..n : pctab'[k] \in PcEntry
    BY <1>1, <2>1
  <2>3. n \in Nat
    BY PcAssumption
  <2> QED  BY <1>1, <2>2, <2>3
<1>3. pctab' \in Seq(PcEntry) /\ Len(pctab') \in Nat
  BY <1>2
<1> DEFINE m == Len(pctab')
<1>4. /\ RangeEnd(pctab') \in [0..m -> Int] /\ RangeEnd(pctab')[0] = Entry
      /\ RangeValue(pctab')[0] = -1
  BY <1>3, RangesAre
<1>5. RangeEnd(pctab')[m] \in Int
  BY <1>3, <1>4
<1>6. /\ look = "call" /\ look' = "loop" /\ p' = pctab'
      /\ targetpc' \in Entry..RangeEnd(pctab')[m]
      /\ nextpc' = Entry /\ prevpc' = Entry /\ value' = -1
  BY DEF Call, PcInv
<1>7. p' = SubSeq(pctab', 0 + 1, m)
  BY <1>3, <1>6
<1>8. Walked(0)'
  BY <1>3, <1>4, <1>5, <1>6, <1>7, PcAssumption DEF Walked
<1>9. PcTypeOK'
  BY <1>3, <1>5, <1>6, PcAssumption DEF PcTypeOK
<1>10. 0 \in 0..m
  BY <1>3
<1> QED
  BY <1>3, <1>5, <1>6, <1>8, <1>9, <1>10, PcAssumption DEF PcInv, ValueOfTheInstruction

LEMMA StepStep == PcInv /\ Step => PcInv'
<1> SUFFICES ASSUME PcInv, Step  PROVE PcInv'
  OBVIOUS
<1> DEFINE n == Len(pctab)
<1>1. PICK k \in 0..n : Walked(k)
  BY DEF PcInv, Step
<1>2. pctab \in Seq(PcEntry) /\ n \in Nat /\ look = "loop" /\ p # <<>>
  BY DEF PcInv, Step
<1>3. k + 1 \in 1..n
  BY <1>1, <1>2 DEF Walked
<1>4. Head(p) = pctab[k + 1] /\ Tail(p) = SubSeq(pctab, k + 2, n) /\ Len(Tail(p)) <= n
  BY <1>1, <1>2, <1>3 DEF Walked
<1>5. /\ RangeEnd(pctab)[k + 1] = RangeEnd(pctab)[k] + pctab[k + 1].pc
      /\ RangeValue(pctab)[k + 1] = RangeValue(pctab)[k] + pctab[k + 1].val
      /\ RangeEnd(pctab)[k + 1] \in Int /\ RangeValue(pctab)[k + 1] \in Int
  <2>1. (k + 1) - 1 = k /\ k + 1 \in 0..n
    BY <1>3
  <2> QED  BY <1>2, <1>3, <2>1, RangesAre
<1>6. pctab[k + 1].pc \in Nat \ {0}
  <2>1. pctab[k + 1] \in PcEntry
    BY <1>2, <1>3
  <2> QED  BY <2>1 DEF PcEntry
<1>7. /\ nextpc' = RangeEnd(pctab)[k + 1] /\ value' = RangeValue(pctab)[k + 1]
      /\ p' = SubSeq(pctab, k + 2, n) /\ nextpc < nextpc'
      /\ UNCHANGED <<pctab, targetpc>>
  <2>1. nextpc' = nextpc + Head(p).pc /\ value' = value + Head(p).val /\ p' = Tail(p)
        /\ UNCHANGED <<pctab, targetpc>>
    BY DEF Step
  <2>2. nextpc = RangeEnd(pctab)[k] /\ value = RangeValue(pctab)[k]
    BY <1>1 DEF Walked
  <2>3. nextpc' = RangeEnd(pctab)[k + 1] /\ value' = RangeValue(pctab)[k + 1]
    BY <1>4, <1>5, <2>1, <2>2
  <2>4. nextpc \in Int
    BY DEF PcInv
  <2>5. nextpc < nextpc'
    BY <1>4, <1>6, <2>1, <2>4
  <2> QED  BY <1>4, <2>1, <2>3, <2>5
<1>8. /\ nextpc \in Int /\ nextpc' \in Int /\ value' \in Int /\ targetpc \in Nat
      /\ Entry <= nextpc /\ prevpc = nextpc /\ nextpc <= targetpc
      /\ targetpc <= RangeEnd(pctab)[n] /\ Len(p') <= n
  BY <1>1, <1>2, <1>4, <1>5, <1>7 DEF Step, Walked, PcInv, PcTypeOK
<1>9. CASE targetpc < nextpc'
  <2>1. look' = "return" /\ prevpc' = prevpc
    BY <1>9 DEF Step
  <2>2. ValueOfTheInstruction'
    <3>1. k + 1 \in DOMAIN pctab /\ (k + 1) - 1 = k
      BY <1>2, <1>3
    <3> QED  BY <1>1, <1>7, <1>8, <1>9, <2>1, <3>1 DEF ValueOfTheInstruction, Walked
  <2> QED  BY <1>2, <1>7, <1>8, <2>1, <2>2, PcAssumption DEF PcInv, PcTypeOK
<1>10. CASE ~(targetpc < nextpc')
  <2>1. look' = "loop" /\ prevpc' = nextpc'
    BY <1>2, <1>10 DEF Step
  <2>2. Walked(k + 1)'
    BY <1>7, <1>8, <1>10, <2>1 DEF Walked
  <2>3. k + 1 \in 0..Len(pctab') /\ k + 1 \in Nat
    BY <1>3, <1>7
  <2> QED
    BY <1>2, <1>7, <1>8, <2>1, <2>2, <2>3, PcAssumption
    DEF PcInv, PcTypeOK, ValueOfTheInstruction
<1> QED  BY <1>9, <1>10

LEMMA ExhaustedStep == PcInv /\ Exhausted => PcInv'
<1> SUFFICES ASSUME PcInv, Exhausted  PROVE PcInv'
  OBVIOUS
<1>1. PICK k \in 0..Len(pctab) : Walked(k)
  BY DEF PcInv, Exhausted
<1>2. pctab \in Seq(PcEntry) /\ Len(pctab) \in Nat
  BY DEF PcInv
<1>3. k = Len(pctab)
  <2>1. SubSeq(pctab, k + 1, Len(pctab)) = <<>>
    BY <1>1 DEF Walked, Exhausted
  <2>2. Len(SubSeq(pctab, k + 1, Len(pctab))) =
          IF k + 1 <= Len(pctab) THEN Len(pctab) - (k + 1) + 1 ELSE 0
    BY <1>1, <1>2, SubSeqProperties
  <2> DEFINE n == Len(pctab)
  <2>3. Len(SubSeq(pctab, k + 1, n)) = 0
    BY <2>1
  <2>4. k \in 0..n /\ n \in Nat
    BY <1>1, <1>2
  <2>5. 0 = IF k + 1 <= n THEN n - (k + 1) + 1 ELSE 0
    BY <2>2, <2>3
  <2> HIDE DEF n
  <2>6. k = n
    BY <2>4, <2>5
  <2> QED  BY <2>6 DEF n
<1>4. targetpc = RangeEnd(pctab)[Len(pctab)]
  BY <1>1, <1>3 DEF Walked, Exhausted, PcInv, PcTypeOK
<1> QED  BY <1>4 DEF Exhausted, PcInv, PcTypeOK, ValueOfTheInstruction

LEMMA PcInductive == PcInv /\ [PcNext]_pcVars => PcInv'
<1>1. CASE UNCHANGED pcVars
  BY <1>1 DEF pcVars, PcInv, PcTypeOK, Walked, ValueOfTheInstruction
<1> QED  BY <1>1, CallStep, StepStep, ExhaustedStep DEF PcNext

\* In any table of differences the value found for an instruction is that of the
\* range it lies in, and nothing is found only behind the function.
THEOREM LineOfTheInstruction == PcSpec => []ValueOfTheInstruction
<1>1. PcInv => ValueOfTheInstruction
  BY DEF PcInv
<1> QED  BY <1>1, PcInitial, PcInductive, PTL DEF PcSpec

-----------------------------------------------------------------------------
(* The walk of the type metadata *)

LEMMA DividedBy ==
  ASSUME NEW x \in Nat
  PROVE  /\ x \div Group \in Nat /\ x % Group \in 0..(Group - 1)
         /\ x = Group * (x \div Group) + (x % Group)
         /\ x # 0 => x \div Group < x
<1>1. Group \in Nat /\ Group >= 2
  BY MetadataAssumption
<1>2. /\ x \div Group \in Nat /\ x % Group \in 0..(Group - 1)
      /\ x = Group * (x \div Group) + (x % Group)
  BY <1>1
<1> DEFINE q == x \div Group
<1>3. ASSUME x # 0  PROVE q < x
  <2>1. q \in Nat /\ Group * q <= x
    BY <1>1, <1>2
  <2>2. 2 * q <= Group * q
    <3> HIDE DEF q
    <3> QED  BY <1>1, <2>1
  <2> HIDE DEF q
  <2> QED  BY <1>1, <1>3, <2>1, <2>2
<1> QED  BY <1>2, <1>3

\* Likewise the powers of the group,
LEMMA ShiftIs ==
  /\ Shift \in [Nat -> Nat] /\ Shift[0] = 1
  /\ \A k \in Nat \ {0} : Shift[k] = Shift[k - 1] * Group
<1> DEFINE h == [q \in Int \X Nat |-> q[1] * Group]
           Is(g) == g = [k \in Nat |-> IF k = 0 THEN 1 ELSE g[k - 1] * Group]
<1>1. Group \in Nat
  BY MetadataAssumption
<1>2. h \in [Int \X Nat -> Int]
  BY <1>1
<1>3. PICK F \in [Nat -> Int] : F[0] = 1 /\ \A k \in Nat \ {0} : F[k] = h[<<F[k - 1], k>>]
  <2>1. \A b \in Int : \A H \in [Int \X Nat -> Int] : \E F \in [Nat -> Int] :
          F[0] = b /\ \A k \in Nat \ {0} : F[k] = H[<<F[k - 1], k>>]
    BY Recursion
  <2>2. 1 \in Int
    OBVIOUS
  <2> HIDE DEF h, Is
  <2> QED  BY <1>2, <2>1, <2>2
<1>4. ASSUME NEW k \in Nat  PROVE F[k] = IF k = 0 THEN 1 ELSE F[k - 1] * Group
  <2>1. CASE k = 0
    BY <1>3, <2>1
  <2>2. CASE k # 0
    <3>1. k \in Nat \ {0} /\ k - 1 \in Nat /\ F[k - 1] \in Int
      BY <1>3, <2>2
    <3>2. h[<<F[k - 1], k>>] = F[k - 1] * Group
      BY <3>1
    <3> QED  BY <1>3, <2>2, <3>1, <3>2
  <2> QED  BY <2>1, <2>2
<1>5. Is(F)
  BY <1>3, <1>4
<1>6. Is(Shift)
  BY <1>5 DEF Shift
<1>7. /\ Shift = [k \in Nat |-> Shift[k]] /\ Shift[0] = 1
      /\ \A k \in Nat \ {0} : Shift[k] = Shift[k - 1] * Group
  <2> DEFINE f == Shift
  <2> HIDE DEF f
  <2>1. Is(f)
    BY <1>6 DEF f
  <2>2. /\ f = [k \in Nat |-> f[k]] /\ f[0] = 1
        /\ \A k \in Nat \ {0} : f[k] = f[k - 1] * Group
    BY <2>1
  <2> QED  BY <2>2 DEF f
<1> DEFINE A == {k \in Nat : Shift[k] \in Nat}
<1>8. 0 \in A
  BY <1>7
<1>9. ASSUME NEW k \in Nat, k \in A  PROVE k + 1 \in A
  <2>1. k + 1 \in Nat \ {0} /\ (k + 1) - 1 = k /\ Shift[k] \in Nat
    BY <1>9
  <2>2. Shift[k + 1] = Shift[k] * Group
    BY <1>7, <2>1
  <2> QED  BY <1>1, <2>1, <2>2
<1>10. \A k \in Nat : k \in A
  <2> HIDE DEF A
  <2> QED  BY <1>8, <1>9, Induction
<1> QED  BY <1>7, <1>10

\* and what dividing by it again and again leaves.
LEMMA RestIs ==
  ASSUME NEW n \in Nat
  PROVE  /\ Rest(n) \in [Nat -> Nat] /\ Rest(n)[0] = n
         /\ \A k \in Nat \ {0} : Rest(n)[k] = Rest(n)[k - 1] \div Group
<1> DEFINE h == [q \in Int \X Nat |-> q[1] \div Group]
           Is(g) == g = [k \in Nat |-> IF k = 0 THEN n ELSE g[k - 1] \div Group]
<1>1. Group \in Nat \ {0}
  BY MetadataAssumption
<1>2. h \in [Int \X Nat -> Int]
  BY <1>1
<1>3. PICK F \in [Nat -> Int] : F[0] = n /\ \A k \in Nat \ {0} : F[k] = h[<<F[k - 1], k>>]
  <2>1. \A b \in Int : \A H \in [Int \X Nat -> Int] : \E F \in [Nat -> Int] :
          F[0] = b /\ \A k \in Nat \ {0} : F[k] = H[<<F[k - 1], k>>]
    BY Recursion
  <2>2. n \in Int
    OBVIOUS
  <2> HIDE DEF h, Is
  <2> QED  BY <1>2, <2>1, <2>2
<1>4. ASSUME NEW k \in Nat  PROVE F[k] = IF k = 0 THEN n ELSE F[k - 1] \div Group
  <2>1. CASE k = 0
    BY <1>3, <2>1
  <2>2. CASE k # 0
    <3>1. k \in Nat \ {0} /\ k - 1 \in Nat /\ F[k - 1] \in Int
      BY <1>3, <2>2
    <3>2. h[<<F[k - 1], k>>] = F[k - 1] \div Group
      BY <3>1
    <3> QED  BY <1>3, <2>2, <3>1, <3>2
  <2> QED  BY <2>1, <2>2
<1>5. Is(F)
  BY <1>3, <1>4
<1>6. Is(Rest(n))
  BY <1>5 DEF Rest
<1> DEFINE f == Rest(n)
<1>7. /\ f = [k \in Nat |-> f[k]] /\ f[0] = n
      /\ \A k \in Nat \ {0} : f[k] = f[k - 1] \div Group
  <2>1. Is(f)
    BY <1>6
  <2> HIDE DEF f
  <2>2. /\ f = [k \in Nat |-> f[k]] /\ f[0] = n
        /\ \A k \in Nat \ {0} : f[k] = f[k - 1] \div Group
    BY <2>1
  <2> QED  BY <2>2
<1> HIDE DEF f
<1> DEFINE A == {k \in Nat : f[k] \in Nat}
<1>8. 0 \in A
  BY <1>7
<1>9. ASSUME NEW k \in Nat, k \in A  PROVE k + 1 \in A
  <2>1. k + 1 \in Nat \ {0} /\ (k + 1) - 1 = k /\ f[k] \in Nat
    BY <1>9
  <2>2. f[k + 1] = f[k] \div Group
    BY <1>7, <2>1
  <2> QED  BY <2>1, <2>2, DividedBy
<1>10. \A k \in Nat : k \in A
  <2> HIDE DEF A
  <2> QED  BY <1>8, <1>9, Induction
<1> QED  BY <1>7, <1>10 DEF f

\* A varint ends: its groups are the shortest that hold the length.
LEMMA GroupsAre ==
  ASSUME NEW n \in Nat
  PROVE  /\ Groups(n) \in 1..(n + 1) /\ Rest(n)[Groups(n)] = 0
         /\ \A k \in 1..(Groups(n) - 1) : Rest(n)[k] # 0
<1> DEFINE f == Rest(n)
<1>1. f \in [Nat -> Nat] /\ f[0] = n /\ \A k \in Nat \ {0} : f[k] = f[k - 1] \div Group
  BY RestIs
<1> HIDE DEF f
<1> DEFINE A == {k \in Nat : f[k] = 0 \/ f[k] + k <= n}
<1>2. 0 \in A
  BY <1>1
<1>3. ASSUME NEW k \in Nat, k \in A  PROVE k + 1 \in A
  <2>1. k + 1 \in Nat \ {0} /\ (k + 1) - 1 = k /\ f[k] \in Nat /\ f[k + 1] \in Nat
    BY <1>1
  <2>2. f[k + 1] = f[k] \div Group
    BY <1>1, <2>1
  <2>3. CASE f[k] = 0
    <3>1. 0 \div Group = 0
      BY MetadataAssumption
    <3> QED  BY <2>1, <2>2, <2>3, <3>1
  <2>4. CASE f[k] # 0
    <3>1. f[k + 1] < f[k]
      BY <2>1, <2>2, <2>4, DividedBy
    <3> QED  BY <1>3, <2>1, <2>4, <3>1
  <2> QED  BY <2>3, <2>4
<1>4. \A k \in Nat : k \in A
  <2> HIDE DEF A
  <2> QED  BY <1>2, <1>3, Induction
<1>5. f[n + 1] = 0
  <2>1. n + 1 \in Nat /\ f[n + 1] \in Nat
    BY <1>1
  <2>2. f[n + 1] = 0 \/ f[n + 1] + (n + 1) <= n
    BY <1>4, <2>1
  <2> QED  BY <2>1, <2>2
<1> DEFINE Ends == {g \in Nat : g \in 1..(n + 1) /\ f[g] = 0}
<1>6. Ends # {} /\ Ends \subseteq Nat
  BY <1>5
<1>7. \E g \in Ends : \A k \in Ends : g <= k
  <2> HIDE DEF Ends
  <2> QED  BY <1>6, Smallest
<1>8. \E g \in 1..(n + 1) : f[g] = 0 /\ \A k \in 1..(g - 1) : f[k] # 0
  BY <1>7
<1> QED  BY <1>8 DEF Groups, f

\* What a field's bytes hold: the length of the text as a varint, then the text.
Spelled(f) ==
  LET n == Len(f.text)
      g == Groups(n)
  IN  /\ 1 + g + n <= Len(f.bytes)
      /\ \A k \in 1..g : f.bytes[1 + k] = Varint(n)[k]
      /\ \A j \in 1..n : f.bytes[1 + g + j] = f.text[j]

LEMMA VarintIs ==
  ASSUME NEW n \in Nat
  PROVE  Varint(n) \in Seq(Nat) /\ Len(Varint(n)) = Groups(n)
<1> DEFINE g == Groups(n)
           f == Rest(n)
<1>1. g \in Nat /\ f \in [Nat -> Nat] /\ Group \in Nat
  <2>1. g \in 1..(n + 1) /\ f \in [Nat -> Nat]
    BY GroupsAre, RestIs
  <2> HIDE DEF g, f
  <2> QED  BY <2>1, MetadataAssumption
<1>2. \A k \in 1..g : (f[k - 1] % Group) + (IF f[k] = 0 THEN 0 ELSE More) \in Nat
  <2> TAKE k \in 1..g
  <2>1. k - 1 \in Nat /\ f[k - 1] \in Nat
    BY <1>1
  <2>2. f[k - 1] % Group \in Nat
    <3> DEFINE x == f[k - 1]
    <3>1. x % Group \in 0..(Group - 1)
      BY <2>1, DividedBy
    <3> QED  BY <1>1, <3>1
  <2> QED  BY <1>1, <2>2 DEF More
<1> HIDE DEF g, f
<1>3. [k \in 1..g |-> (f[k - 1] % Group) + (IF f[k] = 0 THEN 0 ELSE More)] \in [1..g -> Nat]
  BY <1>2
<1>4. Varint(n) \in [1..g -> Nat]
  BY <1>3 DEF Varint, g, f
<1>5. \A s \in [1..g -> Nat] : s \in Seq(Nat) /\ Len(s) = g
  BY <1>1
<1>6. Varint(n) \in Seq(Nat) /\ Len(Varint(n)) = g
  BY <1>4, <1>5
<1> QED  BY <1>6 DEF g

LEMMA NewNameIs ==
  ASSUME NEW text \in Seq(Nat), NEW tag \in Seq(Nat)
  PROVE  Field(text, tag).bytes \in Seq(Nat) /\ Spelled(Field(text, tag))
<1> DEFINE n == Len(text)
           v == Varint(n)
           g == Groups(n)
           rest == IF tag = <<>> THEN <<>> ELSE Varint(Len(tag)) \o tag
           a == <<0>> \o v
           b == text \o rest
<1>1. n \in Nat /\ v \in Seq(Nat) /\ Len(v) = g /\ g \in Nat
  BY VarintIs, GroupsAre
<1>2. rest \in Seq(Nat)
  <2>1. Varint(Len(tag)) \in Seq(Nat)
    BY VarintIs
  <2> QED  BY <2>1, ConcatProperties
<1> HIDE DEF v, g, rest, n
<1>3. /\ a \in Seq(Nat) /\ Len(a) = 1 + g
      /\ \A k \in 1..g : a[1 + k] = v[k]
  <2>1. <<0>> \in Seq(Nat) /\ Len(<<0>>) = 1
    OBVIOUS
  <2>2. /\ a \in Seq(Nat) /\ Len(a) = 1 + Len(v)
        /\ \A i \in 1..(1 + Len(v)) : a[i] = IF i <= 1 THEN <<0>>[i] ELSE v[i - 1]
    BY <1>1, <2>1, ConcatProperties
  <2> HIDE DEF a
  <2> QED  BY <1>1, <2>2
<1>4. /\ b \in Seq(Nat) /\ n <= Len(b) /\ Len(b) \in Nat
      /\ \A j \in 1..n : b[j] = text[j]
  <2>1. /\ b \in Seq(Nat) /\ Len(b) = n + Len(rest) /\ Len(rest) \in Nat
        /\ \A i \in 1..(n + Len(rest)) : b[i] = IF i <= n THEN text[i] ELSE rest[i - n]
    BY <1>1, <1>2, ConcatProperties DEF n
  <2> HIDE DEF b
  <2> QED  BY <1>1, <2>1
<1> HIDE DEF a, b
<1>5. /\ a \o b \in Seq(Nat) /\ Len(a \o b) = 1 + g + Len(b)
      /\ \A i \in 1..(1 + g + Len(b)) : (a \o b)[i] = IF i <= 1 + g THEN a[i] ELSE b[i - (1 + g)]
  <2>1. /\ a \o b \in Seq(Nat) /\ Len(a \o b) = Len(a) + Len(b)
        /\ \A i \in 1..(Len(a) + Len(b)) : (a \o b)[i] = IF i <= Len(a) THEN a[i] ELSE b[i - Len(a)]
    BY <1>3, <1>4, ConcatProperties
  <2>2. Len(a) = 1 + g
    BY <1>3
  <2> QED  BY <2>1, <2>2
<1>6. Field(text, tag).text = text /\ Field(text, tag).bytes = a \o b
  BY DEF Field, NewName, a, b, rest, v, n
<1> DEFINE s == a \o b
<1> HIDE DEF s
<1>7. s \in Seq(Nat) /\ 1 + g + n <= Len(s)
  BY <1>1, <1>4, <1>5 DEF s
<1>8. \A k \in 1..g : s[1 + k] = v[k]
  <2> TAKE k \in 1..g
  <2>1. 1 + k \in 1..(1 + g + Len(b)) /\ 1 + k <= 1 + g
    BY <1>1, <1>4
  <2>2. s[1 + k] = a[1 + k]
    BY <1>5, <2>1 DEF s
  <2> QED  BY <1>3, <2>2
<1>9. \A j \in 1..n : s[1 + g + j] = text[j]
  <2> TAKE j \in 1..n
  <2>1. 1 + g + j \in 1..(1 + g + Len(b)) /\ ~(1 + g + j <= 1 + g) /\ (1 + g + j) - (1 + g) = j
    BY <1>1, <1>4
  <2> QED  BY <1>4, <1>5, <2>1 DEF s
<1> QED  BY <1>6, <1>7, <1>8, <1>9 DEF Spelled, s, g, v, n

FieldOf == [text : Names, bytes : Seq(Nat), typ : {"declared", "self"}]

\* The length of the name at hand, and the bytes of its varint.
Size == Len(fields[index].text)
Width == Groups(Size)

WalkInv ==
  /\ walk \in {"make", "range", "varint", "name", "set", "marshal"}
  /\ fields \in Seq(FieldOf)
  /\ \A k \in DOMAIN fields : Spelled(fields[k])
  /\ index \in 0..Len(fields) /\ at \in Nat /\ l \in 0..(Word - 1)
  /\ walk = "make" => fields = <<>>
  /\ walk # "make" => \E k \in DOMAIN fields : fields[k].text = Person
  /\ \A k \in DOMAIN fields : fields[k].typ = "self" <=>
       /\ fields[k].text = Person
       /\ k < index \/ (k = index /\ walk \notin {"varint", "name"})
  /\ walk \in {"set", "marshal"} => index = Len(fields)
  /\ walk \in {"varint", "name"} => index \in DOMAIN fields
  /\ walk = "varint" => at < Width /\ l + Rest(Size)[at] * Shift[at] = Size
  /\ walk = "name" => at = Width /\ l = Size

LEMMA FieldsAre ==
  ASSUME NEW text \in Names, NEW tag \in {<<>>, << 1 >>}
  PROVE  Field(text, tag) \in FieldOf /\ Spelled(Field(text, tag))
<1>1. text \in Seq(Nat) /\ tag \in Seq(Nat)
  <2>1. <<>> \in Seq(Nat) /\ <<1>> \in Seq(Nat)
    OBVIOUS
  <2> QED  BY <2>1, MetadataAssumption
<1>2. Field(text, tag).bytes \in Seq(Nat) /\ Spelled(Field(text, tag))
  BY <1>1, NewNameIs
<1>3. /\ Field(text, tag) = [text |-> text, bytes |-> Field(text, tag).bytes, typ |-> "declared"]
  BY DEF Field
<1> QED  BY <1>2, <1>3 DEF FieldOf

LEMMA WalkInitial == WalkInit => WalkInv
<1> SUFFICES ASSUME WalkInit  PROVE WalkInv
  OBVIOUS
<1>1. <<>> \in Seq(FieldOf) /\ Len(<<>>) = 0 /\ DOMAIN <<>> = {}
  OBVIOUS
<1>2. 0 \in 0..(Word - 1)
  BY MetadataAssumption
<1> QED  BY <1>1, <1>2 DEF WalkInit, WalkInv

LEMMA StructOfStep == WalkInv /\ StructOf => WalkInv'
<1> SUFFICES ASSUME WalkInv, StructOf  PROVE WalkInv'
  OBVIOUS
<1>1. PICK other \in Names \ {Person}, tag \in {<<>>, <<1>>} :
        \/ fields' = <<Field(Person, <<>>), Field(other, tag)>>
        \/ fields' = <<Field(other, tag), Field(Person, tag)>>
  BY DEF StructOf
<1>2. PICK f \in FieldOf, g \in FieldOf :
        /\ fields' = <<f, g>> /\ Spelled(f) /\ Spelled(g)
        /\ f.typ = "declared" /\ g.typ = "declared"
        /\ f.text = Person \/ g.text = Person
  <2>1. /\ Field(Person, <<>>) \in FieldOf /\ Spelled(Field(Person, <<>>))
        /\ Field(Person, tag) \in FieldOf /\ Spelled(Field(Person, tag))
        /\ Field(other, tag) \in FieldOf /\ Spelled(Field(other, tag))
    BY FieldsAre, MetadataAssumption
  <2>2. \A t, u : Field(t, u).typ = "declared" /\ Field(t, u).text = t
    BY DEF Field
  <2>3. CASE fields' = <<Field(Person, <<>>), Field(other, tag)>>
    BY <2>1, <2>2, <2>3
  <2>4. CASE fields' = <<Field(other, tag), Field(Person, tag)>>
    BY <2>1, <2>2, <2>4
  <2> QED  BY <1>1, <2>3, <2>4
<1>3. /\ fields' \in Seq(FieldOf) /\ Len(fields') = 2 /\ DOMAIN fields' = {1, 2}
      /\ fields'[1] = f /\ fields'[2] = g
  BY <1>2
<1>4. walk' = "range" /\ index = 0 /\ UNCHANGED <<index, at, l>>
  BY DEF StructOf, WalkInv
<1>5. \A k \in DOMAIN fields' : Spelled(fields'[k]) /\ fields'[k].typ = "declared" /\ ~(k < index') /\ k # index'
  BY <1>2, <1>3, <1>4
<1>6. \E k \in DOMAIN fields' : fields'[k].text = Person
  BY <1>2, <1>3
<1> QED  BY <1>3, <1>4, <1>5, <1>6 DEF WalkInv

LEMMA NextFieldStep == WalkInv /\ NextField => WalkInv'
<1> SUFFICES ASSUME WalkInv, NextField  PROVE WalkInv'
  OBVIOUS
<1>1. /\ fields \in Seq(FieldOf) /\ Len(fields) \in Nat /\ DOMAIN fields = 1..Len(fields)
      /\ walk = "range" /\ index \in 0..Len(fields) /\ fields' = fields
  BY DEF WalkInv, NextField
<1>2. CASE index < Len(fields)
  <2>1. walk' = "varint" /\ index' = index + 1 /\ at' = 0 /\ l' = 0
    BY <1>2 DEF NextField
  <2>2. index' \in DOMAIN fields /\ index' \in 0..Len(fields)
    BY <1>1, <1>2, <2>1
  <2>3. Size' \in Nat
    <3>1. fields[index'] \in FieldOf
      BY <1>1, <2>2
    <3>2. fields[index'].text \in Seq(Nat)
      BY <3>1, MetadataAssumption DEF FieldOf
    <3> QED  BY <1>1, <3>2 DEF Size
  <2>4. Width' \in Nat /\ 0 < Width'
    <3>1. \A n \in Nat : Groups(n) \in 1..(n + 1)
      BY GroupsAre
    <3> QED  BY <2>3, <3>1 DEF Width
  <2>5. 0 + Rest(Size')[0] * Shift[0] = Size'
    <3>1. \A n \in Nat : Rest(n)[0] = n
      BY RestIs
    <3> QED  BY <2>3, <3>1, ShiftIs
  <2>6. \A k \in DOMAIN fields : k < index' <=> (k < index \/ k = index)
    <3> TAKE k \in DOMAIN fields
    <3>1. k \in Nat /\ index \in Nat /\ index' = index + 1
      BY <1>1, <2>1
    <3> QED  BY <3>1
  <2>7. 0 \in 0..(Word - 1)
    BY MetadataAssumption
  <2>8. \A k \in DOMAIN fields' : fields'[k].typ = "self" <=>
          /\ fields'[k].text = Person
          /\ k < index' \/ (k = index' /\ walk' \notin {"varint", "name"})
    <3>1. \A k \in DOMAIN fields : fields[k].typ = "self" <=>
            fields[k].text = Person /\ (k < index \/ k = index)
      <4> TAKE k \in DOMAIN fields
      <4>1. fields[k].typ = "self" <=>
              fields[k].text = Person /\ (k < index \/ (k = index /\ walk \notin {"varint", "name"}))
        BY DEF WalkInv
      <4> QED  BY <1>1, <4>1
    <3> QED  BY <1>1, <2>1, <2>6, <3>1
  <2> QED  BY <1>1, <2>1, <2>2, <2>4, <2>5, <2>7, <2>8 DEF WalkInv
<1>3. CASE ~(index < Len(fields))
  <2>1. walk' = "set" /\ UNCHANGED <<index, at, l>> /\ index = Len(fields)
    <3>1. walk' = "set" /\ UNCHANGED <<index, at, l>>
      BY <1>3 DEF NextField
    <3>2. index = Len(fields)
      <4> DEFINE m == Len(fields)
      <4>1. index \in 0..m /\ m \in Nat /\ ~(index < m)
        BY <1>1, <1>3
      <4> HIDE DEF m
      <4>2. index = m
        BY <4>1
      <4> QED  BY <4>2 DEF m
    <3> QED  BY <3>1, <3>2
  <2> QED  BY <1>1, <2>1 DEF WalkInv
<1> QED  BY <1>2, <1>3

\* What the proofs of the next two steps need of the name at hand.
LEMMA AtHand ==
  ASSUME WalkInv, walk \in {"varint", "name"}
  PROVE  /\ fields \in Seq(FieldOf) /\ index \in DOMAIN fields
         /\ fields[index] \in FieldOf /\ Spelled(fields[index])
         /\ fields[index].text \in Seq(Nat) /\ Size \in Nat /\ Size < Word
         /\ Width \in 1..(Size + 1)
         /\ fields[index].bytes \in Seq(Nat) /\ 1 + Width + Size <= Len(fields[index].bytes)
<1>1. fields \in Seq(FieldOf) /\ index \in DOMAIN fields /\ Spelled(fields[index])
  BY DEF WalkInv
<1>2. fields[index] \in FieldOf
  BY <1>1
<1>3. fields[index].text \in Seq(Nat) /\ Len(fields[index].text) < Word
  BY <1>2, MetadataAssumption DEF FieldOf
<1>4. Size \in Nat /\ Size < Word
  BY <1>3 DEF Size
<1>5. Width \in 1..(Size + 1)
  BY <1>4, GroupsAre DEF Width
<1>6. fields[index].bytes \in Seq(Nat)
  BY <1>2 DEF FieldOf
<1> QED  BY <1>1, <1>2, <1>3, <1>4, <1>5, <1>6 DEF Spelled, Size, Width

LEMMA Spread ==
  ASSUME NEW a \in Nat, NEW b \in Nat, NEW c \in Nat, NEW e \in Nat
  PROVE  (a * b + c) * e = b * (e * a) + c * e
OBVIOUS

LEMMA readVarintStep == WalkInv /\ readVarint => WalkInv'
<1> SUFFICES ASSUME WalkInv, readVarint  PROVE WalkInv'
  OBVIOUS
<1> DEFINE n == Size
           g == Width
           r == Rest(n)[at]
           q == Rest(n)[at + 1]
           s == Shift[at]
           b == fields[index].bytes
<1>1. /\ fields \in Seq(FieldOf) /\ index \in DOMAIN fields /\ Spelled(fields[index])
      /\ n \in Nat /\ n < Word /\ g \in 1..(n + 1) /\ b \in Seq(Nat) /\ 1 + g + n <= Len(b)
  BY AtHand DEF readVarint
<1>2. at \in Nat /\ at < g /\ l + r * s = n /\ l \in Nat /\ walk = "varint"
  BY MetadataAssumption DEF WalkInv, readVarint
<1>3. r \in Nat /\ q \in Nat /\ s \in Nat /\ q = r \div Group /\ Shift[at + 1] = s * Group
  <2>1. at + 1 \in Nat \ {0} /\ (at + 1) - 1 = at
    BY <1>2
  <2>2. /\ Rest(n) \in [Nat -> Nat]
        /\ \A k \in Nat \ {0} : Rest(n)[k] = Rest(n)[k - 1] \div Group
    BY <1>1, RestIs
  <2> QED  BY <1>2, <2>1, <2>2, ShiftIs
<1>4. at + 1 = g <=> q = 0
  <2>1. Rest(n)[g] = 0 /\ \A k \in 1..(g - 1) : Rest(n)[k] # 0
    BY <1>1, GroupsAre DEF Width
  <2> QED  BY <1>1, <1>2, <2>1
<1> DEFINE d == r % Group
<1>5. d \in 0..(Group - 1) /\ r = Group * q + d /\ Group \in Nat \ {0, 1}
  BY <1>3, DividedBy, MetadataAssumption
<1>6. b[1 + at + 1] = d + (IF q = 0 THEN 0 ELSE More)
  <2>1. at + 1 \in 1..g /\ (at + 1) - 1 = at /\ 1 + (at + 1) = 1 + at + 1
    BY <1>1, <1>2
  <2>2. b[1 + (at + 1)] = Varint(n)[at + 1]
    BY <1>1, <2>1 DEF Spelled, Size, Width
  <2>3. Varint(n)[at + 1] = (Rest(n)[(at + 1) - 1] % Group) + (IF Rest(n)[at + 1] = 0 THEN 0 ELSE More)
    BY <2>1 DEF Varint, Width
  <2> QED  BY <2>1, <2>2, <2>3
<1>7. Own(1 + at)
  BY <1>1, <1>2 DEF Own
<1>8. data(1 + at) = d + (IF q = 0 THEN 0 ELSE Group)
  BY <1>6 DEF data, More
<1> HIDE DEF n, g, r, q, s, b, d
<1>9. data(1 + at) % Group = d /\ (data(1 + at) < More <=> q = 0)
  <2>1. d % Group = d /\ (d + Group) % Group = d
    BY <1>5
  <2> QED  BY <1>5, <1>8, <2>1 DEF More
<1>10. (l + d * s) + q * (s * Group) = n
  <2>1. (Group * q + d) * s = q * (s * Group) + d * s
    <3>1. Group \in Nat /\ q \in Nat /\ d \in Nat /\ s \in Nat
      BY <1>3, <1>5
    <3> QED  BY <3>1, Spread
  <2>2. d * s \in Nat /\ q * (s * Group) \in Nat
    BY <1>3, <1>5
  <2>3. r * s = q * (s * Group) + d * s
    BY <1>5, <2>1
  <2> QED  BY <1>2, <2>2, <2>3
<1>11. l' = l + d * s /\ at' = at + 1 /\ walk' = (IF q = 0 THEN "name" ELSE "varint")
       /\ UNCHANGED <<fields, index>> /\ l' \in 0..(Word - 1)
  <2>1. l' = (l + d * s) % Word /\ at' = at + 1 /\ walk' = (IF q = 0 THEN "name" ELSE "varint")
        /\ UNCHANGED <<fields, index>>
    BY <1>7, <1>9 DEF readVarint, s
  <2> DEFINE x == l + d * s
             y == q * (s * Group)
  <2>2. x \in Nat /\ y \in Nat
    BY <1>2, <1>3, <1>5
  <2>3. x + y = n
    BY <1>10
  <2> HIDE DEF x, y
  <2>4. x < Word /\ Word \in Nat
    BY <1>1, <2>2, <2>3, MetadataAssumption
  <2>5. x % Word = x
    BY <2>2, <2>4
  <2> QED  BY <2>1, <2>2, <2>4, <2>5 DEF x
<1>12. n = Size' /\ g = Width'
  BY <1>11 DEF n, g, Size, Width
<1>13. CASE q = 0
  <2>1. walk' = "name" /\ at' = g /\ l' = n
    <3>1. q * (s * Group) = 0 /\ d * s \in Nat
      BY <1>3, <1>5, <1>13
    <3> QED  BY <1>1, <1>2, <1>4, <1>10, <1>11, <1>13, <3>1
  <2> QED  BY <1>1, <1>2, <1>11, <1>12, <2>1 DEF WalkInv
<1>14. CASE q # 0
  <2>1. walk' = "varint" /\ at' < g /\ at' \in Nat
    BY <1>1, <1>2, <1>4, <1>11, <1>14
  <2>2. l' + Rest(n)[at'] * Shift[at'] = n
    BY <1>3, <1>10, <1>11 DEF q
  <2> QED  BY <1>1, <1>2, <1>11, <1>12, <2>1, <2>2 DEF WalkInv
<1> QED  BY <1>13, <1>14

LEMMA nameStep == WalkInv /\ name => WalkInv'
<1> SUFFICES ASSUME WalkInv, name  PROVE WalkInv'
  OBVIOUS
<1> DEFINE n == Size
           g == Width
           f == fields[index]
           b == fields[index].bytes
<1>1. /\ fields \in Seq(FieldOf) /\ index \in DOMAIN fields /\ Spelled(f) /\ f \in FieldOf
      /\ f.text \in Seq(Nat)
      /\ n \in Nat /\ g \in 1..(n + 1) /\ b \in Seq(Nat) /\ 1 + g + n <= Len(b)
  BY AtHand DEF name
<1>2. at = g /\ l = n /\ walk = "name"
  BY DEF WalkInv, name
<1>3. l > 0 => Own(at + l)
  BY <1>1, <1>2 DEF Own
<1>4. [k \in 1..l |-> data(at + k)] = f.text
  <2>1. \A k \in 1..n : b[g + k + 1] = f.text[k]
    <3>1. \A k \in 1..n : b[1 + g + k] = f.text[k]
      BY <1>1 DEF Spelled, Size, Width
    <3>2. \A k \in 1..n : 1 + g + k = g + k + 1
      BY <1>1
    <3> QED  BY <3>1, <3>2
  <2>2. f.text = [k \in 1..n |-> f.text[k]]
    BY <1>1 DEF Size
  <2> QED  BY <1>2, <2>1, <2>2 DEF data
<1>5. /\ walk' = "range" /\ UNCHANGED <<index, at, l>>
      /\ fields' = IF f.text = Person THEN [fields EXCEPT ![index].typ = "self"] ELSE fields
  BY <1>3, <1>4 DEF name
<1>6. \A k \in DOMAIN fields : fields[k] \in FieldOf
  BY <1>1
<1>7. /\ DOMAIN fields' = DOMAIN fields /\ Len(fields') = Len(fields) /\ fields' \in Seq(FieldOf)
      /\ \A k \in DOMAIN fields : fields'[k].text = fields[k].text /\ fields'[k].bytes = fields[k].bytes
      /\ \A k \in DOMAIN fields : fields'[k].typ =
           IF k = index /\ fields[k].text = Person THEN "self" ELSE fields[k].typ
  <2>1. CASE f.text = Person
    <3> DEFINE h == [f EXCEPT !.typ = "self"]
    <3>1. fields' = [fields EXCEPT ![index] = h]
      BY <1>5, <2>1
    <3>2. h \in FieldOf /\ h.text = f.text /\ h.bytes = f.bytes /\ h.typ = "self"
      BY <1>1 DEF FieldOf
    <3> HIDE DEF h
    <3>3. index \in 1..Len(fields) /\ DOMAIN fields = 1..Len(fields)
      BY <1>1
    <3>4. /\ fields' \in Seq(FieldOf) /\ Len(fields') = Len(fields)
          /\ \A k \in 1..Len(fields) : fields'[k] = IF k = index THEN h ELSE fields[k]
      BY <1>1, <3>1, <3>2, <3>3, ExceptSeq
    <3>5. DOMAIN fields' = DOMAIN fields
      BY <3>3, <3>4
    <3>6. \A k \in DOMAIN fields : fields'[k] = IF k = index THEN h ELSE fields[k]
      BY <3>3, <3>4
    <3> QED  BY <2>1, <3>2, <3>4, <3>5, <3>6
  <2>2. CASE f.text # Person
    BY <1>1, <1>5, <2>2
  <2> QED  BY <2>1, <2>2
<1>8. \A k \in DOMAIN fields : Spelled(fields'[k])
  <2>1. \A x, y : x.text = y.text /\ x.bytes = y.bytes /\ Spelled(y) => Spelled(x)
    BY DEF Spelled
  <2> QED  BY <1>7, <2>1 DEF WalkInv
<1>9. \A k \in DOMAIN fields : fields'[k].typ = "self" <=>
        /\ fields[k].text = Person
        /\ k < index \/ k = index
  <2> TAKE k \in DOMAIN fields
  <2>1. fields[k].typ = "self" <=>
          fields[k].text = Person /\ (k < index \/ (k = index /\ walk \notin {"varint", "name"}))
    BY DEF WalkInv
  <2>2. fields'[k].typ = IF k = index /\ fields[k].text = Person THEN "self" ELSE fields[k].typ
    BY <1>7
  <2>3. fields[k].typ = "self" <=> fields[k].text = Person /\ k < index
    BY <1>2, <2>1
  <2>4. CASE k = index /\ fields[k].text = Person
    BY <2>2, <2>4
  <2>5. CASE ~(k = index /\ fields[k].text = Person)
    <3>1. fields'[k].typ = fields[k].typ
      BY <2>2, <2>5
    <3> QED  BY <2>3, <2>5, <3>1
  <2> QED  BY <2>4, <2>5
<1>10. \E k \in DOMAIN fields : fields[k].text = Person
  BY <1>2 DEF WalkInv
<1>11. index' \in 0..Len(fields') /\ at' \in Nat /\ l' \in 0..(Word - 1)
  BY <1>5, <1>7 DEF WalkInv
<1> QED  BY <1>5, <1>7, <1>8, <1>9, <1>10, <1>11 DEF WalkInv

LEMMA SetStep == WalkInv /\ Set => WalkInv'
<1> SUFFICES ASSUME WalkInv, Set  PROVE WalkInv'
  OBVIOUS
<1>1. walk = "set" /\ index = Len(fields) /\ DOMAIN fields = 1..Len(fields) /\ Len(fields) \in Nat
  BY DEF WalkInv, Set
<1>2. PICK k \in DOMAIN fields : fields[k].text = Person
  BY <1>1 DEF WalkInv
<1>3. fields[k].typ = "self"
  BY <1>1, <1>2 DEF WalkInv
<1>4. walk' = "marshal" /\ UNCHANGED <<fields, index, at, l>>
  BY <1>2, <1>3 DEF Set
<1> QED  BY <1>1, <1>2, <1>4 DEF WalkInv

LEMMA WalkInductive == WalkInv /\ [WalkNext]_walkVars => WalkInv'
<1>1. CASE UNCHANGED walkVars
  BY <1>1 DEF walkVars, WalkInv, Size, Width
<1> QED
  BY <1>1, StructOfStep, NextFieldStep, readVarintStep, nameStep, SetStep DEF WalkNext

LEMMA WalkIsTyped == WalkInv => WalkTypeOK
<1> SUFFICES ASSUME WalkInv  PROVE WalkTypeOK
  OBVIOUS
<1>1. \A k \in DOMAIN fields : fields[k] \in FieldOf
  BY DEF WalkInv
<1> QED  BY <1>1 DEF WalkInv, WalkTypeOK, FieldOf

\* Whatever names the two fields have, and however many bytes the varint of a
\* length takes, the walk reads inside the bytes of each name, finds the whole of
\* it, and gives "Person" and no other field the new type.
THEOREM WalkFindsPerson == WalkSpec => []PersonRefersToItself
<1>1. WalkInv => PersonRefersToItself
  BY DEF WalkInv, PersonRefersToItself
<1> QED  BY <1>1, WalkInitial, WalkInductive, PTL DEF WalkSpec

-----------------------------------------------------------------------------
(* Strings and slices.                                                     *)

Vars == Strings \cup Slices

\* h lies in memory that has been allocated.
Lies(h) == h.block <= used /\ h.off + h.len <= Len(memory[h.block])

\* h shows cell k of its block; a slice h can come to show it.
Shows(h, k) == h.off < k /\ k <= h.off + h.len
Reaches(h, k) == h.off < k /\ k <= h.off + h.cap

\* A cell that a string shows and a slice reaches has been passed on by a
\* conversion, and so has every cell of the literal that a slice reaches.
MixInv ==
  \A b \in Slices, k \in Nat : Reaches(ref[b], k) =>
    /\ ref[b].block = 1 => <<1, k>> \in mixed
    /\ \A s \in Strings :
         ref[s].block = ref[b].block /\ Shows(ref[s], k) => <<ref[b].block, k>> \in mixed

SharedInv == SharedTypeOK /\ MixInv

-----------------------------------------------------------------------------
(* What a text is, and what a write leaves.                                *)

\* A function on 1..n is a text of length n.
LEMMA FunctionIsText ==
  \A n \in Nat : \A f \in [1..n -> Bytes] : f \in Seq(Bytes) /\ Len(f) = n
OBVIOUS

LEMMA JoinedText ==
  \A f, g \in Seq(Bytes) : f \o g \in Seq(Bytes) /\ Len(f \o g) = Len(f) + Len(g)
OBVIOUS

\* What a reference shows is a text of its length.
LEMMA TextIs ==
  ASSUME memory \in [Blocks -> Seq(Bytes)], NEW h \in Refs, h.off + h.len <= Len(memory[h.block])
  PROVE  /\ Text(h) \in Seq(Bytes) /\ Len(Text(h)) = h.len
         /\ \A k \in 1..h.len : Text(h)[k] = memory[h.block][h.off + k]
<1>1. h.block \in Blocks /\ h.off \in Nat /\ h.len \in Nat
  BY DEF Refs
<1>2. memory[h.block] \in Seq(Bytes)
  BY <1>1
<1>3. \A k \in 1..h.len : h.off + k \in 1..Len(memory[h.block])
  BY <1>1, <1>2
<1>4. \A k \in 1..h.len : memory[h.block][h.off + k] \in Bytes
  BY <1>2, <1>3
<1>5. Text(h) \in [1..h.len -> Bytes]
  BY <1>4 DEF Text
<1>6. \A k \in 1..h.len : Text(h)[k] = memory[h.block][h.off + k]
  BY DEF Text
<1> QED  BY <1>1, <1>5, <1>6, FunctionIsText

\* Capitals are bytes too.
LEMMA UpperTextIs ==
  ASSUME SharedTypeOK, NEW s \in Strings
  PROVE  UpperText(s) \in Seq(Bytes) /\ Len(UpperText(s)) = ref[s].len
<1>1. ref[s] \in Refs /\ ref[s].off + ref[s].len <= Len(memory[ref[s].block])
  BY DEF SharedTypeOK
<1>2. Text(ref[s]) \in Seq(Bytes) /\ Len(Text(ref[s])) = ref[s].len /\ ref[s].len \in Nat
  BY <1>1, TextIs DEF SharedTypeOK, Refs
<1>3. \A k \in 1..ref[s].len : Text(ref[s])[k] \in Bytes
  BY <1>2
<1>4. \A b \in Bytes : Upper(b) \in Bytes
  BY SharedAssumption DEF Upper
<1>5. \A k \in 1..ref[s].len : Upper(Text(ref[s])[k]) \in Bytes
  BY <1>3, <1>4
<1> QED  BY <1>2, <1>5 DEF UpperText

\* A write leaves every block as long as it was, and changes bytes of its own
\* block only, within the range written.
LEMMA OverwriteIs ==
  ASSUME memory \in [Blocks -> Seq(Bytes)], NEW h \in Refs, NEW from \in Nat,
         NEW text \in Seq(Bytes), Overwrite(h, from, text)
  PROVE  /\ memory' \in [Blocks -> Seq(Bytes)]
         /\ \A a \in Blocks : Len(memory'[a]) = Len(memory[a])
         /\ \A a \in Blocks : a # h.block => memory'[a] = memory[a]
         /\ \A k \in 1..Len(memory[h.block]) :
              memory'[h.block][k] = memory[h.block][k]
                \/ (h.off + from < k /\ k <= h.off + from + Len(text))
<1> DEFINE old == memory[h.block]
           new == [k \in DOMAIN old |->
                     IF k - h.off - from \in DOMAIN text THEN text[k - h.off - from] ELSE old[k]]
<1>1. h.block \in Blocks /\ h.off \in Nat /\ old \in Seq(Bytes)
  BY DEF Refs
<1>2. memory' = [memory EXCEPT ![h.block] = new]
  BY DEF Overwrite
<1>3. DOMAIN old = 1..Len(old) /\ DOMAIN text = 1..Len(text) /\ Len(old) \in Nat /\ Len(text) \in Nat
  BY <1>1
<1>4. \A k \in 1..Len(old) : new[k] \in Bytes
  <2> SUFFICES ASSUME NEW k \in 1..Len(old)  PROVE new[k] \in Bytes
    OBVIOUS
  <2>1. CASE k - h.off - from \in DOMAIN text
    BY <2>1, <1>3
  <2>2. CASE k - h.off - from \notin DOMAIN text
    BY <2>2, <1>1, <1>3
  <2> QED  BY <2>1, <2>2
<1>5. new \in Seq(Bytes) /\ Len(new) = Len(old)
  <2> DEFINE n == Len(old)
  <2>1. new \in [1..n -> Bytes] /\ n \in Nat
    BY <1>3, <1>4
  <2> HIDE DEF new, n
  <2>2. new \in Seq(Bytes) /\ Len(new) = n
    BY <2>1, FunctionIsText
  <2> QED  BY <2>2 DEF n
<1>6. \A k \in 1..Len(old) : new[k] = old[k] \/ k - h.off - from \in 1..Len(text)
  BY <1>3
<1> HIDE DEF new
<1> QED  BY <1>1, <1>2, <1>3, <1>5, <1>6

-----------------------------------------------------------------------------
(* The kinds of step: a variable is given a reference, new memory, or      *)
(* nothing happens, or bytes are overwritten.                              *)

LEMMA SharedInitial == SharedInit => SharedInv
<1> SUFFICES ASSUME SharedInit  PROVE SharedInv
  OBVIOUS
<1> USE SharedAssumption DEF SharedInit, Blocks
<1>1. memory \in [Blocks -> Seq(Bytes)] /\ Len(memory[1]) \in Nat
  OBVIOUS
<1>2. ref \in [Vars -> Refs]
  BY DEF Vars, Refs
<1>3. \A x \in Vars : ref[x] = [block |-> 1, off |-> 0, len |-> 0, cap |-> 0]
  BY DEF Vars
<1>4. SharedTypeOK
  BY <1>1, <1>2, <1>3 DEF SharedTypeOK, Vars
<1>5. MixInv
  BY <1>3 DEF MixInv, Vars, Reaches
<1> QED  BY <1>4, <1>5 DEF SharedInv

LEMMA SetKeeps ==
  ASSUME SharedInv, NEW x \in Vars, NEW h \in Refs, Lies(h), Refer(x, h),
         fate' \in {"running", "panic", "fault"}, UNCHANGED used, mixed \subseteq mixed',
         memory' \in [Blocks -> Seq(Bytes)], \A a \in Blocks : Len(memory'[a]) = Len(memory[a]),
         x \in Slices => h.len <= h.cap /\ h.off + h.cap <= Len(memory[h.block]),
         x \in Strings => \A b \in Slices, k \in Nat :
           ref[b].block = h.block /\ Shows(h, k) /\ Reaches(ref[b], k) => <<h.block, k>> \in mixed',
         x \in Slices => \A k \in Nat : Reaches(h, k) =>
           /\ h.block = 1 => <<1, k>> \in mixed'
           /\ \A s \in Strings :
                ref[s].block = h.block /\ Shows(ref[s], k) => <<h.block, k>> \in mixed'
  PROVE  SharedInv'
<1> USE DEF SharedInv, Vars
<1>1. ref \in [Vars -> Refs] /\ ref' = [ref EXCEPT ![x] = h]
  BY DEF Refer, SharedTypeOK
<1>2. ref' \in [Vars -> Refs] /\ ref'[x] = h /\ \A y \in Vars : y # x => ref'[y] = ref[y]
  BY <1>1
<1>3. SharedTypeOK'
  <2>1. \A y \in Vars : ref[y].block \in Blocks
    BY DEF SharedTypeOK, Refs
  <2>2. \A y \in Vars : Len(memory'[ref[y].block]) = Len(memory[ref[y].block])
    BY <2>1
  <2>3. h.block \in Blocks /\ Len(memory'[h.block]) = Len(memory[h.block])
    BY DEF Refs
  <2> QED  BY <1>2, <2>2, <2>3 DEF SharedTypeOK, Lies
<1>4. MixInv'
  <2> SUFFICES ASSUME NEW b \in Slices, NEW k \in Nat, Reaches(ref[b], k)'
               PROVE  /\ ref'[b].block = 1 => <<1, k>> \in mixed'
                      /\ \A s \in Strings : ref'[s].block = ref'[b].block /\ Shows(ref[s], k)'
                           => <<ref'[b].block, k>> \in mixed'
    BY DEF MixInv
  <2>1. CASE x \in Slices
    <3>1. \A s \in Strings : ref'[s] = ref[s]
      BY <2>1, <1>2, SharedAssumption
    <3>2. CASE x = b
      BY <3>1, <3>2, <2>1, <1>2 DEF Reaches, Shows
    <3>3. CASE x # b
      BY <3>1, <3>3, <1>2 DEF Reaches, Shows, MixInv
    <3> QED  BY <3>2, <3>3
  <2>2. CASE x \in Strings
    <3>1. ref'[b] = ref[b]
      BY <2>2, <1>2, SharedAssumption
    <3>2. ref'[b].block = 1 => <<1, k>> \in mixed'
      BY <3>1 DEF Reaches, MixInv
    <3>3. ASSUME NEW s \in Strings, ref'[s].block = ref'[b].block, Shows(ref[s], k)'
          PROVE  <<ref'[b].block, k>> \in mixed'
      <4>1. CASE s = x
        BY <4>1, <3>1, <3>3, <2>2, <1>2 DEF Reaches, Shows
      <4>2. CASE s # x
        BY <4>2, <3>1, <3>3, <1>2 DEF Reaches, Shows, MixInv
      <4> QED  BY <4>1, <4>2
    <3> QED  BY <3>2, <3>3
  <2> QED  BY <2>1, <2>2
<1> QED  BY <1>3, <1>4

LEMMA AllocateKeeps ==
  ASSUME SharedInv, NEW x \in Vars, NEW content \in Seq(Bytes), NEW len \in Nat,
         len <= Len(content), Allocate(x, content, len)
  PROVE  SharedInv' /\ \A a \in Blocks : a <= used => memory'[a] = memory[a]
<1> DEFINE h == [block |-> used + 1, off |-> 0, len |-> len,
                 cap |-> IF x \in Slices THEN Len(content) ELSE 0]
<1> USE DEF SharedInv, Vars
<1>1. /\ used < MaxBlocks /\ used' = used + 1 /\ memory' = [memory EXCEPT ![used + 1] = content]
      /\ ref' = [ref EXCEPT ![x] = h] /\ UNCHANGED <<fate, mixed>>
  BY DEF Allocate, Refer
<1>2. used \in Blocks /\ used + 1 \in Blocks /\ Len(content) \in Nat /\ MaxBlocks \in Nat
  BY <1>1, SharedAssumption DEF SharedTypeOK, Blocks
<1>3. h \in Refs /\ h.block = used + 1 /\ h.off = 0 /\ h.len = len /\ (x \in Slices => h.cap = Len(content))
  BY <1>2 DEF Refs
<1> HIDE DEF h
<1>4. ref' \in [Vars -> Refs] /\ ref'[x] = h /\ \A y \in Vars : y # x => ref'[y] = ref[y]
  BY <1>1, <1>3 DEF SharedTypeOK
<1>5. /\ memory' \in [Blocks -> Seq(Bytes)] /\ memory'[used + 1] = content
      /\ \A a \in Blocks : a <= used => memory'[a] = memory[a]
  BY <1>1, <1>2 DEF SharedTypeOK, Blocks
<1>6. \A y \in Vars : ref[y].block \in Blocks /\ ref[y].block <= used /\ ref[y].block # used + 1
  BY <1>2 DEF SharedTypeOK, Refs, Blocks
<1>7. SharedTypeOK'
  <2>1. ASSUME NEW y \in Vars
        PROVE  /\ ref'[y].block <= used'
               /\ ref'[y].off + ref'[y].len <= Len(memory'[ref'[y].block])
               /\ y \in Slices => /\ ref'[y].len <= ref'[y].cap
                                  /\ ref'[y].off + ref'[y].cap <= Len(memory'[ref'[y].block])
    <3>1. CASE y = x
      <4>1. ref'[y] = h
        BY <3>1, <1>4
      <4>2. memory'[h.block] = content
        BY <1>3, <1>5
      <4>3. used' = used + 1
        BY <1>1
      <4>4. /\ h.block <= used' /\ h.off + h.len <= Len(content)
            /\ x \in Slices => h.len <= h.cap /\ h.off + h.cap <= Len(content)
        BY ONLY <4>3, <1>2, <1>3, len \in Nat, len <= Len(content) DEF Blocks
      <4> QED  BY ONLY <3>1, <4>1, <4>2, <4>4
    <3>2. CASE y # x
      <4>1. ref'[y] = ref[y] /\ memory'[ref[y].block] = memory[ref[y].block]
        BY <3>2, <1>4, <1>5, <1>6
      <4>2. ref[y].block <= used'
        BY <1>1, <1>2, <1>6 DEF Blocks
      <4> QED  BY <4>1, <4>2 DEF SharedTypeOK
    <3> QED  BY <3>1, <3>2
  <2> QED  BY <2>1, <1>1, <1>2, <1>4, <1>5 DEF SharedTypeOK
<1>8. MixInv'
  <2> SUFFICES ASSUME NEW b \in Slices, NEW k \in Nat, Reaches(ref[b], k)'
               PROVE  /\ ref'[b].block = 1 => <<1, k>> \in mixed'
                      /\ \A s \in Strings : ref'[s].block = ref'[b].block /\ Shows(ref[s], k)'
                           => <<ref'[b].block, k>> \in mixed'
    BY DEF MixInv
  <2>1. CASE b = x
    <3>1. ref'[b].block = used + 1 /\ used + 1 # 1
      BY <2>1, <1>2, <1>3, <1>4 DEF Blocks
    <3>2. \A s \in Strings : ref'[s] = ref[s]
      BY <2>1, <1>4, SharedAssumption
    <3> QED  BY <3>1, <3>2, <1>6
  <2>2. CASE b # x
    <3>1. ref'[b] = ref[b]
      BY <2>2, <1>4
    <3>2. \A s \in Strings : ref'[s].block = ref'[b].block => ref'[s] = ref[s]
      BY <3>1, <1>3, <1>4, <1>6
    <3> QED  BY <3>1, <3>2, <1>1 DEF MixInv, Reaches, Shows
  <2> QED  BY <2>1, <2>2
<1> QED  BY <1>5, <1>7, <1>8

-----------------------------------------------------------------------------
(* What a step does to the strings that are not assigned.                  *)

KeepsStrings ==
  /\ memory'[1] = memory[1]
  /\ \A s \in Strings : ref'[s] = ref[s] =>
       \A k \in 1..ref[s].len :
         \/ Text(ref[s])[k]' = Text(ref[s])[k]
         \/ <<ref[s].block, ref[s].off + k>> \in mixed

\* Enough that the blocks in use keep their bytes.
LEMMA KeptBlocks ==
  ASSUME SharedTypeOK, \A a \in Blocks : a <= used => memory'[a] = memory[a]
  PROVE  KeepsStrings
<1>1. 1 \in Blocks /\ 1 <= used
  BY SharedAssumption DEF SharedTypeOK, Blocks
<1>2. ASSUME NEW s \in Strings, ref'[s] = ref[s]  PROVE Text(ref[s])' = Text(ref[s])
  <2>1. ref[s].block \in Blocks /\ ref[s].block <= used
    BY DEF SharedTypeOK, Refs
  <2> QED  BY <2>1, <1>2 DEF Text
<1> QED  BY <1>1, <1>2 DEF KeepsStrings

LEMMA WithinIs ==
  ASSUME NEW o \in Nat, NEW c \in Nat, NEW n \in Nat, NEW k \in 1..c, o + c <= n
  PROVE  o + k \in 1..n /\ o + k \in Nat /\ o < o + k /\ o + k <= o + c
OBVIOUS

\* A slice writes within its capacity, and what a string shows there is mixed.
LEMMA OverwriteKeeps ==
  ASSUME SharedInv, NEW b \in Slices, ref[b].block # 1, NEW from \in Nat, NEW text \in Seq(Bytes),
         from + Len(text) <= ref[b].cap, Overwrite(ref[b], from, text)
  PROVE  KeepsStrings
<1> DEFINE h == ref[b]
<1>1. h \in Refs /\ h.block \in Blocks /\ h.off \in Nat /\ h.cap \in Nat
      /\ Len(text) \in Nat /\ from + Len(text) <= h.cap
  BY DEF SharedInv, SharedTypeOK, Refs
<1>2. /\ \A a \in Blocks : a # h.block => memory'[a] = memory[a]
      /\ \A k \in 1..Len(memory[h.block]) :
           memory'[h.block][k] = memory[h.block][k]
             \/ (h.off + from < k /\ k <= h.off + from + Len(text))
  BY <1>1, OverwriteIs DEF SharedInv, SharedTypeOK
<1>3. memory'[1] = memory[1]
  BY <1>2, SharedAssumption DEF Blocks
<1>4. ASSUME NEW s \in Strings, ref'[s] = ref[s], NEW k \in 1..ref[s].len
      PROVE  Text(ref[s])[k]' = Text(ref[s])[k] \/ <<ref[s].block, ref[s].off + k>> \in mixed
  <2> DEFINE j == ref[s].off + k
  <2>1. /\ ref[s] \in Refs /\ ref[s].block \in Blocks /\ ref[s].off \in Nat /\ ref[s].len \in Nat
        /\ ref[s].off + ref[s].len <= Len(memory[ref[s].block])
        /\ Len(memory[ref[s].block]) \in Nat
    BY DEF SharedInv, SharedTypeOK, Refs
  <2>2. j \in 1..Len(memory[ref[s].block]) /\ j \in Nat /\ Shows(ref[s], j)
    BY <2>1, <1>4, WithinIs DEF Shows
  <2>3. Text(ref[s])[k] = memory[ref[s].block][j] /\ Text(ref[s])[k]' = memory'[ref[s].block][j]
    BY <1>4 DEF Text
  <2>4. CASE memory'[ref[s].block][j] = memory[ref[s].block][j]
    BY <2>3, <2>4
  <2>5. CASE memory'[ref[s].block][j] # memory[ref[s].block][j]
    <3>1. ref[s].block = h.block
      BY <2>1, <2>5, <1>2
    <3>2. h.off + from < j /\ j <= h.off + from + Len(text)
      BY <3>1, <2>2, <2>5, <1>2
    <3>3. Reaches(h, j)
      <4> HIDE DEF h, j
      <4> QED  BY <3>2, <2>2, <1>1 DEF Reaches
    <3> QED  BY <3>1, <3>3, <2>2 DEF SharedInv, MixInv
  <2> QED  BY <2>4, <2>5
<1> QED  BY <1>3, <1>4 DEF KeepsStrings

\* A step that changes nothing but the history or what has become of the program.
LEMMA StopKeeps ==
  ASSUME SharedInv, fate' \in {"running", "panic", "fault"}, UNCHANGED <<memory, used, ref, mixed>>
  PROVE  SharedInv' /\ KeepsStrings
<1>1. SharedInv'
  BY DEF SharedInv, SharedTypeOK, MixInv, Reaches, Shows
<1> QED  BY <1>1, KeptBlocks DEF SharedInv

\* What holds of every reference.
LEMMA RefIs ==
  ASSUME SharedInv, NEW x \in Vars
  PROVE  /\ ref[x] \in Refs /\ Lies(ref[x]) /\ ref[x].block \in Blocks
         /\ ref[x].off \in Nat /\ ref[x].len \in Nat /\ ref[x].cap \in Nat
         /\ Len(memory[ref[x].block]) \in Nat
         /\ Text(ref[x]) \in Seq(Bytes) /\ Len(Text(ref[x])) = ref[x].len
<1>1. ref[x] \in Refs /\ Lies(ref[x])
  BY DEF SharedInv, SharedTypeOK, Lies, Vars
<1>2. memory \in [Blocks -> Seq(Bytes)]
  BY DEF SharedInv, SharedTypeOK
<1> QED  BY <1>1, <1>2, TextIs DEF Refs, Lies

\* A new text for x, all of it shown.
LEMMA AllocateAll ==
  ASSUME SharedInv, NEW x \in Vars, NEW content \in Seq(Bytes), Allocate(x, content, Len(content))
  PROVE  SharedInv' /\ KeepsStrings
<1>1. Len(content) \in Nat
  OBVIOUS
<1>2. SharedInv' /\ \A a \in Blocks : a <= used => memory'[a] = memory[a]
  BY <1>1, AllocateKeeps
<1> QED  BY <1>2, KeptBlocks DEF SharedInv

\* A variable is given another reference into the same memory.
LEMMA SetOnly ==
  ASSUME SharedInv, NEW x \in Vars, NEW h \in Refs, Lies(h), Refer(x, h),
         UNCHANGED <<fate, memory, used>>, mixed \subseteq mixed',
         x \in Slices => h.len <= h.cap /\ h.off + h.cap <= Len(memory[h.block]),
         x \in Strings => \A b \in Slices, k \in Nat :
           ref[b].block = h.block /\ Shows(h, k) /\ Reaches(ref[b], k) => <<h.block, k>> \in mixed',
         x \in Slices => \A k \in Nat : Reaches(h, k) =>
           /\ h.block = 1 => <<1, k>> \in mixed'
           /\ \A s \in Strings :
                ref[s].block = h.block /\ Shows(ref[s], k) => <<h.block, k>> \in mixed'
  PROVE  SharedInv' /\ KeepsStrings
<1>1. /\ fate' \in {"running", "panic", "fault"} /\ memory' \in [Blocks -> Seq(Bytes)]
      /\ \A a \in Blocks : Len(memory'[a]) = Len(memory[a])
  BY DEF SharedInv, SharedTypeOK
<1>2. SharedInv'
  BY <1>1, SetKeeps
<1>3. \A a \in Blocks : a <= used => memory'[a] = memory[a]
  OBVIOUS
<1> QED  BY <1>2, <1>3, KeptBlocks DEF SharedInv

LEMMA AssignKeeps ==
  ASSUME SharedInv, NEW s \in Strings, NEW t \in Strings, Assign(s, t)
  PROVE  SharedInv' /\ KeepsStrings
<1>1. s \in Vars /\ t \in Vars /\ s \notin Slices
  BY SharedAssumption DEF Vars
<1>2. \A b \in Slices, k \in Nat :
        ref[b].block = ref[t].block /\ Shows(ref[t], k) /\ Reaches(ref[b], k)
          => <<ref[t].block, k>> \in mixed
  BY DEF SharedInv, MixInv
<1> QED  BY <1>1, <1>2, RefIs, SetOnly DEF Assign

LEMMA CellsAre ==
  ASSUME NEW h, NEW k \in Nat, h.off \in Nat, h.len \in Nat, Shows(h, k)
  PROVE  <<h.block, k>> \in Cells(h)
BY DEF Cells, Shows

LEMMA ConversionKeeps ==
  ASSUME SharedInv, NEW s \in Strings, NEW b \in Slices, String2Bytes(s, b) \/ Bytes2String(b, s)
  PROVE  SharedInv' /\ KeepsStrings
<1>1. s \in Vars /\ b \in Vars /\ s \notin Slices /\ b \notin Strings
  BY SharedAssumption DEF Vars
<1>2. CASE String2Bytes(s, b)
  <2> DEFINE h == [ref[s] EXCEPT !.cap = ref[s].len]
  <2>1. /\ Refer(b, h) /\ mixed' = mixed \cup Cells(h) /\ UNCHANGED <<fate, memory, used>>
    BY <1>2 DEF String2Bytes
  <2>2. /\ h \in Refs /\ h.block = ref[s].block /\ h.off = ref[s].off
        /\ h.len = ref[s].len /\ h.cap = ref[s].len
    BY <1>1, RefIs DEF Refs
  <2> HIDE DEF h
  <2>3. Lies(h) /\ h.len <= h.cap /\ h.off + h.cap <= Len(memory[h.block])
    BY <2>2, <1>1, RefIs DEF Lies
  <2>4. ASSUME NEW k \in Nat, Reaches(h, k)  PROVE <<h.block, k>> \in mixed'
    <3>1. Shows(h, k)
      BY <2>2, <2>4 DEF Shows, Reaches
    <3> QED  BY <3>1, <2>1, <2>2, <1>1, RefIs, CellsAre
  <2> QED  BY <2>1, <2>2, <2>3, <2>4, <1>1, SetOnly
<1>3. CASE Bytes2String(b, s)
  <2> DEFINE h == [ref[b] EXCEPT !.cap = 0]
  <2>1. /\ Refer(s, h) /\ mixed' = mixed \cup Cells(h) /\ UNCHANGED <<fate, memory, used>>
    BY <1>3 DEF Bytes2String
  <2>2. /\ h \in Refs /\ h.block = ref[b].block /\ h.off = ref[b].off /\ h.len = ref[b].len
    BY <1>1, RefIs DEF Refs
  <2> HIDE DEF h
  <2>3. Lies(h)
    BY <2>2, <1>1, RefIs DEF Lies
  <2>4. ASSUME NEW k \in Nat, Shows(h, k)  PROVE <<h.block, k>> \in mixed'
    BY <2>1, <2>2, <2>4, <1>1, RefIs, CellsAre
  <2> QED  BY <2>1, <2>2, <2>3, <2>4, <1>1, SetOnly
<1> QED  BY <1>2, <1>3

\* The cells from i to k of c cells, the first behind o: they lie among these.
LEMMA CutIs ==
  ASSUME NEW o \in Nat, NEW c \in Nat, NEW n \in Nat, NEW i \in Nat, NEW j \in Nat, NEW k \in Nat,
         i <= j, j <= k, k <= c, o + c <= n
  PROVE  /\ o + i \in Nat /\ j - i \in Nat /\ k - i \in Nat /\ j - i <= k - i
         /\ (o + i) + (k - i) <= n /\ (o + i) + (j - i) <= n
         /\ \A m \in Nat : o + i < m /\ m <= (o + i) + (k - i) => o < m /\ m <= o + c
OBVIOUS

LEMMA SubstringKeeps ==
  ASSUME SharedInv, NEW s \in Strings, NEW t \in Strings, NEW i \in Nat, NEW j \in Nat,
         Substring(s, t, i, j)
  PROVE  SharedInv' /\ KeepsStrings
<1>1. s \in Vars /\ t \in Vars /\ t \notin Slices
  BY SharedAssumption DEF Vars
<1>2. CASE i <= j /\ j <= ref[s].len
  <2> DEFINE h == [ref[s] EXCEPT !.off = @ + i, !.len = j - i]
  <2>1. Refer(t, h) /\ UNCHANGED <<fate, memory, used, mixed>>
    BY <1>2 DEF Substring
  <2>2. h \in Refs /\ h.block = ref[s].block /\ h.off = ref[s].off + i /\ h.len = j - i
    <3> DEFINE off == ref[s].off + i
               len == j - i
    <3>1. off \in Nat /\ len \in Nat /\ ref[s] \in Refs
      BY <1>1, <1>2, RefIs
    <3>2. h = [ref[s] EXCEPT !.off = off, !.len = len]
      BY <3>1 DEF Refs
    <3> HIDE DEF off, len, h
    <3>3. h \in Refs /\ h.block = ref[s].block /\ h.off = off /\ h.len = len
      BY <3>1, <3>2 DEF Refs
    <3> QED  BY <3>3 DEF off, len
  <2> HIDE DEF h
  <2>3. Lies(h) /\ \A k \in Nat : Shows(h, k) => Shows(ref[s], k)
    <3> DEFINE o == ref[s].off
               c == ref[s].len
               n == Len(memory[ref[s].block])
    <3>1. o \in Nat /\ c \in Nat /\ n \in Nat /\ o + c <= n /\ ref[s].block <= used
      BY <1>1, RefIs DEF Lies
    <3>2. j <= c /\ i <= j /\ j <= j
      BY <1>2
    <3>3. /\ h.block = ref[s].block /\ h.off = o + i /\ h.len = j - i
          /\ n = Len(memory[h.block])
      BY <2>2
    <3> HIDE DEF o, c, n
    <3>4. /\ (o + i) + (j - i) <= n
          /\ \A m \in Nat : o + i < m /\ m <= (o + i) + (j - i) => o < m /\ m <= o + c
      BY <3>1, <3>2, CutIs
    <3>5. Lies(h)
      BY <3>1, <3>3, <3>4 DEF Lies
    <3> QED  BY <3>3, <3>4, <3>5 DEF Shows, o, c
  <2>4. \A b \in Slices, k \in Nat :
          ref[b].block = h.block /\ Shows(h, k) /\ Reaches(ref[b], k) => <<h.block, k>> \in mixed
    BY <2>2, <2>3 DEF SharedInv, MixInv
  <2> QED  BY <2>1, <2>2, <2>3, <2>4, <1>1, SetOnly
<1>3. CASE ~(i <= j /\ j <= ref[s].len)
  BY <1>3, StopKeeps DEF Substring, Stop
<1> QED  BY <1>2, <1>3

LEMMA ResliceKeeps ==
  ASSUME SharedInv, NEW b \in Slices, NEW c \in Slices, NEW i \in Nat, NEW j \in Nat, NEW k \in Nat,
         Reslice(b, c, i, j, k)
  PROVE  SharedInv' /\ KeepsStrings
<1>1. b \in Vars /\ c \in Vars /\ c \notin Strings
  BY SharedAssumption DEF Vars
<1>2. CASE i <= j /\ j <= k /\ k <= ref[b].cap
  <2> DEFINE h == [ref[b] EXCEPT !.off = @ + i, !.len = j - i, !.cap = k - i]
  <2>1. Refer(c, h) /\ UNCHANGED <<fate, memory, used, mixed>>
    BY <1>2 DEF Reslice
  <2>2. /\ h \in Refs /\ h.block = ref[b].block /\ h.off = ref[b].off + i
        /\ h.len = j - i /\ h.cap = k - i
    <3> DEFINE off == ref[b].off + i
               len == j - i
               cap == k - i
    <3>1. off \in Nat /\ len \in Nat /\ cap \in Nat /\ ref[b] \in Refs
      BY <1>1, <1>2, RefIs
    <3>2. h = [ref[b] EXCEPT !.off = off, !.len = len, !.cap = cap]
      BY <3>1 DEF Refs
    <3> HIDE DEF off, len, cap, h
    <3>3. h \in Refs /\ h.block = ref[b].block /\ h.off = off /\ h.len = len /\ h.cap = cap
      BY <3>1, <3>2 DEF Refs
    <3> QED  BY <3>3 DEF off, len, cap
  <2> HIDE DEF h
  <2>3. ref[b].off + ref[b].cap <= Len(memory[ref[b].block])
    BY DEF SharedInv, SharedTypeOK
  <2>4. /\ Lies(h) /\ h.len <= h.cap /\ h.off + h.cap <= Len(memory[h.block])
        /\ \A n \in Nat : Reaches(h, n) => Reaches(ref[b], n)
    <3> DEFINE o == ref[b].off
               c0 == ref[b].cap
               n == Len(memory[ref[b].block])
    <3>1. o \in Nat /\ c0 \in Nat /\ n \in Nat /\ o + c0 <= n /\ ref[b].block <= used
      BY <2>3, <1>1, RefIs DEF Lies
    <3>2. i <= j /\ j <= k /\ k <= c0
      BY <1>2
    <3>3. /\ h.block = ref[b].block /\ h.off = o + i /\ h.len = j - i /\ h.cap = k - i
          /\ n = Len(memory[h.block])
      BY <2>2
    <3> HIDE DEF o, c0, n
    <3>4. /\ j - i <= k - i /\ (o + i) + (k - i) <= n /\ (o + i) + (j - i) <= n
          /\ \A m \in Nat : o + i < m /\ m <= (o + i) + (k - i) => o < m /\ m <= o + c0
      BY <3>1, <3>2, CutIs
    <3>5. Lies(h)
      BY <3>1, <3>3, <3>4 DEF Lies
    <3>6. h.len <= h.cap /\ h.off + h.cap <= Len(memory[h.block])
      BY <3>3, <3>4
    <3> QED  BY <3>3, <3>4, <3>5, <3>6 DEF Reaches, o, c0
  <2>5. \A n \in Nat : Reaches(h, n) =>
          /\ h.block = 1 => <<1, n>> \in mixed
          /\ \A s \in Strings :
               ref[s].block = h.block /\ Shows(ref[s], n) => <<h.block, n>> \in mixed
    BY <2>2, <2>4 DEF SharedInv, MixInv
  <2> QED  BY <2>1, <2>2, <2>4, <2>5, <1>1, SetOnly
<1>3. CASE ~(i <= j /\ j <= k /\ k <= ref[b].cap)
  BY <1>3, StopKeeps DEF Reslice, Stop
<1> QED  BY <1>2, <1>3

\* What allocates: a copy, a concatenation, capitals, make.
LEMMA CopyKeeps ==
  ASSUME SharedInv, NEW x \in Vars, NEW y \in Vars, Copy(x, y)
  PROVE  SharedInv' /\ KeepsStrings
BY RefIs, AllocateAll DEF Copy

LEMMA ConcatKeeps ==
  ASSUME SharedInv, NEW s \in Strings, NEW t \in Strings, NEW u \in Strings, Concat(s, t, u)
  PROVE  SharedInv' /\ KeepsStrings
<1>1. s \in Vars /\ t \in Vars /\ u \in Vars
  BY DEF Vars
<1>2. CASE ref[t].len = 0
  BY <1>2, AssignKeeps DEF Concat
<1>3. CASE ref[t].len # 0 /\ ref[s].len = 0
  BY <1>3, AssignKeeps DEF Concat
<1>4. CASE ref[t].len # 0 /\ ref[s].len # 0
  <2> DEFINE text == Text(ref[s]) \o Text(ref[t])
  <2>1. Allocate(u, text, ref[s].len + ref[t].len)
    BY <1>4 DEF Concat
  <2>2. text \in Seq(Bytes) /\ Len(text) = ref[s].len + ref[t].len
    <3>1. Text(ref[s]) \in Seq(Bytes) /\ Text(ref[t]) \in Seq(Bytes)
      BY <1>1, RefIs
    <3>2. Len(Text(ref[s])) = ref[s].len /\ Len(Text(ref[t])) = ref[t].len
      BY <1>1, RefIs
    <3> QED  BY <3>1, <3>2, JoinedText
  <2> HIDE DEF text
  <2> QED  BY <2>1, <2>2, <1>1, AllocateAll
<1> QED  BY <1>2, <1>3, <1>4

LEMMA ToUpperKeeps ==
  ASSUME SharedInv, NEW s \in Strings, NEW t \in Strings, ToUpper(s, t)
  PROVE  SharedInv' /\ KeepsStrings
<1>1. CASE UpperText(s) = Text(ref[s])
  BY <1>1, AssignKeeps DEF ToUpper
<1>2. CASE UpperText(s) # Text(ref[s])
  <2>1. Allocate(t, UpperText(s), ref[s].len) /\ t \in Vars
    BY <1>2 DEF ToUpper, Vars
  <2> QED  BY <2>1, UpperTextIs, AllocateAll DEF SharedInv
<1> QED  BY <1>1, <1>2

LEMMA ZerosAre ==
  ASSUME NEW n \in Nat
  PROVE  [k \in 1..n |-> 0] \in Seq(Bytes) /\ Len([k \in 1..n |-> 0]) = n
BY SharedAssumption

LEMMA MakeKeeps ==
  ASSUME SharedInv, NEW b \in Slices, NEW len \in Nat, NEW cap \in Nat, Make(b, len, cap)
  PROVE  SharedInv' /\ KeepsStrings
<1> DEFINE content == [k \in 1..cap |-> 0]
<1>1. len <= cap /\ Allocate(b, content, len) /\ b \in Vars
  BY DEF Make, Vars
<1>2. content \in Seq(Bytes) /\ Len(content) = cap
  BY ZerosAre
<1> HIDE DEF content
<1>3. SharedInv' /\ \A a \in Blocks : a <= used => memory'[a] = memory[a]
  BY <1>1, <1>2, AllocateKeeps
<1> QED  BY <1>3, KeptBlocks DEF SharedInv

\* What overwrites: an assignment to an element, and an append where there is room.
LEMMA WriteKeeps ==
  ASSUME SharedInv, NEW b \in Slices, NEW i \in Nat, NEW v \in Bytes, Write(b, i, v)
  PROVE  SharedInv' /\ KeepsStrings
<1>1. CASE i >= ref[b].len
  BY <1>1, StopKeeps DEF Write, Stop
<1>2. CASE ~(i >= ref[b].len) /\ ref[b].block = 1
  BY <1>2, StopKeeps DEF Write, Stop
<1>3. CASE ~(i >= ref[b].len) /\ ref[b].block # 1
  <2>1. Overwrite(ref[b], i, <<v>>) /\ UNCHANGED <<fate, used, ref, mixed>>
    BY <1>3 DEF Write
  <2>2. b \in Vars /\ <<v>> \in Seq(Bytes) /\ Len(<<v>>) = 1
    BY DEF Vars
  <2>3. ref[b].len <= ref[b].cap /\ i + Len(<<v>>) <= ref[b].cap
    BY <1>3, <2>2, RefIs DEF SharedInv, SharedTypeOK
  <2>4. KeepsStrings
    BY <1>3, <2>1, <2>2, <2>3, OverwriteKeeps
  <2>5. /\ memory' \in [Blocks -> Seq(Bytes)]
        /\ \A a \in Blocks : Len(memory'[a]) = Len(memory[a])
    BY <2>1, <2>2, RefIs, OverwriteIs DEF SharedInv, SharedTypeOK
  <2>6. SharedInv'
    <3>1. SharedTypeOK'
      <4>1. \A x \in Vars : Len(memory'[ref[x].block]) = Len(memory[ref[x].block])
        BY <2>5, RefIs
      <4> QED  BY <4>1, <2>1, <2>5 DEF SharedInv, SharedTypeOK, Vars
    <3>2. MixInv'
      BY <2>1 DEF SharedInv, MixInv, Reaches, Shows
    <3> QED  BY <3>1, <3>2 DEF SharedInv
  <2> QED  BY <2>4, <2>6
<1> QED  BY <1>1, <1>2, <1>3

LEMMA ExtendKeeps ==
  ASSUME SharedInv, NEW b \in Slices, NEW c \in Slices, NEW text \in Seq(Bytes),
         NEW cap \in Nat, Extend(b, c, text, cap)
  PROVE  SharedInv' /\ KeepsStrings
<1> DEFINE len == ref[b].len + Len(text)
<1>1. /\ b \in Vars /\ c \in Vars /\ b \notin Strings /\ c \notin Strings
      /\ Len(text) \in Nat /\ len \in Nat
  BY RefIs, SharedAssumption DEF Vars
<1>2. CASE len > ref[b].cap
  <2> DEFINE zeros == [k \in 1..(cap - len) |-> 0]
             content == Text(ref[b]) \o text \o zeros
  <2>1. len <= cap /\ Allocate(c, content, len)
    BY <1>2 DEF Extend
  <2>2. cap - len \in Nat
    BY <2>1, <1>1
  <2>3. zeros \in Seq(Bytes) /\ Len(zeros) = cap - len
    BY <2>2, ZerosAre
  <2> HIDE DEF zeros
  <2>4. content \in Seq(Bytes) /\ Len(content) = len + (cap - len)
    <3>1. Text(ref[b]) \in Seq(Bytes) /\ Len(Text(ref[b])) = ref[b].len
      BY <1>1, RefIs
    <3>2. Text(ref[b]) \o text \in Seq(Bytes) /\ Len(Text(ref[b]) \o text) = len
      BY <3>1, JoinedText
    <3> QED  BY <3>2, <2>3, JoinedText
  <2>5. len <= Len(content)
    BY <2>1, <2>4, <1>1
  <2> HIDE DEF content, len
  <2>6. SharedInv' /\ \A a \in Blocks : a <= used => memory'[a] = memory[a]
    BY <1>1, <2>1, <2>4, <2>5, AllocateKeeps
  <2> QED  BY <2>6, KeptBlocks DEF SharedInv
<1>3. CASE ~(len > ref[b].cap) /\ ref[b].block = 1 /\ text # <<>>
  BY <1>3, StopKeeps DEF Extend, Stop
<1>4. CASE ~(len > ref[b].cap) /\ ~(ref[b].block = 1 /\ text # <<>>)
  <2> DEFINE h == [ref[b] EXCEPT !.len = len]
  <2>1. Overwrite(ref[b], ref[b].len, text) /\ Refer(c, h) /\ UNCHANGED <<fate, used, mixed>>
    BY <1>4 DEF Extend
  <2>2. /\ h \in Refs /\ h.block = ref[b].block /\ h.off = ref[b].off
        /\ h.len = len /\ h.cap = ref[b].cap
    BY <1>1, RefIs DEF Refs
  <2> HIDE DEF h
  <2>3. len <= ref[b].cap
    BY <1>1, <1>4, RefIs
  <2>4. /\ memory' \in [Blocks -> Seq(Bytes)]
        /\ \A a \in Blocks : Len(memory'[a]) = Len(memory[a])
    BY <2>1, <1>1, RefIs, OverwriteIs DEF SharedInv, SharedTypeOK
  <2>5. ref[b].off + ref[b].cap <= Len(memory[ref[b].block])
    BY DEF SharedInv, SharedTypeOK
  <2>6. Lies(h) /\ h.len <= h.cap /\ h.off + h.cap <= Len(memory[h.block])
    <3> HIDE DEF len
    <3> DEFINE size == Len(memory[ref[b].block])
    <3>1. /\ ref[b].block <= used /\ size \in Nat
          /\ ref[b].off \in Nat /\ ref[b].cap \in Nat /\ len \in Nat
      BY <1>1, RefIs DEF Lies
    <3>2. h.block <= used /\ Len(memory[h.block]) = size
      BY <2>2, <3>1
    <3>3. ref[b].off + ref[b].cap <= size
      BY <2>5
    <3> HIDE DEF size
    <3>4. ref[b].off + len <= size
      BY <2>3, <3>1, <3>3
    <3> QED  BY <2>2, <2>3, <3>2, <3>3, <3>4 DEF Lies
  <2>7. \A n \in Nat : Reaches(h, n) =>
          /\ h.block = 1 => <<1, n>> \in mixed
          /\ \A s \in Strings :
               ref[s].block = h.block /\ Shows(ref[s], n) => <<h.block, n>> \in mixed
    <3> SUFFICES ASSUME NEW n \in Nat, Reaches(h, n)
        PROVE  /\ h.block = 1 => <<1, n>> \in mixed
               /\ \A s \in Strings :
                    ref[s].block = h.block /\ Shows(ref[s], n) => <<h.block, n>> \in mixed
      OBVIOUS
    <3>1. Reaches(ref[b], n)
      BY <2>2 DEF Reaches
    <3>2. MixInv
      BY DEF SharedInv
    <3> QED  BY <2>2, <3>1, <3>2 DEF MixInv
  <2>8. SharedInv'
    BY <2>1, <2>2, <2>4, <2>6, <2>7, <1>1, SetKeeps DEF SharedInv, SharedTypeOK
  <2>9. KeepsStrings
    <3>1. CASE text = <<>>
      <4>1. \A a \in Blocks : memory'[a] = memory[a]
        <5> SUFFICES ASSUME NEW a \in Blocks  PROVE memory'[a] = memory[a]
          OBVIOUS
        <5>1. memory[a] \in Seq(Bytes) /\ memory'[a] \in Seq(Bytes) /\ Len(memory'[a]) = Len(memory[a])
          BY <2>4 DEF SharedInv, SharedTypeOK
        <5>2. \A k \in 1..Len(memory[a]) : memory'[a][k] = memory[a][k]
          <6>1. ref[b] \in Refs /\ ref[b].off \in Nat /\ ref[b].len \in Nat /\ Len(text) = 0
            BY <3>1, <1>1, RefIs
          <6>2. /\ a # ref[b].block => memory'[a] = memory[a]
                /\ \A k \in 1..Len(memory[ref[b].block]) :
                     memory'[ref[b].block][k] = memory[ref[b].block][k]
                       \/ (ref[b].off + ref[b].len < k /\ k <= ref[b].off + ref[b].len + Len(text))
            BY <6>1, <2>1, OverwriteIs DEF SharedInv, SharedTypeOK
          <6>3. \A k \in 1..Len(memory[ref[b].block]) :
                  memory'[ref[b].block][k] = memory[ref[b].block][k]
            BY <6>1, <6>2
          <6> QED  BY <6>2, <6>3
        <5> QED  BY <5>1, <5>2
      <4> QED  BY <4>1, KeptBlocks DEF SharedInv
    <3>2. CASE text # <<>>
      <4>1. ref[b].block # 1 /\ ref[b].len \in Nat /\ ref[b].len + Len(text) <= ref[b].cap
        BY <3>2, <1>1, <1>4, <2>3, RefIs
      <4> QED  BY <4>1, <2>1, OverwriteKeeps
    <3> QED  BY <3>1, <3>2
  <2> QED  BY <2>8, <2>9
<1> QED  BY <1>2, <1>3, <1>4

-----------------------------------------------------------------------------

\* With what a literal says being where it was.
LiteralInv == SharedInv /\ memory[1] = Literal

LEMMA SharedStep ==
  ASSUME LiteralInv, SharedNext  PROVE LiteralInv' /\ KeepsStrings
<1> USE DEF LiteralInv
<1>1. ASSUME StringStep  PROVE SharedInv' /\ KeepsStrings
  <2>1. ASSUME NEW s \in Strings, NEW b \in Slices,
               String2Bytes(s, b) \/ Bytes2String(b, s) \/ Copy(s, b) \/ Copy(b, s)
        PROVE  SharedInv' /\ KeepsStrings
    BY <2>1, ConversionKeeps, CopyKeeps DEF Vars
  <2>2. ASSUME NEW s \in Strings, NEW t \in Strings, Assign(s, t) \/ ToUpper(s, t)
        PROVE  SharedInv' /\ KeepsStrings
    BY <2>2, AssignKeeps, ToUpperKeeps
  <2>3. ASSUME NEW s \in Strings, Literally(s)  PROVE SharedInv' /\ KeepsStrings
    <3> DEFINE h == [block |-> 1, off |-> 0, len |-> Len(Literal), cap |-> 0]
    <3>1. Refer(s, h) /\ UNCHANGED <<fate, memory, used, mixed>> /\ s \in Vars /\ s \notin Slices
      BY <2>3, SharedAssumption DEF Literally, Vars
    <3>2. h \in Refs /\ h.block = 1 /\ h.off = 0 /\ h.len = Len(Literal)
      BY SharedAssumption DEF Refs, Blocks
    <3> HIDE DEF h
    <3>3. Lies(h)
      BY <3>2, SharedAssumption DEF Lies, SharedInv, SharedTypeOK, Blocks
    <3>4. \A b \in Slices, k \in Nat :
            ref[b].block = h.block /\ Shows(h, k) /\ Reaches(ref[b], k) => <<h.block, k>> \in mixed
      BY <3>2 DEF SharedInv, MixInv
    <3> QED  BY <3>1, <3>2, <3>3, <3>4, SetOnly
  <2>4. ASSUME NEW s \in Strings, NEW t \in Strings, NEW u \in Strings, Concat(s, t, u)
        PROVE  SharedInv' /\ KeepsStrings
    BY <2>4, ConcatKeeps
  <2>5. ASSUME NEW s \in Strings, NEW t \in Strings, NEW i \in 0..MaxLen, NEW j \in 0..MaxLen,
               Substring(s, t, i, j)
        PROVE  SharedInv' /\ KeepsStrings
    BY <2>5, SubstringKeeps, SharedAssumption
  <2> QED  BY <1>1, <2>1, <2>2, <2>3, <2>4, <2>5 DEF StringStep
<1>2. ASSUME SliceStep  PROVE SharedInv' /\ KeepsStrings
  <2> SUFFICES ASSUME NEW b \in Slices,
                 \/ \E len, cap \in 0..MaxLen : Make(b, len, cap)
                 \/ \E c \in Slices : \E i, j, k \in 0..MaxLen : Reslice(b, c, i, j, k)
                 \/ \E i \in 0..MaxLen, v \in Bytes : Write(b, i, v)
                 \/ \E c \in Slices, x \in Vars, cap \in 0..MaxLen :
                      Extend(b, c, Text(ref[x]), cap)
               PROVE  SharedInv' /\ KeepsStrings
    BY <1>2 DEF SliceStep, Vars
  <2>1. ASSUME NEW len \in 0..MaxLen, NEW cap \in 0..MaxLen, Make(b, len, cap)
        PROVE  SharedInv' /\ KeepsStrings
    BY <2>1, MakeKeeps, SharedAssumption
  <2>2. ASSUME NEW c \in Slices, NEW i \in 0..MaxLen, NEW j \in 0..MaxLen, NEW k \in 0..MaxLen,
               Reslice(b, c, i, j, k)
        PROVE  SharedInv' /\ KeepsStrings
    BY <2>2, ResliceKeeps, SharedAssumption
  <2>3. ASSUME NEW i \in 0..MaxLen, NEW v \in Bytes, Write(b, i, v)
        PROVE  SharedInv' /\ KeepsStrings
    BY <2>3, WriteKeeps, SharedAssumption
  <2>4. ASSUME NEW c \in Slices, NEW x \in Vars, NEW cap \in 0..MaxLen,
               Extend(b, c, Text(ref[x]), cap)
        PROVE  SharedInv' /\ KeepsStrings
    BY <2>4, RefIs, ExtendKeeps, SharedAssumption
  <2> QED  BY <2>1, <2>2, <2>3, <2>4
<1>3. SharedInv' /\ KeepsStrings
  BY <1>1, <1>2 DEF SharedNext
<1> QED  BY <1>3 DEF KeepsStrings

LEMMA LiteralIsThere ==
  /\ SharedInit => LiteralInv
  /\ LiteralInv /\ [SharedNext]_sharedVars => LiteralInv' /\ [KeepsStrings]_sharedVars
<1>1. SharedInit => LiteralInv
  BY SharedInitial, SharedAssumption DEF LiteralInv, SharedInit, Blocks
<1>2. ASSUME LiteralInv, UNCHANGED sharedVars  PROVE LiteralInv'
  BY <1>2, StopKeeps DEF sharedVars, LiteralInv, SharedInv, SharedTypeOK
<1> QED  BY <1>1, <1>2, SharedStep

\* Whatever is cut, appended, concatenated or captured, a string keeps the bytes
\* it shows, but for those a conversion without copying has passed on (convert.go).
THEOREM StringsAreSafe == SharedSpec => StringsKeepTheirBytes
BY LiteralIsThere, PTL DEF SharedSpec, StringsKeepTheirBytes, KeepsStrings

\* The references stay within memory that has been allocated, a slice's capacity
\* included.
THEOREM SharedIsTyped == SharedSpec => []SharedTypeOK
<1>1. LiteralInv => SharedTypeOK
  BY DEF LiteralInv, SharedInv
<1> QED  BY <1>1, LiteralIsThere, PTL DEF SharedSpec
=============================================================================
