-------------------------- MODULE ReflectionProofs --------------------------
(***************************************************************************)
(* Comparison and copy by reflection, for any types, any heap and any      *)
(* stack: what is called equal is, what is called different differs, a     *)
(* copy stands alone, and only cycles overflow a stack that is deep enough.*)
(***************************************************************************)
EXTENDS Reflection, FiniteSetTheorems, SequenceTheorems, TLAPS

Frame == [d : Nat, s : Nat, todo : SUBSET Int]

\* The heap the program was started with, and its arguments in it.
Started(m) == IsHeap(m) /\ \A v \in {dst, src} : v \in 0..Len(m) /\ Kind(v, m) # "block"

PhaseInv ==
  /\ pc \in {"start", "equal", "compared", "copy", "copied"}
  /\ verdict \in {"none", "true", "false", "panic", "overflow"}
  /\ outcome \in {"none", "ok", "panic", "overflow"}
  /\ writes \in 0..MaxWrites
  /\ pc \in {"start", "equal"} => verdict = "none"
  /\ pc = "start" => calls = <<>> /\ same = {}
  /\ pc \in {"start", "equal", "compared"} =>
       snapshot = <<>> /\ from = <<>> /\ outcome = "none" /\ copied = 0 /\ writes = 0
  /\ pc = "copy" => outcome = "none" /\ copied = 0 /\ writes = 0
  /\ outcome # "ok" => copied = 0 /\ writes = 0
  /\ pc = "copied" => outcome # "none"

MemoryInv ==
  /\ IsMemory(mem)
  /\ pc \in {"start", "equal", "compared"} => Started(mem)
  /\ pc \in {"copy", "copied"} =>
       /\ Started(snapshot) /\ Len(snapshot) <= Len(mem)
       /\ writes = 0 => \A l \in DOMAIN snapshot : mem[l] = snapshot[l]

FrameInv ==
  /\ calls \in Seq(Frame) /\ Len(calls) <= Stack
  /\ \A i \in DOMAIN calls : calls[i].d <= Len(mem) /\ calls[i].s <= Len(mem)
  /\ pc \in {"equal", "copy"} => Len(calls) > 0

-----------------------------------------------------------------------------
Below(c, k) == <<Part(c.d, k, mem), SrcPart(c.d, c.s, k, mem)>>

\* A call that has come past no part in vain.
Entered(c) == AtOnce(c.d, c.s, mem) = "parts"

EqualFrame(c) ==
  /\ c.todo \subseteq PartKeys(c.d, mem) /\ Kind(c.d, mem) # "block"
  /\ ~Entered(c) => c.todo = {}

\* The pair p was found equal: at once, or because its parts were.
Proved(p) ==
  \/ AtOnce(p[1], p[2], mem) = "true"
  \/ /\ AtOnce(p[1], p[2], mem) = "parts"
     /\ \A k \in PartKeys(p[1], mem) :
          /\ Takes(p[1], p[2], k, mem)
          /\ <<Part(p[1], k, mem), SrcPart(p[1], p[2], k, mem)>> \in same

ChainInv ==
  /\ \A i \in 1..(Len(calls) - 1) :
       /\ Entered(calls[i])
       /\ \E k \in PartKeys(calls[i].d, mem) :
            /\ Takes(calls[i].d, calls[i].s, k, mem)
            /\ <<calls[i + 1].d, calls[i + 1].s>> = Below(calls[i], k)
  /\ \A i, j \in DOMAIN calls :
       i < j /\ Kind(calls[i].d, mem) = "map" => calls[j].d = calls[j].s

PastInv ==
  \A i \in DOMAIN calls : Entered(calls[i]) =>
    \A k \in PartKeys(calls[i].d, mem) \ calls[i].todo :
      /\ Takes(calls[i].d, calls[i].s, k, mem)
      /\ \/ Below(calls[i], k) \in same
         \/ i < Len(calls) /\ Below(calls[i], k) = <<calls[i + 1].d, calls[i + 1].s>>

ArgsAlike == 0 \notin {dst, src} /\ mem[dst].type = mem[src].type

FirstInv == Len(calls) > 0 => ArgsAlike /\ calls[1].d = dst /\ calls[1].s = src

SameInv ==
  \A p \in same : p \in (0..Len(mem)) \X (0..Len(mem)) /\ Kind(p[1], mem) # "block" /\ Proved(p)

VerdictInv ==
  /\ pc = "equal" => AtOnce(Top.d, Top.s, mem) \in {"true", "parts"}
  /\ pc = "compared" /\ verdict = "true" => ArgsAlike /\ <<dst, src>> \in same
  /\ pc = "compared" /\ verdict \in {"false", "panic"} =>
       \/ ~ArgsAlike
       \/ /\ Len(calls) > 0
          /\ \/ AtOnce(Top.d, Top.s, mem) \in {"false", "panic"}
             \/ Entered(Top) /\ \E k \in PartKeys(Top.d, mem) : ~Takes(Top.d, Top.s, k, mem)
  /\ pc = "compared" /\ verdict = "overflow" =>
       /\ Len(calls) = Stack
       /\ Entered(Top) /\ \E k \in PartKeys(Top.d, mem) : Takes(Top.d, Top.s, k, mem)

EqualInv ==
  pc \in {"equal", "compared"} =>
    /\ FirstInv
    /\ \A i \in DOMAIN calls : EqualFrame(calls[i])
    /\ ChainInv
    /\ PastInv
    /\ SameInv
    /\ VerdictInv

-----------------------------------------------------------------------------
\* Where the parts of the copy l are, and the kinds that have them in a block.
InBlock == {"map", "slice"}
Holder(l, m) == IF Kind(l, m) \in InBlock THEN m[l].kids[1] ELSE l

\* In memory m location l is what f says it is the copy of in the heap h, as far as it
\* has been filled in.
CopyOf(l, m, f, h) ==
  LET s == f[l]
      held == m[Holder(l, m)].kids
  IN
  /\ s \in DOMAIN h /\ Kind(s, h) # "block"
  /\ m[l].type = h[s].type /\ m[l].data = h[s].data
  /\ Kind(l, m) \in InBlock =>
       /\ DOMAIN m[l].kids = {1}
       /\ Holder(l, m) \in (Len(h) + 1)..Len(m) /\ Holder(l, m) \notin DOMAIN f
  /\ Kind(l, m) \in Deep =>
       \A k \in DOMAIN held :
         k \in PartKeys(s, h) /\ held[k] \in DOMAIN f /\ f[held[k]] = Part(s, k, h)
  /\ Kind(l, m) \notin Deep => m[l].kids = h[s].kids

\* All but the parts todo of it have been filled in.
Filled(l, todo, m, f, h) ==
  Kind(l, m) \in Deep => DOMAIN m[Holder(l, m)].kids = PartKeys(f[l], h) \ todo

CopiesInv ==
  /\ DOMAIN from \subseteq (Len(snapshot) + 1)..Len(mem)
  /\ \A l \in DOMAIN from : CopyOf(l, mem, from, snapshot)
  /\ \A l, j \in DOMAIN from : Holder(l, mem) = Holder(j, mem) => l = j
  /\ \A l \in DOMAIN from :
       (\A i \in DOMAIN calls : calls[i].d # l) => Filled(l, {}, mem, from, snapshot)

CopyFrame(c) ==
  /\ c.d \in DOMAIN from /\ from[c.d] = c.s
  /\ c.todo \subseteq PartKeys(c.s, snapshot)
  /\ Kind(c.d, mem) \notin Deep => c.todo = {}
  /\ Filled(c.d, c.todo, mem, from, snapshot)

CopyChain ==
  /\ Len(calls) > 0 => calls[1].s = src
  /\ \A i, j \in DOMAIN calls : calls[i].d = calls[j].d => i = j
  /\ \A i \in 1..(Len(calls) - 1) : \E k \in PartKeys(calls[i].s, snapshot) :
       calls[i + 1].s = Part(calls[i].s, k, snapshot)

OutcomeInv ==
  /\ outcome = "ok" => copied \in DOMAIN from /\ from[copied] = src /\ calls = <<>>
  /\ outcome = "overflow" => Len(calls) = Stack
  /\ outcome = "panic" =>
       \/ src = 0
       \/ /\ Len(calls) > 0
          /\ \/ Kind(Top.s, snapshot) = "pointer" /\ IsNil(Top.s, snapshot)
             \/ Types[snapshot[Top.s].type].hidden # {}

CopyInv ==
  pc \in {"copy", "copied"} =>
    CopiesInv /\ (\A i \in DOMAIN calls : CopyFrame(calls[i])) /\ CopyChain /\ OutcomeInv

IInv == PhaseInv /\ MemoryInv /\ FrameInv /\ EqualInv /\ CopyInv

-----------------------------------------------------------------------------
(* Memories.                                                               *)

Nodes == [type : DOMAIN Types, data : Int, kids : UNION {[K -> Nat] : K \in SUBSET Int}]
Closed(m) == \A l \in 1..Len(m) : \A k \in DOMAIN m[l].kids : m[l].kids[k] \in 1..Len(m)

LEMMA NodeIs ==
  ASSUME NEW n
  PROVE  /\ n \in Nodes => IsNode(n)
         /\ IsNode(n) /\ (\A k \in DOMAIN n.kids : n.kids[k] \in Nat) => n \in Nodes
<1>1. ASSUME n \in Nodes  PROVE IsNode(n)
  <2>1. PICK K \in SUBSET Int : n.kids \in [K -> Nat]
    BY <1>1 DEF Nodes
  <2>2. n.kids = [k \in DOMAIN n.kids |-> n.kids[k]] /\ DOMAIN n.kids \subseteq Int
    BY <2>1
  <2>3. n = [type |-> n.type, data |-> n.data, kids |-> n.kids]
        /\ n.type \in DOMAIN Types /\ n.data \in Int
    BY <1>1 DEF Nodes
  <2> QED  BY <2>2, <2>3 DEF IsNode
<1>2. ASSUME IsNode(n), \A k \in DOMAIN n.kids : n.kids[k] \in Nat  PROVE n \in Nodes
  <2> DEFINE f == [k \in DOMAIN n.kids |-> n.kids[k]]
  <2>1. f \in [DOMAIN n.kids -> Nat] /\ DOMAIN n.kids \in SUBSET Int
    BY <1>2 DEF IsNode
  <2>2. n = [type |-> n.type, data |-> n.data, kids |-> f] /\ n.type \in DOMAIN Types /\ n.data \in Int
    BY <1>2 DEF IsNode
  <2>3. f \in UNION {[K -> Nat] : K \in SUBSET Int}
    BY <2>1
  <2> HIDE DEF f
  <2> QED  BY <2>2, <2>3 DEF Nodes
<1> QED  BY <1>1, <1>2

LEMMA MemoryIs ==
  ASSUME NEW m
  PROVE  IsMemory(m) <=> m \in Seq(Nodes) /\ Closed(m)
<1>1. ASSUME IsMemory(m)  PROVE m \in Seq(Nodes) /\ Closed(m)
  <2>1. DOMAIN m = 1..Len(m) /\ Len(m) \in Nat /\ m \in Seq({m[l] : l \in DOMAIN m})
    BY <1>1 DEF IsMemory
  <2>2. \A l \in 1..Len(m) : IsNode(m[l]) /\ \A k \in DOMAIN m[l].kids : m[l].kids[k] \in 1..Len(m)
    BY <1>1, <2>1 DEF IsMemory
  <2>3. \A l \in 1..Len(m) : m[l] \in Nodes
    BY <2>1, <2>2, NodeIs
  <2> QED  BY <2>1, <2>2, <2>3 DEF Closed
<1>2. ASSUME m \in Seq(Nodes), Closed(m)  PROVE IsMemory(m)
  <2>1. DOMAIN m = 1..Len(m) /\ \A l \in 1..Len(m) : m[l] \in Nodes
    BY <1>2
  <2>2. \A l \in DOMAIN m : IsNode(m[l])
    BY <2>1, NodeIs
  <2>3. m \in Seq({m[l] : l \in DOMAIN m})
    BY <1>2, <2>1
  <2> QED  BY <1>2, <2>1, <2>2, <2>3 DEF IsMemory, Closed
<1> QED  BY <1>1, <1>2

LEMMA HeapIs ==
  ASSUME NEW m, IsHeap(m)
  PROVE  /\ IsMemory(m) /\ m \in Seq(Nodes) /\ Closed(m)
         /\ DOMAIN m = 1..Len(m) /\ Len(m) \in Nat
<1>1. IsMemory(m)
  BY DEF IsHeap
<1> QED  BY <1>1, MemoryIs

\* The parts of a value of the heap lie in the heap; only a nil pointer has none.
LEMMA PartIn ==
  ASSUME NEW m, IsHeap(m), NEW v \in 0..Len(m), NEW k \in PartKeys(v, m)
  PROVE  /\ v \in 1..Len(m) /\ k \in Int
         /\ Part(v, k, m) \in 0..Len(m)
         /\ Part(v, k, m) = 0 <=> Kind(v, m) = "pointer" /\ IsNil(v, m)
         /\ Kind(v, m) # "block" => Kind(Part(v, k, m), m) # "block"
<1>1. m \in Seq(Nodes) /\ Closed(m) /\ DOMAIN m = 1..Len(m) /\ Len(m) \in Nat
  BY HeapIs
<1>2. v \in 1..Len(m)
  BY <1>1 DEF PartKeys, Kind
<1>3. /\ m[v] \in Nodes
      /\ DOMAIN m[v].kids \subseteq Int
      /\ \A j \in DOMAIN m[v].kids : m[v].kids[j] \in 1..Len(m)
  BY <1>1, <1>2, NodeIs DEF Closed, IsNode
<1>4. Kind(v, m) # "block" => Kind(Part(v, k, m), m) # "block"
  BY <1>1, <1>2 DEF IsHeap
<1>5. CASE Kind(v, m) = "slice"
  <2>1. ~IsNil(v, m) /\ k \in 1..m[v].data
    BY <1>5 DEF PartKeys
  <2>2. DOMAIN m[v].kids = {1} /\ m[v].data \in Nat /\ 1..m[v].data \subseteq DOMAIN m[m[v].kids[1]].kids
    BY <1>1, <1>2, <1>5, <2>1 DEF IsHeap, IsNil, Pointer
  <2>3. Pointer(v, m) = m[v].kids[1] /\ m[v].kids[1] \in 1..Len(m)
    BY <1>3, <1>5, <2>2 DEF Pointer
  <2>4. Part(v, k, m) \in 1..Len(m)
    BY <1>1, <1>5, <2>1, <2>2, <2>3 DEF Part, Closed
  <2> QED  BY <1>2, <1>4, <1>5, <2>1, <2>4
<1>6. CASE Kind(v, m) = "map"
  <2>1. ~IsNil(v, m) /\ k \in DOMAIN m[Pointer(v, m)].kids
    BY <1>6 DEF PartKeys
  <2>2. Pointer(v, m) \in 1..Len(m)
    <3>1. DOMAIN m[v].kids \in {{}, {1}}
      BY <1>1, <1>2, <1>6 DEF IsHeap
    <3> QED  BY <1>3, <1>6, <2>1, <3>1 DEF Pointer, IsNil
  <2>3. m[Pointer(v, m)] \in Nodes /\ DOMAIN m[Pointer(v, m)].kids \subseteq Int
    BY <1>1, <2>2, NodeIs DEF IsNode
  <2>4. Part(v, k, m) \in 1..Len(m)
    BY <1>1, <1>6, <2>1, <2>2 DEF Part, Closed
  <2> QED  BY <1>2, <1>4, <1>6, <2>1, <2>3, <2>4
<1>7. CASE Kind(v, m) = "pointer"
  <2>1. k = 1 /\ Part(v, k, m) = Pointer(v, m)
    BY <1>7 DEF PartKeys, Part
  <2>2. DOMAIN m[v].kids \in {{}, {1}}
    BY <1>1, <1>2, <1>7 DEF IsHeap
  <2>3. Pointer(v, m) \in 0..Len(m)
    BY <1>1, <1>3, <1>7, <2>2 DEF Pointer
  <2> QED  BY <1>2, <1>4, <1>7, <2>1, <2>3 DEF IsNil
<1>8. CASE Kind(v, m) \notin {"slice", "map", "pointer"}
  <2>1. Kind(v, m) # "invalid" /\ k \in DOMAIN m[v].kids /\ Part(v, k, m) = m[v].kids[k]
    BY <1>8 DEF PartKeys, Part
  <2> QED  BY <1>2, <1>3, <1>4, <1>8, <2>1
<1> QED  BY <1>5, <1>6, <1>7, <1>8
\* What refers to something has one kid or, if it is nil, none.
LEMMA Refers ==
  ASSUME NEW m, IsHeap(m), NEW v \in 1..Len(m),
         Kind(v, m) \in {"interface", "map", "pointer", "slice"}
  PROVE  \/ DOMAIN m[v].kids = {} /\ Pointer(v, m) = 0 /\ IsNil(v, m)
         \/ /\ DOMAIN m[v].kids = {1} /\ Pointer(v, m) = m[v].kids[1]
            /\ Pointer(v, m) \in 1..Len(m) /\ ~IsNil(v, m)
<1>1. m \in Seq(Nodes) /\ Closed(m) /\ DOMAIN m = 1..Len(m) /\ Len(m) \in Nat
  BY HeapIs
<1>2. DOMAIN m[v].kids \in {{}, {1}}
  <2>1. CASE Kind(v, m) = "slice"
    BY <1>1, <2>1 DEF IsHeap
  <2>2. CASE Kind(v, m) \in {"interface", "map", "pointer"}
    BY <1>1, <2>2 DEF IsHeap
  <2> QED  BY <2>1, <2>2
<1>3. DOMAIN m[v].kids = {1} => m[v].kids[1] \in 1..Len(m)
  BY <1>1 DEF Closed
<1> QED  BY <1>1, <1>2, <1>3 DEF Pointer, IsNil

\* What a value is depends on the heap it was started with only.
LEMMA Agree ==
  ASSUME NEW m, IsHeap(m), NEW n, \A l \in DOMAIN m : n[l] = m[l], NEW v \in 0..Len(m)
  PROVE  /\ Kind(v, n) = Kind(v, m)
         /\ v # 0 => Pointer(v, n) = Pointer(v, m) /\ IsNil(v, n) = IsNil(v, m)
         /\ PartKeys(v, n) = PartKeys(v, m)
         /\ \A k \in PartKeys(v, m) : Part(v, k, n) = Part(v, k, m)
<1>1. m \in Seq(Nodes) /\ Closed(m) /\ DOMAIN m = 1..Len(m) /\ Len(m) \in Nat
  BY HeapIs
<1>2. v # 0 => v \in DOMAIN m /\ n[v] = m[v]
  BY <1>1
<1>3. Kind(v, n) = Kind(v, m)
  BY <1>2 DEF Kind
<1>4. v # 0 => Pointer(v, n) = Pointer(v, m) /\ IsNil(v, n) = IsNil(v, m)
  BY <1>2, <1>3 DEF Pointer, IsNil
<1>5. v # 0 /\ Kind(v, m) \in {"map", "slice"} /\ ~IsNil(v, m) =>
        Pointer(v, m) \in DOMAIN m /\ n[Pointer(v, m)] = m[Pointer(v, m)]
  BY <1>1, Refers
<1>6. PartKeys(v, n) = PartKeys(v, m)
  <2>1. v # 0 => (IsNil(v, n) <=> IsNil(v, m))
    BY <1>4
  <2>2. CASE v = 0
    BY <1>3, <2>2 DEF PartKeys, Kind
  <2>3. CASE v # 0
    BY <1>2, <1>3, <1>4, <1>5, <2>1, <2>3 DEF PartKeys
  <2> QED  BY <2>2, <2>3
<1>7. ASSUME NEW k \in PartKeys(v, m)  PROVE Part(v, k, n) = Part(v, k, m)
  <2>1. v # 0
    BY <1>7, PartIn
  <2>2. Kind(v, m) \in {"map", "slice"} => ~IsNil(v, m)
    BY <1>7 DEF PartKeys
  <2> QED  BY <1>2, <1>3, <1>4, <1>5, <2>1, <2>2 DEF Part
<1> QED  BY <1>3, <1>4, <1>6, <1>7

-----------------------------------------------------------------------------
(* What a call comes to at once.                                           *)

Kinds == {"bool", "int", "int8", "uint8", "float", "string", "func", "chan",
          "interface", "pointer", "slice", "array", "map", "struct", "block", "invalid"}

LEMMA KindIs ==
  ASSUME NEW m, IsMemory(m), NEW v \in 0..Len(m)
  PROVE  Kind(v, m) \in Kinds /\ (Kind(v, m) = "invalid" <=> v = 0)
<1>1. m \in Seq(Nodes) /\ DOMAIN m = 1..Len(m)
  BY MemoryIs
<1>2. v # 0 => m[v].type \in DOMAIN Types
  BY <1>1, NodeIs DEF IsNode
<1> QED  BY <1>2, TypesAssumption DEF Kind, Kinds

LEMMA AtOnceIs ==
  ASSUME NEW m, NEW d, NEW s
  PROVE  /\ AtOnce(d, s, m) \in {"true", "false", "panic", "parts"}
         /\ AtOnce(d, s, m) = "parts" =>
              Kind(d, m) \in {"slice", "array", "struct", "map", "interface", "pointer"}
         /\ AtOnce(d, s, m) = "true" =>
              Kind(d, m) \notin {"array", "struct", "map", "chan", "block", "invalid"}
         /\ Kind(d, m) \in {"pointer", "slice"} =>
              /\ AtOnce(d, s, m) = "parts" => Pointer(d, m) # Pointer(s, m)
              /\ AtOnce(d, s, m) = "true" => Pointer(d, m) = Pointer(s, m)
         /\ Kind(d, m) \in {"map", "slice"} /\ AtOnce(d, s, m) \in {"true", "parts"} =>
              Size(d, m) = Size(s, m)
         /\ Kind(d, m) = "interface" =>
              /\ AtOnce(d, s, m) = "parts" => ~IsNil(d, m) /\ ~IsNil(s, m)
              /\ AtOnce(d, s, m) = "true" => IsNil(d, m) /\ IsNil(s, m)
<1>1. \A x : Verdict(x) \in {"true", "false"}
  BY DEF Verdict
<1>2. CASE Kind(d, m) \in {"bool", "int", "int8", "uint8", "float", "string", "func"}
  BY <1>1, <1>2 DEF AtOnce, Getter
<1>3. CASE Kind(d, m) \in {"array", "struct"}
  BY <1>3 DEF AtOnce, Getter
<1>4. CASE Kind(d, m) \in {"map", "slice"}
  BY <1>4 DEF AtOnce, Getter
<1>5. CASE Kind(d, m) \in {"interface", "pointer"}
  BY <1>5 DEF AtOnce, Getter, Verdict
<1>6. CASE Kind(d, m) \notin {"bool", "int", "int8", "uint8", "float", "string", "func",
                               "array", "struct", "map", "slice", "interface", "pointer"}
  BY <1>6 DEF AtOnce, Getter
<1> QED  BY <1>2, <1>3, <1>4, <1>5, <1>6

\* Of two values of one kind: plain data is compared, and no method panics.
LEMMA AtOnceAlike ==
  ASSUME NEW m, NEW d, NEW s, Kind(d, m) = Kind(s, m)
  PROVE  /\ Kind(d, m) \in Kinds \ {"invalid"} => AtOnce(d, s, m) # "panic"
         /\ Kind(d, m) \in {"bool", "int", "int8", "uint8", "string"} =>
              AtOnce(d, s, m) = IF m[d].data = m[s].data THEN "true" ELSE "false"
         /\ Kind(d, m) = "float" =>
              AtOnce(d, s, m) = IF m[d].data = m[s].data /\ m[d].data # NaN THEN "true" ELSE "false"
         /\ Kind(d, m) = "func" =>
              AtOnce(d, s, m) = IF IsNil(d, m) /\ IsNil(s, m) THEN "true" ELSE "false"
         /\ Kind(d, m) = "slice" =>
              AtOnce(d, s, m) = IF Size(d, m) # Size(s, m) THEN "false"
                ELSE IF Pointer(d, m) = Pointer(s, m) THEN "true" ELSE "parts"
         /\ Kind(d, m) = "map" =>
              AtOnce(d, s, m) = IF Size(d, m) # Size(s, m) THEN "false" ELSE "parts"
         /\ Kind(d, m) = "pointer" =>
              AtOnce(d, s, m) = IF Pointer(d, m) = Pointer(s, m) THEN "true" ELSE "parts"
         /\ Kind(d, m) = "interface" =>
              AtOnce(d, s, m) = IF IsNil(d, m) /\ IsNil(s, m) THEN "true"
                ELSE IF IsNil(d, m) \/ IsNil(s, m) THEN "false" ELSE "parts"
         /\ Kind(d, m) \in {"array", "struct"} => AtOnce(d, s, m) = "parts"
<1>1. Kind(d, m) \in {"bool", "int", "int8", "uint8", "string"} =>
        AtOnce(d, s, m) = IF m[d].data = m[s].data THEN "true" ELSE "false"
  BY DEF AtOnce, Getter, Admits, Accepts, Verdict, Text
<1>2. Kind(d, m) = "float" =>
        AtOnce(d, s, m) = IF m[d].data = m[s].data /\ m[d].data # NaN THEN "true" ELSE "false"
  BY DEF AtOnce, Getter, Admits, Accepts, Verdict, Text
<1>3. Kind(d, m) = "func" =>
        AtOnce(d, s, m) = IF IsNil(d, m) /\ IsNil(s, m) THEN "true" ELSE "false"
  BY DEF AtOnce, Getter, Admits, Accepts, Verdict, Text
<1>4. Kind(d, m) = "slice" =>
        AtOnce(d, s, m) = IF Size(d, m) # Size(s, m) THEN "false"
          ELSE IF Pointer(d, m) = Pointer(s, m) THEN "true" ELSE "parts"
  BY DEF AtOnce, Getter, Admits, Accepts
<1>5. Kind(d, m) = "map" =>
        AtOnce(d, s, m) = IF Size(d, m) # Size(s, m) THEN "false" ELSE "parts"
  BY DEF AtOnce, Getter, Admits, Accepts
<1>6. Kind(d, m) = "pointer" =>
        AtOnce(d, s, m) = IF Pointer(d, m) = Pointer(s, m) THEN "true" ELSE "parts"
  BY DEF AtOnce, Getter, Admits, Accepts
<1>7. Kind(d, m) = "interface" =>
        AtOnce(d, s, m) = IF IsNil(d, m) /\ IsNil(s, m) THEN "true"
          ELSE IF IsNil(d, m) \/ IsNil(s, m) THEN "false" ELSE "parts"
  BY DEF AtOnce, Getter, Admits, Accepts, Verdict, IsNil
<1>8. Kind(d, m) \in {"array", "struct"} => AtOnce(d, s, m) = "parts"
  BY DEF AtOnce, Getter
<1>9. Kind(d, m) \in {"chan", "block"} => AtOnce(d, s, m) = "false"
  BY DEF AtOnce, Getter
<1> QED  BY <1>1, <1>2, <1>3, <1>4, <1>5, <1>6, <1>7, <1>8, <1>9 DEF Kinds

LEMMA TakesBelow ==
  ASSUME NEW m, IsHeap(m), NEW d \in 0..Len(m), NEW s \in 0..Len(m), Kind(d, m) # "block",
         NEW k \in PartKeys(d, m), Takes(d, s, k, m)
  PROVE  /\ d \in 1..Len(m) /\ k \in Int
         /\ Part(d, k, m) \in 0..Len(m) /\ Kind(Part(d, k, m), m) # "block"
         /\ SrcPart(d, s, k, m) \in 0..Len(m)
         /\ Kind(d, m) = "map" => SrcPart(d, s, k, m) = Part(d, k, m)
         /\ Kind(d, m) # "map" =>
              s \in 1..Len(m) /\ k \in PartKeys(s, m) /\ SrcPart(d, s, k, m) = Part(s, k, m)
         /\ d = s => SrcPart(d, s, k, m) = Part(d, k, m)
<1>1. /\ d \in 1..Len(m) /\ k \in Int
      /\ Part(d, k, m) \in 0..Len(m) /\ Kind(Part(d, k, m), m) # "block"
  BY PartIn
<1>2. ASSUME Kind(d, m) # "map"
      PROVE  /\ k \in PartKeys(s, m) /\ s \in 1..Len(m)
             /\ Part(s, k, m) \in 0..Len(m) /\ SrcPart(d, s, k, m) = Part(s, k, m)
  <2>1. k \in PartKeys(s, m)
    BY <1>2 DEF Takes
  <2> QED  BY <1>2, <2>1, PartIn DEF SrcPart
<1>3. Kind(d, m) = "map" => SrcPart(d, s, k, m) = Part(d, k, m)
  BY DEF SrcPart
<1>4. d = s => SrcPart(d, s, k, m) = Part(d, k, m)
  BY DEF SrcPart
<1> QED  BY <1>1, <1>2, <1>3, <1>4

-----------------------------------------------------------------------------
(* The calls under way.                                                    *)

LEMMA EnteredLast ==
  ASSUME NEW cs \in Seq(Frame), NEW c \in Frame
  PROVE  /\ Append(cs, c) \in Seq(Frame) /\ Len(Append(cs, c)) = Len(cs) + 1
         /\ DOMAIN Append(cs, c) = 1..(Len(cs) + 1)
         /\ \A i \in 1..Len(cs) : Append(cs, c)[i] = cs[i]
         /\ Append(cs, c)[Len(cs) + 1] = c
  OBVIOUS

\* The calls, once the last of them has come past k.
LEMMA PastIs ==
  ASSUME calls \in Seq(Frame), NEW n \in Nat \ {0}, n = Len(calls), NEW k
  PROVE  \E past \in Seq(Frame) :
           /\ past = Past(k) /\ Len(past) = n
           /\ \A i \in 1..n :
                /\ past[i].d = calls[i].d /\ past[i].s = calls[i].s
                /\ past[i].todo = IF i = n THEN calls[i].todo \ {k} ELSE calls[i].todo
<1> DEFINE last == [calls[n] EXCEPT !.todo = @ \ {k}]
           past == [calls EXCEPT ![n] = last]
<1>1. calls[n] \in Frame /\ n \in 1..Len(calls)
  OBVIOUS
<1>2. /\ last \in Frame
      /\ last.d = calls[n].d /\ last.s = calls[n].s /\ last.todo = calls[n].todo \ {k}
  BY <1>1 DEF Frame
<1>3. past = Past(k)
  BY DEF Past
<1> HIDE DEF last
<1>4. /\ past \in Seq(Frame) /\ Len(past) = n
      /\ \A i \in 1..n : past[i] = IF i = n THEN last ELSE calls[i]
  BY <1>1, <1>2, ExceptSeq
<1> HIDE DEF past
<1>5. \A i \in 1..n :
        /\ past[i].d = calls[i].d /\ past[i].s = calls[i].s
        /\ past[i].todo = IF i = n THEN calls[i].todo \ {k} ELSE calls[i].todo
  BY <1>2, <1>4
<1> QED  BY <1>3, <1>4, <1>5

LEMMA PoppedIs ==
  ASSUME calls \in Seq(Frame), Len(calls) > 0
  PROVE  /\ Popped \in Seq(Frame) /\ Len(Popped) = Len(calls) - 1
         /\ \A i \in 1..(Len(calls) - 1) : Popped[i] = calls[i]
<1> DEFINE n == Len(calls) - 1
<1>1. n \in Nat /\ n - 1 + 1 = n /\ \A i \in 1..n : calls[i] \in Frame /\ 1 + i - 1 = i
  OBVIOUS
<1>2. Popped = SubSeq(calls, 1, n)
  BY DEF Popped
<1> HIDE DEF n
<1>3. /\ SubSeq(calls, 1, n) \in Seq(Frame) /\ Len(SubSeq(calls, 1, n)) = n
      /\ \A i \in 1..n : SubSeq(calls, 1, n)[i] = calls[i]
  BY <1>1, SubSeqProperties
<1> QED  BY <1>2, <1>3 DEF n

-----------------------------------------------------------------------------
(* Steps of the comparison.                                                *)

LEMMA InitInv == Init => IInv
<1> SUFFICES ASSUME Init  PROVE IInv
  OBVIOUS
<1>1. /\ pc = "start" /\ calls = <<>> /\ same = {} /\ from = <<>> /\ snapshot = <<>>
      /\ verdict = "none" /\ outcome = "none" /\ copied = 0 /\ writes = 0
  BY DEF Init
<1>2. IsMemory(mem) /\ Started(mem)
  BY InputsAssumption, HeapIs DEF Init, Started
<1>3. PhaseInv
  BY <1>1, BoundsAssumption DEF PhaseInv
<1>4. MemoryInv
  BY <1>1, <1>2 DEF MemoryInv
<1>5. FrameInv
  BY <1>1, BoundsAssumption DEF FrameInv
<1>6. EqualInv /\ CopyInv
  BY <1>1 DEF EqualInv, CopyInv
<1> QED  BY <1>3, <1>4, <1>5, <1>6 DEF IInv

\* A comparison changes nothing of the heap.
LEMMA EqualLeaves ==
  ASSUME IInv, pc \in {"start", "equal"}, pc' \in {"equal", "compared"}, verdict' \in
           {"none", "true", "false", "panic", "overflow"},
         pc' = "equal" => verdict' = "none",
         UNCHANGED <<mem, dst, src, outcome, copied, writes, from, snapshot>>
  PROVE  PhaseInv' /\ MemoryInv' /\ CopyInv'
<1>1. PhaseInv'
  BY DEF IInv, PhaseInv
<1>2. MemoryInv'
  BY DEF IInv, MemoryInv, Started
<1>3. CopyInv'
  BY DEF CopyInv
<1> QED  BY <1>1, <1>2, <1>3

LEMMA MyDeepEqualStep == IInv /\ myDeepEqual => IInv'
<1> SUFFICES ASSUME IInv, myDeepEqual  PROVE IInv'
  OBVIOUS
<1>1. /\ pc = "start" /\ calls = <<>> /\ same = {} /\ verdict = "none"
      /\ UNCHANGED <<mem, dst, src, outcome, copied, writes, same, from, snapshot>>
  BY DEF IInv, PhaseInv, myDeepEqual
<1>2. /\ IsHeap(mem) /\ dst \in 0..Len(mem) /\ src \in 0..Len(mem) /\ Kind(dst, mem) # "block"
  BY <1>1 DEF IInv, MemoryInv, Started
<1>3. CASE calls' = calls /\ pc' = "compared" /\ verdict' \in {"false", "panic"} /\ ~ArgsAlike
  <2>1. PhaseInv' /\ MemoryInv' /\ CopyInv'
    BY <1>1, <1>3, EqualLeaves
  <2>2. FrameInv'
    BY <1>1, <1>3 DEF IInv, FrameInv
  <2>3. EqualInv'
    BY <1>1, <1>3 DEF EqualInv, FirstInv, ChainInv, PastInv, SameInv, VerdictInv, ArgsAlike
  <2> QED  BY <2>1, <2>2, <2>3 DEF IInv
<1>4. CASE ArgsAlike /\ CallEqual(dst, src, calls)
  <2>1. /\ calls' \in Seq(Frame) /\ Len(calls') = 1 /\ DOMAIN calls' = {1}
        /\ calls'[1].d = dst /\ calls'[1].s = src
        /\ calls'[1].todo = IF AtOnce(dst, src, mem) = "parts" THEN PartKeys(dst, mem) ELSE {}
        /\ \/ AtOnce(dst, src, mem) \in {"true", "parts"} /\ pc' = "equal" /\ verdict' = verdict
           \/ /\ AtOnce(dst, src, mem) \in {"false", "panic"} /\ pc' = "compared"
              /\ verdict' = AtOnce(dst, src, mem)
    <3>1. PartKeys(dst, mem) \subseteq Int /\ dst \in Nat /\ src \in Nat
      BY <1>2, PartIn, HeapIs
    <3> DEFINE c == [d |-> dst, s |-> src,
                     todo |-> IF AtOnce(dst, src, mem) = "parts" THEN PartKeys(dst, mem) ELSE {}]
    <3>2. /\ calls' = Append(<<>>, c) /\ c \in Frame /\ c.d = dst /\ c.s = src
          /\ c.todo = IF AtOnce(dst, src, mem) = "parts" THEN PartKeys(dst, mem) ELSE {}
      BY <1>1, <1>4, <3>1 DEF CallEqual, Loop, Frame
    <3> HIDE DEF c
    <3>3. calls' \in Seq(Frame) /\ Len(calls') = 1 /\ DOMAIN calls' = {1} /\ calls'[1] = c
      BY <3>2
    <3> QED  BY <1>4, <3>2, <3>3 DEF CallEqual
  <2>2. PhaseInv' /\ MemoryInv' /\ CopyInv'
    BY <1>1, <2>1, EqualLeaves
  <2>3. FrameInv'
    BY <1>1, <1>2, <2>1, BoundsAssumption DEF IInv, FrameInv
  <2>4. FirstInv'
    BY <1>1, <1>4, <2>1 DEF FirstInv, ArgsAlike
  <2>5. (\A i \in DOMAIN calls : EqualFrame(calls[i]))'
    BY <1>1, <1>2, <2>1 DEF EqualFrame, Entered
  <2>6. ChainInv' /\ PastInv' /\ SameInv'
    BY <1>1, <2>1 DEF ChainInv, PastInv, SameInv, Entered
  <2>7. VerdictInv'
    BY <1>1, <2>1 DEF VerdictInv, Top
  <2> QED  BY <2>2, <2>3, <2>4, <2>5, <2>6, <2>7 DEF IInv, EqualInv
<1> QED  BY <1>1, <1>3, <1>4 DEF myDeepEqual, ArgsAlike

\* What IInv says of the call that a comparison is in.
LEMMA EqualTop ==
  ASSUME IInv, pc = "equal"
  PROVE  /\ IsHeap(mem) /\ Len(mem) \in Nat /\ calls \in Seq(Frame)
         /\ Len(calls) \in Nat \ {0} /\ Len(calls) <= Stack /\ DOMAIN calls = 1..Len(calls)
         /\ \A i \in 1..Len(calls) : calls[i].d \in 0..Len(mem) /\ calls[i].s \in 0..Len(mem)
         /\ Len(calls) \in 1..Len(calls) /\ Top = calls[Len(calls)]
         /\ FirstInv /\ (\A i \in 1..Len(calls) : EqualFrame(calls[i]))
         /\ ChainInv /\ PastInv /\ SameInv /\ VerdictInv
         /\ verdict = "none" /\ Stack \in Nat
<1>1. IsHeap(mem) /\ mem \in Seq(Nodes)
  BY HeapIs DEF IInv, MemoryInv, Started
<1>2. calls \in Seq(Frame) /\ Len(calls) > 0 /\ Len(calls) <= Stack
  BY DEF IInv, FrameInv
<1>3. \A i \in 1..Len(calls) : calls[i] \in Frame
  BY <1>2
<1>4. \A i \in 1..Len(calls) : calls[i].d \in 0..Len(mem) /\ calls[i].s \in 0..Len(mem)
  BY <1>1, <1>2, <1>3 DEF IInv, FrameInv, Frame
<1> QED  BY <1>1, <1>2, <1>4, BoundsAssumption DEF IInv, PhaseInv, EqualInv, Top

\* The call under way, c, calls for its part k, with d and s.
LEMMA EqualDeeper ==
  ASSUME IInv, pc = "equal", NEW n, n = Len(calls), NEW c, c = calls[n],
         NEW k \in c.todo, Takes(c.d, c.s, k, mem), n < Stack,
         NEW d, NEW s, <<d, s>> = Below(c, k),
         CallEqual(d, s, Past(k)),
         UNCHANGED <<mem, dst, src, outcome, copied, writes, same, from, snapshot>>
  PROVE  IInv'
<1>1. /\ IsHeap(mem) /\ Len(mem) \in Nat /\ calls \in Seq(Frame) /\ n \in Nat \ {0} /\ n <= Stack
      /\ DOMAIN calls = 1..n /\ n \in 1..n /\ verdict = "none" /\ Stack \in Nat
      /\ \A i \in 1..n : calls[i].d \in 0..Len(mem) /\ calls[i].s \in 0..Len(mem)
  BY EqualTop
<1>2. FirstInv /\ (\A i \in 1..n : EqualFrame(calls[i])) /\ ChainInv /\ PastInv /\ SameInv
  BY EqualTop
<1>3. k \in PartKeys(c.d, mem) /\ AtOnce(c.d, c.s, mem) = "parts" /\ Kind(c.d, mem) # "block"
      /\ c.d \in 0..Len(mem) /\ c.s \in 0..Len(mem)
  BY <1>1, <1>2 DEF EqualFrame, Entered
<1>15. d \in 0..Len(mem) /\ s \in 0..Len(mem)
  BY <1>1, <1>3, TakesBelow DEF Below
<1>4. /\ d \in 0..Len(mem) /\ Kind(d, mem) # "block" /\ s \in 0..Len(mem)
      /\ Kind(c.d, mem) = "map" => s = d
      /\ c.d = c.s => s = d
  BY <1>1, <1>3, TakesBelow DEF Below
<1>16. PICK e \in Frame :
         /\ calls' = Append(Past(k), e)
         /\ e.d = d /\ e.s = s
         /\ e.todo = IF AtOnce(d, s, mem) = "parts" THEN PartKeys(d, mem) ELSE {}
  <2>1. PartKeys(d, mem) \subseteq Int /\ d \in Nat /\ s \in Nat
    BY <1>1, <1>15, PartIn
  <2> DEFINE e == [d |-> d, s |-> s, todo |-> IF AtOnce(d, s, mem) = "parts" THEN PartKeys(d, mem) ELSE {}]
  <2>2. e \in Frame /\ calls' = Append(Past(k), e)
    BY <2>1 DEF CallEqual, Loop, Frame
  <2> QED  BY <2>2
<1>17. /\ calls' \in Seq(Frame) /\ Len(calls') = n + 1 /\ DOMAIN calls' = 1..(n + 1)
       /\ calls'[n + 1] = e
       /\ \A i \in 1..n :
            /\ calls'[i].d = calls[i].d /\ calls'[i].s = calls[i].s
            /\ calls'[i].todo = IF i = n THEN calls[i].todo \ {k} ELSE calls[i].todo
  <2>1. PICK past \in Seq(Frame) :
          /\ past = Past(k) /\ Len(past) = n
          /\ \A i \in 1..n :
               /\ past[i].d = calls[i].d /\ past[i].s = calls[i].s
               /\ past[i].todo = IF i = n THEN calls[i].todo \ {k} ELSE calls[i].todo
    <3>1. calls \in Seq(Frame) /\ n \in Nat \ {0}
      BY <1>1
    <3> QED  BY <3>1, PastIs
  <2>2. /\ calls' \in Seq(Frame) /\ Len(calls') = n + 1 /\ DOMAIN calls' = 1..(n + 1)
        /\ calls'[n + 1] = e /\ \A i \in 1..n : calls'[i] = past[i]
    BY <1>16, <2>1, EnteredLast
  <2> QED  BY <2>1, <2>2
<1>5. /\ calls' \in Seq(Frame) /\ Len(calls') = n + 1 /\ DOMAIN calls' = 1..(n + 1)
      /\ calls'[n + 1].d = d /\ calls'[n + 1].s = s
      /\ calls'[n + 1].todo = IF AtOnce(d, s, mem) = "parts" THEN PartKeys(d, mem) ELSE {}
      /\ \/ AtOnce(d, s, mem) \in {"true", "parts"} /\ pc' = "equal" /\ verdict' = verdict
         \/ /\ AtOnce(d, s, mem) \in {"false", "panic"} /\ pc' = "compared"
            /\ verdict' = AtOnce(d, s, mem)
  BY <1>16, <1>17 DEF CallEqual
<1>6. \A i \in 1..n :
        /\ calls'[i].d = calls[i].d /\ calls'[i].s = calls[i].s
        /\ calls'[i].todo = IF i = n THEN c.todo \ {k} ELSE calls[i].todo
  BY <1>17
<1>7. PhaseInv' /\ MemoryInv' /\ CopyInv'
  BY <1>1, <1>5, EqualLeaves
<1>8. FrameInv'
  <2>1. ASSUME NEW i \in 1..(n + 1)  PROVE calls'[i].d <= Len(mem) /\ calls'[i].s <= Len(mem)
    <3>1. CASE i = n + 1
      BY <1>1, <1>15, <1>5, <3>1
    <3>2. CASE i \in 1..n
      <4>1. calls[i].d \in 0..Len(mem) /\ calls[i].s \in 0..Len(mem)
        BY <1>1, <3>2
      <4>2. calls'[i].d = calls[i].d /\ calls'[i].s = calls[i].s
        BY <1>6, <3>2
      <4> QED  BY <1>1, <4>1, <4>2
    <3> QED  BY <1>1, <3>1, <3>2
  <2>2. n + 1 <= Stack /\ n + 1 > 0
    BY <1>1
  <2> QED  BY <1>5, <2>1, <2>2 DEF FrameInv
<1>9. FirstInv'
  BY <1>1, <1>2, <1>5, <1>6 DEF FirstInv, ArgsAlike
<1>10. (\A i \in DOMAIN calls : EqualFrame(calls[i]))'
  <2>1. ASSUME NEW i \in 1..(n + 1)
        PROVE  /\ calls'[i].todo \subseteq PartKeys(calls'[i].d, mem) /\ Kind(calls'[i].d, mem) # "block"
               /\ AtOnce(calls'[i].d, calls'[i].s, mem) # "parts" => calls'[i].todo = {}
    <3>1. CASE i = n + 1
      BY <1>4, <1>5, <3>1
    <3>2. CASE i \in 1..n
      BY <1>1, <1>2, <1>6, <3>2 DEF EqualFrame, Entered
    <3> QED  BY <1>1, <3>1, <3>2
  <2> QED  BY <1>5, <2>1 DEF EqualFrame, Entered
<1>11. ChainInv'
  <2>1. ASSUME NEW i \in 1..n
        PROVE  /\ AtOnce(calls'[i].d, calls'[i].s, mem) = "parts"
               /\ \E j \in PartKeys(calls'[i].d, mem) :
                    /\ Takes(calls'[i].d, calls'[i].s, j, mem)
                    /\ calls'[i + 1].d = Part(calls'[i].d, j, mem)
                    /\ calls'[i + 1].s = SrcPart(calls'[i].d, calls'[i].s, j, mem)
    <3>1. CASE i = n
      BY <1>3, <1>5, <1>6, <3>1 DEF Below
    <3>2. CASE i # n
      <4>1. i \in 1..(Len(calls) - 1) /\ i + 1 \in 1..n
        BY <1>1, <3>2
      <4>2. Entered(calls[i]) /\ \E j \in PartKeys(calls[i].d, mem) :
              Takes(calls[i].d, calls[i].s, j, mem) /\ <<calls[i + 1].d, calls[i + 1].s>> = Below(calls[i], j)
        BY <1>2, <4>1 DEF ChainInv
      <4> QED  BY <1>6, <4>1, <4>2 DEF Entered, Below
    <3> QED  BY <3>1, <3>2
  <2>2. ASSUME NEW i \in 1..(n + 1), NEW j \in 1..(n + 1), i < j, Kind(calls'[i].d, mem) = "map"
        PROVE  calls'[j].d = calls'[j].s
    <3>1. i \in 1..n
      BY <1>1, <2>2
    <3>2. CASE j \in 1..n
      BY <1>1, <1>2, <1>6, <2>2, <3>1, <3>2 DEF ChainInv
    <3>3. CASE j = n + 1
      <4>1. CASE i = n
        <5>1. calls'[n].d = c.d /\ calls'[j].d = d /\ calls'[j].s = s
          BY <1>1, <1>5, <1>6, <3>3
        <5> QED  BY <1>4, <2>2, <4>1, <5>1
      <4>2. CASE i # n
        <5>1. c.d = c.s
          <6>1. Kind(calls[i].d, mem) = "map" /\ i \in DOMAIN calls /\ n \in DOMAIN calls /\ i < n
            BY <1>1, <1>6, <2>2, <3>1, <4>2
          <6> QED  BY <1>2, <6>1 DEF ChainInv
        <5> QED  BY <1>4, <1>5, <3>3, <5>1
      <4> QED  BY <4>1, <4>2
    <3> QED  BY <1>1, <3>2, <3>3
  <2>3. Len(calls') - 1 = n
    BY <1>1, <1>5
  <2> QED  BY <1>5, <2>1, <2>2, <2>3 DEF ChainInv, Entered, Below
<1>12. PastInv'
  <2>1. ASSUME NEW i \in 1..(n + 1), AtOnce(calls'[i].d, calls'[i].s, mem) = "parts",
               NEW j \in PartKeys(calls'[i].d, mem) \ calls'[i].todo,
               NEW b, b = <<Part(calls'[i].d, j, mem), SrcPart(calls'[i].d, calls'[i].s, j, mem)>>
        PROVE  /\ Takes(calls'[i].d, calls'[i].s, j, mem)
               /\ \/ b \in same
                  \/ i < n + 1 /\ b = <<calls'[i + 1].d, calls'[i + 1].s>>
    <3>1. i \in 1..n
      BY <1>1, <1>5, <2>1
    <3>2. CASE i = n /\ j = k
      BY <1>1, <1>5, <1>6, <2>1, <3>1, <3>2 DEF Below
    <3>3. CASE ~(i = n /\ j = k)
      <4>1. /\ Entered(calls[i]) /\ j \in PartKeys(calls[i].d, mem) \ calls[i].todo
            /\ b = Below(calls[i], j)
        BY <1>6, <2>1, <3>1, <3>3 DEF Entered, Below
      <4>2. /\ Takes(calls[i].d, calls[i].s, j, mem)
            /\ b \in same \/ (i < n /\ b = <<calls[i + 1].d, calls[i + 1].s>>)
        BY <1>1, <1>2, <3>1, <4>1 DEF PastInv
      <4>3. i < n => i + 1 \in 1..n /\ i < n + 1
        BY <1>1, <3>1
      <4> QED  BY <1>6, <3>1, <4>2, <4>3
    <3> QED  BY <3>2, <3>3
  <2> QED  BY <1>5, <2>1 DEF PastInv, Entered, Below
<1>13. SameInv'
  BY <1>2 DEF SameInv, Proved
<1>14. VerdictInv'
  BY <1>1, <1>5 DEF VerdictInv, Top
<1> QED  BY <1>7, <1>8, <1>9, <1>10, <1>11, <1>12, <1>13, <1>14 DEF IInv, EqualInv

LEMMA EqualPartStep == IInv /\ EqualPart => IInv'
<1> SUFFICES ASSUME IInv, EqualPart  PROVE IInv'
  OBVIOUS
<1>1. /\ pc = "equal"
      /\ UNCHANGED <<mem, dst, src, outcome, copied, writes, same, from, snapshot>>
  BY DEF EqualPart
<1>2. PICK k \in NextKeys(Top.d, Top.todo, mem) :
        \/ /\ verdict' \in {"panic", "overflow"} /\ pc' = "compared" /\ UNCHANGED calls
           /\ verdict' = "panic" => ~Takes(Top.d, Top.s, k, mem)
           /\ verdict' = "overflow" => Takes(Top.d, Top.s, k, mem) /\ Len(calls) = Stack
        \/ /\ Takes(Top.d, Top.s, k, mem) /\ Len(calls) < Stack
           /\ CallEqual(Part(Top.d, k, mem), SrcPart(Top.d, Top.s, k, mem), Past(k))
  BY DEF EqualPart
<1>3. k \in Top.todo
  BY <1>2 DEF NextKeys
<1>4. CASE /\ verdict' \in {"panic", "overflow"} /\ pc' = "compared" /\ UNCHANGED calls
           /\ verdict' = "panic" => ~Takes(Top.d, Top.s, k, mem)
           /\ verdict' = "overflow" => Takes(Top.d, Top.s, k, mem) /\ Len(calls) = Stack
  <2>1. /\ FirstInv /\ (\A i \in DOMAIN calls : EqualFrame(calls[i]))
        /\ ChainInv /\ PastInv /\ SameInv /\ Len(calls) > 0
    BY <1>1, EqualTop
  <2>2. PhaseInv' /\ MemoryInv' /\ CopyInv'
    BY <1>1, <1>4, EqualLeaves
  <2>3. FrameInv'
    BY <1>1, <1>4 DEF IInv, FrameInv
  <2>4. FirstInv' /\ (\A i \in DOMAIN calls : EqualFrame(calls[i]))' /\ ChainInv' /\ PastInv' /\ SameInv'
    BY <1>1, <1>4, <2>1
    DEF FirstInv, ArgsAlike, EqualFrame, Entered, ChainInv, Below, PastInv, SameInv, Proved
  <2>5. VerdictInv'
    <3>1. Top' = Top
      BY <1>4 DEF Top
    <3>2. k \in PartKeys(Top.d, mem) /\ Entered(Top)
      <4>1. EqualFrame(Top)
        BY <1>1, EqualTop
      <4> QED  BY <1>3, <4>1 DEF EqualFrame
    <3> HIDE DEF Top
    <3> QED  BY <1>1, <1>4, <2>1, <3>1, <3>2 DEF VerdictInv, Entered
  <2> QED  BY <2>2, <2>3, <2>4, <2>5 DEF IInv, EqualInv
<1>5. CASE /\ Takes(Top.d, Top.s, k, mem) /\ Len(calls) < Stack
           /\ CallEqual(Part(Top.d, k, mem), SrcPart(Top.d, Top.s, k, mem), Past(k))
  BY <1>1, <1>3, <1>5, EqualDeeper DEF Top, Below
<1> QED  BY <1>2, <1>4, <1>5

LEMMA EqualReturnStep == IInv /\ EqualReturn => IInv'
<1> SUFFICES ASSUME IInv, EqualReturn, NEW n, n = Len(calls), NEW c, c = calls[n]
             PROVE  IInv'
  OBVIOUS
<1>1. /\ pc = "equal" /\ c.todo = {} /\ same' = same \cup {<<c.d, c.s>>} /\ calls' = Popped
      /\ \/ n > 1 /\ UNCHANGED <<pc, verdict>>
         \/ n = 1 /\ pc' = "compared" /\ verdict' = "true"
      /\ UNCHANGED <<mem, dst, src, outcome, copied, writes, from, snapshot>>
  BY DEF EqualReturn, Top
<1>2. /\ IsHeap(mem) /\ Len(mem) \in Nat /\ calls \in Seq(Frame) /\ n \in Nat \ {0} /\ n <= Stack
      /\ DOMAIN calls = 1..n /\ n \in 1..n /\ verdict = "none" /\ Stack \in Nat
      /\ \A i \in 1..n : calls[i].d \in 0..Len(mem) /\ calls[i].s \in 0..Len(mem)
  BY <1>1, EqualTop
<1>3. /\ FirstInv /\ (\A i \in 1..n : EqualFrame(calls[i])) /\ ChainInv /\ PastInv /\ SameInv
      /\ AtOnce(c.d, c.s, mem) \in {"true", "parts"}
  BY <1>1, EqualTop DEF VerdictInv
<1>4. /\ calls' \in Seq(Frame) /\ Len(calls') = n - 1 /\ DOMAIN calls' = 1..(n - 1)
      /\ \A i \in 1..(n - 1) : i \in 1..n /\ calls'[i] = calls[i]
  <2>1. Len(calls) > 0
    BY <1>2
  <2> QED  BY <1>1, <1>2, <2>1, PoppedIs
<1>5. PhaseInv' /\ MemoryInv' /\ CopyInv'
  BY <1>1, <1>2, EqualLeaves
<1>6. FrameInv'
  BY <1>1, <1>2, <1>4 DEF IInv, FrameInv
<1>7. FirstInv' /\ (\A i \in DOMAIN calls : EqualFrame(calls[i]))'
  <2>1. FirstInv'
    <3>1. n - 1 > 0 => Len(calls) > 0 /\ 1 \in 1..(n - 1)
      BY <1>2
    <3> QED  BY <1>1, <1>3, <1>4, <3>1 DEF FirstInv, ArgsAlike
  <2>2. \A i \in 1..(n - 1) : EqualFrame(calls'[i])
    BY <1>3, <1>4 DEF EqualFrame, Entered
  <2> QED  BY <1>1, <1>4, <2>1, <2>2 DEF EqualFrame, Entered
<1>8. ChainInv'
  <2>1. ASSUME NEW i \in 1..(Len(calls') - 1)
        PROVE  i \in 1..(Len(calls) - 1) /\ calls'[i] = calls[i] /\ calls'[i + 1] = calls[i + 1]
    BY <1>2, <1>4
  <2>2. ASSUME NEW i \in 1..(Len(calls') - 1)
        PROVE  /\ AtOnce(calls'[i].d, calls'[i].s, mem) = "parts"
               /\ \E k \in PartKeys(calls'[i].d, mem) :
                    /\ Takes(calls'[i].d, calls'[i].s, k, mem)
                    /\ <<calls'[i + 1].d, calls'[i + 1].s>>
                        = <<Part(calls'[i].d, k, mem), SrcPart(calls'[i].d, calls'[i].s, k, mem)>>
    BY <1>3, <2>1 DEF ChainInv, Entered, Below
  <2>3. ASSUME NEW i \in DOMAIN calls', NEW j \in DOMAIN calls', i < j, Kind(calls'[i].d, mem) = "map"
        PROVE  calls'[j].d = calls'[j].s
    BY <1>2, <1>3, <1>4, <2>3 DEF ChainInv
  <2> QED  BY <1>1, <2>2, <2>3 DEF ChainInv, Entered, Below
<1>9. PastInv'
  <2>1. ASSUME NEW i \in 1..(n - 1), AtOnce(calls[i].d, calls[i].s, mem) = "parts",
               NEW j \in PartKeys(calls[i].d, mem) \ calls[i].todo,
               NEW b, b = <<Part(calls[i].d, j, mem), SrcPart(calls[i].d, calls[i].s, j, mem)>>
        PROVE  /\ Takes(calls[i].d, calls[i].s, j, mem)
               /\ \/ b \in same'
                  \/ i < n - 1 /\ b = <<calls'[i + 1].d, calls'[i + 1].s>>
    <3>1. /\ Takes(calls[i].d, calls[i].s, j, mem)
          /\ b \in same \/ b = <<calls[i + 1].d, calls[i + 1].s>>
      <4>1. i \in DOMAIN calls /\ Entered(calls[i]) /\ Below(calls[i], j) = b
        BY <1>2, <2>1 DEF Entered, Below
      <4> QED  BY <1>3, <2>1, <4>1 DEF PastInv
    <3>2. CASE i = n - 1
      <4>1. calls[i + 1] = c
        BY <1>2, <3>2
      <4> QED  BY <1>1, <3>1, <4>1
    <3>3. CASE i # n - 1
      <4>1. i < n - 1 /\ i + 1 \in 1..(n - 1)
        BY <1>2, <3>3
      <4> QED  BY <1>1, <1>4, <3>1, <4>1
    <3> QED  BY <3>2, <3>3
  <2>2. \A i \in DOMAIN calls' : i \in 1..(n - 1) /\ calls'[i] = calls[i]
    BY <1>4
  <2>3. ASSUME NEW i \in DOMAIN calls', AtOnce(calls'[i].d, calls'[i].s, mem) = "parts",
               NEW j \in PartKeys(calls'[i].d, mem) \ calls'[i].todo
        PROVE  LET b == <<Part(calls'[i].d, j, mem), SrcPart(calls'[i].d, calls'[i].s, j, mem)>> IN
               /\ Takes(calls'[i].d, calls'[i].s, j, mem)
               /\ b \in same' \/ (i < Len(calls') /\ b = <<calls'[i + 1].d, calls'[i + 1].s>>)
    <3>1. /\ i \in 1..(n - 1) /\ calls'[i] = calls[i] /\ Len(calls') = n - 1
          /\ AtOnce(calls[i].d, calls[i].s, mem) = "parts"
          /\ j \in PartKeys(calls[i].d, mem) \ calls[i].todo
      BY <1>4, <2>2, <2>3
    <3> QED  BY <2>1, <3>1
  <2> QED  BY <1>1, <2>3 DEF PastInv, Entered, Below
<1>10. SameInv'
  <2>1. AtOnce(c.d, c.s, mem) = "parts" => \A k \in PartKeys(c.d, mem) :
          /\ Takes(c.d, c.s, k, mem)
          /\ <<Part(c.d, k, mem), SrcPart(c.d, c.s, k, mem)>> \in same
    <3>1. /\ n \in DOMAIN calls /\ ~(n < Len(calls))
          /\ Entered(calls[n]) => \A k \in PartKeys(c.d, mem) \ c.todo :
               Takes(c.d, c.s, k, mem) /\ (Below(calls[n], k) \in same \/ n < Len(calls))
      BY <1>2, <1>3 DEF PastInv
    <3> QED  BY <1>1, <3>1 DEF Entered, Below
  <2>2. Kind(c.d, mem) # "block" /\ c.d \in 0..Len(mem) /\ c.s \in 0..Len(mem)
    BY <1>2, <1>3 DEF EqualFrame
  <2>3. ASSUME NEW p \in same'
        PROVE  /\ p \in (0..Len(mem)) \X (0..Len(mem)) /\ Kind(p[1], mem) # "block"
               /\ \/ AtOnce(p[1], p[2], mem) = "true"
                  \/ /\ AtOnce(p[1], p[2], mem) = "parts"
                     /\ \A k \in PartKeys(p[1], mem) :
                          /\ Takes(p[1], p[2], k, mem)
                          /\ <<Part(p[1], k, mem), SrcPart(p[1], p[2], k, mem)>> \in same'
    <3>1. CASE p \in same
      BY <1>1, <1>3, <3>1 DEF SameInv, Proved
    <3>2. CASE p = <<c.d, c.s>>
      <4>1. p[1] = c.d /\ p[2] = c.s
        BY <3>2
      <4> QED  BY <1>1, <1>3, <2>1, <2>2, <3>2, <4>1
    <3> QED  BY <1>1, <3>1, <3>2
  <2> QED  BY <1>1, <2>3 DEF SameInv, Proved
<1>11. VerdictInv'
  <2>1. CASE n > 1
    <3>1. n - 1 \in 1..(Len(calls) - 1) /\ n - 1 \in 1..(n - 1)
      BY <1>2, <2>1
    <3>2. AtOnce(calls[n - 1].d, calls[n - 1].s, mem) = "parts" /\ Top' = calls[n - 1]
      BY <1>3, <1>4, <3>1 DEF ChainInv, Entered, Top
    <3> QED  BY <1>1, <1>2, <2>1, <3>2 DEF VerdictInv
  <2>2. CASE n = 1
    <3>1. ArgsAlike /\ c.d = dst /\ c.s = src
      BY <1>2, <1>3, <2>2 DEF FirstInv
    <3> QED  BY <1>1, <2>2, <3>1 DEF VerdictInv, ArgsAlike
  <2> QED  BY <1>1, <2>1, <2>2
<1> QED  BY <1>5, <1>6, <1>7, <1>8, <1>9, <1>10, <1>11 DEF IInv, EqualInv

-----------------------------------------------------------------------------
(* What the comparison comes to.                                           *)

LEMMA Alike ==
  ASSUME NEW m, IsHeap(m), NEW d \in 1..Len(m), NEW s \in 1..Len(m), m[d].type = m[s].type
  PROVE  /\ Kind(d, m) = Kind(s, m) /\ Kind(d, m) \in Kinds \ {"invalid"}
         /\ Kind(d, m) \in {"array", "struct"} => PartKeys(d, m) = PartKeys(s, m)
         /\ Kind(d, m) \notin {"block", "interface"} =>
              \A k \in PartKeys(d, m) \cap PartKeys(s, m) :
                Part(d, k, m) # 0 /\ Part(s, k, m) # 0 =>
                  m[Part(d, k, m)].type = m[Part(s, k, m)].type
         /\ Kind(d, m) \in {"bool", "int", "int8", "uint8", "float", "func", "chan"} =>
              PartKeys(d, m) = {}
<1>1. m \in Seq(Nodes) /\ DOMAIN m = 1..Len(m) /\ IsMemory(m)
  BY HeapIs
<1>2. d # 0 /\ s # 0 /\ Kind(d, m) = Kind(s, m) /\ Kind(d, m) \in Kinds \ {"invalid"}
  <2>1. d # 0 /\ s # 0 /\ d \in 0..Len(m)
    BY <1>1
  <2> QED  BY <1>1, <2>1, KindIs DEF Kind
<1>3. Kind(d, m) \in {"array", "struct"} => PartKeys(d, m) = PartKeys(s, m)
  BY <1>1 DEF IsHeap
<1>4. ASSUME Kind(d, m) \notin {"block", "interface"}, NEW k \in PartKeys(d, m) \cap PartKeys(s, m),
             Part(d, k, m) # 0, Part(s, k, m) # 0
      PROVE  m[Part(d, k, m)].type = m[Part(s, k, m)].type
  BY <1>1, <1>4 DEF IsHeap
<1>5. ASSUME Kind(d, m) \in {"bool", "int", "int8", "uint8", "float", "func", "chan"}
      PROVE  PartKeys(d, m) = {}
  <2>1. DOMAIN m[d].kids = {}
    BY <1>1, <1>5 DEF IsHeap
  <2> QED  BY <1>5, <2>1 DEF PartKeys
<1> QED  BY <1>2, <1>3, <1>4, <1>5

LEMMA SliceIs ==
  ASSUME NEW m, IsHeap(m), NEW v \in 1..Len(m), Kind(v, m) = "slice"
  PROVE  /\ Size(v, m) = m[v].data /\ m[v].data \in Nat /\ PartKeys(v, m) = 1..m[v].data
         /\ IsNil(v, m) => m[v].data = 0
<1>1. m \in Seq(Nodes) /\ DOMAIN m = 1..Len(m)
  BY HeapIs
<1>2. \/ DOMAIN m[v].kids = {} /\ m[v].data = 0
      \/ DOMAIN m[v].kids = {1} /\ m[v].data \in Nat
  BY <1>1 DEF IsHeap
<1>3. IsNil(v, m) => m[v].data = 0
  BY <1>2, Refers
<1> QED  BY <1>2, <1>3 DEF Size, PartKeys

\* What is found to differ at once differs; a channel from anything.
LEMMA FalseDiffers ==
  ASSUME NEW m, IsHeap(m), NEW d \in 0..Len(m), NEW s \in 0..Len(m), Kind(d, m) # "block",
         AtOnce(d, s, m) \in {"false", "panic"}
  PROVE  Differ(d, s, m) \/ Kind(d, m) = "chan"
<1> SUFFICES ASSUME d # 0, s # 0, m[d].type = m[s].type, Kind(d, m) # "chan"
             PROVE  Differ(d, s, m)
  BY DEF Differ
<1>1. /\ d \in 1..Len(m) /\ s \in 1..Len(m)
      /\ Kind(d, m) = Kind(s, m) /\ Kind(d, m) \in Kinds \ {"invalid", "block", "chan"}
  <2>1. d \in 1..Len(m) /\ s \in 1..Len(m)
    BY HeapIs
  <2> QED  BY <2>1, Alike
<1>2. AtOnce(d, s, m) = "false"
  BY <1>1, AtOnceAlike
<1>3. CASE Kind(d, m) \in {"bool", "int", "int8", "uint8", "string"}
  BY <1>1, <1>2, <1>3, AtOnceAlike DEF Differ
<1>4. CASE Kind(d, m) = "float"
  BY <1>1, <1>2, <1>4, AtOnceAlike DEF Differ
<1>5. CASE Kind(d, m) = "func"
  BY <1>1, <1>2, <1>5, AtOnceAlike DEF Differ
<1>6. CASE Kind(d, m) = "interface"
  <2>1. (IsNil(d, m) \/ IsNil(s, m)) /\ ~(IsNil(d, m) /\ IsNil(s, m))
    BY <1>1, <1>2, <1>6, AtOnceAlike
  <2>2. IsNil(d, m) # IsNil(s, m)
    BY <2>1 DEF IsNil
  <2> QED  BY <1>6, <2>2 DEF Differ
<1>7. CASE Kind(d, m) = "slice"
  <2>1. m[d].data # m[s].data /\ m[d].data \in Nat /\ m[s].data \in Nat
    <3>1. Size(d, m) # Size(s, m)
      BY <1>1, <1>2, <1>7, AtOnceAlike
    <3>2. Size(d, m) = m[d].data /\ m[d].data \in Nat
      BY <1>1, <1>7, SliceIs
    <3>3. Size(s, m) = m[s].data /\ m[s].data \in Nat
      BY <1>1, <1>7, SliceIs
    <3> QED  BY <3>1, <3>2, <3>3
  <2>2. PartKeys(d, m) = 1..m[d].data /\ PartKeys(s, m) = 1..m[s].data
    BY <1>1, <1>7, SliceIs
  <2>3. PartKeys(d, m) # PartKeys(s, m)
    BY <2>1, <2>2
  <2> QED  BY <1>7, <2>3 DEF Differ
<1>8. CASE Kind(d, m) = "map"
  <2>1. PartKeys(d, m) # PartKeys(s, m)
    BY <1>1, <1>2, <1>8, AtOnceAlike DEF Size
  <2> QED  BY <1>8, <2>1 DEF Differ
<1>9. CASE Kind(d, m) \in {"pointer", "array", "struct"}
  BY <1>1, <1>2, <1>9, AtOnceAlike
<1> QED  BY <1>1, <1>3, <1>4, <1>5, <1>6, <1>7, <1>8, <1>9 DEF Kinds

\* Of two values of one type, the second one has every part that it is asked for.
LEMMA AlikeTakes ==
  ASSUME NEW m, IsHeap(m), NEW d \in 1..Len(m), NEW s \in 1..Len(m), m[d].type = m[s].type,
         AtOnce(d, s, m) = "parts", NEW k \in PartKeys(d, m)
  PROVE  Takes(d, s, k, m)
<1>1. Kind(d, m) = Kind(s, m)
  BY Alike
<1>2. Kind(d, m) \in {"slice", "array", "struct", "map", "interface", "pointer"}
  BY AtOnceIs
<1>3. CASE Kind(d, m) = "map"
  BY <1>3 DEF Takes
<1>4. CASE Kind(d, m) \in {"array", "struct"}
  <2>1. k \in PartKeys(s, m)
    BY <1>4, Alike
  <2> QED  BY <1>1, <1>4, <2>1 DEF Takes, Accepts
<1>5. CASE Kind(d, m) = "slice"
  <2>1. k \in PartKeys(s, m)
    <3>1. Size(d, m) = Size(s, m)
      BY <1>5, AtOnceIs
    <3>2. Size(d, m) = m[d].data /\ PartKeys(d, m) = 1..m[d].data
      BY <1>5, SliceIs
    <3>3. Size(s, m) = m[s].data /\ PartKeys(s, m) = 1..m[s].data
      BY <1>1, <1>5, SliceIs
    <3> QED  BY <3>1, <3>2, <3>3
  <2> QED  BY <1>1, <1>5, <2>1 DEF Takes, Accepts
<1>6. CASE Kind(d, m) \in {"interface", "pointer"}
  <2>1. k \in PartKeys(s, m)
    <3>1. Kind(d, m) = "interface" => PartKeys(d, m) = {1} /\ PartKeys(s, m) = {1}
      <4> SUFFICES ASSUME Kind(d, m) = "interface"  PROVE PartKeys(d, m) = {1} /\ PartKeys(s, m) = {1}
        OBVIOUS
      <4>1. ~IsNil(d, m) /\ ~IsNil(s, m)
        BY AtOnceIs
      <4>2. DOMAIN m[d].kids = {1}
        BY <4>1, Refers
      <4>3. DOMAIN m[s].kids = {1}
        BY <1>1, <4>1, Refers
      <4> QED  BY <1>1, <4>2, <4>3 DEF PartKeys
    <3>2. Kind(d, m) = "pointer" => PartKeys(d, m) = PartKeys(s, m)
      BY <1>1 DEF PartKeys
    <3> QED  BY <1>6, <3>1, <3>2
  <2> QED  BY <1>1, <1>6, <2>1 DEF Takes, Accepts
<1> QED  BY <1>2, <1>3, <1>4, <1>5, <1>6

\* Nothing is found equal to the zero Value, but something without parts and its text.
LEMMA ZeroProved ==
  ASSUME IsHeap(mem), NEW x \in 0..Len(mem), NEW y \in 0..Len(mem), Proved(<<x, y>>), x = 0 \/ y = 0
  PROVE  /\ x # 0 /\ y = 0
         /\ \/ Kind(x, mem) \in {"array", "struct"} /\ PartKeys(x, mem) = {}
            \/ Kind(x, mem) = "string" /\ mem[x].data = InvalidText
<1>1. AtOnce(x, y, mem) \in {"true", "parts"}
  BY DEF Proved
<1>2. x # 0
  <2>1. Kind(0, mem) = "invalid"
    BY DEF Kind
  <2> QED  BY <1>1, <2>1, AtOnceIs
<1>3. y = 0 /\ Kind(y, mem) = "invalid" /\ Text(y, mem) = InvalidText
  BY <1>2 DEF Kind, Text
<1>4. CASE Kind(x, mem) = "string"
  <2>1. mem[x].data = InvalidText
    BY <1>1, <1>3, <1>4 DEF AtOnce, Getter, Verdict
  <2> QED  BY <1>2, <1>3, <1>4, <2>1
<1>5. CASE Kind(x, mem) # "string"
  <2>1. AtOnce(x, y, mem) # "true"
    BY <1>3, <1>5 DEF AtOnce, Getter, Admits, Accepts, Verdict
  <2>2. Kind(x, mem) \in {"array", "struct"}
    BY <1>1, <1>3, <1>5, <2>1 DEF AtOnce, Getter, Admits, Accepts, Verdict
  <2>3. \A k \in PartKeys(x, mem) : Takes(x, y, k, mem)
    BY <1>1, <2>1 DEF Proved
  <2>4. \A k : ~Takes(x, y, k, mem)
    BY <1>3, <2>2 DEF Takes, Accepts
  <2> QED  BY <1>2, <1>3, <2>2, <2>3, <2>4
<1> QED  BY <1>4, <1>5

\* A pair of one type that was found equal is equal if the pairs it came past are.
LEMMA PairJustified ==
  ASSUME IsHeap(mem), SameInv, NEW d \in 1..Len(mem), NEW s \in 1..Len(mem),
         <<d, s>> \in same, mem[d].type = mem[s].type
  PROVE  EqualButFor(d, s, same, mem)
<1> DEFINE v == AtOnce(d, s, mem)
           Goal == /\ EqualIf(d, s, same, mem)
                   /\ \/ Kind(d, mem) \in {"interface", "string"} \/ Shared(d, s, mem)
                      \/ \A k \in PartKeys(d, mem) :
                           SameType(Part(d, k, mem), Part(s, k, mem), mem)
<1>1. /\ Kind(d, mem) = Kind(s, mem) /\ Kind(d, mem) \in Kinds \ {"invalid", "block"}
      /\ d # 0 /\ s # 0
  <2>1. Kind(d, mem) = Kind(s, mem) /\ Kind(d, mem) \in Kinds \ {"invalid"}
    BY Alike
  <2>2. Kind(d, mem) # "block"
    BY DEF SameInv
  <2>3. d # 0 /\ s # 0
    BY HeapIs
  <2> QED  BY <2>1, <2>2, <2>3
<1>2. /\ v \in {"true", "parts"}
      /\ v = "parts" => \A k \in PartKeys(d, mem) :
           /\ Takes(d, s, k, mem)
           /\ <<Part(d, k, mem), SrcPart(d, s, k, mem)>> \in same
  BY DEF SameInv, Proved
<1>3. ASSUME v = "parts", Kind(d, mem) # "map", NEW k \in PartKeys(d, mem)
      PROVE  /\ k \in PartKeys(s, mem) /\ <<Part(d, k, mem), Part(s, k, mem)>> \in same
             /\ Part(d, k, mem) \in 0..Len(mem) /\ Part(s, k, mem) \in 0..Len(mem)
  <2>1. Takes(d, s, k, mem) /\ <<Part(d, k, mem), SrcPart(d, s, k, mem)>> \in same
    BY <1>2, <1>3
  <2>2. d \in 0..Len(mem) /\ s \in 0..Len(mem)
    BY HeapIs
  <2>3. /\ Part(d, k, mem) \in 0..Len(mem) /\ SrcPart(d, s, k, mem) \in 0..Len(mem)
        /\ k \in PartKeys(s, mem) /\ SrcPart(d, s, k, mem) = Part(s, k, mem)
    BY <1>1, <1>3, <2>1, <2>2, TakesBelow
  <2> QED  BY <2>1, <2>3
<1>4. ASSUME v = "parts", Kind(d, mem) \notin {"map", "interface"}, NEW k \in PartKeys(d, mem),
             Part(d, k, mem) # 0, Part(s, k, mem) # 0
      PROVE  mem[Part(d, k, mem)].type = mem[Part(s, k, mem)].type
  <2>1. k \in PartKeys(s, mem)
    BY <1>3, <1>4
  <2> QED  BY <1>1, <1>4, <2>1, Alike
<1>5. ASSUME Kind(d, mem) # "pointer", NEW k
      PROVE  /\ k \in PartKeys(d, mem) => Part(d, k, mem) # 0
             /\ k \in PartKeys(s, mem) => Part(s, k, mem) # 0
  <2>1. d \in 0..Len(mem) /\ s \in 0..Len(mem)
    BY HeapIs
  <2> QED  BY <1>1, <1>5, <2>1, PartIn
<1>6. CASE Kind(d, mem) = "map"
  BY <1>2, <1>6, AtOnceIs DEF EqualButFor
<1>7. CASE Kind(d, mem) = "slice" /\ Size(d, mem) = 0
  <2>1. Size(s, mem) = 0
    BY <1>2, <1>7, AtOnceIs
  <2> QED  BY <1>7, <2>1 DEF EqualButFor
<1>8. CASE Kind(d, mem) = "pointer" /\ ~IsNil(d, mem) /\ IsNil(s, mem)
  <2>1. Pointer(d, mem) # Pointer(s, mem) /\ Pointer(s, mem) = 0
    BY <1>8 DEF IsNil
  <2>2. v = "parts"
    BY <1>2, <1>8, <2>1, AtOnceIs
  <2>3. 1 \in PartKeys(d, mem) /\ Part(d, 1, mem) = Pointer(d, mem) /\ Part(s, 1, mem) = 0
    BY <1>1, <1>8, <2>1 DEF PartKeys, Part
  <2>4. <<Pointer(d, mem), 0>> \in same /\ Pointer(d, mem) \in 0..Len(mem) /\ 0 \in 0..Len(mem)
    BY <1>3, <1>8, <2>2, <2>3
  <2>5. Proved(<<Pointer(d, mem), 0>>)
    BY <2>4 DEF SameInv
  <2>6. LET x == Pointer(d, mem) IN
        \/ Kind(x, mem) \in {"array", "struct"} /\ PartKeys(x, mem) = {}
        \/ Kind(x, mem) = "string" /\ mem[x].data = InvalidText
    BY <2>4, <2>5, ZeroProved
  <2> QED  BY <1>8, <2>6 DEF EqualButFor
<1>9. CASE Kind(d, mem) \in {"bool", "int", "int8", "uint8", "float", "string", "func", "chan"}
  <2>1. (Kind(d, mem) = "string" \/ PartKeys(d, mem) = {}) /\ v = "true"
    <3>1. Kind(d, mem) = "string" \/ PartKeys(d, mem) = {}
      BY <1>9, Alike
    <3> QED  BY <1>2, <1>9, <3>1, AtOnceIs
  <2>2. ~Differ(d, s, mem)
    <3>1. Kind(d, mem) # "chan"
      BY <2>1, AtOnceIs
    <3>2. CASE Kind(d, mem) \in {"bool", "int", "int8", "uint8", "string"}
      BY <1>1, <2>1, <3>2, AtOnceAlike DEF Differ
    <3>3. CASE Kind(d, mem) = "float"
      BY <1>1, <2>1, <3>3, AtOnceAlike DEF Differ
    <3>4. CASE Kind(d, mem) = "func"
      BY <1>1, <2>1, <3>4, AtOnceAlike DEF Differ
    <3> QED  BY <1>9, <3>1, <3>2, <3>3, <3>4
  <2>3. Goal
    BY <2>1, <2>2 DEF EqualIf
  <2> QED  BY <1>9, <2>3 DEF EqualButFor
<1>10. CASE Kind(d, mem) \in {"array", "struct"}
  <2>1. v = "parts"
    BY <1>1, <1>10, AtOnceAlike
  <2>2. ~Differ(d, s, mem)
    BY <1>1, <1>10 DEF Differ
  <2>3. \A k \in PartKeys(d, mem) :
          /\ <<Part(d, k, mem), Part(s, k, mem)>> \in same
          /\ SameType(Part(d, k, mem), Part(s, k, mem), mem)
    BY <1>3, <1>4, <1>5, <1>10, <2>1 DEF SameType
  <2>4. Goal
    BY <2>2, <2>3 DEF EqualIf
  <2> QED  BY <1>10, <2>4 DEF EqualButFor
<1>11. CASE Kind(d, mem) = "slice" /\ Size(d, mem) # 0
  <2>1. Size(s, mem) = Size(d, mem)
    BY <1>2, <1>11, AtOnceIs
  <2>2. Size(d, mem) = mem[d].data /\ PartKeys(d, mem) = 1..mem[d].data
        /\ (IsNil(d, mem) => mem[d].data = 0)
    BY <1>11, SliceIs
  <2>3. Size(s, mem) = mem[s].data /\ PartKeys(s, mem) = 1..mem[s].data
        /\ (IsNil(s, mem) => mem[s].data = 0)
    BY <1>1, <1>11, SliceIs
  <2>4. ~IsNil(d, mem) /\ ~IsNil(s, mem) /\ PartKeys(d, mem) = PartKeys(s, mem)
    BY <1>11, <2>1, <2>2, <2>3
  <2>5. ~Differ(d, s, mem)
    BY <1>1, <1>11, <2>4 DEF Differ, IsNil
  <2>6. CASE v = "true"
    <3>1. Shared(d, s, mem)
      BY <1>11, <2>6, AtOnceIs DEF Shared
    <3>2. Goal
      BY <2>5, <3>1 DEF EqualIf
    <3> QED  BY <1>11, <3>2 DEF EqualButFor
  <2>7. CASE v = "parts"
    <3>1. \A k \in PartKeys(d, mem) :
            /\ <<Part(d, k, mem), Part(s, k, mem)>> \in same
            /\ SameType(Part(d, k, mem), Part(s, k, mem), mem)
      BY <1>3, <1>4, <1>5, <1>11, <2>4, <2>7 DEF SameType
    <3>2. Goal
      BY <2>5, <3>1 DEF EqualIf
    <3> QED  BY <1>11, <3>2 DEF EqualButFor
  <2> QED  BY <1>2, <2>6, <2>7
<1>12. CASE Kind(d, mem) = "interface"
  <2>1. IsNil(d, mem) = IsNil(s, mem)
    BY <1>2, <1>12, AtOnceIs DEF IsNil
  <2>2. ~Differ(d, s, mem)
    BY <1>1, <1>12, <2>1 DEF Differ
  <2>3. \A k \in PartKeys(d, mem) : <<Part(d, k, mem), Part(s, k, mem)>> \in same
    <3>1. CASE v = "true"
      <4>1. IsNil(d, mem)
        BY <1>12, <3>1, AtOnceIs
      <4>2. DOMAIN mem[d].kids = {}
        BY <1>12, <4>1, Refers
      <4> QED  BY <1>12, <4>2 DEF PartKeys
    <3>2. CASE v = "parts"
      BY <1>3, <1>12, <3>2
    <3> QED  BY <1>2, <3>1, <3>2
  <2>4. Goal
    BY <1>12, <2>2, <2>3 DEF EqualIf
  <2> QED  BY <1>12, <2>4 DEF EqualButFor
<1>13. CASE Kind(d, mem) = "pointer" /\ ~(~IsNil(d, mem) /\ IsNil(s, mem))
  <2>1. CASE v = "true"
    <3>1. Pointer(d, mem) = Pointer(s, mem)
      BY <1>13, <2>1, AtOnceIs
    <3>2. ~Differ(d, s, mem) /\ Shared(d, s, mem)
      BY <1>1, <1>13, <3>1 DEF Differ, Shared
    <3>3. Goal
      BY <3>2 DEF EqualIf
    <3> QED  BY <1>13, <3>3 DEF EqualButFor
  <2>2. CASE v = "parts"
    <3>1. Pointer(d, mem) # Pointer(s, mem)
      BY <1>13, <2>2, AtOnceIs
    <3>2. PartKeys(d, mem) = {1} /\ Part(d, 1, mem) = Pointer(d, mem) /\ Part(s, 1, mem) = Pointer(s, mem)
      BY <1>1, <1>13 DEF PartKeys, Part
    <3>3. /\ <<Pointer(d, mem), Pointer(s, mem)>> \in same
          /\ Pointer(d, mem) \in 0..Len(mem) /\ Pointer(s, mem) \in 0..Len(mem)
      BY <1>3, <1>13, <2>2, <3>2
    <3>4. Proved(<<Pointer(d, mem), Pointer(s, mem)>>)
      BY <3>3 DEF SameInv
    <3>5. ~IsNil(d, mem) /\ ~IsNil(s, mem)
      BY <1>13, <3>3, <3>4, ZeroProved DEF IsNil
    <3>6. ~Differ(d, s, mem)
      BY <1>1, <1>13, <3>5 DEF Differ
    <3>7. SameType(Pointer(d, mem), Pointer(s, mem), mem)
      BY <1>4, <1>13, <2>2, <3>2, <3>5 DEF IsNil, SameType
    <3>8. Goal
      BY <3>2, <3>3, <3>6, <3>7 DEF EqualIf
    <3> QED  BY <1>13, <3>8 DEF EqualButFor
  <2> QED  BY <1>2, <2>1, <2>2
<1> QED  BY <1>1, <1>6, <1>7, <1>8, <1>9, <1>10, <1>11, <1>12, <1>13 DEF Kinds

\* A pair of two types that was found equal seems so.
LEMMA PairSeems ==
  ASSUME IsHeap(mem), SameInv, NEW d \in 0..Len(mem), NEW s \in 0..Len(mem), <<d, s>> \in same
  PROVE  SeemEqual(d, s, same, mem)
<1> DEFINE v == AtOnce(d, s, mem)
           kind == Kind(d, mem)
<1>1. /\ Proved(<<d, s>>) /\ kind # "block"
      /\ v \in {"true", "parts"}
      /\ v = "parts" => \A k \in PartKeys(d, mem) :
           /\ Takes(d, s, k, mem)
           /\ <<Part(d, k, mem), SrcPart(d, s, k, mem)>> \in same
  BY DEF SameInv, Proved
<1>2. kind \in Kinds /\ kind # "chan" /\ kind # "invalid"
  <2>1. kind \in Kinds
    BY KindIs, HeapIs
  <2> QED  BY <1>1, <2>1, AtOnceIs
<1>3. d # 0
  BY <1>2 DEF Kind
<1>4. s = 0 => kind \in {"array", "string", "struct"}
  BY <1>1, ZeroProved
<1>5. /\ kind \in DOMAIN Getter => Kind(s, mem) \in Accepts[Getter[kind]] /\ mem[d].data = mem[s].data
      /\ kind = "float" => Kind(s, mem) = "float" /\ mem[d].data = mem[s].data
      /\ kind = "string" => mem[d].data = Text(s, mem)
  <2>1. CASE kind = "bool"
    BY <1>1, <2>1 DEF AtOnce, Getter, Admits, Accepts, Verdict
  <2>2. CASE kind \in {"int", "int8"}
    BY <1>1, <2>2 DEF AtOnce, Getter, Admits, Accepts, Verdict
  <2>3. CASE kind = "uint8"
    BY <1>1, <2>3 DEF AtOnce, Getter, Admits, Accepts, Verdict
  <2>4. CASE kind = "float"
    BY <1>1, <2>4 DEF AtOnce, Getter, Admits, Accepts, Verdict
  <2>5. CASE kind = "string"
    BY <1>1, <2>5 DEF AtOnce, Getter, Verdict
  <2>6. CASE kind \notin {"bool", "int", "int8", "uint8", "float", "string"}
    BY <2>6 DEF Getter
  <2> QED  BY <2>1, <2>2, <2>3, <2>4, <2>5, <2>6
<1>6. kind \in {"map", "slice"} => Size(d, mem) = Size(s, mem)
  BY <1>1, AtOnceIs
<1>7. kind \in {"func", "interface"} => IsNil(d, mem) = IsNil(s, mem)
  <2>1. CASE kind = "interface"
    BY <1>1, <2>1, AtOnceIs DEF IsNil
  <2>2. CASE kind = "func"
    BY <1>1, <2>2 DEF AtOnce, Getter, Admits, Accepts, Verdict, IsNil
  <2> QED  BY <2>1, <2>2
<1>8. \/ kind \in {"map", "string"} \/ Shared(d, s, mem)
      \/ \A k \in PartKeys(d, mem) :
           k \in PartKeys(s, mem) /\ <<Part(d, k, mem), Part(s, k, mem)>> \in same
  <2>1. CASE v = "parts" /\ kind # "map"
    <3>1. ASSUME NEW k \in PartKeys(d, mem)
          PROVE  k \in PartKeys(s, mem) /\ SrcPart(d, s, k, mem) = Part(s, k, mem)
      <4>1. Takes(d, s, k, mem)
        BY <1>1, <2>1
      <4> QED  BY <1>1, <2>1, <4>1, TakesBelow
    <3> QED  BY <1>1, <2>1, <3>1
  <2>2. CASE v = "true" /\ kind \in {"pointer", "slice"}
    BY <2>2, AtOnceIs DEF Shared
  <2>3. CASE v = "true" /\ kind = "interface"
    <3>1. DOMAIN mem[d].kids = {}
      <4>1. IsNil(d, mem) /\ d \in 1..Len(mem)
        BY <1>3, <2>3, AtOnceIs, HeapIs
      <4> QED  BY <2>3, <4>1, Refers
    <3> QED  BY <2>3, <3>1 DEF PartKeys
  <2>4. CASE v = "true" /\ kind \in {"bool", "int", "int8", "uint8", "float", "func"}
    <3>1. d \in 1..Len(mem)
      BY <1>3, HeapIs
    <3> QED  BY <2>4, <3>1, Alike
  <2>5. v = "true" => kind \notin {"array", "struct", "map", "chan", "block", "invalid"}
    BY AtOnceIs
  <2> QED  BY <1>1, <1>2, <2>1, <2>2, <2>3, <2>4, <2>5 DEF Kinds
<1> QED  BY <1>2, <1>3, <1>4, <1>5, <1>6, <1>7, <1>8 DEF SeemEqual

\* What IInv says of a comparison that is over.
LEMMA ComparedIs ==
  ASSUME IInv, pc = "compared"
  PROVE  /\ IsHeap(mem) /\ Len(mem) \in Nat /\ DOMAIN mem = 1..Len(mem)
         /\ calls \in Seq(Frame) /\ Len(calls) \in Nat /\ DOMAIN calls = 1..Len(calls)
         /\ \A i \in 1..Len(calls) : calls[i].d \in 0..Len(mem) /\ calls[i].s \in 0..Len(mem)
         /\ FirstInv /\ (\A i \in 1..Len(calls) : EqualFrame(calls[i]))
         /\ ChainInv /\ SameInv /\ VerdictInv
         /\ dst \in 0..Len(mem) /\ src \in 0..Len(mem)
<1>1. IsHeap(mem) /\ mem \in Seq(Nodes) /\ dst \in 0..Len(mem) /\ src \in 0..Len(mem)
  BY HeapIs DEF IInv, MemoryInv, Started
<1>2. calls \in Seq(Frame)
  BY DEF IInv, FrameInv
<1>3. \A i \in 1..Len(calls) : calls[i] \in Frame
  BY <1>2
<1>4. \A i \in 1..Len(calls) : calls[i].d \in 0..Len(mem) /\ calls[i].s \in 0..Len(mem)
  BY <1>1, <1>2, <1>3 DEF IInv, FrameInv, Frame
<1> QED  BY <1>1, <1>2, <1>4 DEF IInv, EqualInv

LEMMA EqualsInv == IInv => EqualIsJustified
<1> SUFFICES ASSUME IInv, pc = "compared", verdict = "true"
             PROVE  EqualIsJustified
  BY DEF EqualIsJustified
<1>1. IsHeap(mem) /\ SameInv /\ ArgsAlike /\ <<dst, src>> \in same /\ Len(mem) \in Nat
  BY ComparedIs DEF VerdictInv
<1>2. ASSUME NEW p \in same
      PROVE  p[1] \in 0..Len(mem) /\ p[2] \in 0..Len(mem) /\ <<p[1], p[2]>> \in same
  <2>1. p \in (0..Len(mem)) \X (0..Len(mem))
    BY <1>1 DEF SameInv
  <2> QED  BY <2>1
<1>3. ASSUME NEW p \in same, SameType(p[1], p[2], mem)
      PROVE  EqualButFor(p[1], p[2], same, mem)
  <2>1. p[1] # 0 /\ p[2] # 0 /\ mem[p[1]].type = mem[p[2]].type
    BY <1>3 DEF SameType
  <2>2. p[1] \in 0..Len(mem) /\ p[2] \in 0..Len(mem) /\ <<p[1], p[2]>> \in same
    BY <1>2
  <2>3. p[1] \in 1..Len(mem) /\ p[2] \in 1..Len(mem)
    BY <1>1, <2>1, <2>2
  <2> QED  BY <1>1, <2>1, <2>2, <2>3, PairJustified
<1>4. ASSUME NEW p \in same  PROVE SeemEqual(p[1], p[2], same, mem)
  BY <1>1, <1>2, PairSeems
<1> QED  BY <1>1, <1>3, <1>4 DEF EqualIsJustified, ArgsAlike, SameType

\* The calls lead from part to part, and a value with parts is compared only with
\* another one.
LEMMA CallsDescend ==
  ASSUME IInv, pc = "compared", NEW i \in 1..(Len(calls) - 1)
  PROVE  /\ calls[i].d \in 1..Len(mem)
         /\ \E k \in PartKeys(calls[i].d, mem) : calls[i + 1].d = Part(calls[i].d, k, mem)
         /\ \/ Kind(calls[i].d, mem) = "map"
            \/ /\ Descends(calls[i], calls[i + 1], mem) /\ ~Shared(calls[i].d, calls[i].s, mem)
               /\ calls[i].s \in 1..Len(mem)
               /\ \E k \in PartKeys(calls[i].s, mem) : calls[i + 1].s = Part(calls[i].s, k, mem)
<1> DEFINE d == calls[i].d
           s == calls[i].s
<1>1. /\ i \in 1..Len(calls) /\ IsHeap(mem)
      /\ d \in 0..Len(mem) /\ s \in 0..Len(mem) /\ Kind(d, mem) # "block"
  BY ComparedIs DEF EqualFrame
<1>2. PICK k \in PartKeys(d, mem) :
        /\ Takes(d, s, k, mem) /\ AtOnce(d, s, mem) = "parts"
        /\ calls[i + 1].d = Part(d, k, mem) /\ calls[i + 1].s = SrcPart(d, s, k, mem)
  BY ComparedIs DEF ChainInv, Entered, Below
<1> HIDE DEF d, s
<1>3. d \in 1..Len(mem)
  BY <1>1, <1>2, TakesBelow
<1>4. CASE Kind(d, mem) # "map"
  <2>1. s \in 1..Len(mem) /\ k \in PartKeys(s, mem) /\ calls[i + 1].s = Part(s, k, mem)
    BY <1>1, <1>2, <1>4, TakesBelow
  <2>2. ~Shared(d, s, mem)
    BY <1>2, <1>4, AtOnceIs DEF Shared
  <2> QED  BY <1>2, <1>3, <2>1, <2>2 DEF Descends, d, s
<1> QED  BY <1>2, <1>3, <1>4 DEF d

LEMMA DifferencesInv == IInv => DifferenceIsReal
<1> SUFFICES ASSUME IInv, pc = "compared", verdict \in {"false", "panic"}, 0 \notin {dst, src},
                    mem[dst].type = mem[src].type
             PROVE  DifferenceIsReal
  BY DEF DifferenceIsReal
<1> DEFINE n == Len(calls)
           d == calls[n].d
           s == calls[n].s
<1>1. /\ n > 0 /\ n \in Nat /\ n \in DOMAIN calls /\ calls[1].d = dst /\ calls[1].s = src
      /\ \/ AtOnce(d, s, mem) \in {"false", "panic"}
         \/ AtOnce(d, s, mem) = "parts" /\ \E k \in PartKeys(d, mem) : ~Takes(d, s, k, mem)
  BY ComparedIs DEF VerdictInv, FirstInv, ArgsAlike, Entered, Top
<1>2. /\ IsHeap(mem) /\ d \in 0..Len(mem) /\ s \in 0..Len(mem) /\ Kind(d, mem) # "block"
      /\ Len(mem) \in Nat
  BY <1>1, ComparedIs DEF EqualFrame
<1>3. Differ(d, s, mem) \/ Kind(d, mem) = "chan"
  <2>1. CASE AtOnce(d, s, mem) \in {"false", "panic"}
    BY <1>2, <2>1, FalseDiffers
  <2>2. CASE AtOnce(d, s, mem) = "parts" /\ \E k \in PartKeys(d, mem) : ~Takes(d, s, k, mem)
    <3>1. ~(d # 0 /\ s # 0 /\ mem[d].type = mem[s].type)
      BY <1>2, <2>2, AlikeTakes
    <3> QED  BY <3>1 DEF Differ
  <2> QED  BY <1>1, <2>1, <2>2
<1>4. \A i \in 1..(n - 1) :
        \/ Kind(calls[i].d, mem) = "map"
        \/ Descends(calls[i], calls[i + 1], mem) /\ ~Shared(calls[i].d, calls[i].s, mem)
  BY CallsDescend
<1>5. \A i, j \in DOMAIN calls :
        i < j /\ Kind(calls[i].d, mem) = "map" => calls[j].d = calls[j].s
  BY ComparedIs DEF ChainInv
<1> QED  BY <1>1, <1>3, <1>4, <1>5 DEF DifferenceIsReal

LEMMA Pigeons ==
  ASSUME NEW n \in Nat, NEW size \in Nat, size < n, NEW f, \A i \in 1..n : f[i] \in 1..size
  PROVE  \E i, j \in 1..n : i < j /\ f[i] = f[j]
<1> DEFINE g == [i \in 1..n |-> f[i]]
<1>1. g \in [1..n -> 1..size]
  OBVIOUS
<1>2. /\ IsFiniteSet(1..n) /\ Cardinality(1..n) = n
      /\ IsFiniteSet(1..size) /\ Cardinality(1..size) = size
  BY FS_Interval
<1> HIDE DEF g
<1>3. PICK i \in 1..n, j \in 1..n : i # j /\ g[i] = g[j]
  BY <1>1, <1>2, FS_PigeonHole
<1>4. f[i] = f[j] /\ (i < j \/ j < i)
  BY <1>3 DEF g
<1> QED  BY <1>4

\* A comparison that overflows the stack goes in circles.
LEMMA ComparedOverflow ==
  ASSUME IInv, pc = "compared", verdict = "overflow", Len(mem) < Stack
  PROVE  /\ Circle(Ds, dst, mem)
         /\ Circle(Ss, src, mem) \/ \E i \in DOMAIN calls : Kind(calls[i].d, mem) = "map"
<1> DEFINE n == Len(calls)
           d == calls[n].d
           s == calls[n].s
<1>1. /\ n = Stack /\ n \in Nat \ {0} /\ DOMAIN calls = 1..n /\ Len(mem) \in Nat /\ IsHeap(mem)
      /\ 1 \in 1..n /\ n \in 1..n
      /\ AtOnce(d, s, mem) = "parts"
      /\ \E k \in PartKeys(d, mem) : Takes(d, s, k, mem)
  BY ComparedIs, BoundsAssumption DEF VerdictInv, Entered, Top
<1>2. /\ calls[1].d = dst /\ calls[1].s = src
      /\ d \in 0..Len(mem) /\ s \in 0..Len(mem) /\ Kind(d, mem) # "block"
  BY <1>1, ComparedIs DEF FirstInv, EqualFrame
<1>3. d \in 1..Len(mem) /\ (Kind(d, mem) # "map" => s \in 1..Len(mem))
  <2> HIDE DEF d, s
  <2> QED  BY <1>1, <1>2, TakesBelow
<1>4. ASSUME NEW i \in 1..n
      PROVE  calls[i].d \in 1..Len(mem) /\ (Kind(calls[i].d, mem) # "map" => calls[i].s \in 1..Len(mem))
  <2>1. CASE i = n
    BY <1>3, <2>1
  <2>2. CASE i # n
    <3>1. i \in 1..(Len(calls) - 1)
      BY <1>1, <2>2
    <3> QED  BY <3>1, CallsDescend
  <2> QED  BY <2>1, <2>2
<1>5. /\ \A i \in 1..n : Ds[i] = calls[i].d /\ Ss[i] = calls[i].s
      /\ \A i \in 1..(n - 1) : i \in 1..n /\ i + 1 \in 1..n
  BY <1>1 DEF Ds, Ss
<1> HIDE DEF n
<1>6. Circle(Ds, dst, mem)
  <2>1. \A i \in 1..(n - 1) : \E k \in PartKeys(Ds[i], mem) : Ds[i + 1] = Part(Ds[i], k, mem)
    BY <1>5, CallsDescend DEF n
  <2>2. \E i, j \in 1..n : i < j /\ Ds[i] = Ds[j]
    <3>1. \A i \in 1..n : Ds[i] \in 1..Len(mem)
      BY <1>4, <1>5
    <3>2. n \in Nat /\ Len(mem) \in Nat /\ Len(mem) < n
      BY <1>1
    <3> HIDE DEF Ds
    <3> QED  BY <3>1, <3>2, Pigeons
  <2>3. Ds[1] = dst
    BY <1>1, <1>2, <1>5
  <2> HIDE DEF Ds
  <2> QED  BY <1>1, <2>1, <2>2, <2>3 DEF Circle, Leads, n
<1>7. ASSUME \A i \in DOMAIN calls : Kind(calls[i].d, mem) # "map"
      PROVE  Circle(Ss, src, mem)
  <2>1. \A i \in 1..(n - 1) : \E k \in PartKeys(Ss[i], mem) : Ss[i + 1] = Part(Ss[i], k, mem)
    BY <1>1, <1>5, <1>7, CallsDescend DEF n
  <2>2. \E i, j \in 1..n : i < j /\ Ss[i] = Ss[j]
    <3>1. \A i \in 1..n : Ss[i] \in 1..Len(mem)
      BY <1>1, <1>4, <1>5, <1>7
    <3>2. n \in Nat /\ Len(mem) \in Nat /\ Len(mem) < n
      BY <1>1
    <3> HIDE DEF Ss
    <3> QED  BY <3>1, <3>2, Pigeons
  <2>3. Ss[1] = src
    BY <1>1, <1>2, <1>5
  <2> HIDE DEF Ss
  <2> QED  BY <1>1, <2>1, <2>2, <2>3 DEF Circle, Leads, n
<1> QED  BY <1>6, <1>7

-----------------------------------------------------------------------------
(* What a step of the copy does to the memory.                             *)

\* What is left alone stays the copy that it was.
LEMMA CopyKept ==
  ASSUME NEW m, NEW new, NEW f, NEW g, NEW h, NEW l \in DOMAIN f, l # 0, CopyOf(l, m, f, h),
         new[l] = m[l], new[Holder(l, m)] = m[Holder(l, m)],
         Len(m) \in Nat, Len(new) \in Nat, Len(m) <= Len(new), Len(h) \in Nat,
         DOMAIN f \subseteq DOMAIN g, \A x \in DOMAIN f : g[x] = f[x],
         Kind(l, m) \in InBlock => Holder(l, m) \notin DOMAIN g
  PROVE  /\ Kind(l, new) = Kind(l, m) /\ Holder(l, new) = Holder(l, m)
         /\ CopyOf(l, new, g, h)
         /\ \A todo : Filled(l, todo, m, f, h) => Filled(l, todo, new, g, h)
<1>1. Kind(l, new) = Kind(l, m)
  BY DEF Kind
<1>2. Holder(l, new) = Holder(l, m)
  BY <1>1 DEF Holder
<1>3. CopyOf(l, new, g, h)
  <2> DEFINE held == m[Holder(l, m)].kids
  <2>1. /\ f[l] \in DOMAIN h /\ Kind(f[l], h) # "block"
        /\ m[l].type = h[f[l]].type /\ m[l].data = h[f[l]].data
        /\ Kind(l, m) \notin Deep => m[l].kids = h[f[l]].kids
    BY DEF CopyOf
  <2>2. Kind(l, m) \in InBlock => DOMAIN m[l].kids = {1} /\ Holder(l, m) \in (Len(h) + 1)..Len(m)
    BY DEF CopyOf
  <2>3. Kind(l, m) \in Deep => \A k \in DOMAIN held :
          k \in PartKeys(f[l], h) /\ held[k] \in DOMAIN f /\ f[held[k]] = Part(f[l], k, h)
    BY DEF CopyOf
  <2>4. new[Holder(l, new)].kids = held /\ g[l] = f[l]
    BY <1>2
  <2>5. Kind(l, m) \in InBlock => Holder(l, m) \in (Len(h) + 1)..Len(new)
    BY <2>2
  <2> HIDE DEF held
  <2> QED  BY <1>1, <1>2, <2>1, <2>2, <2>3, <2>4, <2>5 DEF CopyOf
<1>4. \A todo : Filled(l, todo, m, f, h) => Filled(l, todo, new, g, h)
  BY <1>1, <1>2 DEF Filled
<1> QED  BY <1>1, <1>2, <1>3, <1>4

\* At x there is a kid k more, n.
Gains(new, m, x, k, n) ==
  /\ DOMAIN new[x].kids = DOMAIN m[x].kids \cup {k}
  /\ \A j \in DOMAIN new[x].kids : new[x].kids[j] = IF j = k THEN n ELSE m[x].kids[j]

\* Of one location n more it is said what it is the copy of, s.
Grows(g, f, n, s) ==
  DOMAIN g = DOMAIN f \cup {n} /\ g[n] = s /\ \A x \in DOMAIN f : g[x] = f[x]

\* A part more: part k of l is now n, the copy of part k of what l is the copy of.
LEMMA CopyGrows ==
  ASSUME NEW m, NEW new, NEW f, NEW g, NEW h, NEW l \in DOMAIN f, l # 0, CopyOf(l, m, f, h),
         Kind(l, m) \in Deep, NEW k \in PartKeys(f[l], h), NEW n, NEW todo,
         Filled(l, todo, m, f, h),
         new[l].type = m[l].type, new[l].data = m[l].data,
         Kind(l, m) \in InBlock => new[l] = m[l] /\ Holder(l, m) \notin DOMAIN g,
         Gains(new, m, Holder(l, m), k, n),
         Len(m) \in Nat, Len(new) \in Nat, Len(m) <= Len(new), Len(h) \in Nat,
         Grows(g, f, n, Part(f[l], k, h))
  PROVE  /\ Kind(l, new) = Kind(l, m) /\ Holder(l, new) = Holder(l, m)
         /\ CopyOf(l, new, g, h) /\ Filled(l, todo \ {k}, new, g, h)
<1>6. /\ DOMAIN g = DOMAIN f \cup {n} /\ g[n] = Part(f[l], k, h)
      /\ \A x \in DOMAIN f : g[x] = f[x]
  BY DEF Grows
<1>1. Kind(l, new) = Kind(l, m)
  BY DEF Kind
<1>2. Holder(l, new) = Holder(l, m)
  BY <1>1 DEF Holder
<1> DEFINE held == m[Holder(l, m)].kids
           now == new[Holder(l, m)].kids
<1>3. /\ DOMAIN now = DOMAIN held \cup {k} /\ now = new[Holder(l, new)].kids
      /\ \A j \in DOMAIN now : now[j] = IF j = k THEN n ELSE held[j]
  BY <1>2 DEF Gains
<1>4. CopyOf(l, new, g, h)
  <2>1. /\ f[l] \in DOMAIN h /\ Kind(f[l], h) # "block"
        /\ m[l].type = h[f[l]].type /\ m[l].data = h[f[l]].data
    BY DEF CopyOf
  <2>2. Kind(l, m) \in InBlock => DOMAIN m[l].kids = {1} /\ Holder(l, m) \in (Len(h) + 1)..Len(m)
    BY DEF CopyOf
  <2>3. \A j \in DOMAIN held :
          j \in PartKeys(f[l], h) /\ held[j] \in DOMAIN f /\ f[held[j]] = Part(f[l], j, h)
    BY DEF CopyOf
  <2>4. Kind(l, m) \in InBlock => Holder(l, m) \in (Len(h) + 1)..Len(new)
    BY <2>2
  <2> HIDE DEF held, now
  <2>5. \A j \in DOMAIN now :
          j \in PartKeys(f[l], h) /\ now[j] \in DOMAIN g /\ g[now[j]] = Part(f[l], j, h)
    BY <1>3, <1>6, <2>3
  <2>6. g[l] = f[l]
    BY <1>6
  <2> QED  BY <1>1, <1>2, <1>3, <2>1, <2>2, <2>4, <2>5, <2>6 DEF CopyOf
<1>5. Filled(l, todo \ {k}, new, g, h)
  <2>1. DOMAIN held = PartKeys(f[l], h) \ todo /\ g[l] = f[l]
    BY <1>6 DEF Filled
  <2> HIDE DEF held, now
  <2>2. DOMAIN now = PartKeys(f[l], h) \ (todo \ {k})
    BY <1>3, <2>1
  <2> QED  BY <1>3, <2>1, <2>2 DEF Filled
<1> QED  BY <1>1, <1>2, <1>4, <1>5

\* At i of a lies what has been allocated for s: at n, and a block for the parts behind.
Fresh(a, i, s, n, m) ==
  /\ a[i].type = m[s].type /\ a[i].data = m[s].data
  /\ Kind(s, m) \in InBlock =>
       DOMAIN a[i].kids = {1} /\ a[i].kids[1] = n + 1 /\ DOMAIN a[i + 1].kids = {}
  /\ Kind(s, m) \in Deep \ InBlock => DOMAIN a[i].kids = {}
  /\ Kind(s, m) \notin Deep => a[i].kids = m[s].kids

\* What has just been allocated for s is a copy of it with everything still to do.
LEMMA CopyNew ==
  ASSUME NEW new, NEW g, NEW h, Len(h) \in Nat, NEW n \in Nat, Len(h) < n, Len(new) \in Nat,
         NEW m, NEW s \in DOMAIN h, s # 0, Kind(s, h) # "block", g[n] = s, m[s] = h[s],
         Fresh(new, n, s, n, m), Kind(s, h) \in InBlock => n + 1 <= Len(new),
         Kind(s, h) \in InBlock => n + 1 \notin DOMAIN g
  PROVE  /\ Kind(n, new) = Kind(s, h)
         /\ Holder(n, new) = IF Kind(s, h) \in InBlock THEN n + 1 ELSE n
         /\ CopyOf(n, new, g, h) /\ Filled(n, PartKeys(s, h), new, g, h)
<1>7. Kind(s, m) = Kind(s, h)
  BY DEF Kind
<1>8. /\ new[n].type = h[s].type /\ new[n].data = h[s].data
      /\ Kind(s, h) \in InBlock =>
           /\ DOMAIN new[n].kids = {1} /\ new[n].kids[1] = n + 1
           /\ DOMAIN new[n + 1].kids = {}
           /\ n + 1 <= Len(new) /\ n + 1 \notin DOMAIN g
      /\ Kind(s, h) \in Deep \ InBlock => DOMAIN new[n].kids = {}
      /\ Kind(s, h) \notin Deep => new[n].kids = h[s].kids
  BY <1>7 DEF Fresh
<1>1. Kind(n, new) = Kind(s, h)
  BY <1>8 DEF Kind
<1>2. Holder(n, new) = IF Kind(s, h) \in InBlock THEN n + 1 ELSE n
  <2>1. Kind(s, h) \in InBlock => new[n].kids[1] = n + 1 /\ DOMAIN new[n].kids = {1}
    BY <1>8
  <2> QED  BY <1>1, <2>1 DEF Holder
<1>3. Kind(s, h) \in Deep => DOMAIN new[Holder(n, new)].kids = {}
  <2>1. CASE Kind(s, h) \in InBlock
    BY <1>2, <1>8, <2>1
  <2>2. CASE Kind(s, h) \in Deep \ InBlock
    BY <1>2, <1>8, <2>2
  <2> QED  BY <2>1, <2>2
<1>4. Kind(s, h) \in InBlock =>
        /\ DOMAIN new[n].kids = {1}
        /\ Holder(n, new) \in (Len(h) + 1)..Len(new) /\ Holder(n, new) \notin DOMAIN g
  BY <1>2, <1>8
<1>5. CopyOf(n, new, g, h)
  BY <1>1, <1>3, <1>4, <1>8 DEF CopyOf
<1>6. Filled(n, PartKeys(s, h), new, g, h)
  BY <1>1, <1>3 DEF Filled
<1> QED  BY <1>1, <1>2, <1>5, <1>6

\* What is allocated for s, and the memory m once n is part k of what lies at h.
NewFor(m, s, n) ==
  CASE Kind(s, m) \in Deep \cap {"map", "slice"} ->
         <<[m[s] EXCEPT !.kids = <<n + 1>>], Block>>
    [] Kind(s, m) \in Deep \ {"map", "slice"} -> <<[m[s] EXCEPT !.kids = <<>>]>>
    [] OTHER -> <<m[s]>>

Given(m, h, k, n) ==
  LET kids == [j \in DOMAIN m[h].kids \cup {k} |-> IF j = k THEN n ELSE m[h].kids[j]]
  IN [m EXCEPT ![h].kids = kids]

LEMMA NewForIs ==
  ASSUME NEW m \in Seq(Nodes), NEW s \in 1..Len(m), NEW n \in Nat
  PROVE  LET a == NewFor(m, s, n) IN
           /\ a \in Seq(Nodes) /\ Len(a) = IF Kind(s, m) \in InBlock THEN 2 ELSE 1
           /\ Fresh(a, 1, s, n, m)
<1>1. m[s] \in Nodes
  OBVIOUS
<1> DEFINE Kids == UNION {[K -> Nat] : K \in SUBSET Int}
           kid == <<n + 1>>
           nothing == <<>>
<1>2. /\ kid \in Kids /\ DOMAIN kid = {1} /\ kid[1] = n + 1
      /\ nothing \in Kids /\ DOMAIN nothing = {}
  <2>1. kid \in [{1} -> Nat] /\ {1} \in SUBSET Int /\ kid[1] = n + 1
    OBVIOUS
  <2>2. nothing \in [{} -> Nat] /\ {} \in SUBSET Int
    OBVIOUS
  <2> HIDE DEF kid, nothing
  <2> QED  BY <2>1, <2>2
<1>7. Nodes = [type : DOMAIN Types, data : Int, kids : Kids]
  BY DEF Nodes
<1>8. Block = [type |-> "block", data |-> 0, kids |-> nothing]
  BY DEF Block
<1> HIDE DEF Kids, kid, nothing
<1>6. Block \in Nodes /\ DOMAIN Block.kids = {}
  BY <1>2, <1>7, <1>8, TypesAssumption
<1>3. CASE Kind(s, m) \in InBlock
  <2> DEFINE one == [m[s] EXCEPT !.kids = kid]
  <2>1. /\ one \in Nodes /\ one.type = m[s].type /\ one.data = m[s].data
        /\ one.kids = kid
    BY <1>1, <1>2, <1>7
  <2>3. NewFor(m, s, n) = <<one, Block>>
    BY <1>3 DEF NewFor, InBlock, Deep, kid
  <2> HIDE DEF one
  <2>4. /\ <<one, Block>> \in Seq(Nodes) /\ Len(<<one, Block>>) = 2
        /\ <<one, Block>>[1] = one /\ <<one, Block>>[2] = Block
        /\ Kind(s, m) \in Deep
    BY <1>3, <1>6, <2>1 DEF InBlock, Deep
  <2>5. Kind(s, m) \in InBlock /\ Kind(s, m) \in Deep
    BY <1>3 DEF InBlock, Deep
  <2> QED  BY <1>2, <1>6, <2>1, <2>3, <2>4, <2>5 DEF Fresh
<1>4. CASE Kind(s, m) \in Deep \ InBlock
  <2> DEFINE one == [m[s] EXCEPT !.kids = nothing]
  <2>1. /\ one \in Nodes /\ one.type = m[s].type /\ one.data = m[s].data
        /\ one.kids = nothing
    BY <1>1, <1>2, <1>7
  <2>2. NewFor(m, s, n) = <<one>>
    BY <1>4 DEF NewFor, InBlock, Deep, nothing
  <2> HIDE DEF one
  <2>3. /\ <<one>> \in Seq(Nodes) /\ Len(<<one>>) = 1 /\ <<one>>[1] = one
        /\ Kind(s, m) \in Deep /\ Kind(s, m) \notin InBlock
    BY <1>4, <2>1
  <2> QED  BY <1>2, <2>1, <2>2, <2>3 DEF Fresh
<1>5. CASE Kind(s, m) \notin Deep
  <2>1. NewFor(m, s, n) = <<m[s]>>
    BY <1>5 DEF NewFor, Deep
  <2>2. /\ <<m[s]>> \in Seq(Nodes) /\ Len(<<m[s]>>) = 1 /\ <<m[s]>>[1] = m[s]
        /\ Kind(s, m) \notin InBlock
    BY <1>1, <1>5 DEF InBlock, Deep
  <2> QED  BY <1>5, <2>1, <2>2 DEF Fresh
<1> QED  BY <1>3, <1>4, <1>5

Within(m, n) == \A l \in 1..Len(m) : \A k \in DOMAIN m[l].kids : m[l].kids[k] \in 1..n
Fits(n, m, a, s, old) ==
  /\ n = Len(old) + 1 /\ Len(m) = Len(old)
  /\ Len(a) = IF Kind(s, old) \in InBlock THEN 2 ELSE 1

Made(new, m, s, n, old) ==
  /\ new \in Seq(Nodes) /\ Closed(new)
  /\ Len(new) = IF Kind(s, old) \in InBlock THEN n + 1 ELSE n
  /\ DOMAIN new = 1..Len(new)
  /\ \A l \in 1..Len(old) : new[l] = m[l]
  /\ Fresh(new, n, s, n, old)

LEMMA ConcatIs ==
  ASSUME NEW m \in Seq(Nodes), NEW a \in Seq(Nodes)
  PROVE  /\ m \o a \in Seq(Nodes) /\ Len(m \o a) = Len(m) + Len(a)
         /\ \A l \in 1..(Len(m) + Len(a)) :
              (m \o a)[l] = IF l <= Len(m) THEN m[l] ELSE a[l - Len(m)]
  BY ConcatProperties

\* The memory once a call for s has allocated what it is going to return, m being what
\* the caller made of it.
LEMMA CallCopyIs ==
  ASSUME NEW old \in Seq(Nodes), Closed(old), NEW s \in 1..Len(old), NEW n \in Nat,
         NEW m \in Seq(Nodes), Within(m, n), NEW a \in Seq(Nodes), Fresh(a, 1, s, n, old),
         Fits(n, m, a, s, old)
  PROVE  Made(m \o a, m, s, n, old)
<1> DEFINE new == m \o a
<1>1. /\ new \in Seq(Nodes) /\ Len(new) = Len(m) + Len(a)
      /\ \A l \in 1..(Len(m) + Len(a)) : new[l] = IF l <= Len(m) THEN m[l] ELSE a[l - Len(m)]
  BY ConcatIs
<1> HIDE DEF new
<1>2. /\ n = Len(old) + 1 /\ Len(m) = Len(old) /\ Len(old) \in Nat
      /\ Len(a) = IF Kind(s, old) \in InBlock THEN 2 ELSE 1
  BY DEF Fits
<1>3. /\ Len(new) = (IF Kind(s, old) \in InBlock THEN n + 1 ELSE n)
      /\ DOMAIN new = 1..Len(new)
  BY <1>1, <1>2
<1>4. ASSUME NEW l \in 1..Len(old)  PROVE new[l] = m[l]
  <2>1. l \in 1..(Len(m) + Len(a)) /\ l <= Len(m)
    BY <1>2
  <2> QED  BY <1>1, <2>1
<1>5. new[n] = a[1] /\ (Kind(s, old) \in InBlock => new[n + 1] = a[2])
  <2>1. n \in 1..(Len(m) + Len(a)) /\ ~(n <= Len(m)) /\ n - Len(m) = 1
    BY <1>2
  <2>2. Kind(s, old) \in InBlock =>
          n + 1 \in 1..(Len(m) + Len(a)) /\ ~(n + 1 <= Len(m)) /\ n + 1 - Len(m) = 2
    BY <1>2
  <2> QED  BY <1>1, <2>1, <2>2
<1>6. Fresh(new, n, s, n, old)
  BY <1>5 DEF Fresh
<1>7. ASSUME NEW l \in 1..Len(new), NEW k \in DOMAIN new[l].kids
      PROVE  new[l].kids[k] \in 1..Len(new)
  <2>1. 1..n \subseteq 1..Len(new) /\ 1..Len(old) \subseteq 1..n
    BY <1>2, <1>3
  <2>2. CASE l \in 1..Len(old)
    BY <1>2, <1>4, <2>1, <2>2 DEF Within
  <2>3. CASE l = n
    <3>1. CASE Kind(s, old) \in InBlock
      <4>1. k = 1 /\ new[l].kids[k] = n + 1 /\ Len(new) = n + 1
        BY <1>3, <1>6, <2>3, <3>1 DEF Fresh
      <4> QED  BY <4>1
    <3>2. CASE Kind(s, old) \in Deep \ InBlock
      BY <1>6, <2>3, <3>2 DEF Fresh
    <3>3. CASE Kind(s, old) \notin Deep
      <4>1. new[l].kids = old[s].kids
        BY <1>6, <2>3, <3>3 DEF Fresh
      <4>2. \A j \in DOMAIN old[s].kids : old[s].kids[j] \in 1..Len(old)
        BY DEF Closed
      <4> QED  BY <2>1, <4>1, <4>2
    <3> QED  BY <3>1, <3>2, <3>3
  <2>4. CASE l = n + 1 /\ Kind(s, old) \in InBlock
    BY <1>6, <2>4 DEF Fresh
  <2>5. \/ l \in 1..Len(old) \/ l = n
        \/ l = n + 1 /\ Kind(s, old) \in InBlock
    BY <1>2, <1>3
  <2> QED  BY <2>2, <2>3, <2>4, <2>5
<1>8. Closed(new)
  BY <1>7 DEF Closed
<1>9. Made(new, m, s, n, old)
  BY <1>1, <1>3, <1>4, <1>6, <1>8 DEF Made
<1> QED  BY <1>9 DEF new

LEMMA GivenIs ==
  ASSUME NEW m \in Seq(Nodes), NEW h \in 1..Len(m), NEW k \in Int, NEW n \in Nat
  PROVE  /\ Given(m, h, k, n) \in Seq(Nodes) /\ Len(Given(m, h, k, n)) = Len(m)
         /\ \A l \in 1..Len(m) : l # h => Given(m, h, k, n)[l] = m[l]
         /\ Given(m, h, k, n)[h].type = m[h].type /\ Given(m, h, k, n)[h].data = m[h].data
         /\ DOMAIN Given(m, h, k, n)[h].kids = DOMAIN m[h].kids \cup {k}
         /\ \A j \in DOMAIN Given(m, h, k, n)[h].kids :
              Given(m, h, k, n)[h].kids[j] = IF j = k THEN n ELSE m[h].kids[j]
<1>1. m[h] \in Nodes
  OBVIOUS
<1>2. PICK K \in SUBSET Int : m[h].kids \in [K -> Nat]
  BY <1>1 DEF Nodes
<1> DEFINE kids == [j \in DOMAIN m[h].kids \cup {k} |-> IF j = k THEN n ELSE m[h].kids[j]]
           node == [m[h] EXCEPT !.kids = kids]
<1>3. kids \in [K \cup {k} -> Nat] /\ K \cup {k} \in SUBSET Int
  BY <1>2
<1>4. /\ DOMAIN kids = DOMAIN m[h].kids \cup {k}
      /\ \A j \in DOMAIN kids : kids[j] = IF j = k THEN n ELSE m[h].kids[j]
  OBVIOUS
<1>5. Given(m, h, k, n) = [m EXCEPT ![h] = node]
  BY DEF Given
<1> HIDE DEF kids
<1>6. kids \in UNION {[S -> Nat] : S \in SUBSET Int}
  BY <1>3
<1>7. /\ node \in Nodes /\ node.kids = kids
      /\ node.type = m[h].type /\ node.data = m[h].data
  BY <1>1, <1>6 DEF Nodes
<1> HIDE DEF node
<1>8. /\ [m EXCEPT ![h] = node] \in Seq(Nodes) /\ Len([m EXCEPT ![h] = node]) = Len(m)
      /\ [m EXCEPT ![h] = node][h] = node
      /\ \A l \in 1..Len(m) : l # h => [m EXCEPT ![h] = node][l] = m[l]
  BY <1>7
<1> QED  BY <1>4, <1>5, <1>7, <1>8

-----------------------------------------------------------------------------
(* Steps of the copy.                                                      *)

\* What IInv says of the call that a copy is in.
LEMMA CopyTop ==
  ASSUME IInv, pc = "copy"
  PROVE  /\ IsHeap(snapshot) /\ DOMAIN snapshot = 1..Len(snapshot)
         /\ mem \in Seq(Nodes) /\ Closed(mem) /\ DOMAIN mem = 1..Len(mem)
         /\ Len(snapshot) \in Nat /\ Len(mem) \in Nat /\ Len(snapshot) <= Len(mem)
         /\ \A l \in 1..Len(snapshot) : mem[l] = snapshot[l]
         /\ calls \in Seq(Frame) /\ Len(calls) \in Nat \ {0} /\ Len(calls) <= Stack
         /\ DOMAIN calls = 1..Len(calls) /\ Len(calls) \in 1..Len(calls)
         /\ \A i \in 1..Len(calls) : calls[i] \in Frame
         /\ CopiesInv /\ (\A i \in 1..Len(calls) : CopyFrame(calls[i])) /\ CopyChain
         /\ Stack \in Nat
<1>1. IsHeap(snapshot) /\ snapshot \in Seq(Nodes) /\ mem \in Seq(Nodes) /\ Closed(mem)
  BY HeapIs, MemoryIs DEF IInv, MemoryInv, Started
<1>2. Len(snapshot) <= Len(mem) /\ \A l \in DOMAIN snapshot : mem[l] = snapshot[l]
  BY DEF IInv, MemoryInv, PhaseInv
<1>3. calls \in Seq(Frame) /\ Len(calls) > 0 /\ Len(calls) <= Stack
  BY DEF IInv, FrameInv
<1>4. CopiesInv /\ (\A i \in DOMAIN calls : CopyFrame(calls[i])) /\ CopyChain
  BY DEF IInv, CopyInv
<1> QED  BY <1>1, <1>2, <1>3, <1>4, BoundsAssumption

\* What the call under way, c, goes through.
LEMMA CopyAt ==
  ASSUME IInv, pc = "copy", NEW c, c = calls[Len(calls)], NEW k \in c.todo
  PROVE  /\ c.d \in DOMAIN from /\ from[c.d] = c.s /\ CopyOf(c.d, mem, from, snapshot)
         /\ Filled(c.d, c.todo, mem, from, snapshot)
         /\ c.d \in (Len(snapshot) + 1)..Len(mem) /\ c.s \in 1..Len(snapshot)
         /\ Kind(c.d, mem) \in Deep /\ k \in PartKeys(c.s, snapshot) /\ k \in Int
         /\ Kind(c.s, mem) = Kind(c.s, snapshot)
         /\ Part(c.s, k, mem) = Part(c.s, k, snapshot)
         /\ Part(c.s, k, snapshot) \in 0..Len(snapshot)
         /\ Kind(Part(c.s, k, snapshot), snapshot) # "block"
         /\ Part(c.s, k, snapshot) = 0 => Kind(c.s, snapshot) = "pointer" /\ IsNil(c.s, snapshot)
<1>1. IsHeap(snapshot) /\ DOMAIN snapshot = 1..Len(snapshot)
      /\ \A l \in 1..Len(snapshot) : mem[l] = snapshot[l]
  BY CopyTop
<1>2. CopyFrame(c)
  BY CopyTop
<1>3. CopiesInv /\ Len(snapshot) \in Nat /\ Len(mem) \in Nat
  BY CopyTop
<1>4. /\ c.d \in DOMAIN from /\ from[c.d] = c.s /\ k \in PartKeys(c.s, snapshot)
      /\ Kind(c.d, mem) \in Deep /\ Filled(c.d, c.todo, mem, from, snapshot)
  BY <1>2 DEF CopyFrame
<1>5. CopyOf(c.d, mem, from, snapshot) /\ c.d \in (Len(snapshot) + 1)..Len(mem)
  BY <1>3, <1>4 DEF CopiesInv
<1>6. c.s \in 1..Len(snapshot) /\ Kind(c.s, snapshot) # "block"
  BY <1>1, <1>4, <1>5 DEF CopyOf
<1>7. /\ Part(c.s, k, snapshot) \in 0..Len(snapshot) /\ k \in Int
      /\ Kind(Part(c.s, k, snapshot), snapshot) # "block"
      /\ Part(c.s, k, snapshot) = 0 => Kind(c.s, snapshot) = "pointer" /\ IsNil(c.s, snapshot)
  BY <1>1, <1>4, <1>6, PartIn
<1>8. Kind(c.s, mem) = Kind(c.s, snapshot) /\ Part(c.s, k, mem) = Part(c.s, k, snapshot)
  BY <1>1, <1>4, <1>6, Agree
<1> QED  BY <1>4, <1>5, <1>6, <1>7, <1>8

\* The last of the n calls is c.
LastIs(n, c) == n = Len(calls) /\ c = calls[n]

\* The call under way, c, calls for its part k.
LEMMA CopyDeeper ==
  ASSUME IInv, pc = "copy", NEW n, NEW c, LastIs(n, c),
         NEW k \in c.todo, n < Stack, Part(c.s, k, mem) # 0,
         CallCopy(Part(c.s, k, mem), Past(k), WithPart(c.d, k, Len(mem) + 1)),
         UNCHANGED <<dst, src, verdict, copied, writes, same, snapshot>>
  PROVE  IInv'
<1> DEFINE h == snapshot
           p == Part(c.s, k, mem)
           new == Len(mem) + 1
           at == Holder(c.d, mem)
<1>13. n = Len(calls) /\ c = calls[n]
  BY DEF LastIs
<1>1. /\ IsHeap(h) /\ DOMAIN h = 1..Len(h)
      /\ mem \in Seq(Nodes) /\ Closed(mem) /\ DOMAIN mem = 1..Len(mem)
      /\ Len(h) \in Nat /\ Len(mem) \in Nat /\ Len(h) <= Len(mem)
      /\ \A l \in 1..Len(h) : mem[l] = h[l]
      /\ calls \in Seq(Frame) /\ n \in Nat \ {0} /\ n <= Stack
      /\ DOMAIN calls = 1..n /\ n \in 1..n /\ Stack \in Nat
      /\ \A i \in 1..n : calls[i] \in Frame
  BY <1>13, CopyTop
<1>2. CopiesInv /\ (\A i \in 1..n : CopyFrame(calls[i])) /\ CopyChain
  BY <1>13, CopyTop
<1>3. /\ c.d \in DOMAIN from /\ from[c.d] = c.s /\ CopyOf(c.d, mem, from, h)
      /\ Filled(c.d, c.todo, mem, from, h)
      /\ c.d \in (Len(h) + 1)..Len(mem) /\ c.s \in 1..Len(h)
      /\ Kind(c.d, mem) \in Deep /\ k \in PartKeys(c.s, h) /\ k \in Int
      /\ p = Part(c.s, k, h) /\ p \in 0..Len(h) /\ Kind(p, h) # "block"
  BY <1>13, CopyAt
<1>4. /\ p \in 1..Len(h) /\ p \in 1..Len(mem) /\ p # 0 /\ mem[p] = h[p]
      /\ Kind(p, mem) = Kind(p, h) /\ PartKeys(p, mem) = PartKeys(p, h)
  <2>1. p \in 1..Len(h) /\ p # 0
    BY <1>3
  <2> HIDE DEF p
  <2>2. p \in 1..Len(mem) /\ mem[p] = h[p]
    BY <1>1, <2>1
  <2>3. IsHeap(h) /\ (\A l \in DOMAIN h : mem[l] = h[l]) /\ p \in 0..Len(h)
    BY <1>1, <1>3
  <2>4. Kind(p, mem) = Kind(p, h) /\ PartKeys(p, mem) = PartKeys(p, h)
    BY <2>3, Agree
  <2> QED  BY <2>1, <2>2, <2>4
<1>5. /\ at \in (Len(h) + 1)..Len(mem) /\ c.d \in 1..Len(mem) /\ at \in 1..Len(mem)
      /\ Kind(c.d, mem) \in InBlock => DOMAIN mem[c.d].kids = {1} /\ at \notin DOMAIN from
      /\ Kind(c.d, mem) \notin InBlock => at = c.d
  <2>1. Kind(c.d, mem) \notin InBlock => at = c.d
    BY DEF Holder
  <2>2. Kind(c.d, mem) \in InBlock =>
          DOMAIN mem[c.d].kids = {1} /\ at \in (Len(h) + 1)..Len(mem) /\ at \notin DOMAIN from
    BY <1>3 DEF CopyOf
  <2> HIDE DEF at
  <2>3. at \in (Len(h) + 1)..Len(mem)
    BY <1>3, <2>1, <2>2
  <2> QED  BY <1>1, <1>3, <2>1, <2>2, <2>3
<1>6. new \in Nat /\ new > Len(mem) /\ new > Len(h)
  BY <1>1
<1> DEFINE m == Given(mem, at, k, new)
           a == NewFor(mem, p, new)
           made == m \o a
<1>7. /\ m \in Seq(Nodes) /\ Len(m) = Len(mem)
      /\ \A l \in 1..Len(mem) : l # at => m[l] = mem[l]
      /\ m[at].type = mem[at].type /\ m[at].data = mem[at].data
      /\ DOMAIN m[at].kids = DOMAIN mem[at].kids \cup {k}
      /\ \A j \in DOMAIN m[at].kids : m[at].kids[j] = IF j = k THEN new ELSE mem[at].kids[j]
  <2> HIDE DEF new, at
  <2> QED  BY <1>1, <1>3, <1>5, <1>6, GivenIs
<1>8. Within(m, new)
  <2>1. \A l \in 1..Len(mem) : \A j \in DOMAIN mem[l].kids : mem[l].kids[j] \in 1..new
    BY <1>1, <1>6 DEF Closed
  <2>2. new \in 1..new
    BY <1>6
  <2> HIDE DEF new, at, m
  <2> QED  BY <1>5, <1>7, <2>1, <2>2 DEF Within
<1>11. /\ a \in Seq(Nodes) /\ Fresh(a, 1, p, new, mem)
       /\ Len(a) = IF Kind(p, mem) \in InBlock THEN 2 ELSE 1
  <2>1. mem \in Seq(Nodes) /\ p \in 1..Len(mem) /\ new \in Nat
    BY <1>1, <1>4, <1>6
  <2> HIDE DEF new, p, m, at
  <2> QED  BY <2>1, NewForIs
<1>9. /\ made \in Seq(Nodes) /\ Closed(made)
      /\ Len(made) = (IF Kind(p, mem) \in InBlock THEN new + 1 ELSE new)
      /\ DOMAIN made = 1..Len(made)
      /\ \A l \in 1..Len(mem) : made[l] = m[l]
      /\ Fresh(made, new, p, new, mem)
  <2>1. Fits(new, m, a, p, mem)
    <3> HIDE DEF m, a, p
    <3> QED  BY <1>7, <1>11 DEF Fits
  <2>2. /\ mem \in Seq(Nodes) /\ Closed(mem) /\ p \in 1..Len(mem) /\ new \in Nat
        /\ m \in Seq(Nodes) /\ a \in Seq(Nodes) /\ Fresh(a, 1, p, new, mem)
    BY <1>1, <1>4, <1>6, <1>7, <1>11
  <2> HIDE DEF new, p, m, a, at, h
  <2>3. Made(m \o a, m, p, new, mem)
    BY ONLY <1>8, <2>1, <2>2, CallCopyIs
  <2> QED  BY <2>3 DEF Made
<1>10. mem' = made
  <2>1. mem' = WithPart(c.d, k, new) \o Allocated(p, new)
    BY DEF CallCopy
  <2>2. WithPart(c.d, k, new) = m
    <3>1. at = IF Kind(c.d, mem) \in {"map", "slice"} THEN Pointer(c.d, mem) ELSE c.d
      BY <1>5 DEF Holder, InBlock, Pointer
    <3> HIDE DEF at, new
    <3> QED  BY <3>1 DEF WithPart, Given
  <2>3. Allocated(p, new) = a
    BY DEF Allocated, NewFor
  <2> QED  BY <2>1, <2>2, <2>3
<1>14. PICK e \in Frame :
          /\ calls' = Append(Past(k), e) /\ e.d = new /\ e.s = p
          /\ e.todo = IF Kind(p, mem) \in Deep THEN PartKeys(p, mem) ELSE {}
  <2>1. PartKeys(p, mem) \subseteq Int /\ new \in Nat /\ p \in Nat
    <3>1. \A j \in PartKeys(p, h) : j \in Int
      BY <1>1, <1>4, PartIn
    <3> QED  BY <1>1, <1>4, <1>6, <3>1
  <2> DEFINE e == [d |-> new, s |-> p,
                   todo |-> IF Kind(p, mem) \in Deep THEN PartKeys(p, mem) ELSE {}]
  <2>2. calls' = Append(Past(k), e)
    BY DEF CallCopy
  <2> HIDE DEF new, p
  <2>3. e \in Frame
    BY <2>1 DEF Frame
  <2> QED  BY <2>2, <2>3
<1>15. /\ calls' \in Seq(Frame) /\ Len(calls') = n + 1 /\ DOMAIN calls' = 1..(n + 1)
       /\ calls'[n + 1] = e
       /\ \A i \in 1..n :
            /\ calls'[i].d = calls[i].d /\ calls'[i].s = calls[i].s
            /\ calls'[i].todo = IF i = n THEN calls[i].todo \ {k} ELSE calls[i].todo
  <2>1. PICK past \in Seq(Frame) :
          /\ past = Past(k) /\ Len(past) = n
          /\ \A i \in 1..n :
               /\ past[i].d = calls[i].d /\ past[i].s = calls[i].s
               /\ past[i].todo = IF i = n THEN calls[i].todo \ {k} ELSE calls[i].todo
    <3>1. calls \in Seq(Frame) /\ n \in Nat \ {0} /\ n = Len(calls)
      BY <1>1, <1>13
    <3> QED  BY <3>1, PastIs
  <2>2. /\ calls' \in Seq(Frame) /\ Len(calls') = n + 1 /\ DOMAIN calls' = 1..(n + 1)
        /\ calls'[n + 1] = e /\ \A i \in 1..n : calls'[i] = past[i]
    BY <1>14, <2>1, EnteredLast
  <2>3. \A i \in 1..n :
          /\ past[i].d = calls[i].d /\ past[i].s = calls[i].s
          /\ past[i].todo = IF i = n THEN calls[i].todo \ {k} ELSE calls[i].todo
    BY ONLY <2>1
  <2> QED  BY ONLY <2>2, <2>3
<1>16. /\ DOMAIN from' = DOMAIN from \cup {new} /\ from'[new] = p
       /\ \A l \in DOMAIN from : from'[l] = from[l]
       /\ pc' = "copy" /\ outcome' = outcome
  <2>1. new \notin DOMAIN from
    <3>1. DOMAIN from \subseteq (Len(h) + 1)..Len(mem)
      BY <1>2 DEF CopiesInv
    <3> QED  BY <1>1, <1>6, <3>1
  <2>2. /\ from' = [l \in DOMAIN from \cup {new} |-> IF l = new THEN p ELSE from[l]]
        /\ pc' = "copy" /\ outcome' = outcome
    BY DEF CallCopy
  <2> HIDE DEF new, p
  <2> QED  BY <2>1, <2>2
<1>17. /\ Len(made) \in Nat /\ Len(mem) < Len(made) /\ new \in 1..Len(made)
       /\ \A l \in 1..Len(mem) : l # at => made[l] = mem[l]
       /\ made[at].type = mem[at].type /\ made[at].data = mem[at].data
       /\ DOMAIN made[at].kids = DOMAIN mem[at].kids \cup {k}
       /\ \A j \in DOMAIN made[at].kids :
            made[at].kids[j] = IF j = k THEN new ELSE mem[at].kids[j]
  <2> HIDE DEF made, m, at, p
  <2>1. Len(made) \in Nat /\ Len(mem) < Len(made) /\ new \in 1..Len(made)
    BY <1>1, <1>9
  <2>2. \A l \in 1..Len(mem) : l # at => made[l] = mem[l]
    BY <1>7, <1>9
  <2>3. made[at] = m[at]
    BY <1>5, <1>9
  <2> QED  BY <1>7, <2>1, <2>2, <2>3
<1> HIDE DEF new, made, m, a, at, p, h
<1>18. /\ DOMAIN from \subseteq (Len(h) + 1)..Len(mem)
       /\ \A l \in DOMAIN from : CopyOf(l, mem, from, h) /\ l \in 1..Len(mem) /\ l # 0
       /\ \A l, j \in DOMAIN from : Holder(l, mem) = Holder(j, mem) => l = j
       /\ \A l \in DOMAIN from :
            (\A i \in 1..n : calls[i].d # l) => Filled(l, {}, mem, from, h)
  <2>1. /\ DOMAIN from \subseteq (Len(h) + 1)..Len(mem)
        /\ \A l \in DOMAIN from : CopyOf(l, mem, from, h)
        /\ \A l, j \in DOMAIN from : Holder(l, mem) = Holder(j, mem) => l = j
        /\ \A l \in DOMAIN from :
             (\A i \in 1..n : calls[i].d # l) => Filled(l, {}, mem, from, h)
    BY <1>1, <1>2 DEF CopiesInv, h
  <2> QED  BY <1>1, <2>1
<1>19. /\ \A l \in DOMAIN from : Holder(l, mem) \in 1..Len(mem)
       /\ \A l \in DOMAIN from : Kind(l, mem) \in InBlock => Holder(l, mem) \notin DOMAIN from'
  <2> SUFFICES ASSUME NEW l \in DOMAIN from
               PROVE  /\ Holder(l, mem) \in 1..Len(mem)
                      /\ Kind(l, mem) \in InBlock => Holder(l, mem) \notin DOMAIN from'
    OBVIOUS
  <2>1. CopyOf(l, mem, from, h) /\ l \in 1..Len(mem)
    BY <1>18
  <2>2. Kind(l, mem) \in InBlock =>
          Holder(l, mem) \in (Len(h) + 1)..Len(mem) /\ Holder(l, mem) \notin DOMAIN from
    BY <2>1 DEF CopyOf
  <2>3. Kind(l, mem) \notin InBlock => Holder(l, mem) = l
    BY DEF Holder
  <2> QED  BY <1>1, <1>6, <1>16, <2>1, <2>2, <2>3
<1>20. ASSUME NEW l \in DOMAIN from, l # c.d
       PROVE  /\ Kind(l, made) = Kind(l, mem) /\ Holder(l, made) = Holder(l, mem)
              /\ CopyOf(l, made, from', h)
              /\ \A todo : Filled(l, todo, mem, from, h) => Filled(l, todo, made, from', h)
  <2>1. l # at /\ Holder(l, mem) # at
    BY <1>3, <1>5, <1>18, <1>20 DEF at
  <2>2. made[l] = mem[l] /\ made[Holder(l, mem)] = mem[Holder(l, mem)]
    BY <1>17, <1>18, <1>19, <2>1
  <2>3. /\ CopyOf(l, mem, from, h) /\ l # 0
        /\ Kind(l, mem) \in InBlock => Holder(l, mem) \notin DOMAIN from'
    BY <1>18, <1>19
  <2>4. /\ Len(mem) \in Nat /\ Len(made) \in Nat /\ Len(mem) <= Len(made) /\ Len(h) \in Nat
        /\ DOMAIN from \subseteq DOMAIN from' /\ \A x \in DOMAIN from : from'[x] = from[x]
    BY <1>1, <1>16, <1>17 DEF h
  <2> QED  BY ONLY <1>20, <2>2, <2>3, <2>4, CopyKept
<1>21. /\ Kind(c.d, made) = Kind(c.d, mem) /\ Holder(c.d, made) = Holder(c.d, mem)
       /\ CopyOf(c.d, made, from', h) /\ Filled(c.d, c.todo \ {k}, made, from', h)
  <2>1. /\ c.d \in DOMAIN from /\ c.d # 0 /\ CopyOf(c.d, mem, from, h)
        /\ Kind(c.d, mem) \in Deep /\ k \in PartKeys(from[c.d], h)
        /\ Filled(c.d, c.todo, mem, from, h)
    BY <1>3, <1>18
  <2>2. /\ made[c.d].type = mem[c.d].type /\ made[c.d].data = mem[c.d].data
        /\ Kind(c.d, mem) \in InBlock =>
             made[c.d] = mem[c.d] /\ Holder(c.d, mem) \notin DOMAIN from'
    BY <1>3, <1>5, <1>17, <1>19
  <2>3. Gains(made, mem, Holder(c.d, mem), k, new)
    BY <1>17 DEF at, Gains
  <2>4. /\ Len(mem) \in Nat /\ Len(made) \in Nat /\ Len(mem) <= Len(made) /\ Len(h) \in Nat
        /\ Grows(from', from, new, Part(from[c.d], k, h))
    BY <1>1, <1>3, <1>16, <1>17 DEF h, Grows
  <2> QED  BY ONLY <2>1, <2>2, <2>3, <2>4, CopyGrows
<1>22. /\ Kind(new, made) = Kind(p, h)
       /\ Holder(new, made) = IF Kind(p, h) \in InBlock THEN new + 1 ELSE new
       /\ CopyOf(new, made, from', h) /\ Filled(new, PartKeys(p, h), made, from', h)
  <2>1. /\ p \in DOMAIN h /\ p # 0 /\ Kind(p, h) # "block" /\ from'[new] = p /\ mem[p] = h[p]
        /\ Len(h) \in Nat /\ new \in Nat /\ Len(h) < new /\ Len(made) \in Nat
        /\ Fresh(made, new, p, new, mem)
    BY <1>1, <1>3, <1>4, <1>6, <1>9, <1>16, <1>17 DEF h
  <2>2. Kind(p, h) \in InBlock => new + 1 <= Len(made) /\ new + 1 \notin DOMAIN from'
    BY <1>1, <1>4, <1>6, <1>9, <1>16, <1>18
  <2> QED  BY ONLY <2>1, <2>2, CopyNew
<1>23. /\ Holder(c.d, mem) \in 1..Len(mem) /\ new \in DOMAIN from' /\ new \notin DOMAIN from
       /\ Holder(new, made) > Len(mem) /\ c.d \in DOMAIN from /\ new > Len(mem)
       /\ Len(mem) \in Nat /\ n \in Nat \ {0} /\ Holder(new, made) \in Nat
  <2>1. new \notin DOMAIN from
    BY <1>6, <1>18
  <2> QED  BY <1>1, <1>3, <1>6, <1>16, <1>19, <1>22, <2>1
<1>31. /\ calls'[n].d = c.d /\ calls'[n].s = c.s /\ calls'[n].todo = c.todo \ {k}
       /\ n \in 1..n /\ n \in 1..(n + 1) /\ n + 1 \in 1..(n + 1) /\ n + 1 - 1 = n
       /\ 1 \in 1..n /\ \A i \in 1..n : i \in 1..(n + 1)
  <2>1. n \in 1..n
    BY <1>1
  <2>2. /\ calls'[n].d = calls[n].d /\ calls'[n].s = calls[n].s
        /\ calls'[n].todo = calls[n].todo \ {k}
    BY ONLY <1>15, <2>1
  <2> QED  BY <1>13, <1>23, <2>1, <2>2
<1>32. snapshot' = h /\ src' = src /\ snapshot = h
  BY DEF h
<1>24. \A l \in DOMAIN from : Holder(l, made) = Holder(l, mem) /\ CopyOf(l, made, from', h)
  BY <1>20, <1>21
<1>25. CopiesInv'
  <2>1. DOMAIN from' \subseteq (Len(h) + 1)..Len(made)
    BY <1>1, <1>6, <1>16, <1>17, <1>18 DEF h
  <2>2. \A l \in DOMAIN from' : CopyOf(l, made, from', h)
    BY <1>16, <1>22, <1>24
  <2>3. ASSUME NEW l \in DOMAIN from', NEW j \in DOMAIN from', Holder(l, made) = Holder(j, made)
        PROVE  l = j
    <3>1. \A x \in DOMAIN from : Holder(x, made) <= Len(mem)
      BY <1>19, <1>23, <1>24
    <3>2. CASE l \in DOMAIN from /\ j \in DOMAIN from
      BY <1>18, <1>24, <2>3, <3>2
    <3>3. CASE l = new \/ j = new
      <4>1. ~(Holder(new, made) <= Len(mem))
        BY <1>23
      <4> QED  BY <1>16, <2>3, <3>1, <3>3, <4>1
    <3> QED  BY <1>16, <3>2, <3>3
  <2>4. ASSUME NEW l \in DOMAIN from', \A i \in 1..(n + 1) : calls'[i].d # l
        PROVE  Filled(l, {}, made, from', h)
    <3>1. l # new /\ l # c.d
      <4>1. calls'[n + 1].d = new
        BY <1>14, <1>15
      <4> QED  BY <1>31, <2>4, <4>1
    <3>2. l \in DOMAIN from
      BY <1>16, <3>1
    <3>3. \A i \in 1..n : calls[i].d # l
      BY <1>15, <1>31, <2>4
    <3> QED  BY <1>18, <1>20, <3>1, <3>2, <3>3
  <2>5. snapshot' = h /\ DOMAIN calls' = 1..(n + 1)
    BY <1>15 DEF h
  <2> QED  BY <1>10, <2>1, <2>2, <2>3, <2>4, <2>5 DEF CopiesInv
<1>26. (\A i \in DOMAIN calls : CopyFrame(calls[i]))'
  <2>1. ASSUME NEW i \in 1..(n + 1)
        PROVE  /\ calls'[i].d \in DOMAIN from' /\ from'[calls'[i].d] = calls'[i].s
               /\ calls'[i].todo \subseteq PartKeys(calls'[i].s, h)
               /\ Kind(calls'[i].d, made) \notin Deep => calls'[i].todo = {}
               /\ Filled(calls'[i].d, calls'[i].todo, made, from', h)
    <3>1. CASE i = n + 1
      <4>1. calls'[i].d = new /\ calls'[i].s = p
            /\ calls'[i].todo = IF Kind(p, mem) \in Deep THEN PartKeys(p, mem) ELSE {}
        BY <1>14, <1>15, <3>1
      <4>2. CASE Kind(p, h) \in Deep
        BY <1>4, <1>16, <1>22, <1>23, <4>1, <4>2
      <4>3. CASE Kind(p, h) \notin Deep
        BY <1>4, <1>16, <1>22, <1>23, <4>1, <4>3 DEF Filled
      <4> QED  BY <4>2, <4>3
    <3>2. CASE i = n
      <4>1. calls'[i].d = c.d /\ calls'[i].s = c.s /\ calls'[i].todo = c.todo \ {k} /\ i \in 1..n
        BY <1>31, <3>2
      <4>2. CopyFrame(c)
        BY <1>2, <1>13, <3>2, <4>1
      <4> QED  BY <1>3, <1>16, <1>21, <4>1, <4>2 DEF CopyFrame, h
    <3>3. CASE i \in 1..n /\ i # n
      <4>1. calls'[i].d = calls[i].d /\ calls'[i].s = calls[i].s /\ calls'[i].todo = calls[i].todo
        BY <1>15, <3>3
      <4>2. calls[i].d # c.d
        BY <1>1, <1>2, <1>13, <3>3 DEF CopyChain
      <4>3. CopyFrame(calls[i])
        BY <1>2, <3>3
      <4> QED  BY <1>16, <1>20, <4>1, <4>2, <4>3 DEF CopyFrame, h
    <3> QED  BY <1>23, <3>1, <3>2, <3>3
  <2>2. snapshot' = h /\ DOMAIN calls' = 1..(n + 1)
    BY <1>15 DEF h
  <2> QED  BY <1>10, <2>1, <2>2 DEF CopyFrame
<1>27. CopyChain'
  <2>1. calls'[1].s = src'
    <3>1. calls[1].s = src
      BY <1>1, <1>2, <1>13 DEF CopyChain
    <3> QED  BY <1>15, <1>31, <1>32, <3>1
  <2>2. ASSUME NEW i \in 1..(n + 1), NEW j \in 1..(n + 1), calls'[i].d = calls'[j].d
        PROVE  i = j
    <3>1. \A x \in 1..n : calls'[x].d = calls[x].d /\ calls[x].d # new
      <4>1. \A x \in 1..n : calls[x].d \in DOMAIN from
        BY <1>2 DEF CopyFrame
      <4> QED  BY <1>15, <1>23, <4>1
    <3>2. \A x, y \in 1..n : calls[x].d = calls[y].d => x = y
      BY <1>1, <1>2 DEF CopyChain
    <3>3. calls'[n + 1].d = new
      BY <1>14, <1>15
    <3> QED  BY <1>23, <2>2, <3>1, <3>2, <3>3
  <2>3. ASSUME NEW i \in 1..n
        PROVE  \E j \in PartKeys(calls'[i].s, h) : calls'[i + 1].s = Part(calls'[i].s, j, h)
    <3>1. CASE i = n
      <4>1. calls'[i].s = c.s /\ calls'[i + 1].s = p
        BY <1>14, <1>15, <1>31, <3>1
      <4> QED  BY <1>3, <4>1
    <3>2. CASE i # n
      <4>1. i \in 1..(Len(calls) - 1) /\ i + 1 \in 1..n
        <5>1. n \in Nat
          BY <1>1
        <5>2. i \in 1..(n - 1) /\ i + 1 \in 1..n
          BY <3>2, <5>1
        <5> QED  BY <1>13, <5>2
      <4>2. calls'[i].s = calls[i].s /\ calls'[i + 1].s = calls[i + 1].s
        BY <1>15, <4>1
      <4> QED  BY <1>2, <4>1, <4>2 DEF CopyChain, h
    <3> QED  BY <3>1, <3>2
  <2>4. snapshot' = h /\ DOMAIN calls' = 1..(n + 1) /\ Len(calls') - 1 = n
    BY <1>15, <1>31, <1>32
  <2> QED  BY <2>1, <2>2, <2>3, <2>4 DEF CopyChain
<1>28. PhaseInv' /\ MemoryInv'
  <2>1. /\ pc' = "copy" /\ outcome' = "none" /\ outcome = "none" /\ copied = 0 /\ writes = 0
    BY <1>16 DEF IInv, PhaseInv
  <2>2. PhaseInv'
    BY <2>1 DEF IInv, PhaseInv
  <2>3. IsMemory(mem')
    BY <1>9, <1>10, MemoryIs
  <2>4. Started(snapshot)'
    BY DEF IInv, MemoryInv, Started
  <2>5. Len(snapshot') <= Len(mem') /\ \A l \in DOMAIN snapshot' : mem'[l] = snapshot'[l]
    <3>1. ASSUME NEW l \in 1..Len(h)  PROVE made[l] = h[l]
      <4>1. l \in 1..Len(mem) /\ l # at /\ mem[l] = h[l]
        BY <1>1, <1>5 DEF h
      <4> QED  BY <1>17, <4>1
    <3>2. Len(h) <= Len(made) /\ DOMAIN h = 1..Len(h) /\ snapshot' = h
      BY <1>1, <1>17 DEF h
    <3> QED  BY <1>10, <3>1, <3>2
  <2> QED  BY <2>1, <2>2, <2>3, <2>4, <2>5 DEF MemoryInv
<1>29. FrameInv'
  <2>1. ASSUME NEW i \in 1..(n + 1)  PROVE calls'[i].d <= Len(made) /\ calls'[i].s <= Len(made)
    <3>1. CASE i = n + 1
      BY <1>1, <1>4, <1>14, <1>15, <1>17, <3>1
    <3>2. CASE i \in 1..n
      <4>1. calls[i].d <= Len(mem) /\ calls[i].s <= Len(mem) /\ calls[i] \in Frame
        BY <1>1, <3>2 DEF IInv, FrameInv
      <4>2. calls'[i].d = calls[i].d /\ calls'[i].s = calls[i].s
        BY <1>15, <3>2
      <4>3. calls[i].d \in Nat /\ calls[i].s \in Nat
        BY <4>1 DEF Frame
      <4> QED  BY <1>1, <1>17, <4>1, <4>2, <4>3
    <3> QED  BY <1>23, <3>1, <3>2
  <2>2. n + 1 <= Stack /\ n + 1 > 0
    BY <1>1
  <2> QED  BY <1>10, <1>15, <2>1, <2>2 DEF FrameInv
<1>30. EqualInv' /\ OutcomeInv'
  <2>1. pc' = "copy" /\ outcome' = "none"
    BY <1>16 DEF IInv, PhaseInv
  <2> QED  BY <2>1 DEF EqualInv, OutcomeInv
<1> QED  BY <1>25, <1>26, <1>27, <1>28, <1>29, <1>30 DEF IInv, CopyInv

LEMMA CopyPartStep == IInv /\ CopyPart => IInv'
<1> SUFFICES ASSUME IInv, CopyPart  PROVE IInv'
  OBVIOUS
<1>1. PICK k \in Top.todo :
        \/ /\ ~CanSet(Top.s, k, mem) /\ outcome' = "panic" /\ pc' = "copied"
           /\ UNCHANGED <<mem, calls, from>>
        \/ /\ Len(calls) = Stack /\ outcome' = "overflow" /\ pc' = "copied"
           /\ UNCHANGED <<mem, calls, from>>
        \/ /\ Part(Top.s, k, mem) = 0 /\ outcome' = "panic" /\ pc' = "copied"
           /\ UNCHANGED <<mem, calls, from>>
        \/ /\ Len(calls) < Stack /\ Part(Top.s, k, mem) # 0
           /\ CallCopy(Part(Top.s, k, mem), Past(k), WithPart(Top.d, k, Len(mem) + 1))
  BY DEF CopyPart, NextKeys, ToCopy
<1>2. pc = "copy" /\ UNCHANGED <<dst, src, verdict, copied, writes, same, snapshot>>
  BY DEF CopyPart
<1>3. Top = calls[Len(calls)]
  BY DEF Top
<1>4. CASE /\ pc' = "copied" /\ UNCHANGED <<mem, calls, from>>
           /\ \/ outcome' = "overflow" /\ Len(calls) = Stack
              \/ outcome' = "panic" /\ (~CanSet(Top.s, k, mem) \/ Part(Top.s, k, mem) = 0)
  <2>1. PhaseInv' /\ MemoryInv' /\ FrameInv' /\ EqualInv'
    <3>1. PhaseInv'
      BY <1>2, <1>4 DEF IInv, PhaseInv
    <3>2. MemoryInv' /\ FrameInv' /\ EqualInv'
      BY <1>2, <1>4 DEF IInv, MemoryInv, FrameInv, EqualInv, Started
    <3> QED  BY <3>1, <3>2
  <2>2. CopiesInv' /\ (\A i \in DOMAIN calls : CopyFrame(calls[i]))' /\ CopyChain'
    BY <1>2, <1>4 DEF IInv, CopyInv, CopiesInv, CopyFrame, CopyChain
  <2>3. OutcomeInv'
    <3>1. CASE outcome' = "overflow"
      BY <1>4, <3>1 DEF OutcomeInv
    <3>2. CASE outcome' = "panic"
      <4>1. /\ Top.s \in 1..Len(snapshot) /\ Len(calls) > 0
            /\ mem[Top.s] = snapshot[Top.s]
            /\ Part(Top.s, k, mem) = 0 =>
                 Kind(Top.s, snapshot) = "pointer" /\ IsNil(Top.s, snapshot)
        BY <1>2, <1>3, CopyTop, CopyAt
      <4>2. ~CanSet(Top.s, k, mem) => Types[snapshot[Top.s].type].hidden # {}
        BY <4>1 DEF CanSet
      <4>3. Top' = Top /\ Len(calls') > 0 /\ snapshot' = snapshot
        BY <1>2, <1>4, <4>1 DEF Top
      <4> QED  BY <1>4, <3>2, <4>1, <4>2, <4>3 DEF OutcomeInv
    <3> QED  BY <1>4, <3>1, <3>2
  <2> QED  BY <2>1, <2>2, <2>3 DEF IInv, CopyInv
<1>5. CASE /\ Len(calls) < Stack /\ Part(Top.s, k, mem) # 0
           /\ CallCopy(Part(Top.s, k, mem), Past(k), WithPart(Top.d, k, Len(mem) + 1))
  <2>1. PICK c : c = calls[Len(calls)]
    OBVIOUS
  <2>2. PICK n : n = Len(calls)
    OBVIOUS
  <2>3. LastIs(n, c) /\ Top = c /\ n < Stack
    BY <1>3, <1>5, <2>1, <2>2 DEF LastIs
  <2>4. k \in c.todo /\ Part(c.s, k, mem) # 0
        /\ CallCopy(Part(c.s, k, mem), Past(k), WithPart(c.d, k, Len(mem) + 1))
    BY <1>5, <2>3
  <2> QED  BY ONLY IInv, <1>2, <2>3, <2>4, CopyDeeper
<1> QED  BY <1>1, <1>4, <1>5

LEMMA CopyReturnStep == IInv /\ CopyReturn => IInv'
<1> SUFFICES ASSUME IInv, CopyReturn  PROVE IInv'
  OBVIOUS
<1> DEFINE n == Len(calls)
<1>1. /\ pc = "copy" /\ Top.todo = {} /\ calls' = Popped /\ Top = calls[n]
      /\ UNCHANGED <<mem, dst, src, verdict, writes, same, from, snapshot>>
      /\ \/ n > 1 /\ UNCHANGED <<pc, outcome, copied>>
         \/ n = 1 /\ pc' = "copied" /\ outcome' = "ok" /\ copied' = Top.d
  BY DEF CopyReturn, Top
<1>2. /\ calls \in Seq(Frame) /\ n \in Nat \ {0} /\ n <= Stack /\ Stack \in Nat
      /\ DOMAIN calls = 1..n /\ n \in 1..n
      /\ CopiesInv /\ (\A i \in 1..n : CopyFrame(calls[i])) /\ CopyChain
  BY <1>1, CopyTop
<1>3. /\ calls' \in Seq(Frame) /\ Len(calls') = n - 1 /\ DOMAIN calls' = 1..(n - 1)
      /\ \A i \in 1..(n - 1) : calls'[i] = calls[i] /\ i \in 1..n
  <2>1. Len(calls) > 0 /\ calls \in Seq(Frame)
    BY <1>2
  <2>2. /\ Popped \in Seq(Frame) /\ Len(Popped) = Len(calls) - 1
        /\ \A i \in 1..(Len(calls) - 1) : Popped[i] = calls[i]
    BY <2>1, PoppedIs
  <2>3. /\ calls' \in Seq(Frame) /\ Len(calls') = n - 1
        /\ \A i \in 1..(n - 1) : calls'[i] = calls[i]
    BY <1>1, <2>2
  <2> HIDE DEF n
  <2> QED  BY ONLY <1>2, <2>3
<1> HIDE DEF n
<1>4. CopiesInv'
  <2>1. ASSUME NEW l \in DOMAIN from, \A i \in 1..(n - 1) : calls[i].d # l
        PROVE  Filled(l, {}, mem, from, snapshot)
    <3>1. CASE calls[n].d = l
      BY <1>1, <1>2, <3>1 DEF CopyFrame
    <3>2. CASE calls[n].d # l
      <4>1. \A i \in 1..n : i \in 1..(n - 1) \/ i = n
        BY <1>2
      <4>2. \A i \in DOMAIN calls : calls[i].d # l
        BY <1>2, <2>1, <3>2, <4>1
      <4> QED  BY <1>2, <4>2 DEF CopiesInv
    <3> QED  BY <3>1, <3>2
  <2> QED  BY <1>1, <1>2, <1>3, <2>1 DEF CopiesInv
<1>5. (\A i \in DOMAIN calls : CopyFrame(calls[i]))'
  BY <1>1, <1>2, <1>3 DEF CopyFrame
<1>6. CopyChain'
  <2>1. \A i \in 1..(n - 1 - 1) : i \in 1..(n - 1) /\ i + 1 \in 1..(n - 1) /\ i \in 1..(Len(calls) - 1)
    BY <1>2 DEF n
  <2>2. Len(calls') > 0 => 1 \in 1..(n - 1) /\ Len(calls) > 0
    BY <1>2, <1>3 DEF n
  <2>3. Len(calls') > 0 => calls'[1].s = src
    BY <1>2, <1>3, <2>2 DEF CopyChain
  <2>4. \A i, j \in 1..(n - 1) : calls'[i].d = calls'[j].d => i = j
    BY <1>2, <1>3 DEF CopyChain
  <2>5. \A i \in 1..(n - 1 - 1) : \E k \in PartKeys(calls'[i].s, snapshot) :
          calls'[i + 1].s = Part(calls'[i].s, k, snapshot)
    <3> TAKE i \in 1..(n - 1 - 1)
    <3>1. calls'[i] = calls[i] /\ calls'[i + 1] = calls[i + 1]
      BY <1>3, <2>1
    <3>2. \E k \in PartKeys(calls[i].s, snapshot) : calls[i + 1].s = Part(calls[i].s, k, snapshot)
      BY <1>2, <2>1 DEF CopyChain
    <3> QED  BY <3>1, <3>2
  <2>6. DOMAIN calls' = 1..(n - 1) /\ Len(calls') = n - 1
    BY <1>3
  <2>7. src' = src /\ snapshot' = snapshot
    BY <1>1
  <2> QED  BY <2>3, <2>4, <2>5, <2>6, <2>7 DEF CopyChain
<1>7. PhaseInv'
  BY <1>1 DEF IInv, PhaseInv
<1>8. MemoryInv'
  BY <1>1 DEF IInv, MemoryInv, Started
<1>9. FrameInv'
  <2>1. \A i \in 1..n : calls[i].d <= Len(mem) /\ calls[i].s <= Len(mem)
    BY <1>2 DEF IInv, FrameInv
  <2>2. Len(calls') <= Stack /\ (pc' \in {"equal", "copy"} => Len(calls') > 0)
    BY <1>1, <1>2, <1>3
  <2> QED  BY <1>1, <1>3, <2>1, <2>2 DEF FrameInv
<1>10. EqualInv'
  BY <1>1 DEF EqualInv, IInv, PhaseInv
<1>11. OutcomeInv'
  <2>1. CASE n > 1
    BY <1>1, <2>1 DEF IInv, PhaseInv, OutcomeInv
  <2>2. CASE n = 1
    <3>1. calls[1].s = src /\ calls[1].d \in DOMAIN from /\ from[calls[1].d] = calls[1].s
      BY <1>2, <2>2 DEF CopyChain, CopyFrame, n
    <3>2. calls' = <<>>
      BY <1>3, <2>2
    <3> QED  BY <1>1, <1>2, <2>2, <3>1, <3>2 DEF OutcomeInv
  <2> QED  BY <1>2, <2>1, <2>2
<1> QED  BY <1>4, <1>5, <1>6, <1>7, <1>8, <1>9, <1>10, <1>11 DEF IInv, CopyInv

LEMMA WriteStep == IInv /\ Write => IInv'
<1> SUFFICES ASSUME IInv, Write  PROVE IInv'
  OBVIOUS
<1>1. /\ pc = "copied" /\ outcome = "ok" /\ writes < MaxWrites /\ writes' = writes + 1
      /\ UNCHANGED <<dst, src, pc, calls, verdict, outcome, copied, same, from, snapshot>>
  BY DEF Write
<1>2. PICK heap \in UNION {input.mems : input \in Inputs}, l \in 1..Len(snapshot) :
        IsHeap(heap) /\ Len(heap) = Len(snapshot) /\ mem' = [mem EXCEPT ![l] = heap[l]]
  <2>1. PICK s \in Stores : s.size = Len(snapshot) /\ mem' = [mem EXCEPT ![s.at] = s.node]
    BY DEF Write
  <2>2. PICK heap \in UNION {input.mems : input \in Inputs} :
          s \in {[size |-> Len(heap), at |-> l, node |-> heap[l]] : l \in DOMAIN heap}
    BY DEF Stores
  <2>3. PICK l \in DOMAIN heap : s.size = Len(heap) /\ s.at = l /\ s.node = heap[l]
    BY <2>2
  <2>4. IsHeap(heap)
    BY InputsAssumption
  <2>5. DOMAIN heap = 1..Len(heap)
    BY <2>4, HeapIs
  <2> QED  BY <2>1, <2>3, <2>4, <2>5
<1>3. /\ IsHeap(snapshot) /\ snapshot \in Seq(Nodes) /\ Len(snapshot) \in Nat
      /\ DOMAIN snapshot = 1..Len(snapshot)
      /\ mem \in Seq(Nodes) /\ Closed(mem) /\ Len(mem) \in Nat /\ Len(snapshot) <= Len(mem)
  BY <1>1, HeapIs, MemoryIs DEF IInv, MemoryInv, Started
<1>4. heap \in Seq(Nodes) /\ Closed(heap) /\ l \in 1..Len(heap) /\ l \in 1..Len(mem)
  BY <1>2, <1>3, HeapIs
<1>5. /\ heap[l] \in Nodes
      /\ \A k \in DOMAIN heap[l].kids : heap[l].kids[k] \in 1..Len(mem)
  BY <1>2, <1>3, <1>4 DEF Closed
<1>6. /\ mem' \in Seq(Nodes) /\ Len(mem') = Len(mem) /\ mem'[l] = heap[l]
      /\ \A x \in 1..Len(mem) : x # l => mem'[x] = mem[x]
  BY <1>2, <1>3, <1>4, <1>5
<1>7. IsMemory(mem')
  <2>1. \A x \in 1..Len(mem) : \A k \in DOMAIN mem'[x].kids : mem'[x].kids[k] \in 1..Len(mem)
    BY <1>3, <1>5, <1>6 DEF Closed
  <2>2. Closed(mem')
    BY <1>6, <2>1 DEF Closed
  <2> QED  BY <1>6, <2>2, MemoryIs
<1>8. writes \in Nat /\ MaxWrites \in Nat /\ writes' \in 0..MaxWrites /\ writes' # 0
  BY <1>1, BoundsAssumption DEF IInv, PhaseInv
<1>9. PhaseInv' /\ MemoryInv' /\ FrameInv' /\ EqualInv'
  <2>1. PhaseInv'
    BY <1>1, <1>8 DEF IInv, PhaseInv
  <2>2. MemoryInv'
    BY <1>1, <1>3, <1>6, <1>7, <1>8 DEF IInv, MemoryInv, Started
  <2>3. FrameInv'
    BY <1>1, <1>6 DEF IInv, FrameInv
  <2>4. EqualInv'
    BY <1>1 DEF EqualInv
  <2> QED  BY <2>1, <2>2, <2>3, <2>4
<1>10. CopiesInv /\ (\A i \in DOMAIN calls : CopyFrame(calls[i])) /\ CopyChain /\ OutcomeInv
       /\ calls = <<>>
  BY <1>1 DEF IInv, CopyInv, OutcomeInv
<1>11. ASSUME NEW x \in DOMAIN from
       PROVE  /\ Holder(x, mem') = Holder(x, mem) /\ CopyOf(x, mem', from, snapshot)
              /\ \A todo : Filled(x, todo, mem, from, snapshot) =>
                            Filled(x, todo, mem', from, snapshot)
  <2>1. x \in (Len(snapshot) + 1)..Len(mem) /\ CopyOf(x, mem, from, snapshot)
    BY <1>10 DEF CopiesInv
  <2>2. /\ Holder(x, mem) \in (Len(snapshot) + 1)..Len(mem)
        /\ Kind(x, mem) \in InBlock => Holder(x, mem) \notin DOMAIN from
    BY <2>1 DEF CopyOf, Holder
  <2>3. mem'[x] = mem[x] /\ mem'[Holder(x, mem)] = mem[Holder(x, mem)] /\ x # 0
    <3>1. x # l /\ x \in 1..Len(mem) /\ Holder(x, mem) # l /\ Holder(x, mem) \in 1..Len(mem)
      BY <1>2, <1>3, <1>4, <2>1, <2>2
    <3> QED  BY <1>6, <3>1
  <2>4. Len(mem) \in Nat /\ Len(mem') \in Nat /\ Len(mem) <= Len(mem') /\ Len(snapshot) \in Nat
        /\ DOMAIN from \subseteq DOMAIN from /\ \A y \in DOMAIN from : from[y] = from[y]
    BY <1>3, <1>6
  <2> QED  BY ONLY <1>11, <2>1, <2>2, <2>3, <2>4, CopyKept
<1>12. CopiesInv'
  BY <1>1, <1>6, <1>10, <1>11 DEF CopiesInv
<1>13. (\A i \in DOMAIN calls : CopyFrame(calls[i]))' /\ CopyChain' /\ OutcomeInv'
  BY <1>1, <1>10 DEF CopyChain, OutcomeInv
<1> QED  BY <1>9, <1>12, <1>13 DEF IInv, CopyInv

LEMMA MyDeepCopyStep == IInv /\ myDeepCopy => IInv'
<1> SUFFICES ASSUME IInv, myDeepCopy  PROVE IInv'
  OBVIOUS
<1>1. /\ pc = "compared" /\ snapshot' = mem
      /\ UNCHANGED <<dst, src, verdict, copied, writes, same>>
      /\ from = <<>> /\ outcome = "none" /\ copied = 0 /\ writes = 0
  BY DEF myDeepCopy, IInv, PhaseInv
<1>2. /\ IsHeap(mem) /\ Started(mem) /\ mem \in Seq(Nodes) /\ Closed(mem) /\ Len(mem) \in Nat
      /\ DOMAIN mem = 1..Len(mem) /\ src \in 0..Len(mem) /\ Kind(src, mem) # "block"
  BY <1>1, HeapIs DEF IInv, MemoryInv, Started
<1>3. Started(snapshot)'
  BY <1>1, <1>2 DEF Started
<1>4. CASE /\ src = 0 /\ outcome' = "panic" /\ pc' = "copied" /\ calls' = <<>>
           /\ UNCHANGED <<mem, from>>
  <2>1. PhaseInv'
    BY <1>1, <1>4 DEF IInv, PhaseInv
  <2>2. MemoryInv'
    BY <1>1, <1>2, <1>3, <1>4 DEF IInv, MemoryInv
  <2>3. FrameInv' /\ EqualInv'
    BY <1>4, BoundsAssumption DEF FrameInv, EqualInv
  <2>4. CopyInv'
    BY <1>1, <1>4 DEF CopyInv, CopiesInv, CopyChain, OutcomeInv
  <2> QED  BY <2>1, <2>2, <2>3, <2>4 DEF IInv
<1>5. CASE src # 0 /\ CallCopy(src, <<>>, mem)
  <2> DEFINE n == Len(mem) + 1
             a == NewFor(mem, src, n)
             made == mem \o a
  <2>1. src \in 1..Len(mem) /\ n \in Nat /\ Within(mem, n)
    BY <1>2, <1>5 DEF Closed, Within
  <2>2. /\ a \in Seq(Nodes) /\ Fresh(a, 1, src, n, mem)
        /\ Len(a) = IF Kind(src, mem) \in InBlock THEN 2 ELSE 1
    <3>1. mem \in Seq(Nodes)
      BY <1>2
    <3> HIDE DEF n
    <3> QED  BY ONLY <2>1, <3>1, NewForIs
  <2>3. Made(made, mem, src, n, mem)
    <3>1. Fits(n, mem, a, src, mem)
      BY <2>2 DEF Fits
    <3>2. mem \in Seq(Nodes) /\ Closed(mem)
      BY <1>2
    <3> HIDE DEF n, a
    <3> QED  BY ONLY <2>1, <2>2, <3>1, <3>2, CallCopyIs
  <2>4. /\ made \in Seq(Nodes) /\ Closed(made)
        /\ Len(made) = (IF Kind(src, mem) \in InBlock THEN n + 1 ELSE n)
        /\ \A l \in 1..Len(mem) : made[l] = mem[l]
        /\ Fresh(made, n, src, n, mem)
    BY <2>3 DEF Made
  <2>5. mem' = made
    BY <1>5 DEF CallCopy, Allocated, NewFor
  <2> DEFINE todo == IF Kind(src, mem) \in Deep THEN PartKeys(src, mem) ELSE {}
             e == [d |-> n, s |-> src, todo |-> todo]
  <2>6. /\ calls' = Append(<<>>, e) /\ pc' = "copy" /\ outcome' = outcome
        /\ from' = [l \in {n} |-> src]
    BY <1>1, <1>5 DEF CallCopy
  <2> HIDE DEF n, made, a, todo
  <2>7. todo \subseteq Int /\ todo \subseteq PartKeys(src, mem)
    BY <1>2, PartIn DEF todo
  <2>8. e \in Frame /\ e.d = n /\ e.s = src /\ e.todo = todo
    BY <2>1, <2>7 DEF Frame
  <2> HIDE DEF e
  <2>9. /\ calls' \in Seq(Frame) /\ Len(calls') = 1 /\ DOMAIN calls' = {1} /\ calls'[1] = e
        /\ DOMAIN from' = {n} /\ from'[n] = src
    BY <2>6, <2>8
  <2>10. n = Len(mem) + 1 /\ Len(made) \in Nat /\ n \in 1..Len(made) /\ Len(mem) < n
    BY <1>2, <2>1, <2>4 DEF n
  <2>11. /\ Kind(n, made) = Kind(src, mem)
         /\ CopyOf(n, made, from', mem) /\ Filled(n, PartKeys(src, mem), made, from', mem)
    <3>1. /\ src \in DOMAIN mem /\ src # 0 /\ Kind(src, mem) # "block"
          /\ from'[n] = src /\ mem[src] = mem[src]
          /\ Len(mem) \in Nat /\ n \in Nat /\ Len(mem) < n /\ Len(made) \in Nat
          /\ Fresh(made, n, src, n, mem)
      BY <1>2, <2>1, <2>4, <2>9, <2>10
    <3>2. Kind(src, mem) \in InBlock => n + 1 <= Len(made) /\ n + 1 \notin DOMAIN from'
      BY <2>1, <2>4, <2>9
    <3> QED  BY ONLY <3>1, <3>2, CopyNew
  <2>12. PhaseInv'
    BY <1>1, <2>6 DEF IInv, PhaseInv
  <2>13. MemoryInv'
    <3>1. IsMemory(mem')
      BY <2>4, <2>5, MemoryIs
    <3>2. Len(mem) <= Len(made)
      BY <1>2, <2>10
    <3> QED  BY <1>1, <1>2, <1>3, <2>4, <2>5, <2>6, <3>1, <3>2 DEF MemoryInv
  <2>14. FrameInv'
    BY <1>2, <2>5, <2>8, <2>9, <2>10, BoundsAssumption DEF FrameInv
  <2>15. CopiesInv'
    <3>1. DOMAIN from' \subseteq (Len(mem) + 1)..Len(made)
      BY <1>2, <2>9, <2>10
    <3>2. calls'[1].d = n
      BY <2>8, <2>9
    <3> QED  BY <1>1, <2>5, <2>9, <2>11, <3>1, <3>2 DEF CopiesInv
  <2>16. (\A i \in DOMAIN calls : CopyFrame(calls[i]))'
    <3>1. CASE Kind(src, mem) \in Deep
      BY <1>1, <2>5, <2>7, <2>8, <2>9, <2>11, <3>1 DEF CopyFrame, todo
    <3>2. CASE Kind(src, mem) \notin Deep
      BY <1>1, <2>5, <2>7, <2>8, <2>9, <2>11, <3>2 DEF CopyFrame, todo, Filled
    <3> QED  BY <3>1, <3>2
  <2>17. CopyChain'
    BY <1>1, <2>8, <2>9 DEF CopyChain
  <2>18. EqualInv' /\ OutcomeInv'
    BY <1>1, <2>6 DEF EqualInv, OutcomeInv
  <2> QED  BY <2>12, <2>13, <2>14, <2>15, <2>16, <2>17, <2>18 DEF IInv, CopyInv
<1> QED  BY <1>4, <1>5 DEF myDeepCopy

-----------------------------------------------------------------------------
(* What a copy comes to.                                                   *)

\* What IInv says of a copy that is under way or has ended.
LEMMA CopiedIs ==
  ASSUME IInv, outcome # "none"
  PROVE  /\ pc = "copied"
         /\ IsHeap(snapshot) /\ DOMAIN snapshot = 1..Len(snapshot)
         /\ mem \in Seq(Nodes) /\ DOMAIN mem = 1..Len(mem)
         /\ Len(snapshot) \in Nat /\ Len(mem) \in Nat /\ Len(snapshot) <= Len(mem)
         /\ calls \in Seq(Frame) /\ DOMAIN calls = 1..Len(calls) /\ Len(calls) \in Nat
         /\ CopiesInv /\ (\A i \in 1..Len(calls) : CopyFrame(calls[i])) /\ CopyChain /\ OutcomeInv
<1>1. pc = "copied"
  BY DEF IInv, PhaseInv
<1>2. IsHeap(snapshot) /\ Len(snapshot) <= Len(mem) /\ IsMemory(mem)
  BY <1>1 DEF IInv, MemoryInv, Started
<1>3. snapshot \in Seq(Nodes) /\ mem \in Seq(Nodes)
  BY <1>2, HeapIs, MemoryIs
<1>4. calls \in Seq(Frame)
  BY DEF IInv, FrameInv
<1>5. CopiesInv /\ (\A i \in DOMAIN calls : CopyFrame(calls[i])) /\ CopyChain /\ OutcomeInv
  BY <1>1 DEF IInv, CopyInv
<1> QED  BY <1>1, <1>2, <1>3, <1>4, <1>5

\* The calls were about values that lead to one another.
LEMMA CopyLeads ==
  ASSUME IInv, outcome # "none", Len(calls) > 0
  PROVE  /\ Leads(Ss, src, snapshot)
         /\ \A i \in DOMAIN calls : Ss[i] = calls[i].s /\ calls[i].s \in 1..Len(snapshot)
<1>1. /\ DOMAIN snapshot = 1..Len(snapshot) /\ Len(calls) \in Nat
      /\ DOMAIN calls = 1..Len(calls) /\ CopiesInv
      /\ (\A i \in 1..Len(calls) : CopyFrame(calls[i])) /\ CopyChain
  BY CopiedIs
<1>2. \A i \in DOMAIN calls : calls[i].s \in 1..Len(snapshot)
  BY <1>1 DEF CopyFrame, CopiesInv, CopyOf
<1>3. \A i \in DOMAIN calls : Ss[i] = calls[i].s
  BY DEF Ss
<1>4. /\ 1 \in DOMAIN calls
      /\ \A i \in 1..(Len(calls) - 1) : i \in DOMAIN calls /\ i + 1 \in DOMAIN calls
  BY <1>1
<1>5. Ss[1] = src
  BY <1>1, <1>3, <1>4 DEF CopyChain
<1>6. \A i \in 1..(Len(calls) - 1) : \E k \in PartKeys(Ss[i], snapshot) :
        Ss[i + 1] = Part(Ss[i], k, snapshot)
  <2> TAKE i \in 1..(Len(calls) - 1)
  <2>1. \E k \in PartKeys(calls[i].s, snapshot) : calls[i + 1].s = Part(calls[i].s, k, snapshot)
    BY <1>1 DEF CopyChain
  <2>2. Ss[i] = calls[i].s /\ Ss[i + 1] = calls[i + 1].s
    BY <1>3, <1>4
  <2> QED  BY ONLY <2>1, <2>2
<1> HIDE DEF Ss
<1>7. Leads(Ss, src, snapshot)
  BY <1>5, <1>6 DEF Leads
<1> QED  BY <1>2, <1>3, <1>7

LEMMA CopiedOverflow ==
  ASSUME IInv, outcome = "overflow", Len(snapshot) < Stack
  PROVE  Circle(Ss, src, snapshot)
<1>1. /\ Len(calls) = Stack /\ Len(calls) > 0 /\ DOMAIN calls = 1..Len(calls)
      /\ Len(snapshot) \in Nat /\ Len(calls) \in Nat
  <2>1. OutcomeInv
    BY CopiedIs
  <2>2. DOMAIN calls = 1..Len(calls) /\ Len(snapshot) \in Nat /\ Len(calls) \in Nat
    BY CopiedIs
  <2>3. Len(calls) = Stack
    BY <2>1 DEF OutcomeInv
  <2> QED  BY <2>2, <2>3, BoundsAssumption
<1>2. /\ Leads(Ss, src, snapshot)
      /\ \A i \in DOMAIN calls : Ss[i] \in 1..Len(snapshot)
  BY <1>1, CopyLeads
<1>3. \E i, j \in 1..Len(calls) : i < j /\ Ss[i] = Ss[j]
  <2> DEFINE n == Len(calls)
  <2>1. n \in Nat /\ Len(snapshot) \in Nat /\ Len(snapshot) < n /\ \A i \in 1..n : Ss[i] \in 1..Len(snapshot)
    BY <1>1, <1>2
  <2> HIDE DEF n, Ss
  <2>2. \E i, j \in 1..n : i < j /\ Ss[i] = Ss[j]
    BY ONLY <2>1, Pigeons
  <2> QED  BY <2>2 DEF n
<1> QED  BY <1>1, <1>2, <1>3 DEF Circle

LEMMA OverflowInv == IInv => OverflowMeansCycle
  BY ComparedOverflow, CopiedOverflow DEF OverflowMeansCycle

\* When no call is under way, a copy is its source, place by place.
LEMMA CopyIsSource ==
  ASSUME IInv, outcome = "ok", NEW l \in DOMAIN from
  PROVE  /\ l \notin DOMAIN snapshot /\ from[l] \in DOMAIN snapshot
         /\ mem[l].type = snapshot[from[l]].type /\ mem[l].data = snapshot[from[l]].data
         /\ Kind(l, mem) \in {"interface", "func", "chan", "string"} =>
              mem[l].kids = snapshot[from[l]].kids
         /\ Kind(l, mem) \notin {"interface", "func", "chan", "string"} =>
              /\ PartKeys(l, mem) = PartKeys(from[l], snapshot)
              /\ \A k \in PartKeys(l, mem) :
                   /\ Part(l, k, mem) \in DOMAIN from
                   /\ from[Part(l, k, mem)] = Part(from[l], k, snapshot)
<1> DEFINE h == snapshot
           s == from[l]
           held == mem[Holder(l, mem)].kids
<1>1. /\ IsHeap(h) /\ DOMAIN h = 1..Len(h) /\ Len(h) \in Nat /\ Len(mem) \in Nat
      /\ CopiesInv /\ calls = <<>>
  BY CopiedIs DEF OutcomeInv
<1>2. /\ l \in (Len(h) + 1)..Len(mem) /\ CopyOf(l, mem, from, h) /\ Filled(l, {}, mem, from, h)
  BY <1>1 DEF CopiesInv
<1>3. /\ s \in DOMAIN h /\ s # 0 /\ Kind(s, h) # "block"
      /\ mem[l].type = h[s].type /\ mem[l].data = h[s].data
      /\ Kind(l, mem) \in InBlock =>
           DOMAIN mem[l].kids = {1} /\ Holder(l, mem) \in (Len(h) + 1)..Len(mem)
      /\ Kind(l, mem) \in Deep => \A k \in DOMAIN held :
           k \in PartKeys(s, h) /\ held[k] \in DOMAIN from /\ from[held[k]] = Part(s, k, h)
      /\ Kind(l, mem) \notin Deep => mem[l].kids = h[s].kids
  BY <1>1, <1>2 DEF CopyOf
<1>4. Kind(l, mem) \in Deep => DOMAIN held = PartKeys(s, h)
  BY <1>2 DEF Filled
<1> HIDE DEF held, s, h
<1>5. l # 0 /\ l \notin DOMAIN h /\ Kind(l, mem) = Kind(s, h)
  BY <1>1, <1>2, <1>3 DEF Kind
<1>6. CASE Kind(l, mem) \in InBlock
  <2>1. /\ Pointer(l, mem) = Holder(l, mem) /\ Pointer(l, mem) # 0 /\ ~IsNil(l, mem)
        /\ Kind(l, mem) \in Deep
    <3>1. DOMAIN mem[l].kids = {1} /\ Holder(l, mem) # 0
      BY <1>1, <1>3, <1>6
    <3> QED  BY <1>6, <3>1 DEF Pointer, IsNil, Holder, InBlock, Deep
  <2>2. /\ \A k : Part(l, k, mem) = held[k]
        /\ Kind(l, mem) = "map" => PartKeys(l, mem) = DOMAIN held
        /\ Kind(l, mem) = "slice" => PartKeys(l, mem) = 1..h[s].data
    BY <1>3, <1>6, <2>1 DEF Part, PartKeys, InBlock, held
  <2>3. Kind(l, mem) = "slice" => PartKeys(s, h) = 1..h[s].data
    <3> SUFFICES ASSUME Kind(l, mem) = "slice"  PROVE PartKeys(s, h) = 1..h[s].data
      OBVIOUS
    <3>1. IsHeap(h) /\ s \in 1..Len(h) /\ Kind(s, h) = "slice"
      BY <1>1, <1>3, <1>5
    <3> QED  BY ONLY <3>1, SliceIs
  <2>4. PartKeys(l, mem) = PartKeys(s, h) /\ DOMAIN held = PartKeys(s, h)
    BY <1>4, <1>6, <2>1, <2>2, <2>3 DEF InBlock
  <2> QED  BY <1>3, <1>5, <1>6, <2>1, <2>2, <2>4 DEF s, h, InBlock
<1>7. CASE Kind(l, mem) = "pointer"
  <2>1. PartKeys(l, mem) = {1} /\ PartKeys(s, h) = {1} /\ Kind(l, mem) \in Deep
        /\ held = mem[l].kids
    BY <1>5, <1>7 DEF PartKeys, Deep, held, Holder, InBlock
  <2>2. Part(l, 1, mem) = held[1] /\ DOMAIN held = {1}
    BY <1>4, <1>7, <2>1 DEF Part, Pointer
  <2> QED  BY <1>3, <1>5, <1>7, <2>1, <2>2 DEF s, h
<1>8. CASE Kind(l, mem) \in {"array", "struct"}
  <2>1. /\ Kind(l, mem) \in Deep /\ held = mem[l].kids /\ PartKeys(l, mem) = DOMAIN held
        /\ \A k : Part(l, k, mem) = held[k]
    BY <1>5, <1>8 DEF PartKeys, Part, Deep, held, Holder, InBlock
  <2> QED  BY <1>3, <1>4, <1>5, <1>8, <2>1 DEF s, h
<1>9. CASE Kind(l, mem) \in {"interface", "func", "chan", "string"}
  <2>1. Kind(l, mem) \notin Deep
    BY <1>9 DEF Deep
  <2> QED  BY <1>3, <1>5, <1>9, <2>1 DEF s, h
<1>10. CASE Kind(l, mem) \notin {"array", "struct", "pointer", "interface", "func", "chan",
                               "string"} \cup InBlock
  <2>1. Kind(l, mem) \notin Deep
    BY <1>10 DEF Deep, InBlock
  <2>2. DOMAIN h[s].kids = {}
    BY <1>1, <1>3, <1>5, <1>10, <2>1 DEF IsHeap, InBlock
  <2>3. PartKeys(l, mem) = {} /\ PartKeys(s, h) = {}
    BY <1>3, <1>5, <1>10, <2>1, <2>2 DEF PartKeys, InBlock
  <2> QED  BY <1>3, <1>5, <1>10, <2>3 DEF s, h
<1> QED  BY <1>6, <1>7, <1>8, <1>9, <1>10

LEMMA CopiesInvariant == IInv => CopyStandsAlone
<1> SUFFICES ASSUME IInv  PROVE CopyStandsAlone
  OBVIOUS
<1>1. ASSUME outcome = "ok"  PROVE copied \in DOMAIN from /\ from[copied] = src
  BY <1>1, CopiedIs DEF OutcomeInv
<1>2. ASSUME outcome = "ok", NEW l \in DOMAIN from
      PROVE  /\ l \notin DOMAIN snapshot /\ from[l] \in DOMAIN snapshot
             /\ mem[l].type = snapshot[from[l]].type /\ mem[l].data = snapshot[from[l]].data
             /\ IF Kind(l, mem) \in {"interface", "func", "chan", "string"}
                THEN mem[l].kids = snapshot[from[l]].kids
                ELSE /\ PartKeys(l, mem) = PartKeys(from[l], snapshot)
                     /\ \A k \in PartKeys(l, mem) :
                          /\ Part(l, k, mem) \in DOMAIN from
                          /\ from[Part(l, k, mem)] = Part(from[l], k, snapshot)
  BY <1>2, CopyIsSource
<1>3. pc \in {"copy", "copied"} /\ writes = 0 => \A l \in DOMAIN snapshot : mem[l] = snapshot[l]
  BY DEF IInv, MemoryInv
<1>4. ASSUME outcome = "panic", src # 0
      PROVE  /\ Len(calls) > 0 /\ Leads(Ss, src, snapshot)
             /\ \/ /\ Kind(calls[Len(calls)].s, snapshot) = "pointer"
                   /\ IsNil(calls[Len(calls)].s, snapshot)
                \/ Types[snapshot[calls[Len(calls)].s].type].hidden # {}
  <2>1. OutcomeInv
    BY <1>4, CopiedIs
  <2>2. Len(calls) > 0
    BY <1>4, <2>1 DEF OutcomeInv
  <2> QED  BY <1>4, <2>1, <2>2, CopyLeads DEF OutcomeInv, Top
<1> QED  BY <1>1, <1>2, <1>3, <1>4 DEF CopyStandsAlone

LEMMA TypeInv == IInv => TypeOK
<1> SUFFICES ASSUME IInv  PROVE TypeOK
  OBVIOUS
<1>1. IsMemory(mem) /\ Len(mem) \in Nat
  BY MemoryIs DEF IInv, MemoryInv
<1>2. PhaseInv /\ calls \in Seq(Frame) /\ Len(calls) <= Stack
      /\ \A i \in DOMAIN calls : calls[i].d <= Len(mem) /\ calls[i].s <= Len(mem)
  BY DEF IInv, FrameInv
<1>3. \A i \in DOMAIN calls : calls[i].d \in 0..Len(mem) /\ calls[i].s \in 0..Len(mem)
  <2>1. \A i \in DOMAIN calls : calls[i] \in Frame
    BY <1>2
  <2> QED  BY <1>1, <1>2, <2>1 DEF Frame
<1>4. {dst, src} \subseteq 0..Len(mem)
  <2>1. CASE pc \in {"start", "equal", "compared"}
    BY <2>1 DEF IInv, MemoryInv, Started
  <2>2. CASE pc \in {"copy", "copied"}
    <3>1. Started(snapshot) /\ Len(snapshot) <= Len(mem)
      BY <2>2 DEF IInv, MemoryInv
    <3>2. Len(snapshot) \in Nat
      BY <3>1, HeapIs DEF Started
    <3> QED  BY <1>1, <3>1, <3>2 DEF Started
  <2> QED  BY <1>2, <2>1, <2>2 DEF PhaseInv
<1>5. DOMAIN from \subseteq (Len(snapshot) + 1)..Len(mem)
  <2>1. CASE pc \in {"start", "equal", "compared"}
    BY <1>2, <2>1 DEF PhaseInv
  <2>2. CASE pc \in {"copy", "copied"}
    BY <2>2 DEF IInv, CopyInv, CopiesInv
  <2> QED  BY <1>2, <2>1, <2>2 DEF PhaseInv
<1>6. outcome = "ok" => copied \in DOMAIN from /\ mem[copied].type = snapshot[src].type
  <2>1. ASSUME outcome = "ok"  PROVE copied \in DOMAIN from /\ from[copied] = src
    BY <2>1, CopiedIs DEF OutcomeInv
  <2> QED  BY <2>1, CopyIsSource
<1>7. copied \in 0..Len(mem)
  <2>1. CASE outcome = "ok"
    <3>1. copied \in (Len(snapshot) + 1)..Len(mem) /\ Len(snapshot) \in Nat
      BY <1>5, <1>6, <2>1, CopiedIs
    <3> QED  BY <1>1, <3>1
  <2>2. CASE outcome # "ok"
    BY <1>1, <1>2, <2>2 DEF PhaseInv
  <2> QED  BY <2>1, <2>2
<1> QED  BY <1>1, <1>2, <1>3, <1>4, <1>5, <1>6, <1>7 DEF TypeOK, PhaseInv

-----------------------------------------------------------------------------
(* The theorems.                                                           *)

LEMMA Inductive == Spec => []IInv
<1>1. IInv /\ [Next]_vars => IInv'
  <2> SUFFICES ASSUME IInv, [Next]_vars  PROVE IInv'
    OBVIOUS
  <2>1. CASE Next
    BY <2>1, MyDeepEqualStep, EqualPartStep, EqualReturnStep, MyDeepCopyStep, CopyPartStep,
       CopyReturnStep, WriteStep DEF Next
  <2>2. CASE UNCHANGED vars
    <3>1. PhaseInv' /\ MemoryInv' /\ FrameInv'
      BY <2>2 DEF vars, IInv, PhaseInv, MemoryInv, FrameInv, Started
    <3>2. EqualInv'
      <4>1. ASSUME pc \in {"equal", "compared"}
            PROVE  (FirstInv /\ \A i \in DOMAIN calls : EqualFrame(calls[i]))'
        BY <2>2, <4>1 DEF vars, IInv, EqualInv, FirstInv, ArgsAlike, EqualFrame, Entered
      <4>2. ASSUME pc \in {"equal", "compared"}  PROVE (ChainInv /\ PastInv)'
        BY <2>2, <4>2 DEF vars, IInv, EqualInv, Entered, ChainInv, Below, PastInv
      <4>3. ASSUME pc \in {"equal", "compared"}  PROVE (SameInv /\ VerdictInv)'
        BY <2>2, <4>3 DEF vars, IInv, EqualInv, ArgsAlike, Entered, SameInv, Proved, VerdictInv, Top
      <4>4. pc' = pc
        BY <2>2 DEF vars
      <4> QED  BY <4>1, <4>2, <4>3, <4>4 DEF EqualInv
    <3>3. CopyInv'
      BY <2>2 DEF vars, IInv, CopyInv, CopiesInv, CopyFrame, CopyChain, OutcomeInv, Top
    <3> QED  BY <3>1, <3>2, <3>3 DEF IInv
  <2> QED  BY <2>1, <2>2
<1> QED  BY <1>1, InitInv, PTL DEF Spec

\* Whatever is referred to lies in memory, and a copy has the type of its source, for
\* any types, heaps, arguments and stack.
THEOREM TypeCorrect == Spec => []TypeOK
<1>1. IInv => TypeOK
  BY TypeInv
<1> QED  BY <1>1, Inductive, PTL

\* What myDeepEqual calls equal is equal for reflect.DeepEqual, but for maps, nil
\* slices and nil pointers (value.go:40-117).
THEOREM EqualsAreEqual == Spec => []EqualIsJustified
<1>1. IInv => EqualIsJustified
  BY EqualsInv
<1> QED  BY <1>1, Inductive, PTL

\* Where myDeepEqual finds a difference or panics, there is one (value.go:40-117).
THEOREM DifferencesAreReal == Spec => []DifferenceIsReal
<1>1. IInv => DifferenceIsReal
  BY DifferencesInv
<1> QED  BY <1>1, Inductive, PTL

\* Neither of the two recursions runs out of a stack with room for a call per location
\* on anything but a cycle (value.go:130).
THEOREM OnlyCyclesOverflow == Spec => []OverflowMeansCycle
<1>1. IInv => OverflowMeansCycle
  BY OverflowInv
<1> QED  BY <1>1, Inductive, PTL

\* A copy is its source, place by place, and no write through the source reaches it
\* (value.go:223-260).
THEOREM CopiesStandAlone == Spec => []CopyStandsAlone
<1>1. IInv => CopyStandsAlone
  BY CopiesInvariant
<1> QED  BY <1>1, Inductive, PTL
=============================================================================
