----------------------------- MODULE Reflection -----------------------------
(***************************************************************************)
(* interface/value.go: comparison (myDeepEqual) and copy (myDeepCopy) by   *)
(* reflection, call by call.  The package reflect is modelled by what its  *)
(* methods return for each kind, and where they panic.                     *)
(*                                                                         *)
(* A reflect.Value is a pointer to where the value lies, so here it is a   *)
(* location of the memory; 0 is the zero Value.  What lies there is a node:*)
(* a type, plain data (of a slice its length) and the locations of what it *)
(* consists of or refers to, its kids.  A slice and a map refer to a block *)
(* with the elements; what is nil has no kids.  The data of a string say   *)
(* which text it is, its kids are the bytes.                               *)
(***************************************************************************)
EXTENDS Integers, Sequences, FiniteSets

CONSTANTS
  Types,    \* the types: name -> [kind, hidden, len, text]; hidden: the fields not
            \* exported, len: of a pointer to an array, text: "<T Value>", T the type
  Inputs,   \* what the program may start from: [mems, args]
  Stack,    \* bound: calls the stack has room for
  MaxWrites \* bound: writes after the copy

VARIABLES
  mem,      \* location -> node
  dst, src, \* the arguments; src is the one that is copied
  pc,       \* where main is: "start", "equal", "compared", "copy" or "copied"
  calls,    \* the calls under way: [d, s, todo], todo: keys still to go through
  verdict,  \* what myDeepEqual came to
  outcome,  \* what myDeepCopy came to
  copied,   \* where the copy lies
  writes,   \* writes through src since
  same,     \* history: the pairs of which a call said that they are equal
  from,     \* history: of which location each copied one is the copy
  snapshot  \* history: the memory that was copied

vars == <<mem, dst, src, pc, calls, verdict, outcome, copied, writes,
          same, from, snapshot>>

NaN == -1
NoLen == -1        \* len of a type that is no pointer to an array
InvalidText == -2  \* the text "<invalid Value>"
IsNode(n) ==
  /\ n = [type |-> n.type, data |-> n.data, kids |-> [k \in DOMAIN n.kids |-> n.kids[k]]]
  /\ n.type \in DOMAIN Types /\ n.data \in Int /\ DOMAIN n.kids \subseteq Int

\* A memory refers to nothing outside it.
IsMemory(m) ==
  /\ m \in Seq({m[l] : l \in DOMAIN m})
  /\ \A l \in DOMAIN m :
       IsNode(m[l]) /\ \A k \in DOMAIN m[l].kids : m[l].kids[k] \in DOMAIN m

Block == [type |-> "block", data |-> 0, kids |-> <<>>]

Kind(v, m) == IF v = 0 THEN "invalid" ELSE Types[m[v].type].kind

-----------------------------------------------------------------------------
(* The methods of reflect.Value.                                           *)

\* The kinds a method does not panic for (go.mod: go 1.20).
Accepts ==
  [Bool   |-> {"bool"},
   Int    |-> {"int", "int8"},
   Uint   |-> {"uint8"},
   Float  |-> {"float"},
   Len    |-> {"array", "chan", "map", "pointer", "slice", "string"},
   Index  |-> {"array", "slice", "string"},
   Field  |-> {"struct"},
   IsNil  |-> {"chan", "func", "interface", "map", "pointer", "slice"},
   Elem   |-> {"interface", "pointer"},
   UnsafePointer |-> {"chan", "func", "map", "pointer", "slice"}]

Getter == [bool |-> "Bool", int |-> "Int", int8 |-> "Int", uint8 |-> "Uint"]

\* Where the value points; channels and functions lie outside this memory.
Pointer(v, m) ==
  CASE Kind(v, m) \in {"chan", "func"} -> m[v].data
    [] DOMAIN m[v].kids = {}           -> 0
    [] OTHER                           -> m[v].kids[1]
IsNil(v, m) == Pointer(v, m) = 0

\* The parts of a value: what Elem, Field, Index and MapIndex yield.
PartKeys(v, m) ==
  CASE Kind(v, m) = "slice"   -> IF IsNil(v, m) THEN {} ELSE 1..m[v].data
    [] Kind(v, m) = "map"     -> IF IsNil(v, m) THEN {} ELSE DOMAIN m[Pointer(v, m)].kids
    [] Kind(v, m) = "pointer" -> {1}
    [] Kind(v, m) = "invalid" -> {}
    [] OTHER                  -> DOMAIN m[v].kids

Part(v, k, m) ==
  CASE Kind(v, m) \in {"map", "slice"} -> m[Pointer(v, m)].kids[k]
    [] Kind(v, m) = "pointer"          -> Pointer(v, m)
    [] OTHER                           -> m[v].kids[k]

Size(v, m) ==
  CASE Kind(v, m) = "slice"   -> m[v].data
    [] Kind(v, m) = "pointer" -> Types[m[v].type].len
    [] OTHER                  -> Cardinality(PartKeys(v, m))

\* The method does not panic for v; of the pointers only those to an array have a Len.
Admits(method, v, m) ==
  /\ Kind(v, m) \in Accepts[method]
  /\ method = "Len" /\ Kind(v, m) = "pointer" => Types[m[v].type].len # NoLen

\* String() panics for nothing.
Text(v, m) ==
  CASE Kind(v, m) = "string"  -> m[v].data
    [] Kind(v, m) = "invalid" -> InvalidText
    [] OTHER                  -> Types[m[v].type].text

\* The key a loop comes to next: the least, but any one of a map.
NextKeys(v, todo, m) ==
  {k \in todo : Kind(v, m) = "map" \/ \A j \in todo : k <= j}

\* A string consists of bytes, the same ones wherever it has the same text.
Bytes(v, m) == [k \in DOMAIN m[v].kids |-> m[m[v].kids[k]].data]
StringsHold(m) ==
  LET strings == {l \in DOMAIN m : Kind(l, m) = "string"}
      bytes   == {l \in DOMAIN m : Kind(l, m) = "uint8"}
  IN /\ \A l \in strings : m[l].kids \in Seq(bytes)
     /\ \A l, j \in strings : m[l].data = m[j].data <=> Bytes(l, m) = Bytes(j, m)

\* What has the length of an array points to one of that length.
LensHold(m) ==
  \A l \in DOMAIN m : Kind(l, m) = "pointer" /\ ~IsNil(l, m) /\ Size(l, m) # NoLen =>
    Kind(Pointer(l, m), m) = "array" /\ Size(Pointer(l, m), m) = Size(l, m)

\* What the compiler and the runtime see to: lengths lie inside their blocks, plain
\* data refers to nothing, and of values of one type the parts have one type, but
\* what an interface holds.
IsHeap(m) ==
  /\ IsMemory(m) /\ StringsHold(m) /\ LensHold(m)
  /\ \A l \in DOMAIN m :
       /\ CASE Kind(l, m) = "slice" ->
                 \/ DOMAIN m[l].kids = {} /\ m[l].data = 0
                 \/ /\ DOMAIN m[l].kids = {1} /\ m[l].data \in Nat
                    /\ 1..m[l].data \subseteq DOMAIN m[m[l].kids[1]].kids
            [] Kind(l, m) \in {"interface", "map", "pointer"} ->
                 DOMAIN m[l].kids \in {{}, {1}}
            [] Kind(l, m) \in {"array", "block", "string", "struct"} -> TRUE
            [] OTHER -> DOMAIN m[l].kids = {}
       /\ Kind(l, m) # "block" =>
            \A k \in PartKeys(l, m) : Kind(Part(l, k, m), m) # "block"
       /\ Kind(l, m) \notin {"block", "interface"} =>
            \A j \in DOMAIN m : m[j].type = m[l].type =>
              /\ Kind(l, m) \in {"array", "struct"} => PartKeys(j, m) = PartKeys(l, m)
              /\ \A k \in PartKeys(l, m) \cap PartKeys(j, m) :
                   0 \notin {Part(l, k, m), Part(j, k, m)} =>
                     m[Part(l, k, m)].type = m[Part(j, k, m)].type

ASSUME TypesAssumption ==
  /\ \A t \in DOMAIN Types :
       Types[t].kind \in {"bool", "int", "int8", "uint8", "float", "string", "func", "chan",
         "interface", "pointer", "slice", "array", "map", "struct", "block"}
  /\ "block" \in DOMAIN Types /\ Types["block"].kind = "block"

ASSUME InputsAssumption ==
  \A input \in Inputs : \A m \in input.mems :
    /\ IsHeap(m)
    /\ \A args \in input.args, i \in {1, 2} :
         args[i] \in 0..Len(m) /\ Kind(args[i], m) # "block"

ASSUME BoundsAssumption == Stack \in Nat \ {0} /\ MaxWrites \in Nat

-----------------------------------------------------------------------------
(* Comparison.                                                             *)

Verdict(b) == IF b THEN "true" ELSE "false"

\* What a call comes to before it calls itself; "parts": by way of the parts.  The
\* kinds that have no case of their own (channels, uintptr, complex) end below.
AtOnce(d, s, m) ==
  LET With(method, v) == IF Admits(method, s, m) THEN v ELSE "panic"
      kind == Kind(d, m)
  IN
  CASE kind \in DOMAIN Getter -> With(Getter[kind], Verdict(m[d].data = m[s].data))
    [] kind = "float" -> With("Float", Verdict(m[d].data = m[s].data /\ m[d].data # NaN))
    [] kind = "string" -> Verdict(m[d].data = Text(s, m))
    [] kind = "slice" ->
         With("Len", IF Size(d, m) # Size(s, m) THEN "false"
           ELSE With("UnsafePointer", IF Pointer(d, m) = Pointer(s, m) THEN "true"
                                      ELSE "parts"))
    [] kind \in {"array", "struct"} -> "parts"
    [] kind = "map" -> With("Len", IF Size(d, m) # Size(s, m) THEN "false" ELSE "parts")
    [] kind = "interface" ->
         With("IsNil", IF IsNil(d, m) \/ IsNil(s, m)
                       THEN Verdict(IsNil(d, m) = IsNil(s, m)) ELSE "parts")
    [] kind = "pointer" ->
         With("UnsafePointer", IF Pointer(d, m) = Pointer(s, m) THEN "true" ELSE "parts")
    [] kind = "func" ->
         IF IsNil(d, m) THEN With("IsNil", Verdict(IsNil(s, m))) ELSE "false"
    [] OTHER -> "false"

LoopShort(d, m) ==  \* Mutant: index < Len() - 1.
  IF Kind(d, m) = "slice" THEN 1..(m[d].data - 1) ELSE PartKeys(d, m)

\* What it goes through.
Loop(d, m) == PartKeys(d, m)

\* Asking s for part k does not panic.
Takes(d, s, k, m) ==
  \/ Kind(d, m) = "map"
  \/ /\ Kind(s, m) \in CASE Kind(d, m) \in {"array", "slice"} -> Accepts["Index"]
                         [] Kind(d, m) = "struct"             -> Accepts["Field"]
                         [] OTHER                             -> Accepts["Elem"]
     /\ k \in PartKeys(s, m)

\* The part of s that is held against part k of d: the key of a map is looked up
\* in dst again.
SrcFirst(d, s, k, m) ==  \* Mutant: src.Index(0).
  IF Kind(d, m) = "map" THEN Part(d, k, m) ELSE Part(s, 1, m)
SrcPart(d, s, k, m) == IF Kind(d, m) = "map" THEN Part(d, k, m) ELSE Part(s, k, m)

Top == calls[Len(calls)]
Popped == SubSeq(calls, 1, Len(calls) - 1)
\* The calls, once the loop of the last has come past k.
Past(k) == [calls EXCEPT ![Len(calls)].todo = @ \ {k}]

\* The call of myDoDeepEqual: what it comes to at once ends it, or everything.
CallEqual(d, s, callers) ==
  LET v == AtOnce(d, s, mem) IN
  /\ calls' = Append(callers,
       [d |-> d, s |-> s, todo |-> IF v = "parts" THEN Loop(d, mem) ELSE {}])
  /\ \/ v \in {"true", "parts"} /\ pc' = "equal" /\ UNCHANGED verdict
     \/ v \in {"false", "panic"} /\ pc' = "compared" /\ verdict' = v

\* Type() of the zero Value panics.
myDeepEqual ==
  /\ pc = "start"
  /\ \/ /\ 0 \in {dst, src}
        /\ verdict' = "panic" /\ pc' = "compared" /\ UNCHANGED calls
     \/ /\ 0 \notin {dst, src} /\ mem[dst].type # mem[src].type
        /\ verdict' = "false" /\ pc' = "compared" /\ UNCHANGED calls
     \/ /\ 0 \notin {dst, src} /\ mem[dst].type = mem[src].type
        /\ CallEqual(dst, src, calls)
  /\ UNCHANGED <<mem, dst, src, outcome, copied, writes, same, from, snapshot>>

EqualPart ==
  /\ pc = "equal"
  /\ \E k \in NextKeys(Top.d, Top.todo, mem) :
       LET takes == Takes(Top.d, Top.s, k, mem) IN
       \/ /\ ~takes
          /\ verdict' = "panic" /\ pc' = "compared" /\ UNCHANGED calls
       \/ /\ takes /\ Len(calls) = Stack
          /\ verdict' = "overflow" /\ pc' = "compared" /\ UNCHANGED calls
       \/ /\ takes /\ Len(calls) < Stack
          /\ CallEqual(Part(Top.d, k, mem), SrcPart(Top.d, Top.s, k, mem), Past(k))
  /\ UNCHANGED <<mem, dst, src, outcome, copied, writes, same, from, snapshot>>

EqualReturn ==
  /\ pc = "equal" /\ Top.todo = {}
  /\ same' = same \cup {<<Top.d, Top.s>>} /\ calls' = Popped
  /\ \/ Len(calls) > 1 /\ UNCHANGED <<pc, verdict>>
     \/ Len(calls) = 1 /\ pc' = "compared" /\ verdict' = "true"
  /\ UNCHANGED <<mem, dst, src, outcome, copied, writes, from, snapshot>>

-----------------------------------------------------------------------------
(* Copying.  A call allocates what it is going to return, and fills it in  *)
(* as the calls for the parts return; nobody sees it before.               *)

DeepButSlices ==  \* Mutant: a slice is returned as it is.
  {"array", "map", "pointer", "struct"}

\* The kinds that are copied part by part; of the others Set copies the node.
Deep == {"array", "map", "pointer", "slice", "struct"}

ElemForgotten(v, k, m) ==  \* Mutant: myDoDeepCopy(src), not of src.Elem().
  IF Kind(v, m) = "pointer" THEN v ELSE Part(v, k, m)

\* What the call within the call is for.
ToCopy(v, k, m) == Part(v, k, m)

\* An exported field of a variable; what hides it is that it is not exported.
CanSet(v, k, m) == k \notin Types[m[v].type].hidden

\* What New, MakeSlice and MakeMap allocate for the copy of s, at location n.
Allocated(s, n) ==
  CASE Kind(s, mem) \in Deep \cap {"map", "slice"} ->
         <<[mem[s] EXCEPT !.kids = <<n + 1>>], Block>>
    [] Kind(s, mem) \in Deep \ {"map", "slice"} -> <<[mem[s] EXCEPT !.kids = <<>>]>>
    [] OTHER -> <<mem[s]>>

\* The memory once n has been made part k of v.
WithPart(v, k, n) ==
  LET h == IF Kind(v, mem) \in {"map", "slice"} THEN Pointer(v, mem) ELSE v
      kids == [j \in DOMAIN mem[h].kids \cup {k} |-> IF j = k THEN n ELSE mem[h].kids[j]]
  IN [mem EXCEPT ![h].kids = kids]

\* The call of myDoDeepCopy for s, in memory m.
CallCopy(s, callers, m) ==
  LET n == Len(mem) + 1 IN
  /\ mem' = m \o Allocated(s, n)
  /\ calls' = Append(callers,
       [d |-> n, s |-> s, todo |-> IF Kind(s, mem) \in Deep THEN PartKeys(s, mem) ELSE {}])
  /\ from' = [l \in DOMAIN from \cup {n} |-> IF l = n THEN s ELSE from[l]]
  /\ pc' = "copy" /\ UNCHANGED outcome

\* Interface() of the zero Value panics.
myDeepCopy ==
  /\ pc = "compared" /\ snapshot' = mem
  /\ \/ /\ src = 0 /\ outcome' = "panic" /\ pc' = "copied" /\ calls' = <<>>
        /\ UNCHANGED <<mem, from>>
     \/ src # 0 /\ CallCopy(src, <<>>, mem)
  /\ UNCHANGED <<dst, src, verdict, copied, writes, same>>

\* Of a nil pointer the call returns the zero Value, and Set of it panics.
CopyPart ==
  /\ pc = "copy"
  /\ \E k \in NextKeys(Top.s, Top.todo, mem) :
       LET part == ToCopy(Top.s, k, mem)
           Ends(o) == outcome' = o /\ pc' = "copied" /\ UNCHANGED <<mem, calls, from>>
       IN
       \/ ~CanSet(Top.s, k, mem) /\ Ends("panic")
       \/ CanSet(Top.s, k, mem) /\ Len(calls) = Stack /\ Ends("overflow")
       \/ CanSet(Top.s, k, mem) /\ Len(calls) < Stack /\ part = 0 /\ Ends("panic")
       \/ CanSet(Top.s, k, mem) /\ Len(calls) < Stack /\ part # 0
            /\ CallCopy(part, Past(k), WithPart(Top.d, k, Len(mem) + 1))
  /\ UNCHANGED <<dst, src, verdict, copied, writes, same, snapshot>>

CopyReturnElem ==  \* Mutant: returns elem, not elem.Addr().
  /\ pc = "copy" /\ Top.todo = {} /\ calls' = Popped
  /\ \/ Len(calls) > 1 /\ UNCHANGED <<pc, outcome, copied>>
     \/ /\ Len(calls) = 1 /\ pc' = "copied" /\ outcome' = "ok"
        /\ copied' = IF Kind(Top.d, mem) = "pointer" THEN Pointer(Top.d, mem) ELSE Top.d
  /\ UNCHANGED <<mem, dst, src, verdict, writes, same, from, snapshot>>

CopyReturn ==
  /\ pc = "copy" /\ Top.todo = {} /\ calls' = Popped
  /\ \/ Len(calls) > 1 /\ UNCHANGED <<pc, outcome, copied>>
     \/ Len(calls) = 1 /\ pc' = "copied" /\ outcome' = "ok" /\ copied' = Top.d
  /\ UNCHANGED <<mem, dst, src, verdict, writes, same, from, snapshot>>

\* What main may store: at each location what some memory of this size has there.
Stores ==
  UNION {{[size |-> Len(m), at |-> l, node |-> m[l]] : l \in DOMAIN m} :
           m \in UNION {input.mems : input \in Inputs}}

\* main goes on to write to the source and what it refers to (here: to anything
\* that was there before the copy); the copy it only prints.
Write ==
  /\ pc = "copied" /\ outcome = "ok" /\ writes < MaxWrites /\ writes' = writes + 1
  /\ \E s \in Stores :
       /\ s.size = Len(snapshot) /\ s.node.type = mem[s.at].type
       /\ mem' = [mem EXCEPT ![s.at] = s.node]
  /\ UNCHANGED <<dst, src, pc, calls, verdict, outcome, copied, same, from, snapshot>>

-----------------------------------------------------------------------------
Init ==
  /\ \E input \in Inputs : \E args \in input.args :
       mem \in input.mems /\ dst = args[1] /\ src = args[2]
  /\ pc = "start" /\ calls = <<>> /\ same = {} /\ from = <<>> /\ snapshot = <<>>
  /\ verdict = "none" /\ outcome = "none" /\ copied = 0 /\ writes = 0

Next ==
  \/ myDeepEqual \/ EqualPart \/ EqualReturn
  \/ myDeepCopy \/ CopyPart \/ CopyReturn
  \/ Write

Spec == Init /\ [][Next]_vars

-----------------------------------------------------------------------------
(* What the two are held against: the rules of reflect.DeepEqual.          *)

\* What no comparison of parts can mend.
Differ(d, s, m) ==
  \/ d = 0 \/ s = 0 \/ m[d].type # m[s].type
  \/ CASE Kind(d, m) = "float" -> m[d].data # m[s].data \/ m[d].data = NaN
       [] Kind(d, m) = "func"  -> ~IsNil(d, m) \/ ~IsNil(s, m)
       [] Kind(d, m) = "interface" -> IsNil(d, m) # IsNil(s, m)
       [] Kind(d, m) = "pointer" -> Pointer(d, m) # Pointer(s, m)
                                      /\ (IsNil(d, m) \/ IsNil(s, m))
       [] Kind(d, m) \in {"map", "slice"} ->
            \/ IsNil(d, m) # IsNil(s, m)
            \/ PartKeys(d, m) # PartKeys(s, m)
       [] Kind(d, m) \in {"array", "struct"} -> FALSE
       [] OTHER -> m[d].data # m[s].data

\* The same thing referred to is not looked into.
Shared(d, s, m) ==
  Kind(d, m) \in {"map", "pointer", "slice"} /\ Pointer(d, m) = Pointer(s, m)

\* Two values of one type are equal if the pairs in R are.
EqualIf(d, s, R, m) ==
  /\ ~Differ(d, s, m)
  /\ \/ Shared(d, s, m) \/ Kind(d, m) = "string"
     \/ \A k \in PartKeys(d, m) : <<Part(d, k, m), Part(s, k, m)>> \in R

SameType(d, s, m) == 0 \notin {d, s} /\ m[d].type = m[s].type

\* myDeepEqual's own idea of one type: equal by the rules, but of maps only the sizes
\* agree, an empty slice may be nil, and so may a pointer, where the other one points
\* to something without parts or to the text of the zero Value.
EqualButFor(d, s, R, m) ==
  CASE Kind(d, m) = "map" -> Size(d, m) = Size(s, m)
    [] Kind(d, m) = "slice" /\ Size(d, m) = 0 -> Size(s, m) = 0
    [] Kind(d, m) = "pointer" /\ ~IsNil(d, m) /\ IsNil(s, m) ->
         LET x == Pointer(d, m) IN
         \/ Kind(x, m) \in {"array", "struct"} /\ PartKeys(x, m) = {}
         \/ Kind(x, m) = "string" /\ m[x].data = InvalidText
    [] OTHER ->
         /\ EqualIf(d, s, R, m)
         /\ \/ Kind(d, m) \in {"interface", "string"} \/ Shared(d, s, m)
            \/ \A k \in PartKeys(d, m) : SameType(Part(d, k, m), Part(s, k, m), m)

\* And of two types, or of a value and the zero Value: one number of one class, as many
\* elements, parts that the pairs in R make equal, one text, or both nil.
SeemEqual(d, s, R, m) ==
  /\ d # 0
  /\ Kind(d, m) \notin {"array", "string", "struct"} => s # 0
  /\ Kind(d, m) \in DOMAIN Getter =>
       Kind(s, m) \in Accepts[Getter[Kind(d, m)]] /\ m[d].data = m[s].data
  /\ Kind(d, m) = "float" => Kind(s, m) = "float" /\ m[d].data = m[s].data
  /\ Kind(d, m) = "string" => m[d].data = Text(s, m)
  /\ Kind(d, m) \in {"map", "slice"} => Size(d, m) = Size(s, m)
  /\ Kind(d, m) \in {"func", "interface"} => IsNil(d, m) = IsNil(s, m)
  /\ Kind(d, m) # "chan"
  /\ \/ Kind(d, m) \in {"map", "string"} \/ Shared(d, s, m)
     \/ \A k \in PartKeys(d, m) :
          k \in PartKeys(s, m) /\ <<Part(d, k, m), Part(s, k, m)>> \in R

\* The pair of values that two calls, one in the other, were about: one part down.
Descends(c, e, m) ==
  \E k \in PartKeys(c.d, m) : e.d = Part(c.d, k, m) /\ e.s = Part(c.s, k, m)

-----------------------------------------------------------------------------
(* Properties                                                              *)

\* Whatever is referred to lies in memory, and the copy has the type of its
\* source, as main's assertion demands (value.go:278).
TypeOK ==
  /\ IsMemory(mem)
  /\ {dst, src, copied} \subseteq 0..Len(mem)
  /\ pc \in {"start", "equal", "compared", "copy", "copied"}
  /\ Len(calls) <= Stack
  /\ \A i \in DOMAIN calls : calls[i].d \in 0..Len(mem) /\ calls[i].s \in 0..Len(mem)
  /\ verdict \in {"none", "true", "false", "panic", "overflow"}
  /\ outcome \in {"none", "ok", "panic", "overflow"}
  /\ outcome = "ok" => mem[copied].type = snapshot[src].type
  /\ writes \in 0..MaxWrites
  /\ DOMAIN from \subseteq (Len(snapshot) + 1)..Len(mem)

\* What myDeepEqual calls equal is equal for reflect.DeepEqual (value.go:25), but for
\* what is named here: the pairs it came past, the arguments first, are equal by the
\* rules if the others are, where the two have one type, with the exceptions that
\* EqualButFor names (maps of one size, nil and empty slices, nil pointers).  They have
\* one type unless an interface holds them, or are parts of two that have not; then
\* (value.go:100 compares no types) they only seem equal, as an int and an int8 do.
EqualIsJustified ==
  pc = "compared" /\ verdict = "true" =>
    /\ <<dst, src>> \in same /\ SameType(dst, src, mem)
    /\ \A p \in same :
         IF SameType(p[1], p[2], mem) THEN EqualButFor(p[1], p[2], same, mem)
                                      ELSE SeemEqual(p[1], p[2], same, mem)

\* Differences are real: where myDeepEqual says so, or panics, its calls lead from the
\* arguments, by parts that reflect.DeepEqual compares too, to two values that
\* differ.  A channel is found to differ from itself; below a map a value is
\* compared with itself, and only what is not equal to itself is found there.
DifferenceIsReal ==
  pc = "compared" /\ verdict \in {"false", "panic"} /\ 0 \notin {dst, src} =>
    \/ mem[dst].type # mem[src].type
    \/ /\ Len(calls) > 0 /\ calls[1].d = dst /\ calls[1].s = src
       /\ \A i \in 1..(Len(calls) - 1) :
            \/ Kind(calls[i].d, mem) = "map"
            \/ Descends(calls[i], calls[i + 1], mem) /\ ~Shared(calls[i].d, calls[i].s, mem)
       /\ \A i, j \in DOMAIN calls :
            i < j /\ Kind(calls[i].d, mem) = "map" => calls[j].d = calls[j].s
       /\ \E i \in DOMAIN calls :
            \/ Differ(calls[i].d, calls[i].s, mem)
            \/ i = Len(calls) /\ Kind(calls[i].d, mem) = "chan"

\* What the calls were about leads, part by part, from v; and to something twice.
Leads(f, v, m) ==
  /\ f[1] = v
  /\ \A i \in 1..(Len(calls) - 1) : \E k \in PartKeys(f[i], m) : f[i + 1] = Part(f[i], k, m)
Circle(f, v, m) ==
  Leads(f, v, m) /\ \E i, j \in DOMAIN calls : i < j /\ f[i] = f[j]
Ds == [i \in DOMAIN calls |-> calls[i].d]
Ss == [i \in DOMAIN calls |-> calls[i].s]

\* The stack overflows on what contains itself only (value.go:130), if it has room
\* for a call for each location: a comparison when both arguments do, or the
\* first, by way of a map, since that is compared with itself.
OverflowMeansCycle ==
  /\ pc = "compared" /\ verdict = "overflow" /\ Len(mem) < Stack =>
       /\ Circle(Ds, dst, mem)
       /\ Circle(Ss, src, mem) \/ \E i \in DOMAIN calls : Kind(calls[i].d, mem) = "map"
  /\ outcome = "overflow" /\ Len(snapshot) < Stack => Circle(Ss, src, snapshot)

\* A copy is its source as it was, place by place, and shares nothing that is written
\* through the source afterwards (value.go:206-209), but what is behind an
\* interface, a function or a channel (and the bytes of a string).  Copying changes nothing, and fails, if the
\* stack has room, only where the source leads to a nil pointer or to a field that is
\* not exported.
CopyStandsAlone ==
  /\ outcome = "ok" =>
       /\ copied \in DOMAIN from /\ from[copied] = src
       /\ \A l \in DOMAIN from :
            /\ l \notin DOMAIN snapshot /\ from[l] \in DOMAIN snapshot
            /\ mem[l].type = snapshot[from[l]].type /\ mem[l].data = snapshot[from[l]].data
            /\ IF Kind(l, mem) \in {"interface", "func", "chan", "string"}
               THEN mem[l].kids = snapshot[from[l]].kids
               ELSE /\ PartKeys(l, mem) = PartKeys(from[l], snapshot)
                    /\ \A k \in PartKeys(l, mem) :
                         /\ Part(l, k, mem) \in DOMAIN from
                         /\ from[Part(l, k, mem)] = Part(from[l], k, snapshot)
  /\ pc \in {"copy", "copied"} /\ writes = 0 =>
       \A l \in DOMAIN snapshot : mem[l] = snapshot[l]
  /\ outcome = "panic" =>
       \/ src = 0
       \/ /\ Len(calls) > 0 /\ Leads(Ss, src, snapshot)
          /\ LET s == calls[Len(calls)].s IN
               \/ Kind(s, snapshot) = "pointer" /\ IsNil(s, snapshot)
               \/ Types[snapshot[s].type].hidden # {}

\* The pairs of values that reflect.DeepEqual calls equal: as many as there can be,
\* such that two are equal if their parts are.
DeepEqualPairs(m) ==
  LET all == (DOMAIN m) \X (DOMAIN m)
      Within[R \in SUBSET all] ==
        LET left == {p \in R : EqualIf(p[1], p[2], R, m)}
        IN IF left = R THEN R ELSE Within[left]
  IN Within[all]

\* myDeepEqual is an implementation of reflect.DeepEqual (value.go:25): what it calls
\* equal reflect.DeepEqual calls equal too.
EqualIsDeepEqual ==
  pc = "compared" /\ verdict = "true" => <<dst, src>> \in DeepEqualPairs(mem)
=============================================================================
