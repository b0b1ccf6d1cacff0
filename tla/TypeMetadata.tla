---------------------------- MODULE TypeMetadata ----------------------------
(***************************************************************************)
(* interface/change_type.go: main makes a struct type at run time, walks   *)
(* the fields of its metadata, reads each name from the bytes behind it    *)
(* (a byte of flags, the length as a varint, the text, perhaps a tag), and *)
(* gives the field "Person" a pointer to the new type itself.  Nothing     *)
(* says where the bytes end.                                               *)
(***************************************************************************)
EXTENDS Integers, Sequences

CONSTANTS
  Names,  \* the names a field may have; a name is a sequence of bytes
  Person, \* the one that is looked for
  Group,  \* what a byte of the varint holds of the length: 2^7 in the code
  Word    \* what an int holds: 2^64 in the code

\* reflect refuses a name whose length is not far below the size of a word.
ASSUME MetadataAssumption ==
  /\ Person \in Names /\ Group \in Nat \ {0, 1} /\ Word \in Nat \ {0}
  /\ \A text \in Names : text \in Seq(Nat) /\ Len(text) < Word

VARIABLES
  walk,    \* "make" "range" "varint" "name" "set" "marshal" "stray" "panic"
  fields,  \* of the new type: [text, bytes, typ]; text is what StructOf got
  index, at, l \* the range loop, and the i and v of readVarint

walkVars == <<walk, fields, index, at, l>>

More == Group  \* 0x80

\* What k rounds of n >>= 7 leave, and the 1 << 7*k of a round of readVarint.
Rest(n) == LET f[k \in Nat] == IF k = 0 THEN n ELSE f[k - 1] \div Group IN f
Shift == LET f[k \in Nat] == IF k = 0 THEN 1 ELSE f[k - 1] * Group IN f

\* reflect's writeVarint and newName.
Groups(n) == CHOOSE g \in 1..(n + 1) :
  Rest(n)[g] = 0 /\ \A k \in 1..(g - 1) : Rest(n)[k] # 0
Varint(n) == [k \in 1..Groups(n) |->
  (Rest(n)[k - 1] % Group) + (IF Rest(n)[k] = 0 THEN 0 ELSE More)]
NewName(text, tag) ==
  (<<0>> \o Varint(Len(text))) \o
    (text \o (IF tag = <<>> THEN <<>> ELSE Varint(Len(tag)) \o tag))

Field(text, tag) == [text |-> text, bytes |-> NewName(text, tag), typ |-> "declared"]

WalkTypeOK ==
  /\ walk \in {"make", "range", "varint", "name", "set", "marshal", "stray", "panic"}
  /\ index \in 0..Len(fields) /\ at \in Nat /\ l \in 0..(Word - 1)
  /\ \A k \in DOMAIN fields : fields[k].typ \in {"declared", "self"}

WalkInit == walk = "make" /\ fields = <<>> /\ index = 0 /\ at = 0 /\ l = 0

\* Two fields of different names, one of them Person, at either place.
StructOf ==
  /\ walk = "make" /\ walk' = "range"
  /\ \E other \in Names \ {Person} : \E tag \in {<<>>, <<1>>} :
       \/ fields' = <<Field(Person, <<>>), Field(other, tag)>>
       \/ fields' = <<Field(other, tag), Field(Person, tag)>>
  /\ UNCHANGED <<index, at, l>>

NextField ==
  /\ walk = "range"
  /\ IF index < Len(fields)
       THEN walk' = "varint" /\ index' = index + 1 /\ at' = 0 /\ l' = 0
       ELSE walk' = "set" /\ UNCHANGED <<index, at, l>>
  /\ UNCHANGED fields

\* n.data(off); no bound is checked.
Own(off) == off + 1 \in DOMAIN fields[index].bytes
data(off) == fields[index].bytes[off + 1]

readVarintShort ==  \* Mutant: the groups are not shifted.
  /\ walk = "varint" /\ Own(1 + at)
  /\ l' = (l + (data(1 + at) % Group)) % Word
  /\ at' = at + 1
  /\ walk' = IF data(1 + at) < More THEN "name" ELSE "varint"
  /\ UNCHANGED <<fields, index>>

\* One round of the loop; what is shifted out of the word is lost.
readVarint ==
  /\ walk = "varint"
  /\ IF Own(1 + at)
       THEN /\ l' = (l + (data(1 + at) % Group) * Shift[at]) % Word
            /\ at' = at + 1
            /\ walk' = IF data(1 + at) < More THEN "name" ELSE "varint"
       ELSE walk' = "stray" /\ UNCHANGED <<at, l>>
  /\ UNCHANGED <<fields, index>>

\* The string behind the varint, and what main does if it is the one.  The name
\* that is nil (line 74) is left out: StructOf refuses fields without one.
name ==
  /\ walk = "name"
  /\ IF l > 0 /\ ~Own(at + l)
       THEN walk' = "stray" /\ UNCHANGED fields
       ELSE /\ walk' = "range"
            /\ fields' = IF [k \in 1..l |-> data(at + k)] = Person
                           THEN [fields EXCEPT ![index].typ = "self"] ELSE fields
  /\ UNCHANGED <<index, at, l>>

\* Set of a pointer to the new type panics unless the field has that type.
Set ==
  /\ walk = "set"
  /\ walk' = IF \E k \in DOMAIN fields : fields[k].text = Person /\ fields[k].typ = "self"
               THEN "marshal" ELSE "panic"
  /\ UNCHANGED <<fields, index, at, l>>

WalkNext == StructOf \/ NextField \/ readVarint \/ name \/ Set

WalkSpec == WalkInit /\ [][WalkNext]_walkVars

-----------------------------------------------------------------------------
(* Properties *)

\* The walk stays inside the bytes of each name, whatever its length, gives
\* "Person" and no other field the new type, and so Set does not panic.
PersonRefersToItself ==
  /\ walk \notin {"stray", "panic"}
  /\ walk = "marshal" => \A k \in DOMAIN fields :
       fields[k].typ = "self" <=> fields[k].text = Person
=============================================================================
