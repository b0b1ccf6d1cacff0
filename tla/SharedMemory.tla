---------------------------- MODULE SharedMemory ----------------------------
(***************************************************************************)
(* What shares memory with what: strings and byte slices, converted with   *)
(* and without copying (data_structure/slice/convert.go), cut, appended to *)
(* and concatenated (slice/split.go), strings held in a variable a closure *)
(* captures (function/fuction_value.go) and in the name of an object       *)
(* (function/method.go). A string is an address and a length, a slice has  *)
(* a capacity besides.                                                     *)
(***************************************************************************)
EXTENDS Integers, Sequences

CONSTANTS
  Strings,   \* variables of type string: locals, captured ones, names
  Slices,    \* variables of type []byte
  Bytes,     \* values of a byte
  Literal,   \* the text of the one string literal
  MaxBlocks, \* bound: blocks of memory
  MaxLen     \* bound: bytes of a block

ASSUME SharedAssumption ==
  /\ Bytes \subseteq Nat /\ 0 \in Bytes
  /\ \A b \in Bytes : b \in 97..122 => b - 32 \in Bytes
  /\ MaxBlocks \in Nat \ {0} /\ MaxLen \in Nat /\ Literal \in Seq(Bytes)
  /\ Strings \cap Slices = {}

VARIABLES
  fate,   \* "running" "panic" "fault"
  memory, \* the bytes of each block; those of the first are read-only
  used,   \* blocks allocated
  ref,    \* what each variable refers to
  mixed   \* history: the cells a conversion without copying has passed on

sharedVars == <<fate, memory, used, ref, mixed>>

Blocks == 1..MaxBlocks
Refs == [block : Blocks, off : Nat, len : Nat, cap : Nat]

\* The bytes h shows, and the cells they are in.
Text(h) == [k \in 1..h.len |-> memory[h.block][h.off + k]]
Cells(h) == {h.block} \X ((h.off + 1)..(h.off + h.len))

SharedInit ==
  /\ fate = "running" /\ used = 1 /\ mixed = {}
  /\ memory = [a \in Blocks |-> IF a = 1 THEN Literal ELSE <<>>]
  /\ ref = [x \in Strings \cup Slices |-> [block |-> 1, off |-> 0, len |-> 0, cap |-> 0]]

-----------------------------------------------------------------------------

\* x refers to h from now on.
Refer(x, h) == ref' = [ref EXCEPT ![x] = h]

\* x gets n bytes of new memory, and shows the first of them.
Allocate(x, data, len) ==
  /\ used < MaxBlocks /\ Len(data) <= MaxLen
  /\ used' = used + 1 /\ memory' = [memory EXCEPT ![used + 1] = data]
  /\ Refer(x, [block |-> used + 1, off |-> 0, len |-> len,
             cap |-> IF x \in Slices THEN Len(data) ELSE 0])
  /\ UNCHANGED <<fate, mixed>>

Stop(how) == fate' = how /\ UNCHANGED <<memory, used, ref, mixed>>

\* s = "abcd"
Literally(s) ==
  /\ Refer(s, [block |-> 1, off |-> 0, len |-> Len(Literal), cap |-> 0])
  /\ UNCHANGED <<fate, memory, used, mixed>>

\* b = make([]byte, len, cap)
Make(b, len, cap) ==
  /\ len <= cap
  /\ Allocate(b, [k \in 1..cap |-> 0], len)

\* An assignment, an argument, o.setName(t), o.getName(): the header is copied.
Assign(s, t) ==
  /\ Refer(s, ref[t])
  /\ UNCHANGED <<fate, memory, used, mixed>>

String2BytesRoomy(s, b) ==  \* Mutant: the capacity is what follows in memory.
  LET h == [ref[s] EXCEPT !.cap = Len(memory[ref[s].block]) - ref[s].off]
  IN  /\ Refer(b, h) /\ mixed' = mixed \cup Cells(h)
      /\ UNCHANGED <<fate, memory, used>>

String2Bytes(s, b) ==
  LET h == [ref[s] EXCEPT !.cap = ref[s].len]
  IN  /\ Refer(b, h) /\ mixed' = mixed \cup Cells(h)
      /\ UNCHANGED <<fate, memory, used>>

Bytes2String(b, s) ==
  LET h == [ref[b] EXCEPT !.cap = 0]
  IN  /\ Refer(s, h) /\ mixed' = mixed \cup Cells(h)
      /\ UNCHANGED <<fate, memory, used>>

\* string(b), []byte(s)
Copy(x, y) == Allocate(y, Text(ref[x]), ref[x].len)

\* t = s[i:j], of a string
Substring(s, t, i, j) ==
  IF i <= j /\ j <= ref[s].len
    THEN /\ Refer(t, [ref[s] EXCEPT !.off = @ + i, !.len = j - i])
         /\ UNCHANGED <<fate, memory, used, mixed>>
    ELSE Stop("panic")

\* c = b[i:j:k], of a slice: up to its capacity, not its length
Reslice(b, c, i, j, k) ==
  IF i <= j /\ j <= k /\ k <= ref[b].cap
    THEN /\ Refer(c, [ref[b] EXCEPT !.off = @ + i, !.len = j - i, !.cap = k - i])
         /\ UNCHANGED <<fate, memory, used, mixed>>
    ELSE Stop("panic")

\* u = s + t: new memory, except where one of the two is empty
Concat(s, t, u) ==
  CASE ref[t].len = 0 -> Assign(u, s)
    [] ref[t].len # 0 /\ ref[s].len = 0 -> Assign(u, t)
    [] OTHER -> Allocate(u, Text(ref[s]) \o Text(ref[t]), ref[s].len + ref[t].len)

Upper(b) == IF b \in 97..122 THEN b - 32 ELSE b
UpperText(s) == [k \in 1..ref[s].len |-> Upper(Text(ref[s])[k])]

\* _, t = toUpper(s): t is the captured variable, s itself, or one of the
\* closure's own; a string without lower case is returned as it is.
ToUpper(s, t) ==
  IF UpperText(s) = Text(ref[s])
    THEN Assign(t, s)
    ELSE Allocate(t, UpperText(s), ref[s].len)

\* The bytes of h, from its first byte behind from, replaced by text.
Overwrite(h, from, text) ==
  memory' = [memory EXCEPT ![h.block] = [k \in DOMAIN @ |->
               IF k - h.off - from \in DOMAIN text THEN text[k - h.off - from] ELSE @[k]]]

\* b[i] = v
Write(b, i, v) ==
  IF i >= ref[b].len
    THEN Stop("panic")
    ELSE IF ref[b].block = 1
      THEN Stop("fault")
      ELSE Overwrite(ref[b], i, <<v>>) /\ UNCHANGED <<fate, used, ref, mixed>>

\* c = append(b, text...), in place while there is room
Extend(b, c, text, cap) ==
  LET len == ref[b].len + Len(text)
  IN  IF len > ref[b].cap
        THEN /\ len <= cap
             /\ Allocate(c, Text(ref[b]) \o text \o [k \in 1..(cap - len) |-> 0], len)
        ELSE IF ref[b].block = 1 /\ text # <<>>
          THEN Stop("fault")
          ELSE /\ Overwrite(ref[b], ref[b].len, text) /\ Refer(c, [ref[b] EXCEPT !.len = len])
               /\ UNCHANGED <<fate, used, mixed>>

StringStep ==
  \/ \E s \in Strings, b \in Slices : String2Bytes(s, b) \/ Bytes2String(b, s) \/ Copy(s, b) \/ Copy(b, s)
  \/ \E s, t \in Strings : Assign(s, t) \/ ToUpper(s, t)
  \/ \E s \in Strings : Literally(s)
  \/ \E s, t, u \in Strings : Concat(s, t, u)
  \/ \E s, t \in Strings : \E i, j \in 0..MaxLen : Substring(s, t, i, j)

SliceStep ==
  \E b \in Slices :
    \/ \E len, cap \in 0..MaxLen : Make(b, len, cap)
    \/ \E c \in Slices : \E i, j, k \in 0..MaxLen : Reslice(b, c, i, j, k)
    \/ \E i \in 0..MaxLen, v \in Bytes : Write(b, i, v)
    \/ \E c \in Slices, x \in Strings \cup Slices, cap \in 0..MaxLen :
         Extend(b, c, Text(ref[x]), cap)

SharedNext == fate = "running" /\ (StringStep \/ SliceStep)

SharedSpec == SharedInit /\ [][SharedNext]_sharedVars

-----------------------------------------------------------------------------
(* Properties *)

SharedTypeOK ==
  /\ fate \in {"running", "panic", "fault"} /\ used \in Blocks
  /\ memory \in [Blocks -> Seq(Bytes)]
  /\ ref \in [Strings \cup Slices -> Refs]
  /\ \A x \in Strings \cup Slices :
       /\ ref[x].block <= used /\ ref[x].off + ref[x].len <= Len(memory[ref[x].block])
       /\ x \in Slices => /\ ref[x].len <= ref[x].cap
                          /\ ref[x].off + ref[x].cap <= Len(memory[ref[x].block])

\* The bytes a string shows stay what they are for as long as it refers to them,
\* but for those that String2Bytes or Bytes2String has passed on; an append to
\* the result of String2Bytes does not reach what lies behind it (its capacity
\* is the length of the string), and a literal never changes (convert.go:18-20).
StringsKeepTheirBytes ==
  [][/\ memory'[1] = memory[1]
     /\ \A s \in Strings : ref'[s] = ref[s] =>
          \A k \in 1..ref[s].len :
            \/ Text(ref[s])[k]' = Text(ref[s])[k]
            \/ <<ref[s].block, ref[s].off + k>> \in mixed]_sharedVars
=============================================================================
