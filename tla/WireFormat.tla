----------------------------- MODULE WireFormat -----------------------------
(***************************************************************************)
(* The witness wire format of ckb-idl-derive: the kinds of field a witness *)
(* layout is made of (WireKind in registry.rs), the 4-byte little-endian   *)
(* prefix, and what it means that a span of the witness bytes spells a     *)
(* decoded field.  Bytes are digits in base Radix: 256 in the program, a   *)
(* smaller base on the instances TLC enumerates.                           *)
(***************************************************************************)
EXTENDS Integers, Sequences

CONSTANTS
  Radix,      \* number of values of a byte
  UsizeMax,   \* usize::MAX of the target the contract is compiled for
  Structs,    \* the types that derive CkbWitness or CkbInnerWitness
  Unions,     \* the enums that derive CkbWitnessUnion
  Fields,     \* struct -> its fields in declaration order
  Variants    \* union  -> the function from its tags to the variants' structs

Byte == 0 .. Radix - 1

(* WireKind: one set of records per variant that has a decoder. *)
Scalars   == [k : {"scalar"}, size : {1, 2, 4, 8, 16}]
Arrays    == [k : {"array"}, size : Nat \ {0}]
VarBytes  == [k |-> "bytes"]
Fixed     == Scalars \cup Arrays
Optionals == [k : {"opt"}, of : Fixed \cup {VarBytes}]
Vectors   == [k : {"vec"}, of : Fixed]
Nested    == [k : {"struct"}, path : Structs]
Tagged    == [k : {"union"}, path : Unions]
Kinds     == Fixed \cup {VarBytes} \cup Optionals \cup Vectors \cup Nested \cup Tagged

(* A union's tag is consumed like a field but binds none; it is a leaf of  *)
(* its own in the record of what was decoded.                              *)
UnionTag == [k |-> "tag"]

Field == [name : STRING, kind : Kinds]

PrefixLen == 4

(* Mutant: u32::from_be_bytes. *)
BE32(b) == b[4] + Radix * (b[3] + Radix * (b[2] + Radix * b[1]))

(* u32::from_le_bytes of a 4-byte slice. *)
LE32(b) == b[1] + Radix * (b[2] + Radix * (b[3] + Radix * b[4]))

(* The Rust slice buf[from..to]. *)
Slice(buf, from, to) == SubSeq(buf, from + 1, to)

(* The prefix that starts at offset `from`. *)
PrefixAt(buf, from) == LE32(Slice(buf, from, from + PrefixLen))

(***************************************************************************)
(* Assumptions.  u32 as usize loses nothing on the 32- and 64-bit targets; *)
(* a derive is only accepted for the kinds above (registry.rs); a zero     *)
(* array or scalar does not exist.                                         *)
(***************************************************************************)
ASSUME WidthAssumption ==
  /\ Radix \in Nat \ {0, 1}
  /\ UsizeMax \in Nat
  /\ Radix * (Radix * (Radix * Radix)) - 1 <= UsizeMax

ASSUME SchemaAssumption ==
  /\ Fields \in [Structs -> Seq(Field)]
  /\ \A u \in Unions :
        /\ DOMAIN Variants[u] \subseteq Nat
        /\ \A tag \in DOMAIN Variants[u] : Variants[u][tag] \in Structs

(***************************************************************************)
(* A leaf is a field the decoder has bound (or the tag of a union): its    *)
(* kind, whether it is present (Option), its bytes, and the span           *)
(* [from, to) of the witness it was read from.                             *)
(***************************************************************************)
Leaf == [kind : Kinds \cup {UnionTag}, some : BOOLEAN, from : Nat, to : Nat,
         val : Seq(Byte)]

(* Option<T> is spelled like T when it is present. *)
Inner(kind) == IF kind.k = "opt" THEN kind.of ELSE kind

(* Where the payload of a present field starts, and where it ends. *)
PayloadFrom(kind, from) ==
  IF kind.k \in {"bytes", "vec"} THEN from + PrefixLen ELSE from

PayloadTo(buf, kind, from) ==
  CASE kind.k = "bytes" -> from + PrefixLen + PrefixAt(buf, from)
    [] kind.k = "vec"   -> from + PrefixLen + PrefixAt(buf, from) * kind.of.size
    [] kind.k = "tag"   -> from + PrefixLen
    [] OTHER            -> from + kind.size

(* The bytes of buf in leaf's span are the encoding of the leaf's value.   *)
(* An absent field is spelled by the end of the buffer, and by that alone. *)
Spells(buf, leaf) ==
  LET kind == Inner(leaf.kind)
  IN  /\ leaf.from <= leaf.to
      /\ leaf.to <= Len(buf)
      /\ IF leaf.some
         THEN /\ PayloadFrom(kind, leaf.from) <= leaf.to
              /\ leaf.to = PayloadTo(buf, kind, leaf.from)
              /\ leaf.val = Slice(buf, PayloadFrom(kind, leaf.from), leaf.to)
              /\ kind.k = "vec" => PrefixAt(buf, leaf.from) # 0
         ELSE /\ leaf.kind.k = "opt"
              /\ leaf.from = Len(buf)
              /\ leaf.val = << >>
=============================================================================
