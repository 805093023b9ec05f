--------------------------- MODULE ClientEncoder ---------------------------
(***************************************************************************)
(* The other end of the wire: ckb-idl-client, which encodes a witness      *)
(* value for a lock script.  It lives in another repository; it is         *)
(* modelled from the format README.md describes and the decoder expects:   *)
(* fields in declaration order without framing, little-endian prefixes,    *)
(* absent trailing options left out.                                       *)
(*                                                                         *)
(* A value is the sequence of its leaves, [some, val] each.  The encoder   *)
(* is written as what it relates: a meaning takes bytes to the values that *)
(* are encoded as these bytes.  Nothing in it says that there is only one. *)
(***************************************************************************)
EXTENDS WireFormat

Present(val) == <<[some |-> TRUE, val |-> val]>>
Absent       == <<[some |-> FALSE, val |-> << >>]>>

U32 == 0 .. Radix * (Radix * (Radix * Radix)) - 1

(* u32::to_le_bytes *)
LEBytes(n) ==
  LET high == n \div Radix
      top  == high \div Radix
  IN  <<n % Radix, high % Radix, top % Radix, (top \div Radix) % Radix>>

(* A present value of a plain kind is encoded as these bytes.              *)
Encodes(kind, val, bytes) ==
  CASE kind.k = "bytes" -> Len(val) \in U32 /\ bytes = LEBytes(Len(val)) \o val
    [] kind.k = "vec"   ->
         LET count == Len(val) \div kind.of.size
         IN  /\ count \in U32 \ {0} /\ Len(val) = count * kind.of.size
             /\ bytes = LEBytes(count) \o val
    [] OTHER            -> Len(val) = kind.size /\ bytes = val

(* The bytes with and without a prefix. *)
Payloads(bytes) ==
  {bytes} \cup (IF PrefixLen <= Len(bytes) THEN {Slice(bytes, PrefixLen, Len(bytes))} ELSE {})

Plain(kind) ==
  [bytes \in Seq(Byte) |->
     {Present(val) : val \in {v \in Payloads(bytes) : Encodes(kind, v, bytes)}}]

(* Nothing can follow an option that was left out.                         *)
Ended(value) == \E i \in DOMAIN value : ~value[i].some

(* The value of A in the first n bytes, that of B in the others.           *)
Joined(A, B, bytes, n) ==
  UNION {{v \o w : w \in B[Slice(bytes, n, Len(bytes))]} :
         v \in {a \in A[Slice(bytes, 0, n)] : Ended(a) => n = Len(bytes)}}

(* A value of A and then one of B, without framing.                        *)
Then(A, B) ==
  [bytes \in Seq(Byte) |-> UNION {Joined(A, B, bytes, n) : n \in 0 .. Len(bytes)}]

Nothing == [bytes \in Seq(Byte) |-> IF bytes = << >> THEN {<< >>} ELSE {}]

Tag(tag) ==
  [bytes \in Seq(Byte) |->
     IF tag \in U32 /\ bytes = LEBytes(tag) THEN {Present(bytes)} ELSE {}]

Either(union, meaning) ==
  [bytes \in Seq(Byte) |->
     UNION {Then(Tag(tag), meaning[<<Variants[union][tag], 1>>])[bytes] :
            tag \in DOMAIN Variants[union]}]

Optional(A) ==
  [bytes \in Seq(Byte) |-> A[bytes] \cup IF bytes = << >> THEN {Absent} ELSE {}]

KindMeaning(kind, meaning) ==
  CASE kind.k = "opt"    -> Optional(Plain(kind.of))
    [] kind.k = "struct" -> meaning[<<kind.path, 1>>]
    [] kind.k = "union"  -> Either(kind.path, meaning)
    [] OTHER             -> Plain(kind)

(* The fields of a struct from the i-th on.                                *)
FieldsFrom(s, i, meaning) ==
  IF i \in DOMAIN Fields[s]
  THEN Then(KindMeaning(Fields[s][i].kind, meaning), meaning[<<s, i + 1>>])
  ELSE Nothing

(* The structs that a field of this kind contains.                         *)
Called(kind) ==
  CASE kind.k = "struct" -> {kind.path}
    [] kind.k = "union"  -> {Variants[kind.path][tag] : tag \in DOMAIN Variants[kind.path]}
    [] OTHER             -> {}

(* There are fewer than size[s] fields in s, counted with those of the     *)
(* structs in it.                                                          *)
Ends(size) ==
  \A s \in Structs :
    /\ Len(Fields[s]) < size[s]
    /\ \A i \in DOMAIN Fields[s] : \A r \in Called(Fields[s][i].kind) : i + size[r] <= size[s]

(* No struct contains itself, in a field or by way of a union: no kind of  *)
(* field reaches a struct through a pointer, and rustc has no type of      *)
(* infinite size.  So Meaning, whose recursion follows the fields, is      *)
(* defined.                                                                *)
LayoutsAreFinite == \E size \in [Structs -> Nat] : Ends(size)

(* A place is a struct and the number of one of its fields.                *)
Meaning[place \in Structs \X Nat] == FieldsFrom(place[1], place[2], Meaning)

(* The values that are encoded as `bytes`. *)
Decodings(s, bytes) == Meaning[<<s, 1>>][bytes]
=============================================================================
