------------------------------ MODULE Registry ------------------------------
(***************************************************************************)
(* The type registry (registry.rs) and the field attributes (attr.rs): two *)
(* maps over the Rust type of a field, one to the type name of the IDL and *)
(* one to the wire kind that the decoder is generated from, which the      *)
(* derive relies on to agree, and the reading of #[witness(...)].          *)
(*                                                                         *)
(* A Rust type is a record:                                                *)
(*   [t |-> "path", ident, segments, args]   args: its type arguments      *)
(*   [t |-> "array", elem, len]              len = NotLiteral: no literal  *)
(*   [t |-> "other"]                         tuples, references, ...       *)
(***************************************************************************)
EXTENDS Integers, Sequences

CONSTANTS
  Types,         \* the Rust types of fields and of their type arguments
  CustomLabels   \* the labels of the form project-name:type_name

NotLiteral == -1

ASSUME TypesAssumption ==
  \A ty \in Types :
    /\ ty.t \in {"path", "array", "other"}
    /\ ty.t = "path" => \A i \in DOMAIN ty.args : ty.args[i] \in Types
    /\ ty.t = "array" => ty.elem \in Types /\ ty.len \in Nat \cup {NotLiteral}

(* A type is a finite tree, as the parser builds it: a type argument is    *)
(* less deep than the type.  The recursion of the two maps rests on it.    *)
Descends(depth) ==
  \A ty \in Types : ty.t = "path" =>
    \A i \in DOMAIN ty.args : depth[ty.args[i]] < depth[ty]

TypesAreFinite == \E depth \in [Types -> Nat] : Descends(depth)
-----------------------------------------------------------------------------
PrimitiveSize == [u8 |-> 1, u16 |-> 2, u32 |-> 4, u64 |-> 8, u128 |-> 16]

(* The last segment of the path is `ident`.                                *)
Called(ty, ident) == ty.t = "path" /\ ty.ident = ident

(* ident<T>, with one type argument.                                       *)
Applied(ty, ident) == Called(ty, ident) /\ Len(ty.args) = 1

(* path.is_ident("u8") *)
IsU8(ty) == Called(ty, "u8") /\ ty.segments = 1 /\ ty.args = << >>

IsPrimitive(ty) == ty.t = "path" /\ ty.segments = 1 /\ ty.ident \in DOMAIN PrimitiveSize

(* [u8; N] with a literal N; each of the two maps looks at N's value.      *)
IsByteArray(ty) == ty.t = "array" /\ IsU8(ty.elem) /\ ty.len # NotLiteral

(* Mutant: [u8; 0] is an array like any other.                             *)
EmptyArrayAllowed(ty) == FALSE

(* map_type refuses [u8; 0]. *)
EmptyArray(ty) == ty.len = 0

Kind(k)        == [k |-> k]
Sized(k, size) == [k |-> k, size |-> size]
Of(k, inner)   == [k |-> k, of |-> inner]
Path(k, path)  == [k |-> k, path |-> path]
NoKind         == Kind("none")

(* map_wire_kind(inner).map(|k| ...): None stays None. *)
Wrap(k, inner) == IF inner = NoKind THEN NoKind ELSE Of(k, inner)

map_wire_kind[ty \in Types] ==
  CASE Applied(ty, "Vec") /\ IsU8(ty.args[1])  -> Kind("bytes")
    [] Applied(ty, "Vec") /\ ~IsU8(ty.args[1]) -> Wrap("vec", map_wire_kind[ty.args[1]])
    [] Applied(ty, "Option")                   -> Wrap("opt", map_wire_kind[ty.args[1]])
    [] IsPrimitive(ty)                         -> Sized("scalar", PrimitiveSize[ty.ident])
    [] IsByteArray(ty)                         ->
         IF ty.len > 0 THEN Sized("array", ty.len) ELSE NoKind
    [] ty.t # "path" /\ ~IsByteArray(ty)       -> NoKind
    [] OTHER                                   -> Path("struct", ty.ident)
-----------------------------------------------------------------------------
(* The IDL type names map_type builds, as records of their parts.          *)
Uint(size)       == [idl |-> "uint", n |-> 8 * size]
BytesFixed(size) == [idl |-> "bytes_fixed", n |-> size]
VecOf(elem)      == [idl |-> "vec_of", of |-> elem]
Bytes            == [idl |-> "bytes"]
Struct           == [idl |-> "struct"]
Refused          == [idl |-> "error"]

(* Option<Option<T>> *)
NestedOption(ty) == Called(ty.args[1], "Option")

(* Mutant: only Vec<NamedStruct> is refused.                               *)
StructElementRefused(elem) == map_wire_kind[elem].k = "struct"

(* Element types without a decoder: Vec, Option and named structs.         *)
RefusedElement(elem) ==
  \/ Called(elem, "Vec")
  \/ Called(elem, "Option")
  \/ map_wire_kind[elem].k = "struct"

map_type[ty \in Types] ==
  CASE Applied(ty, "Vec") /\ IsU8(ty.args[1])  -> Bytes
    [] Applied(ty, "Vec") /\ ~IsU8(ty.args[1]) ->
         IF RefusedElement(ty.args[1]) \/ map_type[ty.args[1]] = Refused THEN Refused
         ELSE VecOf(map_type[ty.args[1]])
    [] Applied(ty, "Option")                   ->
         IF NestedOption(ty) THEN Refused ELSE map_type[ty.args[1]]
    [] IsPrimitive(ty)                         -> Uint(PrimitiveSize[ty.ident])
    [] IsByteArray(ty)                         ->
         IF EmptyArray(ty) THEN Refused ELSE BytesFixed(ty.len)
    [] ty.t # "path" /\ ~IsByteArray(ty)       -> Refused
    [] OTHER                                   -> Struct

(* wire_type_name: the type a wire kind has in the published IDL.          *)
wire_type_name(kind) ==
  LET bare == IF kind.k = "opt" THEN kind.of ELSE kind
  IN  CASE bare.k = "scalar" -> Uint(bare.size)
        [] bare.k = "array"  -> BytesFixed(bare.size)
        [] bare.k = "bytes"  -> Bytes
        [] bare.k = "struct" -> Struct
        [] bare.k = "vec"    -> [idl |-> "vector"]
        [] bare.k = "union"  -> [idl |-> "union"]
-----------------------------------------------------------------------------
(* An item of #[witness(...)] is a key with its value: Bare when it has    *)
(* none, Wrong for a literal of another type than the key takes.           *)
Bare  == "<no value>"
Wrong == "<wrong literal>"

NoLabel == "<no label>"

DefaultAttrs == [ok |-> TRUE, required |-> TRUE, union |-> FALSE,
                 description |-> FALSE, label |-> NoLabel]

Malformed(item) ==
  \/ item.key = "union" /\ item.value # Bare
  \/ item.key = "required" /\ item.value \notin {"true", "false"}
  \/ item.key = "description" /\ item.value \in {Bare, Wrong}
  \/ item.key = "type" /\ item.value \in {Bare, Wrong, ""}
  \/ item.key \notin {"union", "required", "description", "type"}

(* Mutant: an attribute that does not say `required` makes it false.       *)
ReadItemResetting(attrs, item) ==
  IF ~attrs.ok \/ Malformed(item) THEN [attrs EXCEPT !.ok = FALSE]
  ELSE [attrs EXCEPT
          !.union       = @ \/ item.key = "union",
          !.required    = item.key = "required" /\ item.value = "true",
          !.description = @ \/ item.key = "description",
          !.label       = IF item.key = "type" THEN item.value ELSE @]

(* One item after another; the last one of a key wins.                     *)
ReadItem(attrs, item) ==
  IF ~attrs.ok \/ Malformed(item) THEN [attrs EXCEPT !.ok = FALSE]
  ELSE [attrs EXCEPT
          !.union       = @ \/ item.key = "union",
          !.required    = IF item.key = "required" THEN item.value = "true" ELSE @,
          !.description = @ \/ item.key = "description",
          !.label       = IF item.key = "type" THEN item.value ELSE @]

parse_field_attrs(items) ==
  LET read[n \in 0 .. Len(items)] ==
        IF n = 0 THEN DefaultAttrs ELSE ReadItem(read[n - 1], items[n])
  IN  read[Len(items)]

ReservedLabels == [secp256k1_sig |-> 65, secp256k1_pubkey |-> 33,
                   schnorr_sig |-> 64, blake2b_hash |-> 32]

(* No reserved label has the ':' of a custom one.                          *)
ASSUME LabelsAssumption == CustomLabels \cap DOMAIN ReservedLabels = {}

(* Mutant: any array of bytes will do.                                     *)
validate_semantic_array(label, idl) ==
  IF label \in DOMAIN ReservedLabels THEN idl.idl = "bytes_fixed"
  ELSE label \in CustomLabels

(* A reserved label wants its own wire type, any other a namespace.        *)
validate_semantic_type(label, idl) ==
  IF label \in DOMAIN ReservedLabels THEN idl = BytesFixed(ReservedLabels[label])
  ELSE label \in CustomLabels
=============================================================================
