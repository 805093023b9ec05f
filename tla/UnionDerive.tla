---------------------------- MODULE UnionDerive ----------------------------
(***************************************************************************)
(* What CkbWitnessUnion accepts: impl_ckb_witness_union (lib.rs) takes the *)
(* variants of an enum through four passes, their shape, their tags, their *)
(* names and the distinctness of the tags, and then generates a match with *)
(* an arm per variant.  A tag is the wire ABI of its variant: two variants *)
(* with one tag would leave the second without a decoder.                  *)
(***************************************************************************)
EXTENDS Integers, Sequences

CONSTANTS
  VariantDecls,   \* the variants that may be declared: [ident, unraw, form, items]
  Enums,          \* the items the derive is put on: [shape, variants]
  IdlIdentifiers, \* the identifiers of the form [A-Za-z_][A-Za-z0-9_]*
  TagMax          \* u32::MAX

ASSUME EnumsAssumption ==
  /\ \A e \in Enums : e.variants \in Seq(VariantDecls)
  /\ \A v \in VariantDecls : Len(v.items) \in Nat /\ DOMAIN v.items = 1 .. Len(v.items)
  /\ TagMax \in Nat

VARIABLES
  enum,     \* the item the derive is on
  pass,     \* "shape", "tags", "names", "distinct": what is being checked
  at,       \* the variant the pass has come to
  item,     \* the attribute item of it that is read next
  tag,      \* the tag of this variant, or NoTag as long as none was read
  tags,     \* the tags parsed so far
  verdict   \* what the derive answers

vars == <<enum, pass, at, item, tag, tags, verdict>>

Pending       == [v |-> "pending"]
Accepted      == [v |-> "accepted"]
Rejected(why) == [v |-> "rejected", why |-> why]
-----------------------------------------------------------------------------
(* An item of #[witness(...)] on a variant: a key and a literal as it is   *)
(* written, none for a bare key; an integer literal has the value n in     *)
(* whatever radix and with whatever suffix it is written.  The items of    *)
(* several attributes are read in one loop.                                *)
NoTag == -1

MalformedTag(i) ==
  \/ i.key # "tag"
  \/ i.value.lit # "int"
  \/ i.value.n \notin 0 .. TagMax

Items == enum.variants[at].items

(* check_enum_single_field_variants: an enum with variants, each of them   *)
(* a tuple of one field.                                                   *)
SingleFieldVariants ==
  /\ enum.shape = "enum"
  /\ enum.variants # << >>
  /\ \A i \in DOMAIN enum.variants : enum.variants[i].form = "one_field"

(* Mutant: a tag is compared with that of the variant before only.         *)
TagTakenByPrevious(i) == i > 1 /\ tags[i] = tags[i - 1]

(* tags[..index].contains(tag) *)
TagTaken(i) == \E j \in 1 .. i - 1 : tags[j] = tags[i]

(* The name a variant has in idl_variants and in the schema: to_string of  *)
(* the identifier as it is written, r# included.                           *)
PublishedName(variant) == variant.ident
-----------------------------------------------------------------------------
Init ==
  /\ enum \in Enums
  /\ pass = "shape" /\ at = 1
  /\ item = 1 /\ tag = NoTag
  /\ tags = << >>
  /\ verdict = Pending

Running(p) == verdict = Pending /\ pass = p
AtVariant  == at <= Len(enum.variants)

Reject(why) == verdict' = Rejected(why) /\ UNCHANGED <<enum, pass, at, item, tag, tags>>

NextVariant == at' = at + 1 /\ item' = 1 /\ tag' = NoTag /\ UNCHANGED <<enum, pass, verdict>>

(* A pass has come to the end: the next one begins with the first variant. *)
BeginPass(p) ==
  /\ pass' = p /\ at' = 1 /\ item' = 1 /\ tag' = NoTag
  /\ UNCHANGED <<enum, tags, verdict>>

CheckShape ==
  /\ Running("shape")
  /\ \/ ~SingleFieldVariants /\ Reject("shape")
     \/ SingleFieldVariants /\ BeginPass("tags")

TakeTag == tag' = Items[item].value.n /\ item' = item + 1 /\ UNCHANGED <<enum, pass, at, tags, verdict>>

AtItem == Running("tags") /\ AtVariant /\ item <= Len(Items)

(* Mutant: the last tag wins, as the last key of a field attribute does.   *)
ReadTagLastWins ==
  /\ AtItem
  /\ IF MalformedTag(Items[item]) THEN Reject("tag") ELSE TakeTag

(* parse_union_variant_tag: a malformed item and a second tag are errors.  *)
ReadTag ==
  /\ AtItem
  /\ IF MalformedTag(Items[item]) \/ tag # NoTag THEN Reject("tag") ELSE TakeTag

AfterItems == Running("tags") /\ AtVariant /\ item > Len(Items)

(* Mutant: a variant without a tag is given the next free number.          *)
FinishTagImplicit ==
  /\ AfterItems
  /\ tags' = Append(tags, IF tag = NoTag THEN at - 1 ELSE tag)
  /\ NextVariant

(* So is a variant without a tag. *)
FinishTag ==
  /\ AfterItems
  /\ \/ tag = NoTag /\ Reject("tag")
     \/ tag # NoTag /\ tags' = Append(tags, tag) /\ NextVariant

TagsParsed == Running("tags") /\ ~AtVariant /\ BeginPass("names")

(* idl_identifier, for its error only. *)
CheckName ==
  /\ Running("names") /\ AtVariant
  /\ LET valid == enum.variants[at].unraw \in IdlIdentifiers
     IN  \/ ~valid /\ Reject("identifier")
         \/ valid /\ NextVariant /\ UNCHANGED tags

NamesChecked == Running("names") /\ ~AtVariant /\ BeginPass("distinct")

CheckDistinct ==
  /\ Running("distinct") /\ at <= Len(tags)
  /\ \/ TagTaken(at) /\ Reject("duplicate")
     \/ ~TagTaken(at) /\ NextVariant /\ UNCHANGED tags

Accept ==
  /\ Running("distinct") /\ at > Len(tags)
  /\ verdict' = Accepted
  /\ UNCHANGED <<enum, pass, at, item, tag, tags>>

Answer == verdict # Pending /\ UNCHANGED vars

Next == \/ CheckShape \/ ReadTag \/ FinishTag \/ TagsParsed \/ CheckName \/ NamesChecked
        \/ CheckDistinct \/ Accept \/ Answer

Spec == Init /\ [][Next]_vars
-----------------------------------------------------------------------------
(* Reference: a variant with exactly one tag, said directly.               *)
Tagged1(variant) ==
  /\ Len(variant.items) = 1
  /\ variant.items[1].key = "tag"
  /\ variant.items[1].value.lit = "int"
  /\ variant.items[1].value.n \in 0 .. TagMax

TagOf(variant) == variant.items[1].value.n

(* The types, and that the tags are those written on the first variants,   *)
(* one each and in order: emit_union_impl zips the two.                    *)
TypeOK ==
  /\ enum \in Enums
  /\ pass \in {"shape", "tags", "names", "distinct"}
  /\ at \in 1 .. Len(enum.variants) + 1
  /\ tag \in 0 .. TagMax \cup {NoTag}
  /\ item \in {1, 2}
  /\ tags \in Seq(0 .. TagMax)
  /\ pass = "shape" => tags = << >>
  /\ pass = "tags" => Len(tags) = at - 1
  /\ pass \in {"names", "distinct"} => Len(tags) = Len(enum.variants)
  /\ \A i \in DOMAIN tags : Tagged1(enum.variants[i]) /\ tags[i] = TagOf(enum.variants[i])
  /\ verdict \in {Pending, Accepted} \/ verdict = Rejected(verdict.why)

(* The arm of the generated match that a type ID selects: the first with   *)
(* that number.                                                            *)
Arms(type_id) == {i \in DOMAIN tags : tags[i] = type_id}
Selected(i, type_id) == i \in Arms(type_id) /\ \A j \in Arms(type_id) : i <= j

(* The tags of an accepted enum are its wire ABI: for every variant there  *)
(* is a u32 that selects it in decode_union, and the order of declaration  *)
(* plays no part in which variant a number selects.                        *)
EveryVariantIsReached ==
  verdict = Accepted =>
    \A i \in DOMAIN enum.variants :
      \E type_id \in 0 .. TagMax :
        Selected(i, type_id) /\ Arms(type_id) = {i}

(* Reference: the enums that have a meaning on the wire, said directly.    *)
Legal ==
  /\ SingleFieldVariants
  /\ \A i \in DOMAIN enum.variants :
       Tagged1(enum.variants[i]) /\ enum.variants[i].unraw \in IdlIdentifiers
  /\ \A i, j \in DOMAIN enum.variants :
       TagOf(enum.variants[i]) = TagOf(enum.variants[j]) => i = j

(* The derive accepts the enums of the grammar, each variant with exactly  *)
(* one tag and no two with the same number however it is spelled, and no   *)
(* others: no pass is missing, none of them hides another's error.         *)
AcceptsUnions == verdict # Pending => (verdict = Accepted <=> Legal)

(* attr.rs:38: "IDL identifiers must match [A-Za-z_][A-Za-z0-9_]*": so do  *)
(* the names of variants that are published.                               *)
PublishedNamesAreIdentifiers ==
  verdict = Accepted =>
    \A i \in DOMAIN enum.variants : PublishedName(enum.variants[i]) \in IdlIdentifiers
=============================================================================
