------------------------- MODULE UnionDeriveProofs -------------------------
(***************************************************************************)
(* Theorems about UnionDerive, for enums of any size and any u32::MAX: the *)
(* derive accepts exactly the enums of the grammar, and each variant of an *)
(* accepted enum is reached by a number of its own.                        *)
(***************************************************************************)
EXTENDS UnionDerive, SequenceTheorems, TLAPS

(* The loop over the items has read one well-formed tag, or nothing yet.   *)
ItemInv ==
  \/ item = 1 /\ tag = NoTag
  \/ /\ pass = "tags" /\ at <= Len(enum.variants)
     /\ item = 2 /\ Len(Items) >= 1
     /\ ~MalformedTag(Items[1]) /\ tag = Items[1].value.n

(* What the passes so far have established.                                *)
PassInv ==
  /\ pass # "shape" => SingleFieldVariants
  /\ pass = "names" => \A i \in 1 .. at - 1 : enum.variants[i].unraw \in IdlIdentifiers
  /\ pass = "distinct" =>
       /\ \A i \in DOMAIN enum.variants : enum.variants[i].unraw \in IdlIdentifiers
       /\ \A i, j \in 1 .. at - 1 : tags[i] = tags[j] => i = j

(* An answer is the right one. *)
VerdictInv ==
  /\ verdict = Accepted => pass = "distinct" /\ at = Len(enum.variants) + 1
  /\ verdict = Rejected(verdict.why) => ~Legal

IInv == TypeOK /\ ItemInv /\ PassInv /\ VerdictInv

(* The variants of an enum, and the items of a variant, are sequences.     *)
LEMMA EnumShape ==
  ASSUME TypeOK
  PROVE  /\ Len(enum.variants) \in Nat
         /\ DOMAIN enum.variants = 1 .. Len(enum.variants)
         /\ \A i \in DOMAIN enum.variants :
              /\ enum.variants[i] \in VariantDecls
              /\ Len(enum.variants[i].items) \in Nat
              /\ DOMAIN enum.variants[i].items = 1 .. Len(enum.variants[i].items)
<1>1. enum \in Enums
  BY DEF TypeOK
<1>2. enum.variants \in Seq(VariantDecls)
  BY <1>1, EnumsAssumption
<1>3. Len(enum.variants) \in Nat /\ DOMAIN enum.variants = 1 .. Len(enum.variants)
  BY <1>2
<1>4. \A i \in DOMAIN enum.variants : enum.variants[i] \in VariantDecls
  BY <1>2, <1>3
<1> QED
  BY <1>3, <1>4, EnumsAssumption

(* Arithmetic of the loop over at most two items, and of positions.        *)
LEMMA Positions ==
  \A n \in Nat : /\ 2 \in 1 .. n => n # 1
                 /\ n >= 1 /\ 2 > n => n = 1
                 /\ \A i \in 1 .. n : i \in Nat
OBVIOUS

(* The three answers differ. *)
LEMMA Verdicts ==
  /\ Pending # Accepted
  /\ \A why : Rejected(why) # Pending /\ Rejected(why) # Accepted
  /\ \A why : Rejected(why).why = why
BY DEF Pending, Accepted, Rejected

(* The initial state. *)
LEMMA InitInv == Init => IInv
<1> SUFFICES ASSUME Init PROVE IInv
  OBVIOUS
<1>1. enum \in Enums /\ enum.variants \in Seq(VariantDecls) /\ TagMax \in Nat
  BY EnumsAssumption DEF Init
<1>2. TypeOK
  BY <1>1 DEF Init, TypeOK, NoTag
<1>3. ItemInv /\ PassInv
  BY DEF Init, ItemInv, PassInv
<1>4. VerdictInv
  BY Verdicts DEF Init, VerdictInv
<1> QED
  BY <1>2, <1>3, <1>4 DEF IInv

(* An error ends the derive and touches nothing but the verdict, so all    *)
(* that is left to show of it is that the enum is not a legal one.         *)
LEMMA RejectInv ==
  ASSUME IInv, NEW why, Reject(why), ~Legal
  PROVE  IInv'
<1> USE DEF IInv, Reject
<1>1. TypeOK'
  <2>1. verdict' = Rejected(verdict'.why)
    BY Verdicts
  <2> QED
    BY <2>1 DEF TypeOK
<1>2. ItemInv' /\ PassInv'
  BY DEF ItemInv, PassInv, Items, SingleFieldVariants
<1>3. VerdictInv'
  <2>1. ~Legal'
    BY DEF Legal, SingleFieldVariants
  <2> QED
    BY <2>1, Verdicts DEF VerdictInv
<1> QED
  BY <1>1, <1>2, <1>3

(* A step that leaves the derive pending gives no wrong answer.            *)
LEMMA PendingVerdict ==
  ASSUME verdict = Pending, UNCHANGED verdict
  PROVE  VerdictInv'
BY Verdicts DEF VerdictInv

LEMMA CheckShapeInv ==
  ASSUME IInv, CheckShape
  PROVE  IInv'
<1>1. CASE ~SingleFieldVariants /\ Reject("shape")
  BY <1>1, RejectInv DEF Legal
<1>2. CASE SingleFieldVariants /\ BeginPass("tags")
  <2>1. Len(enum.variants) \in Nat /\ tags = << >>
    BY EnumShape, <1>2 DEF IInv, TypeOK, CheckShape, Running
  <2>2. TypeOK'
    BY <1>2, <2>1 DEF IInv, TypeOK, CheckShape, Running, BeginPass
  <2>3. ItemInv' /\ PassInv'
    BY <1>2 DEF ItemInv, PassInv, BeginPass, SingleFieldVariants
  <2>4. VerdictInv'
    BY <1>2, PendingVerdict DEF CheckShape, Running, BeginPass
  <2> QED
    BY <2>2, <2>3, <2>4 DEF IInv
<1> QED
  BY <1>1, <1>2 DEF CheckShape

(* A malformed item, and a second tag, make the variant none of the        *)
(* grammar; the first well-formed one is remembered.                       *)
LEMMA ReadTagInv ==
  ASSUME IInv, ReadTag
  PROVE  IInv'
<1> USE DEF IInv
<1>1. at \in DOMAIN enum.variants /\ Len(Items) \in Nat /\ item \in 1 .. Len(Items)
  BY EnumShape DEF TypeOK, ReadTag, AtItem, AtVariant, Items
<1>2. CASE MalformedTag(Items[item]) \/ tag # NoTag
  <2>1. ~Tagged1(enum.variants[at])
    <3>1. CASE item = 1 /\ tag = NoTag
      BY <1>2, <3>1 DEF Tagged1, MalformedTag, Items
    <3>2. CASE item = 2
      <4>1. Len(Items) # 1
        BY <1>1, <3>2, Positions, Zenon
      <4> QED
        BY <4>1 DEF Tagged1, Items
    <3> QED
      BY <3>1, <3>2 DEF ItemInv
  <2>2. ~Legal
    BY <1>1, <2>1 DEF Legal
  <2> QED
    BY <1>2, <2>2, RejectInv DEF ReadTag
<1>3. CASE ~(MalformedTag(Items[item]) \/ tag # NoTag)
  <2>1. TakeTag /\ tag = NoTag /\ Running("tags") /\ AtVariant
    BY <1>3 DEF ReadTag, AtItem
  <2>2. item = 1 /\ ~MalformedTag(Items[1])
    BY <1>3, <2>1 DEF ItemInv, MalformedTag, NoTag
  <2>3. TypeOK'
    BY <2>1, <2>2 DEF TypeOK, TakeTag, MalformedTag
  <2>4. ItemInv'
    BY <1>1, <2>1, <2>2 DEF ItemInv, TakeTag, Items, Running, AtVariant, MalformedTag
  <2>5. PassInv'
    BY <2>1 DEF PassInv, TakeTag, SingleFieldVariants
  <2>6. VerdictInv'
    BY <2>1, PendingVerdict DEF Running, TakeTag
  <2> QED
    BY <2>3, <2>4, <2>5, <2>6
<1> QED
  BY <1>2, <1>3

LEMMA FinishTagInv ==
  ASSUME IInv, FinishTag
  PROVE  IInv'
<1> USE DEF IInv
<1>1. /\ at \in DOMAIN enum.variants /\ Len(Items) \in Nat
      /\ Running("tags") /\ AtVariant /\ item > Len(Items)
  BY EnumShape DEF TypeOK, FinishTag, AfterItems, AtVariant, Items
<1>2. CASE tag = NoTag /\ Reject("tag")
  <2>1. item = 1
    BY <1>2, EnumsAssumption DEF ItemInv, MalformedTag, NoTag
  <2>2. ~Tagged1(enum.variants[at])
    BY <1>1, <2>1 DEF Tagged1, Items
  <2>3. ~Legal
    BY <1>1, <2>2 DEF Legal
  <2> QED
    BY <1>2, <2>3, RejectInv
<1>3. CASE tag # NoTag /\ tags' = Append(tags, tag) /\ NextVariant
  <2>1. Len(Items) = 1 /\ ~MalformedTag(Items[1]) /\ tag = Items[1].value.n
    <3>1. item = 2 /\ Len(Items) >= 1 /\ ~MalformedTag(Items[1]) /\ tag = Items[1].value.n
      BY <1>3, Zenon DEF ItemInv
    <3>2. Len(Items) = 1
      BY <1>1, <3>1, Positions, Zenon
    <3> QED
      BY <3>1, <3>2
  <2>2. Tagged1(enum.variants[at]) /\ tag = TagOf(enum.variants[at])
    BY <2>1 DEF Tagged1, TagOf, MalformedTag, Items
  <2>3. tag \in 0 .. TagMax /\ tags \in Seq(0 .. TagMax) /\ Len(tags) = at - 1 /\ at \in Nat
    BY <1>1, <1>3, EnumShape DEF TypeOK, Running, NoTag
  <2>4. /\ tags' \in Seq(0 .. TagMax) /\ Len(tags') = at
        /\ \A i \in 1 .. at : tags'[i] = IF i < at THEN tags[i] ELSE tag
        /\ DOMAIN tags = 1 .. at - 1 /\ DOMAIN tags' = 1 .. at
    BY <1>3, <2>3
  <2>5. \A i \in DOMAIN tags' : Tagged1(enum.variants[i]) /\ tags'[i] = TagOf(enum.variants[i])
    <3> TAKE i \in DOMAIN tags'
    <3>1. CASE i = at
      BY <3>1, <2>2, <2>4
    <3>2. CASE i # at
      <4>1. i \in DOMAIN tags /\ tags'[i] = tags[i]
        BY <3>2, <2>3, <2>4
      <4> QED
        BY <4>1 DEF TypeOK
    <3> QED
      BY <3>1, <3>2
  <2>6. TypeOK'
    <3>1. at' \in 1 .. Len(enum.variants) + 1 /\ at' - 1 = at
      BY <1>1, <1>3, <2>3, EnumShape DEF NextVariant
    <3> QED
      BY <1>1, <1>3, <2>4, <2>5, <3>1 DEF TypeOK, NextVariant, Running
  <2>7. ItemInv' /\ PassInv'
    BY <1>1, <1>3 DEF ItemInv, PassInv, NextVariant, Running, SingleFieldVariants
  <2>8. VerdictInv'
    BY <1>1, <1>3, PendingVerdict DEF Running, NextVariant
  <2> QED
    BY <2>6, <2>7, <2>8
<1> QED
  BY <1>2, <1>3 DEF FinishTag

LEMMA TagsParsedInv ==
  ASSUME IInv, TagsParsed
  PROVE  IInv'
<1> USE DEF IInv, TagsParsed, Running, AtVariant, BeginPass
<1>1. at = Len(enum.variants) + 1 /\ Len(enum.variants) \in Nat
  BY EnumShape DEF TypeOK
<1>2. TypeOK'
  BY <1>1 DEF TypeOK
<1>3. ItemInv' /\ PassInv'
  BY DEF ItemInv, PassInv, SingleFieldVariants
<1>4. VerdictInv'
  BY PendingVerdict
<1> QED
  BY <1>2, <1>3, <1>4

LEMMA CheckNameInv ==
  ASSUME IInv, CheckName
  PROVE  IInv'
<1> USE DEF IInv, Running, AtVariant
<1>1. at \in DOMAIN enum.variants /\ Len(enum.variants) \in Nat
  BY EnumShape DEF TypeOK, CheckName
<1>2. CASE enum.variants[at].unraw \notin IdlIdentifiers
  BY <1>1, <1>2, RejectInv DEF CheckName, Legal
<1>3. CASE enum.variants[at].unraw \in IdlIdentifiers
  <2>1. NextVariant /\ UNCHANGED tags /\ pass = "names" /\ verdict = Pending
    BY <1>3 DEF CheckName
  <2>2. TypeOK'
    BY <1>1, <2>1, EnumShape DEF TypeOK, NextVariant
  <2>3. PassInv'
    BY <1>1, <1>3, <2>1, EnumShape DEF PassInv, NextVariant, SingleFieldVariants, TypeOK
  <2>4. ItemInv'
    BY <2>1 DEF ItemInv, NextVariant
  <2>5. VerdictInv'
    BY <2>1, PendingVerdict DEF NextVariant
  <2> QED
    BY <2>2, <2>3, <2>4, <2>5
<1> QED
  BY <1>2, <1>3

LEMMA NamesCheckedInv ==
  ASSUME IInv, NamesChecked
  PROVE  IInv'
<1> USE DEF IInv, NamesChecked, Running, AtVariant, BeginPass
<1>1. at = Len(enum.variants) + 1 /\ Len(enum.variants) \in Nat
      /\ DOMAIN enum.variants = 1 .. Len(enum.variants)
  BY EnumShape DEF TypeOK
<1>2. TypeOK'
  BY <1>1 DEF TypeOK
<1>3. ItemInv' /\ PassInv'
  BY <1>1 DEF ItemInv, PassInv, SingleFieldVariants
<1>4. VerdictInv'
  BY PendingVerdict
<1> QED
  BY <1>2, <1>3, <1>4

LEMMA CheckDistinctInv ==
  ASSUME IInv, CheckDistinct
  PROVE  IInv'
<1> USE DEF IInv, Running
<1>1. /\ pass = "distinct" /\ verdict = Pending
      /\ Len(tags) = Len(enum.variants) /\ at \in 1 .. Len(tags)
      /\ DOMAIN tags = 1 .. Len(tags) /\ DOMAIN enum.variants = DOMAIN tags
      /\ Len(tags) \in Nat
  BY EnumShape DEF TypeOK, CheckDistinct
<1>2. CASE TagTaken(at) /\ Reject("duplicate")
  <2>1. PICK j \in 1 .. at - 1 : tags[j] = tags[at]
    BY <1>2 DEF TagTaken
  <2>2. j \in DOMAIN enum.variants /\ at \in DOMAIN enum.variants /\ j # at
    BY <1>1, <2>1
  <2>3. TagOf(enum.variants[j]) = TagOf(enum.variants[at])
    BY <1>1, <2>1, <2>2 DEF TypeOK
  <2>4. ~Legal
    BY <2>2, <2>3 DEF Legal
  <2> QED
    BY <1>2, <2>4, RejectInv
<1>3. CASE ~TagTaken(at) /\ NextVariant /\ UNCHANGED tags
  <2>1. TypeOK'
    BY <1>1, <1>3 DEF TypeOK, NextVariant
  <2>2. \A i, j \in 1 .. at' - 1 : tags[i] = tags[j] => i = j
    <3>1. at' - 1 = at
      BY <1>1, <1>3 DEF NextVariant
    <3>2. \A i \in 1 .. at - 1 : tags[i] # tags[at]
      BY <1>3 DEF TagTaken
    <3> QED
      BY <1>1, <3>1, <3>2 DEF PassInv
  <2>3. PassInv'
    BY <1>1, <1>3, <2>2 DEF PassInv, NextVariant, SingleFieldVariants
  <2>4. ItemInv'
    BY <1>3 DEF ItemInv, NextVariant
  <2>5. VerdictInv'
    BY <1>1, <1>3, PendingVerdict DEF NextVariant
  <2> QED
    BY <2>1, <2>3, <2>4, <2>5
<1> QED
  BY <1>2, <1>3 DEF CheckDistinct

LEMMA AcceptInv ==
  ASSUME IInv, Accept
  PROVE  IInv'
<1> USE DEF IInv, Accept, Running
<1>1. at = Len(enum.variants) + 1
  BY EnumShape DEF TypeOK
<1>2. TypeOK'
  BY DEF TypeOK
<1>3. ItemInv' /\ PassInv'
  BY DEF ItemInv, PassInv, Items, SingleFieldVariants
<1>4. VerdictInv'
  BY <1>1, Verdicts DEF VerdictInv
<1> QED
  BY <1>2, <1>3, <1>4

LEMMA StutterInv ==
  ASSUME IInv, UNCHANGED vars
  PROVE  IInv'
BY DEF vars, IInv, TypeOK, ItemInv, PassInv, VerdictInv, Items, SingleFieldVariants, Legal

LEMMA NextInv == IInv /\ [Next]_vars => IInv'
<1> SUFFICES ASSUME IInv, [Next]_vars PROVE IInv'
  OBVIOUS
<1>1. CASE CheckShape
  BY <1>1, CheckShapeInv
<1>2. CASE ReadTag
  BY <1>2, ReadTagInv
<1>3. CASE FinishTag
  BY <1>3, FinishTagInv
<1>4. CASE TagsParsed
  BY <1>4, TagsParsedInv
<1>5. CASE CheckName
  BY <1>5, CheckNameInv
<1>6. CASE NamesChecked
  BY <1>6, NamesCheckedInv
<1>7. CASE CheckDistinct
  BY <1>7, CheckDistinctInv
<1>8. CASE Accept
  BY <1>8, AcceptInv
<1>9. CASE Answer
  BY <1>9, StutterInv DEF Answer
<1>10. CASE UNCHANGED vars
  BY <1>10, StutterInv
<1> QED
  BY <1>1, <1>2, <1>3, <1>4, <1>5, <1>6, <1>7, <1>8, <1>9, <1>10 DEF Next

LEMMA Inductive == Spec => []IInv
BY InitInv, NextInv, PTL DEF Spec

(* When the derive accepts, all four passes have seen all variants.        *)
LEMMA AcceptedIsLegal ==
  ASSUME IInv, verdict = Accepted
  PROVE  /\ Legal
         /\ DOMAIN tags = DOMAIN enum.variants
         /\ \A i, j \in DOMAIN tags : tags[i] = tags[j] => i = j
<1>1. pass = "distinct" /\ at = Len(enum.variants) + 1
  BY DEF IInv, VerdictInv
<1>2. /\ Len(enum.variants) \in Nat /\ DOMAIN enum.variants = 1 .. Len(enum.variants)
      /\ tags \in Seq(0 .. TagMax) /\ Len(tags) = Len(enum.variants)
  BY <1>1, EnumShape DEF IInv, TypeOK
<1>3. DOMAIN tags = DOMAIN enum.variants
  BY <1>2
<1>4. \A i, j \in DOMAIN tags : tags[i] = tags[j] => i = j
  BY <1>1, <1>2, <1>3 DEF IInv, PassInv
<1>5. \A i \in DOMAIN enum.variants : Tagged1(enum.variants[i]) /\ tags[i] = TagOf(enum.variants[i])
  BY <1>3 DEF IInv, TypeOK
<1>6. Legal
  BY <1>1, <1>3, <1>4, <1>5 DEF IInv, PassInv, Legal
<1> QED
  BY <1>3, <1>4, <1>6

(* The derive's state keeps its types: in every reachable state the tags   *)
(* are those written on the first variants, one each and in order, which   *)
(* is what emit_union_impl relies on when it zips the two.                 *)
THEOREM TagsFollowVariants == Spec => []TypeOK
<1>1. IInv => TypeOK
  BY DEF IInv
<1> QED
  BY <1>1, Inductive, PTL

(* The union derive accepts an enum exactly when it is one of the grammar: *)
(* no pass of impl_ckb_witness_union is missing and none refuses too much. *)
THEOREM UnionsAccepted == Spec => []AcceptsUnions
<1>1. IInv => AcceptsUnions
  <2> SUFFICES ASSUME IInv, verdict # Pending PROVE verdict = Accepted <=> Legal
    BY DEF AcceptsUnions
  <2>1. CASE verdict = Accepted
    BY <2>1, AcceptedIsLegal
  <2>2. CASE verdict = Rejected(verdict.why)
    <3>1. verdict # Accepted
      BY <2>2, Verdicts
    <3> QED
      BY <2>2, <3>1 DEF IInv, VerdictInv
  <2> QED
    BY <2>1, <2>2 DEF IInv, TypeOK
<1> QED
  BY <1>1, Inductive, PTL

(* Every variant of an accepted enum has a type ID of its own that selects *)
(* it, and no other arm of the generated match.                            *)
THEOREM VariantsAreReached == Spec => []EveryVariantIsReached
<1>1. IInv => EveryVariantIsReached
  <2> SUFFICES ASSUME IInv, verdict = Accepted, NEW i \in DOMAIN enum.variants
               PROVE  \E type_id \in 0 .. TagMax :
                        Selected(i, type_id) /\ Arms(type_id) = {i}
    BY DEF EveryVariantIsReached
  <2>1. i \in DOMAIN tags /\ \A j \in DOMAIN tags : tags[i] = tags[j] => i = j
    BY AcceptedIsLegal
  <2>2. tags[i] \in 0 .. TagMax /\ i \in Nat
    <3>1. tags \in Seq(0 .. TagMax)
      BY DEF IInv, TypeOK
    <3>2. DOMAIN tags = 1 .. Len(tags) /\ Len(tags) \in Nat
      BY <3>1
    <3>3. i \in 1 .. Len(tags)
      BY <2>1, <3>2
    <3>4. tags[i] \in 0 .. TagMax
      BY <3>1, <3>3, ElementOfSeq, Zenon
    <3>5. i \in Nat
      BY <3>2, <3>3, Positions, Zenon
    <3> QED
      BY <3>4, <3>5
  <2>3. Arms(tags[i]) = {i}
    BY <2>1 DEF Arms
  <2>4. Selected(i, tags[i])
    BY <2>2, <2>3 DEF Selected
  <2> QED
    BY <2>2, <2>3, <2>4
<1> QED
  BY <1>1, Inductive, PTL
=============================================================================
