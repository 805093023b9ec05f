-------------------------- MODULE FieldLayoutProofs --------------------------
(***************************************************************************)
(* What the two passes of collect_field_metas establish, for every struct, *)
(* every type and every list of attributes.  Part 1 is about the passes:   *)
(* the metas are those of the declared fields, and the loop with its two   *)
(* flags decides the layout rule, whatever the kinds of the fields are.    *)
(* Part 2 is about the registry, the two recursions over types and the one *)
(* over attribute items.  Part 3 brings them together: what is accepted is *)
(* the grammar, and what is accepted can be decoded.                       *)
(***************************************************************************)
EXTENDS FieldLayout, WellFoundedInduction, TLAPS

(* The loop invariant of the second pass: the flags say what stands before *)
(* `at`, and what stands there obeys the rule with something behind it.    *)
LoopInv ==
  pass = "layout" =>
    /\ seen_optional = (\E i \in 1 .. at - 1 : IsOptional(metas[i]))
    /\ seen_nested = (\E i \in 1 .. at - 1 : IsNested(metas[i]))
    /\ \A i, j \in 1 .. at - 1 :
         i < j => /\ ~IsNested(metas[i])
                  /\ IsOptional(metas[i]) => IsOptional(metas[j])

(* What Init sets stays until the pass that uses it.                       *)
Untouched ==
  /\ pass = "shape" => at = 1
  /\ pass # "layout" => ~seen_optional /\ ~seen_nested

Inv == TypeOK /\ Untouched /\ LoopInv /\ LayoutIsDecided

LEMMA FieldsAreFinite ==
  ASSUME TypeOK
  PROVE  /\ Len(input.fields) \in Nat
         /\ DOMAIN input.fields = 1 .. Len(input.fields)
  BY InputsAssumption DEF TypeOK

LEMMA MetasLength ==
  ASSUME TypeOK
  PROVE  /\ Processed \in Nat
         /\ Len(metas) = Processed
         /\ DOMAIN metas = 1 .. Processed
         /\ \A i \in 1 .. Processed : metas[i] = Meta(input.fields[i])
<1>1. Processed \in Nat
  BY FieldsAreFinite DEF TypeOK, Processed
<1>2. metas = FirstMetas(Processed)
  BY DEF TypeOK
<1> QED BY <1>1, <1>2 DEF FirstMetas

LEMMA NestedIsRequired ==
  ASSUME NEW meta, IsNested(meta)
  PROVE  ~IsOptional(meta)
  BY DEF IsNested, IsOptional

LEMMA InitInv == Init => Inv
<1> SUFFICES ASSUME Init PROVE Inv
  OBVIOUS
<1>1. Len(input.fields) \in Nat
  BY InputsAssumption DEF Init
<1>2. metas = FirstMetas(Processed)
  BY DEF Init, Processed, FirstMetas
<1>3. at \in 1 .. Len(input.fields) + 1
  BY <1>1 DEF Init
<1>4. TypeOK
  BY <1>2, <1>3 DEF Init, TypeOK
<1>5. LoopInv /\ LayoutIsDecided /\ Untouched
  BY DEF Init, LoopInv, LayoutIsDecided, Untouched, Pending, Accepted
<1> QED BY <1>4, <1>5 DEF Inv

(* Whatever a check finds, a rejection leaves everything where it was; in  *)
(* the second pass it has to be deserved.                                  *)
LEMMA RejectInv ==
  ASSUME Inv, NEW why, Reject(why), pass = "layout" => ~LayoutRule(metas)
  PROVE  Inv'
<1>1. UNCHANGED <<input, pass, at, metas, seen_optional, seen_nested>>
  BY DEF Reject
<1>2. verdict' = MacroPanic \/ verdict' = Rejected(why)
  BY DEF Reject
<1>3. TypeOK'
  <2>1. Rejected(why).v = "rejected"
    BY DEF Rejected
  <2>2. FirstMetas(Processed)' = FirstMetas(Processed)
    BY <1>1 DEF FirstMetas, Processed
  <2> QED BY <1>1, <1>2, <2>1, <2>2 DEF Inv, TypeOK
<1>4. LoopInv'
  BY <1>1 DEF Inv, LoopInv
<1>5. LayoutIsDecided'
  <2>1. LayoutRule(metas') <=> LayoutRule(metas)
    BY <1>1
  <2>2. verdict' # Accepted
    BY <1>2 DEF Accepted, MacroPanic, Rejected
  <2> QED BY <1>1, <2>1, <2>2 DEF LayoutIsDecided
<1>6. Untouched'
  BY <1>1 DEF Inv, Untouched
<1> QED BY <1>3, <1>4, <1>5, <1>6 DEF Inv

LEMMA CheckShapeInv == Inv /\ CheckShape => Inv'
<1> SUFFICES ASSUME Inv, CheckShape PROVE Inv'
  OBVIOUS
<1>0. pass = "shape" /\ verdict = Pending
  BY DEF CheckShape, Running
<1>1. CASE Reject("shape")
  BY <1>0, <1>1, RejectInv
<1>2. CASE /\ pass' = "fields"
           /\ UNCHANGED <<input, at, metas, seen_optional, seen_nested, verdict>>
  <2>1. Processed = 0 /\ Processed' = 0
    BY <1>0, <1>2 DEF Inv, Untouched, Processed
  <2>2. FirstMetas(Processed)' = FirstMetas(Processed)
    BY <1>2, <2>1 DEF FirstMetas
  <2>3. TypeOK'
    BY <1>2, <2>2 DEF Inv, TypeOK
  <2>4. LoopInv' /\ Untouched'
    BY <1>0, <1>2 DEF Inv, LoopInv, Untouched
  <2>5. LayoutIsDecided'
    BY <1>0, <1>2 DEF LayoutIsDecided, Pending, Accepted
  <2> QED BY <2>3, <2>4, <2>5 DEF Inv
<1> QED BY <1>1, <1>2 DEF CheckShape

LEMMA CollectFieldInv == Inv /\ CollectField => Inv'
<1> SUFFICES ASSUME Inv, CollectField PROVE Inv'
  OBVIOUS
<1>0. pass = "fields" /\ verdict = Pending /\ at <= Len(input.fields)
  BY DEF CollectField, Running
<1> DEFINE field == input.fields[at]
<1>1. CASE Faults(FieldChecks(field)) # {}
  <2>1. Reject(FirstFault(FieldChecks(field)))
    BY <1>1 DEF CollectField
  <2> QED BY <1>0, <2>1, RejectInv
<1>2. CASE Faults(FieldChecks(field)) = {}
  <2>1. /\ metas' = Append(metas, Meta(field))
        /\ at' = at + 1
        /\ UNCHANGED <<input, pass, seen_optional, seen_nested, verdict>>
    BY <1>2 DEF CollectField
  <2>2. /\ Len(input.fields) \in Nat
        /\ at \in 1 .. Len(input.fields)
        /\ Processed = at - 1 /\ Processed' = at
    BY <1>0, <2>1, FieldsAreFinite DEF Inv, TypeOK, Processed
  <2>3. metas' = FirstMetas(Processed)'
    <3>1. metas = [i \in 1 .. at - 1 |-> Meta(input.fields[i])]
      BY <2>2 DEF Inv, TypeOK, FirstMetas
    <3>2. Append(metas, Meta(field)) = [i \in 1 .. at |-> Meta(input.fields[i])]
      BY <2>2, <3>1
    <3> QED BY <2>1, <2>2, <3>2 DEF FirstMetas
  <2>4. TypeOK'
    BY <1>0, <2>1, <2>2, <2>3 DEF Inv, TypeOK
  <2>5. LoopInv' /\ Untouched'
    BY <1>0, <2>1 DEF Inv, LoopInv, Untouched
  <2>6. LayoutIsDecided'
    BY <1>0, <2>1 DEF LayoutIsDecided, Pending, Accepted
  <2> QED BY <2>4, <2>5, <2>6 DEF Inv
<1> QED BY <1>1, <1>2

LEMMA CollectedInv == Inv /\ Collected => Inv'
<1> SUFFICES ASSUME Inv, Collected PROVE Inv'
  OBVIOUS
<1>1. /\ pass = "fields" /\ verdict = Pending /\ at > Len(input.fields)
      /\ pass' = "layout" /\ at' = 1
      /\ UNCHANGED <<input, metas, seen_optional, seen_nested, verdict>>
  BY DEF Collected, Running
<1>2. /\ Len(input.fields) \in Nat
      /\ Processed = Len(input.fields) /\ Processed' = Len(input.fields)
  BY <1>1, FieldsAreFinite DEF Inv, TypeOK, Processed
<1>3. FirstMetas(Processed)' = FirstMetas(Processed)
  BY <1>1, <1>2 DEF FirstMetas
<1>4. TypeOK'
  BY <1>1, <1>2, <1>3 DEF Inv, TypeOK
<1>5. LoopInv'
  <2>1. 1 .. at' - 1 = {}
    BY <1>1
  <2>2. seen_optional' = FALSE /\ seen_nested' = FALSE
    BY <1>1 DEF Inv, Untouched, TypeOK
  <2> QED BY <2>1, <2>2 DEF LoopInv
<1>6. Untouched'
  BY <1>1 DEF Untouched
<1>7. LayoutIsDecided'
  BY <1>1 DEF LayoutIsDecided, Pending, Accepted
<1> QED BY <1>4, <1>5, <1>6, <1>7 DEF Inv

(* The faults of the loop's three checks, one by one.                      *)
LEMMA LayoutFaults ==
  ASSUME NEW meta
  PROVE  Faults(LayoutChecks(meta)) = {} <=>
           /\ ~seen_nested
           /\ ~(~IsOptional(meta) /\ seen_optional)
           /\ ~(IsNested(meta) /\ (seen_optional \/ IsOptional(meta)))
<1> DEFINE checks == LayoutChecks(meta)
<1>1. DOMAIN checks = {1, 2, 3}
  BY DEF LayoutChecks
<1>2. /\ checks[1].fault = seen_nested
      /\ checks[2].fault = (~IsOptional(meta) /\ seen_optional)
      /\ checks[3].fault = (IsNested(meta) /\ (seen_optional \/ IsOptional(meta)))
  BY DEF LayoutChecks, Check
<1>3. Faults(checks) = {} <=> ~checks[1].fault /\ ~checks[2].fault /\ ~checks[3].fault
  <2> HIDE DEF checks
  <2> QED BY <1>1 DEF Faults
<1> QED BY <1>2, <1>3

(* A fault the loop finds is one: with what the flags say, the field and   *)
(* one before it contradict the rule.                                      *)
LEMMA FaultIsReal ==
  ASSUME Inv, pass = "layout", at <= Len(metas), Faults(LayoutChecks(metas[at])) # {}
  PROVE  ~LayoutRule(metas)
<1> DEFINE meta == metas[at]
<1>1. /\ Len(metas) \in Nat /\ DOMAIN metas = 1 .. Len(metas)
      /\ at \in 1 .. Len(metas)
  BY MetasLength DEF Inv, TypeOK, Processed
<1>2. \/ seen_nested
      \/ ~IsOptional(meta) /\ seen_optional
      \/ IsNested(meta) /\ (seen_optional \/ IsOptional(meta))
  BY LayoutFaults
<1>3. seen_nested \/ (~IsOptional(meta) /\ seen_optional)
  BY <1>2, NestedIsRequired
<1>4. CASE seen_nested
  <2>1. PICK i \in 1 .. at - 1 : IsNested(metas[i])
    BY <1>4 DEF Inv, LoopInv
  <2>2. i \in DOMAIN metas /\ at \in 1 .. Len(metas) /\ i < at
    BY <1>1, <2>1
  <2>3. i # Len(metas)
    BY <1>1, <2>2
  <2> QED BY <2>1, <2>2, <2>3 DEF LayoutRule
<1>5. CASE ~IsOptional(meta) /\ seen_optional
  <2>1. PICK i \in 1 .. at - 1 : IsOptional(metas[i])
    BY <1>5 DEF Inv, LoopInv
  <2>2. i \in DOMAIN metas /\ at \in DOMAIN metas /\ i < at
    BY <1>1, <2>1
  <2> QED BY <1>5, <2>1, <2>2 DEF LayoutRule
<1> QED BY <1>3, <1>4, <1>5

(* One field further on, the flags and the rule are those of one more.     *)
LEMMA LoopStep ==
  ASSUME Inv, pass = "layout", at \in Nat \ {0}, Faults(LayoutChecks(metas[at])) = {},
         UNCHANGED <<pass, metas>>, at' = at + 1,
         seen_optional' = (seen_optional \/ IsOptional(metas[at])),
         seen_nested' = (seen_nested \/ IsNested(metas[at]))
  PROVE  LoopInv'
<1>1. /\ ~seen_nested
      /\ IsOptional(metas[at]) \/ ~seen_optional
  BY LayoutFaults
<1>2. /\ seen_optional = (\E i \in 1 .. at - 1 : IsOptional(metas[i]))
      /\ seen_nested = (\E i \in 1 .. at - 1 : IsNested(metas[i]))
      /\ \A i, j \in 1 .. at - 1 :
           i < j => /\ ~IsNested(metas[i])
                    /\ IsOptional(metas[i]) => IsOptional(metas[j])
  BY DEF Inv, LoopInv
<1>3. 1 .. at' - 1 = (1 .. at - 1) \cup {at}
  OBVIOUS
<1>4. seen_optional' = (\E i \in 1 .. at' - 1 : IsOptional(metas[i]))
  BY <1>2, <1>3
<1>5. seen_nested' = (\E i \in 1 .. at' - 1 : IsNested(metas[i]))
  BY <1>2, <1>3
<1>6. ASSUME NEW i \in 1 .. at' - 1, NEW j \in 1 .. at' - 1, i < j
      PROVE  /\ ~IsNested(metas[i])
             /\ IsOptional(metas[i]) => IsOptional(metas[j])
  <2>1. i \in 1 .. at - 1
    BY <1>6
  <2>2. CASE j \in 1 .. at - 1
    BY <1>2, <1>6, <2>1, <2>2
  <2>3. CASE j = at
    BY <1>1, <1>2, <2>1, <2>3
  <2> QED BY <1>3, <2>2, <2>3
<1>7. metas' = metas /\ pass' = "layout"
  OBVIOUS
<1> HIDE <1>3
<1> QED BY <1>4, <1>5, <1>6, <1>7 DEF LoopInv, IsOptional, IsNested

LEMMA CheckLayoutInv == Inv /\ CheckLayout => Inv'
<1> SUFFICES ASSUME Inv, CheckLayout PROVE Inv'
  OBVIOUS
<1>0. pass = "layout" /\ verdict = Pending /\ at <= Len(metas)
  BY DEF CheckLayout, Running
<1>1. CASE Faults(LayoutChecks(metas[at])) # {}
  <2>1. Reject(FirstFault(LayoutChecks(metas[at])))
    BY <1>1 DEF CheckLayout
  <2>2. ~LayoutRule(metas)
    BY <1>0, <1>1, FaultIsReal
  <2> QED BY <2>1, <2>2, RejectInv
<1>2. CASE Faults(LayoutChecks(metas[at])) = {}
  <2>1. /\ seen_optional' = (seen_optional \/ IsOptional(metas[at]))
        /\ seen_nested' = (seen_nested \/ IsNested(metas[at]))
        /\ at' = at + 1
        /\ UNCHANGED <<input, pass, metas, verdict>>
    BY <1>2 DEF CheckLayout
  <2>2. /\ Len(input.fields) \in Nat
        /\ at \in 1 .. Len(input.fields)
        /\ Processed' = Processed
    BY <1>0, <2>1, FieldsAreFinite, MetasLength DEF Inv, TypeOK, Processed
  <2>3. FirstMetas(Processed)' = FirstMetas(Processed)
    BY <2>1, <2>2 DEF FirstMetas
  <2>4. seen_optional' \in BOOLEAN /\ seen_nested' \in BOOLEAN
    BY <2>1
  <2>5. TypeOK'
    BY <2>1, <2>2, <2>3, <2>4 DEF Inv, TypeOK
  <2>6. LoopInv'
    BY <1>0, <1>2, <2>1, <2>2, LoopStep
  <2>7. Untouched'
    BY <1>0, <2>1 DEF Untouched
  <2>8. LayoutIsDecided'
    BY <1>0, <2>1 DEF LayoutIsDecided, Pending, Accepted
  <2> QED BY <2>5, <2>6, <2>7, <2>8 DEF Inv
<1> QED BY <1>1, <1>2

LEMMA AcceptInv == Inv /\ Accept => Inv'
<1> SUFFICES ASSUME Inv, Accept PROVE Inv'
  OBVIOUS
<1>1. /\ pass = "layout" /\ at > Len(metas)
      /\ verdict' = Accepted
      /\ UNCHANGED <<input, pass, at, metas, seen_optional, seen_nested>>
  BY DEF Accept, Running
<1>2. /\ Len(metas) \in Nat /\ DOMAIN metas = 1 .. Len(metas)
      /\ at - 1 = Len(metas)
  BY <1>1, MetasLength DEF Inv, TypeOK, Processed
<1>3. LayoutRule(metas)
  <2>1. \A i, j \in 1 .. Len(metas) :
          i < j => /\ ~IsNested(metas[i])
                   /\ IsOptional(metas[i]) => IsOptional(metas[j])
    BY <1>1, <1>2 DEF Inv, LoopInv
  <2>2. ASSUME NEW i \in DOMAIN metas, IsNested(metas[i]) PROVE i = Len(metas)
    BY <1>2, <2>1, <2>2
  <2> QED BY <1>2, <2>1, <2>2 DEF LayoutRule
<1>4. TypeOK'
  <2>1. FirstMetas(Processed)' = FirstMetas(Processed)
    BY <1>1 DEF FirstMetas, Processed
  <2> QED BY <1>1, <2>1 DEF Inv, TypeOK
<1>5. LoopInv' /\ Untouched'
  BY <1>1 DEF Inv, LoopInv, Untouched
<1>6. LayoutIsDecided'
  <2>1. LayoutRule(metas')
    BY <1>1, <1>3
  <2> QED BY <1>1, <2>1 DEF LayoutIsDecided, Accepted
<1> QED BY <1>4, <1>5, <1>6 DEF Inv

LEMMA InvStep == Inv /\ [Next]_vars => Inv'
<1>1. ASSUME Inv, UNCHANGED vars PROVE Inv'
  <2>1. FirstMetas(Processed)' = FirstMetas(Processed)
    BY <1>1 DEF vars, FirstMetas, Processed
  <2>2. TypeOK'
    BY <1>1, <2>1 DEF vars, Inv, TypeOK
  <2>3. LoopInv' /\ Untouched' /\ LayoutIsDecided'
    BY <1>1 DEF vars, Inv, LoopInv, Untouched, LayoutIsDecided
  <2> QED BY <2>2, <2>3 DEF Inv
<1> SUFFICES ASSUME Inv, [Next]_vars PROVE Inv'
  OBVIOUS
<1>2. CASE CheckShape   BY <1>2, CheckShapeInv
<1>3. CASE CollectField BY <1>3, CollectFieldInv
<1>4. CASE Collected    BY <1>4, CollectedInv
<1>5. CASE CheckLayout  BY <1>5, CheckLayoutInv
<1>6. CASE Accept       BY <1>6, AcceptInv
<1>7. CASE Answer       BY <1>7, <1>1 DEF Answer
<1>8. CASE UNCHANGED vars BY <1>8, <1>1
<1> QED BY <1>2, <1>3, <1>4, <1>5, <1>6, <1>7, <1>8 DEF Next

LEMMA InvInductive == Spec => []Inv
  BY InitInv, InvStep, PTL DEF Spec

(* The metas are those of the declared fields, one each and in order,      *)
(* whatever is declared: what the decoder and the IDL are generated from   *)
(* is the whole struct (collect_field_metas, lib.rs:21-109).               *)
THEOREM MetasFollowFields == Spec => []TypeOK
<1>1. Inv => TypeOK
  BY DEF Inv
<1> QED BY InvInductive, <1>1, PTL

(* The second pass accepts exactly the layouts whose optional fields come  *)
(* last and whose nested field, if any, is the very last (lib.rs:111-156), *)
(* for structs of any length.                                              *)
THEOREM LayoutDecided == Spec => []LayoutIsDecided
<1>1. Inv => LayoutIsDecided
  BY DEF Inv
<1> QED BY InvInductive, <1>1, PTL

(***************************************************************************)
(* Facts about numbers: a smallest, a largest one, and induction.          *)
(***************************************************************************)

(* Every set of numbers has a smallest one.                                *)
LEMMA Smallest ==
  ASSUME NEW S, S \subseteq Nat, S # {}
  PROVE  \E n \in S : \A m \in S : n <= m
<1>1. \E n \in S : \A m \in S : ~(<<m, n>> \in OpToRel(<, Nat))
  BY NatLessThanWellFounded, WFMin
<1>2. PICK n \in S : \A m \in S : ~(m < n)
  BY <1>1 DEF OpToRel
<1>3. \A m \in S : n <= m
  BY <1>2
<1> QED BY <1>3

(* Every set of numbers up to n has a largest one.                         *)
LEMMA Largest ==
  ASSUME NEW n \in Nat, NEW S, S \subseteq 1 .. n, S # {}
  PROVE  \E i \in S : \A j \in S : j <= i
<1> DEFINE Bounds == {m \in Nat : \A j \in S : j <= m}
<1>1. n \in Bounds
  OBVIOUS
<1>2. PICK m \in Bounds : \A b \in Bounds : m <= b
  BY <1>1, Smallest
<1>3. CASE m \in S
  BY <1>2, <1>3
<1>4. CASE m \notin S
  <2>1. PICK j \in S : TRUE
    OBVIOUS
  <2>2. m \in Nat /\ j \in 1 .. n /\ j <= m /\ j # m
    BY <1>2, <1>4, <2>1
  <2>3. m - 1 \in Bounds
    BY <1>2, <1>4, <2>2
  <2> QED BY <1>2, <2>2, <2>3
<1> QED BY <1>3, <1>4

(* Induction up to n. *)
LEMMA Induction ==
  ASSUME NEW n \in Nat, NEW S, 0 \in S, \A k \in 0 .. n - 1 : k \in S => k + 1 \in S
  PROVE  0 .. n \subseteq S
<1> SUFFICES ASSUME ~(0 .. n \subseteq S) PROVE FALSE
  OBVIOUS
<1> DEFINE Out == (0 .. n) \ S
<1>1. Out \subseteq Nat /\ Out # {}
  OBVIOUS
<1>2. PICK k \in Out : \A m \in Out : k <= m
  BY <1>1, Smallest
<1>3. k \in 1 .. n /\ k - 1 \notin Out
  BY <1>2
<1>4. k - 1 \in S /\ k - 1 \in 0 .. n - 1
  BY <1>3
<1>5. (k - 1) + 1 \in S
  BY <1>4
<1> QED BY <1>2, <1>3, <1>5

(* Induction over a measure: what holds of everything, if it holds of what *)
(* is smaller, has no smallest counterexample.                             *)
LEMMA MeasureInduction ==
  ASSUME NEW T, NEW size \in [T -> Nat], NEW S,
         \A t \in T : (\A s \in T : size[s] < size[t] => s \in S) => t \in S
  PROVE  T \subseteq S
<1> SUFFICES ASSUME NEW t \in T, t \notin S PROVE FALSE
  OBVIOUS
<1> DEFINE Out == {size[s] : s \in T \ S}
<1>1. Out \subseteq Nat /\ Out # {}
  OBVIOUS
<1>2. \E n \in Out : \A m \in Out : ~(<<m, n>> \in OpToRel(<, Nat))
  BY <1>1, NatLessThanWellFounded, WFMin
<1>3. \E n \in Out : \A m \in Out : ~(m < n)
  BY <1>1, <1>2 DEF OpToRel
<1>4. PICK s \in T \ S : \A r \in T \ S : ~(size[r] < size[s])
  BY <1>3
<1> QED
  BY <1>4

(***************************************************************************)
(* Part 2: the two maps of the registry.  That their recursion comes to an *)
(* end is proved from TypesAreFinite, by induction over the depth.         *)
(***************************************************************************)

(* The bodies of the two maps, the recursive call being given.             *)
WireStep(map, ty) ==
  CASE Applied(ty, "Vec") /\ IsU8(ty.args[1])  -> Kind("bytes")
    [] Applied(ty, "Vec") /\ ~IsU8(ty.args[1]) -> Wrap("vec", map[ty.args[1]])
    [] Applied(ty, "Option")                   -> Wrap("opt", map[ty.args[1]])
    [] IsPrimitive(ty)                         -> Sized("scalar", PrimitiveSize[ty.ident])
    [] IsByteArray(ty)                         ->
         IF ty.len > 0 THEN Sized("array", ty.len) ELSE NoKind
    [] ty.t # "path" /\ ~IsByteArray(ty)       -> NoKind
    [] OTHER                                   -> Path("struct", ty.ident)

IdlStep(map, ty) ==
  CASE Applied(ty, "Vec") /\ IsU8(ty.args[1])  -> Bytes
    [] Applied(ty, "Vec") /\ ~IsU8(ty.args[1]) ->
         IF RefusedElement(ty.args[1]) \/ map[ty.args[1]] = Refused THEN Refused
         ELSE VecOf(map[ty.args[1]])
    [] Applied(ty, "Option")                   ->
         IF NestedOption(ty) THEN Refused ELSE map[ty.args[1]]
    [] IsPrimitive(ty)                         -> Uint(PrimitiveSize[ty.ident])
    [] IsByteArray(ty)                         ->
         IF EmptyArray(ty) THEN Refused ELSE BytesFixed(ty.len)
    [] ty.t # "path" /\ ~IsByteArray(ty)       -> Refused
    [] OTHER                                   -> Struct

LEMMA Argument ==
  ASSUME NEW depth \in [Types -> Nat], Descends(depth), NEW ty \in Types, NEW ident,
         Applied(ty, ident)
  PROVE  ty.args[1] \in Types /\ depth[ty.args[1]] < depth[ty]
<1>1. ty.t = "path" /\ Len(ty.args) = 1
  BY DEF Applied, Called
<1>2. 1 \in DOMAIN ty.args
  BY <1>1
<1> QED
  BY <1>1, <1>2, TypesAssumption DEF Descends

(* Both at once, and that they look no further than the type argument.     *)
MapStep(maps, ty) ==
  [wire |-> WireStep([s \in Types |-> maps[s].wire], ty),
   idl  |-> IdlStep([s \in Types |-> maps[s].idl], ty)]

LEMMA StepsAreLocal ==
  ASSUME NEW ty, NEW g, NEW h,
         Applied(ty, "Vec") \/ Applied(ty, "Option") => g[ty.args[1]] = h[ty.args[1]]
  PROVE  WireStep(g, ty) = WireStep(h, ty) /\ IdlStep(g, ty) = IdlStep(h, ty)
  BY DEF WireStep, IdlStep

LEMMA MapStepLocal ==
  ASSUME TypesAreFinite, NEW ty \in Types, NEW g, NEW h,
         Applied(ty, "Vec") \/ Applied(ty, "Option") => g[ty.args[1]] = h[ty.args[1]]
  PROVE  MapStep(g, ty) = MapStep(h, ty)
<1>1. Applied(ty, "Vec") \/ Applied(ty, "Option") => ty.args[1] \in Types
  BY Argument DEF TypesAreFinite
<1> QED
  BY <1>1, StepsAreLocal DEF MapStep

(* The recursion of the two maps comes to an end.                          *)
LEMMA MapsExist ==
  ASSUME TypesAreFinite
  PROVE  \E f : f = [ty \in Types |-> MapStep(f, ty)]
<1>1. PICK depth \in [Types -> Nat] : Descends(depth)
  BY DEF TypesAreFinite
<1> DEFINE Upto(ty)     == {s \in Types : depth[s] <= depth[ty]}
           Solves(g, D) == g = [s \in D |-> MapStep(g, s)]
           good         == {ty \in Types : \E g : Solves(g, Upto(ty))}
           sol          == [ty \in Types |-> CHOOSE g : Solves(g, Upto(ty))]
           diag         == [ty \in Types |-> sol[ty][ty]]
<1>2. ASSUME NEW ty \in Types, NEW s \in Types, depth[s] <= depth[ty],
             NEW g, Solves(g, Upto(ty)), NEW h, Solves(h, Upto(s))
      PROVE  g[s] = h[s]
  <2> DEFINE same == {r \in Types : depth[r] <= depth[s] => g[r] = h[r]}
  <2>1. ASSUME NEW r \in Types, \A q \in Types : depth[q] < depth[r] => q \in same
        PROVE  r \in same
    <3> SUFFICES ASSUME depth[r] <= depth[s] PROVE g[r] = h[r]
      OBVIOUS
    <3>1. g[r] = MapStep(g, r) /\ h[r] = MapStep(h, r)
      <4>1. r \in Upto(ty) /\ r \in Upto(s)
        BY <1>2
      <4> HIDE DEF Upto
      <4> QED BY <1>2, <4>1
    <3>2. Applied(r, "Vec") \/ Applied(r, "Option") => g[r.args[1]] = h[r.args[1]]
      BY <1>1, <2>1, Argument
    <3> QED BY <3>1, <3>2, MapStepLocal
  <2> HIDE DEF same
  <2>2. Types \subseteq same
    BY <2>1, MeasureInduction
  <2> QED BY <2>2 DEF same
<1>3. ASSUME NEW ty \in good
      PROVE  Solves(sol[ty], Upto(ty)) /\ sol[ty][ty] = MapStep(sol[ty], ty)
  <2>1. ty \in Types /\ \E g : Solves(g, Upto(ty))
    OBVIOUS
  <2> HIDE DEF good, sol, Solves
  <2>2. ty \in Upto(ty)
    BY <2>1
  <2> USE DEF good, sol, Solves
  <2> HIDE DEF Upto
  <2>3. Solves(sol[ty], Upto(ty))
    BY <2>1
  <2> QED BY <2>2, <2>3
<1>4. ASSUME NEW ty \in Types, \A s \in Types : depth[s] <= depth[ty] => s \in good
      PROVE  diag[ty] = MapStep(diag, ty)
  <2> HIDE DEF good, sol
  <2>1. ty \in good
    BY <1>4
  <2>2. Applied(ty, "Vec") \/ Applied(ty, "Option") =>
          sol[ty][ty.args[1]] = diag[ty.args[1]]
    <3> SUFFICES ASSUME NEW ident, Applied(ty, ident)
                 PROVE  sol[ty][ty.args[1]] = diag[ty.args[1]]
      OBVIOUS
    <3> DEFINE arg == ty.args[1]
    <3>1. arg \in Types /\ depth[arg] <= depth[ty]
      BY <1>1, Argument
    <3>2. arg \in good
      BY <1>4, <3>1
    <3> HIDE DEF arg, Solves, Upto
    <3>3. sol[ty][arg] = sol[arg][arg]
      BY <1>2, <1>3, <2>1, <3>1, <3>2
    <3> QED BY <3>1, <3>3 DEF arg
  <2>3. MapStep(sol[ty], ty) = MapStep(diag, ty)
    BY <2>2, MapStepLocal
  <2> QED BY <1>3, <2>1, <2>3
<1>5. ASSUME NEW ty \in Types, \A s \in Types : depth[s] < depth[ty] => s \in good
      PROVE  ty \in good
  <2> DEFINE g == [s \in Upto(ty) |-> MapStep(diag, s)]
  <2>1. ASSUME NEW s \in Upto(ty) PROVE MapStep(diag, s) = MapStep(g, s)
    <3> SUFFICES ASSUME NEW ident, Applied(s, ident)
                 PROVE  diag[s.args[1]] = g[s.args[1]]
      BY MapStepLocal
    <3> DEFINE arg == s.args[1]
    <3>1. arg \in Types /\ depth[arg] < depth[ty]
      BY <1>1, Argument
    <3> HIDE DEF good, diag, arg
    <3>2. \A r \in Types : depth[r] <= depth[arg] => r \in good
      BY <1>5, <3>1
    <3>3. arg \in Upto(ty)
      BY <3>1
    <3> HIDE DEF Upto
    <3>4. diag[arg] = MapStep(diag, arg)
      BY <1>4, <3>1, <3>2
    <3> QED BY <3>3, <3>4 DEF arg
  <2> HIDE DEF diag, Upto
  <2>2. Solves(g, Upto(ty))
    BY <2>1
  <2> HIDE DEF g, Solves
  <2> QED BY <2>2
<1> HIDE DEF good, diag
<1>6. Types \subseteq good
  BY <1>5, MeasureInduction
<1>7. \A ty \in Types : diag[ty] = MapStep(diag, ty)
  BY <1>4, <1>6
<1>8. diag = [ty \in Types |-> MapStep(diag, ty)]
  BY <1>7 DEF diag
<1> QED BY <1>8

(* The two maps do what their definitions say.                             *)
LEMMA MapEquations ==
  ASSUME TypesAreFinite
  PROVE  /\ map_wire_kind = [ty \in Types |-> WireStep(map_wire_kind, ty)]
         /\ map_type = [ty \in Types |-> IdlStep(map_type, ty)]
<1>1. PICK maps : maps = [ty \in Types |-> MapStep(maps, ty)]
  BY MapsExist
<1> DEFINE wire == [s \in Types |-> maps[s].wire]
           idl  == [s \in Types |-> maps[s].idl]
<1>2. ASSUME NEW ty \in Types
      PROVE  maps[ty].wire = WireStep(wire, ty) /\ maps[ty].idl = IdlStep(idl, ty)
  <2>1. maps[ty] = MapStep(maps, ty)
    BY <1>1
  <2> QED BY <2>1 DEF MapStep
<1>3. wire = [ty \in Types |-> WireStep(wire, ty)] /\ idl = [ty \in Types |-> IdlStep(idl, ty)]
  BY <1>2
<1> HIDE DEF wire, idl
<1>4. map_wire_kind = [ty \in Types |-> WireStep(map_wire_kind, ty)]
  BY <1>3 DEF map_wire_kind, WireStep
<1>5. map_type = [ty \in Types |-> IdlStep(map_type, ty)]
  BY <1>3 DEF map_type, IdlStep
<1> QED
  BY <1>4, <1>5

(***************************************************************************)
(* The types that map_type accepts, and what both maps make of them.       *)
(***************************************************************************)
LEMMA U8IsFixed ==
  ASSUME NEW ty, IsU8(ty)
  PROVE  IsPrimitive(ty) /\ FixedType(ty)
  BY DEF IsU8, Called, IsPrimitive, PrimitiveSize, FixedType

(* Every type is of one sort.                                              *)
LEMMA SortsAreDisjoint ==
  ASSUME NEW ty \in Types
  PROVE  /\ Applied(ty, "Vec") => ~Applied(ty, "Option") /\ ~IsPrimitive(ty) /\ ~IsByteArray(ty)
         /\ Applied(ty, "Option") => ~IsPrimitive(ty) /\ ~IsByteArray(ty)
         /\ IsPrimitive(ty) => ~IsByteArray(ty) /\ ty.t = "path"
         /\ IsByteArray(ty) => ty.t = "array" /\ ty.len \in Nat
         /\ Applied(ty, "Vec") \/ Applied(ty, "Option") => ty.t = "path"
  BY TypesAssumption DEF Applied, Called, IsPrimitive, PrimitiveSize, IsByteArray, NotLiteral

LEMMA MapsOfFixed ==
  ASSUME TypesAreFinite, NEW ty \in Types, FixedType(ty)
  PROVE  /\ map_wire_kind[ty] \in Wire!Fixed
         /\ map_type[ty] = wire_type_name(map_wire_kind[ty])
         /\ map_type[ty] # Refused
         /\ IsPrimitive(ty) => map_type[ty] = Uint(PrimitiveSize[ty.ident])
         /\ IsByteArray(ty) => map_type[ty] = BytesFixed(ty.len)
<1>1. /\ map_wire_kind[ty] = WireStep(map_wire_kind, ty)
      /\ map_type[ty] = IdlStep(map_type, ty)
  BY MapEquations
<1>2. ~Applied(ty, "Vec") /\ ~Applied(ty, "Option")
  BY SortsAreDisjoint DEF FixedType
<1>3. CASE IsPrimitive(ty)
  <2>1. /\ map_wire_kind[ty] = Sized("scalar", PrimitiveSize[ty.ident])
        /\ map_type[ty] = Uint(PrimitiveSize[ty.ident])
        /\ ~IsByteArray(ty)
    BY <1>1, <1>2, <1>3, SortsAreDisjoint DEF WireStep, IdlStep
  <2>2. PrimitiveSize[ty.ident] \in {1, 2, 4, 8, 16}
    BY <1>3 DEF IsPrimitive, PrimitiveSize
  <2> HIDE <1>1
  <2> QED BY <1>3, <2>1, <2>2 DEF Wire!Fixed, Wire!Scalars, Sized, wire_type_name, Uint, Refused
<1>4. CASE ~IsPrimitive(ty)
  <2>1. IsByteArray(ty) /\ ty.len > 0 /\ ty.len \in Nat /\ ~EmptyArray(ty) /\ ty.t # "path"
    BY <1>4, SortsAreDisjoint DEF FixedType, EmptyArray
  <2>2. map_wire_kind[ty] = Sized("array", ty.len) /\ map_type[ty] = BytesFixed(ty.len)
    BY <1>1, <1>2, <1>4, <2>1 DEF WireStep, IdlStep
  <2> QED BY <1>4, <2>1, <2>2 DEF Wire!Fixed, Wire!Arrays, Sized, wire_type_name, BytesFixed, Refused
<1> QED BY <1>3, <1>4

LEMMA MapsOfBytes ==
  ASSUME TypesAreFinite, NEW ty \in Types, BytesType(ty)
  PROVE  map_wire_kind[ty] = Wire!VarBytes /\ map_type[ty] = Bytes
<1>1. /\ map_wire_kind[ty] = WireStep(map_wire_kind, ty)
      /\ map_type[ty] = IdlStep(map_type, ty)
  BY MapEquations
<1>2. ~Applied(ty, "Option") /\ ~IsPrimitive(ty) /\ ~IsByteArray(ty) /\ ty.t = "path"
  BY SortsAreDisjoint DEF BytesType
<1> QED BY <1>1, <1>2 DEF BytesType, WireStep, IdlStep, Wire!VarBytes, Kind

LEMMA MapsOfNamed ==
  ASSUME TypesAreFinite, NEW ty \in Types, NamedType(ty)
  PROVE  map_wire_kind[ty] = Path("struct", ty.ident) /\ map_type[ty] = Struct
<1>1. /\ map_wire_kind[ty] = WireStep(map_wire_kind, ty)
      /\ map_type[ty] = IdlStep(map_type, ty)
  BY MapEquations
<1>2. ~IsByteArray(ty)
  BY SortsAreDisjoint DEF NamedType
<1> QED BY <1>1, <1>2 DEF NamedType, WireStep, IdlStep

(* Vec<T> for a T of fixed size other than u8.                             *)
LEMMA MapsOfList ==
  ASSUME TypesAreFinite, NEW ty \in Types, ListType(ty), ~BytesType(ty)
  PROVE  /\ ty.args[1] \in Types
         /\ map_wire_kind[ty] = Of("vec", map_wire_kind[ty.args[1]])
         /\ map_wire_kind[ty.args[1]] \in Wire!Fixed
         /\ map_type[ty] = VecOf(map_type[ty.args[1]])
<1> DEFINE arg == ty.args[1]
<1>1. /\ map_wire_kind[ty] = WireStep(map_wire_kind, ty)
      /\ map_type[ty] = IdlStep(map_type, ty)
  BY MapEquations
<1>2. /\ Applied(ty, "Vec") /\ ~IsU8(arg) /\ FixedType(arg)
      /\ ~Applied(ty, "Option") /\ ~IsPrimitive(ty) /\ ~IsByteArray(ty) /\ ty.t = "path"
  BY SortsAreDisjoint DEF ListType, BytesType
<1>3. arg \in Types
  BY <1>2, Argument DEF TypesAreFinite
<1>4. map_wire_kind[arg] \in Wire!Fixed /\ map_type[arg] # Refused
  BY <1>2, <1>3, MapsOfFixed
<1>5. map_wire_kind[arg] # NoKind /\ map_wire_kind[arg].k # "struct"
  BY <1>4 DEF Wire!Fixed, Wire!Scalars, Wire!Arrays, NoKind, Kind
<1>6. ~RefusedElement(arg)
  BY <1>2, <1>5 DEF RefusedElement, FixedType, IsPrimitive, PrimitiveSize, Called, IsByteArray
<1> HIDE DEF arg
<1>7. map_wire_kind[ty] = Wrap("vec", map_wire_kind[arg])
  BY <1>1, <1>2 DEF WireStep, arg
<1>8. map_type[ty] = VecOf(map_type[arg])
  BY <1>1, <1>2, <1>4, <1>6 DEF IdlStep, arg
<1> QED BY <1>3, <1>4, <1>5, <1>7, <1>8 DEF Wrap, arg

LEMMA MapsOfOption ==
  ASSUME TypesAreFinite, NEW ty \in Types, Applied(ty, "Option")
  PROVE  /\ ty.args[1] \in Types
         /\ map_wire_kind[ty] = Wrap("opt", map_wire_kind[ty.args[1]])
         /\ map_type[ty] = IF NestedOption(ty) THEN Refused ELSE map_type[ty.args[1]]
<1>1. /\ map_wire_kind[ty] = WireStep(map_wire_kind, ty)
      /\ map_type[ty] = IdlStep(map_type, ty)
  BY MapEquations
<1>2. ~Applied(ty, "Vec") /\ ~IsPrimitive(ty) /\ ~IsByteArray(ty) /\ ty.t = "path"
  BY SortsAreDisjoint
<1>3. ty.args[1] \in Types
  BY Argument DEF TypesAreFinite
<1> QED BY <1>1, <1>2, <1>3 DEF WireStep, IdlStep

(* A type that map_type does not refuse is of one of the sorts above: it   *)
(* never looks deeper than Option<Vec<T>>.                                 *)
LEMMA AcceptedSorts ==
  ASSUME TypesAreFinite, NEW ty \in Types, map_type[ty] # Refused
  PROVE  \/ FixedType(ty) \/ BytesType(ty) \/ ListType(ty) \/ NamedType(ty)
         \/ Applied(ty, "Option")
<1>1. map_type[ty] = IdlStep(map_type, ty)
  BY MapEquations
<1>2. CASE Applied(ty, "Vec") /\ ~IsU8(ty.args[1])
  <2> DEFINE arg == ty.args[1]
  <2>1. ~Applied(ty, "Option") /\ ~IsPrimitive(ty) /\ ~IsByteArray(ty) /\ ty.t = "path"
    BY <1>2, SortsAreDisjoint
  <2>2. ~RefusedElement(arg) /\ map_type[arg] # Refused
    BY <1>1, <1>2, <2>1 DEF IdlStep
  <2>3. arg \in Types
    BY <1>2, Argument DEF TypesAreFinite
  <2>4. ~Called(arg, "Vec") /\ ~Called(arg, "Option") /\ map_wire_kind[arg].k # "struct"
    BY <2>2 DEF RefusedElement
  <2>5. ASSUME NamedType(arg) PROVE FALSE
    <3>1. map_wire_kind[arg] = Path("struct", arg.ident)
      BY <2>3, <2>5, MapsOfNamed
    <3>2. Path("struct", arg.ident).k = "struct"
      BY DEF Path
    <3> QED BY <2>4, <3>1, <3>2
  <2>6. IsPrimitive(arg) \/ arg.t # "path"
    BY <2>4, <2>5 DEF NamedType, Applied
  <2>7. map_type[arg] = IdlStep(map_type, arg)
    BY <2>3, MapEquations
  <2>8. IsPrimitive(arg) \/ IsByteArray(arg)
    BY <2>2, <2>4, <2>6, <2>7 DEF IdlStep, Applied
  <2>9. IsByteArray(arg) => arg.len > 0
    <3>1. IsByteArray(arg) => ~IsPrimitive(arg) /\ arg.len \in Nat /\ arg.t # "path"
      BY <2>3, SortsAreDisjoint
    <3>2. IsByteArray(arg) => ~EmptyArray(arg)
      BY <2>2, <2>4, <2>7, <3>1 DEF IdlStep, Applied
    <3> QED BY <3>1, <3>2 DEF EmptyArray
  <2> QED BY <1>2, <2>8, <2>9 DEF ListType, FixedType
<1>3. CASE IsByteArray(ty)
  <2>1. /\ ~Applied(ty, "Vec") /\ ~Applied(ty, "Option") /\ ~IsPrimitive(ty)
        /\ ty.len \in Nat /\ ty.t # "path"
    BY <1>3, SortsAreDisjoint
  <2>2. ~EmptyArray(ty)
    BY <1>1, <1>3, <2>1 DEF IdlStep
  <2> QED BY <1>3, <2>1, <2>2 DEF FixedType, EmptyArray
<1>4. CASE ty.t # "path" /\ ~IsByteArray(ty)
  <2>1. ~Applied(ty, "Vec") /\ ~Applied(ty, "Option") /\ ~IsPrimitive(ty)
    BY <1>4, SortsAreDisjoint
  <2> QED BY <1>1, <1>4, <2>1 DEF IdlStep
<1> QED BY <1>2, <1>3, <1>4 DEF BytesType, FixedType, NamedType

(***************************************************************************)
(* The checks on a field.                                                  *)
(***************************************************************************)
LEMMA FieldFaults ==
  ASSUME NEW field
  PROVE  LET attrs == parse_field_attrs(field.attrs)
             idl   == map_type[field.type]
             kind  == KindOf(field)
         IN  /\ Faults(FieldChecks(field)) = {} <=>
                  /\ field.name \in IdlIdentifiers
                  /\ attrs.ok
                  /\ idl # Refused
                  /\ kind # NoKind
                  /\ ~(attrs.union /\ kind.k # "union")
                  /\ ~(attrs.union /\ attrs.label # NoLabel)
                  /\ ~(attrs.label # NoLabel /\ ~validate_semantic_type(attrs.label, idl))
                  /\ ~(kind.k = "opt" /\ attrs.required)
                  /\ ~(kind.k # "opt" /\ ~attrs.required)
                  /\ ~OptionalOf(kind, "struct")
                  /\ ~OptionalOf(kind, "vec")
             /\ /\ Faults(FieldChecks(field)) # {}
                /\ FirstFault(FieldChecks(field)) = "expect"
                => idl # Refused /\ kind = NoKind
<1> DEFINE checks == FieldChecks(field)
           attrs == parse_field_attrs(field.attrs)
           idl   == map_type[field.type]
           kind  == KindOf(field)
<1>1. DOMAIN checks = 1 .. 11
  BY DEF FieldChecks
<1>2. /\ checks[1].fault = (field.name \notin IdlIdentifiers)
      /\ checks[2].fault = ~attrs.ok
      /\ checks[3].fault = (idl = Refused)
      /\ checks[4].fault = (kind = NoKind)
      /\ checks[5].fault = (attrs.union /\ kind.k # "union")
      /\ checks[6].fault = (attrs.union /\ attrs.label # NoLabel)
      /\ checks[7].fault = (attrs.label # NoLabel /\ ~validate_semantic_type(attrs.label, idl))
      /\ checks[8].fault = (kind.k = "opt" /\ attrs.required)
      /\ checks[9].fault = (kind.k # "opt" /\ ~attrs.required)
      /\ checks[10].fault = OptionalOf(kind, "struct")
      /\ checks[11].fault = OptionalOf(kind, "vec")
  BY DEF FieldChecks, Check
<1>3. \A i \in 1 .. 11 : checks[i].why = "expect" => i = 4
  BY DEF FieldChecks, Check
<1> HIDE DEF checks
<1>4. Faults(checks) = {i \in 1 .. 11 : checks[i].fault}
  BY <1>1 DEF Faults
<1>5. Faults(checks) = {} <=> \A i \in 1 .. 11 : ~checks[i].fault
  BY <1>4
<1>6. (\A i \in 1 .. 11 : ~checks[i].fault) <=>
        /\ ~checks[1].fault /\ ~checks[2].fault /\ ~checks[3].fault /\ ~checks[4].fault
        /\ ~checks[5].fault /\ ~checks[6].fault /\ ~checks[7].fault /\ ~checks[8].fault
        /\ ~checks[9].fault /\ ~checks[10].fault /\ ~checks[11].fault
  <2>1. 1 .. 11 = {1, 2, 3, 4, 5, 6, 7, 8, 9, 10, 11}
    OBVIOUS
  <2> QED BY <2>1
<1>7. ASSUME Faults(checks) # {}, FirstFault(checks) = "expect"
      PROVE  idl # Refused /\ kind = NoKind
  <2> DEFINE first == CHOOSE i \in Faults(checks) : \A j \in Faults(checks) : i <= j
  <2>1. \E i \in Faults(checks) : \A j \in Faults(checks) : i <= j
    <3>1. Faults(checks) \subseteq Nat
      BY <1>4
    <3> QED BY <1>7, <3>1, Smallest
  <2>2. first \in Faults(checks) /\ \A j \in Faults(checks) : first <= j
    BY <2>1
  <2>3. checks[first].why = "expect"
    BY <1>7 DEF FirstFault
  <2> HIDE DEF first
  <2>4. first = 4
    BY <1>3, <1>4, <2>2, <2>3
  <2>5. 4 \in Faults(checks) /\ 3 \notin Faults(checks)
    BY <2>2, <2>4
  <2>6. checks[4].fault /\ ~checks[3].fault
    BY <1>4, <2>5
  <2> QED BY <1>2, <2>6
<1> HIDE DEF attrs, idl, kind
<1>8. Faults(checks) = {} <=>
        /\ field.name \in IdlIdentifiers
        /\ attrs.ok
        /\ idl # Refused
        /\ kind # NoKind
        /\ ~(attrs.union /\ kind.k # "union")
        /\ ~(attrs.union /\ attrs.label # NoLabel)
        /\ ~(attrs.label # NoLabel /\ ~validate_semantic_type(attrs.label, idl))
        /\ ~(kind.k = "opt" /\ attrs.required)
        /\ ~(kind.k # "opt" /\ ~attrs.required)
        /\ ~OptionalOf(kind, "struct")
        /\ ~OptionalOf(kind, "vec")
  BY <1>2, <1>5, <1>6
<1> QED BY <1>7, <1>8 DEF checks, attrs, idl, kind

(* The kind of a field whose type map_type accepts: one the decoder has a  *)
(* statement for, unless it is one of the two that are refused by name.    *)
LEMMA KindsOfAccepted ==
  ASSUME TypesAreFinite, NEW ty \in Types, map_type[ty] # Refused
  PROVE  /\ map_wire_kind[ty] # NoKind
         /\ \/ map_wire_kind[ty] \in Wire!Kinds
            \/ OptionalOf(map_wire_kind[ty], "struct")
            \/ OptionalOf(map_wire_kind[ty], "vec")
<1> DEFINE Told(t) == \/ map_wire_kind[t] \in Wire!Fixed \cup {Wire!VarBytes} \cup Wire!Vectors
                      \/ NamedType(t) /\ map_wire_kind[t] = Path("struct", t.ident)
<1>1. ASSUME NEW t \in Types, map_type[t] # Refused, ~Applied(t, "Option")
      PROVE  Told(t)
  <2>1. FixedType(t) \/ BytesType(t) \/ ListType(t) \/ NamedType(t)
    BY <1>1, AcceptedSorts
  <2>2. CASE FixedType(t)
    BY <1>1, <2>2, MapsOfFixed
  <2>3. CASE BytesType(t)
    BY <1>1, <2>3, MapsOfBytes
  <2>4. CASE ListType(t) /\ ~BytesType(t)
    <3>1. /\ map_wire_kind[t] = Of("vec", map_wire_kind[t.args[1]])
          /\ map_wire_kind[t.args[1]] \in Wire!Fixed
      BY <1>1, <2>4, MapsOfList
    <3>2. map_wire_kind[t] \in Wire!Vectors
      BY ONLY <3>1 DEF Wire!Vectors, Of
    <3> QED BY <3>2
  <2>5. CASE NamedType(t)
    BY <1>1, <2>5, MapsOfNamed
  <2> QED BY <2>1, <2>2, <2>3, <2>4, <2>5
<1>2. ASSUME NEW t \in Types, Told(t)
      PROVE  map_wire_kind[t] \in Wire!Kinds /\ map_wire_kind[t] # NoKind
  <2>1. CASE NamedType(t) /\ map_wire_kind[t] = Path("struct", t.ident)
    <3>1. t.ident \in NamedTypes
      BY <1>2, <2>1 DEF NamedTypes
    <3> QED BY <2>1, <3>1 DEF Path, Wire!Kinds, Wire!Nested, NoKind, Kind
  <2>2. CASE map_wire_kind[t] \in Wire!Fixed \cup {Wire!VarBytes} \cup Wire!Vectors
    BY <2>2 DEF Wire!Kinds, Wire!Fixed, Wire!Scalars, Wire!Arrays, Wire!VarBytes,
       Wire!Vectors, NoKind, Kind
  <2> QED BY <1>2, <2>1, <2>2
<1>3. CASE ~Applied(ty, "Option")
  <2>1. Told(ty)
    BY <1>1, <1>3
  <2> HIDE DEF Told
  <2> QED BY <1>2, <2>1
<1>4. CASE Applied(ty, "Option")
  <2> DEFINE arg == ty.args[1]
  <2>1. /\ arg \in Types /\ map_type[arg] # Refused /\ ~Called(arg, "Option")
        /\ map_wire_kind[ty] = Wrap("opt", map_wire_kind[arg])
    BY <1>4, MapsOfOption DEF NestedOption
  <2> HIDE DEF arg
  <2>2. Told(arg) /\ map_wire_kind[arg] # NoKind
    <3>1. Told(arg)
      BY <1>1, <2>1 DEF Applied
    <3> HIDE DEF Told
    <3> QED BY <1>2, <2>1, <3>1
  <2>3. map_wire_kind[ty] = Of("opt", map_wire_kind[arg])
    BY <2>1, <2>2 DEF Wrap
  <2>4. CASE map_wire_kind[arg] \in Wire!Fixed \cup {Wire!VarBytes}
    BY <2>3, <2>4 DEF Of, Wire!Kinds, Wire!Optionals, NoKind, Kind
  <2>5. CASE map_wire_kind[arg] \in Wire!Vectors
    BY <2>3, <2>5 DEF Of, Wire!Vectors, OptionalOf, NoKind, Kind
  <2>6. CASE map_wire_kind[arg] = Path("struct", arg.ident)
    BY <2>3, <2>6 DEF Of, Path, OptionalOf, NoKind, Kind
  <2> QED BY <2>2, <2>4, <2>5, <2>6
<1> QED BY <1>3, <1>4

(* #[witness(union)] keeps a kind a kind.                                  *)
LEMMA KindOfField ==
  ASSUME TypesAreFinite, NEW field, field.type \in Types, map_type[field.type] # Refused
  PROVE  /\ KindOf(field) # NoKind
         /\ ~OptionalOf(KindOf(field), "struct") /\ ~OptionalOf(KindOf(field), "vec")
              => KindOf(field) \in Wire!Kinds
<1> DEFINE kind == map_wire_kind[field.type]
<1>1. /\ kind # NoKind
      /\ kind \in Wire!Kinds \/ OptionalOf(kind, "struct") \/ OptionalOf(kind, "vec")
  BY KindsOfAccepted
<1>2. CASE KindOf(field) = kind
  BY <1>1, <1>2
<1>3. CASE kind.k = "struct" /\ KindOf(field) = Path("union", kind.path)
  <2>1. kind.path \in NamedTypes
    BY <1>1, <1>3 DEF OptionalOf, Wire!Kinds, Wire!Fixed, Wire!Scalars, Wire!Arrays,
       Wire!VarBytes, Wire!Optionals, Wire!Vectors, Wire!Nested, Wire!Tagged
  <2> QED BY <1>3, <2>1 DEF Path, Wire!Kinds, Wire!Tagged, NoKind, Kind
<1> QED BY <1>2, <1>3 DEF KindOf

(* What a field of an accepted type may be, and what the wire kind tells.  *)
LEMMA SortOfField ==
  ASSUME TypesAreFinite, NEW ty \in Types, map_type[ty] # Refused
  PROVE  LET bare == ty.args[1]
             kind == map_wire_kind[ty]
         IN  /\ IF Applied(ty, "Option")
                THEN /\ FixedType(bare) \/ ListType(bare) \/ NamedType(bare)
                     /\ bare \in Types /\ map_type[bare] = map_type[ty]
                ELSE FixedType(ty) \/ ListType(ty) \/ NamedType(ty)
             /\ kind.k = "opt" <=> Applied(ty, "Option")
             /\ kind.k = "struct" <=> NamedType(ty)
             /\ kind.k # "union"
             /\ OptionalOf(kind, "struct") <=> Applied(ty, "Option") /\ NamedType(bare)
             /\ OptionalOf(kind, "vec") <=>
                  Applied(ty, "Option") /\ ListType(bare) /\ ~BytesType(bare)
<1> DEFINE Sorted(t) == FixedType(t) \/ ListType(t) \/ NamedType(t)
           k(t)      == map_wire_kind[t].k
<1>1. ASSUME NEW t \in Types, Sorted(t)
      PROVE  /\ k(t) # "opt" /\ k(t) # "union"
             /\ k(t) = "struct" <=> NamedType(t)
             /\ k(t) = "vec" <=> ListType(t) /\ ~BytesType(t)
  <2>1. CASE FixedType(t)
    <3>1. k(t) \in {"scalar", "array"}
      BY <2>1, MapsOfFixed DEF Wire!Fixed, Wire!Scalars, Wire!Arrays
    <3>2. ~NamedType(t) /\ ~ListType(t)
      BY <2>1, SortsAreDisjoint DEF FixedType, NamedType, ListType
    <3> QED BY <3>1, <3>2
  <2>2. CASE BytesType(t)
    <3>1. k(t) = "bytes"
      BY <2>2, MapsOfBytes DEF Wire!VarBytes
    <3> QED BY <2>2, <3>1 DEF NamedType, BytesType
  <2>3. CASE ListType(t) /\ ~BytesType(t)
    <3>1. map_wire_kind[t] = Of("vec", map_wire_kind[t.args[1]])
      BY <2>3, MapsOfList
    <3>2. k(t) = "vec"
      BY <3>1 DEF Of
    <3> QED BY <2>3, <3>2 DEF NamedType, ListType
  <2>4. CASE NamedType(t)
    <3>1. map_wire_kind[t] = Path("struct", t.ident)
      BY <2>4, MapsOfNamed
    <3>2. k(t) = "struct"
      BY <3>1 DEF Path
    <3> QED BY <2>4, <3>2 DEF NamedType, ListType
  <2> QED BY <1>1, <2>1, <2>2, <2>3, <2>4
<1>2. CASE ~Applied(ty, "Option")
  <2>1. Sorted(ty)
    BY <1>2, AcceptedSorts, U8IsFixed DEF BytesType, ListType
  <2> QED BY <1>1, <1>2, <2>1 DEF OptionalOf
<1>3. CASE Applied(ty, "Option")
  <2> DEFINE bare == ty.args[1]
  <2>1. /\ bare \in Types /\ ~Called(bare, "Option") /\ map_type[bare] = map_type[ty]
        /\ map_wire_kind[ty] = Wrap("opt", map_wire_kind[bare])
    BY <1>3, MapsOfOption DEF NestedOption
  <2>2. Sorted(bare)
    <3> HIDE DEF bare
    <3> QED BY <2>1, AcceptedSorts, U8IsFixed DEF BytesType, ListType, Applied
  <2>3. map_wire_kind[ty] = Of("opt", map_wire_kind[bare])
    <3>1. map_wire_kind[bare] # NoKind
      BY <2>1, KindsOfAccepted
    <3> QED BY <2>1, <3>1 DEF Wrap
  <2>4. map_wire_kind[ty].k = "opt" /\ map_wire_kind[ty].of = map_wire_kind[bare]
    BY <2>3 DEF Of
  <2>5. ~NamedType(ty)
    BY <1>3 DEF NamedType
  <2> HIDE DEF bare
  <2> QED BY <1>1, <1>3, <2>1, <2>2, <2>4, <2>5 DEF OptionalOf, bare
<1> QED BY <1>2, <1>3

(* And the other way round: map_type refuses none of these.                *)
LEMMA SortsAreAccepted ==
  ASSUME TypesAreFinite, NEW ty \in Types,
         \/ FixedType(ty) \/ ListType(ty) \/ NamedType(ty)
         \/ Applied(ty, "Option") /\ (FixedType(ty.args[1]) \/ ListType(ty.args[1]))
  PROVE  map_type[ty] # Refused
<1>1. ASSUME NEW t \in Types, FixedType(t) \/ ListType(t)
      PROVE  map_type[t] # Refused
  <2>1. CASE FixedType(t)
    BY <2>1, MapsOfFixed
  <2>2. CASE BytesType(t)
    BY <2>2, MapsOfBytes DEF Bytes, Refused
  <2>3. CASE ListType(t) /\ ~BytesType(t)
    <3>1. map_type[t] = VecOf(map_type[t.args[1]])
      BY <2>3, MapsOfList
    <3> QED BY <3>1 DEF VecOf, Refused
  <2> QED BY <1>1, <2>1, <2>2, <2>3
<1>2. CASE NamedType(ty)
  BY <1>2, MapsOfNamed DEF Struct, Refused
<1>3. CASE Applied(ty, "Option") /\ (FixedType(ty.args[1]) \/ ListType(ty.args[1]))
  <2>1. ty.args[1] \in Types
    BY <1>3, MapsOfOption
  <2>2. ~NestedOption(ty)
    BY <1>3 DEF NestedOption, FixedType, ListType, IsPrimitive, PrimitiveSize, IsByteArray,
       Applied, Called
  <2> QED BY <1>1, <1>3, <2>1, <2>2, MapsOfOption
<1> QED BY <1>1, <1>2, <1>3

(* A name of the IDL is that of a byte array for a byte array only.        *)
LEMMA ByteArraysInIdl ==
  ASSUME TypesAreFinite, NEW ty \in Types, FixedType(ty) \/ ListType(ty) \/ NamedType(ty),
         NEW n
  PROVE  map_type[ty] = BytesFixed(n) <=> IsByteArray(ty) /\ ty.len = n
<1>1. CASE FixedType(ty)
  <2>1. CASE IsPrimitive(ty)
    <3>1. map_type[ty] = Uint(PrimitiveSize[ty.ident]) /\ ~IsByteArray(ty)
      BY <1>1, <2>1, MapsOfFixed, SortsAreDisjoint
    <3> QED BY <3>1 DEF Uint, BytesFixed
  <2>2. CASE IsByteArray(ty)
    <3>1. map_type[ty] = BytesFixed(ty.len)
      BY <1>1, <2>2, MapsOfFixed
    <3>2. \A m : BytesFixed(m).n = m
      BY DEF BytesFixed
    <3> QED BY <2>2, <3>1, <3>2
  <2> QED BY <1>1, <2>1, <2>2 DEF FixedType
<1>2. CASE BytesType(ty)
  BY <1>2, MapsOfBytes, SortsAreDisjoint DEF Bytes, BytesFixed, BytesType
<1>3. CASE ListType(ty) /\ ~BytesType(ty)
  <2>1. map_type[ty] = VecOf(map_type[ty.args[1]])
    BY <1>3, MapsOfList
  <2>2. ~IsByteArray(ty)
    BY <1>3, SortsAreDisjoint DEF ListType
  <2> QED BY <2>1, <2>2 DEF VecOf, BytesFixed
<1>4. CASE NamedType(ty)
  <2>1. ~IsByteArray(ty)
    BY <1>4, SortsAreDisjoint DEF NamedType
  <2> QED BY <1>4, <2>1, MapsOfNamed DEF Struct, BytesFixed
<1> QED BY <1>1, <1>2, <1>3, <1>4

(***************************************************************************)
(* The attributes of a field.                                              *)
(***************************************************************************)
ItemType  == [key : STRING, value : STRING \ {NoLabel}]
ItemSeqs  == Seq(ItemType)
AttrsType == [ok : BOOLEAN, required : BOOLEAN, union : BOOLEAN,
              description : BOOLEAN, label : STRING \cup {NoLabel}]

(* g is what the loop of parse_field_attrs has read after so many items.   *)
Reads(g, items) ==
  g = [n \in 0 .. Len(items) |->
        IF n = 0 THEN DefaultAttrs ELSE ReadItem(g[n - 1], items[n])]

(* The loop ends: such a function exists.                                  *)
LEMMA ReadingExists ==
  ASSUME NEW items \in ItemSeqs
  PROVE  \E g : Reads(g, items)
<1> DEFINE L == Len(items)
           Upto(g, n) == g = [k \in 0 .. n |->
             IF k = 0 THEN DefaultAttrs ELSE ReadItem(g[k - 1], items[k])]
           Read == {n \in Nat : \E g : Upto(g, n)}
<1>0. L \in Nat
  BY DEF ItemSeqs
<1>1. 0 \in Read
  <2> DEFINE g == [k \in 0 .. 0 |-> DefaultAttrs]
  <2>1. Upto(g, 0)
    OBVIOUS
  <2> HIDE DEF g, Upto
  <2> QED BY <2>1
<1>2. ASSUME NEW n \in 0 .. L - 1, n \in Read PROVE n + 1 \in Read
  <2>1. PICK g : Upto(g, n)
    BY <1>2
  <2> DEFINE h == [k \in 0 .. n + 1 |->
                     IF k = n + 1 THEN ReadItem(g[n], items[n + 1]) ELSE g[k]]
  <2>2. \A k \in 0 .. n + 1 :
          h[k] = IF k = 0 THEN DefaultAttrs ELSE ReadItem(h[k - 1], items[k])
    <3> SUFFICES ASSUME NEW k \in 0 .. n + 1
                 PROVE  h[k] = IF k = 0 THEN DefaultAttrs ELSE ReadItem(h[k - 1], items[k])
      OBVIOUS
    <3>1. n \in Nat
      BY <1>0, <1>2
    <3>2. CASE k = n + 1
      BY <3>1, <3>2
    <3>3. CASE k \in 0 .. n
      <4>1. g[k] = IF k = 0 THEN DefaultAttrs ELSE ReadItem(g[k - 1], items[k])
        BY <2>1, <3>3
      <4> QED BY <3>1, <3>3, <4>1
    <3> QED BY <3>1, <3>2, <3>3
  <2>3. Upto(h, n + 1)
    BY <2>2
  <2> HIDE DEF h, Upto
  <2>4. n + 1 \in Nat
    BY <1>0, <1>2
  <2> QED BY <2>3, <2>4
<1>3. L \in Read
  <2> HIDE DEF Read, L
  <2>1. 0 .. L \subseteq Read
    BY <1>0, <1>1, <1>2, Induction
  <2> QED BY <1>0, <2>1
<1> QED BY <1>3 DEF Reads

LEMMA ParsedIsRead ==
  ASSUME NEW items \in ItemSeqs
  PROVE  \E g : Reads(g, items) /\ parse_field_attrs(items) = g[Len(items)]
<1>1. PICK g : Reads(g, items)
  BY ReadingExists
<1>2. PICK h : /\ h = [n \in 0 .. Len(items) |->
                   IF n = 0 THEN DefaultAttrs ELSE ReadItem(h[n - 1], items[n])]
               /\ parse_field_attrs(items) = h[Len(items)]
  BY <1>1 DEF Reads, parse_field_attrs
<1> QED BY <1>2 DEF Reads

(* The last of the first n items with that key.                            *)
LastOf(items, n, key, i) ==
  /\ i \in 1 .. n /\ items[i].key = key
  /\ \A j \in 1 .. n : items[j].key = key => j <= i

(* What the first n items say.                                             *)
Said(attrs, items, n) ==
  /\ attrs \in AttrsType
  /\ attrs.ok <=> \A i \in 1 .. n : ~Malformed(items[i])
  /\ attrs.ok =>
       /\ attrs.union <=> \E i \in 1 .. n : items[i].key = "union"
       /\ (\A i \in 1 .. n : items[i].key # "required") => attrs.required
       /\ \A i \in 1 .. n : LastOf(items, n, "required", i) =>
            (attrs.required <=> items[i].value = "true")
       /\ (\A i \in 1 .. n : items[i].key # "type") => attrs.label = NoLabel
       /\ \A i \in 1 .. n : LastOf(items, n, "type", i) => attrs.label = items[i].value

LEMMA LastStep ==
  ASSUME NEW items, NEW n \in Nat, NEW key, NEW i, LastOf(items, n + 1, key, i)
  PROVE  IF items[n + 1].key = key THEN i = n + 1
         ELSE i \in 1 .. n /\ LastOf(items, n, key, i)
  BY DEF LastOf

LEMMA ReadItemSays ==
  ASSUME NEW items \in ItemSeqs, NEW n \in 0 .. Len(items) - 1,
         NEW attrs, Said(attrs, items, n)
  PROVE  Said(ReadItem(attrs, items[n + 1]), items, n + 1)
<1> DEFINE item == items[n + 1]
           next == ReadItem(attrs, item)
<1>0. n \in Nat /\ n + 1 \in 1 .. Len(items) /\ item \in ItemType
  BY DEF ItemSeqs
<1>1. /\ \A i \in 1 .. n + 1 : i = n + 1 \/ i \in 1 .. n
      /\ \A i \in 1 .. n : i \in 1 .. n + 1
      /\ n + 1 \in 1 .. n + 1
  BY <1>0
<1>2. attrs \in AttrsType
  BY DEF Said
<1>3. CASE ~attrs.ok \/ Malformed(item)
  <2>1. next = [attrs EXCEPT !.ok = FALSE]
    BY <1>3 DEF ReadItem
  <2>2. /\ next \in AttrsType
        /\ ~next.ok
    BY <1>2, <2>1 DEF AttrsType
  <2>3. ~(\A i \in 1 .. n + 1 : ~Malformed(items[i]))
    BY <1>1, <1>3 DEF Said
  <2> HIDE DEF next
  <2> QED BY <2>2, <2>3 DEF Said, next, item
<1>4. CASE attrs.ok /\ ~Malformed(item)
  <2>1. next = [attrs EXCEPT
          !.union       = @ \/ item.key = "union",
          !.required    = IF item.key = "required" THEN item.value = "true" ELSE @,
          !.description = @ \/ item.key = "description",
          !.label       = IF item.key = "type" THEN item.value ELSE @]
    BY <1>4 DEF ReadItem
  <2>2. next \in AttrsType
    BY <1>0, <1>2, <2>1 DEF AttrsType, ItemType
  <2>3. /\ next.ok
        /\ next.union <=> attrs.union \/ item.key = "union"
        /\ next.required <=> IF item.key = "required" THEN item.value = "true"
                             ELSE attrs.required
        /\ next.label = IF item.key = "type" THEN item.value ELSE attrs.label
    BY <1>2, <1>4, <2>1 DEF AttrsType
  <2> HIDE DEF next, item
  <2>4. \A i \in 1 .. n + 1 : ~Malformed(items[i])
    BY <1>1, <1>4 DEF Said, item
  <2>5. next.union <=> \E i \in 1 .. n + 1 : items[i].key = "union"
    BY <1>1, <1>4, <2>3 DEF Said, item
  <2>6. /\ (\A i \in 1 .. n + 1 : items[i].key # "required") => next.required
        /\ (\A i \in 1 .. n + 1 : items[i].key # "type") => next.label = NoLabel
    BY <1>1, <1>4, <2>3 DEF Said, item
  <2>7. ASSUME NEW i \in 1 .. n + 1, LastOf(items, n + 1, "required", i)
        PROVE  next.required <=> items[i].value = "true"
    BY <1>0, <1>1, <1>4, <2>3, <2>7, LastStep DEF Said, item
  <2>8. ASSUME NEW i \in 1 .. n + 1, LastOf(items, n + 1, "type", i)
        PROVE  next.label = items[i].value
    BY <1>0, <1>1, <1>4, <2>3, <2>8, LastStep DEF Said, item
  <2> QED BY <2>2, <2>3, <2>4, <2>5, <2>6, <2>7, <2>8 DEF Said, next, item
<1> QED BY <1>3, <1>4

LEMMA ParsedSays ==
  ASSUME NEW items \in ItemSeqs
  PROVE  Said(parse_field_attrs(items), items, Len(items))
<1>0. Len(items) \in Nat
  BY DEF ItemSeqs
<1>1. PICK g : Reads(g, items) /\ parse_field_attrs(items) = g[Len(items)]
  BY ParsedIsRead
<1> DEFINE Good == {n \in 0 .. Len(items) : Said(g[n], items, n)}
<1>2. 0 \in Good
  <2>1. g[0] = DefaultAttrs
    BY <1>0, <1>1 DEF Reads
  <2>2. Said(DefaultAttrs, items, 0)
    <3>1. DefaultAttrs \in AttrsType
      BY DEF DefaultAttrs, AttrsType
    <3>2. /\ DefaultAttrs.ok /\ DefaultAttrs.required /\ ~DefaultAttrs.union
          /\ DefaultAttrs.label = NoLabel
      BY DEF DefaultAttrs
    <3>3. 1 .. 0 = {}
      OBVIOUS
    <3> QED BY <3>1, <3>2, <3>3 DEF Said
  <2> QED BY <1>0, <2>1, <2>2
<1>3. ASSUME NEW n \in 0 .. Len(items) - 1, n \in Good PROVE n + 1 \in Good
  <2>1. g[n + 1] = ReadItem(g[n], items[n + 1])
    BY <1>0, <1>1 DEF Reads
  <2>2. n + 1 \in 0 .. Len(items)
    BY <1>0
  <2> QED BY <1>3, <2>1, <2>2, ReadItemSays
<1> HIDE DEF Good
<1>4. 0 .. Len(items) \subseteq Good
  BY <1>0, <1>2, <1>3, Induction
<1> QED BY <1>0, <1>1, <1>4 DEF Good

(* In the terms of the grammar.                                            *)
LEMMA ParsedAttrs ==
  ASSUME NEW field, field.attrs \in ItemSeqs
  PROVE  LET attrs == parse_field_attrs(field.attrs)
         IN  /\ attrs \in AttrsType
             /\ attrs.ok <=> \A i \in DOMAIN field.attrs : ~Malformed(field.attrs[i])
             /\ attrs.ok =>
                  /\ attrs.union <=> IsUnion(field)
                  /\ ~attrs.required <=> MayBeAbsent(field)
                  /\ attrs.label # NoLabel <=> Labelled(field)
                  /\ Labelled(field) => attrs.label = Last(field, "type")
<1> DEFINE items == field.attrs
           attrs == parse_field_attrs(items)
<1>1. /\ Len(items) \in Nat /\ DOMAIN items = 1 .. Len(items)
      /\ \A i \in DOMAIN items : items[i] \in ItemType
  BY DEF ItemSeqs
<1>2. Said(attrs, items, Len(items))
  BY ParsedSays
<1>3. ASSUME NEW key, Items(field, key) # {}
      PROVE  \E i \in DOMAIN items :
               LastOf(items, Len(items), key, i) /\ Last(field, key) = items[i].value
  <2> DEFINE last == CHOOSE i \in Items(field, key) : \A j \in Items(field, key) : j <= i
  <2>1. Items(field, key) \subseteq 1 .. Len(items)
    BY <1>1 DEF Items
  <2>2. last \in Items(field, key) /\ \A j \in Items(field, key) : j <= last
    BY <1>1, <1>3, <2>1, Largest
  <2>3. Last(field, key) = items[last].value
    BY DEF Last
  <2> HIDE DEF last
  <2> QED BY <1>1, <2>2, <2>3 DEF Items, LastOf
<1> HIDE DEF items, attrs
<1>4. \A key : Items(field, key) # {} <=> \E i \in DOMAIN items : items[i].key = key
  BY DEF Items, items
<1>5. ASSUME attrs.ok
      PROVE  /\ attrs.union <=> IsUnion(field)
             /\ ~attrs.required <=> MayBeAbsent(field)
             /\ attrs.label # NoLabel <=> Labelled(field)
             /\ Labelled(field) => attrs.label = Last(field, "type")
  <2>1. attrs.union <=> IsUnion(field)
    BY <1>1, <1>2, <1>4, <1>5 DEF Said, IsUnion
  <2>2. ~attrs.required <=> MayBeAbsent(field)
    <3>1. CASE Items(field, "required") = {}
      <4>1. attrs.required
        BY <1>1, <1>2, <1>4, <1>5, <3>1 DEF Said
      <4> QED BY <3>1, <4>1 DEF MayBeAbsent
    <3>2. CASE Items(field, "required") # {}
      <4>1. PICK i \in DOMAIN items : /\ LastOf(items, Len(items), "required", i)
                                      /\ Last(field, "required") = items[i].value
        BY <1>3, <3>2 DEF items
      <4>2. attrs.required <=> items[i].value = "true"
        BY <1>1, <1>2, <1>5, <4>1 DEF Said
      <4>3. items[i].value \in {"true", "false"}
        BY <1>1, <1>2, <1>5, <4>1 DEF Said, Malformed, LastOf
      <4> QED BY <3>2, <4>1, <4>2, <4>3 DEF MayBeAbsent
    <3> QED BY <3>1, <3>2
  <2>3. IF Labelled(field) THEN attrs.label = Last(field, "type") /\ attrs.label # NoLabel
        ELSE attrs.label = NoLabel
    <3>1. CASE Items(field, "type") = {}
      <4>1. attrs.label = NoLabel
        BY <1>1, <1>2, <1>4, <1>5, <3>1 DEF Said
      <4> QED BY <3>1, <4>1 DEF Labelled
    <3>2. CASE Items(field, "type") # {}
      <4>1. PICK i \in DOMAIN items : /\ LastOf(items, Len(items), "type", i)
                                      /\ Last(field, "type") = items[i].value
        BY <1>3, <3>2 DEF items
      <4>2. attrs.label = items[i].value
        BY <1>1, <1>2, <1>5, <4>1 DEF Said
      <4>3. items[i].value # NoLabel
        BY <1>1 DEF ItemType
      <4> QED BY <3>2, <4>1, <4>2, <4>3 DEF Labelled
    <3> QED BY <3>1, <3>2
  <2> QED BY <2>1, <2>2, <2>3
<1> QED BY <1>1, <1>2, <1>5 DEF Said, items, attrs

(* The label is looked up in the IDL name; the grammar looks at the type.  *)
LEMMA LabelsAgree ==
  ASSUME TypesAreFinite, NEW ty \in Types, map_type[ty] # Refused, NEW label
  PROVE  validate_semantic_type(label, map_type[ty]) <=>
           Labels(label, IF Applied(ty, "Option") THEN ty.args[1] ELSE ty)
<1> DEFINE bare == IF Applied(ty, "Option") THEN ty.args[1] ELSE ty
<1>1. /\ bare \in Types /\ map_type[bare] = map_type[ty]
      /\ FixedType(bare) \/ ListType(bare) \/ NamedType(bare)
  BY SortOfField
<1> HIDE DEF bare
<1>2. \A n : map_type[bare] = BytesFixed(n) <=> IsByteArray(bare) /\ bare.len = n
  BY <1>1, ByteArraysInIdl
<1>3. CASE label \in DOMAIN ReservedLabels
  <2>1. label \notin CustomLabels
    BY <1>3, LabelsAssumption
  <2> QED BY <1>1, <1>2, <1>3, <2>1 DEF validate_semantic_type, Labels, bare
<1>4. CASE label \notin DOMAIN ReservedLabels
  BY <1>4 DEF validate_semantic_type, Labels
<1> QED BY <1>3, <1>4

LEMMA KindUnderUnion ==
  ASSUME NEW field, map_wire_kind[field.type].k # "union"
  PROVE  LET kind == map_wire_kind[field.type]
             union == parse_field_attrs(field.attrs).union
         IN  /\ union => (KindOf(field).k = "union" <=> kind.k = "struct")
             /\ KindOf(field).k = "opt" <=> kind.k = "opt"
             /\ OptionalOf(KindOf(field), "struct") <=> OptionalOf(kind, "struct")
             /\ OptionalOf(KindOf(field), "vec") <=> OptionalOf(kind, "vec")
<1> DEFINE kind == map_wire_kind[field.type]
           union == parse_field_attrs(field.attrs).union
<1> HIDE DEF kind, union
<1>1. CASE union /\ kind.k = "struct"
  <2>1. KindOf(field) = Path("union", kind.path)
    BY <1>1 DEF KindOf, kind, union
  <2>2. KindOf(field).k = "union"
    BY <2>1 DEF Path
  <2> QED BY <1>1, <2>2 DEF OptionalOf, kind, union
<1>2. CASE ~(union /\ kind.k = "struct")
  <2>1. KindOf(field) = kind
    BY <1>2 DEF KindOf, kind, union
  <2> QED BY <1>2, <2>1 DEF kind, union
<1> QED BY <1>1, <1>2

(* The checks on one field, in their order, decide the grammar.            *)
LEMMA FieldIsDecided ==
  ASSUME TypesAreFinite, NEW field, field.type \in Types, field.attrs \in ItemSeqs
  PROVE  Faults(FieldChecks(field)) = {} <=> InGrammar(field)
<1> DEFINE ty    == field.type
           bare  == IF Applied(ty, "Option") THEN ty.args[1] ELSE ty
           attrs == parse_field_attrs(field.attrs)
           idl   == map_type[ty]
           kind  == map_wire_kind[ty]
<1>1. Faults(FieldChecks(field)) = {} <=>
        /\ field.name \in IdlIdentifiers
        /\ attrs.ok
        /\ idl # Refused
        /\ KindOf(field) # NoKind
        /\ ~(attrs.union /\ KindOf(field).k # "union")
        /\ ~(attrs.union /\ attrs.label # NoLabel)
        /\ ~(attrs.label # NoLabel /\ ~validate_semantic_type(attrs.label, idl))
        /\ ~(KindOf(field).k = "opt" /\ attrs.required)
        /\ ~(KindOf(field).k # "opt" /\ ~attrs.required)
        /\ ~OptionalOf(KindOf(field), "struct")
        /\ ~OptionalOf(KindOf(field), "vec")
  BY FieldFaults
<1>2. /\ attrs.ok <=> \A i \in DOMAIN field.attrs : ~Malformed(field.attrs[i])
      /\ attrs.ok =>
           /\ attrs.union <=> IsUnion(field)
           /\ ~attrs.required <=> MayBeAbsent(field)
           /\ attrs.label # NoLabel <=> Labelled(field)
           /\ Labelled(field) => attrs.label = Last(field, "type")
  BY ParsedAttrs
<1>3. ASSUME idl # Refused
      PROVE  /\ KindOf(field) # NoKind
             /\ attrs.union => (KindOf(field).k = "union" <=> NamedType(ty))
             /\ KindOf(field).k = "opt" <=> Applied(ty, "Option")
             /\ OptionalOf(KindOf(field), "struct") <=> Applied(ty, "Option") /\ NamedType(bare)
             /\ OptionalOf(KindOf(field), "vec") <=>
                  Applied(ty, "Option") /\ ListType(bare) /\ ~BytesType(bare)
             /\ FixedType(bare) \/ ListType(bare) \/ NamedType(bare)
             /\ bare \in Types
             /\ \A label : validate_semantic_type(label, idl) <=> Labels(label, bare)
  <2>1. \A label : validate_semantic_type(label, idl) <=> Labels(label, bare)
    BY <1>3, LabelsAgree
  <2>2. KindOf(field) # NoKind
    BY <1>3, KindOfField
  <2>3. /\ FixedType(bare) \/ ListType(bare) \/ NamedType(bare)
        /\ bare \in Types
        /\ kind.k # "union"
        /\ kind.k = "opt" <=> Applied(ty, "Option")
        /\ kind.k = "struct" <=> NamedType(ty)
        /\ OptionalOf(kind, "struct") <=> Applied(ty, "Option") /\ NamedType(bare)
        /\ OptionalOf(kind, "vec") <=>
             Applied(ty, "Option") /\ ListType(bare) /\ ~BytesType(bare)
    BY <1>3, SortOfField
  <2> QED BY <2>1, <2>2, <2>3, KindUnderUnion
<1>4. ASSUME NEW t, t \in Types
      PROVE  /\ Applied(t, "Option") => ~FixedType(t) /\ ~ListType(t) /\ ~NamedType(t)
             /\ FixedType(t) => ~ListType(t) /\ ~NamedType(t)
             /\ ListType(t) => ~NamedType(t)
             /\ BytesType(t) => ListType(t)
  BY <1>4, SortsAreDisjoint, U8IsFixed DEF FixedType, ListType, NamedType, BytesType
<1> DEFINE Shape == IF MayBeAbsent(field)
              THEN Applied(ty, "Option") /\ (FixedType(bare) \/ BytesType(bare)) /\ ~IsUnion(field)
              ELSE IF IsUnion(field) THEN NamedType(ty)
                   ELSE FixedType(ty) \/ ListType(ty) \/ NamedType(ty)
<1>5. InGrammar(field) <=>
        /\ field.name \in IdlIdentifiers
        /\ \A i \in DOMAIN field.attrs : ~Malformed(field.attrs[i])
        /\ Labelled(field) => Labels(Last(field, "type"), bare) /\ ~IsUnion(field)
        /\ Shape
  BY DEF InGrammar
<1>6. ASSUME Shape PROVE idl # Refused
  <2>1. BytesType(bare) => ListType(bare)
    BY U8IsFixed DEF BytesType, ListType
  <2>2. \/ FixedType(ty) \/ ListType(ty) \/ NamedType(ty)
        \/ Applied(ty, "Option") /\ (FixedType(ty.args[1]) \/ ListType(ty.args[1]))
    BY <1>6, <2>1
  <2> HIDE DEF Shape, bare, ty
  <2> QED BY <2>2, SortsAreAccepted DEF idl, ty
<1>7. ~Applied(ty, "Option") => bare = ty
  OBVIOUS
<1> HIDE DEF attrs, idl, bare, kind, ty
<1>8. ASSUME attrs.ok, idl # Refused
      PROVE  Shape <=>
        /\ ~(attrs.union /\ KindOf(field).k # "union")
        /\ ~(KindOf(field).k = "opt" /\ attrs.required)
        /\ ~(KindOf(field).k # "opt" /\ ~attrs.required)
        /\ ~OptionalOf(KindOf(field), "struct")
        /\ ~OptionalOf(KindOf(field), "vec")
  <2>1. CASE Applied(ty, "Option")
    <3>1. ~NamedType(ty) /\ ~FixedType(ty) /\ ~ListType(ty)
      BY <1>4, <2>1 DEF ty
    <3>2. /\ FixedType(bare) => ~ListType(bare) /\ ~NamedType(bare)
          /\ ListType(bare) => ~NamedType(bare)
          /\ BytesType(bare) => ListType(bare)
      BY <1>3, <1>4, <1>8
    <3> QED BY <1>2, <1>3, <1>8, <2>1, <3>1, <3>2
  <2>2. CASE ~Applied(ty, "Option")
    BY <1>2, <1>3, <1>7, <1>8, <2>2
  <2> QED BY <2>1, <2>2
<1> HIDE DEF Shape
<1> QED BY <1>1, <1>2, <1>3, <1>5, <1>6, <1>8

(***************************************************************************)
(* Part 3: what the passes have checked.                                   *)
(***************************************************************************)

(* The fields behind the first pass had no fault.                          *)
Checked == \A i \in 1 .. Processed : Faults(FieldChecks(input.fields[i])) = {}

(* What a verdict, or having come to a later pass, says of the input.      *)
Verdicts ==
  /\ verdict = Accepted => pass = "layout"
  /\ pass # "shape" => input.shape = "named" /\ input.fields # << >>
  /\ pass = "shape" /\ verdict # Pending => input.shape # "named" \/ input.fields = << >>
  /\ pass = "fields" /\ verdict # Pending =>
       /\ at <= Len(input.fields)
       /\ Faults(FieldChecks(input.fields[at])) # {}

DecidedInv == Inv /\ Checked /\ Verdicts /\ NoMacroPanic

LEMMA DeclaredFields ==
  ASSUME TypeOK, NEW i \in 1 .. Len(input.fields)
  PROVE  input.fields[i].type \in Types /\ input.fields[i].attrs \in ItemSeqs
<1>1. input.fields[i] \in FieldDecls
  BY InputsAssumption DEF TypeOK
<1> QED BY <1>1, InputsAssumption DEF ItemSeqs, ItemType

(* No fault of the first pass is the missing wire kind.                    *)
LEMMA KindIsExpected ==
  ASSUME TypesAreFinite, TypeOK, at \in 1 .. Len(input.fields),
         Faults(FieldChecks(input.fields[at])) # {}
  PROVE  FirstFault(FieldChecks(input.fields[at])) # "expect"
<1> DEFINE field == input.fields[at]
<1>1. field.type \in Types
  BY DeclaredFields
<1> HIDE DEF field
<1>2. ~(map_type[field.type] # Refused /\ KindOf(field) = NoKind)
  BY <1>1, KindOfField
<1>3. Faults(FieldChecks(field)) # {}
  BY DEF field
<1> QED BY <1>2, <1>3, FieldFaults DEF field

LEMMA LayoutFaultNames ==
  ASSUME NEW meta, Faults(LayoutChecks(meta)) # {}
  PROVE  FirstFault(LayoutChecks(meta)) # "expect"
<1> DEFINE checks == LayoutChecks(meta)
<1>1. \A i \in 1 .. 3 : checks[i].why # "expect"
  BY DEF LayoutChecks, Check
<1>2. DOMAIN checks = 1 .. 3
  BY DEF LayoutChecks
<1> HIDE DEF checks
<1>3. Faults(checks) \subseteq 1 .. 3
  BY <1>2 DEF Faults
<1>4. PICK n \in Faults(checks) : \A m \in Faults(checks) : n <= m
  BY <1>3, Smallest DEF checks
<1>5. \A i \in Faults(checks) : checks[i].why # "expect"
  BY <1>1, <1>3
<1> QED BY <1>4, <1>5 DEF FirstFault, checks

LEMMA DecidedInit == Init => DecidedInv
<1> SUFFICES ASSUME Init PROVE DecidedInv
  OBVIOUS
<1>1. Inv
  BY InitInv
<1>2. Processed = 0
  BY DEF Init, Processed
<1> QED BY <1>1, <1>2 DEF Init, DecidedInv, Checked, Verdicts, NoMacroPanic, Pending,
           Accepted, MacroPanic

(* A rejection leaves what has been checked where it was.                  *)
LEMMA RejectDecides ==
  ASSUME DecidedInv, NEW why, Reject(why), why # "expect",
         pass = "shape" => input.shape # "named" \/ input.fields = << >>,
         pass = "fields" => /\ at <= Len(input.fields)
                            /\ Faults(FieldChecks(input.fields[at])) # {}
  PROVE  (Checked /\ Verdicts /\ NoMacroPanic)'
<1>1. /\ UNCHANGED <<input, pass, at, metas, seen_optional, seen_nested>>
      /\ verdict' = Rejected(why)
  BY DEF Reject
<1>2. verdict' # MacroPanic /\ verdict' # Accepted /\ verdict' # Pending
  BY <1>1 DEF Rejected, MacroPanic, Accepted, Pending
<1>3. Checked'
  BY <1>1 DEF DecidedInv, Checked, Processed
<1>4. Verdicts'
  BY <1>1, <1>2 DEF DecidedInv, Verdicts
<1> QED BY <1>2, <1>3, <1>4 DEF NoMacroPanic

LEMMA DecidedStep ==
  ASSUME TypesAreFinite
  PROVE  DecidedInv /\ [Next]_vars => DecidedInv'
<1> SUFFICES ASSUME DecidedInv, [Next]_vars PROVE DecidedInv'
  OBVIOUS
<1>0. Inv' /\ TypeOK /\ Len(input.fields) \in Nat /\ at \in 1 .. Len(input.fields) + 1
  BY InvStep, FieldsAreFinite DEF DecidedInv, Inv, TypeOK
<1> SUFFICES (Checked /\ Verdicts /\ NoMacroPanic)'
  BY <1>0 DEF DecidedInv
<1>1. CASE CheckShape
  <2>0. pass = "shape" /\ verdict = Pending
    BY <1>1 DEF CheckShape, Running
  <2>1. CASE (input.shape # "named" \/ input.fields = << >>) /\ Reject("shape")
    BY <2>0, <2>1, RejectDecides
  <2>2. CASE /\ input.shape = "named" /\ input.fields # << >>
             /\ pass' = "fields"
             /\ UNCHANGED <<input, at, metas, seen_optional, seen_nested, verdict>>
    <3>1. Processed' = 0
      BY <2>0, <2>2 DEF DecidedInv, Inv, Untouched, Processed
    <3>2. Checked'
      BY <3>1 DEF Checked
    <3> QED BY <2>0, <2>2, <3>2 DEF Verdicts, NoMacroPanic, Pending, Accepted, MacroPanic
  <2> QED BY <1>1, <2>1, <2>2 DEF CheckShape
<1>2. CASE CollectField
  <2> DEFINE field == input.fields[at]
  <2>0. pass = "fields" /\ verdict = Pending /\ at \in 1 .. Len(input.fields)
    BY <1>0, <1>2 DEF CollectField, Running
  <2>1. CASE Faults(FieldChecks(field)) # {}
    <3>1. Reject(FirstFault(FieldChecks(field)))
      BY <1>2, <2>1 DEF CollectField
    <3>2. FirstFault(FieldChecks(field)) # "expect"
      BY <1>0, <2>0, <2>1, KindIsExpected
    <3> QED BY <2>0, <2>1, <3>1, <3>2, RejectDecides
  <2>2. CASE Faults(FieldChecks(field)) = {}
    <3>1. at' = at + 1 /\ UNCHANGED <<input, pass, verdict>>
      BY <1>2, <2>2 DEF CollectField
    <3>2. Processed = at - 1 /\ Processed' = at
      BY <1>0, <2>0, <3>1 DEF Processed
    <3>3. Checked'
      BY <2>0, <2>2, <3>1, <3>2 DEF DecidedInv, Checked
    <3> QED BY <2>0, <3>1, <3>3 DEF DecidedInv, Verdicts, NoMacroPanic, Pending, Accepted,
               MacroPanic
  <2> QED BY <2>1, <2>2
<1>3. CASE Collected
  <2>1. /\ pass = "fields" /\ verdict = Pending /\ at > Len(input.fields)
        /\ pass' = "layout" /\ at' = 1 /\ UNCHANGED <<input, verdict>>
    BY <1>3 DEF Collected, Running
  <2>2. Processed = Len(input.fields) /\ Processed' = Len(input.fields)
    BY <1>0, <2>1 DEF Processed
  <2>3. Checked'
    BY <2>1, <2>2 DEF DecidedInv, Checked
  <2> QED BY <2>1, <2>3 DEF DecidedInv, Verdicts, NoMacroPanic, Pending, Accepted, MacroPanic
<1>4. CASE CheckLayout
  <2>0. pass = "layout" /\ verdict = Pending /\ at <= Len(metas)
    BY <1>4 DEF CheckLayout, Running
  <2>1. CASE Faults(LayoutChecks(metas[at])) # {}
    <3>1. Reject(FirstFault(LayoutChecks(metas[at])))
      BY <1>4, <2>1 DEF CheckLayout
    <3> QED BY <2>0, <2>1, <3>1, LayoutFaultNames, RejectDecides
  <2>2. CASE Faults(LayoutChecks(metas[at])) = {}
    <3>1. UNCHANGED <<input, pass, verdict>>
      BY <1>4, <2>2 DEF CheckLayout
    <3>2. Checked'
      BY <2>0, <3>1 DEF DecidedInv, Checked, Processed
    <3> QED BY <2>0, <3>1, <3>2 DEF DecidedInv, Verdicts, NoMacroPanic, Pending, Accepted,
               MacroPanic
  <2> QED BY <2>1, <2>2
<1>5. CASE Accept
  <2>1. /\ pass = "layout" /\ verdict' = Accepted
        /\ UNCHANGED <<input, pass, at, metas, seen_optional, seen_nested>>
    BY <1>5 DEF Accept, Running
  <2>2. Checked'
    BY <2>1 DEF DecidedInv, Checked, Processed
  <2> QED BY <2>1, <2>2 DEF DecidedInv, Verdicts, NoMacroPanic, Pending, Accepted, MacroPanic
<1>6. CASE UNCHANGED vars
  BY <1>6 DEF vars, DecidedInv, Checked, Processed, Verdicts, NoMacroPanic
<1>7. CASE Answer
  BY <1>7 DEF Answer, vars, DecidedInv, Checked, Processed, Verdicts, NoMacroPanic
<1> QED BY <1>1, <1>2, <1>3, <1>4, <1>5, <1>6, <1>7 DEF Next

LEMMA DecidedInvariant ==
  ASSUME TypesAreFinite
  PROVE  Spec => []DecidedInv
<1>1. DecidedInv /\ [Next]_vars => DecidedInv'
  BY DecidedStep
<1> QED BY DecidedInit, <1>1, PTL DEF Spec

(* The derive never panics: every type that map_type accepts has a wire    *)
(* kind, so that the `expect` of collect_field_metas (lib.rs:30) holds,    *)
(* for every finite type, though the two maps walk it separately.          *)
THEOREM MacroNeverPanics ==
  ASSUME TypesAreFinite
  PROVE  Spec => []NoMacroPanic
<1>1. DecidedInv => NoMacroPanic
  BY DEF DecidedInv
<1> QED BY DecidedInvariant, <1>1, PTL

(* A meta is that of a declared field without fault.                       *)
LEMMA CheckedMetas ==
  ASSUME DecidedInv, NEW i \in DOMAIN metas
  PROVE  /\ i \in 1 .. Len(input.fields)
         /\ metas[i] = Meta(input.fields[i])
         /\ Faults(FieldChecks(input.fields[i])) = {}
<1>1. /\ DOMAIN metas = 1 .. Processed
      /\ \A j \in 1 .. Processed : metas[j] = Meta(input.fields[j])
  BY MetasLength DEF DecidedInv, Inv
<1>2. Processed <= Len(input.fields) /\ Processed \in Nat /\ Len(input.fields) \in Nat
  BY FieldsAreFinite, MetasLength DEF DecidedInv, Inv, TypeOK, Processed
<1> QED BY <1>1, <1>2 DEF DecidedInv, Checked

(* Every field that is collected has a wire kind the generated decoder has *)
(* statements for: the compile_error! arms of emit_decode_stmts            *)
(* (codegen.rs:503, 616, 784) are never expanded.                          *)
THEOREM EveryFieldHasDecoder ==
  ASSUME TypesAreFinite
  PROVE  Spec => []DecoderExists
<1>1. DecidedInv => DecoderExists
  <2> SUFFICES ASSUME DecidedInv, NEW i \in DOMAIN metas PROVE metas[i].kind \in Wire!Kinds
    BY DEF DecoderExists
  <2> DEFINE field == input.fields[i]
  <2>1. /\ metas[i] = Meta(field) /\ Faults(FieldChecks(field)) = {}
        /\ i \in 1 .. Len(input.fields)
    BY CheckedMetas
  <2>2. field.type \in Types
    BY <2>1, DeclaredFields DEF DecidedInv, Inv
  <2> HIDE DEF field
  <2>3. /\ map_type[field.type] # Refused
        /\ ~OptionalOf(KindOf(field), "struct") /\ ~OptionalOf(KindOf(field), "vec")
    BY <2>1, FieldFaults
  <2>4. KindOf(field) \in Wire!Kinds
    BY <2>2, <2>3, KindOfField
  <2> QED BY <2>1, <2>4 DEF Meta
<1> QED BY DecidedInvariant, <1>1, PTL

(* The derive accepts exactly the structs of the grammar: the eleven       *)
(* checks on a field (lib.rs:24-98) decide whether it has a meaning on the *)
(* wire, for every type and every list of attribute items, and the two     *)
(* passes lose nothing of it.                                              *)
THEOREM GrammarIsDecided ==
  ASSUME TypesAreFinite
  PROVE  Spec => []AcceptsGrammar
<1>1. DecidedInv => AcceptsGrammar
  <2> SUFFICES ASSUME DecidedInv, verdict # Pending PROVE AcceptsGrammar
    BY DEF AcceptsGrammar
  <2> DEFINE declared == [i \in DOMAIN input.fields |-> Meta(input.fields[i])]
             Right == /\ input.shape = "named" /\ input.fields # << >>
                      /\ \A i \in DOMAIN input.fields : InGrammar(input.fields[i])
                      /\ LayoutRule(declared)
  <2>0. /\ TypeOK /\ DOMAIN input.fields = 1 .. Len(input.fields) /\ Len(input.fields) \in Nat
        /\ pass \in {"shape", "fields", "layout"}
    BY FieldsAreFinite DEF DecidedInv, Inv, TypeOK
  <2>1. \A i \in DOMAIN input.fields :
          Faults(FieldChecks(input.fields[i])) = {} <=> InGrammar(input.fields[i])
    BY <2>0, DeclaredFields, FieldIsDecided
  <2>2. CASE pass = "shape"
    BY <2>2 DEF DecidedInv, Verdicts, AcceptsGrammar
  <2>3. CASE pass = "fields"
    <3>1. at \in DOMAIN input.fields /\ Faults(FieldChecks(input.fields[at])) # {}
      BY <2>0, <2>3 DEF DecidedInv, Verdicts, TypeOK
    <3>2. ~InGrammar(input.fields[at])
      BY <2>1, <3>1
    <3>3. verdict # Accepted
      BY <2>3 DEF DecidedInv, Verdicts
    <3> QED BY <3>1, <3>2, <3>3 DEF AcceptsGrammar
  <2>4. CASE pass = "layout"
    <3>1. metas = declared
      BY <2>0, <2>4 DEF DecidedInv, Inv, TypeOK, FirstMetas, Processed
    <3>2. \A i \in DOMAIN input.fields : InGrammar(input.fields[i])
      BY <2>0, <2>1, <2>4 DEF DecidedInv, Checked, Processed
    <3>3. input.shape = "named" /\ input.fields # << >>
      BY <2>4 DEF DecidedInv, Verdicts
    <3>4. verdict = Accepted <=> LayoutRule(metas)
      <4>1. verdict = Accepted \/ verdict.v = "rejected"
        BY DEF DecidedInv, Inv, TypeOK, NoMacroPanic
      <4>2. ~(verdict = Accepted /\ verdict.v = "rejected")
        BY DEF Accepted
      <4> QED BY <2>4, <4>1, <4>2 DEF DecidedInv, Inv, LayoutIsDecided
    <3> HIDE DEF declared
    <3>5. verdict = Accepted <=> LayoutRule(declared)
      BY <3>1, <3>4
    <3> QED BY <3>2, <3>3, <3>5 DEF AcceptsGrammar, declared
  <2> QED BY <2>0, <2>2, <2>3, <2>4
<1> QED BY DecidedInvariant, <1>1, PTL

(* The two maps give a byte array the same name, also under an Option.     *)
LEMMA ByteArrayNames ==
  ASSUME TypesAreFinite, NEW ty \in Types, NEW n, map_type[ty] = BytesFixed(n)
  PROVE  wire_type_name(map_wire_kind[ty]) = BytesFixed(n)
<1> DEFINE bare == IF Applied(ty, "Option") THEN ty.args[1] ELSE ty
<1>0. map_type[ty] # Refused
  BY DEF BytesFixed, Refused
<1>1. /\ bare \in Types /\ map_type[bare] = map_type[ty]
      /\ FixedType(bare) \/ ListType(bare) \/ NamedType(bare)
  BY <1>0, SortOfField
<1> HIDE DEF bare
<1>2. IsByteArray(bare)
  BY <1>1, ByteArraysInIdl
<1>3. FixedType(bare)
  BY <1>1, <1>2, SortsAreDisjoint DEF ListType, NamedType
<1>4. /\ map_wire_kind[bare] \in Wire!Fixed
      /\ wire_type_name(map_wire_kind[bare]) = BytesFixed(n)
  BY <1>1, <1>3, MapsOfFixed
<1>5. CASE ~Applied(ty, "Option")
  BY <1>4, <1>5 DEF bare
<1>6. CASE Applied(ty, "Option")
  <2>1. map_wire_kind[ty] = Wrap("opt", map_wire_kind[bare])
    BY <1>6, MapsOfOption DEF bare
  <2>2. map_wire_kind[bare] # NoKind /\ map_wire_kind[bare].k # "opt"
    BY <1>4 DEF Wire!Fixed, Wire!Scalars, Wire!Arrays, NoKind, Kind
  <2>3. map_wire_kind[ty] = Of("opt", map_wire_kind[bare])
    BY <2>1, <2>2 DEF Wrap
  <2>4. map_wire_kind[ty].k = "opt" /\ map_wire_kind[ty].of = map_wire_kind[bare]
    BY <2>3 DEF Of
  <2> QED BY <1>4, <2>2, <2>4 DEF wire_type_name
<1> QED BY <1>5, <1>6

(* A reserved label stands on bytes of its own length on the wire: checked *)
(* against map_type's name (attr.rs:44-91), true of the wire kind's.       *)
THEOREM LabelsAreTruthful ==
  ASSUME TypesAreFinite
  PROVE  Spec => []LabelsDescribeWire
<1>1. DecidedInv => LabelsDescribeWire
  <2> SUFFICES ASSUME DecidedInv, NEW i \in DOMAIN metas,
                      metas[i].label \in DOMAIN ReservedLabels
               PROVE  wire_type_name(metas[i].kind)
                        = BytesFixed(ReservedLabels[metas[i].label])
    BY DEF LabelsDescribeWire
  <2> DEFINE field == input.fields[i]
             label == metas[i].label
  <2>1. /\ metas[i] = Meta(field) /\ Faults(FieldChecks(field)) = {}
        /\ i \in 1 .. Len(input.fields)
    BY CheckedMetas
  <2>2. field.type \in Types
    BY <2>1, DeclaredFields DEF DecidedInv, Inv
  <2> HIDE DEF field
  <2>3. label = parse_field_attrs(field.attrs).label /\ metas[i].kind = KindOf(field)
    BY <2>1 DEF Meta
  <2>4. label # NoLabel
    BY DEF ReservedLabels, NoLabel
  <2>5. /\ ~parse_field_attrs(field.attrs).union
        /\ validate_semantic_type(label, map_type[field.type])
    BY <2>1, <2>3, <2>4, FieldFaults
  <2>6. map_type[field.type] = BytesFixed(ReservedLabels[label])
    BY <2>5 DEF validate_semantic_type
  <2>7. KindOf(field) = map_wire_kind[field.type]
    BY <2>5 DEF KindOf
  <2> QED BY <2>2, <2>3, <2>6, <2>7, ByteArrayNames
<1> QED BY DecidedInvariant, <1>1, PTL
=============================================================================
