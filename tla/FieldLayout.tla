----------------------------- MODULE FieldLayout -----------------------------
(***************************************************************************)
(* What CkbWitness and CkbInnerWitness accept: check_named_struct and      *)
(* collect_field_metas (lib.rs), which both derives run on the struct they *)
(* are given.  One step per field in each of its two passes: the first     *)
(* turns the declared fields into FieldMetas and stops at the first error, *)
(* the second walks the metas for the order of optional and nested fields. *)
(***************************************************************************)
EXTENDS Registry

CONSTANTS
  FieldDecls,     \* the fields that may be declared: [name, type, attrs]
  Inputs,         \* the items a derive is put on: [shape, fields]
  IdlIdentifiers  \* the identifiers of the form [A-Za-z_][A-Za-z0-9_]*

ASSUME InputsAssumption ==
  /\ \A f \in FieldDecls :
       f.type \in Types /\ f.attrs \in Seq([key : STRING, value : STRING \ {NoLabel}])
  /\ \A input \in Inputs : input.fields \in Seq(FieldDecls)

VARIABLES
  input,         \* the item the derive is on
  pass,          \* "shape", "fields", "layout": what is being checked
  at,            \* the field the pass has come to
  metas,         \* the FieldMetas collected so far
  seen_optional, \* an Option<T> stands before `at`
  seen_nested,   \* a nested struct or union stands before `at`
  verdict        \* what the derive answers

vars == <<input, pass, at, metas, seen_optional, seen_nested, verdict>>

Pending       == [v |-> "pending"]
Accepted      == [v |-> "accepted"]
Rejected(why) == [v |-> "rejected", why |-> why]
MacroPanic    == [v |-> "panic"]
-----------------------------------------------------------------------------
(* The checks on one thing, in the order they are made: the first that     *)
(* finds a fault decides.                                                  *)
Check(why, fault) == [why |-> why, fault |-> fault]
Faults(checks)    == {i \in DOMAIN checks : checks[i].fault}
FirstFault(checks) ==
  checks[CHOOSE i \in Faults(checks) : \A j \in Faults(checks) : i <= j].why

(* #[witness(union)] turns a named type into a union.                      *)
KindOf(field) ==
  LET kind == map_wire_kind[field.type]
  IN  IF parse_field_attrs(field.attrs).union /\ kind.k = "struct"
      THEN Path("union", kind.path) ELSE kind

(* FieldMeta, as far as anything depends on it.                            *)
Meta(field) ==
  LET attrs == parse_field_attrs(field.attrs)
  IN  [name |-> field.name, required |-> attrs.required, label |-> attrs.label,
       kind |-> KindOf(field)]

OptionalOf(kind, k) == kind.k = "opt" /\ kind.of.k = k

FieldChecks(field) ==
  LET attrs == parse_field_attrs(field.attrs)
      idl   == map_type[field.type]
      kind  == KindOf(field)
  IN  << Check("identifier",        field.name \notin IdlIdentifiers),
         Check("attribute",         ~attrs.ok),
         Check("type",              idl = Refused),
         Check("expect",            kind = NoKind),
         Check("union_type",        attrs.union /\ kind.k # "union"),
         Check("union_label",       attrs.union /\ attrs.label # NoLabel),
         Check("label",             /\ attrs.label # NoLabel
                                    /\ ~validate_semantic_type(attrs.label, idl)),
         Check("optional_required", kind.k = "opt" /\ attrs.required),
         Check("required_false",    kind.k # "opt" /\ ~attrs.required),
         Check("optional_struct",   OptionalOf(kind, "struct")),
         Check("optional_vec",      OptionalOf(kind, "vec")) >>

IsOptional(meta) == meta.kind.k = "opt"
IsNested(meta)   == meta.kind.k \in {"struct", "union"}

(* Mutant: fields may follow a nested one.                                 *)
LayoutChecksNoNested(meta) ==
  << Check("required_after_optional", ~IsOptional(meta) /\ seen_optional),
     Check("nested_after_optional",   IsNested(meta) /\ seen_optional) >>

(* The third check never fires: a nested field is not optional, so that    *)
(* the second has answered first.                                          *)
LayoutChecks(meta) ==
  << Check("after_nested",            seen_nested),
     Check("required_after_optional", ~IsOptional(meta) /\ seen_optional),
     Check("nested_after_optional",
           IsNested(meta) /\ (seen_optional \/ IsOptional(meta))) >>

-----------------------------------------------------------------------------
Init ==
  /\ input \in Inputs
  /\ pass = "shape" /\ at = 1
  /\ metas = << >>
  /\ seen_optional = FALSE /\ seen_nested = FALSE
  /\ verdict = Pending

Reject(why) ==
  /\ verdict' = IF why = "expect" THEN MacroPanic ELSE Rejected(why)
  /\ UNCHANGED <<input, pass, at, metas, seen_optional, seen_nested>>

Running(p) == verdict = Pending /\ pass = p

(* check_named_struct *)
CheckShape ==
  /\ Running("shape")
  /\ \/ /\ input.shape # "named" \/ input.fields = << >>
        /\ Reject("shape")
     \/ /\ input.shape = "named" /\ input.fields # << >>
        /\ pass' = "fields"
        /\ UNCHANGED <<input, at, metas, seen_optional, seen_nested, verdict>>

(* Mutant: a field in error is left out instead of ending the pass.        *)
CollectFieldSkipping ==
  /\ Running("fields")
  /\ at <= Len(input.fields)
  /\ LET field == input.fields[at]
     IN  metas' = IF Faults(FieldChecks(field)) # {} THEN metas
                  ELSE Append(metas, Meta(field))
  /\ at' = at + 1
  /\ UNCHANGED <<input, pass, seen_optional, seen_nested, verdict>>

(* The closure of the first pass, on the next field.  The checks are named *)
(* by a bounded quantifier, which makes TLC evaluate them once.            *)
CollectField ==
  /\ Running("fields")
  /\ at <= Len(input.fields)
  /\ \E field \in {input.fields[at]} : \E checks \in {FieldChecks(field)} :
       \/ Faults(checks) # {} /\ Reject(FirstFault(checks))
       \/ /\ Faults(checks) = {}
          /\ metas' = Append(metas, Meta(field))
          /\ at' = at + 1
          /\ UNCHANGED <<input, pass, seen_optional, seen_nested, verdict>>

(* Mutant: the second pass begins where the first has ended.               *)
CollectedAtEnd ==
  /\ Running("fields")
  /\ at > Len(input.fields)
  /\ pass' = "layout"
  /\ UNCHANGED <<input, at, metas, seen_optional, seen_nested, verdict>>

(* collect::<Result<Vec<_>>> has succeeded.                                *)
Collected ==
  /\ Running("fields")
  /\ at > Len(input.fields)
  /\ pass' = "layout" /\ at' = 1
  /\ UNCHANGED <<input, metas, seen_optional, seen_nested, verdict>>

(* The body of the second pass's loop.                                     *)
CheckLayout ==
  /\ Running("layout")
  /\ at <= Len(metas)
  /\ LET meta   == metas[at]
         checks == LayoutChecks(meta)
     IN  \/ Faults(checks) # {} /\ Reject(FirstFault(checks))
         \/ /\ Faults(checks) = {}
            /\ seen_optional' = (seen_optional \/ IsOptional(meta))
            /\ seen_nested' = (seen_nested \/ IsNested(meta))
            /\ at' = at + 1
            /\ UNCHANGED <<input, pass, metas, verdict>>

Accept ==
  /\ Running("layout")
  /\ at > Len(metas)
  /\ verdict' = Accepted
  /\ UNCHANGED <<input, pass, at, metas, seen_optional, seen_nested>>

Answer == verdict # Pending /\ UNCHANGED vars

Next == CheckShape \/ CollectField \/ Collected \/ CheckLayout \/ Accept \/ Answer

Spec == Init /\ [][Next]_vars
-----------------------------------------------------------------------------
(* The number of fields the first pass is through with.                    *)
Processed == CASE pass = "shape"  -> 0
               [] pass = "fields" -> at - 1
               [] pass = "layout" -> Len(input.fields)

FirstMetas(n) == [i \in 1 .. n |-> Meta(input.fields[i])]

(* The types, and that the metas are those of the first fields, one each   *)
(* and in order, all of them once the second pass has begun.               *)
TypeOK ==
  /\ input \in Inputs
  /\ pass \in {"shape", "fields", "layout"}
  /\ at \in 1 .. Len(input.fields) + 1
  /\ metas = FirstMetas(Processed)
  /\ seen_optional \in BOOLEAN /\ seen_nested \in BOOLEAN
  /\ \/ verdict \in {Pending, Accepted, MacroPanic}
     \/ verdict.v = "rejected"

(* The rule the decoder relies on to find where a field ends: optional     *)
(* fields come last, and nothing follows a nested struct or union.         *)
LayoutRule(ms) ==
  /\ \A i \in DOMAIN ms : IsNested(ms[i]) => i = Len(ms)
  /\ \A i, j \in DOMAIN ms : i < j /\ IsOptional(ms[i]) => IsOptional(ms[j])

(* The second pass, with its two flags, decides that rule: what is         *)
(* accepted obeys it, and what the pass refuses does not.                  *)
LayoutIsDecided ==
  /\ verdict = Accepted => LayoutRule(metas)
  /\ verdict.v = "rejected" /\ pass = "layout" => ~LayoutRule(metas)

(* The `expect` of collect_field_metas: every type that map_type accepts   *)
(* has a wire kind, although the two maps walk the type separately.        *)
NoMacroPanic == verdict # MacroPanic

(* A reserved label stands for bytes of one length in the IDL, and that is *)
(* what is on the wire: the label is checked against map_type's name, what *)
(* the IDL publishes beside it comes from the wire kind.                   *)
LabelsDescribeWire ==
  \A i \in DOMAIN metas :
    metas[i].label \in DOMAIN ReservedLabels =>
      wire_type_name(metas[i].kind) = BytesFixed(ReservedLabels[metas[i].label])

(* The kinds that the decoder model has statements for, named structs and  *)
(* unions being the types of the source.                                   *)
NamedType(ty) == /\ ty.t = "path" /\ ~IsPrimitive(ty)
                 /\ ~Applied(ty, "Vec") /\ ~Applied(ty, "Option")

NamedTypes == {ty.ident : ty \in {t \in Types : NamedType(t)}}

Wire == INSTANCE WireFormat WITH
          Radix <- 256, UsizeMax <- 2 ^ 32 - 1, Fields <- << >>, Variants <- << >>,
          Structs <- NamedTypes, Unions <- NamedTypes

(* Every field that is collected has a wire kind the decoder model knows:  *)
(* no compile_error! arm of emit_decode_stmts is ever expanded, and the    *)
(* assumption WireFormat makes of layouts holds of what is accepted.       *)
DecoderExists == \A i \in DOMAIN metas : metas[i].kind \in Wire!Kinds

-----------------------------------------------------------------------------
(* Reference: the fields that have a meaning on the wire, said directly.   *)
FixedType(ty) == IsPrimitive(ty) \/ (IsByteArray(ty) /\ ty.len > 0)
BytesType(ty) == Applied(ty, "Vec") /\ IsU8(ty.args[1])
ListType(ty)  == Applied(ty, "Vec") /\ FixedType(ty.args[1])

Items(field, key) == {i \in DOMAIN field.attrs : field.attrs[i].key = key}
Last(field, key)  ==
  field.attrs[CHOOSE i \in Items(field, key) : \A j \in Items(field, key) : j <= i].value
IsUnion(field)    == Items(field, "union") # {}
MayBeAbsent(field) == Items(field, "required") # {} /\ Last(field, "required") = "false"
Labelled(field)   == Items(field, "type") # {}

Labels(label, ty) ==
  \/ label \in CustomLabels
  \/ /\ label \in DOMAIN ReservedLabels
     /\ IsByteArray(ty) /\ ty.len = ReservedLabels[label]

InGrammar(field) ==
  LET ty   == field.type
      bare == IF Applied(ty, "Option") THEN ty.args[1] ELSE ty
  IN  /\ field.name \in IdlIdentifiers
      /\ \A i \in DOMAIN field.attrs : ~Malformed(field.attrs[i])
      /\ Labelled(field) => Labels(Last(field, "type"), bare) /\ ~IsUnion(field)
      /\ IF MayBeAbsent(field)
         THEN Applied(ty, "Option") /\ (FixedType(bare) \/ BytesType(bare)) /\ ~IsUnion(field)
         ELSE IF IsUnion(field) THEN NamedType(ty)
              ELSE FixedType(ty) \/ ListType(ty) \/ NamedType(ty)

(* The derive accepts what is in the grammar and laid out by the rule, and *)
(* nothing else: no check is missing, none refuses too much, and neither   *)
(* the order of the checks nor the early return hides one.                 *)
AcceptsGrammar ==
  verdict # Pending =>
    (verdict = Accepted <=>
       /\ input.shape = "named" /\ input.fields # << >>
       /\ \A i \in DOMAIN input.fields : InGrammar(input.fields[i])
       /\ LayoutRule([i \in DOMAIN input.fields |-> Meta(input.fields[i])]))
=============================================================================
