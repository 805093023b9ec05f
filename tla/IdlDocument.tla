---------------------------- MODULE IdlDocument ----------------------------
(***************************************************************************)
(* The two producers of the IDL document of a witness: build_idl, which    *)
(* the CkbWitness derive runs over the field metas of a flat struct, and   *)
(* the host exporter, which walks the schema that all derives emit.  The   *)
(* constant head of the document is left out; a JSON object is a function  *)
(* from its keys.                                                          *)
(*                                                                         *)
(* A source is what the derives of a crate have accepted: the metas of its *)
(* structs, the variants of its unions, and the witness at the top.        *)
(***************************************************************************)
EXTENDS Registry, FiniteSets

CONSTANT Sources   \* [top, structs: name -> metas, unions: name -> variants]

(* The kinds the derives accept for a field (DecoderExists of FieldLayout) *)
(* whose nested types are of the source.                                   *)
FixedKind(kind) ==
  kind.k \in {"scalar", "array"} /\ kind = Sized(kind.k, kind.size) /\ kind.size \in Nat

PlainKind(kind) == FixedKind(kind) \/ kind = Kind("bytes")

FieldKind(schema, kind) ==
  \/ PlainKind(kind)
  \/ kind.k = "opt" /\ kind = Of("opt", kind.of) /\ PlainKind(kind.of)
  \/ kind.k = "vec" /\ kind = Of("vec", kind.of) /\ FixedKind(kind.of)
  \/ kind.k = "struct" /\ kind.path \in DOMAIN schema.structs
  \/ kind.k = "union" /\ kind.path \in DOMAIN schema.unions

(* What FieldChecks let through: no label on a union, and an Option where, *)
(* and only where, the field is not required.                              *)
FieldMeta(schema, meta) ==
  /\ FieldKind(schema, meta.kind)
  /\ meta.kind.k = "union" => meta.label = NoLabel
  /\ meta.required = (meta.kind.k # "opt")

Variants(schema) == [tag : Nat, name : STRING, struct : DOMAIN schema.structs]

(* What the derives accept of a crate: such fields, and tags that differ   *)
(* (EveryVariantIsReached).                                                *)
AcceptedSource(schema) ==
  /\ schema = [top |-> schema.top, structs |-> schema.structs, unions |-> schema.unions]
  /\ schema.top \in DOMAIN schema.structs
  /\ \A s \in DOMAIN schema.structs : \A i \in DOMAIN schema.structs[s] :
       FieldMeta(schema, schema.structs[s][i])
  /\ \A u \in DOMAIN schema.unions :
       LET variants == schema.unions[u]
       IN  /\ variants \in Seq(Variants(schema))
           /\ \A i, j \in DOMAIN variants : variants[i].tag = variants[j].tag => i = j

ASSUME SourcesAssumption == \A schema \in Sources : AcceptedSource(schema)

(* A Rust struct does not contain itself, neither directly nor through the *)
(* variants of an enum: its size is known.                                 *)
Contains(schema, s, r) ==
  \E i \in DOMAIN schema.structs[s] :
    LET kind == schema.structs[s][i].kind
    IN  \/ kind.k = "struct" /\ kind.path = r
        \/ /\ kind.k = "union"
           /\ \E j \in DOMAIN schema.unions[kind.path] :
                schema.unions[kind.path][j].struct = r

Nests(schema, depth) ==
  \A s, r \in DOMAIN schema.structs : Contains(schema, s, r) => depth[r] < depth[s]

SourcesAreFinite ==
  \A schema \in Sources : \E depth \in [DOMAIN schema.structs -> Nat] : Nests(schema, depth)

VARIABLES
  source,     \* the source as it stands
  artifact,   \* idl.json of the crate, as the macro leaves it
  exported    \* what the exporter has written, to a path of its own

vars == <<source, artifact, exported>>

Absent == << >>   \* no document; a document has at least one field
NoText == "<no text>"
Label(label) == [idl |-> "label", label |-> label]

Top(schema) == schema.structs[schema.top]

(* object.insert(key, value) *)
insert(object, key, value) ==
  [k \in DOMAIN object \cup {key} |-> IF k = key THEN value ELSE object[k]]

insert_some(object, key, value, none) ==
  IF value = none THEN object ELSE insert(object, key, value)

IsNestedKind(kind) == kind.k \in {"struct", "union"}

(* Mutant: only nested structs are left to the exporter.                   *)
RecursiveStructs(metas) == \E i \in DOMAIN metas : metas[i].kind.k = "struct"

(* impl_ckb_witness: `recursive` *)
Recursive(metas) == \E i \in DOMAIN metas : IsNestedKind(metas[i].kind)
-----------------------------------------------------------------------------
(* The macro's side. *)
EffectiveType(meta) ==
  IF meta.label = NoLabel THEN wire_type_name(meta.kind) ELSE Label(meta.label)

MacroField(meta) ==
  LET named == [name |-> meta.name, type |-> EffectiveType(meta), required |-> meta.required]
      wired == IF meta.label = NoLabel THEN named
               ELSE insert(named, "wire_type", wire_type_name(meta.kind))
      items == IF meta.kind.k # "vec" THEN wired
               ELSE insert(wired, "items", [type |-> wire_type_name(meta.kind.of)])
  IN  insert_some(items, "description", meta.description, NoText)

build_idl(metas) == [i \in DOMAIN metas |-> MacroField(metas[i])]

(* Mutant: the label is left out of the table in the contract.             *)
idl_fields_structural(metas) ==
  [i \in DOMAIN metas |->
     [name |-> metas[i].name, idl_type |-> wire_type_name(metas[i].kind),
      required |-> metas[i].required, description |-> metas[i].description]]

(* emit_inner_impl: the FieldSpec table of an inner struct. *)
idl_fields(metas) ==
  [i \in DOMAIN metas |->
     [name |-> metas[i].name, idl_type |-> EffectiveType(metas[i]),
      required |-> metas[i].required, description |-> metas[i].description]]

(* emit_union_impl: the UnionVariantSpec table of a union.                 *)
idl_variants(schema, union) ==
  LET variants == schema.unions[union]
  IN  [i \in DOMAIN variants |->
         [type_id |-> variants[i].tag, name |-> variants[i].name,
          fields |-> idl_fields(schema.structs[variants[i].struct])]]

(* emit_type_provider: the schema of a wire kind.  Inside an option and a  *)
(* vector there are only plain kinds (DecoderExists of FieldLayout).       *)
PlainSchema(kind) ==
  CASE kind.k = "scalar" -> [ty |-> "uint", bits |-> 8 * kind.size]
    [] kind.k = "array"  -> [ty |-> "fixed_bytes", length |-> kind.size]
    [] kind.k = "bytes"  -> [ty |-> "bytes"]
    [] kind.k = "struct" -> [ty |-> "struct", schema |-> kind.path]
    [] kind.k = "union"  -> [ty |-> "union", schema |-> kind.path]

TypeSchema(kind) ==
  CASE kind.k = "opt" -> [ty |-> "optional", inner |-> PlainSchema(kind.of)]
    [] kind.k = "vec" -> [ty |-> "vector", element |-> PlainSchema(kind.of)]
    [] OTHER          -> PlainSchema(kind)

(* emit_schema_support *)
FieldSchema(meta) ==
  [name |-> meta.name, required |-> meta.required, description |-> meta.description,
   semantic_type |-> meta.label, wire_type |-> TypeSchema(meta.kind)]
-----------------------------------------------------------------------------
(* The exporter's side.  `nested` holds the fields of the structs below,   *)
(* which fields_json makes by the same rule.                               *)
TypeName(name) == [type |-> name]

(* The place of a variant in the order of tags, and sort_by_key with them: *)
(* the sort is stable.                                                     *)
Rank(variants, i) ==
  Cardinality({j \in DOMAIN variants :
                 \/ variants[j].tag < variants[i].tag
                 \/ variants[j].tag = variants[i].tag /\ j <= i})

sort_by_tag(variants) ==
  [p \in DOMAIN variants |->
     variants[CHOOSE i \in DOMAIN variants : Rank(variants, i) = p]]

(* Mutant: the variants in the order of declaration.                       *)
union_json_unsorted(schema, union, nested) ==
  LET variants == schema.unions[union]
  IN  [type |-> [idl |-> "union"],
       variants |-> [i \in DOMAIN variants |->
          [tag |-> variants[i].tag, name |-> variants[i].name,
           fields |-> nested[variants[i].struct]]]]

union_json(schema, union, nested) ==
  LET variants == sort_by_tag(schema.unions[union])
  IN  [type |-> [idl |-> "union"],
       variants |-> [i \in DOMAIN variants |->
          [tag |-> variants[i].tag, name |-> variants[i].name,
           fields |-> nested[variants[i].struct]]]]

plain_json(schema, ty, nested) ==
  CASE ty.ty = "uint"        -> TypeName([idl |-> "uint", n |-> ty.bits])
    [] ty.ty = "fixed_bytes" -> TypeName(BytesFixed(ty.length))
    [] ty.ty = "bytes"       -> TypeName(Bytes)
    [] ty.ty = "struct"      -> [type |-> Struct, fields |-> nested[ty.schema]]
    [] ty.ty = "union"       -> union_json(schema, ty.schema, nested)

type_json(schema, ty, nested) ==
  CASE ty.ty = "optional" -> plain_json(schema, ty.inner, nested)
    [] ty.ty = "vector"   -> [type  |-> [idl |-> "vector"],
                              items |-> plain_json(schema, ty.element, nested)]
    [] OTHER              -> plain_json(schema, ty, nested)

(* Mutant: a field is required unless it says so.                          *)
DescribedBare(object, field) ==
  insert_some(insert_some(insert(object, "name", field.name), "required", field.required, TRUE),
              "description", field.description, NoText)

(* The keys that every sort of field has.                                  *)
Described(object, field) ==
  insert_some(insert(insert(object, "name", field.name), "required", field.required),
              "description", field.description, NoText)

(* Mutant: the label replaces the type on the wire.                        *)
field_json_label_only(schema, field, nested) ==
  LET value     == type_json(schema, field.wire_type, nested)
      described == Described(value, field)
  IN  IF field.semantic_type # NoLabel
      THEN insert(described, "type", Label(field.semantic_type)) ELSE described

field_json(schema, field, nested) ==
  LET value     == type_json(schema, field.wire_type, nested)
      described == Described(value, field)
  IN  IF field.semantic_type # NoLabel /\ value.type # [idl |-> "union"]
      THEN insert(insert(described, "type", Label(field.semantic_type)),
                  "wire_type", value.type)
      ELSE described

fields_json(schema, metas, nested) ==
  [i \in DOMAIN metas |-> field_json(schema, FieldSchema(metas[i]), nested)]

(* The walk ends: a Rust struct does not contain itself.                   *)
NestedFields(schema) ==
  LET fields[s \in DOMAIN schema.structs] == fields_json(schema, schema.structs[s], fields)
  IN  fields

document_for(schema) == fields_json(schema, Top(schema), NestedFields(schema))
-----------------------------------------------------------------------------
Init == source \in Sources /\ artifact = Absent /\ exported = Absent

(* impl_ckb_witness, after validation: a recursive witness removes the     *)
(* file, a flat one writes it.                                             *)
Expand ==
  /\ artifact' = IF Recursive(Top(source)) THEN Absent ELSE build_idl(Top(source))
  /\ UNCHANGED <<source, exported>>

(* export_to_path *)
Export ==
  /\ exported' = document_for(source)
  /\ UNCHANGED <<source, artifact>>

(* The author (external) moves the variants of an enum around.             *)
ReorderVariants ==
  \E u \in DOMAIN source.unions :
    \E order \in [DOMAIN source.unions[u] -> DOMAIN source.unions[u]] :
      /\ \A i, j \in DOMAIN order : order[i] = order[j] => i = j
      /\ source' = [source EXCEPT !.unions[u] = [i \in DOMAIN order |-> @[order[i]]]]
      /\ UNCHANGED <<artifact, exported>>

Next == Expand \/ Export \/ ReorderVariants

Spec == Init /\ [][Next]_vars
-----------------------------------------------------------------------------
(* A document has an object per field, with the keys of the format and no  *)
(* others.                                                                 *)
Keys == {"name", "type", "required", "wire_type", "items", "description",
         "fields", "variants"}
Object(object) == {"name", "type", "required"} \subseteq DOMAIN object
                    /\ DOMAIN object \subseteq Keys

TypeOK ==
  \A document \in {artifact, exported} :
    \/ document = Absent
    \/ /\ DOMAIN document = DOMAIN Top(source)
       /\ \A i \in DOMAIN document : Object(document[i])

(* What the macro leaves in idl.json is the complete document, the one the *)
(* exporter would make of the same witness: a flat struct has one          *)
(* interface, whichever producer described it, and of a recursive one the  *)
(* macro publishes nothing rather than a part.                             *)
PublishedIsComplete == artifact # Absent => artifact = document_for(source)

(* attr.rs:96: reordering source must not change a public wire ABI.  What  *)
(* was exported stays the document of the source when variants move.       *)
ExportIgnoresOrder == exported # Absent => exported = document_for(source)

FieldAgrees(spec, object) ==
  /\ spec.name = object.name
  /\ spec.idl_type = object.type
  /\ spec.required = object.required
  /\ spec.description # NoText <=> "description" \in DOMAIN object
  /\ spec.description # NoText => object.description = spec.description

FieldsAgree(specs, objects) ==
  /\ DOMAIN specs = DOMAIN objects
  /\ \A i \in DOMAIN specs : FieldAgrees(specs[i], objects[i])

(* The tables compiled into the contract, which keep the order of the      *)
(* source, and the exported document, which sorts by tag, describe every   *)
(* nested struct and every variant in the same words.                      *)
TablesAgree ==
  LET nested == NestedFields(source)
  IN  /\ \A s \in DOMAIN source.structs \ {source.top} :
           FieldsAgree(idl_fields(source.structs[s]), nested[s])
      /\ \A u \in DOMAIN source.unions :
           LET table   == idl_variants(source, u)
               objects == union_json(source, u, nested).variants
           IN  \A i \in DOMAIN table : \E j \in DOMAIN objects :
                 /\ table[i].type_id = objects[j].tag
                 /\ table[i].name = objects[j].name
                 /\ FieldsAgree(table[i].fields, objects[j].fields)
=============================================================================
