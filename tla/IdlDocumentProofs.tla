------------------------- MODULE IdlDocumentProofs -------------------------
(***************************************************************************)
(* Proofs about the IDL documents of IdlDocument: both producers write     *)
(* well-formed objects, the macro publishes the document of the exporter   *)
(* or none, the order of the variants in the source does not reach the     *)
(* document, the tables of the contract agree with it, and a wallet reads  *)
(* the layout of the witness out of it.                                    *)
(*                                                                         *)
(* Part 1: the object of one field, from each producer.                    *)
(* Part 2: the source and what is published: DocumentsAreWellFormed,       *)
(*         MacroPublishesWhole.                                            *)
(* Part 3: the sort of the variants by tag.                                *)
(* Part 4: the recursions over nested structs, which come to an end        *)
(*         because the sources are finite (SourcesAreFinite); the walk of  *)
(*         the exporter.                                                   *)
(* Part 5: ReorderingKeepsDocument, ContractTablesAgree.                   *)
(* Part 6: WalletKnowsLayout.                                              *)
(***************************************************************************)
EXTENDS DocumentReader, FiniteSetTheorems, WellFoundedInduction, TLAPS

(***************************************************************************)
(* Part 1: the object of a field.                                          *)
(***************************************************************************)

(* What the kinds of fields are made of. *)
LEMMA PlainKinds ==
  ASSUME NEW kind
  PROVE  /\ FixedKind(kind) => kind.k \in {"scalar", "array"}
         /\ PlainKind(kind) => kind.k \in {"scalar", "array", "bytes"}
<1>1. Kind("bytes").k = "bytes"
  BY DEF Kind
<1> QED BY <1>1 DEF PlainKind, FixedKind

(* The kinds the derives accept, with what a plain one can be. *)
LEMMA KindsOfFields ==
  ASSUME NEW schema, NEW kind, FieldKind(schema, kind)
  PROVE  \/ PlainKind(kind) /\ kind.k \in {"scalar", "array", "bytes"}
         \/ kind.k = "opt" /\ kind = Of("opt", kind.of) /\ PlainKind(kind.of)
         \/ kind.k = "vec" /\ kind = Of("vec", kind.of) /\ FixedKind(kind.of)
         \/ kind.k = "struct" /\ kind.path \in DOMAIN schema.structs
         \/ kind.k = "union" /\ kind.path \in DOMAIN schema.unions
  BY PlainKinds DEF FieldKind

(* The type of a field in the exporter's document is the type name of its  *)
(* wire kind, and no more of it is said unless it is nested.               *)
LEMMA TypeJson ==
  ASSUME NEW schema, NEW kind, FieldKind(schema, kind), NEW nested
  PROVE  LET json == type_json(schema, TypeSchema(kind), nested)
         IN  /\ json["type"] = wire_type_name(kind)
             /\ "type" \in DOMAIN json
             /\ DOMAIN json \subseteq {"type", "items", "fields", "variants"}
             /\ kind.k = "vec" => json = [type |-> wire_type_name(kind), items |-> [type |-> wire_type_name(kind.of)]]
             /\ kind.k # "vec" /\ ~IsNestedKind(kind) => json = [type |-> wire_type_name(kind)]
<1> DEFINE json == type_json(schema, TypeSchema(kind), nested)
<1>1. ASSUME NEW k, PlainKind(k)
      PROVE  /\ plain_json(schema, PlainSchema(k), nested) = [type |-> wire_type_name(k)]
             /\ PlainSchema(k).ty \in {"uint", "fixed_bytes", "bytes"}
             /\ k.k \in {"scalar", "array", "bytes"}
  <2>1. CASE k.k = "scalar"
    <3>1. PlainSchema(k) = [ty |-> "uint", bits |-> 8 * k.size]
      BY <2>1 DEF PlainSchema
    <3>2. plain_json(schema, PlainSchema(k), nested) = [type |-> [idl |-> "uint", n |-> 8 * k.size]]
      BY <3>1 DEF plain_json, TypeName
    <3>3. wire_type_name(k) = [idl |-> "uint", n |-> 8 * k.size]
      BY <2>1 DEF wire_type_name, Uint
    <3> QED BY <2>1, <3>1, <3>2, <3>3
  <2>2. CASE k.k = "array"
    <3>1. PlainSchema(k) = [ty |-> "fixed_bytes", length |-> k.size]
      BY <2>2 DEF PlainSchema
    <3>2. plain_json(schema, PlainSchema(k), nested) = [type |-> BytesFixed(k.size)]
      BY <3>1 DEF plain_json, TypeName
    <3>3. wire_type_name(k) = BytesFixed(k.size)
      BY <2>2 DEF wire_type_name
    <3> QED BY <2>2, <3>1, <3>2, <3>3
  <2>3. CASE k.k = "bytes"
    <3>1. PlainSchema(k) = [ty |-> "bytes"]
      BY <2>3 DEF PlainSchema
    <3>2. plain_json(schema, PlainSchema(k), nested) = [type |-> Bytes]
      BY <3>1 DEF plain_json, TypeName
    <3>3. wire_type_name(k) = Bytes
      BY <2>3 DEF wire_type_name
    <3> QED BY <2>3, <3>1, <3>2, <3>3
  <2> QED BY <1>1, <2>1, <2>2, <2>3, PlainKinds
<1>2. CASE PlainKind(kind)
  <2>1. /\ TypeSchema(kind) = PlainSchema(kind)
        /\ kind.k # "vec"
    BY <1>1, <1>2 DEF TypeSchema
  <2>2. json = [type |-> wire_type_name(kind)]
    BY <1>1, <1>2, <2>1 DEF type_json
  <2> QED BY <2>1, <2>2
<1>3. CASE kind.k = "opt" /\ PlainKind(kind.of)
  <2>1. TypeSchema(kind) = [ty |-> "optional", inner |-> PlainSchema(kind.of)]
    BY <1>3 DEF TypeSchema
  <2>2. json = plain_json(schema, PlainSchema(kind.of), nested)
    BY <2>1 DEF type_json
  <2>3. wire_type_name(kind) = wire_type_name(kind.of)
    BY <1>1, <1>3 DEF wire_type_name
  <2> QED BY <1>1, <1>3, <2>2, <2>3
<1>4. CASE kind.k = "vec" /\ FixedKind(kind.of)
  <2>1. TypeSchema(kind) = [ty |-> "vector", element |-> PlainSchema(kind.of)]
    BY <1>4 DEF TypeSchema
  <2>2. json = [type |-> [idl |-> "vector"], items |-> plain_json(schema, PlainSchema(kind.of), nested)]
    BY <2>1 DEF type_json
  <2>3. wire_type_name(kind) = [idl |-> "vector"]
    BY <1>4 DEF wire_type_name
  <2>4. plain_json(schema, PlainSchema(kind.of), nested) = [type |-> wire_type_name(kind.of)]
    BY <1>1, <1>4 DEF PlainKind
  <2> QED BY <1>4, <2>2, <2>3, <2>4
<1>5. CASE kind.k = "struct"
  <2>1. TypeSchema(kind) = [ty |-> "struct", schema |-> kind.path]
    BY <1>5 DEF TypeSchema, PlainSchema
  <2>2. json = [type |-> Struct, fields |-> nested[kind.path]]
    BY <2>1 DEF type_json, plain_json
  <2>3. wire_type_name(kind) = Struct
    BY <1>5 DEF wire_type_name
  <2> QED BY <1>5, <2>2, <2>3 DEF IsNestedKind
<1>6. CASE kind.k = "union"
  <2>1. TypeSchema(kind) = [ty |-> "union", schema |-> kind.path]
    BY <1>6 DEF TypeSchema, PlainSchema
  <2>2. json = union_json(schema, kind.path, nested)
    BY <2>1 DEF type_json, plain_json
  <2>3. wire_type_name(kind) = [idl |-> "union"]
    BY <1>6 DEF wire_type_name
  <2> QED BY <1>6, <2>2, <2>3 DEF IsNestedKind, union_json
<1> QED BY <1>2, <1>3, <1>4, <1>5, <1>6 DEF FieldKind

(* Only the name of a union type says union. *)
LEMMA UnionTypes ==
  ASSUME NEW schema, NEW kind, FieldKind(schema, kind)
  PROVE  wire_type_name(kind) = [idl |-> "union"] <=> kind.k = "union"
<1> DEFINE bare == IF kind.k = "opt" THEN kind.of ELSE kind
<1>1. bare.k \in {"scalar", "array", "bytes", "vec", "struct", "union"}
  BY KindsOfFields, PlainKinds
<1>2. bare.k = "union" <=> kind.k = "union"
  BY KindsOfFields, PlainKinds
<1> HIDE DEF bare
<1>3. wire_type_name(kind) = [idl |-> "union"] <=> bare.k = "union"
  <2>1. CASE bare.k = "scalar"
    <3>1. wire_type_name(kind) = Uint(bare.size)
      BY <2>1 DEF wire_type_name, bare
    <3> QED BY <2>1, <3>1 DEF Uint
  <2>2. CASE bare.k = "array"
    <3>1. wire_type_name(kind) = BytesFixed(bare.size)
      BY <2>2 DEF wire_type_name, bare
    <3> QED BY <2>2, <3>1 DEF BytesFixed
  <2>3. CASE bare.k \in {"bytes", "vec", "struct", "union"}
    BY <2>3 DEF wire_type_name, bare, Bytes, Struct
  <2> QED BY <1>1, <2>1, <2>2, <2>3
<1> QED BY <1>2, <1>3

(* What field_json makes of a meta whose type is that json, key by key.    *)
Describes(object, json, meta) ==
  /\ DOMAIN object = DOMAIN json \cup {"name", "required"}
       \cup (IF meta.description = NoText THEN {} ELSE {"description"})
       \cup (IF meta.label = NoLabel THEN {} ELSE {"wire_type"})
  /\ object["name"] = meta.name
  /\ object["required"] = meta.required
  /\ object["type"] = EffectiveType(meta)
  /\ meta.description # NoText => object["description"] = meta.description
  /\ meta.label # NoLabel => object["wire_type"] = wire_type_name(meta.kind)
  /\ \A k \in {"items", "fields", "variants"} \cap DOMAIN json : object[k] = json[k]
  /\ object = [k \in DOMAIN object |-> object[k]]

(* The exporter describes every field the derives accept so. *)
LEMMA FieldJson ==
  ASSUME NEW schema, NEW meta, FieldKind(schema, meta.kind),
         meta.kind.k = "union" => meta.label = NoLabel, NEW nested
  PROVE  Describes(field_json(schema, FieldSchema(meta), nested),
                   type_json(schema, TypeSchema(meta.kind), nested), meta)
<1> DEFINE json   == type_json(schema, TypeSchema(meta.kind), nested)
           named  == insert(json, "name", meta.name)
           required == insert(named, "required", meta.required)
           described == insert_some(required, "description", meta.description, NoText)
           longer == insert(required, "description", meta.description)
           typed  == insert(described, "type", Label(meta.label))
           wired  == insert(typed, "wire_type", json["type"])
           object == field_json(schema, FieldSchema(meta), nested)
<1>1. /\ "type" \in DOMAIN json /\ DOMAIN json \subseteq {"type", "items", "fields", "variants"}
      /\ json["type"] = wire_type_name(meta.kind)
  BY TypeJson
<1> HIDE DEF json
<1>2. /\ object = IF meta.label # NoLabel /\ json["type"] # [idl |-> "union"]
                  THEN wired ELSE described
      /\ named = insert(json, "name", meta.name)
      /\ required = insert(named, "required", meta.required)
      /\ described = IF meta.description = NoText THEN required ELSE longer
      /\ longer = insert(required, "description", meta.description)
      /\ typed = insert(described, "type", Label(meta.label))
      /\ wired = insert(typed, "wire_type", json["type"])
  BY DEF field_json, Described, FieldSchema, json, insert_some
<1> HIDE DEF object, named, required, described, longer, typed, wired
<1>3. /\ DOMAIN named = DOMAIN json \cup {"name"}
      /\ named["name"] = meta.name
      /\ \A k \in DOMAIN json : named[k] = json[k]
  BY <1>1, <1>2 DEF insert
<1>4. /\ DOMAIN required = DOMAIN json \cup {"name", "required"}
      /\ required["required"] = meta.required
      /\ \A k \in DOMAIN json \cup {"name"} : required[k] = named[k]
      /\ required = [k \in DOMAIN required |-> required[k]]
  BY <1>1, <1>2, <1>3 DEF insert
<1>5. /\ DOMAIN longer = DOMAIN required \cup {"description"}
      /\ longer["description"] = meta.description
      /\ \A k \in DOMAIN json \cup {"name", "required"} : longer[k] = required[k]
      /\ longer = [k \in DOMAIN longer |-> longer[k]]
  BY <1>1, <1>2, <1>4 DEF insert
<1>6. /\ described["type"] = wire_type_name(meta.kind)
      /\ described["name"] = meta.name
      /\ described["required"] = meta.required
      /\ \A k \in {"items", "fields", "variants"} \cap DOMAIN json : described[k] = json[k]
      /\ meta.description # NoText => described["description"] = meta.description
      /\ DOMAIN described = DOMAIN json \cup {"name", "required"}
           \cup (IF meta.description = NoText THEN {} ELSE {"description"})
      /\ described = [k \in DOMAIN described |-> described[k]]
  <2>1. CASE meta.description = NoText
    BY <1>1, <1>2, <1>3, <1>4, <2>1
  <2>2. CASE meta.description # NoText
    BY <1>1, <1>2, <1>3, <1>4, <1>5, <2>2
  <2> QED BY <2>1, <2>2
<1>7. CASE meta.label = NoLabel
  <2>1. object = described
    BY <1>2, <1>7
  <2> QED BY <1>6, <1>7, <2>1 DEF EffectiveType, Describes, object, json
<1>8. CASE meta.label # NoLabel
  <2>1. object = wired
    BY <1>1, <1>2, <1>8, UnionTypes
  <2>2. /\ DOMAIN typed = DOMAIN described
        /\ typed["type"] = Label(meta.label)
        /\ \A k \in DOMAIN described : k # "type" => typed[k] = described[k]
    BY <1>1, <1>2, <1>6 DEF insert
  <2>3. /\ DOMAIN wired = DOMAIN described \cup {"wire_type"}
        /\ wired["wire_type"] = json["type"]
        /\ \A k \in DOMAIN described : k # "wire_type" => wired[k] = typed[k]
        /\ wired = [k \in DOMAIN wired |-> wired[k]]
    BY <1>2, <2>2 DEF insert
  <2>4. /\ wired["name"] = meta.name
        /\ wired["required"] = meta.required
        /\ wired["type"] = Label(meta.label)
        /\ meta.description # NoText => wired["description"] = meta.description
        /\ wired["wire_type"] = wire_type_name(meta.kind)
        /\ \A k \in {"items", "fields", "variants"} \cap DOMAIN json : wired[k] = json[k]
    BY <1>1, <1>6, <2>2, <2>3
  <2> QED BY <1>6, <1>8, <2>1, <2>3, <2>4 DEF EffectiveType, Describes, object, json
<1> QED BY <1>7, <1>8

(* What build_idl makes of a meta, key by key.                             *)
LEMMA MacroJson ==
  ASSUME NEW meta
  PROVE  LET object == MacroField(meta)
         IN  /\ DOMAIN object = {"name", "type", "required"}
                  \cup (IF meta.label = NoLabel THEN {} ELSE {"wire_type"})
                  \cup (IF meta.kind.k = "vec" THEN {"items"} ELSE {})
                  \cup (IF meta.description = NoText THEN {} ELSE {"description"})
             /\ object["name"] = meta.name
             /\ object["required"] = meta.required
             /\ object["type"] = EffectiveType(meta)
             /\ meta.label # NoLabel => object["wire_type"] = wire_type_name(meta.kind)
             /\ meta.kind.k = "vec" => object["items"] = [type |-> wire_type_name(meta.kind.of)]
             /\ meta.description # NoText => object["description"] = meta.description
             /\ object = [k \in DOMAIN object |-> object[k]]
<1> DEFINE named  == [name |-> meta.name, type |-> EffectiveType(meta), required |-> meta.required]
           wired  == IF meta.label = NoLabel THEN named
                     ELSE insert(named, "wire_type", wire_type_name(meta.kind))
           items  == IF meta.kind.k # "vec" THEN wired
                     ELSE insert(wired, "items", [type |-> wire_type_name(meta.kind.of)])
           object == MacroField(meta)
<1>1. /\ DOMAIN named = {"name", "type", "required"}
      /\ named["name"] = meta.name /\ named["required"] = meta.required
      /\ named["type"] = EffectiveType(meta)
      /\ named = [k \in DOMAIN named |-> named[k]]
  OBVIOUS
<1>2. /\ wired = IF meta.label = NoLabel THEN named
                 ELSE insert(named, "wire_type", wire_type_name(meta.kind))
      /\ items = IF meta.kind.k # "vec" THEN wired
                 ELSE insert(wired, "items", [type |-> wire_type_name(meta.kind.of)])
      /\ object = IF meta.description = NoText THEN items
                  ELSE insert(items, "description", meta.description)
  BY DEF MacroField, insert_some
<1> HIDE DEF named, wired, items, object
<1>3. /\ DOMAIN wired = DOMAIN named \cup (IF meta.label = NoLabel THEN {} ELSE {"wire_type"})
      /\ meta.label # NoLabel => wired["wire_type"] = wire_type_name(meta.kind)
      /\ \A k \in DOMAIN named : wired[k] = named[k]
      /\ wired = [k \in DOMAIN wired |-> wired[k]]
  <2>1. CASE meta.label = NoLabel
    BY <1>1, <1>2, <2>1
  <2>2. CASE meta.label # NoLabel
    BY <1>1, <1>2, <2>2 DEF insert
  <2> QED BY <2>1, <2>2
<1>4. /\ DOMAIN items = DOMAIN wired \cup (IF meta.kind.k = "vec" THEN {"items"} ELSE {})
      /\ meta.kind.k = "vec" => items["items"] = [type |-> wire_type_name(meta.kind.of)]
      /\ \A k \in DOMAIN wired : items[k] = wired[k]
      /\ items = [k \in DOMAIN items |-> items[k]]
  <2>1. CASE meta.kind.k # "vec"
    BY <1>2, <1>3, <2>1
  <2>2. CASE meta.kind.k = "vec"
    BY <1>1, <1>2, <1>3, <2>2 DEF insert
  <2> QED BY <2>1, <2>2
<1>5. /\ DOMAIN object = DOMAIN items \cup (IF meta.description = NoText THEN {} ELSE {"description"})
      /\ meta.description # NoText => object["description"] = meta.description
      /\ \A k \in DOMAIN items : object[k] = items[k]
      /\ object = [k \in DOMAIN object |-> object[k]]
  <2>1. CASE meta.description = NoText
    BY <1>2, <1>4, <2>1
  <2>2. CASE meta.description # NoText
    BY <1>1, <1>2, <1>3, <1>4, <2>2 DEF insert
  <2> QED BY <2>1, <2>2
<1>6. /\ object["name"] = meta.name
      /\ object["required"] = meta.required
      /\ object["type"] = EffectiveType(meta)
  BY <1>1, <1>3, <1>4, <1>5
<1>7. meta.label # NoLabel => object["wire_type"] = wire_type_name(meta.kind)
  BY <1>3, <1>4, <1>5
<1>8. meta.kind.k = "vec" => object["items"] = [type |-> wire_type_name(meta.kind.of)]
  BY <1>4, <1>5
<1>9. DOMAIN object = {"name", "type", "required"}
                  \cup (IF meta.label = NoLabel THEN {} ELSE {"wire_type"})
                  \cup (IF meta.kind.k = "vec" THEN {"items"} ELSE {})
                  \cup (IF meta.description = NoText THEN {} ELSE {"description"})
  BY <1>1, <1>3, <1>4, <1>5
<1> QED BY <1>5, <1>6, <1>7, <1>8, <1>9 DEF object

(* Of a field without nested types both producers make one object.         *)
LEMMA SameObject ==
  ASSUME NEW schema, NEW meta, FieldKind(schema, meta.kind), ~IsNestedKind(meta.kind), NEW nested
  PROVE  field_json(schema, FieldSchema(meta), nested) = MacroField(meta)
<1> DEFINE json    == type_json(schema, TypeSchema(meta.kind), nested)
           theirs  == field_json(schema, FieldSchema(meta), nested)
           ours    == MacroField(meta)
<1>1. /\ meta.kind.k = "vec" => /\ DOMAIN json = {"type", "items"}
                                /\ json["items"] = [type |-> wire_type_name(meta.kind.of)]
      /\ meta.kind.k # "vec" => DOMAIN json = {"type"}
  <2>1. CASE meta.kind.k = "vec"
    <3>1. json = [type |-> wire_type_name(meta.kind), items |-> [type |-> wire_type_name(meta.kind.of)]]
      BY <2>1, TypeJson
    <3> QED BY <2>1, <3>1
  <2>2. CASE meta.kind.k # "vec"
    <3>1. json = [type |-> wire_type_name(meta.kind)]
      BY <2>2, TypeJson
    <3> QED BY <2>2, <3>1
  <2> QED BY <2>1, <2>2
<1>2. meta.kind.k # "union"
  BY DEF IsNestedKind
<1>3. Describes(theirs, json, meta)
  BY <1>2, FieldJson
<1>4. /\ DOMAIN ours = {"name", "type", "required"}
           \cup (IF meta.label = NoLabel THEN {} ELSE {"wire_type"})
           \cup (IF meta.kind.k = "vec" THEN {"items"} ELSE {})
           \cup (IF meta.description = NoText THEN {} ELSE {"description"})
      /\ ours["name"] = meta.name
      /\ ours["required"] = meta.required
      /\ ours["type"] = EffectiveType(meta)
      /\ meta.label # NoLabel => ours["wire_type"] = wire_type_name(meta.kind)
      /\ meta.kind.k = "vec" => ours["items"] = [type |-> wire_type_name(meta.kind.of)]
      /\ meta.description # NoText => ours["description"] = meta.description
      /\ ours = [k \in DOMAIN ours |-> ours[k]]
  BY MacroJson
<1> HIDE DEF json, theirs, ours
<1>5. DOMAIN theirs = DOMAIN ours
  BY <1>1, <1>3, <1>4 DEF Describes
<1>6. ASSUME NEW k \in DOMAIN ours PROVE theirs[k] = ours[k]
  BY <1>1, <1>3, <1>4 DEF Describes
<1> QED BY <1>3, <1>4, <1>5, <1>6 DEF Describes, theirs, ours

(* An object has the keys of the format.                                   *)
LEMMA ObjectKeys ==
  ASSUME NEW schema, NEW meta, FieldKind(schema, meta.kind),
         meta.kind.k = "union" => meta.label = NoLabel, NEW nested
  PROVE  Object(field_json(schema, FieldSchema(meta), nested))
<1> DEFINE json   == type_json(schema, TypeSchema(meta.kind), nested)
           object == field_json(schema, FieldSchema(meta), nested)
<1>1. "type" \in DOMAIN json /\ DOMAIN json \subseteq {"type", "items", "fields", "variants"}
  BY TypeJson
<1>2. Describes(object, json, meta)
  BY FieldJson
<1> HIDE DEF json, object
<1> QED BY <1>1, <1>2 DEF Describes, Object, Keys, object

(***************************************************************************)
(* Part 2: the source, and what is published of it.                        *)
(***************************************************************************)
(* What the author does to the variants of one union. *)
Reordering(variants, order) ==
  /\ order \in [DOMAIN variants -> DOMAIN variants]
  /\ \A i, j \in DOMAIN order : order[i] = order[j] => i = j

Reordered(variants, order) == [i \in DOMAIN order |-> variants[order[i]]]

(* The author's step changes the order of one union's variants, no more.   *)
LEMMA ReorderStep ==
  ASSUME AcceptedSource(source), ReorderVariants
  PROVE  /\ UNCHANGED <<artifact, exported>>
         /\ source'.top = source.top /\ source'.structs = source.structs
         /\ DOMAIN source'.unions = DOMAIN source.unions
         /\ source' = [top |-> source'.top, structs |-> source'.structs, unions |-> source'.unions]
         /\ \E u \in DOMAIN source.unions : \E order :
              /\ Reordering(source.unions[u], order)
              /\ source'.unions[u] = Reordered(source.unions[u], order)
              /\ \A w \in DOMAIN source.unions : w # u => source'.unions[w] = source.unions[w]
<1>1. PICK u \in DOMAIN source.unions :
      \E order \in [DOMAIN source.unions[u] -> DOMAIN source.unions[u]] :
        /\ \A i, j \in DOMAIN order : order[i] = order[j] => i = j
        /\ source' = [source EXCEPT !.unions[u] = [i \in DOMAIN order |-> @[order[i]]]]
        /\ UNCHANGED <<artifact, exported>>
  BY DEF ReorderVariants
<1>2. PICK order \in [DOMAIN source.unions[u] -> DOMAIN source.unions[u]] :
        /\ \A i, j \in DOMAIN order : order[i] = order[j] => i = j
        /\ source' = [source EXCEPT !.unions[u] = [i \in DOMAIN order |-> @[order[i]]]]
        /\ UNCHANGED <<artifact, exported>>
  BY <1>1
<1> DEFINE now == Reordered(source.unions[u], order)
           unions == [source.unions EXCEPT ![u] = now]
<1>3. source = [top |-> source.top, structs |-> source.structs, unions |-> source.unions]
  BY DEF AcceptedSource
<1>4. source' = [source EXCEPT !.unions = unions]
  BY <1>2 DEF Reordered
<1>5. /\ DOMAIN unions = DOMAIN source.unions /\ unions[u] = now
      /\ \A w \in DOMAIN source.unions : w # u => unions[w] = source.unions[w]
  OBVIOUS
<1> HIDE DEF unions, now
<1>6. source' = [top |-> source.top, structs |-> source.structs, unions |-> unions]
  BY <1>3, <1>4
<1>7. source'.top = source.top /\ source'.structs = source.structs /\ source'.unions = unions
  BY <1>6
<1>8. Reordering(source.unions[u], order)
  BY <1>2 DEF Reordering
<1> QED BY <1>1, <1>2, <1>5, <1>6, <1>7, <1>8 DEF now

(* Reordered variants are variants of the same tags, none twice.           *)
LEMMA ReorderedVariants ==
  ASSUME NEW V, NEW variants \in Seq(V), NEW order, Reordering(variants, order),
         \A i, j \in DOMAIN variants : variants[i].tag = variants[j].tag => i = j
  PROVE  LET now == Reordered(variants, order)
         IN  /\ now \in Seq(V) /\ DOMAIN now = DOMAIN variants
             /\ \A i \in DOMAIN now : now[i] = variants[order[i]] /\ order[i] \in DOMAIN variants
             /\ \A i, j \in DOMAIN now : now[i].tag = now[j].tag => i = j
<1> DEFINE now == Reordered(variants, order)
<1>1. /\ Len(variants) \in Nat /\ DOMAIN variants = 1 .. Len(variants)
      /\ \A i \in DOMAIN variants : variants[i] \in V
  OBVIOUS
<1>2. /\ DOMAIN order = DOMAIN variants
      /\ \A i \in DOMAIN variants : order[i] \in DOMAIN variants
      /\ \A i, j \in DOMAIN variants : order[i] = order[j] => i = j
  BY DEF Reordering
<1>3. /\ now = [i \in 1 .. Len(variants) |-> variants[order[i]]]
  BY <1>1, <1>2 DEF Reordered
<1> HIDE DEF now
<1>4. now \in Seq(V)
  <2>1. \A i \in 1 .. Len(variants) : variants[order[i]] \in V
    BY <1>1, <1>2
  <2> QED BY <1>1, <1>3, <2>1
<1>5. \A i \in DOMAIN variants : now[i] = variants[order[i]]
  BY <1>1, <1>3
<1> QED BY <1>1, <1>2, <1>3, <1>4, <1>5 DEF now

(* The derives accept a source whose variants have moved. *)
LEMMA SourceStaysAccepted ==
  ASSUME AcceptedSource(source), ReorderVariants
  PROVE  AcceptedSource(source)'
<1>1. /\ source'.top = source.top /\ source'.structs = source.structs
      /\ DOMAIN source'.unions = DOMAIN source.unions
      /\ source' = [top |-> source'.top, structs |-> source'.structs, unions |-> source'.unions]
  BY ReorderStep
<1>2. PICK u \in DOMAIN source.unions : \E order :
        /\ Reordering(source.unions[u], order)
        /\ source'.unions[u] = Reordered(source.unions[u], order)
        /\ \A w \in DOMAIN source.unions : w # u => source'.unions[w] = source.unions[w]
  BY ReorderStep
<1>3. source'.top \in DOMAIN source'.structs
  BY <1>1 DEF AcceptedSource
<1>4. ASSUME NEW s \in DOMAIN source'.structs, NEW i \in DOMAIN source'.structs[s]
      PROVE  FieldMeta(source', source'.structs[s][i])
  BY <1>1 DEF AcceptedSource, FieldMeta, FieldKind
<1>5. ASSUME NEW w \in DOMAIN source'.unions
      PROVE  LET variants == source'.unions[w]
             IN  /\ variants \in Seq(Variants(source'))
                 /\ \A i, j \in DOMAIN variants : variants[i].tag = variants[j].tag => i = j
  <2>1. Variants(source') = Variants(source)
    BY <1>1 DEF Variants
  <2>2. /\ source.unions[w] \in Seq(Variants(source))
        /\ \A i, j \in DOMAIN source.unions[w] :
             source.unions[w][i].tag = source.unions[w][j].tag => i = j
    BY <1>1, <1>5 DEF AcceptedSource
  <2>3. CASE w # u
    BY <1>1, <1>2, <2>1, <2>2, <2>3
  <2>4. CASE w = u
    <3>1. PICK order : /\ Reordering(source.unions[u], order)
                       /\ source'.unions[u] = Reordered(source.unions[u], order)
      BY <1>2
    <3> HIDE DEF Variants
    <3>2. LET now == Reordered(source.unions[u], order)
          IN  /\ now \in Seq(Variants(source)) /\ DOMAIN now = DOMAIN source.unions[u]
              /\ \A i \in DOMAIN now : now[i] = source.unions[u][order[i]] /\ order[i] \in DOMAIN source.unions[u]
              /\ \A i, j \in DOMAIN now : now[i].tag = now[j].tag => i = j
      BY <2>2, <2>4, <3>1, ReorderedVariants
    <3> QED BY <2>1, <2>4, <3>1, <3>2
  <2> QED BY <2>3, <2>4
<1> QED BY <1>1, <1>3, <1>4, <1>5 DEF AcceptedSource

(* What the derive has left, and that the source stays what was accepted.  *)
PublishedInv ==
  /\ AcceptedSource(source)
  /\ TypeOK
  /\ artifact # Absent => artifact = build_idl(Top(source)) /\ ~Recursive(Top(source))

(* The fields of the witness are of the kinds the derives accept. *)
LEMMA TopFields ==
  ASSUME AcceptedSource(source), NEW i \in DOMAIN Top(source)
  PROVE  /\ FieldKind(source, Top(source)[i].kind)
         /\ Top(source)[i].kind.k = "union" => Top(source)[i].label = NoLabel
  BY DEF AcceptedSource, FieldMeta, Top

(* The document of a flat witness, from both producers.                    *)
LEMMA FlatDocument ==
  ASSUME AcceptedSource(source), ~Recursive(Top(source)), NEW nested
  PROVE  fields_json(source, Top(source), nested) = build_idl(Top(source))
<1>1. ASSUME NEW i \in DOMAIN Top(source)
      PROVE  field_json(source, FieldSchema(Top(source)[i]), nested) = MacroField(Top(source)[i])
  <2>1. ~IsNestedKind(Top(source)[i].kind)
    BY DEF Recursive
  <2> QED BY <2>1, TopFields, SameObject
<1> QED BY <1>1 DEF fields_json, build_idl

(* The exporter writes an object of the format for each field. *)
LEMMA DocumentObjects ==
  ASSUME AcceptedSource(source), NEW nested
  PROVE  LET document == fields_json(source, Top(source), nested)
         IN  /\ DOMAIN document = DOMAIN Top(source)
             /\ \A i \in DOMAIN document : Object(document[i])
<1>1. ASSUME NEW i \in DOMAIN Top(source)
      PROVE  Object(field_json(source, FieldSchema(Top(source)[i]), nested))
  BY TopFields, ObjectKeys
<1> QED BY <1>1 DEF fields_json

(* The three facts that make PublishedInv an invariant. *)
LEMMA PublishedInitially == Init => PublishedInv
  BY SourcesAssumption DEF Init, PublishedInv, TypeOK

(* Every step keeps it. *)
LEMMA PublishedStep == PublishedInv /\ [Next]_vars => PublishedInv'
<1> SUFFICES ASSUME PublishedInv, [Next]_vars PROVE PublishedInv'
  OBVIOUS
<1>0. AcceptedSource(source) /\ TypeOK
  BY DEF PublishedInv
<1>1. CASE Expand
  <2>0. UNCHANGED <<source, exported>>
    BY <1>1 DEF Expand
  <2>1. CASE Recursive(Top(source))
    BY <1>0, <1>1, <2>0, <2>1 DEF Expand, PublishedInv, TypeOK
  <2>2. CASE ~Recursive(Top(source))
    <3>1. artifact' = build_idl(Top(source))
      BY <1>1, <2>2 DEF Expand
    <3>2. artifact' = document_for(source)
      BY <1>0, <2>2, <3>1, FlatDocument DEF document_for
    <3>3. DOMAIN artifact' = DOMAIN Top(source) /\ \A i \in DOMAIN artifact' : Object(artifact'[i])
      BY <1>0, <3>2, DocumentObjects DEF document_for
    <3> QED BY <1>0, <2>0, <2>2, <3>1, <3>3 DEF PublishedInv, TypeOK
  <2> QED BY <2>1, <2>2
<1>2. CASE Export
  <2>1. exported' = document_for(source) /\ UNCHANGED <<source, artifact>>
    BY <1>2 DEF Export
  <2>2. DOMAIN exported' = DOMAIN Top(source) /\ \A i \in DOMAIN exported' : Object(exported'[i])
    BY <1>0, <2>1, DocumentObjects DEF document_for
  <2> QED BY <2>1, <2>2 DEF PublishedInv, TypeOK
<1>3. CASE ReorderVariants
  <2>1. AcceptedSource(source)'
    BY <1>0, <1>3, SourceStaysAccepted
  <2>2. Top(source') = Top(source) /\ UNCHANGED <<artifact, exported>>
    BY <1>0, <1>3, ReorderStep DEF Top
  <2> QED BY <2>1, <2>2 DEF PublishedInv, TypeOK
<1>4. CASE UNCHANGED vars
  BY <1>4 DEF vars, PublishedInv, TypeOK
<1> QED BY <1>1, <1>2, <1>3, <1>4 DEF Next

(* So it holds throughout. *)
LEMMA PublishedInvariant == Spec => []PublishedInv
  BY PublishedInitially, PublishedStep, PTL DEF Spec

(* A document has an object per declared field, each with the keys of the  *)
(* format and no others, whichever producer wrote it.                      *)
THEOREM DocumentsAreWellFormed == Spec => []TypeOK
<1>1. PublishedInv => TypeOK
  BY DEF PublishedInv
<1> QED BY PublishedInvariant, <1>1, PTL

(* What the macro leaves in idl.json is the document the exporter makes of *)
(* the same source, for every flat struct; of a recursive one it publishes *)
(* nothing.                                                                *)
THEOREM MacroPublishesWhole == Spec => []PublishedIsComplete
<1>1. PublishedInv => PublishedIsComplete
  BY FlatDocument DEF PublishedInv, PublishedIsComplete, document_for
<1> QED BY PublishedInvariant, <1>1, PTL

(***************************************************************************)
(* Part 3: the sort of the variants by tag.                                *)
(***************************************************************************)
(* n variants whose tags differ. *)
Tagged(variants, n) ==
  /\ n \in Nat /\ DOMAIN variants = 1 .. n
  /\ \A i \in 1 .. n : variants[i].tag \in Nat
  /\ \A i, j \in 1 .. n : variants[i].tag = variants[j].tag => i = j

(* The variants that the sort leaves no later than this one.               *)
NoLater(variants, i) == {j \in DOMAIN variants : variants[j].tag <= variants[i].tag}

LEMMA RankCounts ==
  ASSUME NEW variants, NEW n, Tagged(variants, n), NEW i \in 1 .. n
  PROVE  /\ IsFiniteSet(NoLater(variants, i))
         /\ Rank(variants, i) = Cardinality(NoLater(variants, i))
         /\ Rank(variants, i) \in 1 .. n
<1> DEFINE below == NoLater(variants, i)
<1>1. Rank(variants, i) = Cardinality(below)
  <2>1. \A j \in 1 .. n :
          (\/ variants[j].tag < variants[i].tag
           \/ variants[j].tag = variants[i].tag /\ j <= i)
          <=> variants[j].tag <= variants[i].tag
    <3> SUFFICES ASSUME NEW j \in 1 .. n
                 PROVE  (\/ variants[j].tag < variants[i].tag
                         \/ variants[j].tag = variants[i].tag /\ j <= i)
                        <=> variants[j].tag <= variants[i].tag
      OBVIOUS
    <3>1. /\ variants[j].tag \in Nat /\ variants[i].tag \in Nat
          /\ variants[j].tag = variants[i].tag => j = i
      BY DEF Tagged
    <3> QED BY <3>1
  <2>2. {j \in DOMAIN variants : \/ variants[j].tag < variants[i].tag
                                 \/ variants[j].tag = variants[i].tag /\ j <= i} = below
    BY <2>1 DEF NoLater, Tagged
  <2> QED BY <2>2 DEF Rank
<1>2. below \subseteq 1 .. n /\ i \in below
  BY DEF NoLater, Tagged
<1> HIDE DEF below
<1>3. n \in Nat /\ IsFiniteSet(1 .. n) /\ Cardinality(1 .. n) = n
  <2>1. n \in Nat
    BY DEF Tagged
  <2> QED BY <2>1, FS_Interval
<1>4. IsFiniteSet(below) /\ Cardinality(below) <= n
  BY <1>2, <1>3, FS_Subset
<1>5. Cardinality(below) \in Nat /\ Cardinality(below) # 0
  BY <1>2, <1>4, FS_CardinalityType, FS_EmptySet
<1> QED BY <1>1, <1>3, <1>4, <1>5 DEF below

(* Every place is that of one variant. *)
LEMMA RanksArePlaces ==
  ASSUME NEW variants, NEW n, Tagged(variants, n)
  PROVE  /\ \A i, j \in 1 .. n : Rank(variants, i) = Rank(variants, j) => i = j
         /\ \A p \in 1 .. n : \E i \in 1 .. n : Rank(variants, i) = p
<1> DEFINE place == [i \in 1 .. n |-> Rank(variants, i)]
<1>1. ASSUME NEW i \in 1 .. n, NEW j \in 1 .. n, variants[i].tag <= variants[j].tag,
             Rank(variants, i) = Rank(variants, j)
      PROVE  i = j
  <2>1. NoLater(variants, i) \subseteq NoLater(variants, j)
    BY <1>1 DEF NoLater, Tagged
  <2>2. NoLater(variants, j) = NoLater(variants, i)
    BY <1>1, <2>1, RankCounts, FS_Subset
  <2>3. variants[j].tag <= variants[i].tag
    BY <2>2 DEF NoLater, Tagged
  <2> QED BY <1>1, <2>3 DEF Tagged
<1>2. ASSUME NEW i \in 1 .. n, NEW j \in 1 .. n, Rank(variants, i) = Rank(variants, j)
      PROVE  i = j
  <2>1. variants[i].tag <= variants[j].tag \/ variants[j].tag <= variants[i].tag
    BY DEF Tagged
  <2> QED BY <1>1, <1>2, <2>1
<1>3. n \in Nat /\ IsFiniteSet(1 .. n)
  <2>1. n \in Nat
    BY DEF Tagged
  <2> QED BY <2>1, FS_Interval
<1>4. place \in Injection(1 .. n, 1 .. n)
  BY <1>2, RankCounts DEF Injection, IsInjective
<1>5. place \in Surjection(1 .. n, 1 .. n)
  BY <1>3, <1>4, FS_Injection
<1>6. \A p \in 1 .. n : \E i \in 1 .. n : Rank(variants, i) = p
  BY <1>5 DEF Surjection
<1> QED BY <1>2, <1>6

(* Every variant is in the sorted sequence, at its place. *)
LEMMA SortedEntry ==
  ASSUME NEW variants, NEW n, Tagged(variants, n), NEW i \in 1 .. n
  PROVE  /\ DOMAIN sort_by_tag(variants) = 1 .. n
         /\ Rank(variants, i) \in 1 .. n
         /\ sort_by_tag(variants)[Rank(variants, i)] = variants[i]
<1> DEFINE p == Rank(variants, i)
           c == CHOOSE j \in DOMAIN variants : Rank(variants, j) = p
<1>1. DOMAIN variants = 1 .. n
  BY DEF Tagged
<1>2. p \in 1 .. n
  BY RankCounts
<1>3. c \in DOMAIN variants /\ Rank(variants, c) = p
  BY <1>1
<1>4. c = i
  BY <1>1, <1>3, RanksArePlaces
<1> QED BY <1>1, <1>2, <1>4 DEF sort_by_tag

(* The sorted sequence does not depend on the order of the variants.       *)
LEMMA SortIgnoresOrder ==
  ASSUME NEW variants, NEW n, Tagged(variants, n), NEW order, Reordering(variants, order),
         Tagged(Reordered(variants, order), n)
  PROVE  sort_by_tag(Reordered(variants, order)) = sort_by_tag(variants)
<1> DEFINE now == Reordered(variants, order)
<1>1. /\ n \in Nat /\ IsFiniteSet(1 .. n)
      /\ DOMAIN variants = 1 .. n /\ DOMAIN order = 1 .. n
      /\ order \in [1 .. n -> 1 .. n]
      /\ \A i, j \in 1 .. n : order[i] = order[j] => i = j
  <2>1. n \in Nat /\ DOMAIN variants = 1 .. n
    BY DEF Tagged
  <2>2. IsFiniteSet(1 .. n)
    BY <2>1, FS_Interval
  <2>3. order \in [1 .. n -> 1 .. n] /\ \A i, j \in 1 .. n : order[i] = order[j] => i = j
    BY <2>1 DEF Reordering
  <2> QED BY <2>1, <2>2, <2>3
<1>2. \A i \in 1 .. n : now[i] = variants[order[i]]
  BY <1>1 DEF Reordered
<1>3. DOMAIN now = 1 .. n
  BY <1>1 DEF Reordered
<1>4. order \in Injection(1 .. n, 1 .. n)
  BY <1>1 DEF Injection, IsInjective
<1>5. order \in Surjection(1 .. n, 1 .. n)
  BY <1>1, <1>4, FS_Injection
<1> HIDE DEF now
<1>6. ASSUME NEW i \in 1 .. n PROVE Rank(now, i) = Rank(variants, order[i])
  <2> DEFINE ours   == NoLater(now, i)
             theirs == NoLater(variants, order[i])
             move   == [j \in ours |-> order[j]]
  <2>1. \A j \in 1 .. n : j \in ours <=> order[j] \in theirs
    BY <1>1, <1>2, <1>3 DEF NoLater
  <2>2. ours \subseteq 1 .. n /\ theirs \subseteq 1 .. n
    BY <1>1, <1>3 DEF NoLater
  <2> HIDE DEF ours, theirs
  <2>3. move \in [ours -> theirs]
    BY <2>1, <2>2
  <2>4. \A a, b \in ours : move[a] = move[b] => a = b
    BY <1>1, <2>2
  <2>5. \A t \in theirs : \E a \in ours : move[a] = t
    <3> SUFFICES ASSUME NEW t \in theirs PROVE \E a \in ours : move[a] = t
      OBVIOUS
    <3>1. PICK a \in 1 .. n : order[a] = t
      BY <1>5, <2>2 DEF Surjection
    <3> QED BY <2>1, <3>1
  <2>6. ExistsBijection(ours, theirs)
    <3> HIDE DEF move
    <3>1. move \in Bijection(ours, theirs)
      BY <2>3, <2>4, <2>5 DEF Bijection, Injection, Surjection, IsInjective
    <3> QED BY <3>1 DEF ExistsBijection
  <2>7. /\ IsFiniteSet(ours)
        /\ Rank(now, i) = Cardinality(ours)
    BY RankCounts DEF now, ours
  <2>8. Rank(variants, order[i]) = Cardinality(theirs)
    BY <1>1, RankCounts DEF theirs
  <2> QED BY <2>6, <2>7, <2>8, FS_Bijection
<1>7. ASSUME NEW p \in 1 .. n PROVE sort_by_tag(now)[p] = sort_by_tag(variants)[p]
  <2>1. PICK i \in 1 .. n : Rank(now, i) = p
    BY RanksArePlaces DEF now
  <2>2. sort_by_tag(now)[p] = now[i]
    BY <2>1, SortedEntry DEF now
  <2>3. sort_by_tag(variants)[p] = variants[order[i]]
    BY <1>1, <1>6, <2>1, SortedEntry
  <2> QED BY <1>2, <2>2, <2>3
<1>8. /\ sort_by_tag(now) = [p \in 1 .. n |-> sort_by_tag(now)[p]]
      /\ sort_by_tag(variants) = [p \in 1 .. n |-> sort_by_tag(variants)[p]]
  BY <1>1, <1>3 DEF sort_by_tag
<1>9. sort_by_tag(now) = sort_by_tag(variants)
  <2> DEFINE f == sort_by_tag(now)
             g == sort_by_tag(variants)
  <2>1. f = [p \in 1 .. n |-> f[p]] /\ g = [p \in 1 .. n |-> g[p]]
    BY <1>8
  <2>2. \A p \in 1 .. n : f[p] = g[p]
    BY <1>7
  <2> HIDE DEF f, g
  <2>3. f = g
    BY <2>1, <2>2
  <2> QED BY <2>3 DEF f, g
<1> QED BY <1>9 DEF now

(***************************************************************************)
(* Part 4: the walk of the exporter.  Two sources are alike when they      *)
(* differ in the order of their variants only.                             *)
(***************************************************************************)
Alike(A, B) ==
  /\ A.structs = B.structs
  /\ \A u \in DOMAIN A.unions : sort_by_tag(A.unions[u]) = sort_by_tag(B.unions[u])

(* The fields of every struct that s contains are the same in both. *)
SameBelow(schema, s, g, h) ==
  \A r \in DOMAIN schema.structs : Contains(schema, s, r) => g[r] = h[r]

(* What the derives accept of a union: tags that differ, known structs.    *)
LEMMA VariantsTagged ==
  ASSUME NEW schema, AcceptedSource(schema), NEW u \in DOMAIN schema.unions
  PROVE  /\ Tagged(schema.unions[u], Len(schema.unions[u]))
         /\ \A i \in 1 .. Len(schema.unions[u]) : schema.unions[u][i].struct \in DOMAIN schema.structs
<1>1. /\ schema.unions[u] \in Seq(Variants(schema))
      /\ \A i, j \in DOMAIN schema.unions[u] :
           schema.unions[u][i].tag = schema.unions[u][j].tag => i = j
  BY DEF AcceptedSource
<1> DEFINE variants == schema.unions[u]
<1> HIDE DEF variants
<1>2. /\ Len(variants) \in Nat /\ DOMAIN variants = 1 .. Len(variants)
      /\ \A i \in 1 .. Len(variants) : variants[i] \in Variants(schema)
  <2> HIDE DEF Variants
  <2>1. variants \in Seq(Variants(schema))
    BY <1>1 DEF variants
  <2> QED BY <2>1
<1>3. \A i \in 1 .. Len(variants) : variants[i].tag \in Nat /\ variants[i].struct \in DOMAIN schema.structs
  BY <1>2 DEF Variants
<1> QED BY <1>1, <1>2, <1>3 DEF Tagged, variants

(* The sort moves entries, it makes none.                                  *)
LEMMA SortedFrom ==
  ASSUME NEW variants, NEW n, Tagged(variants, n), NEW p \in DOMAIN sort_by_tag(variants)
  PROVE  \E i \in 1 .. n : sort_by_tag(variants)[p] = variants[i]
<1>1. DOMAIN variants = 1 .. n /\ p \in 1 .. n
  BY DEF Tagged, sort_by_tag
<1>2. PICK i \in 1 .. n : Rank(variants, i) = p
  BY <1>1, RanksArePlaces
<1> QED BY <1>2, SortedEntry

(* A union is described alike where the fields of its variants are.        *)
LEMMA UnionLocal ==
  ASSUME NEW A, NEW B, AcceptedSource(A), NEW u \in DOMAIN A.unions,
         sort_by_tag(A.unions[u]) = sort_by_tag(B.unions[u]), NEW g, NEW h,
         \A i \in DOMAIN A.unions[u] : g[A.unions[u][i].struct] = h[A.unions[u][i].struct]
  PROVE  union_json(A, u, g) = union_json(B, u, h)
<1> DEFINE sorted == sort_by_tag(A.unions[u])
<1>1. \A p \in DOMAIN sorted : g[sorted[p].struct] = h[sorted[p].struct]
  <2> SUFFICES ASSUME NEW p \in DOMAIN sorted PROVE g[sorted[p].struct] = h[sorted[p].struct]
    OBVIOUS
  <2>1. PICK i \in 1 .. Len(A.unions[u]) : sorted[p] = A.unions[u][i]
    BY VariantsTagged, SortedFrom
  <2>2. i \in DOMAIN A.unions[u]
    BY VariantsTagged DEF Tagged
  <2> QED BY <2>1, <2>2
<1>2. sort_by_tag(B.unions[u]) = sorted
  OBVIOUS
<1> HIDE DEF sorted
<1>3. union_json(A, u, g) = [type |-> [idl |-> "union"],
         variants |-> [p \in DOMAIN sorted |->
            [tag |-> sorted[p].tag, name |-> sorted[p].name, fields |-> g[sorted[p].struct]]]]
  BY DEF union_json, sorted
<1>4. union_json(B, u, h) = [type |-> [idl |-> "union"],
         variants |-> [p \in DOMAIN sorted |->
            [tag |-> sorted[p].tag, name |-> sorted[p].name, fields |-> h[sorted[p].struct]]]]
  BY <1>2 DEF union_json
<1> QED BY <1>1, <1>3, <1>4

(* A type is described alike where what is nested in it is.                *)
LEMMA TypeLocal ==
  ASSUME NEW A, NEW B, NEW kind, FieldKind(A, kind), NEW g, NEW h,
         kind.k = "struct" => g[kind.path] = h[kind.path],
         kind.k = "union" => union_json(A, kind.path, g) = union_json(B, kind.path, h)
  PROVE  type_json(A, TypeSchema(kind), g) = type_json(B, TypeSchema(kind), h)
<1>1. CASE kind.k = "struct"
  <2>1. TypeSchema(kind) = [ty |-> "struct", schema |-> kind.path]
    BY <1>1 DEF TypeSchema, PlainSchema
  <2> QED BY <1>1, <2>1 DEF type_json, plain_json
<1>2. CASE kind.k = "union"
  <2>1. TypeSchema(kind) = [ty |-> "union", schema |-> kind.path]
    BY <1>2 DEF TypeSchema, PlainSchema
  <2>2. /\ type_json(A, TypeSchema(kind), g) = union_json(A, kind.path, g)
        /\ type_json(B, TypeSchema(kind), h) = union_json(B, kind.path, h)
    BY <2>1 DEF type_json, plain_json
  <2> QED BY <1>2, <2>2
<1>3. CASE ~IsNestedKind(kind)
  <2>1. FieldKind(B, kind)
    BY <1>3 DEF FieldKind, IsNestedKind
  <2>2. CASE kind.k = "vec"
    BY <2>1, <2>2, TypeJson
  <2>3. CASE kind.k # "vec"
    BY <1>3, <2>1, <2>3, TypeJson
  <2> QED BY <2>2, <2>3
<1> QED BY <1>1, <1>2, <1>3 DEF IsNestedKind

(* The fields of s look no further than the structs that s contains.       *)
LEMMA FieldsLocal ==
  ASSUME NEW A, NEW B, AcceptedSource(A), Alike(A, B), NEW s \in DOMAIN A.structs,
         NEW g, NEW h, SameBelow(A, s, g, h)
  PROVE  fields_json(A, A.structs[s], g) = fields_json(B, A.structs[s], h)
<1>1. ASSUME NEW i \in DOMAIN A.structs[s]
      PROVE  LET field == FieldSchema(A.structs[s][i])
             IN  field_json(A, field, g) = field_json(B, field, h)
  <2> DEFINE meta == A.structs[s][i]
             kind == meta.kind
  <2>1. FieldKind(A, kind)
    BY DEF AcceptedSource, FieldMeta
  <2>2. kind.k = "struct" => g[kind.path] = h[kind.path]
    <3> SUFFICES ASSUME kind.k = "struct" PROVE g[kind.path] = h[kind.path]
      OBVIOUS
    <3>1. kind.path \in DOMAIN A.structs
      BY <2>1, KindsOfFields
    <3>2. Contains(A, s, kind.path)
      BY DEF Contains
    <3> QED BY <3>1, <3>2 DEF SameBelow
  <2>3. kind.k = "union" => union_json(A, kind.path, g) = union_json(B, kind.path, h)
    <3> SUFFICES ASSUME kind.k = "union"
                 PROVE  union_json(A, kind.path, g) = union_json(B, kind.path, h)
      OBVIOUS
    <3>1. kind.path \in DOMAIN A.unions
      BY <2>1, KindsOfFields
    <3>2. ASSUME NEW j \in DOMAIN A.unions[kind.path]
          PROVE  g[A.unions[kind.path][j].struct] = h[A.unions[kind.path][j].struct]
      <4> DEFINE r == A.unions[kind.path][j].struct
      <4>1. r \in DOMAIN A.structs
        BY <3>1, VariantsTagged DEF Tagged
      <4>2. Contains(A, s, r)
        BY DEF Contains
      <4> QED BY <4>1, <4>2 DEF SameBelow
    <3>3. sort_by_tag(A.unions[kind.path]) = sort_by_tag(B.unions[kind.path])
      BY <3>1 DEF Alike
    <3> DEFINE u == kind.path
    <3>4. /\ u \in DOMAIN A.unions
          /\ \A j \in DOMAIN A.unions[u] : g[A.unions[u][j].struct] = h[A.unions[u][j].struct]
          /\ sort_by_tag(A.unions[u]) = sort_by_tag(B.unions[u])
      BY <3>1, <3>2, <3>3
    <3> HIDE DEF u
    <3>5. union_json(A, u, g) = union_json(B, u, h)
      BY <3>4, UnionLocal
    <3> QED BY <3>5 DEF u
  <2>4. type_json(A, TypeSchema(kind), g) = type_json(B, TypeSchema(kind), h)
    <3> HIDE DEF kind
    <3> QED BY <2>1, <2>2, <2>3, TypeLocal
  <2>5. FieldSchema(meta).wire_type = TypeSchema(kind)
    BY DEF FieldSchema
  <2> QED BY <2>4, <2>5 DEF field_json
<1> QED BY <1>1 DEF fields_json

(* A source whose structs are nested to a depth (SourcesAreFinite). *)
SourceIsFinite(schema) == \E depth \in [DOMAIN schema.structs -> Nat] : Nests(schema, depth)

(* Induction over a measure: what holds of everything, if it holds of what *)
(* is smaller, has no smallest counterexample.                             *)
LEMMA MeasureInduction ==
  ASSUME NEW T, NEW size \in [T -> Nat], NEW S,
         \A t \in T : (\A s \in T : size[s] < size[t] => s \in S) => t \in S
  PROVE  T \subseteq S
<1> SUFFICES ASSUME NEW t \in T, t \notin S PROVE FALSE
  OBVIOUS
<1> DEFINE Out == {size[s] : s \in T \ S}
<1>1. Out \subseteq Nat /\ Out # {}
  OBVIOUS
<1>2. \E n \in Out : \A m \in Out : ~(<<m, n>> \in OpToRel(<, Nat))
  BY <1>1, NatLessThanWellFounded, WFMin
<1>3. \E n \in Out : \A m \in Out : ~(m < n)
  BY <1>1, <1>2 DEF OpToRel
<1>4. PICK s \in T \ S : \A r \in T \ S : ~(size[r] < size[s])
  BY <1>3
<1> QED BY <1>4

(* A source is alike itself. *)
LEMMA SelfAlike == ASSUME NEW schema PROVE Alike(schema, schema)
  BY DEF Alike

(* One step of each of the three recursions, what it calls being given:    *)
(* the walk, the layouts of the structs, the reader of a document.         *)
Step(rule, schema, g, x) ==
  CASE rule = "walk"   -> fields_json(schema, schema.structs[x], g)
    [] rule = "layout" -> FieldsLayout(schema, schema.structs[x], g)
    [] rule = "read"   -> ReadFields(x, g)

(* A step looks at what is below in this measure only.                     *)
StepsDescend(rule, schema, D, depth) ==
  \A x \in D : \A g, h :
    (\A y \in D : depth[y] < depth[x] => g[y] = h[y])
      => Step(rule, schema, g, x) = Step(rule, schema, h, x)

(* Two functions that do what the steps say are the same.                  *)
LEMMA RecursionIsUnique ==
  ASSUME NEW rule, NEW schema, NEW D, NEW depth \in [D -> Nat],
         StepsDescend(rule, schema, D, depth), NEW g, NEW h,
         \A x \in D : g[x] = Step(rule, schema, g, x) /\ h[x] = Step(rule, schema, h, x)
  PROVE  \A x \in D : g[x] = h[x]
<1> DEFINE same == {x \in D : g[x] = h[x]}
<1>1. ASSUME NEW x \in D, \A y \in D : depth[y] < depth[x] => y \in same
      PROVE  x \in same
  BY <1>1 DEF StepsDescend
<1> HIDE DEF same
<1>2. D \subseteq same
  BY <1>1, MeasureInduction
<1> QED BY <1>2 DEF same

(* Such a recursion comes to an end. *)
LEMMA RecursionEnds ==
  ASSUME NEW rule, NEW schema, NEW D, NEW depth \in [D -> Nat],
         StepsDescend(rule, schema, D, depth)
  PROVE  \E f : f = [x \in D |-> Step(rule, schema, f, x)]
<1>1. \A s \in D : depth[s] \in Nat
  OBVIOUS
<1>2. ASSUME NEW s \in D, NEW g, NEW h, \A r \in D : depth[r] < depth[s] => g[r] = h[r]
      PROVE  Step(rule, schema, g, s) = Step(rule, schema, h, s)
  BY <1>2 DEF StepsDescend
<1> DEFINE Upto(s)      == {r \in D : depth[r] <= depth[s]}
           Solves(g, E) == g = [r \in E |-> Step(rule, schema, g, r)]
           good         == {s \in D : \E g : Solves(g, Upto(s))}
           sol          == [s \in D |-> CHOOSE g : Solves(g, Upto(s))]
           diag         == [s \in D |-> sol[s][s]]
<1>3. ASSUME NEW s \in D, NEW r \in D, depth[r] <= depth[s],
             NEW g, Solves(g, Upto(s)), NEW h, Solves(h, Upto(r))
      PROVE  g[r] = h[r]
  <2> DEFINE same == {q \in D : depth[q] <= depth[r] => g[q] = h[q]}
  <2>1. ASSUME NEW q \in D, \A p \in D : depth[p] < depth[q] => p \in same
        PROVE  q \in same
    <3> SUFFICES ASSUME depth[q] <= depth[r] PROVE g[q] = h[q]
      OBVIOUS
    <3>1. g[q] = Step(rule, schema, g, q) /\ h[q] = Step(rule, schema, h, q)
      <4>1. q \in Upto(s) /\ q \in Upto(r)
        BY <1>1, <1>3
      <4> HIDE DEF Upto
      <4> QED BY <1>3, <4>1
    <3>2. \A p \in D : depth[p] < depth[q] => g[p] = h[p]
      BY <1>1, <2>1
    <3> QED BY <1>2, <3>1, <3>2
  <2> HIDE DEF same
  <2>2. D \subseteq same
    BY <2>1, MeasureInduction
  <2> QED BY <2>2 DEF same
<1>4. ASSUME NEW s \in good
      PROVE  Solves(sol[s], Upto(s)) /\ sol[s][s] = Step(rule, schema, sol[s], s)
  <2>1. s \in D /\ \E g : Solves(g, Upto(s))
    OBVIOUS
  <2> HIDE DEF good, sol, Solves
  <2>2. s \in Upto(s)
    BY <1>1, <2>1
  <2> USE DEF good, sol, Solves
  <2> HIDE DEF Upto
  <2>3. Solves(sol[s], Upto(s))
    BY <2>1
  <2> QED BY <2>2, <2>3
<1>5. ASSUME NEW s \in D, \A r \in D : depth[r] <= depth[s] => r \in good
      PROVE  diag[s] = Step(rule, schema, diag, s)
  <2> HIDE DEF good, sol
  <2>1. s \in good
    BY <1>1, <1>5
  <2>2. \A r \in D : depth[r] < depth[s] => sol[s][r] = diag[r]
    <3> SUFFICES ASSUME NEW r \in D, depth[r] < depth[s] PROVE sol[s][r] = diag[r]
      OBVIOUS
    <3>1. r \in good /\ depth[r] <= depth[s]
      BY <1>1, <1>5
    <3> HIDE DEF Solves, Upto
    <3>2. sol[s][r] = sol[r][r]
      BY <1>3, <1>4, <2>1, <3>1
    <3> QED BY <3>2
  <2>3. Step(rule, schema, sol[s], s) = Step(rule, schema, diag, s)
    <3> HIDE DEF diag
    <3> QED BY <1>2, <2>2
  <2> QED BY <1>4, <2>1, <2>3
<1>6. ASSUME NEW s \in D, \A r \in D : depth[r] < depth[s] => r \in good
      PROVE  s \in good
  <2> DEFINE g == [r \in Upto(s) |-> Step(rule, schema, diag, r)]
  <2>1. ASSUME NEW r \in Upto(s) PROVE Step(rule, schema, diag, r) = Step(rule, schema, g, r)
    <3>0. r \in D /\ depth[r] <= depth[s]
      OBVIOUS
    <3>1. ASSUME NEW q \in D, depth[q] < depth[r] PROVE diag[q] = g[q]
      <4> HIDE DEF good, diag
      <4>1. \A p \in D : depth[p] <= depth[q] => p \in good
        BY <1>1, <1>6, <3>0, <3>1
      <4>2. q \in Upto(s)
        BY <1>1, <3>0, <3>1
      <4> HIDE DEF Upto
      <4>3. diag[q] = Step(rule, schema, diag, q)
        BY <1>5, <4>1
      <4> QED BY <4>2, <4>3
    <3> HIDE DEF diag, g
    <3> QED BY <1>2, <3>0, <3>1
  <2> HIDE DEF diag, Upto
  <2>2. Solves(g, Upto(s))
    BY <2>1
  <2> HIDE DEF g, Solves
  <2> QED BY <2>2
<1> HIDE DEF good, diag
<1>7. D \subseteq good
  BY <1>6, MeasureInduction
<1>8. \A s \in D : diag[s] = Step(rule, schema, diag, s)
  BY <1>5, <1>7
<1>9. diag = [s \in D |-> Step(rule, schema, diag, s)]
  BY <1>8 DEF diag
<1> QED BY <1>9

(* The walk goes from a struct to the structs that it contains.            *)
LEMMA WalkDescends ==
  ASSUME NEW schema, AcceptedSource(schema),
         NEW depth \in [DOMAIN schema.structs -> Nat], Nests(schema, depth)
  PROVE  StepsDescend("walk", schema, DOMAIN schema.structs, depth)
<1> DEFINE D == DOMAIN schema.structs
<1>1. ASSUME NEW s \in D, NEW g, NEW h, \A r \in D : depth[r] < depth[s] => g[r] = h[r]
      PROVE  Step("walk", schema, g, s) = Step("walk", schema, h, s)
  <2>1. SameBelow(schema, s, g, h)
    BY <1>1 DEF SameBelow, Nests
  <2> QED BY <2>1, SelfAlike, FieldsLocal DEF Step
<1> QED BY <1>1 DEF StepsDescend

(* NestedFields does what its definition says. *)
LEMMA NestedEquation ==
  ASSUME NEW schema, AcceptedSource(schema), SourceIsFinite(schema)
  PROVE  NestedFields(schema) =
           [s \in DOMAIN schema.structs |-> fields_json(schema, schema.structs[s], NestedFields(schema))]
<1>1. PICK depth \in [DOMAIN schema.structs -> Nat] : Nests(schema, depth)
  BY DEF SourceIsFinite
<1>2. \E f : f = [s \in DOMAIN schema.structs |-> Step("walk", schema, f, s)]
  BY <1>1, WalkDescends, RecursionEnds
<1>3. \E f : f = [s \in DOMAIN schema.structs |-> fields_json(schema, schema.structs[s], f)]
  BY <1>2 DEF Step
<1> QED BY <1>3 DEF NestedFields

(* Alike sources have the same fields below the top, struct by struct.     *)
LEMMA SameNested ==
  ASSUME NEW A, NEW B, Alike(A, B), AcceptedSource(A), SourceIsFinite(A),
         AcceptedSource(B), SourceIsFinite(B)
  PROVE  \A s \in DOMAIN A.structs : NestedFields(A)[s] = NestedFields(B)[s]
<1> DEFINE D == DOMAIN A.structs
           f == NestedFields(A)
           g == NestedFields(B)
           same == {s \in D : f[s] = g[s]}
<1>1. PICK depth \in [D -> Nat] : Nests(A, depth)
  BY DEF SourceIsFinite
<1>2. \A s, r \in D : Contains(A, s, r) => depth[r] < depth[s]
  BY <1>1 DEF Nests
<1>3. /\ \A s \in D : f[s] = fields_json(A, A.structs[s], f)
      /\ \A s \in D : g[s] = fields_json(B, A.structs[s], g)
  <2>1. f = [s \in D |-> fields_json(A, A.structs[s], f)]
    BY NestedEquation
  <2>2. g = [s \in D |-> fields_json(B, A.structs[s], g)]
    BY NestedEquation DEF Alike
  <2> HIDE DEF f, g
  <2>3. \A s \in D : f[s] = fields_json(A, A.structs[s], f)
    BY <2>1
  <2>4. \A s \in D : g[s] = fields_json(B, A.structs[s], g)
    BY <2>2
  <2> QED BY <2>3, <2>4
<1> HIDE DEF f, g
<1>4. ASSUME NEW s \in D, \A r \in D : depth[r] < depth[s] => r \in same
      PROVE  s \in same
  <2>1. SameBelow(A, s, f, g)
    BY <1>2, <1>4 DEF SameBelow
  <2> QED BY <1>3, <2>1, FieldsLocal
<1> HIDE DEF same, D
<1>5. D \subseteq same
  BY <1>4, MeasureInduction
<1> QED BY <1>5 DEF same, f, g, D

(***************************************************************************)
(* Part 5: what was exported, while the author moves variants around.      *)
(***************************************************************************)

(* Moving variants changes neither what a struct contains nor the sorted   *)
(* variants.                                                               *)
LEMMA ReorderedIsAlike ==
  ASSUME AcceptedSource(source), SourceIsFinite(source), ReorderVariants
  PROVE  Alike(source, source') /\ SourceIsFinite(source')
<1>1. /\ source'.top = source.top /\ source'.structs = source.structs
      /\ DOMAIN source'.unions = DOMAIN source.unions
  BY ReorderStep
<1>2. PICK u \in DOMAIN source.unions : \E order :
        /\ Reordering(source.unions[u], order)
        /\ source'.unions[u] = Reordered(source.unions[u], order)
        /\ \A w \in DOMAIN source.unions : w # u => source'.unions[w] = source.unions[w]
  BY ReorderStep
<1>3. PICK order : /\ Reordering(source.unions[u], order)
                   /\ source'.unions[u] = Reordered(source.unions[u], order)
                   /\ \A w \in DOMAIN source.unions : w # u => source'.unions[w] = source.unions[w]
  BY <1>2
<1> DEFINE variants == source.unions[u]
           n == Len(variants)
           now == Reordered(variants, order)
<1>4. Tagged(variants, n)
  BY VariantsTagged
<1>5. /\ DOMAIN now = DOMAIN variants
      /\ \A i \in DOMAIN now : now[i] = variants[order[i]] /\ order[i] \in DOMAIN variants
  BY <1>3 DEF Reordered, Reordering
<1>6. Tagged(now, n)
  <2>1. \A i, j \in 1 .. n : order[i] = order[j] => i = j
    BY <1>3, <1>4 DEF Reordering, Tagged
  <2> HIDE DEF now, variants, n
  <2> QED BY <1>4, <1>5, <2>1 DEF Tagged
<1>7. sort_by_tag(now) = sort_by_tag(variants)
  BY <1>3, <1>4, <1>6, SortIgnoresOrder
<1>8. Alike(source, source')
  <2>1. \A w \in DOMAIN source.unions : sort_by_tag(source.unions[w]) = sort_by_tag(source'.unions[w])
    BY <1>3, <1>7
  <2> QED BY <1>1, <2>1 DEF Alike
<1>9. PICK depth \in [DOMAIN source.structs -> Nat] : Nests(source, depth)
  BY DEF SourceIsFinite
<1>10. ASSUME NEW s \in DOMAIN source.structs, NEW r \in DOMAIN source.structs,
              Contains(source', s, r)
       PROVE  Contains(source, s, r)
  <2>1. PICK i \in DOMAIN source.structs[s] :
          LET kind == source.structs[s][i].kind
          IN  \/ kind.k = "struct" /\ kind.path = r
              \/ /\ kind.k = "union"
                 /\ \E j \in DOMAIN source'.unions[kind.path] :
                      source'.unions[kind.path][j].struct = r
    BY <1>1, <1>10 DEF Contains
  <2> DEFINE kind == source.structs[s][i].kind
             w == kind.path
  <2>2. CASE kind.k = "struct"
    BY <2>1, <2>2 DEF Contains
  <2>3. CASE kind.k = "union"
    <3>1. w \in DOMAIN source.unions
      BY <2>3, KindsOfFields DEF AcceptedSource, FieldMeta
    <3>2. PICK j \in DOMAIN source'.unions[w] : source'.unions[w][j].struct = r
      BY <2>1, <2>3
    <3>3. \E m \in DOMAIN source.unions[w] : source.unions[w][m].struct = r
      <4>1. CASE w = u
        BY <1>3, <1>5, <3>2, <4>1
      <4>2. CASE w # u
        BY <1>3, <3>1, <3>2, <4>2
      <4> QED BY <4>1, <4>2
    <3> QED BY <2>3, <3>3 DEF Contains
  <2> QED BY <2>1, <2>2, <2>3
<1>11. Nests(source', depth)
  BY <1>1, <1>9, <1>10 DEF Nests
<1> QED BY <1>1, <1>8, <1>9, <1>11 DEF SourceIsFinite

(* Alike sources have one document. *)
LEMMA SameDocument ==
  ASSUME NEW A, NEW B, Alike(A, B), A.top = B.top, AcceptedSource(A), SourceIsFinite(A),
         AcceptedSource(B), SourceIsFinite(B)
  PROVE  document_for(A) = document_for(B)
<1>1. \A s \in DOMAIN A.structs : NestedFields(A)[s] = NestedFields(B)[s]
  BY SameNested
<1>2. A.top \in DOMAIN A.structs
  BY DEF AcceptedSource
<1>3. SameBelow(A, A.top, NestedFields(A), NestedFields(B))
  BY <1>1 DEF SameBelow
<1>4. fields_json(A, A.structs[A.top], NestedFields(A)) =
        fields_json(B, A.structs[A.top], NestedFields(B))
  BY <1>2, <1>3, FieldsLocal
<1> QED BY <1>4 DEF document_for, Top, Alike

(* What the exporter has written is the document of the source.            *)
ExportedInv ==
  /\ PublishedInv
  /\ SourceIsFinite(source)
  /\ ExportIgnoresOrder

(* The three facts that make ExportedInv an invariant. *)
LEMMA ExportedInitially == ASSUME SourcesAreFinite PROVE Init => ExportedInv
  BY PublishedInitially DEF Init, ExportedInv, ExportIgnoresOrder, SourcesAreFinite, SourceIsFinite

(* Every step keeps it. *)
LEMMA ExportedStep == ExportedInv /\ [Next]_vars => ExportedInv'
<1> SUFFICES ASSUME ExportedInv, [Next]_vars PROVE ExportedInv'
  OBVIOUS
<1>0. /\ AcceptedSource(source) /\ SourceIsFinite(source) /\ ExportIgnoresOrder
      /\ PublishedInv'
  BY PublishedStep DEF ExportedInv, PublishedInv
<1>1. CASE Expand
  BY <1>0, <1>1 DEF Expand, ExportedInv, ExportIgnoresOrder
<1>2. CASE Export
  BY <1>0, <1>2 DEF Export, ExportedInv, ExportIgnoresOrder
<1>3. CASE ReorderVariants
  <2>1. Alike(source, source') /\ SourceIsFinite(source')
    BY <1>0, <1>3, ReorderedIsAlike
  <2>2. exported' = exported /\ source'.top = source.top
    BY <1>0, <1>3, ReorderStep
  <2>3. AcceptedSource(source')
    BY <1>0, <1>3, SourceStaysAccepted
  <2>4. document_for(source') = document_for(source)
    BY <1>0, <2>1, <2>2, <2>3, SameDocument
  <2> QED BY <1>0, <2>1, <2>2, <2>4 DEF ExportedInv, ExportIgnoresOrder
<1>4. CASE UNCHANGED vars
  BY <1>0, <1>4 DEF vars, ExportedInv, ExportIgnoresOrder
<1> QED BY <1>1, <1>2, <1>3, <1>4 DEF Next

(* So it holds throughout. *)
LEMMA ExportedInvariant == ASSUME SourcesAreFinite PROVE Spec => []ExportedInv
<1>1. Init => ExportedInv
  BY ExportedInitially
<1>2. ExportedInv /\ [Next]_vars => ExportedInv'
  BY ExportedStep
<1> QED BY <1>1, <1>2, PTL DEF Spec

(* attr.rs:96: the order in which the author writes the variants of an     *)
(* enum is not part of the ABI.                                            *)
THEOREM ReorderingKeepsDocument ==
  ASSUME SourcesAreFinite
  PROVE  Spec => []ExportIgnoresOrder
<1>1. ExportedInv => ExportIgnoresOrder
  BY DEF ExportedInv
<1> QED BY ExportedInvariant, <1>1, PTL

(* A table and an array of objects made of the same metas agree. *)
LEMMA FieldsInSameWords ==
  ASSUME NEW schema, AcceptedSource(schema), NEW s \in DOMAIN schema.structs, NEW nested
  PROVE  FieldsAgree(idl_fields(schema.structs[s]), fields_json(schema, schema.structs[s], nested))
<1> DEFINE metas   == schema.structs[s]
           specs   == idl_fields(metas)
           objects == fields_json(schema, metas, nested)
<1>1. ASSUME NEW i \in DOMAIN metas
      PROVE  FieldAgrees(specs[i], objects[i])
  <2> DEFINE meta   == metas[i]
             json   == type_json(schema, TypeSchema(meta.kind), nested)
             object == field_json(schema, FieldSchema(meta), nested)
  <2>1. FieldKind(schema, meta.kind) /\ (meta.kind.k = "union" => meta.label = NoLabel)
    BY DEF AcceptedSource, FieldMeta
  <2>2. specs[i] = [name |-> meta.name, idl_type |-> EffectiveType(meta),
                    required |-> meta.required, description |-> meta.description]
    BY DEF idl_fields
  <2>3. objects[i] = object
    BY DEF fields_json
  <2> HIDE DEF meta, specs, objects
  <2>4. Describes(object, json, meta)
    BY <2>1, FieldJson
  <2>5. "type" \in DOMAIN json /\ DOMAIN json \subseteq {"type", "items", "fields", "variants"}
    BY <2>1, TypeJson
  <2> HIDE DEF json, object
  <2>6. "description" \in DOMAIN object <=> meta.description # NoText
    BY <2>4, <2>5 DEF Describes
  <2>7. meta.description # NoText => object.description = meta.description
    BY <2>4 DEF Describes
  <2> QED BY <2>2, <2>3, <2>4, <2>6, <2>7 DEF FieldAgrees, Describes
<1>2. DOMAIN specs = DOMAIN metas /\ DOMAIN objects = DOMAIN metas
  BY DEF idl_fields, fields_json
<1> QED BY <1>1, <1>2 DEF FieldsAgree

(* So do the table of a nested struct and its fields in the document.      *)
LEMMA NestedInSameWords ==
  ASSUME NEW schema, AcceptedSource(schema), SourceIsFinite(schema), NEW s \in DOMAIN schema.structs
  PROVE  FieldsAgree(idl_fields(schema.structs[s]), NestedFields(schema)[s])
<1> DEFINE nested == NestedFields(schema)
<1>1. nested = [r \in DOMAIN schema.structs |-> fields_json(schema, schema.structs[r], nested)]
  BY NestedEquation
<1> HIDE DEF nested
<1>2. nested[s] = fields_json(schema, schema.structs[s], nested)
  BY <1>1
<1> QED BY <1>2, FieldsInSameWords DEF nested

(* And every row of a union's table has its object, wherever the sort put  *)
(* it.                                                                     *)
LEMMA VariantsInSameWords ==
  ASSUME NEW schema, AcceptedSource(schema), SourceIsFinite(schema), NEW u \in DOMAIN schema.unions
  PROVE  LET table   == idl_variants(schema, u)
             objects == union_json(schema, u, NestedFields(schema)).variants
         IN  \A i \in DOMAIN table : \E j \in DOMAIN objects :
               /\ table[i].type_id = objects[j].tag
               /\ table[i].name = objects[j].name
               /\ FieldsAgree(table[i].fields, objects[j].fields)
<1> DEFINE variants == schema.unions[u]
           n == Len(variants)
           nested == NestedFields(schema)
           table == idl_variants(schema, u)
           objects == union_json(schema, u, nested).variants
           sorted == sort_by_tag(variants)
<1>1. Tagged(variants, n) /\ DOMAIN variants = 1 .. n
  BY VariantsTagged DEF Tagged
<1>2. /\ DOMAIN table = 1 .. n
      /\ \A i \in 1 .. n : table[i] = [type_id |-> variants[i].tag, name |-> variants[i].name,
                                       fields |-> idl_fields(schema.structs[variants[i].struct])]
  BY <1>1 DEF idl_variants
<1>3. objects = [p \in DOMAIN sorted |-> [tag |-> sorted[p].tag, name |-> sorted[p].name,
                                          fields |-> nested[sorted[p].struct]]]
  BY DEF union_json
<1> HIDE DEF table, objects, nested
<1>4. ASSUME NEW i \in 1 .. n
      PROVE  \E j \in DOMAIN objects :
               /\ table[i].type_id = objects[j].tag
               /\ table[i].name = objects[j].name
               /\ FieldsAgree(table[i].fields, objects[j].fields)
  <2> DEFINE p == Rank(variants, i)
             s == variants[i].struct
  <2>1. p \in DOMAIN sorted /\ sorted[p] = variants[i]
    BY <1>1, SortedEntry
  <2>2. s \in DOMAIN schema.structs
    BY VariantsTagged
  <2>3. FieldsAgree(idl_fields(schema.structs[s]), nested[s])
    <3> HIDE DEF s
    <3> QED BY <2>2, NestedInSameWords DEF nested
  <2> HIDE DEF p, sorted
  <2>4. p \in DOMAIN objects /\ objects[p] = [tag |-> variants[i].tag, name |-> variants[i].name, fields |-> nested[s]]
    BY <1>3, <2>1
  <2>5. /\ table[i].type_id = objects[p].tag
        /\ table[i].name = objects[p].name
        /\ table[i].fields = idl_fields(schema.structs[s]) /\ objects[p].fields = nested[s]
    <3>1. table[i] = [type_id |-> variants[i].tag, name |-> variants[i].name,
                      fields |-> idl_fields(schema.structs[s])]
      BY <1>2
    <3> HIDE DEF s, variants
    <3> QED BY <2>4, <3>1
  <2> QED BY <2>3, <2>4, <2>5
<1> QED BY <1>2, <1>4 DEF table, objects, nested

(* The tables compiled into the contract and the exported document         *)
(* describe every nested struct and every variant in the same words.       *)
THEOREM ContractTablesAgree ==
  ASSUME SourcesAreFinite
  PROVE  Spec => []TablesAgree
<1>1. ExportedInv => TablesAgree
  <2> SUFFICES ASSUME ExportedInv PROVE TablesAgree
    OBVIOUS
  <2>1. AcceptedSource(source) /\ SourceIsFinite(source)
    BY DEF ExportedInv, PublishedInv
  <2>2. \A s \in DOMAIN source.structs \ {source.top} :
          FieldsAgree(idl_fields(source.structs[s]), NestedFields(source)[s])
    BY <2>1, NestedInSameWords
  <2>3. \A u \in DOMAIN source.unions :
          LET table   == idl_variants(source, u)
              objects == union_json(source, u, NestedFields(source)).variants
          IN  \A i \in DOMAIN table : \E j \in DOMAIN objects :
                /\ table[i].type_id = objects[j].tag
                /\ table[i].name = objects[j].name
                /\ FieldsAgree(table[i].fields, objects[j].fields)
    BY <2>1, VariantsInSameWords
  <2> QED BY <2>2, <2>3 DEF TablesAgree
<1> QED BY ExportedInvariant, <1>1, PTL

(***************************************************************************)
(* Part 6: a wallet that reads the exported document.                      *)
(***************************************************************************)

(* The reader recognises a kind that has no fields inside.                 *)
LEMMA ReadsPlain ==
  ASSUME NEW kind, PlainKind(kind), NEW object, NEW read
  PROVE  /\ ReadType(object, wire_type_name(kind), read) = kind
         /\ FixedKind(kind) => ReadElement(wire_type_name(kind)) = kind
<1>1. CASE kind.k = "scalar"
  <2>1. kind = Sized("scalar", kind.size) /\ kind.size \in Nat
    BY <1>1 DEF PlainKind, FixedKind, Kind
  <2>2. wire_type_name(kind) = [idl |-> "uint", n |-> 8 * kind.size]
    BY <1>1 DEF wire_type_name, Uint
  <2>3. (8 * kind.size) \div 8 = kind.size
    BY <2>1
  <2> QED BY <2>1, <2>2, <2>3 DEF ReadType, ReadElement
<1>2. CASE kind.k = "array"
  <2>1. kind = Sized("array", kind.size)
    BY <1>2 DEF PlainKind, FixedKind, Kind
  <2>2. wire_type_name(kind) = [idl |-> "bytes_fixed", n |-> kind.size]
    BY <1>2 DEF wire_type_name, BytesFixed
  <2> QED BY <2>1, <2>2 DEF ReadType, ReadElement
<1>3. CASE kind.k = "bytes"
  <2>1. kind = Kind("bytes") /\ ~FixedKind(kind)
    BY <1>3 DEF PlainKind, FixedKind
  <2>2. wire_type_name(kind) = [idl |-> "bytes"]
    BY <1>3 DEF wire_type_name, Bytes
  <2> QED BY <2>1, <2>2 DEF ReadType
<1> QED BY <1>1, <1>2, <1>3, PlainKinds

(* The layouts of the structs as the reader has them.                      *)
LayoutsRead(schema, nested, read) == [r \in DOMAIN schema.structs |-> read[nested[r]]]

(* The sorted variants are, as a set, those of the union.                  *)
LEMMA ReadsVariants ==
  ASSUME NEW schema, AcceptedSource(schema), NEW u \in DOMAIN schema.unions, NEW nested, NEW read
  PROVE  LET variants == schema.unions[u]
             objects  == union_json(schema, u, nested).variants
         IN  ReadVariants(objects, read) =
               VariantLayouts(variants, LayoutsRead(schema, nested, read))
<1> DEFINE variants == schema.unions[u]
           n == Len(variants)
           sorted == sort_by_tag(variants)
           objects == union_json(schema, u, nested).variants
           layouts == LayoutsRead(schema, nested, read)
           theirs == ReadVariants(objects, read)
           ours == VariantLayouts(variants, layouts)
<1>1. Tagged(variants, n) /\ DOMAIN variants = 1 .. n
  BY VariantsTagged DEF Tagged
<1>2. /\ DOMAIN objects = DOMAIN sorted
      /\ \A p \in DOMAIN sorted : /\ objects[p].tag = sorted[p].tag
                                  /\ objects[p].fields = nested[sorted[p].struct]
  BY DEF union_json
<1>3. \A i \in 1 .. n : layouts[variants[i].struct] = read[nested[variants[i].struct]]
  BY VariantsTagged DEF LayoutsRead
<1>4. \A i \in 1 .. n : Rank(variants, i) \in DOMAIN sorted /\ sorted[Rank(variants, i)] = variants[i]
  BY <1>1, SortedEntry
<1>5. \A p \in DOMAIN sorted : \E i \in 1 .. n : sorted[p] = variants[i]
  BY <1>1, SortedFrom
<1> HIDE DEF variants, n, sorted, objects, layouts
<1>6. theirs \subseteq ours
  <2> SUFFICES ASSUME NEW p \in DOMAIN objects
               PROVE  <<objects[p].tag, read[objects[p].fields]>> \in ours
    BY DEF ReadVariants
  <2>1. PICK i \in 1 .. n : sorted[p] = variants[i]
    BY <1>2, <1>5
  <2>2. <<objects[p].tag, read[objects[p].fields]>> = <<variants[i].tag, layouts[variants[i].struct]>>
    BY <1>2, <1>3, <2>1
  <2> QED BY <1>1, <2>2 DEF VariantLayouts
<1>7. ours \subseteq theirs
  <2> SUFFICES ASSUME NEW i \in DOMAIN variants
               PROVE  <<variants[i].tag, layouts[variants[i].struct]>> \in theirs
    BY DEF VariantLayouts
  <2> DEFINE p == Rank(variants, i)
  <2>1. p \in DOMAIN objects /\ sorted[p] = variants[i]
    BY <1>1, <1>2, <1>4
  <2> HIDE DEF p
  <2>2. <<objects[p].tag, read[objects[p].fields]>> = <<variants[i].tag, layouts[variants[i].struct]>>
    BY <1>1, <1>2, <1>3, <2>1
  <2> QED BY <2>1, <2>2 DEF ReadVariants
<1> QED BY <1>6, <1>7 DEF variants, objects, layouts

(* What the object of a field says is the kind the contract decodes.       *)
LEMMA ReadsField ==
  ASSUME NEW schema, AcceptedSource(schema), NEW meta, FieldMeta(schema, meta), NEW nested, NEW read
  PROVE  ReadField(field_json(schema, FieldSchema(meta), nested), read) =
           KindLayout(schema, meta.kind, LayoutsRead(schema, nested, read))
<1> DEFINE kind    == meta.kind
           json    == type_json(schema, TypeSchema(kind), nested)
           object  == field_json(schema, FieldSchema(meta), nested)
           layouts == LayoutsRead(schema, nested, read)
           name    == wire_type_name(kind)
           type    == IF "wire_type" \in DOMAIN object THEN object["wire_type"] ELSE object["type"]
           found   == ReadType(object, name, read)
<1>1. FieldKind(schema, kind) /\ meta.required = (kind.k # "opt")
  BY DEF FieldMeta
<1>2. Describes(object, json, meta)
  BY FieldJson DEF FieldMeta
<1>3. /\ "type" \in DOMAIN json /\ DOMAIN json \subseteq {"type", "items", "fields", "variants"}
      /\ kind.k = "vec" => json = [type |-> name, items |-> [type |-> wire_type_name(kind.of)]]
  BY <1>1, TypeJson
<1>4. type = name
  <2> HIDE DEF object, json, name
  <2>1. CASE meta.label = NoLabel
    BY <1>2, <1>3, <2>1 DEF Describes, EffectiveType, name
  <2>2. CASE meta.label # NoLabel
    BY <1>2, <2>2 DEF Describes, name
  <2> QED BY <2>1, <2>2
<1>5. ReadField(object, read) = IF kind.k # "opt" THEN found ELSE Of("opt", found)
  <2>1. object["required"] = (kind.k # "opt")
    BY <1>1, <1>2 DEF Describes
  <2>2. ReadField(object, read) = IF object["required"] THEN ReadType(object, type, read)
                                  ELSE Of("opt", ReadType(object, type, read))
    BY DEF ReadField
  <2> HIDE DEF object, type, name
  <2> QED BY <1>4, <2>1, <2>2
<1> HIDE DEF object
<1>6. CASE PlainKind(kind) /\ kind.k \in {"scalar", "array", "bytes"}
  <2>1. found = kind
    BY <1>6, ReadsPlain
  <2>2. KindLayout(schema, kind, layouts) = kind
    BY <1>6 DEF KindLayout
  <2> QED BY <1>5, <1>6, <2>1, <2>2 DEF object
<1>7. CASE kind.k = "opt" /\ kind = Of("opt", kind.of) /\ PlainKind(kind.of)
  <2>1. name = wire_type_name(kind.of)
    <3>1. kind.of.k \in {"scalar", "array", "bytes"}
      BY <1>7, PlainKinds
    <3> QED BY <1>7, <3>1 DEF wire_type_name
  <2>2. found = kind.of
    BY <1>7, <2>1, ReadsPlain
  <2>3. KindLayout(schema, kind, layouts) = kind
    BY <1>7 DEF KindLayout
  <2> QED BY <1>5, <1>7, <2>2, <2>3 DEF object
<1>8. CASE kind.k = "vec" /\ kind = Of("vec", kind.of) /\ FixedKind(kind.of)
  <2>1. json = [type |-> name, items |-> [type |-> wire_type_name(kind.of)]]
    BY <1>3, <1>8
  <2>2. "items" \in DOMAIN json /\ json["items"] = [type |-> wire_type_name(kind.of)]
    BY <2>1
  <2>3. object["items"] = [type |-> wire_type_name(kind.of)]
    BY <1>2, <2>2 DEF Describes
  <2>4. name = [idl |-> "vector"]
    BY <1>8 DEF wire_type_name
  <2>5. found = Of("vec", ReadElement(wire_type_name(kind.of)))
    BY <2>3, <2>4 DEF ReadType
  <2>6. found = kind
    BY <1>8, <2>5, ReadsPlain DEF PlainKind
  <2>7. KindLayout(schema, kind, layouts) = kind
    BY <1>8 DEF KindLayout
  <2> QED BY <1>5, <1>8, <2>6, <2>7 DEF object
<1>9. CASE kind.k = "struct" /\ kind.path \in DOMAIN schema.structs
  <2>1. json = [type |-> Struct, fields |-> nested[kind.path]]
    BY <1>9 DEF TypeSchema, PlainSchema, type_json, plain_json
  <2>2. "fields" \in DOMAIN json /\ json["fields"] = nested[kind.path]
    BY <2>1
  <2>3. object["fields"] = nested[kind.path]
    BY <1>2, <2>2 DEF Describes
  <2>4. name = [idl |-> "struct"]
    BY <1>9 DEF wire_type_name, Struct
  <2>5. found = [k |-> "struct", fields |-> read[nested[kind.path]]]
    BY <2>3, <2>4 DEF ReadType
  <2>6. layouts[kind.path] = read[nested[kind.path]]
    BY <1>9 DEF LayoutsRead
  <2>7. KindLayout(schema, kind, layouts) = [k |-> "struct", fields |-> layouts[kind.path]]
    BY <1>9 DEF KindLayout
  <2> QED BY <1>5, <1>9, <2>5, <2>6, <2>7 DEF object
<1>10. CASE kind.k = "union" /\ kind.path \in DOMAIN schema.unions
  <2> DEFINE u == kind.path
             objects == union_json(schema, u, nested).variants
             variants == schema.unions[u]
  <2>1. json = union_json(schema, u, nested)
    BY <1>10 DEF TypeSchema, PlainSchema, type_json, plain_json
  <2>2. "variants" \in DOMAIN json /\ json["variants"] = objects
    BY <2>1 DEF union_json
  <2>3. object["variants"] = objects
    BY <1>2, <2>2 DEF Describes
  <2>4. name = [idl |-> "union"]
    BY <1>10 DEF wire_type_name
  <2>5. ReadVariants(objects, read) = VariantLayouts(variants, layouts)
    BY <1>10, ReadsVariants
  <2> HIDE DEF objects
  <2>6. found = [k |-> "union", variants |-> ReadVariants(objects, read)]
    BY <2>3, <2>4 DEF ReadType
  <2>7. KindLayout(schema, kind, layouts) = [k |-> "union", variants |-> VariantLayouts(variants, layouts)]
    BY <1>10 DEF KindLayout
  <2> QED BY <1>5, <1>10, <2>5, <2>6, <2>7 DEF object
<1> QED BY <1>1, <1>6, <1>7, <1>8, <1>9, <1>10, KindsOfFields

(* Reading the fields of a struct is laying it out, from the layouts read. *)
LEMMA ReadsFields ==
  ASSUME NEW schema, AcceptedSource(schema), NEW s \in DOMAIN schema.structs, NEW nested, NEW read
  PROVE  ReadFields(fields_json(schema, schema.structs[s], nested), read) =
           FieldsLayout(schema, schema.structs[s], LayoutsRead(schema, nested, read))
<1> DEFINE metas == schema.structs[s]
<1>1. ASSUME NEW i \in DOMAIN metas
      PROVE  ReadField(field_json(schema, FieldSchema(metas[i]), nested), read) =
               KindLayout(schema, metas[i].kind, LayoutsRead(schema, nested, read))
  <2>1. FieldMeta(schema, metas[i])
    BY DEF AcceptedSource
  <2> QED BY <2>1, ReadsField
<1> HIDE DEF metas
<1>2. ReadFields(fields_json(schema, metas, nested), read) =
        [i \in DOMAIN metas |-> ReadField(field_json(schema, FieldSchema(metas[i]), nested), read)]
  BY DEF ReadFields, fields_json
<1> QED BY <1>1, <1>2 DEF FieldsLayout, metas

(* The layout of s depends on the layouts of the structs it contains.      *)
LEMMA LayoutLocal ==
  ASSUME NEW schema, AcceptedSource(schema), NEW s \in DOMAIN schema.structs,
         NEW g, NEW h, SameBelow(schema, s, g, h)
  PROVE  FieldsLayout(schema, schema.structs[s], g) = FieldsLayout(schema, schema.structs[s], h)
<1>1. ASSUME NEW i \in DOMAIN schema.structs[s]
      PROVE  KindLayout(schema, schema.structs[s][i].kind, g) =
               KindLayout(schema, schema.structs[s][i].kind, h)
  <2> DEFINE kind == schema.structs[s][i].kind
             variants == schema.unions[kind.path]
  <2>1. FieldKind(schema, kind)
    BY DEF AcceptedSource, FieldMeta
  <2>2. CASE kind.k = "struct"
    <3>1. kind.path \in DOMAIN schema.structs
      BY <2>1, <2>2, KindsOfFields
    <3>2. Contains(schema, s, kind.path)
      BY <2>2 DEF Contains
    <3> QED BY <2>2, <3>1, <3>2 DEF SameBelow, KindLayout
  <2>3. CASE kind.k = "union"
    <3>1. kind.path \in DOMAIN schema.unions
      BY <2>1, <2>3, KindsOfFields
    <3>2. ASSUME NEW j \in DOMAIN variants PROVE g[variants[j].struct] = h[variants[j].struct]
      <4>1. variants[j].struct \in DOMAIN schema.structs
        BY <3>1, VariantsTagged DEF Tagged
      <4>2. Contains(schema, s, variants[j].struct)
        BY <2>3 DEF Contains
      <4> QED BY <4>1, <4>2 DEF SameBelow
    <3>3. VariantLayouts(variants, g) = VariantLayouts(variants, h)
      <4> HIDE DEF variants
      <4> QED BY <3>2 DEF VariantLayouts
    <3>4. /\ KindLayout(schema, kind, g) = [k |-> "union", variants |-> VariantLayouts(variants, g)]
          /\ KindLayout(schema, kind, h) = [k |-> "union", variants |-> VariantLayouts(variants, h)]
      BY <2>3 DEF KindLayout
    <3> QED BY <3>3, <3>4
  <2>4. CASE kind.k \notin {"struct", "union"}
    BY <2>4 DEF KindLayout
  <2> QED BY <2>2, <2>3, <2>4
<1> QED BY <1>1 DEF FieldsLayout

(* Laying a struct out goes from it to the structs that it contains. *)
LEMMA LayoutDescends ==
  ASSUME NEW schema, AcceptedSource(schema),
         NEW depth \in [DOMAIN schema.structs -> Nat], Nests(schema, depth)
  PROVE  StepsDescend("layout", schema, DOMAIN schema.structs, depth)
<1> DEFINE D == DOMAIN schema.structs
<1>1. ASSUME NEW s \in D, NEW g, NEW h, \A r \in D : depth[r] < depth[s] => g[r] = h[r]
      PROVE  Step("layout", schema, g, s) = Step("layout", schema, h, s)
  <2>1. SameBelow(schema, s, g, h)
    BY <1>1 DEF SameBelow, Nests
  <2> QED BY <2>1, LayoutLocal DEF Step
<1> QED BY <1>1 DEF StepsDescend

(* The arrays of a document are the fields of its structs.                 *)
LEMMA ArraysOfDocument ==
  ASSUME NEW schema, AcceptedSource(schema), SourceIsFinite(schema)
  PROVE  /\ Arrays(schema) = {NestedFields(schema)[s] : s \in DOMAIN schema.structs}
         /\ document_for(schema) = NestedFields(schema)[schema.top]
<1> DEFINE nested == NestedFields(schema)
<1>1. nested = [s \in DOMAIN schema.structs |-> fields_json(schema, schema.structs[s], nested)]
  BY NestedEquation
<1>2. schema.top \in DOMAIN schema.structs
  BY DEF AcceptedSource
<1> HIDE DEF nested
<1>3. nested[schema.top] = fields_json(schema, schema.structs[schema.top], nested)
  BY <1>1, <1>2
<1>4. document_for(schema) = nested[schema.top]
  BY <1>3 DEF document_for, Top, nested
<1>5. Arrays(schema) = {document_for(schema)} \cup {nested[s] : s \in DOMAIN schema.structs}
  BY DEF Arrays, nested
<1>6. nested[schema.top] \in {nested[s] : s \in DOMAIN schema.structs}
  BY <1>2
<1>7. Arrays(schema) = {nested[s] : s \in DOMAIN schema.structs}
  BY <1>4, <1>5, <1>6
<1> QED BY <1>4, <1>7 DEF nested

(* A is made of the arrays of D, each as deep as the least deep struct     *)
(* that it describes.                                                      *)
Describing(A, D, nested) ==
  /\ \A s \in D : nested[s] \in A
  /\ \A a \in A : \E s \in D : nested[s] = a

LeastDepth(A, D, nested, depth, size) ==
  /\ size \in [A -> Nat]
  /\ \A s \in D : size[nested[s]] <= depth[s]
  /\ \A a \in A : \E s \in D : nested[s] = a /\ depth[s] = size[a]

LEMMA ArrayDepth ==
  ASSUME NEW D, NEW depth \in [D -> Nat], NEW nested, NEW A, Describing(A, D, nested)
  PROVE  \E size : LeastDepth(A, D, nested, depth, size)
<1> DEFINE Least(a, n) == /\ \E s \in D : nested[s] = a /\ depth[s] = n
                          /\ \A s \in D : nested[s] = a => n <= depth[s]
           size == [a \in A |-> CHOOSE n \in Nat : Least(a, n)]
<1>0. (\A s \in D : nested[s] \in A) /\ (\A a \in A : \E s \in D : nested[s] = a)
  BY DEF Describing
<1>1. ASSUME NEW a \in A PROVE \E n \in Nat : Least(a, n)
  <2> DEFINE Depths == {depth[s] : s \in {r \in D : nested[r] = a}}
  <2>1. Depths \subseteq Nat /\ Depths # {}
    BY <1>0
  <2>2. \E n \in Depths : \A m \in Depths : ~(<<m, n>> \in OpToRel(<, Nat))
    BY <2>1, NatLessThanWellFounded, WFMin
  <2>3. PICK n \in Depths : \A m \in Depths : ~(m < n)
    BY <2>1, <2>2 DEF OpToRel
  <2>4. n \in Nat /\ \E s \in D : nested[s] = a /\ depth[s] = n
    BY <2>3
  <2>5. ASSUME NEW s \in D, nested[s] = a PROVE n <= depth[s]
    <3>1. depth[s] \in Depths /\ depth[s] \in Nat
      BY <2>5
    <3> HIDE DEF Depths
    <3>2. ~(depth[s] < n)
      BY <2>3, <3>1
    <3> QED BY <2>4, <3>1, <3>2
  <2> QED BY <2>4, <2>5
<1> HIDE DEF Least
<1>2. \A a \in A : size[a] \in Nat /\ Least(a, size[a])
  BY <1>1
<1>3. size \in [A -> Nat]
  BY <1>2
<1> HIDE DEF size
<1>4. \A s \in D : size[nested[s]] <= depth[s]
  BY <1>0, <1>2 DEF Least
<1>5. \A a \in A : \E s \in D : nested[s] = a /\ depth[s] = size[a]
  BY <1>2 DEF Least
<1> QED BY <1>3, <1>4, <1>5 DEF LeastDepth

(* The reader goes from an array to the arrays inside it.                  *)
LEMMA ReadingDescends ==
  ASSUME NEW schema, AcceptedSource(schema), SourceIsFinite(schema)
  PROVE  \E size \in [Arrays(schema) -> Nat] : StepsDescend("read", schema, Arrays(schema), size)
<1> DEFINE D == DOMAIN schema.structs
           nested == NestedFields(schema)
<1>1. PICK depth \in [D -> Nat] : Nests(schema, depth)
  BY DEF SourceIsFinite
<1>2. \A s, r \in D : Contains(schema, s, r) => depth[r] < depth[s]
  BY <1>1 DEF Nests
<1>3. \A s \in D : nested[s] = fields_json(schema, schema.structs[s], nested)
  <2>1. nested = [s \in D |-> fields_json(schema, schema.structs[s], nested)]
    BY NestedEquation
  <2> HIDE DEF nested
  <2> QED BY <2>1
<1>4. Arrays(schema) = {nested[s] : s \in D}
  BY ArraysOfDocument
<1> HIDE DEF nested
<1>5. PICK size \in [Arrays(schema) -> Nat] :
        /\ \A s \in D : size[nested[s]] <= depth[s]
        /\ \A a \in Arrays(schema) : \E s \in D : nested[s] = a /\ depth[s] = size[a]
  <2>1. Describing(Arrays(schema), D, nested)
    BY <1>4 DEF Describing
  <2>2. \E size : LeastDepth(Arrays(schema), D, nested, depth, size)
    BY <2>1, ArrayDepth
  <2> QED BY <2>2 DEF LeastDepth
<1>6. ASSUME NEW a \in Arrays(schema), NEW g, NEW h,
             \A b \in Arrays(schema) : size[b] < size[a] => g[b] = h[b]
      PROVE  Step("read", schema, g, a) = Step("read", schema, h, a)
  <2>1. PICK s \in D : nested[s] = a /\ depth[s] = size[a]
    BY <1>4, <1>5
  <2> DEFINE gs == LayoutsRead(schema, nested, g)
             hs == LayoutsRead(schema, nested, h)
  <2>2. SameBelow(schema, s, gs, hs)
    <3> SUFFICES ASSUME NEW r \in D, Contains(schema, s, r) PROVE gs[r] = hs[r]
      BY DEF SameBelow
    <3>1. nested[r] \in Arrays(schema) /\ size[nested[r]] \in Nat
      BY <1>4, <1>5
    <3>2. size[nested[r]] < size[a]
      <4>1. size[nested[r]] <= depth[r] /\ depth[r] < depth[s] /\ depth[r] \in Nat /\ depth[s] \in Nat
        BY <1>1, <1>2, <1>5
      <4> QED BY <2>1, <3>1, <4>1
    <3>3. g[nested[r]] = h[nested[r]]
      BY <1>6, <3>1, <3>2
    <3> QED BY <3>3 DEF LayoutsRead
  <2>3. FieldsLayout(schema, schema.structs[s], gs) = FieldsLayout(schema, schema.structs[s], hs)
    BY <2>2, LayoutLocal
  <2> HIDE DEF gs, hs
  <2>4. ReadFields(a, g) = FieldsLayout(schema, schema.structs[s], gs)
    BY <1>3, <2>1, ReadsFields DEF gs
  <2>5. ReadFields(a, h) = FieldsLayout(schema, schema.structs[s], hs)
    BY <1>3, <2>1, ReadsFields DEF hs
  <2> QED BY <2>3, <2>4, <2>5 DEF Step
<1>7. StepsDescend("read", schema, Arrays(schema), size)
  BY <1>6 DEF StepsDescend
<1> QED BY <1>7

(* The reader does what its definition says. *)
LEMMA ReadingEquation ==
  ASSUME NEW schema, AcceptedSource(schema), SourceIsFinite(schema)
  PROVE  Reading(schema) = [a \in Arrays(schema) |-> ReadFields(a, Reading(schema))]
<1>1. PICK size \in [Arrays(schema) -> Nat] : StepsDescend("read", schema, Arrays(schema), size)
  BY ReadingDescends
<1>2. \E f : f = [a \in Arrays(schema) |-> Step("read", schema, f, a)]
  BY <1>1, RecursionEnds
<1>3. \E f : f = [a \in Arrays(schema) |-> ReadFields(a, f)]
  BY <1>2 DEF Step
<1> QED BY <1>3 DEF Reading

(* The layout of a source is that of its top, in layouts that do what their *)
(* definition says. *)
LEMMA LayoutEquation ==
  ASSUME NEW schema, AcceptedSource(schema), SourceIsFinite(schema)
  PROVE  \E layout : /\ layout = [s \in DOMAIN schema.structs |->
                                    FieldsLayout(schema, schema.structs[s], layout)]
                     /\ LayoutOf(schema) = layout[schema.top]
<1>1. PICK depth \in [DOMAIN schema.structs -> Nat] : Nests(schema, depth)
  BY DEF SourceIsFinite
<1>2. \E f : f = [s \in DOMAIN schema.structs |-> Step("layout", schema, f, s)]
  BY <1>1, LayoutDescends, RecursionEnds
<1>3. \E f : f = [s \in DOMAIN schema.structs |-> FieldsLayout(schema, schema.structs[s], f)]
  BY <1>2 DEF Step
<1> QED BY <1>3 DEF LayoutOf

(* From the document the reader gets the layout. *)
LEMMA ReaderGetsLayout ==
  ASSUME NEW schema, AcceptedSource(schema), SourceIsFinite(schema)
  PROVE  Reading(schema)[document_for(schema)] = LayoutOf(schema)
<1> DEFINE D == DOMAIN schema.structs
           nested == NestedFields(schema)
           read == Reading(schema)
           ours == LayoutsRead(schema, nested, read)
<1>1. PICK depth \in [D -> Nat] : Nests(schema, depth)
  BY DEF SourceIsFinite
<1>2. PICK layout : /\ layout = [s \in D |-> FieldsLayout(schema, schema.structs[s], layout)]
                    /\ LayoutOf(schema) = layout[schema.top]
  BY LayoutEquation
<1>3. \A s \in D : layout[s] = FieldsLayout(schema, schema.structs[s], layout)
  BY <1>2
<1>4. nested = [s \in D |-> fields_json(schema, schema.structs[s], nested)]
  BY NestedEquation
<1>5. read = [a \in Arrays(schema) |-> ReadFields(a, read)]
  BY ReadingEquation
<1>6. Arrays(schema) = {nested[s] : s \in D} /\ document_for(schema) = nested[schema.top]
  BY ArraysOfDocument
<1> HIDE DEF nested, read
<1>7. ASSUME NEW s \in D PROVE ours[s] = FieldsLayout(schema, schema.structs[s], ours)
  <2>1. ours[s] = read[nested[s]]
    BY DEF LayoutsRead
  <2>2. read[nested[s]] = ReadFields(nested[s], read)
    BY <1>5, <1>6
  <2>3. nested[s] = fields_json(schema, schema.structs[s], nested)
    BY <1>4
  <2> QED BY <2>1, <2>2, <2>3, ReadsFields
<1> HIDE DEF ours
<1>8. \A s \in D : ours[s] = layout[s]
  <2>1. StepsDescend("layout", schema, D, depth)
    BY <1>1, LayoutDescends
  <2>2. \A s \in D : ours[s] = Step("layout", schema, ours, s) /\ layout[s] = Step("layout", schema, layout, s)
    BY <1>3, <1>7 DEF Step
  <2> QED BY <2>1, <2>2, RecursionIsUnique
<1>9. schema.top \in D
  BY DEF AcceptedSource
<1>10. ours[schema.top] = read[document_for(schema)]
  BY <1>6, <1>9 DEF ours, LayoutsRead
<1> QED BY <1>2, <1>8, <1>9, <1>10 DEF read

(* A wallet that has nothing but the exported document knows the layout    *)
(* the contract decodes by.                                                *)
THEOREM WalletKnowsLayout ==
  ASSUME SourcesAreFinite
  PROVE  Spec => []DocumentTellsLayout
<1>1. ExportedInv => DocumentTellsLayout
  BY ReaderGetsLayout DEF ExportedInv, PublishedInv, ExportIgnoresOrder, DocumentTellsLayout
<1> QED BY ExportedInvariant, <1>1, PTL
=============================================================================
