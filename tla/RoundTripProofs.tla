---------------------------- MODULE RoundTripProofs ----------------------------
(***************************************************************************)
(* The generated decoder implements the safety part of WitnessCodec.  The  *)
(* invariant says, at every statement, which values the wallet can have    *)
(* encoded: those that begin with what has been bound and go on with what  *)
(* the calls in progress read in the bytes after the cursor.               *)
(***************************************************************************)
EXTENDS WitnessTilingProofs, RoundTrip

-----------------------------------------------------------------------------
(* The codec's state in the decoder's, and the inductive invariant. *)

Rest(at) == Slice(witness.raw, at, Len(witness.raw))

(* What is still read when the d-th call of those in progress returns.     *)
Awaits(K) ==
  /\ K \in [Nat -> Readings]
  /\ K[1] = Nothing
  /\ \A d \in 1 .. Len(stack) - 1 :
       K[d + 1] = Then(Meaning[<<stack[d].layout, stack[d].pc + 1>>], K[d])

(* What the calls in progress still read, from the next statement on.      *)
ToRead(K) == Then(Meaning[<<Top.layout, Top.pc>>], K[Len(stack)])

(* The wallet's values are those that begin with what has been decoded and *)
(* go on with what the calls in progress read in the rest of the bytes.    *)
Promise(K) == Awaits(K) /\ Continues(Meanings, Value, ToRead(K), Rest(Cursor))

EntryInv ==
  /\ entry.body \in Tops /\ entry.at = 0
  /\ witness.status = "lock" => witness.raw \in Buffers
  /\ stack # << >> => witness.status = "lock"

During == outcome = Pending /\ stack # << >> => \E K : Promise(K)

AnswerInv ==
  /\ outcome = Decoded => Meanings = {Value}
  /\ outcome.status = "err" => Meanings = {}

MeaningInv == EntryInv /\ During /\ AnswerInv

(* The values whose encoding is the lock field. *)
LEMMA MeaningsOfLock ==
  ASSUME EntryInv
  PROVE  Meanings = IF witness.status = "lock" THEN Meaning[<<entry.body, 1>>][witness.raw] ELSE {}
<1> DEFINE s == entry.body
           raw == witness.raw
<1>1. Messages[s] = UNION {[value : Decodings(s, r), bytes : {r}] : r \in Buffers}
  BY DEF EntryInv, Messages
<1>2. CASE witness.status = "lock"
  <2>1. Meanings = {m.value : m \in {e \in Messages[s] : e.bytes = raw}}
    BY <1>2 DEF Meanings
  <2>2. {e \in Messages[s] : e.bytes = raw} = [value : Decodings(s, raw), bytes : {raw}]
    <3>1. raw \in Buffers
      BY <1>2 DEF EntryInv
    <3>2. ASSUME NEW e PROVE e \in Messages[s] /\ e.bytes = raw <=> e \in [value : Decodings(s, raw), bytes : {raw}]
      BY <1>1, <3>1
    <3> HIDE DEF s, raw
    <3> QED BY <3>2
  <2>3. {m.value : m \in [value : Decodings(s, raw), bytes : {raw}]} = Decodings(s, raw)
    <3> HIDE DEF s, raw
    <3>1. ASSUME NEW v \in Decodings(s, raw)
          PROVE  v \in {m.value : m \in [value : Decodings(s, raw), bytes : {raw}]}
      <4> DEFINE m == [value |-> v, bytes |-> raw]
      <4>1. m \in [value : Decodings(s, raw), bytes : {raw}] /\ m.value = v
        OBVIOUS
      <4> QED BY <4>1
    <3> QED BY <3>1
  <2> QED BY <1>2, <2>1, <2>2, <2>3 DEF Decodings
<1>3. CASE witness.status # "lock"
  BY <1>3 DEF Meanings
<1> QED BY <1>2, <1>3

LEMMA ValueType ==
  ASSUME TypeInv
  PROVE  /\ Value \in Seq(LeafValues) /\ Len(Value) = Len(leaves) /\ Len(leaves) \in Nat
         /\ \A i \in 1 .. Len(leaves) : Value[i] = [some |-> leaves[i].some, val |-> leaves[i].val]
<1>1. leaves \in Seq(Leaf) /\ Len(leaves) \in Nat /\ DOMAIN leaves = 1 .. Len(leaves)
  BY LenProperties DEF TypeInv, TypeOK
<1>2. \A i \in 1 .. Len(leaves) : leaves[i] \in Leaf
  BY <1>1, ElementOfSeq
<1>3. \A i \in 1 .. Len(leaves) : [some |-> leaves[i].some, val |-> leaves[i].val] \in LeafValues
  BY <1>2 DEF Leaf, LeafValues
<1>4. Value = [i \in 1 .. Len(leaves) |-> [some |-> leaves[i].some, val |-> leaves[i].val]]
  BY <1>1 DEF Value
<1> DEFINE len == Len(leaves)
           at(i) == [some |-> leaves[i].some, val |-> leaves[i].val]
<1>5. len \in Nat /\ Value = [i \in 1 .. len |-> at(i)] /\ \A i \in 1 .. len : at(i) \in LeafValues
  BY <1>1, <1>3, <1>4
<1> HIDE DEF len, at
<1>6. Value \in Seq(LeafValues) /\ Len(Value) = len /\ \A i \in 1 .. len : Value[i] = at(i)
  BY <1>5
<1> QED BY <1>1, <1>6 DEF len, at

(* A sequence that is one longer than another it begins with.              *)
LEMMA OneLonger ==
  ASSUME NEW S, NEW v \in Seq(S), NEW w \in Seq(S), NEW e \in S,
         Len(w) = Len(v) + 1, \A i \in 1 .. Len(v) : w[i] = v[i], w[Len(v) + 1] = e
  PROVE  w = v \o <<e>>
<1> DEFINE one == <<e>>
           c == v \o one
           n == Len(v)
<1>1. one \in Seq(S) /\ Len(one) = 1 /\ one[1] = e
  OBVIOUS
<1>2. n \in Nat
  BY LenProperties
<1> HIDE DEF one
<1>3. /\ c \in Seq(S)
      /\ Len(c) = Len(v) + Len(one)
      /\ \A i \in 1 .. Len(v) + Len(one) : c[i] = IF i <= Len(v) THEN v[i] ELSE one[i - Len(v)]
  BY <1>1, ConcatProperties
<1> HIDE DEF c
<1>4. Len(w) = n + 1 /\ w[n + 1] = e /\ \A i \in 1 .. n : w[i] = v[i]
  OBVIOUS
<1>5. \A i \in 1 .. n + 1 : c[i] = IF i <= n THEN v[i] ELSE one[i - n]
  BY <1>1, <1>2, <1>3
<1>6. Len(c) = n + 1
  BY <1>1, <1>3
<1> HIDE DEF n
<1>7. ASSUME NEW i \in 1 .. n + 1 PROVE w[i] = c[i]
  <2>1. CASE i <= n
    <3>1. i \in 1 .. n
      BY <1>2, <2>1
    <3> QED BY <1>4, <1>5, <2>1, <3>1
  <2>2. CASE ~(i <= n)
    <3>1. i = n + 1 /\ i - n = 1
      BY <1>2, <2>2
    <3>2. c[i] = one[1]
      BY <1>5, <2>2, <3>1
    <3> QED BY <1>1, <1>4, <3>1, <3>2
  <2> QED BY <2>1, <2>2
<1>8. w = c
  BY <1>3, <1>4, <1>6, <1>7, SeqEqual
<1> QED BY <1>8 DEF c, one

(* A field that is bound is the next one of the value.                     *)
LEMMA ValueGrows ==
  ASSUME TypeInv, TypeInv', NEW leaf, leaves' = Append(leaves, leaf)
  PROVE  /\ leaf \in Leaf
         /\ <<[some |-> leaf.some, val |-> leaf.val]>> \in Seq(LeafValues)
         /\ Value' = Value \o <<[some |-> leaf.some, val |-> leaf.val]>>
<1> DEFINE v == [some |-> leaf.some, val |-> leaf.val]
           n == Len(leaves)
<1>1. leaves \in Seq(Leaf) /\ n \in Nat /\ leaves' \in Seq(Leaf)
  BY LenProperties DEF TypeInv, TypeOK
<1>2. Len(leaves') = n + 1 /\ leaves'[n + 1] = leaf /\ \A i \in 1 .. n : leaves'[i] = leaves[i]
  <2>1. /\ DOMAIN leaves = 1 .. n
        /\ Len(Append(leaves, leaf)) = n + 1
        /\ \A i \in 1 .. n + 1 : Append(leaves, leaf)[i] = IF i = n + 1 THEN leaf ELSE leaves[i]
    BY <1>1
  <2> QED BY <1>1, <2>1
<1>3. leaf \in Leaf
  <2>1. n + 1 \in 1 .. Len(leaves')
    BY <1>1, <1>2
  <2> QED BY <1>1, <1>2, <2>1, ElementOfSeq
<1>4. v \in LeafValues
  BY <1>3 DEF Leaf, LeafValues
<1>5. <<v>> \in Seq(LeafValues) /\ Len(<<v>>) = 1 /\ <<v>>[1] = v
  BY <1>4
<1>6. /\ Value \in Seq(LeafValues) /\ Len(Value) = n
      /\ \A i \in 1 .. n : Value[i] = [some |-> leaves[i].some, val |-> leaves[i].val]
  BY ValueType
<1>7. /\ Value' \in Seq(LeafValues) /\ Len(Value') = n + 1
      /\ \A i \in 1 .. n + 1 : Value'[i] = [some |-> leaves'[i].some, val |-> leaves'[i].val]
  <2>1. (/\ Value \in Seq(LeafValues) /\ Len(Value) = Len(leaves) /\ Len(leaves) \in Nat
         /\ \A i \in 1 .. Len(leaves) : Value[i] = [some |-> leaves[i].some, val |-> leaves[i].val])'
    BY ValueType, PTL
  <2> QED BY <1>2, <2>1
<1>8. n + 1 \in 1 .. n + 1 /\ \A i \in 1 .. n : i \in 1 .. n + 1
  BY <1>1
<1>9. \A i \in 1 .. n : Value'[i] = Value[i]
  BY <1>2, <1>6, <1>7, <1>8
<1>10. Value'[n + 1] = v
  BY <1>2, <1>7, <1>8
<1> DEFINE val0 == Value
           val1 == Value'
<1>11. /\ val0 \in Seq(LeafValues) /\ val1 \in Seq(LeafValues) /\ Len(val1) = Len(val0) + 1
       /\ \A i \in 1 .. Len(val0) : val1[i] = val0[i]
       /\ val1[Len(val0) + 1] = v
  BY <1>6, <1>7, <1>9, <1>10
<1> HIDE DEF v, val0, val1
<1>12. val1 = val0 \o <<v>>
  BY <1>4, <1>11, OneLonger
<1> QED BY <1>3, <1>5, <1>12 DEF v, val0, val1

-----------------------------------------------------------------------------
(* The next field, read or refused. *)

(* The bytes that are left are bytes.                                      *)
LEMMA RestType ==
  ASSUME TypeInv, NEW at \in Nat, at <= Len(witness.raw)
  PROVE  /\ Rest(at) \in Seq(Byte) /\ Len(Rest(at)) = Len(witness.raw) - at
         /\ Len(Rest(at)) \in Nat
         /\ \A m \in 0 .. Len(Rest(at)) :
              Slice(Rest(at), m, Len(Rest(at))) = Rest(at + m)
<1> DEFINE raw == witness.raw
<1>1. raw \in Seq(Byte) /\ Len(raw) \in Nat
  BY RawType
<1> HIDE DEF raw
<1>2. at <= Len(raw)
  BY DEF raw
<1> QED BY <1>1, <1>2, RestFacts DEF Rest, raw

(* What comes next is the current field and then the rest of the calls.    *)
LEMMA NextToRead ==
  ASSUME LayoutsAreFinite, TypeInv, Running, Top.pc <= Len(Layout),
         NEW K, Awaits(K)
  PROVE  LET field == KindMeaning(Current.kind, Meaning)
             after == Meaning[<<Top.layout, Top.pc + 1>>]
             K0    == K[Len(stack)]
         IN  /\ ToRead(K) = Then(field, Then(after, K0))
             /\ field \in Readings /\ after \in Readings /\ K0 \in Readings
             /\ Then(after, K0) \in Readings
<1> DEFINE s == Top.layout
           i == Top.pc
           field == KindMeaning(Current.kind, Meaning)
           after == Meaning[<<s, i + 1>>]
           K0 == K[Len(stack)]
<1>1. s \in Structs /\ i \in Nat \ {0} /\ Len(stack) \in Nat /\ Current.kind \in Kinds
  BY Innermost DEF Running
<1>2. Fields[s] = Layout /\ i \in DOMAIN Fields[s] /\ Fields[s][i].kind = Current.kind
  <2>1. DOMAIN Fields[s] = 1 .. Len(Fields[s]) /\ Len(Fields[s]) \in Nat
    BY <1>1, LayoutType
  <2> QED BY <1>1, <2>1 DEF Layout, Current
<1>3. K0 \in Readings
  BY <1>1 DEF Awaits
<1>4. after \in Readings
  BY <1>1, MeaningIsDefined
<1>5. field \in Readings
  <2>1. \A r \in Structs : Meaning[<<r, 1>>] \in Readings
    BY MeaningIsDefined
  <2>2. Called(Current.kind) \subseteq Structs
    BY <1>1, KindCases, SchemaAssumption DEF Called
  <2> QED BY <1>1, <2>1, <2>2, KindType
<1>6. Meaning[<<s, i>>] = Then(field, after)
  <2>1. Meaning[<<s, i>>] = FieldsFrom(s, i, Meaning)
    BY <1>1, MeaningIsDefined
  <2> QED BY <1>2, <2>1 DEF FieldsFrom
<1>7. ToRead(K) = Then(Then(field, after), K0)
  BY <1>6 DEF ToRead
<1>8. Then(after, K0) \in Readings
  BY <1>3, <1>4, ThenType
<1> HIDE DEF field, after, K0
<1>9. ToRead(K) = Then(field, Then(after, K0))
  BY <1>3, <1>4, <1>5, <1>7, ThenAssociates
<1> QED BY <1>3, <1>4, <1>5, <1>8, <1>9 DEF field, after, K0

(* An error is right where nothing is encoded as the lock field.           *)
LEMMA RefusedIsRight ==
  ASSUME EntryInv, Meanings = {}, outcome'.status = "err",
         UNCHANGED <<entry, witness>>, stack # << >>
  PROVE  MeaningInv'
<1>1. Meanings' = Meanings
  BY DEF Meanings
<1>2. outcome' # Decoded /\ outcome' # Pending
  BY DEF Decoded, Pending
<1> QED BY <1>1, <1>2 DEF MeaningInv, EntryInv, During, AnswerInv

(* A call that goes on.                                                    *)
LEMMA GoingOn ==
  ASSUME EntryInv, stack # << >> \/ witness.status = "lock", UNCHANGED <<entry, witness>>, outcome' = Pending,
         NEW K, Promise(K)'
  PROVE  MeaningInv'
<1>1. outcome' # Decoded /\ outcome'.status # "err"
  BY DEF Decoded, Pending
<1> QED BY <1>1 DEF MeaningInv, EntryInv, During, AnswerInv

(* Nothing the field can be read from comes next.                          *)
LEMMA FieldRefused ==
  ASSUME LayoutsAreFinite, TypeInv, Progress, MeaningInv, Running, Top.pc <= Len(Layout),
         FirstIsNot(KindMeaning(Current.kind, Meaning), Rest(Cursor)),
         outcome'.status = "err", UNCHANGED <<entry, witness>>
  PROVE  MeaningInv'
<1>1. PICK K : Promise(K)
  BY DEF MeaningInv, During, Running
<1>2. Rest(Cursor) \in Seq(Byte)
  BY Reading, RestType
<1>3. Continues(Meanings, Value,
                Then(KindMeaning(Current.kind, Meaning),
                     Then(Meaning[<<Top.layout, Top.pc + 1>>], K[Len(stack)])), Rest(Cursor))
  BY <1>1, NextToRead DEF Promise
<1>4. Meanings = {}
  BY <1>2, <1>3, ReadNot
<1> QED BY <1>4, RefusedIsRight DEF MeaningInv, Running

(* The field that comes next is read.                                      *)
LEMMA FieldRead ==
  ASSUME LayoutsAreFinite, TypeInv, TypeInv', Progress, MeaningInv, Running, Top.pc <= Len(Layout),
         NEW some \in BOOLEAN, NEW to \in Nat, NEW val, Cursor <= to, to <= Len(witness.raw),
         FirstIs(KindMeaning(Current.kind, Meaning), Rest(Cursor), to - Cursor,
                 <<[some |-> some, val |-> val]>>),
         Bind(some, Cursor, to, val)
  PROVE  MeaningInv'
<1> DEFINE leaf == [kind |-> Current.kind, some |-> some, from |-> Cursor, to |-> to, val |-> val]
           one == <<[some |-> some, val |-> val]>>
           field == KindMeaning(Current.kind, Meaning)
           n == to - Cursor
<1>1. PICK K : Promise(K)
  BY DEF MeaningInv, During, Running
<1> DEFINE next == Then(Meaning[<<Top.layout, Top.pc + 1>>], K[Len(stack)])
<1>2. /\ leaves' = Append(leaves, leaf) /\ UNCHANGED <<entry, witness, outcome>>
      /\ Len(stack') = Len(stack) /\ Len(stack) \in Nat \ {0}
      /\ \A d \in 1 .. Len(stack) - 1 : stack'[d] = stack[d]
      /\ Top'.layout = Top.layout /\ Top'.pc = Top.pc + 1 /\ Cursor' = to
  <2>1. Len(stack) \in Nat \ {0} /\ stack \in Seq(Frame)
    BY Innermost DEF Running, TypeInv, TypeOK
  <2> QED BY <2>1 DEF Bind, Top, Cursor
<1>3. one \in Seq(LeafValues) /\ Value' = Value \o one
  <2>1. /\ <<[some |-> leaf.some, val |-> leaf.val]>> \in Seq(LeafValues)
        /\ Value' = Value \o <<[some |-> leaf.some, val |-> leaf.val]>>
    <3> HIDE DEF leaf
    <3> QED BY <1>2, ValueGrows
  <2> QED BY <2>1
<1>4. Meanings' = Meanings
  BY <1>2 DEF Meanings
<1>5. Cursor \in Nat /\ Cursor <= Len(witness.raw) /\ Len(witness.raw) \in Nat
  BY Reading, RawType
<1>6. /\ Rest(Cursor) \in Seq(Byte) /\ n \in 0 .. Len(Rest(Cursor))
      /\ Slice(Rest(Cursor), n, Len(Rest(Cursor))) = Rest(to)
  <2>1. /\ Rest(Cursor) \in Seq(Byte) /\ Len(Rest(Cursor)) = Len(witness.raw) - Cursor
        /\ \A m \in 0 .. Len(Rest(Cursor)) :
             Slice(Rest(Cursor), m, Len(Rest(Cursor))) = Rest(Cursor + m)
    BY <1>5, RestType
  <2>2. n \in 0 .. Len(Rest(Cursor)) /\ Cursor + n = to
    BY <1>5, <2>1
  <2> HIDE DEF n
  <2>3. Slice(Rest(Cursor), n, Len(Rest(Cursor))) = Rest(Cursor + n)
    BY <2>1, <2>2
  <2> QED BY <2>1, <2>2, <2>3
<1>7. /\ Continues(Meanings, Value, Then(field, next), Rest(Cursor))
      /\ field \in Readings /\ next \in Readings
  BY <1>1, NextToRead DEF Promise
<1>8. Value \in Seq(LeafValues)
  BY ValueType
<1>9. Continues(Meanings, Value \o one, next, Rest(to))
  <2>1. FirstIs(field, Rest(Cursor), n, one)
    OBVIOUS
  <2> HIDE DEF field, next, one, n
  <2>2. Continues(Meanings, Value \o one, next, Slice(Rest(Cursor), n, Len(Rest(Cursor))))
    BY <1>3, <1>6, <1>7, <1>8, <2>1, ReadOn
  <2> QED BY <1>6, <2>2
<1>10. Promise(K)'
  <2>1. Rest(Cursor)' = Rest(to)
    BY <1>2 DEF Rest
  <2>2. ToRead(K)' = next
    BY <1>2 DEF ToRead
  <2>3. Awaits(K)'
    BY <1>1, <1>2 DEF Promise, Awaits
  <2> HIDE DEF next, one
  <2> QED BY <1>3, <1>4, <1>9, <2>1, <2>2, <2>3 DEF Promise
<1> QED BY <1>2, <1>10, GoingOn DEF MeaningInv, Running

-----------------------------------------------------------------------------
(* Fields that are read in one piece. *)

(* What the current field can be read from, in the bytes that are left.    *)
LEMMA FieldFirst ==
  ASSUME TypeInv, Progress, Running, Top.pc <= Len(Layout),
         Inner(Current.kind) \in PresentKinds,
         Current.kind.k = "opt" => Cursor < Len(witness.raw)
  PROVE  LET raw   == witness.raw
             kind  == Inner(Current.kind)
             field == KindMeaning(Current.kind, Meaning)
         IN  /\ \A to \in 0 .. Len(raw) :
                  Cursor <= to /\ Fills(raw, kind, Cursor, to) =>
                    FirstIs(field, Rest(Cursor), to - Cursor,
                            Present(Slice(raw, PayloadFrom(kind, Cursor), to)))
             /\ (\A to \in 0 .. Len(raw) : Cursor <= to => ~Fills(raw, kind, Cursor, to))
                  => FirstIsNot(field, Rest(Cursor))
<1> DEFINE raw   == witness.raw
           kind  == Inner(Current.kind)
           field == KindMeaning(Current.kind, Meaning)
           b     == Rest(Cursor)
<1>1. raw \in Seq(Byte) /\ Cursor \in Nat /\ Cursor <= Len(raw) /\ Len(raw) \in Nat
  BY Reading, RawType
<1>2. b = Slice(raw, Cursor, Len(raw)) /\ b \in Seq(Byte) /\ Len(b) = Len(raw) - Cursor
  BY <1>1, RestType DEF Rest
<1>3. /\ \A to \in 0 .. Len(raw) :
           Cursor <= to /\ Fills(raw, kind, Cursor, to) =>
             FirstIs(Plain(kind), b, to - Cursor, Present(Slice(raw, PayloadFrom(kind, Cursor), to)))
      /\ (\A to \in 0 .. Len(raw) : Cursor <= to => ~Fills(raw, kind, Cursor, to))
           => FirstIsNot(Plain(kind), b)
  <2> DEFINE from == Cursor
  <2>1. raw \in Seq(Byte) /\ from \in Nat /\ from <= Len(raw) /\ kind \in PresentKinds
        /\ b = Slice(raw, from, Len(raw))
    BY <1>1, <1>2
  <2> HIDE DEF raw, kind, from, b
  <2>2. /\ \A to \in 0 .. Len(raw) :
           from <= to /\ Fills(raw, kind, from, to) =>
             FirstIs(Plain(kind), b, to - from, Present(Slice(raw, PayloadFrom(kind, from), to)))
        /\ (\A to \in 0 .. Len(raw) : from <= to => ~Fills(raw, kind, from, to))
           => FirstIsNot(Plain(kind), b)
    BY <2>1, PlainFirst
  <2> QED BY <2>2 DEF from
<1>4. CASE Current.kind.k = "opt"
  <2>1. kind = Current.kind.of /\ field = Optional(Plain(kind))
    BY <1>4 DEF Inner, KindMeaning
  <2>2. b # << >>
    BY <1>1, <1>2, <1>4
  <2>3. Plain(kind) \in Readings
    BY PlainType DEF PresentKinds
  <2> HIDE DEF raw, kind, field, b
  <2>4. /\ \A n, val : FirstIs(Plain(kind), b, n, Present(val)) => FirstIs(field, b, n, Present(val))
        /\ FirstIsNot(Plain(kind), b) => FirstIsNot(field, b)
    BY <1>2, <2>1, <2>2, <2>3, OptionalPresent
  <2>5. /\ \A to \in 0 .. Len(raw) :
             Cursor <= to /\ Fills(raw, kind, Cursor, to) =>
               FirstIs(field, b, to - Cursor, Present(Slice(raw, PayloadFrom(kind, Cursor), to)))
        /\ (\A to \in 0 .. Len(raw) : Cursor <= to => ~Fills(raw, kind, Cursor, to))
             => FirstIsNot(field, b)
    BY <1>3, <2>4
  <2> QED BY <2>5 DEF raw, kind, field, b
<1>5. CASE Current.kind.k # "opt"
  <2>1. kind = Current.kind
    BY <1>5 DEF Inner
  <2>2. Current.kind.k # "struct" /\ Current.kind.k # "union"
    <3>1. \A x \in PresentKinds : x.k # "struct" /\ x.k # "union"
      BY DEF PresentKinds, Fixed, Scalars, Arrays, VarBytes, Vectors
    <3> QED BY <2>1, <3>1
  <2>3. field = Plain(kind)
    BY <1>5, <2>1, <2>2 DEF KindMeaning
  <2> HIDE DEF raw, kind, field, b
  <2>4. /\ \A to \in 0 .. Len(raw) :
             Cursor <= to /\ Fills(raw, kind, Cursor, to) =>
               FirstIs(field, b, to - Cursor, Present(Slice(raw, PayloadFrom(kind, Cursor), to)))
        /\ (\A to \in 0 .. Len(raw) : Cursor <= to => ~Fills(raw, kind, Cursor, to))
             => FirstIsNot(field, b)
    BY <1>3, <2>3
  <2> QED BY <2>4 DEF raw, kind, field, b
<1> QED BY <1>4, <1>5

(* What the field is read from comes next, and it is bound.                *)
LEMMA PresentRead ==
  ASSUME LayoutsAreFinite, TypeInv, TypeInv', Progress, MeaningInv, Running,
         Top.pc <= Len(Layout), Inner(Current.kind) \in PresentKinds,
         Current.kind.k = "opt" => Cursor < Len(witness.raw),
         NEW to \in Nat, Cursor <= to, to <= Len(witness.raw),
         Fills(witness.raw, Inner(Current.kind), Cursor, to),
         Bind(TRUE, Cursor, to, Slice(witness.raw, PayloadFrom(Inner(Current.kind), Cursor), to))
  PROVE  MeaningInv'
<1> DEFINE val == Slice(witness.raw, PayloadFrom(Inner(Current.kind), Cursor), to)
<1>1. to \in 0 .. Len(witness.raw)
  BY RawType
<1>2. FirstIs(KindMeaning(Current.kind, Meaning), Rest(Cursor), to - Cursor, Present(val))
  BY <1>1, FieldFirst
<1>3. Bind(TRUE, Cursor, to, val)
  OBVIOUS
<1> HIDE DEF val
<1>4. FirstIs(KindMeaning(Current.kind, Meaning), Rest(Cursor), to - Cursor,
              <<[some |-> TRUE, val |-> val]>>)
  BY <1>2 DEF Present
<1> QED BY <1>3, <1>4, FieldRead

(* The field cannot be read from the bytes that are left.                  *)
LEMMA PresentRefused ==
  ASSUME LayoutsAreFinite, TypeInv, Progress, MeaningInv, Running,
         Top.pc <= Len(Layout), Inner(Current.kind) \in PresentKinds,
         Current.kind.k = "opt" => Cursor < Len(witness.raw),
         \A to \in 0 .. Len(witness.raw) :
            Cursor <= to => ~Fills(witness.raw, Inner(Current.kind), Cursor, to),
         NEW e, Fail(e)
  PROVE  MeaningInv'
<1>1. FirstIsNot(KindMeaning(Current.kind, Meaning), Rest(Cursor))
  BY FieldFirst
<1>2. outcome'.status = "err" /\ UNCHANGED <<entry, witness>>
  BY DEF Fail, Error
<1> QED BY <1>1, <1>2, FieldRefused

(* A scalar or an array, on its own or in an option.                       *)
LEMMA ReadFixedIsRight ==
  ASSUME LayoutsAreFinite, TypeInv, TypeInv', Progress, MeaningInv, Running,
         Top.pc <= Len(Layout), Inner(Current.kind) \in Fixed,
         Current.kind.k = "opt" => Cursor < Len(witness.raw),
         ReadFixed(Inner(Current.kind).size)
  PROVE  MeaningInv'
<1> DEFINE kind == Inner(Current.kind)
           n    == kind.size
           to   == Cursor + n
<1>1. /\ Buf = witness.raw /\ Cursor \in Nat /\ Len(witness.raw) \in Nat
      /\ Len(witness.raw) <= UsizeMax /\ UsizeMax \in Nat
  BY Reading, RawType, SliceFitsUsize
<1>2. /\ kind.k \in {"scalar", "array"} /\ n \in Nat \ {0} /\ kind \in PresentKinds
  BY FixedSize DEF PresentKinds
<1>3. /\ PayloadFrom(kind, Cursor) = Cursor /\ PayloadTo(witness.raw, kind, Cursor) = to
  BY <1>2 DEF PayloadFrom, PayloadTo
<1>4. CASE Fits(Cursor, n) /\ Take(Cursor, to)
  <2>1. to \in Nat /\ Cursor <= to /\ to <= Len(witness.raw)
    BY <1>1, <1>2, <1>4 DEF Fits
  <2>2. Fills(witness.raw, kind, Cursor, to)
    BY <1>2, <1>3, <2>1 DEF Fills
  <2>3. Bind(TRUE, Cursor, to, Slice(witness.raw, PayloadFrom(kind, Cursor), to))
    BY <1>1, <1>3, <1>4, <2>1 DEF Take
  <2> HIDE DEF to
  <2> QED BY <1>2, <2>1, <2>2, <2>3, PresentRead
<1>5. CASE ~Fits(Cursor, n) /\ Fail(Short(Cursor, n))
  <2>1. \A t \in 0 .. Len(witness.raw) : ~Fills(witness.raw, kind, Cursor, t)
    BY <1>1, <1>2, <1>3, <1>5 DEF Fills, Fits
  <2> QED BY <1>2, <1>5, <2>1, PresentRefused
<1> QED BY <1>4, <1>5 DEF ReadFixed

(* A Vec<u8>, on its own or in an option.                                  *)
LEMMA ReadVarBytesIsRight ==
  ASSUME LayoutsAreFinite, TypeInv, TypeInv', Progress, MeaningInv, Running,
         Top.pc <= Len(Layout), Inner(Current.kind) = VarBytes,
         Current.kind.k = "opt" => Cursor < Len(witness.raw),
         ReadVarBytes
  PROVE  MeaningInv'
<1> DEFINE kind  == Inner(Current.kind)
           raw   == witness.raw
           start == Cursor + PrefixLen
           len   == PrefixAt(Buf, Cursor)
           to    == start + len
<1>1. /\ Buf = raw /\ Cursor \in Nat /\ Len(raw) \in Nat /\ raw \in Seq(Byte)
      /\ Len(raw) <= UsizeMax /\ UsizeMax \in Nat /\ PrefixLen \in Nat /\ start \in Nat
  BY Reading, RawType, SliceFitsUsize DEF PrefixLen
<1>2. kind \in PresentKinds /\ kind.k = "bytes"
  BY DEF PresentKinds, VarBytes
<1>3. PayloadFrom(kind, Cursor) = start /\ PayloadTo(raw, kind, Cursor) = to
  BY <1>1, <1>2 DEF PayloadFrom, PayloadTo
<1>4. Fits(Cursor, PrefixLen) => len \in Nat
  BY <1>1, PrefixType DEF Fits
<1>5. CASE ~Fits(Cursor, PrefixLen) /\ Fail(Short(Cursor, PrefixLen))
  <2>1. ~(start <= Len(raw))
    BY <1>1, <1>5 DEF Fits
  <2>2. \A t \in 0 .. Len(raw) : ~Fills(raw, kind, Cursor, t)
    BY <1>1, <1>3, <2>1 DEF Fills
  <2> QED BY <1>2, <1>5, <2>2, PresentRefused
<1>6. CASE Fits(Cursor, PrefixLen) /\ ~Fits(start, len) /\ Fail(Short(start, len))
  <2>1. ~(to <= Len(raw))
    BY <1>1, <1>4, <1>6 DEF Fits
  <2>2. \A t \in 0 .. Len(raw) : ~Fills(raw, kind, Cursor, t)
    BY <1>1, <1>3, <1>4, <1>6, <2>1 DEF Fills
  <2> QED BY <1>2, <1>6, <2>2, PresentRefused
<1>7. CASE Fits(Cursor, PrefixLen) /\ Fits(start, len) /\ Take(start, to)
  <2>1. /\ to \in Nat /\ start <= to /\ Cursor <= to /\ to <= Len(raw)
    BY <1>1, <1>4, <1>7 DEF Fits
  <2>2. Fills(raw, kind, Cursor, to)
    BY <1>2, <1>3, <2>1 DEF Fills
  <2>3. Bind(TRUE, Cursor, to, Slice(raw, PayloadFrom(kind, Cursor), to))
    BY <1>1, <1>3, <1>7, <2>1 DEF Take
  <2> HIDE DEF to
  <2> QED BY <1>2, <2>1, <2>2, <2>3, PresentRead
<1> QED BY <1>5, <1>6, <1>7 DEF ReadVarBytes, Sliced, Fits

-----------------------------------------------------------------------------
(* The steps that decode a field. *)

(* Scalars, arrays and Vec<u8>.                                            *)
LEMMA DecodePlainIsRight ==
  ASSUME LayoutsAreFinite, TypeInv, TypeInv', Progress, MeaningInv, DecodeFixed \/ DecodeVarBytes
  PROVE  MeaningInv'
<1>1. CASE DecodeFixed
  <2>1. /\ Running /\ Top.pc <= Len(Layout) /\ Current.kind.k \in {"scalar", "array"}
        /\ Current.kind \in Kinds /\ ReadFixed(Current.kind.size)
    BY <1>1, AtFieldRuns, AtFieldFacts DEF DecodeFixed
  <2>2. Inner(Current.kind) = Current.kind /\ Current.kind \in Fixed /\ Current.kind.k # "opt"
    BY <2>1, KindCases DEF Inner
  <2> QED BY <2>1, <2>2, ReadFixedIsRight
<1>2. CASE DecodeVarBytes
  <2>1. /\ Running /\ Top.pc <= Len(Layout) /\ Current.kind.k = "bytes"
        /\ Current.kind \in Kinds /\ ReadVarBytes
    BY <1>2, AtFieldRuns, AtFieldFacts DEF DecodeVarBytes
  <2>2. Inner(Current.kind) = VarBytes /\ Current.kind.k # "opt"
    BY <2>1, KindCases DEF Inner
  <2> QED BY <2>1, <2>2, ReadVarBytesIsRight
<1> QED BY <1>1, <1>2

(* An option that bytes are left for.                                      *)
LEMMA DecodePresentIsRight ==
  ASSUME LayoutsAreFinite, TypeInv, TypeInv', Progress, MeaningInv, DecodePresent
  PROVE  MeaningInv'
<1> DEFINE of   == Current.kind.of
           byte == [k |-> "scalar", size |-> 1]
<1>1. /\ Running /\ Top.pc <= Len(Layout) /\ Inner(Current.kind) = of
      /\ Cursor < Len(witness.raw)
  BY AtFieldRuns, AtFieldFacts, Reading DEF DecodePresent, Inner
<1>2. /\ Cursor \in Nat /\ Len(witness.raw) \in Nat /\ Len(witness.raw) <= UsizeMax
      /\ UsizeMax \in Nat /\ Buf = witness.raw
  BY <1>1, Reading, RawType, SliceFitsUsize
<1>3. CASE of = VarBytes /\ ReadVarBytes
  BY <1>1, <1>3, ReadVarBytesIsRight
<1>4. CASE of \in Fixed /\ ReadFixed(of.size)
  BY <1>1, <1>4, ReadFixedIsRight
<1>5. CASE of = byte /\ (IF Cursor + 1 > UsizeMax THEN Fail(IntegerOverflow)
                         ELSE Take(Cursor, Cursor + 1))
  <2>1. of \in Fixed /\ of.size = 1
    BY <1>5 DEF Fixed, Scalars
  <2>2. Fits(Cursor, 1) /\ Take(Cursor, Cursor + 1)
    BY <1>1, <1>2, <1>5 DEF Fits
  <2>3. ReadFixed(Inner(Current.kind).size)
    BY <1>1, <2>1, <2>2 DEF ReadFixed
  <2> QED BY <1>1, <2>1, <2>3, ReadFixedIsRight
<1> QED BY <1>3, <1>4, <1>5 DEF DecodePresent

(* An option that no bytes are left for.                                   *)
LEMMA DecodeAbsentIsRight ==
  ASSUME LayoutsAreFinite, TypeInv, TypeInv', Progress, MeaningInv, DecodeAbsent
  PROVE  MeaningInv'
<1> DEFINE of == Current.kind.of
           b  == Rest(Cursor)
<1>1. /\ Running /\ Top.pc <= Len(Layout) /\ Current.kind \in Kinds /\ Current.kind.k = "opt"
  BY AtFieldRuns, AtFieldFacts DEF DecodeAbsent
<1>2. Cursor \in Nat /\ Cursor = Len(witness.raw) /\ Len(witness.raw) \in Nat
  BY <1>1, Reading, RawType DEF DecodeAbsent
<1>3. of \in PresentKinds /\ KindMeaning(Current.kind, Meaning) = Optional(Plain(of))
  BY <1>1, KindCases DEF PresentKinds, KindMeaning
<1>4. b \in Seq(Byte) /\ Len(b) = 0
  BY <1>2, RestType
<1>5. b = << >>
  <2> HIDE DEF b
  <2> QED BY <1>4, EmptySeq
<1>6. FirstIs(Optional(Plain(of)), << >>, 0, Absent)
  <2> DEFINE A == Plain(of)
  <2>1. A \in Readings /\ A[<< >>] = {}
    <3> HIDE DEF of
    <3> QED BY <1>3, PlainType, PlainTakesBytes DEF PresentKinds
  <2> HIDE DEF A
  <2>2. FirstIs(Optional(A), << >>, 0, Absent)
    BY <2>1, OptionalAbsent
  <2> QED BY <2>2 DEF A
<1>7. FirstIs(KindMeaning(Current.kind, Meaning), b, Cursor - Cursor,
              <<[some |-> FALSE, val |-> << >>]>>)
  <2>1. Cursor - Cursor = 0
    BY <1>2
  <2> HIDE DEF b
  <2> QED BY <1>3, <1>5, <1>6, <2>1 DEF Absent
<1> DEFINE none == << >>
           some == FALSE
<1>8. Bind(some, Cursor, Cursor, none)
  BY DEF DecodeAbsent
<1>9. some \in BOOLEAN /\ Cursor <= Cursor /\ Cursor <= Len(witness.raw)
  BY <1>2
<1>10. FirstIs(KindMeaning(Current.kind, Meaning), b, Cursor - Cursor,
               <<[some |-> some, val |-> none]>>)
  BY <1>7
<1> HIDE DEF none, some
<1> QED BY <1>1, <1>2, <1>8, <1>9, <1>10, FieldRead

(* A step of the loop binds nothing.                                       *)
LEMMA LoopKeepsMeaning ==
  ASSUME MeaningInv, UNCHANGED <<entry, witness, stack, leaves, outcome>>
  PROVE  MeaningInv'
<1>1. Meanings' = Meanings /\ Value' = Value
  BY DEF Meanings, Value
<1>2. ASSUME NEW K, Promise(K) PROVE Promise(K)'
  BY <1>1, <1>2 DEF Promise, Awaits, ToRead, Rest, Top, Cursor
<1> QED BY <1>1, <1>2 DEF MeaningInv, EntryInv, During, AnswerInv

(* The count of a vec.                                                     *)
LEMMA DecodeVecCountIsRight ==
  ASSUME LayoutsAreFinite, TypeInv, TypeInv', Progress, MeaningInv, DecodeVecCount
  PROVE  MeaningInv'
<1> DEFINE kind  == Inner(Current.kind)
           raw   == witness.raw
           start == Cursor + PrefixLen
           count == PrefixAt(Buf, Cursor)
<1>1. /\ Running /\ Top.pc <= Len(Layout) /\ Current.kind \in Kinds /\ Current.kind.k = "vec"
  BY AtFieldRuns, AtFieldFacts DEF DecodeVecCount
<1>2. kind \in PresentKinds /\ kind.k = "vec" /\ Current.kind.k # "opt"
  BY <1>1, KindCases DEF PresentKinds, Inner
<1>3. /\ Buf = raw /\ Cursor \in Nat /\ Len(raw) \in Nat
      /\ Len(raw) <= UsizeMax /\ UsizeMax \in Nat /\ PrefixLen \in Nat /\ start \in Nat
  BY <1>1, Reading, RawType, SliceFitsUsize DEF PrefixLen
<1>4. CASE ~Fits(Cursor, PrefixLen) /\ Fail(Short(Cursor, PrefixLen))
  <2>1. PayloadFrom(kind, Cursor) = start /\ ~(start <= Len(raw))
    BY <1>2, <1>3, <1>4 DEF Fits, PayloadFrom
  <2>2. \A t \in 0 .. Len(raw) : ~Fills(raw, kind, Cursor, t)
    BY <1>3, <2>1 DEF Fills
  <2> QED BY <1>1, <1>2, <1>4, <2>2, PresentRefused
<1>5. CASE count = 0 /\ Fail(InvalidVectorCount)
  <2>1. \A t \in 0 .. Len(raw) : ~Fills(raw, kind, Cursor, t)
    BY <1>2, <1>3, <1>5 DEF Fills
  <2> QED BY <1>1, <1>2, <1>5, <2>1, PresentRefused
<1>6. CASE UNCHANGED <<entry, witness, stack, leaves, outcome>>
  BY <1>6, LoopKeepsMeaning
<1> QED BY <1>4, <1>5, <1>6 DEF DecodeVecCount, Sliced, Fits

(* An element of a vec.                                                    *)
LEMMA DecodeVecElementIsRight ==
  ASSUME LayoutsAreFinite, TypeInv, TypeInv', Progress, MeaningInv, DecodeVecElement
  PROVE  MeaningInv'
<1> DEFINE raw   == witness.raw
           n     == Current.kind.of.size
           used  == loop.i * n
           all   == loop.count * n
           e     == Refusal(loop.cur, n, VecElementsTooShort(loop.i))
<1>1. /\ Running /\ loop.count # 0 /\ loop.i < loop.count
      /\ \/ ~Fits(loop.cur, n) /\ Fail(e)
         \/ UNCHANGED <<entry, witness, stack, leaves, outcome>>
  BY DEF DecodeVecElement, PushElement, Sliced, Fits
<1>2. CASE ~Fits(loop.cur, n) /\ Fail(e)
  <2>1. /\ Buf = raw /\ Cursor = Reached /\ Reached \in Nat /\ Len(raw) \in Nat
        /\ Len(raw) <= UsizeMax /\ UsizeMax \in Nat /\ PrefixLen \in Nat
    BY <1>1, Reading, RawType, SliceFitsUsize DEF PrefixLen
  <2>2. /\ n \in Nat /\ loop.count \in Nat /\ loop.i \in Nat /\ loop.cur \in Nat
        /\ Current.kind \in Kinds /\ Current.kind.k = "vec" /\ Top.pc <= Len(Layout)
    BY <1>1, InLoop DEF Loop
  <2>3. /\ loop.cur = Reached + PrefixLen + used /\ loop.cur <= Len(raw)
        /\ loop.count = PrefixAt(raw, Reached)
    BY <1>1 DEF Progress, LoopInv
  <2>4. used \in Nat /\ all \in Nat /\ used + n <= all
    <3>1. loop.i + 1 \in Nat /\ loop.i + 1 <= loop.count
      BY <1>1, <2>2
    <3> QED BY <2>2, <3>1, ElementsAdd
  <2>5. Inner(Current.kind) = Current.kind /\ Current.kind \in PresentKinds /\ Current.kind.k # "opt"
    BY <2>2, KindCases DEF PresentKinds, Inner
  <2>6. PayloadTo(raw, Current.kind, Reached) = Reached + PrefixLen + all
    BY <2>2, <2>3 DEF PayloadTo
  <2> HIDE DEF used, all
  <2>7. ~(Reached + PrefixLen + used + n <= UsizeMax /\ Reached + PrefixLen + used + n <= Len(raw))
    BY <1>2, <2>1, <2>3 DEF Fits
  <2>8. Reached + PrefixLen + all > Len(raw)
    <3>1. Reached + PrefixLen + used <= Len(raw)
      BY <2>3
    <3> HIDE DEF raw, n
    <3> QED BY ONLY <2>1, <2>2, <2>3, <2>4, <2>7, <3>1, ElementPastEnd
  <2>9. \A t \in 0 .. Len(raw) : ~Fills(raw, Inner(Current.kind), Cursor, t)
    BY <2>1, <2>4, <2>5, <2>6, <2>8 DEF Fills
  <2> HIDE DEF e
  <2> QED BY <1>1, <1>2, <2>2, <2>5, <2>9, PresentRefused
<1>3. CASE UNCHANGED <<entry, witness, stack, leaves, outcome>>
  BY <1>3, LoopKeepsMeaning
<1> QED BY <1>1, <1>2, <1>3

(* The end of a vec: it is bound as a whole.                               *)
LEMMA FinishVecIsRight ==
  ASSUME LayoutsAreFinite, TypeInv, TypeInv', Progress, MeaningInv, FinishVec
  PROVE  MeaningInv'
<1> DEFINE start == Cursor + PrefixLen
           raw   == witness.raw
           kind  == Inner(Current.kind)
<1>1. /\ Running /\ loop.count # 0 /\ loop.i = loop.count
      /\ Bind(TRUE, Cursor, loop.cur, loop.val)
  BY DEF FinishVec
<1>2. /\ Top.pc <= Len(Layout) /\ Current.kind \in Kinds /\ Current.kind.k = "vec"
      /\ loop.cur \in Nat /\ loop.i \in Nat
  BY <1>1, InLoop DEF Loop
<1>3. Cursor = Reached /\ Cursor \in Nat /\ Len(raw) \in Nat
  BY <1>1, Reading, RawType
<1>4. kind = Current.kind /\ kind \in PresentKinds /\ kind.k = "vec" /\ Current.kind.k # "opt"
  BY <1>2, KindCases DEF PresentKinds, Inner
<1>5. /\ start + loop.i <= loop.cur /\ loop.cur <= Len(raw)
      /\ PrefixAt(raw, Cursor) # 0
      /\ loop.cur = start + PrefixAt(raw, Cursor) * Current.kind.of.size
      /\ loop.val = Slice(raw, start, loop.cur)
  BY <1>1, <1>3 DEF Progress, LoopInv
<1>6. start <= loop.cur /\ Cursor <= loop.cur
  BY <1>2, <1>3, <1>5 DEF PrefixLen
<1>7. PayloadFrom(kind, Cursor) = start /\ PayloadTo(raw, kind, Cursor) = loop.cur
  BY <1>4, <1>5 DEF PayloadFrom, PayloadTo
<1>8. Fills(raw, kind, Cursor, loop.cur)
  BY <1>5, <1>6, <1>7 DEF Fills
<1>9. Bind(TRUE, Cursor, loop.cur, Slice(raw, PayloadFrom(kind, Cursor), loop.cur))
  BY <1>1, <1>5, <1>7
<1> QED BY <1>1, <1>2, <1>4, <1>5, <1>6, <1>8, <1>9, PresentRead

-----------------------------------------------------------------------------
(* Calls and returns. *)

(* The empty value leaves what follows as it is.                           *)
LEMMA AfterNothing ==
  ASSUME NEW values \in SUBSET Seq(LeafValues)
  PROVE  After(<< >>, values) = values
<1>1. ASSUME NEW w \in values PROVE << >> \o w = w
  BY ConcatEmptySeq
<1> QED BY <1>1 DEF After

(* A call is made: what it returns to is read after it.                    *)
LEMMA CallMade ==
  ASSUME TypeInv, stack # << >>, NEW K, Awaits(K),
         Len(stack') = Len(stack) + 1,
         \A d \in 1 .. Len(stack) : /\ stack'[d].layout = stack[d].layout
                                    /\ stack'[d].pc = stack[d].pc,
         NEW next \in Readings, next = Then(Meaning[<<Top.layout, Top.pc + 1>>], K[Len(stack)])
  PROVE  \E L : /\ Awaits(L)'
                /\ ToRead(L)' = Then(Meaning[<<Top.layout, Top.pc>>]', next)
<1> DEFINE n == Len(stack)
<1>1. n \in Nat \ {0} /\ n + 1 \in Nat /\ K \in [Nat -> Readings] /\ K[1] = Nothing
  BY Innermost DEF Awaits
<1>2. PICK L : /\ L \in [Nat -> Readings] /\ L[n + 1] = next
               /\ \A d \in Nat : d # n + 1 => L[d] = K[d]
  <2> DEFINE M == [K EXCEPT ![n + 1] = next]
  <2>1. /\ M \in [Nat -> Readings] /\ M[n + 1] = next
        /\ \A d \in Nat : d # n + 1 => M[d] = K[d]
    BY <1>1
  <2> QED BY <2>1
<1>3. n' = n + 1
  OBVIOUS
<1>4. Top'.layout = stack'[n + 1].layout /\ Top'.pc = stack'[n + 1].pc
  BY <1>3 DEF Top
<1>5. L[1] = Nothing
  BY <1>1, <1>2
<1>6. ASSUME NEW d \in 1 .. n
      PROVE  L[d + 1] = Then(Meaning[<<stack'[d].layout, stack'[d].pc + 1>>], L[d])
  <2>1. d \in Nat /\ d # n + 1 /\ d + 1 \in Nat /\ L[d] = K[d]
    BY <1>1, <1>2
  <2>2. stack'[d].layout = stack[d].layout /\ stack'[d].pc = stack[d].pc
    OBVIOUS
  <2>3. CASE d = n
    BY <1>2, <2>1, <2>2, <2>3 DEF Top
  <2>4. CASE d # n
    <3>1. d \in 1 .. n - 1 /\ d + 1 # n + 1
      BY <1>1, <2>4
    <3>2. K[d + 1] = Then(Meaning[<<stack[d].layout, stack[d].pc + 1>>], K[d])
      BY <3>1 DEF Awaits
    <3> QED BY <1>2, <2>1, <2>2, <3>1, <3>2
  <2> QED BY <2>3, <2>4
<1>7. Awaits(L)'
  <2>1. Len(stack)' - 1 = n
    BY <1>1, <1>3
  <2>2. ASSUME NEW d \in 1 .. Len(stack)' - 1
        PROVE  L[d + 1] = Then(Meaning[<<stack'[d].layout, stack'[d].pc + 1>>], L[d])
    <3>1. d \in 1 .. n
      BY <2>1
    <3> QED BY <1>6, <3>1
  <2> HIDE DEF n
  <2>3. L \in [Nat -> Readings] /\ L[1] = Nothing
    BY <1>2, <1>5
  <2> QED BY <2>2, <2>3 DEF Awaits
<1>8. ToRead(L)' = Then(Meaning[<<Top.layout, Top.pc>>]', next)
  BY <1>2, <1>3 DEF ToRead
<1> QED BY <1>7, <1>8

(* A nested struct: its fields come next, then the rest of this one.       *)
LEMMA DecodeNestedIsRight ==
  ASSUME LayoutsAreFinite, TypeInv, Progress, MeaningInv, DecodeNested
  PROVE  MeaningInv'
<1> DEFINE frame == Enter(Current.kind.path, Cursor)
<1>1. /\ Running /\ Top.pc <= Len(Layout) /\ Current.kind.k = "struct"
      /\ stack' = Append(stack, frame) /\ UNCHANGED <<entry, witness, loop, leaves, outcome>>
  BY AtFieldRuns, AtFieldFacts DEF DecodeNested
<1>2. PICK K : Promise(K)
  BY <1>1 DEF MeaningInv, During, Running
<1> DEFINE next == Then(Meaning[<<Top.layout, Top.pc + 1>>], K[Len(stack)])
<1>3. /\ ToRead(K) = Then(Meaning[<<Current.kind.path, 1>>], next)
      /\ next \in Readings
  <2>1. KindMeaning(Current.kind, Meaning) = Meaning[<<Current.kind.path, 1>>]
    BY <1>1 DEF KindMeaning
  <2> QED BY <1>1, <1>2, <2>1, NextToRead DEF Promise
<1>4. stack \in Seq(Frame) /\ Len(stack) \in Nat \ {0} /\ stack # << >>
  BY <1>1, Innermost DEF Running, TypeInv, TypeOK
<1>5. /\ Len(stack') = Len(stack) + 1
      /\ \A d \in 1 .. Len(stack) : stack'[d] = stack[d]
      /\ stack'[Len(stack) + 1] = frame
  <2> HIDE DEF frame
  <2> QED BY <1>1, <1>4
<1>6. Top'.layout = Current.kind.path /\ Top'.pc = 1 /\ Cursor' = Cursor
  BY <1>5 DEF Top, Cursor, Enter
<1> HIDE DEF next
<1>7. PICK L : Awaits(L)' /\ ToRead(L)' = Then(Meaning[<<Top.layout, Top.pc>>]', next)
  BY <1>2, <1>3, <1>4, <1>5, CallMade DEF Promise, next
<1>8. Promise(L)'
  <2>1. ToRead(L)' = ToRead(K)
    BY <1>3, <1>6, <1>7
  <2>2. Meanings' = Meanings /\ Value' = Value /\ Rest(Cursor)' = Rest(Cursor)
    BY <1>1, <1>6 DEF Meanings, Value, Rest
  <2> QED BY <1>2, <1>7, <2>1, <2>2 DEF Promise
<1> QED BY <1>1, <1>4, <1>8, GoingOn DEF MeaningInv, Running

(* The end of a nested struct.                                             *)
LEMMA ReturnNestedIsRight ==
  ASSUME LayoutsAreFinite, TypeInv, Progress, MeaningInv, ReturnNested
  PROVE  MeaningInv'
<1> DEFINE n == Len(stack)
<1>1. /\ Running /\ Top.pc > Len(Layout) /\ n > 1
      /\ stack' = Append(SubSeq(stack, 1, n - 2), Resume(Calling, Calling.pc + 1, Cursor))
      /\ UNCHANGED <<entry, witness, loop, leaves, outcome>>
  BY DEF ReturnNested, Exhausted
<1>2. PICK K : Promise(K)
  BY <1>1 DEF MeaningInv, During, Running
<1>3. /\ stack \in Seq(Frame) /\ n \in Nat \ {0} /\ stack # << >>
      /\ Top.layout \in Structs /\ Top.pc \in Nat \ {0} /\ Len(Layout) \in Nat
  BY <1>1, Innermost DEF Running, TypeInv, TypeOK
<1>4. /\ Len(stack') = n - 1 /\ \A d \in 1 .. n - 2 : stack'[d] = stack[d]
      /\ stack'[n - 1] = Resume(Calling, Calling.pc + 1, Cursor)
  <2> DEFINE below == SubSeq(stack, 1, n - 2)
             frame == Resume(Calling, Calling.pc + 1, Cursor)
  <2>1. Calling \in Frame /\ Cursor \in Nat
    BY <1>1, <1>3, Innermost, ElementOfSeq DEF Calling
  <2>2. frame \in Frame
    BY <2>1 DEF Frame, Resume
  <2>3. below \in Seq(Frame) /\ Len(below) = n - 2 /\ \A d \in 1 .. n - 2 : below[d] = stack[d]
    <3>1. (IF 1 <= n - 2 THEN n - 2 ELSE 0) = n - 2
      BY <1>1, <1>3, BelowTheTwo
    <3> QED BY <1>1, <1>3, <3>1
  <2> HIDE DEF below, frame
  <2>4. /\ Len(Append(below, frame)) = n - 1 /\ Append(below, frame)[n - 1] = frame
        /\ \A d \in 1 .. n - 2 : Append(below, frame)[d] = below[d]
    BY <1>1, <1>3, <2>2, <2>3
  <2>5. stack' = Append(below, frame)
    BY <1>1 DEF below, frame
  <2> QED BY <2>3, <2>4, <2>5 DEF frame
<1>5. /\ Top'.layout = Calling.layout /\ Top'.pc = Calling.pc + 1 /\ Cursor' = Cursor
  BY <1>4 DEF Top, Cursor, Resume
<1>6. Meaning[<<Top.layout, Top.pc>>] = Nothing
  <2>1. Top.pc \notin DOMAIN Fields[Top.layout]
    BY <1>1, <1>3, LayoutType DEF Layout
  <2> QED BY <1>3, <2>1, MeaningIsDefined DEF FieldsFrom
<1>7. /\ K[n] \in Readings /\ K[n] = Then(Meaning[<<Calling.layout, Calling.pc + 1>>], K[n - 1])
  <2>1. n - 1 \in 1 .. Len(stack) - 1 /\ (n - 1) + 1 = n
    BY <1>1, <1>3
  <2>2. K[(n - 1) + 1] = Then(Meaning[<<stack[n - 1].layout, stack[n - 1].pc + 1>>], K[n - 1])
    BY <1>2, <2>1 DEF Promise, Awaits
  <2> QED BY <1>2, <1>3, <2>1, <2>2 DEF Calling, Promise, Awaits
<1>8. ToRead(K) = K[n]
  BY <1>6, <1>7, NothingThen DEF ToRead
<1>9. ToRead(K)' = K[n]
  BY <1>4, <1>5, <1>7 DEF ToRead
<1>10. Awaits(K)'
  <2>1. \A d \in 1 .. n - 2 : d \in 1 .. Len(stack) - 1
    BY <1>1, <1>3
  <2>2. Len(stack') - 1 = n - 2
    BY <1>3, <1>4
  <2> QED BY <1>2, <1>4, <2>1, <2>2 DEF Promise, Awaits
<1>11. Promise(K)'
  <2>1. Meanings' = Meanings /\ Value' = Value /\ Rest(Cursor)' = Rest(Cursor)
    BY <1>1, <1>5 DEF Meanings, Value, Rest
  <2> QED BY <1>2, <1>8, <1>9, <1>10, <2>1 DEF Promise
<1> QED BY <1>1, <1>3, <1>11, GoingOn DEF MeaningInv, Running

(* A lock field is loaded: nothing has been read.                          *)
LEMMA BeginIsRight ==
  ASSUME LayoutsAreFinite, TypeInv, Progress, MeaningInv, Begin
  PROVE  MeaningInv'
<1> DEFINE K == [d \in Nat |-> Nothing]
           b == witness.raw
           A == Meaning[<<entry.body, 1>>]
<1>1. /\ outcome = Pending /\ stack = << >> /\ entry.body \in Tops /\ entry.at = 0
      /\ witness.status = "lock" /\ UNCHANGED <<entry, witness, leaves, outcome>>
      /\ stack' = <<[layout |-> entry.body, pc |-> 1, cursor |-> 0, buf |-> b]>>
  BY DEF Begin, MeaningInv, EntryInv
<1>2. Len(stack') = 1 /\ Top'.layout = entry.body /\ Top'.pc = 1 /\ Cursor' = 0
  BY <1>1 DEF Top, Cursor
<1>3. b \in Seq(Byte) /\ A \in Readings
  BY <1>1, RawType, MeaningIsDefined, EntryAssumption
<1>4. Awaits(K)'
  BY <1>2, NothingType DEF Awaits
<1>5. ToRead(K)' = Then(A, Nothing)
  BY <1>2 DEF ToRead
<1>6. Value' = << >>
  BY <1>1 DEF Progress, FrameInv, Value
<1>7. Rest(Cursor)' = b
  BY <1>1, <1>2, <1>3, SliceAll DEF Rest
<1>8. Meanings' = A[b]
  BY <1>1, MeaningsOfLock DEF Meanings, MeaningInv
<1>9. Continues(A[b], << >>, Then(A, Nothing), b)
  <2> HIDE DEF A, b
  <2>1. A[b] \in SUBSET Seq(LeafValues)
    BY <1>3 DEF Readings
  <2>2. Then(A, Nothing) \in Readings
    BY <1>3, ThenType, NothingType
  <2>3. Then(A, Nothing)[b] \in SUBSET Seq(LeafValues)
    BY <1>3, <2>2 DEF Readings
  <2>4. \A x : x \in Then(A, Nothing)[b] <=> x \in A[b]
    BY <1>3, ThenNothing
  <2>5. Then(A, Nothing)[b] = A[b]
    BY <2>4
  <2> QED BY <2>1, <2>5, AfterNothing DEF Continues
<1>10. Promise(K)'
  <2> HIDE DEF A, b, K
  <2> QED BY <1>4, <1>5, <1>6, <1>7, <1>8, <1>9 DEF Promise
<1> QED BY <1>1, <1>10, GoingOn DEF MeaningInv

(* No lock field: no values are encoded, and the answer is an error.       *)
LEMMA LoadFailsIsRight ==
  ASSUME MeaningInv, LoadFails
  PROVE  MeaningInv'
<1>1. /\ witness.status # "lock" /\ stack = << >>
      /\ outcome'.status = "err" /\ UNCHANGED <<entry, witness, stack>>
  BY DEF LoadFails, Fail, Error
<1>2. Meanings' = {}
  BY <1>1 DEF Meanings
<1>3. outcome' # Decoded /\ outcome' # Pending
  BY <1>1 DEF Decoded, Pending
<1> QED BY <1>1, <1>2, <1>3 DEF MeaningInv, EntryInv, During, AnswerInv

(* The last field has been read: the value is right if no byte is left.    *)
LEMMA ReturnTopIsRight ==
  ASSUME LayoutsAreFinite, TypeInv, Progress, MeaningInv, ReturnTop
  PROVE  MeaningInv'
<1> DEFINE raw == witness.raw
<1>1. /\ Running /\ Top.pc > Len(Layout) /\ Len(stack) = 1
      /\ outcome' = (IF Cursor = Len(Buf) THEN Decoded ELSE Error(TrailingBytes(Cursor, Len(Buf))))
      /\ UNCHANGED <<entry, witness, stack, loop, leaves>>
  BY DEF ReturnTop, Exhausted
<1>2. PICK K : Promise(K)
  BY <1>1 DEF MeaningInv, During, Running
<1>3. /\ Top.layout \in Structs /\ Top.pc \in Nat \ {0} /\ Len(Layout) \in Nat
      /\ Buf = raw /\ Cursor \in Nat /\ Cursor <= Len(raw) /\ Len(raw) \in Nat
  BY <1>1, Innermost, Reading, RawType DEF Running
<1>4. Meaning[<<Top.layout, Top.pc>>] = Nothing
  <2>1. Top.pc \notin DOMAIN Fields[Top.layout]
    BY <1>1, <1>3, LayoutType DEF Layout
  <2> QED BY <1>3, <2>1, MeaningIsDefined DEF FieldsFrom
<1>5. ToRead(K) = Nothing
  BY <1>1, <1>2, <1>4, NothingType, NothingThen DEF ToRead, Promise, Awaits
<1>6. Meanings = After(Value, Nothing[Rest(Cursor)])
  BY <1>2, <1>5 DEF Promise, Continues
<1>7. /\ Rest(Cursor) \in Seq(Byte) /\ Len(Rest(Cursor)) = Len(raw) - Cursor
  BY <1>3, RestType
<1>8. CASE Cursor = Len(raw)
  <2>1. Rest(Cursor) = << >>
    <3>1. Len(Rest(Cursor)) = 0
      BY <1>3, <1>7, <1>8
    <3> QED BY <1>7, <3>1, EmptySeq
  <2>2. Nothing[Rest(Cursor)] = {<< >>}
    BY <1>7, <2>1 DEF Nothing
  <2>3. Value \o << >> = Value
    BY ValueType, ConcatEmptySeq
  <2>4. Meanings = {Value}
    BY <1>6, <2>2, <2>3 DEF After
  <2>5. outcome' = Decoded /\ outcome'.status # "err" /\ outcome' # Pending
    BY <1>1, <1>3, <1>8 DEF Decoded, Pending
  <2>6. Meanings' = Meanings /\ Value' = Value
    BY <1>1 DEF Meanings, Value
  <2> QED BY <1>1, <2>4, <2>5, <2>6 DEF MeaningInv, EntryInv, During, AnswerInv
<1>9. CASE Cursor # Len(raw)
  <2>1. Rest(Cursor) # << >>
    BY <1>3, <1>7, <1>9
  <2>2. Nothing[Rest(Cursor)] = {}
    BY <1>7, <2>1 DEF Nothing
  <2>3. Meanings = {}
    BY <1>6, <2>2 DEF After
  <2>4. outcome'.status = "err"
    BY <1>1, <1>3, <1>9 DEF Error
  <2> QED BY <1>1, <2>3, <2>4, RefusedIsRight DEF MeaningInv, Running
<1> QED BY <1>8, <1>9

-----------------------------------------------------------------------------
(* Unions, and all the steps. *)

(* A union: the tag is bound and the variant comes next.                   *)
LEMMA DecodeUnionIsRight ==
  ASSUME LayoutsAreFinite, TypeInv, TypeInv', Progress, MeaningInv, DecodeUnion
  PROVE  MeaningInv'
<1> DEFINE u     == Current.kind.path
           raw   == witness.raw
           b     == Rest(Cursor)
           end   == Cursor + PrefixLen
           tag   == PrefixAt(Buf, Cursor)
           arms  == Variants[u]
           moved == [stack EXCEPT ![Len(stack)] = Resume(Top, Top.pc, end)]
           val   == Slice(Buf, Cursor, end)
           n     == Len(stack)
<1>1. /\ Running /\ Top.pc <= Len(Layout) /\ Current.kind.k = "union" /\ Current.kind \in Kinds
      /\ UNCHANGED <<entry, witness, loop>>
  BY AtFieldRuns, AtFieldFacts DEF DecodeUnion, Sliced, Panics, Fits, Fail
<1>2. PICK K : Promise(K)
  BY <1>1 DEF MeaningInv, During, Running
<1> DEFINE next == Then(Meaning[<<Top.layout, Top.pc + 1>>], K[Len(stack)])
<1>3. /\ Buf = raw /\ Cursor \in Nat /\ Cursor <= Len(raw) /\ Len(raw) \in Nat
      /\ Len(raw) <= UsizeMax /\ UsizeMax \in Nat /\ raw \in Seq(Byte) /\ PrefixLen \in Nat
      /\ end \in Nat
  BY <1>1, Reading, RawType, SliceFitsUsize DEF PrefixLen
<1>4. u \in Unions /\ \A t \in DOMAIN arms : arms[t] \in Structs /\ Meaning[<<arms[t], 1>>] \in Readings
  <2>1. u \in Unions
    BY <1>1, KindCases
  <2> QED BY <2>1, SchemaAssumption, MeaningIsDefined
<1>5. /\ next \in Readings
      /\ Continues(Meanings, Value, Then(Either(u, Meaning), next), b)
  <2>1. KindMeaning(Current.kind, Meaning) = Either(u, Meaning)
    BY <1>1 DEF KindMeaning
  <2> QED BY <1>1, <1>2, <2>1, NextToRead DEF Promise
<1>6. b \in Seq(Byte) /\ Len(b) = Len(raw) - Cursor /\ Len(b) \in Nat
  BY <1>3, RestType
<1>7. PrefixLen <= Len(b) <=> Fits(Cursor, PrefixLen)
  BY <1>3, <1>6 DEF Fits
<1>8. PrefixLen <= Len(b) => /\ Slice(b, 0, PrefixLen) = val /\ PrefixAt(b, 0) = tag
                             /\ Slice(b, PrefixLen, Len(b)) = Rest(end)
  <2> SUFFICES ASSUME PrefixLen <= Len(b)
               PROVE  /\ Slice(b, 0, PrefixLen) = val /\ PrefixAt(b, 0) = tag
                      /\ Slice(b, PrefixLen, Len(b)) = Rest(end)
    OBVIOUS
  <2>1. PrefixLen \in 0 .. Len(b) /\ 0 + PrefixLen = PrefixLen
    BY <1>3, <1>6
  <2>2. Slice(b, PrefixLen, Len(b)) = Rest(end)
    BY <1>3, <2>1, RestType
  <2>3. Slice(b, 0, PrefixLen) = Slice(raw, Cursor, end)
    BY <1>3, <2>1, RestFacts DEF Rest
  <2>4. Slice(b, 0, PrefixLen) = val
    BY <1>3, <2>3
  <2> QED BY <2>1, <2>2, <2>4 DEF PrefixAt
<1>9. Value \in Seq(LeafValues)
  BY ValueType
<1>10. /\ PrefixLen <= Len(b) /\ PrefixAt(b, 0) \in DOMAIN arms =>
            Continues(Meanings, Value \o Present(Slice(b, 0, PrefixLen)),
                      Then(Meaning[<<arms[PrefixAt(b, 0)], 1>>], next),
                      Slice(b, PrefixLen, Len(b)))
       /\ ~(PrefixLen <= Len(b) /\ PrefixAt(b, 0) \in DOMAIN arms) => Meanings = {}
  <2>1. \A t \in DOMAIN Variants[u] : Meaning[<<Variants[u][t], 1>>] \in Readings
    BY <1>4
  <2> HIDE DEF u, b, next
  <2> QED BY <1>5, <1>6, <1>9, <2>1, ReadUnion
<1>11. stack \in Seq(Frame) /\ n \in Nat \ {0} /\ stack # << >>
  BY <1>1, Innermost DEF Running, TypeInv, TypeOK
<1>12. CASE ~Fits(Cursor, PrefixLen) /\ Fail(Short(Cursor, PrefixLen))
  <2>1. Meanings = {}
    BY <1>7, <1>10, <1>12
  <2>2. outcome'.status = "err"
    BY <1>12 DEF Fail, Error
  <2> QED BY <1>1, <1>11, <2>1, <2>2, RefusedIsRight DEF MeaningInv
<1>13. CASE Fits(Cursor, PrefixLen) /\ tag \notin DOMAIN arms /\ outcome' = Error(UnknownUnionTypeId(tag))
  <2>1. Meanings = {}
    BY <1>7, <1>8, <1>10, <1>13
  <2>2. outcome'.status = "err"
    BY <1>13 DEF Error
  <2> QED BY <1>1, <1>11, <2>1, <2>2, RefusedIsRight DEF MeaningInv
<1>14. CASE /\ Fits(Cursor, PrefixLen) /\ tag \in DOMAIN arms
            /\ stack' = Append(moved, Enter(arms[tag], end))
            /\ leaves' = Append(leaves, [kind |-> UnionTag, some |-> TRUE,
                                         from |-> Cursor, to |-> end, val |-> val])
            /\ outcome' = outcome
  <2> DEFINE frame == Enter(arms[tag], end)
             leaf  == [kind |-> UnionTag, some |-> TRUE, from |-> Cursor, to |-> end, val |-> val]
  <2>1. Continues(Meanings, Value \o Present(val), Then(Meaning[<<arms[tag], 1>>], next), Rest(end))
    BY <1>7, <1>8, <1>10, <1>14
  <2>2. /\ Len(moved) = n /\ moved \in Seq(Frame)
        /\ \A d \in 1 .. n : moved[d].layout = stack[d].layout /\ moved[d].pc = stack[d].pc
    <3>1. Top \in Frame
      BY <1>11, Innermost
    <3>2. Resume(Top, Top.pc, end) \in Frame
      BY <1>3, <3>1 DEF Frame, Resume
    <3>3. Len(moved) = n /\ moved \in Seq(Frame)
      BY <1>11, <3>2
    <3>4. ASSUME NEW d \in 1 .. n PROVE moved[d].layout = stack[d].layout /\ moved[d].pc = stack[d].pc
      <4>1. CASE d = n
        BY <1>11, <4>1 DEF Resume, Top
      <4>2. CASE d # n
        BY <1>11, <4>2
      <4> QED BY <4>1, <4>2
    <3> QED BY <3>3, <3>4
  <2>3. /\ Len(stack') = n + 1 /\ stack'[n + 1] = frame
        /\ \A d \in 1 .. n : stack'[d].layout = stack[d].layout /\ stack'[d].pc = stack[d].pc
    <3> HIDE DEF moved, frame
    <3>1. stack' = Append(moved, frame)
      BY <1>14 DEF frame
    <3>2. Len(Append(moved, frame)) = n + 1 /\ Append(moved, frame)[n + 1] = frame
          /\ \A d \in 1 .. n : Append(moved, frame)[d] = moved[d]
      BY <1>11, <2>2
    <3> QED BY <2>2, <3>1, <3>2
  <2>4. Top'.layout = arms[tag] /\ Top'.pc = 1 /\ Cursor' = end
    BY <2>3 DEF Top, Cursor, Enter
  <2>5. PICK L : Awaits(L)' /\ ToRead(L)' = Then(Meaning[<<Top.layout, Top.pc>>]', next)
    <3>1. Awaits(K)
      BY <1>2 DEF Promise
    <3>2. next \in Readings /\ next = Then(Meaning[<<Top.layout, Top.pc + 1>>], K[Len(stack)])
      BY <1>5
    <3> HIDE DEF next
    <3> QED BY <1>11, <2>3, <3>1, <3>2, CallMade
  <2>6. Value' = Value \o Present(val)
    <3>1. leaves' = Append(leaves, leaf) /\ leaf.some = TRUE /\ leaf.val = val
      BY <1>14
    <3> HIDE DEF leaf, val
    <3>2. Value' = Value \o <<[some |-> leaf.some, val |-> leaf.val]>>
      BY <3>1, ValueGrows
    <3> QED BY <3>1, <3>2 DEF Present
  <2>7. Promise(L)'
    <3>1. ToRead(L)' = Then(Meaning[<<arms[tag], 1>>], next)
      BY <2>4, <2>5
    <3>2. Meanings' = Meanings /\ Rest(Cursor)' = Rest(end)
      BY <1>1, <2>4 DEF Meanings, Rest
    <3> HIDE DEF next, val, end
    <3> QED BY <2>1, <2>5, <2>6, <3>1, <3>2 DEF Promise
  <2> QED BY <1>1, <1>11, <1>14, <2>7, GoingOn DEF MeaningInv, Running
<1> QED BY <1>12, <1>13, <1>14 DEF DecodeUnion, Sliced, Fits

(* The invariant holds at the start.                                       *)
LEMMA InitIsRight ==
  ASSUME Callers = {}
  PROVE  Init => MeaningInv
<1> SUFFICES ASSUME Init PROVE MeaningInv
  OBVIOUS
<1>1. entry \in [body : Tops, at : {0}]
  BY DEF Init
<1>2. entry.body \in Tops /\ entry.at = 0
  BY <1>1
<1>3. witness.status = "lock" => witness.raw \in Buffers
  BY DEF Init
<1>4. stack = << >> /\ outcome = Pending /\ outcome # Decoded /\ outcome.status # "err"
  BY DEF Init, Pending, Decoded
<1> QED BY <1>2, <1>3, <1>4 DEF MeaningInv, EntryInv, During, AnswerInv

(* Every step keeps the invariant.                                         *)
LEMMA NextIsRight ==
  ASSUME LayoutsAreFinite
  PROVE  TypeInv /\ Progress /\ MeaningInv /\ TypeInv' /\ [Next]_vars => MeaningInv'
<1> SUFFICES ASSUME TypeInv, Progress, MeaningInv, TypeInv', [Next]_vars PROVE MeaningInv'
  OBVIOUS
<1>1. CASE LoadFails
  BY <1>1, LoadFailsIsRight
<1>2. CASE Begin
  BY <1>2, BeginIsRight
<1>3. CASE DecodeFixed \/ DecodeVarBytes
  BY <1>3, DecodePlainIsRight
<1>4. CASE DecodeAbsent
  BY <1>4, DecodeAbsentIsRight
<1>5. CASE DecodePresent
  BY <1>5, DecodePresentIsRight
<1>6. CASE DecodeVecCount
  BY <1>6, DecodeVecCountIsRight
<1>7. CASE DecodeVecElement
  BY <1>7, DecodeVecElementIsRight
<1>8. CASE FinishVec
  BY <1>8, FinishVecIsRight
<1>9. CASE DecodeNested
  BY <1>9, DecodeNestedIsRight
<1>10. CASE DecodeUnion
  BY <1>10, DecodeUnionIsRight
<1>11. CASE ReturnNested
  BY <1>11, ReturnNestedIsRight
<1>12. CASE ReturnTop
  BY <1>12, ReturnTopIsRight
<1>13. CASE ReturnToCaller
  <2>1. entry.body \in Tops /\ entry.body \in Callers
    BY <1>13 DEF ReturnToCaller, MeaningInv, EntryInv
  <2> QED BY <2>1, EntryAssumption
<1>14. CASE UNCHANGED vars
  BY <1>14, LoopKeepsMeaning DEF vars
<1> QED BY <1>1, <1>2, <1>3, <1>4, <1>5, <1>6, <1>7, <1>8, <1>9, <1>10, <1>11, <1>12,
           <1>13, <1>14 DEF Next, Returned

(* A step of the decoder is a step of the codec, or changes nothing in it. *)
LEMMA StepAnswers ==
  TypeInv /\ MeaningInv /\ TypeInv' /\ MeaningInv' /\ [Next]_vars
    => [Codec!Next]_<<Meanings, Reply>>
<1> SUFFICES ASSUME TypeInv, MeaningInv, TypeInv', MeaningInv', [Next]_vars
             PROVE  [Codec!Next]_<<Meanings, Reply>>
  OBVIOUS
<1>1. UNCHANGED <<entry, witness>>
  BY DEF Next, LoadFails, Begin, AtField, ReadFixed, ReadVarBytes, DecodeFixed, DecodeVarBytes,
         DecodeAbsent, DecodePresent, DecodeVecCount, DecodeVecElement, FinishVec,
         DecodeNested, DecodeUnion, ReturnNested, ReturnTop, ReturnToCaller, Returned,
         PushElement, Sliced, Take, Bind, Fail, Panics, vars
<1>2. Meanings' = Meanings
  BY <1>1 DEF Meanings
<1>3. outcome # Pending => UNCHANGED vars
  BY DEF Next, LoadFails, Begin, Running, AtField, DecodeFixed, DecodeVarBytes,
         DecodeAbsent, DecodePresent, DecodeVecCount, DecodeVecElement, FinishVec,
         DecodeNested, DecodeUnion, Exhausted, ReturnNested, ReturnTop, ReturnToCaller, Returned
<1>4. CASE outcome # Pending
  <2>1. UNCHANGED vars
    BY <1>3, <1>4
  <2>2. Reply' = Reply
    BY <2>1 DEF vars, Reply, Value
  <2> QED BY <1>2, <2>2
<1>5. CASE outcome = Pending /\ outcome' = Pending
  <2>1. Reply' = Reply
    BY <1>5 DEF Reply
  <2> QED BY <1>2, <2>1
<1>6. CASE outcome = Pending /\ outcome' = Decoded
  <2>1. Reply = NoReply /\ Reply' = Accepted(Value')
    BY <1>6, OutcomesDiffer DEF Reply
  <2>2. Meanings = {Value'}
    BY <1>2, <1>6 DEF MeaningInv, AnswerInv
  <2>3. Codec!Accept
    BY <2>1, <2>2 DEF Codec!Accept
  <2> QED BY <1>2, <2>1, <2>3 DEF Codec!Next
<1>7. CASE outcome = Pending /\ outcome'.status = "err"
  <2>1. outcome' # Pending /\ outcome' # Decoded /\ outcome' # Panic
    BY <1>7 DEF Pending, Decoded, Panic
  <2>2. Reply = NoReply /\ Reply' = Rejected
    BY <1>7, <2>1, OutcomesDiffer DEF Reply
  <2>3. Meanings = {}
    BY <1>2, <1>7 DEF MeaningInv, AnswerInv
  <2>4. Codec!Reject
    BY <2>2, <2>3 DEF Codec!Reject
  <2> QED BY <1>2, <2>2, <2>4 DEF Codec!Next
<1>8. outcome' \in {Pending, Decoded} \/ outcome'.status = "err"
  <2>1. outcome' \in Outcomes /\ outcome' # Panic
    BY DEF TypeInv, TypeOK, NoPanic
  <2> QED BY <2>1 DEF Outcomes
<1> QED BY <1>4, <1>5, <1>6, <1>7, <1>8

(* AnswersAreRight, the safety part of ImplementsCodec. *)
THEOREM DecoderAnswers ==
  ASSUME NoCapture, LayoutsAreFinite, Callers = {}
  PROVE  Spec => AnswersAreRight
<1> DEFINE Inv == TypeInv /\ Progress /\ MeaningInv
<1>1. Init => Inv
  BY InitType, InitProgress, InitIsRight
<1>2. Inv /\ [Next]_vars => Inv'
  BY NextKeepsType, NextKeepsProgress, NextIsRight
<1>3. Inv /\ Inv' /\ [Next]_vars => [Codec!Next]_<<Meanings, Reply>>
  BY StepAnswers
<1>4. Init => Codec!Init
  BY OutcomesDiffer DEF Init, Reply, Codec!Init
<1>5. Spec => Codec!Init
  BY <1>4, PTL DEF Spec
<1>6. Spec => []Inv
  BY <1>1, <1>2, PTL DEF Spec
<1>7. Spec => [][Next]_vars
  BY PTL DEF Spec
<1>8. []Inv /\ [][Next]_vars => [][Codec!Next]_<<Meanings, Reply>>
  BY <1>2, <1>3, PTL
<1>9. Spec => [][Codec!Next]_<<Meanings, Reply>>
  BY <1>6, <1>7, <1>8, PTL
<1> QED BY <1>5, <1>9, PTL DEF AnswersAreRight, Codec!Safety
=============================================================================
