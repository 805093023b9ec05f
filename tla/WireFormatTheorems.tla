------------------------- MODULE WireFormatTheorems -------------------------
(***************************************************************************)
(* Facts about the operators of WireFormat and of ClientEncoder that the   *)
(* proofs about the decoder rest on.  The first part is about single       *)
(* fields; the second about the values that bytes stand for: little-endian *)
(* numbers, reading one thing after another, every kind of field, the      *)
(* layouts as a whole, and how reading goes on from a place.               *)
(***************************************************************************)
EXTENDS ClientEncoder, SequenceTheorems, WellFoundedInduction, TLAPS

(* The tag of a kind tells which variant of WireKind it is.                *)
LEMMA KindCases ==
  ASSUME NEW kind \in Kinds
  PROVE  /\ kind.k \in {"scalar", "array"} => kind \in Fixed /\ kind.size \in Nat \ {0}
         /\ kind.k = "bytes" => kind = VarBytes
         /\ kind.k = "opt" => kind \in Optionals /\ kind.of \in Fixed \cup {VarBytes}
         /\ kind.k = "vec" => kind \in Vectors /\ kind.of \in Fixed
                              /\ kind.of.size \in Nat \ {0}
         /\ kind.k = "struct" => kind \in Nested /\ kind.path \in Structs
         /\ kind.k = "union" => kind \in Tagged /\ kind.path \in Unions
         /\ kind.k # "tag"
  BY DEF Kinds, Fixed, Scalars, Arrays, VarBytes, Optionals, Vectors, Nested, Tagged

LEMMA FixedSize ==
  ASSUME NEW kind \in Fixed
  PROVE  /\ kind.k \in {"scalar", "array"}
         /\ kind.size \in Nat \ {0}
         /\ kind # VarBytes
  BY DEF Fixed, Scalars, Arrays, VarBytes

(* A Rust slice in range has the bytes of the buffer, as many as it says.  *)
LEMMA SliceProperties ==
  ASSUME NEW buf \in Seq(Byte), NEW from \in Nat, NEW to \in Nat,
         from <= to, to <= Len(buf)
  PROVE  /\ Slice(buf, from, to) \in Seq(Byte)
         /\ Len(Slice(buf, from, to)) = to - from
         /\ \A i \in 1 .. to - from : Slice(buf, from, to)[i] = buf[from + i]
<1>1. \A i \in from + 1 .. to : buf[i] \in Byte
  BY ElementOfSeq
<1>2. QED
  BY <1>1, SubSeqProperties DEF Slice

(* Two slices that meet make one.                                          *)
LEMMA SlicesMeet ==
  ASSUME NEW buf \in Seq(Byte), NEW from \in Nat, NEW mid \in Nat, NEW to \in Nat,
         from <= mid, mid <= to, to <= Len(buf)
  PROVE  Slice(buf, from, mid) \o Slice(buf, mid, to) = Slice(buf, from, to)
<1>1. /\ from + 1 \in 1 .. Len(buf) + 1
      /\ mid \in (from + 1) - 1 .. Len(buf)
      /\ to \in mid .. Len(buf)
  BY LenProperties
<1>2. QED
  BY <1>1, ConcatAdjacentSubSeq DEF Slice

LEMMA ByteIsNat == \A b \in Byte : b \in Nat
  BY WidthAssumption DEF Byte

(* A prefix that lies inside the buffer is a natural number.               *)
LEMMA PrefixType ==
  ASSUME NEW buf \in Seq(Byte), NEW from \in Nat, from + PrefixLen <= Len(buf)
  PROVE  PrefixAt(buf, from) \in Nat
<1> DEFINE b == Slice(buf, from, from + PrefixLen)
<1>0. from + PrefixLen \in Nat /\ from <= from + PrefixLen /\ (from + PrefixLen) - from = 4
  BY DEF PrefixLen
<1>1. b \in Seq(Byte) /\ Len(b) = 4
  BY <1>0, SliceProperties
<1>2. b[1] \in Nat /\ b[2] \in Nat /\ b[3] \in Nat /\ b[4] \in Nat
  BY <1>1, ElementOfSeq, ByteIsNat
<1>3. \A m, n \in Nat : m + Radix * n \in Nat
  BY WidthAssumption
<1> HIDE DEF b
<1>4. LE32(b) \in Nat
  BY <1>2, <1>3 DEF LE32
<1>5. QED
  BY <1>4 DEF PrefixAt, b

(* What each decode arm binds is spelled by the bytes it read.             *)
LEMMA FixedIsSpelled ==
  ASSUME NEW buf \in Seq(Byte), NEW kind, Inner(kind) \in Fixed,
         NEW from \in Nat, NEW to \in Nat, to = from + Inner(kind).size, to <= Len(buf)
  PROVE  /\ from < to
         /\ Spells(buf, [kind |-> kind, some |-> TRUE, from |-> from, to |-> to,
                         val |-> Slice(buf, from, to)])
<1>1. Inner(kind).size \in Nat \ {0} /\ Inner(kind).k \in {"scalar", "array"}
  BY FixedSize
<1>2. PayloadFrom(Inner(kind), from) = from /\ PayloadTo(buf, Inner(kind), from) = to
  BY <1>1 DEF PayloadFrom, PayloadTo
<1>3. QED
  BY <1>1, <1>2 DEF Spells

LEMMA VarBytesAreSpelled ==
  ASSUME NEW buf \in Seq(Byte), NEW kind, Inner(kind) = VarBytes,
         NEW from \in Nat, NEW to \in Nat, from + PrefixLen <= Len(buf),
         to = from + PrefixLen + PrefixAt(buf, from), to <= Len(buf)
  PROVE  /\ from < to
         /\ Spells(buf, [kind |-> kind, some |-> TRUE, from |-> from, to |-> to,
                         val |-> Slice(buf, from + PrefixLen, to)])
<1>1. Inner(kind).k = "bytes"
  BY DEF VarBytes
<1>2. PayloadFrom(Inner(kind), from) = from + PrefixLen /\ PayloadTo(buf, Inner(kind), from) = to
  BY <1>1 DEF PayloadFrom, PayloadTo
<1>3. PrefixAt(buf, from) \in Nat
  BY PrefixType
<1>4. from < to /\ from + PrefixLen <= to
  BY <1>3 DEF PrefixLen
<1>5. QED
  BY <1>1, <1>2, <1>4 DEF Spells

LEMMA VecIsSpelled ==
  ASSUME NEW buf \in Seq(Byte), NEW kind, kind.k = "vec", kind.of.size \in Nat,
         NEW from \in Nat, NEW to \in Nat, from + PrefixLen <= Len(buf),
         PrefixAt(buf, from) # 0,
         to = from + PrefixLen + PrefixAt(buf, from) * kind.of.size, to <= Len(buf)
  PROVE  /\ from < to
         /\ Spells(buf, [kind |-> kind, some |-> TRUE, from |-> from, to |-> to,
                         val |-> Slice(buf, from + PrefixLen, to)])
<1>1. Inner(kind) = kind
  BY DEF Inner
<1>2. PayloadFrom(kind, from) = from + PrefixLen /\ PayloadTo(buf, kind, from) = to
  BY DEF PayloadFrom, PayloadTo
<1>3. PrefixAt(buf, from) * kind.of.size \in Nat
  <2>1. \A m, n \in Nat : m * n \in Nat
    OBVIOUS
  <2>2. QED
    BY <2>1, PrefixType
<1>4. from < to /\ from + PrefixLen <= to
  BY <1>3 DEF PrefixLen
<1>5. QED
  BY <1>1, <1>2, <1>4 DEF Spells

LEMMA TagIsSpelled ==
  ASSUME NEW buf \in Seq(Byte), NEW from \in Nat, NEW to \in Nat,
         to = from + PrefixLen, to <= Len(buf)
  PROVE  /\ from < to
         /\ Spells(buf, [kind |-> UnionTag, some |-> TRUE, from |-> from, to |-> to,
                         val |-> Slice(buf, from, to)])
<1>1. Inner(UnionTag) = UnionTag /\ UnionTag.k = "tag"
  BY DEF Inner, UnionTag
<1>2. PayloadFrom(UnionTag, from) = from /\ PayloadTo(buf, UnionTag, from) = to
  BY <1>1 DEF PayloadFrom, PayloadTo
<1>3. from < to
  BY DEF PrefixLen
<1>4. QED
  BY <1>1, <1>2, <1>3 DEF Spells

LEMMA AbsenceIsSpelled ==
  ASSUME NEW buf \in Seq(Byte), NEW kind, kind.k = "opt"
  PROVE  Spells(buf, [kind |-> kind, some |-> FALSE, from |-> Len(buf), to |-> Len(buf),
                      val |-> << >>])
<1>1. Len(buf) \in Nat
  BY LenProperties
<1>2. QED
  BY <1>1 DEF Spells
-----------------------------------------------------------------------------
(* A digit and the rest. *)
LEMMA Digit ==
  ASSUME NEW n \in Nat
  PROVE  /\ n % Radix \in Byte /\ n \div Radix \in Nat
         /\ n = (n % Radix) + Radix * (n \div Radix)
  BY WidthAssumption DEF Byte

(* And back: the digit and the rest determine the number. *)
LEMMA DigitOf ==
  ASSUME NEW b \in Byte, NEW q \in Nat
  PROVE  /\ b + Radix * q \in Nat
         /\ (b + Radix * q) % Radix = b /\ (b + Radix * q) \div Radix = q
<1> DEFINE n == b + Radix * q
           r == n \div Radix
           c == n % Radix
<1>1. Radix \in Nat \ {0,1} /\ b \in Nat /\ b < Radix /\ n \in Nat
  BY WidthAssumption DEF Byte
<1>2. c \in Nat /\ c < Radix /\ r \in Nat /\ n = c + Radix * r
  BY <1>1, Digit DEF Byte
<1> HIDE DEF r, c
<1>3. Radix * (q - r) = c - b
  BY <1>1, <1>2
<1>4. CASE q > r
  <2>1. q - r >= 1 /\ q - r \in Nat
    BY <1>1, <1>2, <1>4
  <2>2. \A k \in Nat : k >= 1 => Radix * k >= Radix
    BY <1>1
  <2>3. Radix * (q - r) >= Radix
    BY <2>1, <2>2
  <2> QED BY <1>1, <1>2, <1>3, <2>3
<1>5. CASE q < r
  <2>1. r - q >= 1 /\ r - q \in Nat
    BY <1>1, <1>2, <1>5
  <2>2. \A k \in Nat : k >= 1 => Radix * k >= Radix
    BY <1>1
  <2>3. Radix * (r - q) >= Radix
    BY <2>1, <2>2
  <2>4. Radix * (r - q) = b - c
    BY <1>1, <1>2, <1>3
  <2> QED BY <1>1, <1>2, <2>3, <2>4
<1>6. CASE q = r
  BY <1>1, <1>2, <1>3, <1>6 DEF r, c
<1> QED BY <1>1, <1>2, <1>4, <1>5, <1>6

(* Reading a prefix and writing it give the bytes back. *)
LEMMA BytesOfPrefix ==
  ASSUME NEW p \in Seq(Byte), Len(p) = PrefixLen
  PROVE  LE32(p) \in U32 /\ LEBytes(LE32(p)) = p
<1> DEFINE n3 == p[4]
           n2 == p[3] + Radix * n3
           n1 == p[2] + Radix * n2
           n0 == p[1] + Radix * n1
<1>1. /\ p[1] \in Byte /\ p[2] \in Byte /\ p[3] \in Byte /\ p[4] \in Byte
      /\ p = <<p[1], p[2], p[3], p[4]>>
  <2>1. Len(p) = 4 /\ DOMAIN p = 1 .. 4
    BY DEF PrefixLen
  <2>2. \A i \in 1 .. 4 : p[i] \in Byte
    BY <2>1, ElementOfSeq
  <2> DEFINE q == <<p[1], p[2], p[3], p[4]>>
  <2>3. Len(q) = 4 /\ q \in Seq(Byte) /\ \A i \in 1 .. 4 : q[i] = p[i]
    BY <2>2
  <2> HIDE DEF q
  <2>4. q = p
    BY <2>1, <2>3, SeqEqual
  <2>5. p = <<p[1], p[2], p[3], p[4]>>
    BY <2>4 DEF q
  <2>6. p[1] \in Byte /\ p[2] \in Byte /\ p[3] \in Byte /\ p[4] \in Byte
    BY <2>2
  <2> QED BY <2>5, <2>6, Zenon
<1>2. n3 \in Nat /\ n3 % Radix = p[4]
  <2>1. \A b \in Byte : b \in Nat /\ b % Radix = b
    BY WidthAssumption DEF Byte
  <2> QED BY <1>1, <2>1
<1>3. n2 \in Nat /\ n2 % Radix = p[3] /\ n2 \div Radix = n3
  BY <1>1, <1>2, DigitOf
<1>4. n1 \in Nat /\ n1 % Radix = p[2] /\ n1 \div Radix = n2
  <2> HIDE DEF n2
  <2> QED BY <1>1, <1>3, DigitOf
<1>5. n0 \in Nat /\ n0 % Radix = p[1] /\ n0 \div Radix = n1
  <2> HIDE DEF n1
  <2> QED BY <1>1, <1>4, DigitOf
<1>6. LE32(p) = n0
  BY DEF LE32
<1>7. LEBytes(n0) = p
  <2> HIDE DEF n0, n1, n2, n3
  <2> QED BY <1>1, <1>2, <1>3, <1>4, <1>5 DEF LEBytes
<1>8. n0 \in U32
  <2>0. Radix \in Nat /\ Radix > 1
    BY WidthAssumption
  <2>1. \A b \in Byte, q \in Nat, m \in Nat : q < m => b + Radix * q < Radix * m
    <3> SUFFICES ASSUME NEW b \in Byte, NEW q \in Nat, NEW m \in Nat, q < m
                 PROVE  b + Radix * q < Radix * m
      OBVIOUS
    <3>1. PICK k \in Nat : m = q + 1 + k
      <4>1. m - q - 1 \in Nat
        OBVIOUS
      <4> QED BY <4>1
    <3>2. Radix * m = Radix * q + Radix + Radix * k
      BY <2>0, <3>1
    <3>3. Radix * k \in Nat /\ Radix * q \in Nat
      BY <2>0
    <3> QED BY <2>0, <3>2, <3>3 DEF Byte
  <2> DEFINE R2 == Radix * Radix
             R3 == Radix * R2
  <2>2. n3 < Radix /\ R2 \in Nat 
    BY <1>1, <2>0 DEF Byte
  <2>3. n2 < R2
    <3> HIDE DEF n3
    <3> QED BY <1>1, <1>2, <2>0, <2>1, <2>2
  <2>4. n1 < R3 /\ R3 \in Nat
    <3>1. R3 \in Nat
      <4> HIDE DEF R2
      <4> QED BY <2>0, <2>2
    <3> HIDE DEF n2, R2
    <3> QED BY <1>1, <1>3, <2>0, <2>1, <2>2, <2>3, <3>1
  <2>5. n0 < Radix * R3 /\ Radix * R3 \in Nat
    <3> HIDE DEF n1, R3
    <3> QED BY <1>1, <1>4, <2>0, <2>1, <2>4
  <2> HIDE DEF n0
  <2> QED BY <1>5, <2>5 DEF U32
<1> QED BY <1>6, <1>7, <1>8

(* Writing a u32 and reading it give the number back. *)
LEMMA PrefixOfBytes ==
  ASSUME NEW n \in U32
  PROVE  /\ LEBytes(n) \in Seq(Byte) /\ Len(LEBytes(n)) = PrefixLen
         /\ LE32(LEBytes(n)) = n
<1> DEFINE n1 == n \div Radix
           n2 == n1 \div Radix
           n3 == n2 \div Radix
           R2 == Radix * Radix
           R3 == Radix * R2
<1>0. Radix \in Nat /\ Radix > 1 /\ R2 \in Nat
  BY WidthAssumption
<1>0a. R3 \in Nat
  <2> HIDE DEF R2
  <2> QED BY <1>0
<1>0b. Radix * R3 \in Nat
  <2> HIDE DEF R3
  <2> QED BY <1>0, <1>0a
<1>1. n \in Nat /\ n < Radix * R3
  BY <1>0b DEF U32
<1>2. /\ n % Radix \in Byte /\ n1 \in Nat /\ n = (n % Radix) + Radix * n1
      /\ n1 % Radix \in Byte /\ n2 \in Nat /\ n1 = (n1 % Radix) + Radix * n2
      /\ n2 % Radix \in Byte /\ n3 \in Nat /\ n2 = (n2 % Radix) + Radix * n3
      /\ n3 % Radix \in Byte
  <2>1. n % Radix \in Byte /\ n1 \in Nat /\ n = (n % Radix) + Radix * n1
    BY <1>1, Digit
  <2>2. n1 % Radix \in Byte /\ n2 \in Nat /\ n1 = (n1 % Radix) + Radix * n2
    <3> HIDE DEF n1
    <3> QED BY <2>1, Digit
  <2>3. n2 % Radix \in Byte /\ n3 \in Nat /\ n2 = (n2 % Radix) + Radix * n3
    <3> HIDE DEF n2
    <3> QED BY <2>2, Digit
  <2>4. n3 % Radix \in Byte
    <3> HIDE DEF n3
    <3> QED BY <2>3, Digit
  <2> HIDE DEF n1, n2, n3
  <2> QED BY <2>1, <2>2, <2>3, <2>4
<1> HIDE DEF n1, n2, n3
<1>3. \A b \in Byte, q \in Nat, m \in Nat : b + Radix * q < Radix * m => q < m
  <2> SUFFICES ASSUME NEW b \in Byte, NEW q \in Nat, NEW m \in Nat,
                      b + Radix * q < Radix * m, ~(q < m)
               PROVE  FALSE
    OBVIOUS
  <2>1. PICK k \in Nat : q = m + k
    <3>1. q - m \in Nat
      OBVIOUS
    <3> QED BY <3>1
  <2>2. Radix * q = Radix * m + Radix * k /\ Radix * k \in Nat
    BY <1>0, <2>1
  <2> QED BY <1>0, <2>2 DEF Byte
<1>4. n1 < R3
  <2> HIDE DEF R3
  <2> QED BY <1>0a, <1>1, <1>2, <1>3
<1>5. n2 < R2
  <2> HIDE DEF R2
  <2>1. (n1 % Radix) + Radix * n2 < Radix * R2
    BY <1>2, <1>4
  <2> QED BY <1>0, <1>2, <1>3, <2>1
<1>6. n3 < Radix
  <2>1. (n2 % Radix) + Radix * n3 < Radix * Radix
    BY <1>2, <1>5
  <2> QED BY <1>0, <1>2, <1>3, <2>1
<1>7. n3 % Radix = n3
  BY <1>0, <1>2, <1>6
<1>8. LEBytes(n) = <<n % Radix, n1 % Radix, n2 % Radix, n3>>
  BY <1>7 DEF LEBytes, n1, n2, n3
<1>9. LE32(<<n % Radix, n1 % Radix, n2 % Radix, n3>>) = n
  <2> DEFINE d0 == n % Radix  d1 == n1 % Radix  d2 == n2 % Radix
  <2>1. n = d0 + Radix * (d1 + Radix * (d2 + Radix * n3))
    BY <1>2
  <2> HIDE DEF d0, d1, d2
  <2>2. LE32(<<d0, d1, d2, n3>>) = n
    BY <2>1 DEF LE32
  <2> QED BY <2>2 DEF d0, d1, d2
<1>10. n3 \in Byte
  BY <1>0, <1>2, <1>7
<1> QED BY <1>2, <1>8, <1>9, <1>10 DEF PrefixLen
-----------------------------------------------------------------------------
(* The leaves of a value, and what takes bytes to values. *)
LeafValues == [some : BOOLEAN, val : Seq(Byte)]
Readings  == [Seq(Byte) -> SUBSET Seq(LeafValues)]

(* x is a value of A in the first n bytes followed by one of B. *)
Split(A, B, bytes, x, n, v, w) ==
  /\ v \in A[Slice(bytes, 0, n)] /\ w \in B[Slice(bytes, n, Len(bytes))]
  /\ Ended(v) => n = Len(bytes)
  /\ x = v \o w

(* A slice of everything. *)
LEMMA SliceAll ==
  ASSUME NEW b \in Seq(Byte)
  PROVE  Slice(b, 0, Len(b)) = b
<1>1. Len(b) \in Nat /\ 0 \in Nat /\ 0 <= Len(b) /\ Len(b) <= Len(b) /\ Len(b) - 0 = Len(b)
      /\ \A i \in 1 .. Len(b) : 0 + i = i
  BY LenProperties
<1> DEFINE s == Slice(b, 0, Len(b))
<1>2. /\ s \in Seq(Byte) /\ Len(s) = Len(b) - 0
      /\ \A i \in 1 .. Len(b) - 0 : s[i] = b[0 + i]
  BY <1>1, SliceProperties
<1> HIDE DEF s
<1>3. s = b
  BY <1>1, <1>2, SeqEqual
<1> QED BY <1>3 DEF s

(* A slice of a slice. *)
LEMMA SliceOfSlice ==
  ASSUME NEW b \in Seq(Byte), NEW f \in Nat, NEW t \in Nat, f <= t, t <= Len(b),
         NEW x \in Nat, NEW y \in Nat, x <= y, y <= t - f
  PROVE  Slice(Slice(b, f, t), x, y) = Slice(b, f + x, f + y)
<1> DEFINE s == Slice(b, f, t)
           l == Slice(s, x, y)
           r == Slice(b, f + x, f + y)
<1>0. Len(b) \in Nat /\ t - f \in Nat /\ f + x \in Nat /\ f + y \in Nat
      /\ f + x <= f + y /\ f + y <= Len(b)
  BY LenProperties
<1>1. s \in Seq(Byte) /\ Len(s) = t - f /\ \A i \in 1 .. t - f : s[i] = b[f + i]
  BY SliceProperties
<1>2. r \in Seq(Byte) /\ Len(r) = (f + y) - (f + x) /\ \A i \in 1 .. (f + y) - (f + x) : r[i] = b[f + x + i]
  BY <1>0, SliceProperties
<1> HIDE DEF s, r
<1>3. l \in Seq(Byte) /\ Len(l) = y - x /\ \A i \in 1 .. y - x : l[i] = s[x + i]
  BY <1>0, <1>1, SliceProperties
<1> HIDE DEF l
<1>4. ASSUME NEW i \in 1 .. y - x PROVE l[i] = r[i]
  <2>1. x + i \in 1 .. t - f /\ f + (x + i) = f + x + i /\ i \in 1 .. (f + y) - (f + x)
    BY <1>0
  <2> QED BY <1>1, <1>2, <1>3, <2>1
<1>5. Len(l) = Len(r)
  BY <1>0, <1>2, <1>3
<1> QED BY <1>1, <1>2, <1>3, <1>4, <1>5, SeqEqual DEF l, r, s

(* A slice of nothing. *)
LEMMA EmptySlice ==
  ASSUME NEW b \in Seq(Byte), NEW n \in Nat, n <= Len(b)
  PROVE  Slice(b, n, n) = << >>
<1>0. n <= n /\ n - n = 0
  OBVIOUS
<1>1. Slice(b, n, n) \in Seq(Byte) /\ Len(Slice(b, n, n)) = 0
  BY <1>0, SliceProperties
<1> QED BY <1>1, EmptySeq

(* An option that was left out ends a value wherever it stands in it. *)
LEMMA EndedConcat ==
  ASSUME NEW v \in Seq(LeafValues), NEW w \in Seq(LeafValues)
  PROVE  Ended(v \o w) <=> Ended(v) \/ Ended(w)
<1>1. /\ Len(v) \in Nat /\ Len(w) \in Nat /\ Len(v \o w) = Len(v) + Len(w)
      /\ DOMAIN v = 1 .. Len(v) /\ DOMAIN w = 1 .. Len(w)
      /\ DOMAIN (v \o w) = 1 .. Len(v) + Len(w)
      /\ \A i \in 1 .. Len(v) : (v \o w)[i] = v[i]
      /\ \A i \in 1 .. Len(w) : (v \o w)[Len(v) + i] = w[i]
  BY ConcatProperties, LenProperties
<1> DEFINE x == v \o w
<1> HIDE DEF x
<1>2. ASSUME NEW i \in DOMAIN x, ~x[i].some PROVE Ended(v) \/ Ended(w)
  <2>1. CASE i <= Len(v)
    BY <1>1, <1>2, <2>1 DEF Ended, x
  <2>2. CASE i > Len(v)
    <3>1. i - Len(v) \in 1 .. Len(w) /\ Len(v) + (i - Len(v)) = i
      BY <1>1, <2>2 DEF x
    <3> QED BY <1>1, <1>2, <3>1 DEF Ended, x
  <2> QED BY <1>1, <2>1, <2>2 DEF x
<1>3. ASSUME NEW i \in DOMAIN v, ~v[i].some PROVE Ended(x)
  BY <1>1, <1>3 DEF Ended, x
<1>4. ASSUME NEW i \in DOMAIN w, ~w[i].some PROVE Ended(x)
  <2>1. Len(v) + i \in DOMAIN x /\ x[Len(v) + i] = w[i]
    BY <1>1 DEF x
  <2> QED BY <1>4, <2>1 DEF Ended
<1> QED BY <1>2, <1>3, <1>4 DEF Ended, x

(* What Then reads, in terms of where the first value ends. *)
LEMMA ThenMembers ==
  ASSUME NEW A, NEW B, NEW b \in Seq(Byte), NEW x
  PROVE  x \in Then(A, B)[b] <=> \E n \in 0 .. Len(b) : \E v, w : Split(A, B, b, x, n, v, w)
<1>1. Then(A, B)[b] = UNION {Joined(A, B, b, n) : n \in 0 .. Len(b)}
  BY DEF Then
<1>2. ASSUME NEW n \in 0 .. Len(b)
      PROVE  x \in Joined(A, B, b, n) <=> \E v, w : Split(A, B, b, x, n, v, w)
  <2>1. x \in Joined(A, B, b, n) <=>
          \E v \in {a \in A[Slice(b, 0, n)] : Ended(a) => n = Len(b)} :
            x \in {v \o w : w \in B[Slice(b, n, Len(b))]}
    BY DEF Joined
  <2> QED BY <2>1 DEF Split
<1> HIDE DEF Joined
<1> QED BY <1>1, <1>2

(* Then reads values where what it is made of does. *)
LEMMA ThenType ==
  ASSUME NEW A \in Readings, NEW B \in Readings
  PROVE  Then(A, B) \in Readings
<1>1. ASSUME NEW b \in Seq(Byte), NEW x \in Then(A, B)[b] PROVE x \in Seq(LeafValues)
  <2>1. PICK n, v, w : n \in 0 .. Len(b) /\ Split(A, B, b, x, n, v, w)
    BY ThenMembers
  <2> n \in 0 .. Len(b)
    BY <2>1
  <2>2. Slice(b, 0, n) \in Seq(Byte) /\ Slice(b, n, Len(b)) \in Seq(Byte)
    BY SliceProperties, LenProperties
  <2>3. v \in Seq(LeafValues) /\ w \in Seq(LeafValues) /\ x = v \o w
    BY <2>1, <2>2 DEF Split, Readings
  <2> QED BY <2>3, ConcatProperties
<1>2. Then(A, B) = [b \in Seq(Byte) |-> Then(A, B)[b]]
  BY DEF Then
<1> QED BY <1>1, <1>2 DEF Readings

(* Both parts of a value are values. *)
LEMMA SplitTypes ==
  ASSUME NEW A \in Readings, NEW B \in Readings, NEW b \in Seq(Byte), NEW x,
         NEW n \in 0 .. Len(b), NEW v, NEW w, Split(A, B, b, x, n, v, w)
  PROVE  v \in Seq(LeafValues) /\ w \in Seq(LeafValues)
<1>1. Slice(b, 0, n) \in Seq(Byte) /\ Slice(b, n, Len(b)) \in Seq(Byte)
  BY SliceProperties, LenProperties
<1> QED BY <1>1 DEF Split, Readings

(* A, B and C one after the other, in whichever way they are grouped: an    *)
(* option left out in A or B still ends the value.                          *)
LEMMA ThenAssociates ==
  ASSUME NEW A \in Readings, NEW B \in Readings, NEW C \in Readings
  PROVE  Then(Then(A, B), C) = Then(A, Then(B, C))
<1> DEFINE AB == Then(A, B)
           BC == Then(B, C)
<1>0. AB \in Readings /\ BC \in Readings
  BY ThenType
<1>1. ASSUME NEW b \in Seq(Byte), NEW x \in Then(AB, C)[b] PROVE x \in Then(A, BC)[b]
  <2>0. Len(b) \in Nat
    BY LenProperties
  <2>1. PICK n, u, w : n \in 0 .. Len(b) /\ Split(AB, C, b, x, n, u, w)
    <3> HIDE DEF AB, BC
    <3> QED BY ThenMembers
  <2> n \in 0 .. Len(b)
    BY <2>1
  <2> DEFINE bn == Slice(b, 0, n)
  <2>2. bn \in Seq(Byte) /\ Len(bn) = n /\ n \in Nat
    BY <2>0, SliceProperties
  <2>3. u \in AB[bn]
    BY <2>1 DEF Split
  <2>4. PICK m, p, q : m \in 0 .. n /\ Split(A, B, bn, u, m, p, q)
    <3> HIDE DEF bn
    <3> QED BY <2>2, <2>3, ThenMembers
  <2> m \in 0 .. n
    BY <2>4
  <2> DEFINE bm == Slice(b, m, Len(b))
  <2>5. /\ Slice(bn, 0, m) = Slice(b, 0, m) /\ Slice(bn, m, n) = Slice(b, m, n)
        /\ bm \in Seq(Byte) /\ Len(bm) = Len(b) - m
        /\ Slice(bm, 0, n - m) = Slice(b, m, n)
        /\ Slice(bm, n - m, Len(b) - m) = Slice(b, n, Len(b))
    <3>1. m \in Nat /\ n - m \in Nat /\ n - m <= Len(b) - m /\ m + (n - m) = n
          /\ m + (Len(b) - m) = Len(b) /\ m <= Len(b) /\ m <= n /\ n <= Len(b)
          /\ Len(b) - m \in Nat /\ m + 0 = m /\ 0 + m = m /\ 0 + n = n /\ n - 0 = n
      BY <2>0
    <3>2. Slice(bn, 0, m) = Slice(b, 0 + 0, 0 + m) /\ Slice(bn, m, n) = Slice(b, 0 + m, 0 + n)
      <4>1. n \in Nat /\ 0 \in Nat /\ 0 <= n /\ 0 <= m /\ m <= n - 0 /\ n <= n - 0
        BY <2>0, <3>1
      <4> QED BY <2>0, <3>1, <4>1, SliceOfSlice
    <3>3. bm \in Seq(Byte) /\ Len(bm) = Len(b) - m
      <4>1. Len(b) <= Len(b)
        BY <2>0
      <4> QED BY <2>0, <3>1, <4>1, SliceProperties
    <3>4. /\ Slice(bm, 0, n - m) = Slice(b, m + 0, m + (n - m))
          /\ Slice(bm, n - m, Len(b) - m) = Slice(b, m + (n - m), m + (Len(b) - m))
      BY <2>0, <3>1, SliceOfSlice
    <3> HIDE DEF bn, bm
    <3> QED BY <3>1, <3>2, <3>3, <3>4
  <2>6. p \in Seq(LeafValues) /\ q \in Seq(LeafValues) /\ w \in Seq(LeafValues)
    <3>1. w \in Seq(LeafValues)
      BY <1>0, <2>1, SplitTypes
    <3> HIDE DEF bn, AB, BC
    <3> QED BY <2>2, <2>4, <3>1, SplitTypes
  <2>7. /\ p \in A[Slice(b, 0, m)] /\ q \in B[Slice(b, m, n)] /\ w \in C[Slice(b, n, Len(b))]
        /\ Ended(p) => m = n
        /\ Ended(u) => n = Len(b)
        /\ u = p \o q /\ x = u \o w
    <3> HIDE DEF bn, AB
    <3> QED BY <2>1, <2>2, <2>4, <2>5 DEF Split
  <2>8. Ended(p) \/ Ended(q) => n = Len(b)
    BY <2>6, <2>7, EndedConcat
  <2>9. Split(B, C, bm, q \o w, n - m, q, w)
    <3> HIDE DEF bm
    <3> QED BY <2>0, <2>5, <2>7, <2>8 DEF Split
  <2>10. q \o w \in BC[bm]
    <3>1. n - m \in 0 .. Len(bm)
      BY <2>0, <2>5
    <3> HIDE DEF bm
    <3> QED BY <2>5, <2>9, <3>1, ThenMembers
  <2>11. x = p \o (q \o w)
    BY <2>6, <2>7, ConcatAssociative
  <2>12. Split(A, BC, b, x, m, p, q \o w)
    <3> HIDE DEF BC
    <3> QED BY <2>0, <2>7, <2>8, <2>10, <2>11 DEF Split
  <2>13. m \in 0 .. Len(b)
    BY <2>0
  <2> HIDE DEF BC
  <2> QED BY <2>12, <2>13, ThenMembers
<1>2. ASSUME NEW b \in Seq(Byte), NEW x \in Then(A, BC)[b] PROVE x \in Then(AB, C)[b]
  <2>0. Len(b) \in Nat
    BY LenProperties
  <2>1. PICK m, p, u : m \in 0 .. Len(b) /\ Split(A, BC, b, x, m, p, u)
    <3> HIDE DEF AB, BC
    <3> QED BY ThenMembers
  <2> m \in 0 .. Len(b)
    BY <2>1
  <2> DEFINE bm == Slice(b, m, Len(b))
  <2>2. bm \in Seq(Byte) /\ Len(bm) = Len(b) - m /\ m \in Nat
    <3>1. m \in Nat /\ m <= Len(b) /\ Len(b) <= Len(b)
      BY <2>0
    <3> QED BY <2>0, <3>1, SliceProperties
  <2>3. u \in BC[bm]
    BY <2>1 DEF Split
  <2>4. PICK k, q, w : k \in 0 .. Len(bm) /\ Split(B, C, bm, u, k, q, w)
    <3> HIDE DEF bm
    <3> QED BY <2>2, <2>3, ThenMembers
  <2> k \in 0 .. Len(bm)
    BY <2>4
  <2> DEFINE n  == m + k
             bn == Slice(b, 0, n)
  <2>5. /\ n \in 0 .. Len(b) /\ n \in Nat /\ m \in 0 .. n /\ (k = Len(bm) => n = Len(b))
        /\ bn \in Seq(Byte) /\ Len(bn) = n
        /\ Slice(bn, 0, m) = Slice(b, 0, m) /\ Slice(bn, m, n) = Slice(b, m, n)
        /\ Slice(bm, 0, k) = Slice(b, m, n)
        /\ Slice(bm, k, Len(bm)) = Slice(b, n, Len(b))
    <3>1. /\ k \in Nat /\ n \in Nat /\ m <= n /\ n <= Len(b) /\ k <= Len(b) - m /\ m <= Len(b)
          /\ m + (Len(b) - m) = Len(b) /\ Len(b) - m \in Nat /\ k <= Len(bm)
          /\ m + 0 = m /\ 0 + m = m /\ 0 + n = n /\ n - 0 = n /\ 0 <= n
          /\ (k = Len(bm) => n = Len(b)) /\ m \in 0 .. n /\ n \in 0 .. Len(b)
      BY <2>0, <2>2
    <3> HIDE DEF n
    <3>2. bn \in Seq(Byte) /\ Len(bn) = n
      BY <2>0, <3>1, SliceProperties
    <3>3. Slice(bn, 0, m) = Slice(b, 0 + 0, 0 + m) /\ Slice(bn, m, n) = Slice(b, 0 + m, 0 + n)
      <4>1. 0 \in Nat /\ 0 <= m /\ m <= n - 0 /\ n <= n - 0
        BY <2>2, <3>1
      <4> QED BY <2>0, <2>2, <3>1, <4>1, SliceOfSlice
    <3>4. /\ Slice(bm, 0, k) = Slice(b, m + 0, m + k)
          /\ Slice(bm, k, Len(b) - m) = Slice(b, m + k, m + (Len(b) - m))
      <4>1. /\ 0 \in Nat /\ 0 <= k /\ Len(b) <= Len(b) /\ Len(b) - m <= Len(b) - m
            /\ Len(b) \in Nat /\ k \in Nat /\ m \in Nat /\ m <= Len(b)
            /\ Len(b) - m \in Nat /\ k <= Len(b) - m
        BY <2>0, <2>2, <3>1
      <4> HIDE DEF n
      <4>2. Slice(bm, 0, k) = Slice(b, m + 0, m + k)
        BY <4>1, SliceOfSlice
      <4> DEFINE y == Len(b) - m
      <4>3. y \in Nat /\ k <= y /\ y <= Len(b) - m
        BY <4>1
      <4> HIDE DEF y
      <4>4. Slice(bm, k, y) = Slice(b, m + k, m + y)
        <5>1. /\ b \in Seq(Byte) /\ Len(b) \in Nat /\ m \in Nat /\ k \in Nat /\ y \in Nat
              /\ m <= Len(b) /\ Len(b) <= Len(b) /\ k <= y /\ y <= Len(b) - m
          BY <4>1, <4>3
        <5> HIDE DEF bn
        <5> QED BY <5>1, SliceOfSlice, SMTT(30)
      <4> QED BY <4>2, <4>4 DEF y
    <3> HIDE DEF bn, bm
    <3> QED BY <2>2, <3>1, <3>2, <3>3, <3>4 DEF n
  <2> HIDE DEF n
  <2>6. p \in Seq(LeafValues) /\ q \in Seq(LeafValues) /\ w \in Seq(LeafValues)
    <3>1. p \in Seq(LeafValues)
      BY <1>0, <2>1, SplitTypes
    <3> HIDE DEF bm, AB, BC
    <3> QED BY <2>2, <2>4, <3>1, SplitTypes
  <2>7. /\ p \in A[Slice(b, 0, m)] /\ q \in B[Slice(b, m, n)] /\ w \in C[Slice(b, n, Len(b))]
        /\ Ended(p) => m = Len(b)
        /\ Ended(q) => n = Len(b)
        /\ u = q \o w /\ x = p \o u
    <3> HIDE DEF bm, BC
    <3> QED BY <2>1, <2>2, <2>4, <2>5 DEF Split
  <2>8. Ended(p \o q) => n = Len(b)
    <3>1. m = Len(b) => n = Len(b)
      BY <2>0, <2>5
    <3> QED BY <2>6, <2>7, <3>1, EndedConcat
  <2>9. Split(A, B, bn, p \o q, m, p, q)
    <3>1. Ended(p) => m = n
      BY <2>0, <2>5, <2>7
    <3> HIDE DEF bn
    <3> QED BY <2>5, <2>7, <3>1 DEF Split
  <2>10. p \o q \in AB[bn]
    <3> HIDE DEF bn
    <3> QED BY <2>5, <2>9, ThenMembers
  <2>11. x = (p \o q) \o w
    <3>1. (p \o q) \o w = p \o (q \o w)
      BY <2>6, ConcatAssociative
    <3> QED BY <2>7, <3>1
  <2>12. Split(AB, C, b, x, n, p \o q, w)
    <3> HIDE DEF AB
    <3> QED BY <2>7, <2>8, <2>10, <2>11 DEF Split
  <2> HIDE DEF AB
  <2> QED BY <2>5, <2>12, ThenMembers
<1>3. Then(AB, C) \in Readings /\ Then(A, BC) \in Readings
  <2> HIDE DEF AB, BC
  <2> QED BY <1>0, ThenType
<1>4. \A b \in Seq(Byte) : Then(AB, C)[b] = Then(A, BC)[b]
  BY <1>1, <1>2
<1> HIDE DEF AB, BC
<1>5. Then(AB, C) = Then(A, BC)
  BY <1>3, <1>4 DEF Readings
<1> QED BY <1>5 DEF AB, BC

(* Nothing reads the empty value. *)
LEMMA NothingType == Nothing \in Readings
  BY DEF Nothing, Readings

(* Nothing comes before B. *)
LEMMA NothingThen ==
  ASSUME NEW B \in Readings
  PROVE  Then(Nothing, B) = B
<1>1. ASSUME NEW b \in Seq(Byte), NEW x
      PROVE  x \in Then(Nothing, B)[b] <=> x \in B[b]
  <2>0. Len(b) \in Nat /\ Slice(b, 0, 0) = << >> /\ Slice(b, 0, Len(b)) = b /\ << >> \in Seq(Byte)
    BY LenProperties, EmptySlice, SliceAll
  <2>1. ASSUME NEW n \in 0 .. Len(b), NEW v, NEW w, Split(Nothing, B, b, x, n, v, w)
        PROVE  x \in B[b]
    <3>1. Slice(b, 0, n) \in Seq(Byte) /\ Len(Slice(b, 0, n)) = n - 0
      BY <2>0, SliceProperties
    <3>2. Slice(b, 0, n) = << >> /\ v = << >>
      BY <2>1, <3>1 DEF Split, Nothing
    <3>3. n = 0
      BY <3>1, <3>2, EmptySeq
    <3>4. w \in B[b] /\ x = << >> \o w
      BY <2>0, <2>1, <3>2, <3>3 DEF Split
    <3>5. w \in Seq(LeafValues)
      BY <3>4 DEF Readings
    <3> QED BY <3>4, <3>5, ConcatEmptySeq
  <2>2. ASSUME x \in B[b] PROVE Split(Nothing, B, b, x, 0, << >>, x)
    <3>1. x \in Seq(LeafValues)
      BY <2>2 DEF Readings
    <3>2. x = << >> \o x
      BY <3>1, ConcatEmptySeq
    <3>3. ~Ended(<< >>)
      BY DEF Ended
    <3> QED BY <2>0, <2>2, <3>2, <3>3 DEF Split, Nothing
  <2>3. 0 \in 0 .. Len(b)
    BY <2>0
  <2> QED BY <2>1, <2>2, <2>3, ThenMembers
<1>2. Then(Nothing, B) \in Readings
  BY NothingType, ThenType
<1>3. \A b \in Seq(Byte) : Then(Nothing, B)[b] = B[b]
  BY <1>1
<1> QED BY <1>2, <1>3 DEF Readings

(* The bytes start with a value of A, only one, and it ends after n bytes. *)
FirstIs(A, b, n, v) ==
  \A m \in 0 .. Len(b) : \A a :
    a \in A[Slice(b, 0, m)] /\ (Ended(a) => m = Len(b)) <=> m = n /\ a = v

(* The bytes start with no value of A. *)
FirstIsNot(A, b) ==
  \A m \in 0 .. Len(b) : \A a : ~(a \in A[Slice(b, 0, m)] /\ (Ended(a) => m = Len(b)))

(* The values of `values`, each with v in front. *)
After(v, values) == {v \o w : w \in values}

(* v and a in front, one by one or together. *)
LEMMA AfterAfter ==
  ASSUME NEW v \in Seq(LeafValues), NEW a \in Seq(LeafValues), NEW values \in SUBSET Seq(LeafValues)
  PROVE  After(v, After(a, values)) = After(v \o a, values)
<1>1. \A w \in values : v \o (a \o w) = (v \o a) \o w
  BY ConcatAssociative
<1>2. After(v, After(a, values)) = {v \o (a \o w) : w \in values}
  BY DEF After
<1>3. {v \o (a \o w) : w \in values} = {(v \o a) \o w : w \in values}
  BY <1>1
<1> QED BY <1>2, <1>3 DEF After

(* If A can only be v, what is read is v and then what C reads in the rest. *)
LEMMA ReadsOne ==
  ASSUME NEW A, NEW C, NEW b \in Seq(Byte), NEW n \in 0 .. Len(b), NEW v, FirstIs(A, b, n, v)
  PROVE  Then(A, C)[b] = After(v, C[Slice(b, n, Len(b))])
<1>1. ASSUME NEW x, NEW m \in 0 .. Len(b), NEW p, NEW w
      PROVE  Split(A, C, b, x, m, p, w) <=>
               m = n /\ p = v /\ w \in C[Slice(b, n, Len(b))] /\ x = v \o w
  <2>1. p \in A[Slice(b, 0, m)] /\ (Ended(p) => m = Len(b)) <=> m = n /\ p = v
    BY DEF FirstIs
  <2> QED BY <2>1 DEF Split
<1>2. ASSUME NEW x
      PROVE  x \in Then(A, C)[b] <=> x \in After(v, C[Slice(b, n, Len(b))])
  <2> DEFINE X == C[Slice(b, n, Len(b))]
  <2>1. x \in Then(A, C)[b] <=> \E m \in 0 .. Len(b) : \E p, w : Split(A, C, b, x, m, p, w)
    BY ThenMembers
  <2>2. x \in Then(A, C)[b] <=> \E w \in X : x = v \o w
    BY <1>1, <2>1
  <2> HIDE DEF X
  <2>3. x \in After(v, X) <=> \E w \in X : x = v \o w
    BY DEF After
  <2> QED BY <2>2, <2>3 DEF X
<1> QED BY <1>2

(* If A cannot be read, nothing is. *)
LEMMA ReadsNone ==
  ASSUME NEW A, NEW C, NEW b \in Seq(Byte), FirstIsNot(A, b)
  PROVE  Then(A, C)[b] = {}
<1>1. ASSUME NEW x \in Then(A, C)[b] PROVE FALSE
  <2>1. PICK m, p, w : m \in 0 .. Len(b) /\ Split(A, C, b, x, m, p, w)
    BY ThenMembers
  <2> m \in 0 .. Len(b)
    BY <2>1
  <2> QED BY <2>1 DEF Split, FirstIsNot
<1> QED BY <1>1

(* Something may follow a value that is present. *)
LEMMA PresentIsNotEnded ==
  ASSUME NEW val
  PROVE  /\ ~Ended(Present(val))
         /\ val \in Seq(Byte) => Present(val) \in Seq(LeafValues)
<1>1. DOMAIN Present(val) = {1} /\ Present(val)[1] = [some |-> TRUE, val |-> val]
  BY DEF Present
<1>2. ~Ended(Present(val))
  BY <1>1 DEF Ended
<1>3. val \in Seq(Byte) => [some |-> TRUE, val |-> val] \in LeafValues
  BY DEF LeafValues
<1>4. val \in Seq(Byte) => Present(val) \in Seq(LeafValues)
  BY <1>3 DEF Present
<1> QED BY <1>2, <1>4

(* Nothing may follow a value that is absent. *)
LEMMA AbsentEnds == Ended(Absent) /\ Absent \in Seq(LeafValues)
<1>1. DOMAIN Absent = {1} /\ Absent[1] = [some |-> FALSE, val |-> << >>]
  BY DEF Absent
<1>2. [some |-> FALSE, val |-> << >>] \in LeafValues
  BY DEF LeafValues
<1> QED BY <1>1, <1>2 DEF Ended, Absent

(* What an option adds: nothing while there are bytes.                     *)
LEMMA OptionalPresent ==
  ASSUME NEW A \in Readings, NEW b \in Seq(Byte), b # << >>
  PROVE  /\ \A n, val : FirstIs(A, b, n, Present(val)) => FirstIs(Optional(A), b, n, Present(val))
         /\ FirstIsNot(A, b) => FirstIsNot(Optional(A), b)
<1>0. Len(b) \in Nat /\ Len(b) # 0
  BY LenProperties, EmptySeq
<1>1. ASSUME NEW m \in 0 .. Len(b), NEW a
      PROVE  a \in Optional(A)[Slice(b, 0, m)] /\ (Ended(a) => m = Len(b))
               <=> a \in A[Slice(b, 0, m)] /\ (Ended(a) => m = Len(b))
  <2>1. Slice(b, 0, m) \in Seq(Byte) /\ Len(Slice(b, 0, m)) = m - 0
    BY <1>0, SliceProperties
  <2>2. Slice(b, 0, m) = << >> => m # Len(b)
    BY <1>0, <2>1, EmptySeq
  <2> QED BY <2>1, <2>2, AbsentEnds DEF Optional
<1> QED BY <1>1 DEF FirstIs, FirstIsNot

(* Without bytes, an option is absent. *)
LEMMA OptionalAbsent ==
  ASSUME NEW A \in Readings, A[<< >>] = {}
  PROVE  FirstIs(Optional(A), << >>, 0, Absent)
<1>1. << >> \in Seq(Byte) /\ Len(<< >>) = 0 /\ Slice(<< >>, 0, 0) = << >>
  <2>1. << >> \in Seq(Byte) /\ Len(<< >>) = 0
    OBVIOUS
  <2>2. 0 \in Nat /\ 0 <= Len(<< >>)
    BY <2>1
  <2> QED BY <2>1, <2>2, EmptySlice
<1>2. Optional(A)[<< >>] = {Absent}
  BY <1>1 DEF Optional
<1> QED BY <1>1, <1>2 DEF FirstIs

(* An option reads values. *)
LEMMA OptionalType ==
  ASSUME NEW A \in Readings
  PROVE  Optional(A) \in Readings
  BY AbsentEnds DEF Optional, Readings
-----------------------------------------------------------------------------
(* A prefix in front is a prefix that is read. *)
LEMMA PrefixedBytes ==
  ASSUME NEW s \in Seq(Byte), NEW v \in Seq(Byte), NEW n \in U32
  PROVE  s = LEBytes(n) \o v <=>
           PrefixLen <= Len(s) /\ PrefixAt(s, 0) = n /\ v = Slice(s, PrefixLen, Len(s))
<1> DEFINE p == LEBytes(n)
           h == Slice(s, 0, PrefixLen)
           t == Slice(s, PrefixLen, Len(s))
<1>0. p \in Seq(Byte) /\ Len(p) = PrefixLen /\ LE32(p) = n /\ Len(s) \in Nat /\ PrefixLen \in Nat
      /\ PrefixLen = 4 /\ Len(v) \in Nat
  BY PrefixOfBytes, LenProperties DEF PrefixLen
<1>1. ASSUME PrefixLen <= Len(s)
      PROVE  h \in Seq(Byte) /\ Len(h) = PrefixLen /\ t \in Seq(Byte) /\ s = h \o t
  <2>1. 0 \in Nat /\ 0 <= PrefixLen /\ Len(s) <= Len(s) /\ PrefixLen - 0 = PrefixLen
    BY <1>0
  <2>2. h \in Seq(Byte) /\ Len(h) = PrefixLen - 0 /\ t \in Seq(Byte)
    BY <1>0, <1>1, <2>1, SliceProperties
  <2>3. h \o t = Slice(s, 0, Len(s))
    BY <1>0, <1>1, <2>1, SlicesMeet
  <2>4. h \o t = s
    <3> HIDE DEF h, t
    <3> QED BY <2>3, SliceAll
  <2> HIDE DEF h, t
  <2> QED BY <2>1, <2>2, <2>4
<1>2. ASSUME s = p \o v PROVE PrefixLen <= Len(s) /\ LE32(h) = n /\ v = t
  <2>1. Len(s) = PrefixLen + Len(v) /\ PrefixLen <= Len(s)
    <3> HIDE DEF p
    <3>1. Len(p \o v) = Len(p) + Len(v)
      BY <1>0, ConcatProperties
    <3> QED BY <1>0, <1>2, <3>1
  <2>2. h \in Seq(Byte) /\ Len(h) = PrefixLen /\ t \in Seq(Byte) /\ s = h \o t
    BY <1>1, <2>1
  <2> HIDE DEF p, h, t
  <2>3. \A i \in 1 .. PrefixLen : p[i] = h[i]
    <3> SUFFICES ASSUME NEW i \in 1 .. PrefixLen PROVE p[i] = h[i]
      OBVIOUS
    <3>1. (p \o v)[i] = p[i]
      <4>0. p \in Seq(Byte) /\ v \in Seq(Byte)
        BY <1>0
      <4>1. i \in 1 .. Len(p) + Len(v) /\ i <= Len(p)
        BY <1>0
      <4>2. \A j \in 1 .. Len(p) + Len(v) : (p \o v)[j] = IF j <= Len(p) THEN p[j] ELSE v[j - Len(p)]
        BY <4>0, ConcatProperties
      <4> QED BY <4>1, <4>2
    <3>2. (h \o t)[i] = h[i]
      BY <2>2, ConcatProperties
    <3> QED BY <1>2, <2>2, <3>1, <3>2
  <2>4. p = h
    BY <1>0, <2>2, <2>3, SeqEqual
  <2>5. v = t
    <3>1. p \o v = p \o t
      BY <1>2, <2>2, <2>4
    <3> QED BY <1>0, <2>2, <3>1, ConcatSimplifications
  <2> QED BY <1>0, <2>1, <2>4, <2>5
<1>3. ASSUME PrefixLen <= Len(s), LE32(h) = n, v = t PROVE s = p \o v
  <2>1. h \in Seq(Byte) /\ Len(h) = PrefixLen /\ s = h \o t
    BY <1>1, <1>3
  <2>2. LEBytes(LE32(h)) = h
    <3> HIDE DEF h
    <3> QED BY <2>1, BytesOfPrefix
  <2> QED BY <1>3, <2>1, <2>2
<1>4. 0 + PrefixLen = PrefixLen
  BY <1>0
<1>5. PrefixAt(s, 0) = LE32(h)
  BY <1>4 DEF PrefixAt
<1> QED BY <1>2, <1>3, <1>5

(* A prefix is a u32. *)
LEMMA PrefixIsU32 ==
  ASSUME NEW s \in Seq(Byte), PrefixLen <= Len(s)
  PROVE  PrefixAt(s, 0) \in U32 /\ PrefixAt(s, 0) \in Nat
<1>1. PrefixLen \in Nat /\ Len(s) \in Nat /\ 0 + PrefixLen = PrefixLen /\ 0 <= PrefixLen
      /\ PrefixLen - 0 = PrefixLen /\ 0 \in Nat
  BY LenProperties DEF PrefixLen
<1>2. Slice(s, 0, PrefixLen) \in Seq(Byte) /\ Len(Slice(s, 0, PrefixLen)) = PrefixLen - 0
  BY <1>1, SliceProperties
<1>3. PrefixAt(s, 0) \in U32
  BY <1>1, <1>2, BytesOfPrefix DEF PrefixAt
<1>4. \A n \in U32 : n \in Nat
  BY DEF U32
<1> QED BY <1>3, <1>4

(* A multiple of k divided by k. *)
LEMMA MultipleDivides ==
  ASSUME NEW c \in Nat, NEW k \in Nat \ {0}
  PROVE  c * k \in Nat /\ (c * k) \div k = c
<1> DEFINE q == (c * k) \div k
           r == (c * k) % k
<1>1. c * k \in Nat
  OBVIOUS
<1>2. q \in Int /\ r \in Nat /\ r < k /\ c * k = r + k * q
  <2>1. \A n \in Nat : n \div k \in Int /\ n % k \in Nat /\ n % k < k /\ n = (n % k) + k * (n \div k)
    OBVIOUS
  <2> QED BY <1>1, <2>1
<1> HIDE DEF q, r
<1>3. k * (c - q) = r
  BY <1>2
<1>4. CASE c - q >= 1
  <2>1. c - q \in Nat /\ \A d \in Nat : d >= 1 => k * d >= k
    BY <1>2, <1>4
  <2> QED BY <1>2, <1>3, <1>4, <2>1
<1>5. CASE q - c >= 1
  <2>1. q - c \in Nat /\ \A d \in Nat : d >= 1 => k * d >= k
    BY <1>2, <1>5
  <2>2. k * (q - c) = 0 - r
    BY <1>2, <1>3
  <2> QED BY <1>2, <1>5, <2>1, <2>2
<1>6. q = c
  BY <1>2, <1>4, <1>5
<1> QED BY <1>1, <1>6 DEF q

(* Bytes that are the encoding of one present value. *)
Filled(kind, s) ==
  /\ PayloadFrom(kind, 0) <= Len(s)
  /\ Len(s) = PayloadTo(s, kind, 0)
  /\ kind.k = "vec" => PrefixAt(s, 0) # 0

(* A plain field is read from bytes that it fills, and from them alone: what *)
(* the encoder writes and what the decoder looks for are the same.          *)
LEMMA PlainMembers ==
  ASSUME NEW kind \in Fixed \cup {VarBytes} \cup Vectors, NEW s \in Seq(Byte), NEW a
  PROVE  a \in Plain(kind)[s] <=>
           Filled(kind, s) /\ a = Present(Slice(s, PayloadFrom(kind, 0), Len(s)))
<1> DEFINE rest == Slice(s, PrefixLen, Len(s))
<1>0. Len(s) \in Nat /\ PrefixLen \in Nat /\ PrefixLen = 4 /\ 0 + PrefixLen = PrefixLen
  BY LenProperties DEF PrefixLen
<1>1. a \in Plain(kind)[s] <=> \E v \in Payloads(s) : Encodes(kind, v, s) /\ a = Present(v)
  BY DEF Plain
<1>2. PrefixLen <= Len(s) => rest \in Seq(Byte) /\ Len(rest) = Len(s) - PrefixLen
  <2>1. Len(s) <= Len(s)
    BY <1>0
  <2> QED BY <1>0, <2>1, SliceProperties
<1>3. /\ s \in Payloads(s)
      /\ PrefixLen <= Len(s) => rest \in Payloads(s)
      /\ \A v \in Payloads(s) : v = s \/ (PrefixLen <= Len(s) /\ v = rest)
      /\ \A v \in Payloads(s) : v \in Seq(Byte)
  BY <1>2 DEF Payloads
<1>4. PrefixLen <= Len(s) => PrefixAt(s, 0) \in U32 /\ PrefixAt(s, 0) \in Nat
  BY PrefixIsU32
<1> HIDE DEF rest
<1>5. CASE kind \in Fixed
  <2>1. kind.k \in {"scalar", "array"} /\ kind.size \in Nat \ {0}
    BY <1>5, FixedSize
  <2>2. /\ PayloadFrom(kind, 0) = 0 /\ PayloadTo(s, kind, 0) = kind.size
        /\ \A v : Encodes(kind, v, s) <=> Len(v) = kind.size /\ s = v
    BY <2>1 DEF PayloadFrom, PayloadTo, Encodes
  <2>3. Slice(s, 0, Len(s)) = s
    BY SliceAll
  <2>4. Filled(kind, s) <=> Len(s) = kind.size
    BY <1>0, <2>1, <2>2 DEF Filled
  <2> QED BY <1>1, <1>3, <2>2, <2>3, <2>4
<1>6. CASE kind = VarBytes
  <2>1. /\ PayloadFrom(kind, 0) = PrefixLen
        /\ PayloadTo(s, kind, 0) = PrefixLen + PrefixAt(s, 0)
        /\ kind.k # "vec"
        /\ \A v : Encodes(kind, v, s) <=> Len(v) \in U32 /\ s = LEBytes(Len(v)) \o v
    BY <1>0, <1>6 DEF PayloadFrom, PayloadTo, Encodes, VarBytes
  <2>2. Filled(kind, s) <=> PrefixLen <= Len(s) /\ Len(s) = PrefixLen + PrefixAt(s, 0)
    BY <2>1 DEF Filled
  <2>3. ASSUME NEW v \in Payloads(s), Encodes(kind, v, s) PROVE Filled(kind, s) /\ v = rest
    <3>1. PrefixLen <= Len(s) /\ PrefixAt(s, 0) = Len(v) /\ v = rest
      BY <1>3, <2>1, <2>3, PrefixedBytes DEF rest
    <3> QED BY <1>0, <1>2, <2>2, <3>1
  <2>4. ASSUME Filled(kind, s) PROVE rest \in Payloads(s) /\ Encodes(kind, rest, s)
    <3>1. PrefixLen <= Len(s) /\ Len(rest) = PrefixAt(s, 0) /\ rest \in Seq(Byte)
      BY <1>0, <1>2, <1>4, <2>2, <2>4
    <3>2. s = LEBytes(Len(rest)) \o rest
      BY <1>4, <3>1, PrefixedBytes DEF rest
    <3> QED BY <1>3, <1>4, <2>1, <3>1, <3>2
  <2> QED BY <1>1, <2>1, <2>3, <2>4 DEF rest
<1>7. CASE kind \in Vectors
  <2> DEFINE n == kind.of.size
  <2>0. kind.k = "vec" /\ n \in Nat \ {0}
    BY <1>7, FixedSize DEF Vectors
  <2>1. /\ PayloadFrom(kind, 0) = PrefixLen
        /\ PayloadTo(s, kind, 0) = PrefixLen + PrefixAt(s, 0) * n
        /\ \A v : Encodes(kind, v, s) <=>
                    /\ Len(v) \div n \in U32 \ {0} /\ Len(v) = (Len(v) \div n) * n
                    /\ s = LEBytes(Len(v) \div n) \o v
    BY <1>0, <2>0 DEF PayloadFrom, PayloadTo, Encodes
  <2>2. Filled(kind, s) <=> /\ PrefixLen <= Len(s) /\ Len(s) = PrefixLen + PrefixAt(s, 0) * n
                            /\ PrefixAt(s, 0) # 0
    BY <2>0, <2>1 DEF Filled
  <2> HIDE DEF n
  <2>3. ASSUME NEW v \in Payloads(s), Encodes(kind, v, s) PROVE Filled(kind, s) /\ v = rest
    <3>0. Len(v) \div n \in U32 \ {0} /\ Len(v) = (Len(v) \div n) * n
      BY <2>1, <2>3
    <3>1. PrefixLen <= Len(s) /\ PrefixAt(s, 0) = Len(v) \div n /\ v = rest
      BY <1>3, <2>1, <2>3, PrefixedBytes DEF rest
    <3>2. Len(v) = PrefixAt(s, 0) * n /\ PrefixAt(s, 0) # 0
      BY <3>0, <3>1
    <3>3. Len(v) = Len(s) - PrefixLen
      BY <1>2, <3>1
    <3> DEFINE all == PrefixAt(s, 0) * n
    <3>4. Len(v) = all /\ (Filled(kind, s) <=> Len(s) = PrefixLen + all)
      BY <2>2, <3>1, <3>2
    <3> HIDE DEF all
    <3> QED BY <1>0, <3>1, <3>3, <3>4
  <2>4. ASSUME Filled(kind, s) PROVE rest \in Payloads(s) /\ Encodes(kind, rest, s)
    <3> DEFINE c == PrefixAt(s, 0)
    <3>0. PrefixLen <= Len(s) /\ c \in U32 /\ c \in Nat /\ c # 0 /\ rest \in Seq(Byte)
      BY <1>2, <1>4, <2>2, <2>4
    <3>1. Len(rest) = c * n
      <4> DEFINE all == c * n
      <4>1. Len(s) = PrefixLen + all /\ Len(rest) = Len(s) - PrefixLen
        BY <1>2, <2>2, <2>4
      <4>2. all \in Nat
        BY <2>0, <3>0, MultipleDivides
      <4> HIDE DEF all
      <4>3. Len(rest) = all
        BY <1>0, <4>1, <4>2
      <4> QED BY <4>3 DEF all
    <3>2. Len(rest) \div n = c
      BY <2>0, <3>0, <3>1, MultipleDivides
    <3>3. s = LEBytes(c) \o rest
      BY <3>0, PrefixedBytes DEF rest
    <3> HIDE DEF c
    <3> QED BY <1>3, <2>1, <3>0, <3>1, <3>2, <3>3
  <2> QED BY <1>1, <2>1, <2>3, <2>4 DEF rest
<1> QED BY <1>5, <1>6, <1>7

(* A plain field reads values. *)
LEMMA PlainType ==
  ASSUME NEW kind \in Fixed \cup {VarBytes} \cup Vectors
  PROVE  Plain(kind) \in Readings
<1>1. ASSUME NEW s \in Seq(Byte), NEW a \in Plain(kind)[s] PROVE a \in Seq(LeafValues)
  <2> DEFINE v == Slice(s, PayloadFrom(kind, 0), Len(s))
  <2>1. PayloadFrom(kind, 0) <= Len(s) /\ a = Present(v)
    BY PlainMembers DEF Filled
  <2>2. PayloadFrom(kind, 0) \in Nat /\ Len(s) \in Nat /\ Len(s) <= Len(s)
    BY LenProperties DEF PayloadFrom, PrefixLen
  <2>3. v \in Seq(Byte)
    BY <2>1, <2>2, SliceProperties
  <2> QED BY <2>1, <2>3, PresentIsNotEnded
<1>2. Plain(kind) = [s \in Seq(Byte) |-> Plain(kind)[s]]
  BY DEF Plain
<1> QED BY <1>1, <1>2 DEF Readings

(* The kinds whose values are written and read in one piece. *)
PresentKinds == Fixed \cup {VarBytes} \cup Vectors

(* From `from` on, raw has room for a present value of the kind. *)
Fills(raw, kind, from, to) ==
  /\ PayloadFrom(kind, from) <= to
  /\ to = PayloadTo(raw, kind, from)
  /\ kind.k = "vec" => PrefixAt(raw, from) # 0

(* Where a payload starts moves with the field. *)
LEMMA PayloadsMove ==
  ASSUME NEW kind \in PresentKinds, NEW from \in Nat
  PROVE  /\ PayloadFrom(kind, 0) \in Nat
         /\ PayloadFrom(kind, from) = from + PayloadFrom(kind, 0)
         /\ PayloadFrom(kind, 0) = IF kind.k \in {"bytes", "vec"} THEN PrefixLen ELSE 0
  BY DEF PayloadFrom, PrefixLen

(* Bytes in the middle of the witness fill a field as they do on their own. *)
LEMMA FilledThere ==
  ASSUME NEW raw \in Seq(Byte), NEW from \in Nat, NEW m \in Nat, from + m <= Len(raw),
         NEW kind \in PresentKinds
  PROVE  LET s == Slice(raw, from, from + m)
         IN  /\ Filled(kind, s) <=> Fills(raw, kind, from, from + m)
             /\ Filled(kind, s) => Slice(s, PayloadFrom(kind, 0), Len(s))
                                     = Slice(raw, PayloadFrom(kind, from), from + m)
<1> DEFINE s == Slice(raw, from, from + m)
           pf == PayloadFrom(kind, 0)
<1>0. /\ Len(raw) \in Nat /\ PrefixLen \in Nat /\ PrefixLen = 4 /\ from + m \in Nat /\ from <= from + m
      /\ (from + m) - from = m /\ 0 + PrefixLen = PrefixLen /\ from + 0 = from /\ 0 + 0 = 0
  BY LenProperties DEF PrefixLen
<1>1. s \in Seq(Byte) /\ Len(s) = m
  BY <1>0, SliceProperties
<1>2. pf \in Nat /\ PayloadFrom(kind, from) = from + pf
      /\ pf = IF kind.k \in {"bytes", "vec"} THEN PrefixLen ELSE 0
  BY PayloadsMove
<1> HIDE DEF pf
<1>3. ASSUME pf <= m PROVE Slice(s, pf, m) = Slice(raw, from + pf, from + m)
  <2>1. m <= (from + m) - from
    BY <1>0
  <2> QED BY <1>0, <1>2, <1>3, <2>1, SliceOfSlice
<1>4. ASSUME PrefixLen <= m PROVE PrefixAt(s, 0) = PrefixAt(raw, from)
  <2>1. PrefixLen <= (from + m) - from /\ 0 \in Nat /\ 0 <= PrefixLen
    BY <1>0, <1>4
  <2>2. Slice(s, 0, PrefixLen) = Slice(raw, from + 0, from + PrefixLen)
    BY <1>0, <2>1, SliceOfSlice
  <2> HIDE DEF s
  <2> QED BY <1>0, <2>2 DEF PrefixAt
<1> HIDE DEF s
<1>5. Filled(kind, s) <=> Fills(raw, kind, from, from + m)
  <2>1. from + pf <= from + m <=> pf <= m
    BY <1>0, <1>2
  <2>2. CASE kind.k = "bytes"
    <3>1. PayloadTo(s, kind, 0) = PrefixLen + PrefixAt(s, 0)
          /\ PayloadTo(raw, kind, from) = from + PrefixLen + PrefixAt(raw, from)
      BY <1>0, <2>2 DEF PayloadTo
    <3>2. PrefixLen <= m => PrefixAt(s, 0) \in Nat
      BY <1>1, PrefixIsU32
    <3>3. PrefixLen <= m => (m = PrefixLen + PrefixAt(s, 0)
                               <=> from + m = from + PrefixLen + PrefixAt(raw, from))
      BY <1>0, <1>4, <3>2
    <3> QED BY <1>1, <1>2, <2>1, <2>2, <3>1, <3>3 DEF Filled, Fills, pf
  <2>3. CASE kind.k = "vec"
    <3> DEFINE n == kind.of.size
    <3>0. n \in Nat
      BY <2>3, KindCases, FixedSize DEF PresentKinds, Kinds, Fixed, Scalars, Arrays, VarBytes, Vectors
    <3>1. PayloadTo(s, kind, 0) = PrefixLen + PrefixAt(s, 0) * n
          /\ PayloadTo(raw, kind, from) = from + PrefixLen + PrefixAt(raw, from) * n
      BY <1>0, <2>3 DEF PayloadTo
    <3> DEFINE all == PrefixAt(s, 0) * n
    <3>2. PrefixLen <= m => all \in Nat /\ all = PrefixAt(raw, from) * n
      <4> HIDE DEF n
      <4>1. \A i, j \in Nat : i * j \in Nat
        OBVIOUS
      <4> QED BY <1>1, <1>4, <3>0, <4>1, PrefixIsU32
    <3> HIDE DEF n
    <3>3. ASSUME PrefixLen <= m
          PROVE  Len(s) = PayloadTo(s, kind, 0) <=> from + m = PayloadTo(raw, kind, from)
      <4>1. PayloadTo(s, kind, 0) = PrefixLen + all /\ PayloadTo(raw, kind, from) = from + PrefixLen + all
        BY <3>1, <3>2, <3>3
      <4>2. all \in Nat
        BY <3>2, <3>3
      <4> HIDE DEF all
      <4> QED BY <1>0, <1>1, <4>1, <4>2
    <3>4. PrefixLen <= m => PrefixAt(s, 0) = PrefixAt(raw, from)
      BY <1>4
    <3>5. pf = PrefixLen
      BY <1>2, <2>3
    <3> QED BY <1>1, <1>2, <2>1, <2>3, <3>3, <3>4, <3>5 DEF Filled, Fills, pf
  <2>4. CASE kind.k \notin {"bytes", "vec"}
    <3>1. kind.k \in {"scalar", "array"} /\ kind.size \in Nat
      BY <2>4, FixedSize DEF PresentKinds, Vectors, VarBytes
    <3>2. PayloadTo(s, kind, 0) = kind.size /\ PayloadTo(raw, kind, from) = from + kind.size
      BY <3>1 DEF PayloadTo
    <3>3. m = kind.size <=> from + m = from + kind.size
      BY <3>1
    <3> QED BY <1>1, <1>2, <2>1, <2>4, <3>2, <3>3 DEF Filled, Fills, pf
  <2> QED BY <2>2, <2>3, <2>4
<1>6. Filled(kind, s) => Slice(s, pf, Len(s)) = Slice(raw, PayloadFrom(kind, from), from + m)
  BY <1>1, <1>2, <1>3 DEF Filled, pf
<1> QED BY <1>5, <1>6 DEF s, pf

(* The bytes from an offset on. *)
LEMMA RestFacts ==
  ASSUME NEW raw \in Seq(Byte), NEW from \in Nat, from <= Len(raw)
  PROVE  LET b == Slice(raw, from, Len(raw))
         IN  /\ b \in Seq(Byte) /\ Len(b) = Len(raw) - from /\ Len(b) \in Nat
             /\ \A m \in 0 .. Len(b) : /\ from + m \in Nat /\ from + m <= Len(raw)
                                       /\ Slice(b, 0, m) = Slice(raw, from, from + m)
                                       /\ Slice(b, m, Len(b)) = Slice(raw, from + m, Len(raw))
<1> DEFINE b == Slice(raw, from, Len(raw))
<1>0. Len(raw) \in Nat /\ Len(raw) <= Len(raw)
  BY LenProperties
<1>1. b \in Seq(Byte) /\ Len(b) = Len(raw) - from
  BY <1>0, SliceProperties
<1>2. ASSUME NEW m \in 0 .. Len(b)
      PROVE  /\ from + m \in Nat /\ from + m <= Len(raw)
             /\ Slice(b, 0, m) = Slice(raw, from, from + m)
             /\ Slice(b, m, Len(b)) = Slice(raw, from + m, Len(raw))
  <2> DEFINE y == Len(raw) - from
  <2>1. /\ m \in Nat /\ 0 \in Nat /\ 0 <= m /\ m <= y /\ y \in Nat /\ y <= y
        /\ from + 0 = from /\ from + m \in Nat /\ from + m <= Len(raw) /\ from + y = Len(raw)
        /\ y = Len(raw) - from
    BY <1>0, <1>1
  <2> HIDE DEF y
  <2>2. Slice(b, 0, m) = Slice(raw, from + 0, from + m)
    BY <1>0, <2>1, SliceOfSlice
  <2>3. Slice(b, m, y) = Slice(raw, from + m, from + y)
    BY <1>0, <2>1, SliceOfSlice
  <2> HIDE DEF b
  <2> QED BY <1>1, <2>1, <2>2, <2>3
<1>3. Len(b) \in Nat
  BY <1>0, <1>1
<1> HIDE DEF b
<1> QED BY <1>1, <1>2, <1>3 DEF b

(* What the bytes from `from` on start with. *)
LEMMA PlainFirst ==
  ASSUME NEW raw \in Seq(Byte), NEW from \in Nat, from <= Len(raw), NEW kind \in PresentKinds
  PROVE  LET b == Slice(raw, from, Len(raw))
         IN  /\ \A to \in 0 .. Len(raw) :
                  from <= to /\ Fills(raw, kind, from, to) =>
                    FirstIs(Plain(kind), b, to - from,
                            Present(Slice(raw, PayloadFrom(kind, from), to)))
             /\ (\A to \in 0 .. Len(raw) : from <= to => ~Fills(raw, kind, from, to))
                  => FirstIsNot(Plain(kind), b)
<1> DEFINE b == Slice(raw, from, Len(raw))
<1>0. /\ Len(raw) \in Nat
      /\ b \in Seq(Byte) /\ Len(b) = Len(raw) - from /\ Len(b) \in Nat
      /\ \A m \in 0 .. Len(b) : /\ from + m \in Nat /\ from + m <= Len(raw)
                                /\ Slice(b, 0, m) = Slice(raw, from, from + m)
  BY LenProperties, RestFacts
<1>1. ASSUME NEW m \in 0 .. Len(b), NEW a
      PROVE  /\ a \in Plain(kind)[Slice(b, 0, m)] <=>
                  /\ Fills(raw, kind, from, from + m)
                  /\ a = Present(Slice(raw, PayloadFrom(kind, from), from + m))
             /\ a \in Plain(kind)[Slice(b, 0, m)] => ~Ended(a)
  <2> DEFINE s == Slice(raw, from, from + m)
  <2>1. m \in Nat /\ from + m <= Len(raw) /\ from <= from + m /\ from + m \in Nat /\ Slice(b, 0, m) = s
    BY <1>0
  <2>2. s \in Seq(Byte)
    BY <2>1, SliceProperties
  <2>3. /\ Filled(kind, s) <=> Fills(raw, kind, from, from + m)
        /\ Filled(kind, s) => Slice(s, PayloadFrom(kind, 0), Len(s))
                                = Slice(raw, PayloadFrom(kind, from), from + m)
    BY <2>1, FilledThere
  <2> HIDE DEF s, b
  <2>4. a \in Plain(kind)[s] <=>
          Filled(kind, s) /\ a = Present(Slice(s, PayloadFrom(kind, 0), Len(s)))
    BY <2>2, PlainMembers DEF PresentKinds
  <2> QED BY <2>1, <2>3, <2>4, PresentIsNotEnded
<1>2. ASSUME NEW to \in 0 .. Len(raw), from <= to, Fills(raw, kind, from, to)
      PROVE  FirstIs(Plain(kind), b, to - from, Present(Slice(raw, PayloadFrom(kind, from), to)))
  <2>1. ASSUME NEW m \in 0 .. Len(b), NEW a
        PROVE  a \in Plain(kind)[Slice(b, 0, m)] /\ (Ended(a) => m = Len(b)) <=>
                 m = to - from /\ a = Present(Slice(raw, PayloadFrom(kind, from), to))
    <3>1. m = to - from => from + m = to
      BY <1>0
    <3>2. Fills(raw, kind, from, from + m) => m = to - from
      BY <1>0, <1>2 DEF Fills
    <3> HIDE DEF b
    <3> QED BY <1>1, <1>2, <3>1, <3>2
  <2> HIDE DEF b
  <2> QED BY <2>1 DEF FirstIs
<1>3. ASSUME \A to \in 0 .. Len(raw) : from <= to => ~Fills(raw, kind, from, to)
      PROVE  FirstIsNot(Plain(kind), b)
  <2>1. ASSUME NEW m \in 0 .. Len(b), NEW a
        PROVE  a \notin Plain(kind)[Slice(b, 0, m)]
    <3>1. from + m \in 0 .. Len(raw) /\ from <= from + m
      BY <1>0
    <3> HIDE DEF b
    <3> QED BY <1>1, <1>3, <3>1
  <2> HIDE DEF b
  <2> QED BY <2>1 DEF FirstIsNot
<1> HIDE DEF b
<1> QED BY <1>2, <1>3 DEF b
-----------------------------------------------------------------------------
(* A tag is the four bytes that spell it. *)
LEMMA TagMembers ==
  ASSUME NEW tag, NEW s \in Seq(Byte), NEW a
  PROVE  a \in Tag(tag)[s] <=> Len(s) = PrefixLen /\ PrefixAt(s, 0) = tag /\ a = Present(s)
<1>1. a \in Tag(tag)[s] <=> tag \in U32 /\ s = LEBytes(tag) /\ a = Present(s)
  BY DEF Tag
<1>2. ASSUME tag \in U32, s = LEBytes(tag) PROVE Len(s) = PrefixLen /\ LE32(s) = tag
  BY <1>2, PrefixOfBytes
<1>3. ASSUME Len(s) = PrefixLen, LE32(s) = tag PROVE tag \in U32 /\ s = LEBytes(tag)
  BY <1>3, BytesOfPrefix
<1>4. Len(s) = PrefixLen => PrefixAt(s, 0) = LE32(s)
  <2>1. 0 + PrefixLen = PrefixLen
    BY DEF PrefixLen
  <2>2. Slice(s, 0, Len(s)) = s
    BY SliceAll
  <2> QED BY <2>1, <2>2 DEF PrefixAt
<1> QED BY <1>1, <1>2, <1>3, <1>4

(* A tag reads values. *)
LEMMA TagType == ASSUME NEW tag PROVE Tag(tag) \in Readings
<1>1. ASSUME NEW s \in Seq(Byte), NEW a \in Tag(tag)[s] PROVE a \in Seq(LeafValues)
  BY TagMembers, PresentIsNotEnded
<1>2. Tag(tag) = [s \in Seq(Byte) |-> Tag(tag)[s]]
  BY DEF Tag
<1> QED BY <1>1, <1>2 DEF Readings

(* A tag is the next thing to read if its bytes come next. *)
LEMMA TagFirst ==
  ASSUME NEW tag, NEW b \in Seq(Byte)
  PROVE  /\ PrefixLen <= Len(b) /\ PrefixAt(b, 0) = tag =>
              FirstIs(Tag(tag), b, PrefixLen, Present(Slice(b, 0, PrefixLen)))
         /\ ~(PrefixLen <= Len(b) /\ PrefixAt(b, 0) = tag) => FirstIsNot(Tag(tag), b)
<1>0. Len(b) \in Nat /\ PrefixLen \in Nat /\ 0 + PrefixLen = PrefixLen
  BY LenProperties DEF PrefixLen
<1>1. ASSUME NEW m \in 0 .. Len(b), NEW a
      PROVE  a \in Tag(tag)[Slice(b, 0, m)] /\ (Ended(a) => m = Len(b)) <=>
               /\ m = PrefixLen /\ PrefixAt(b, 0) = tag
               /\ a = Present(Slice(b, 0, PrefixLen))
  <2> DEFINE s == Slice(b, 0, m)
  <2>1. m \in Nat /\ m <= Len(b) /\ m - 0 = m /\ 0 <= m
    BY <1>0
  <2>2. s \in Seq(Byte) /\ Len(s) = m
    BY <2>1, SliceProperties
  <2>3. ASSUME m = PrefixLen PROVE PrefixAt(s, 0) = PrefixAt(b, 0)
    <3>1. Slice(s, 0, Len(s)) = s
      BY <2>2, SliceAll
    <3> QED BY <1>0, <2>2, <2>3, <3>1 DEF PrefixAt
  <2> HIDE DEF s
  <2>4. a \in Tag(tag)[s] <=> m = PrefixLen /\ PrefixAt(s, 0) = tag /\ a = Present(s)
    BY <2>2, TagMembers
  <2>5. a = Present(s) => ~Ended(a)
    BY PresentIsNotEnded
  <2> QED BY <2>3, <2>4, <2>5 DEF s
<1>2. PrefixLen <= Len(b) <=> PrefixLen \in 0 .. Len(b)
  BY <1>0
<1> QED BY <1>1, <1>2 DEF FirstIs, FirstIsNot

(* A union is read by way of one of its tags. *)
LEMMA EitherMembers ==
  ASSUME NEW u, NEW g, NEW b \in Seq(Byte), NEW a
  PROVE  a \in Either(u, g)[b] <=>
           \E tag \in DOMAIN Variants[u] : a \in Then(Tag(tag), g[<<Variants[u][tag], 1>>])[b]
  BY DEF Either

(* A union reads values. *)
LEMMA EitherType ==
  ASSUME NEW u, NEW g, \A tag \in DOMAIN Variants[u] : g[<<Variants[u][tag], 1>>] \in Readings
  PROVE  Either(u, g) \in Readings
<1>1. ASSUME NEW b \in Seq(Byte), NEW a \in Either(u, g)[b] PROVE a \in Seq(LeafValues)
  <2>1. PICK tag \in DOMAIN Variants[u] : a \in Then(Tag(tag), g[<<Variants[u][tag], 1>>])[b]
    BY EitherMembers
  <2>2. Then(Tag(tag), g[<<Variants[u][tag], 1>>]) \in Readings
    BY TagType, ThenType
  <2> QED BY <2>1, <2>2 DEF Readings
<1>2. Either(u, g) = [b \in Seq(Byte) |-> Either(u, g)[b]]
  BY DEF Either
<1> QED BY <1>1, <1>2 DEF Readings

(* A union first reads its tag; then what follows is the variant's.        *)
LEMMA EitherThen ==
  ASSUME NEW u, NEW g, \A tag \in DOMAIN Variants[u] : g[<<Variants[u][tag], 1>>] \in Readings,
         NEW C \in Readings, NEW b \in Seq(Byte), NEW x
  PROVE  x \in Then(Either(u, g), C)[b] <=>
           \E tag \in DOMAIN Variants[u] :
             x \in Then(Tag(tag), Then(g[<<Variants[u][tag], 1>>], C))[b]
<1> DEFINE G(tag) == g[<<Variants[u][tag], 1>>]
<1>1. \A tag \in DOMAIN Variants[u] :
        Then(Then(Tag(tag), G(tag)), C) = Then(Tag(tag), Then(G(tag), C))
  <2> TAKE tag \in DOMAIN Variants[u]
  <2>1. G(tag) \in Readings
    OBVIOUS
  <2> HIDE DEF G
  <2> QED BY <2>1, TagType, ThenAssociates
<1>2. ASSUME NEW n \in 0 .. Len(b), NEW v, NEW w
      PROVE  Split(Either(u, g), C, b, x, n, v, w) <=>
               \E tag \in DOMAIN Variants[u] : Split(Then(Tag(tag), G(tag)), C, b, x, n, v, w)
  <2>1. Slice(b, 0, n) \in Seq(Byte)
    BY SliceProperties, LenProperties
  <2>2. v \in Either(u, g)[Slice(b, 0, n)] <=>
          \E tag \in DOMAIN Variants[u] : v \in Then(Tag(tag), G(tag))[Slice(b, 0, n)]
    BY <2>1, EitherMembers
  <2> QED BY <2>2 DEF Split
<1> DEFINE R(tag) == Then(Tag(tag), G(tag))
<1>3. x \in Then(Either(u, g), C)[b] <=> \E tag \in DOMAIN Variants[u] : x \in Then(R(tag), C)[b]
  <2>1. x \in Then(Either(u, g), C)[b] <=>
          \E n \in 0 .. Len(b) : \E v, w : Split(Either(u, g), C, b, x, n, v, w)
    BY ThenMembers
  <2>2. \A tag : x \in Then(R(tag), C)[b] <=>
          \E n \in 0 .. Len(b) : \E v, w : Split(R(tag), C, b, x, n, v, w)
    <3> HIDE DEF R
    <3> QED BY ThenMembers
  <2> QED BY <1>2, <2>1, <2>2
<1> QED BY <1>1, <1>3

(* Only absent options are encoded in no bytes.                            *)
LEMMA PlainTakesBytes ==
  ASSUME NEW kind \in PresentKinds
  PROVE  Plain(kind)[<< >>] = {}
<1>1. << >> \in Seq(Byte) /\ Len(<< >>) = 0
  OBVIOUS
<1>2. ASSUME NEW a \in Plain(kind)[<< >>] PROVE FALSE
  <2>1. Filled(kind, << >>)
    BY <1>1, PlainMembers DEF PresentKinds
  <2>2. CASE kind.k \in {"bytes", "vec"}
    BY <1>1, <2>1, <2>2 DEF Filled, PayloadFrom, PrefixLen
  <2>3. CASE kind.k \notin {"bytes", "vec"}
    <3>1. kind.k \in {"scalar", "array"} /\ kind.size \in Nat \ {0}
      BY <2>3, FixedSize DEF PresentKinds, Vectors, VarBytes
    <3>2. PayloadTo(<< >>, kind, 0) = 0 + kind.size
      BY <3>1 DEF PayloadTo
    <3> QED BY <1>1, <2>1, <3>1, <3>2 DEF Filled
  <2> QED BY <2>2, <2>3
<1> QED BY <1>2
-----------------------------------------------------------------------------
(* The places in the layouts. *)
Places == Structs \X Nat

(* How many statements are left from a place on, at most.                  *)
Left(size) ==
  [p \in Places |-> IF p[2] \in DOMAIN Fields[p[1]] THEN size[p[1]] - p[2] ELSE 0]

(* The fields of a struct. *)
LEMMA LayoutType ==
  ASSUME NEW s \in Structs
  PROVE  /\ Fields[s] \in Seq(Field) /\ Len(Fields[s]) \in Nat
         /\ DOMAIN Fields[s] = 1 .. Len(Fields[s])
         /\ \A i \in DOMAIN Fields[s] : Fields[s][i].kind \in Kinds
<1>1. Fields[s] \in Seq(Field)
  BY SchemaAssumption
<1>2. Len(Fields[s]) \in Nat /\ DOMAIN Fields[s] = 1 .. Len(Fields[s])
  BY <1>1, LenProperties
<1>3. \A i \in DOMAIN Fields[s] : Fields[s][i] \in Field
  BY <1>1, <1>2, ElementOfSeq
<1> QED BY <1>1, <1>2, <1>3 DEF Field

(* What is called and what comes next is further on.                       *)
LEMMA LeftDescends ==
  ASSUME NEW size \in [Structs -> Nat], Ends(size),
         NEW s \in Structs, NEW i \in DOMAIN Fields[s]
  PROVE  /\ Left(size) \in [Places -> Nat]
         /\ <<s, i + 1>> \in Places /\ Left(size)[<<s, i + 1>>] < Left(size)[<<s, i>>]
         /\ \A r \in Called(Fields[s][i].kind) :
              <<r, 1>> \in Places /\ Left(size)[<<r, 1>>] < Left(size)[<<s, i>>]
<1>1. \A p \in Places : Left(size)[p] = IF p[2] \in DOMAIN Fields[p[1]] THEN size[p[1]] - p[2] ELSE 0
  BY DEF Left
<1>2. \A p \in Places : p[1] \in Structs /\ p[2] \in Nat
  BY DEF Places
<1>3. \A r \in Structs : size[r] \in Nat /\ size[r] > Len(Fields[r]) /\ size[r] > 0
  BY LayoutType DEF Ends
<1>4. \A p \in Places : Left(size)[p] \in Nat
  <2> SUFFICES ASSUME NEW p \in Places PROVE Left(size)[p] \in Nat
    OBVIOUS
  <2>1. CASE p[2] \in DOMAIN Fields[p[1]]
    <3>1. p[2] <= Len(Fields[p[1]]) /\ Len(Fields[p[1]]) \in Nat
      BY <1>2, <2>1, LayoutType
    <3> QED BY <1>1, <1>2, <1>3, <2>1, <3>1
  <2>2. CASE p[2] \notin DOMAIN Fields[p[1]]
    BY <1>1, <2>2
  <2> QED BY <2>1, <2>2
<1>5. i \in Nat /\ i >= 1 /\ i <= Len(Fields[s]) /\ Len(Fields[s]) \in Nat
  BY LayoutType
<1>6. <<s, i>> \in Places /\ <<s, i + 1>> \in Places
  BY <1>5 DEF Places
<1>7. Left(size)[<<s, i>>] = size[s] - i /\ size[s] - i > 0
  BY <1>1, <1>3, <1>5, <1>6
<1>8. Left(size)[<<s, i + 1>>] <= size[s] - (i + 1) \/ Left(size)[<<s, i + 1>>] = 0
  BY <1>1, <1>3, <1>5, <1>6
<1>9. Left(size)[<<s, i + 1>>] < Left(size)[<<s, i>>]
  BY <1>3, <1>4, <1>5, <1>6, <1>7, <1>8
<1>10. ASSUME NEW r \in Called(Fields[s][i].kind)
       PROVE  <<r, 1>> \in Places /\ Left(size)[<<r, 1>>] < Left(size)[<<s, i>>]
  <2>1. r \in Structs
    <3>1. Fields[s][i].kind \in Kinds
      BY LayoutType
    <3> QED BY <1>10, <3>1, KindCases, SchemaAssumption DEF Called
  <2>2. i + size[r] <= size[s]
    BY <1>10 DEF Ends
  <2>3. <<r, 1>> \in Places
    BY <2>1 DEF Places
  <2>4. Left(size)[<<r, 1>>] = size[r] - 1 \/ Left(size)[<<r, 1>>] = 0
    BY <1>1, <2>3
  <2> QED BY <1>3, <1>5, <1>7, <2>1, <2>2, <2>3, <2>4
<1> HIDE DEF Left
<1>11. Left(size) \in [Places -> Nat]
  <2>1. Left(size) = [p \in Places |-> Left(size)[p]]
    BY DEF Left
  <2> QED BY <1>4, <2>1
<1> QED BY <1>6, <1>9, <1>10, <1>11

(* The meaning of a field follows from that of what it calls.              *)
LEMMA KindLocal ==
  ASSUME NEW kind \in Kinds, NEW g, NEW h,
         \A r \in Called(kind) : g[<<r, 1>>] = h[<<r, 1>>]
  PROVE  KindMeaning(kind, g) = KindMeaning(kind, h)
<1>1. CASE kind.k = "struct"
  BY <1>1 DEF KindMeaning, Called
<1>2. CASE kind.k = "union"
  <2>1. \A tag \in DOMAIN Variants[kind.path] :
          g[<<Variants[kind.path][tag], 1>>] = h[<<Variants[kind.path][tag], 1>>]
    BY <1>2 DEF Called
  <2>2. Either(kind.path, g) = Either(kind.path, h)
    <3> DEFINE u == kind.path
    <3>1. \A tag \in DOMAIN Variants[u] :
            Then(Tag(tag), g[<<Variants[u][tag], 1>>]) = Then(Tag(tag), h[<<Variants[u][tag], 1>>])
      BY <2>1, Zenon
    <3> HIDE DEF u
    <3>2. \A b \in Seq(Byte) : \A a : a \in Either(u, g)[b] <=> a \in Either(u, h)[b]
      BY <3>1, EitherMembers
    <3>3. \A b \in Seq(Byte) : Either(u, g)[b] = Either(u, h)[b]
      BY <3>2
    <3>4. /\ Either(u, g) = [b \in Seq(Byte) |-> Either(u, g)[b]]
          /\ Either(u, h) = [b \in Seq(Byte) |-> Either(u, h)[b]]
      BY DEF Either
    <3>5. [b \in Seq(Byte) |-> Either(u, g)[b]] = [b \in Seq(Byte) |-> Either(u, h)[b]]
      BY <3>3, Zenon
    <3> QED BY <3>4, <3>5 DEF u
  <2> QED BY <1>2, <2>2 DEF KindMeaning
<1>3. CASE kind.k \notin {"struct", "union"}
  BY <1>3 DEF KindMeaning
<1> QED BY <1>1, <1>2, <1>3

(* Every kind of field reads values. *)
LEMMA KindType ==
  ASSUME NEW kind \in Kinds, NEW g, \A r \in Called(kind) : g[<<r, 1>>] \in Readings
  PROVE  KindMeaning(kind, g) \in Readings
<1>1. CASE kind.k = "struct"
  BY <1>1 DEF KindMeaning, Called
<1>2. CASE kind.k = "union"
  <2>1. \A tag \in DOMAIN Variants[kind.path] : g[<<Variants[kind.path][tag], 1>>] \in Readings
    BY <1>2 DEF Called
  <2> QED BY <1>2, <2>1, EitherType DEF KindMeaning
<1>3. CASE kind.k = "opt"
  <2>1. kind.of \in Fixed \cup {VarBytes} \cup Vectors
    BY <1>3, KindCases
  <2> QED BY <1>3, <2>1, PlainType, OptionalType DEF KindMeaning
<1>4. CASE kind.k \notin {"struct", "union", "opt"}
  <2>1. kind \in Fixed \cup {VarBytes} \cup Vectors
    BY <1>4 DEF Kinds, Optionals, Nested, Tagged
  <2> QED BY <1>4, <2>1, PlainType DEF KindMeaning
<1> QED BY <1>1, <1>2, <1>3, <1>4

(* What holds of every place, if it holds of a place when it holds further on. *)
LEMMA MeasureInduction ==
  ASSUME NEW T, NEW size \in [T -> Nat], NEW S,
         \A t \in T : (\A s \in T : size[s] < size[t] => s \in S) => t \in S
  PROVE  T \subseteq S
<1> SUFFICES ASSUME NEW t \in T, t \notin S PROVE FALSE
  OBVIOUS
<1> DEFINE Out == {size[s] : s \in T \ S}
<1>1. Out \subseteq Nat /\ Out # {}
  OBVIOUS
<1>2. \E n \in Out : \A m \in Out : ~(<<m, n>> \in OpToRel(<, Nat))
  BY <1>1, NatLessThanWellFounded, WFMin
<1>3. \E n \in Out : \A m \in Out : ~(m < n)
  BY <1>1, <1>2 DEF OpToRel
<1>4. PICK s \in T \ S : \A r \in T \ S : ~(size[r] < size[s])
  BY <1>3
<1> QED BY <1>4

(* What is read from a place on. *)
From(p, g) == FieldsFrom(p[1], p[2], g)

(* The meaning of a place follows from those of the places further on. *)
LEMMA FromLocal ==
  ASSUME NEW size \in [Structs -> Nat], Ends(size), NEW p \in Places, NEW g, NEW h,
         \A q \in Places : Left(size)[q] < Left(size)[p] => g[q] = h[q]
  PROVE  From(p, g) = From(p, h)
<1> DEFINE s == p[1]
           i == p[2]
<1>0. s \in Structs /\ i \in Nat /\ p = <<s, i>>
  BY DEF Places
<1> HIDE DEF s, i
<1>1. CASE i \in DOMAIN Fields[s]
  <2>1. g[<<s, i + 1>>] = h[<<s, i + 1>>]
        /\ \A r \in Called(Fields[s][i].kind) : g[<<r, 1>>] = h[<<r, 1>>]
    BY <1>0, <1>1, LeftDescends
  <2>2. Fields[s][i].kind \in Kinds
    BY <1>0, <1>1, LayoutType
  <2>3. KindMeaning(Fields[s][i].kind, g) = KindMeaning(Fields[s][i].kind, h)
    BY <2>1, <2>2, KindLocal
  <2> QED BY <1>1, <2>1, <2>3 DEF From, FieldsFrom, s, i
<1>2. CASE i \notin DOMAIN Fields[s]
  BY <1>2 DEF From, FieldsFrom, s, i
<1> QED BY <1>1, <1>2

(* A function that gives each place in E the meaning that it follows has.  *)
Solves(g, E) == g = [p \in E |-> From(p, g)]

(* The recursion of Meaning comes to an end.                               *)
LEMMA MeaningExists ==
  ASSUME NEW size \in [Structs -> Nat], Ends(size), Left(size) \in [Places -> Nat]
  PROVE  \E f : Solves(f, Places)
<1> DEFINE left == Left(size)
<1> HIDE DEF left
<1>1. left \in [Places -> Nat] /\ \A p \in Places : left[p] \in Nat
  BY DEF left
<1>2. \A p \in Places : \A g, h :
        (\A q \in Places : left[q] < left[p] => g[q] = h[q]) => From(p, g) = From(p, h)
  BY FromLocal DEF left
<1> DEFINE Upto(p) == {q \in Places : left[q] <= left[p]}
           good    == {p \in Places : \E g : Solves(g, Upto(p))}
           sol     == [p \in Places |-> CHOOSE g : Solves(g, Upto(p))]
           diag    == [p \in Places |-> sol[p][p]]
<1>3. ASSUME NEW p \in Places, NEW q \in Places, left[q] <= left[p],
             NEW g, Solves(g, Upto(p)), NEW h, Solves(h, Upto(q))
      PROVE  g[q] = h[q]
  <2> DEFINE same == {r \in Places : left[r] <= left[q] => g[r] = h[r]}
  <2>1. ASSUME NEW r \in Places, \A o \in Places : left[o] < left[r] => o \in same
        PROVE  r \in same
    <3> SUFFICES ASSUME left[r] <= left[q] PROVE g[r] = h[r]
      OBVIOUS
    <3>1. g[r] = From(r, g) /\ h[r] = From(r, h)
      <4>1. r \in Upto(p) /\ r \in Upto(q)
        BY <1>1, <1>3
      <4> HIDE DEF Upto
      <4> QED BY <1>3, <4>1 DEF Solves
    <3>2. \A o \in Places : left[o] < left[r] => g[o] = h[o]
      BY <1>1, <2>1
    <3> QED BY <1>2, <3>1, <3>2
  <2> HIDE DEF same
  <2>2. Places \subseteq same
    BY <1>1, <2>1, MeasureInduction
  <2> QED BY <1>1, <2>2 DEF same
<1>4. ASSUME NEW p \in good
      PROVE  Solves(sol[p], Upto(p)) /\ sol[p][p] = From(p, sol[p])
  <2>1. p \in Places /\ \E g : Solves(g, Upto(p))
    OBVIOUS
  <2> HIDE DEF good, sol
  <2>2. p \in Upto(p)
    BY <1>1, <2>1
  <2> HIDE DEF Upto
  <2>3. Solves(sol[p], Upto(p))
    BY <2>1 DEF sol
  <2> QED BY <2>2, <2>3 DEF Solves
<1>5. ASSUME NEW p \in Places, \A q \in Places : left[q] <= left[p] => q \in good
      PROVE  diag[p] = From(p, diag)
  <2> HIDE DEF good, sol
  <2>1. p \in good
    BY <1>1, <1>5
  <2>2. \A q \in Places : left[q] < left[p] => sol[p][q] = diag[q]
    <3> SUFFICES ASSUME NEW q \in Places, left[q] < left[p] PROVE sol[p][q] = diag[q]
      OBVIOUS
    <3>1. q \in good /\ left[q] <= left[p]
      BY <1>1, <1>5
    <3> HIDE DEF Upto
    <3>2. sol[p][q] = sol[q][q]
      BY <1>3, <1>4, <2>1, <3>1
    <3> QED BY <3>2
  <2>3. From(p, sol[p]) = From(p, diag)
    <3> HIDE DEF diag
    <3> QED BY <1>2, <2>2
  <2> QED BY <1>4, <2>1, <2>3
<1>6. ASSUME NEW p \in Places, \A q \in Places : left[q] < left[p] => q \in good
      PROVE  p \in good
  <2> DEFINE g == [q \in Upto(p) |-> From(q, diag)]
  <2>1. ASSUME NEW q \in Upto(p) PROVE From(q, diag) = From(q, g)
    <3>0. q \in Places /\ left[q] <= left[p]
      OBVIOUS
    <3>1. ASSUME NEW r \in Places, left[r] < left[q] PROVE diag[r] = g[r]
      <4> HIDE DEF good, diag
      <4>1. \A o \in Places : left[o] <= left[r] => o \in good
        BY <1>1, <1>6, <3>0, <3>1
      <4>2. r \in Upto(p)
        BY <1>1, <3>0, <3>1
      <4> HIDE DEF Upto
      <4>3. diag[r] = From(r, diag)
        BY <1>5, <4>1
      <4> QED BY <4>2, <4>3
    <3> HIDE DEF diag, g
    <3> QED BY <1>2, <3>0, <3>1
  <2> HIDE DEF diag, Upto
  <2>2. Solves(g, Upto(p))
    BY <2>1 DEF Solves
  <2> HIDE DEF g
  <2> QED BY <2>2
<1> HIDE DEF good, diag
<1>7. Places \subseteq good
  BY <1>1, <1>6, MeasureInduction
<1>8. \A p \in Places : diag[p] = From(p, diag)
  BY <1>5, <1>7
<1>9. diag = [p \in Places |-> From(p, diag)]
  BY <1>8 DEF diag
<1> QED BY <1>9 DEF Solves

(* What the definition of Meaning says, and that it says what values are.  *)
LEMMA MeaningIsDefined ==
  ASSUME LayoutsAreFinite, NEW s \in Structs, NEW i \in Nat
  PROVE  /\ Meaning[<<s, i>>] = FieldsFrom(s, i, Meaning)
         /\ Meaning[<<s, i>>] \in Readings
<1>1. PICK size \in [Structs -> Nat] : Ends(size)
  BY DEF LayoutsAreFinite
<1>2. Left(size) \in [Places -> Nat]
  <2>1. \A p \in Places : p[1] \in Structs /\ p[2] \in Nat
    BY DEF Places
  <2>2. ASSUME NEW p \in Places, p[2] \in DOMAIN Fields[p[1]] PROVE size[p[1]] - p[2] \in Nat
    BY <1>1, <2>1, <2>2, LayoutType DEF Ends
  <2> QED BY <2>2 DEF Left
<1>3. \A p \in Places : Meaning[p] = FieldsFrom(p[1], p[2], Meaning)
  <2>1. PICK f : f = [p \in Structs \X Nat |-> FieldsFrom(p[1], p[2], f)]
    BY <1>1, <1>2, MeaningExists DEF Solves, From, Places
  <2>2. Meaning = [p \in Structs \X Nat |-> FieldsFrom(p[1], p[2], Meaning)]
    BY <2>1 DEF Meaning
  <2> QED BY <2>2 DEF Places
<1> DEFINE typed == {p \in Places : Meaning[p] \in Readings}
<1>4. ASSUME NEW p \in Places, \A q \in Places : Left(size)[q] < Left(size)[p] => q \in typed
      PROVE  p \in typed
  <2>1. p[1] \in Structs /\ p = <<p[1], p[2]>>
    BY DEF Places
  <2>2. CASE p[2] \in DOMAIN Fields[p[1]]
    <3> DEFINE kind == Fields[p[1]][p[2]].kind
    <3>1. kind \in Kinds
      BY <2>1, <2>2, LayoutType
    <3>2. Meaning[<<p[1], p[2] + 1>>] \in Readings
          /\ \A r \in Called(kind) : Meaning[<<r, 1>>] \in Readings
      BY <1>1, <1>4, <2>1, <2>2, LeftDescends
    <3>3. KindMeaning(kind, Meaning) \in Readings
      BY <3>1, <3>2, KindType
    <3> QED BY <1>3, <2>2, <3>2, <3>3, ThenType DEF FieldsFrom
  <2>3. CASE p[2] \notin DOMAIN Fields[p[1]]
    BY <1>3, <2>3, NothingType DEF FieldsFrom
  <2> QED BY <2>2, <2>3
<1> HIDE DEF typed
<1>5. Places \subseteq typed
  BY <1>2, <1>4, MeasureInduction
<1>6. <<s, i>> \in Places
  BY DEF Places
<1>7. <<s, i>>[1] = s /\ <<s, i>>[2] = i
  OBVIOUS
<1> QED BY <1>3, <1>5, <1>6, <1>7 DEF typed
-----------------------------------------------------------------------------
(* The members of S are v followed by what R reads in b.                   *)
Continues(S, v, R, b) == S = After(v, R[b])

(* The next thing is read: it goes behind what was read before. *)
LEMMA ReadOn ==
  ASSUME NEW A \in Readings, NEW C \in Readings, NEW b \in Seq(Byte), NEW n \in 0 .. Len(b),
         NEW v \in Seq(LeafValues), NEW a \in Seq(LeafValues), FirstIs(A, b, n, a),
         NEW S, Continues(S, v, Then(A, C), b)
  PROVE  Continues(S, v \o a, C, Slice(b, n, Len(b)))
<1> DEFINE rest == Slice(b, n, Len(b))
<1>1. rest \in Seq(Byte)
  BY SliceProperties, LenProperties
<1>2. C[rest] \in SUBSET Seq(LeafValues)
  BY <1>1 DEF Readings
<1>3. Then(A, C)[b] = After(a, C[rest])
  BY ReadsOne
<1> HIDE DEF rest
<1>4. After(v, After(a, C[rest])) = After(v \o a, C[rest])
  BY <1>2, AfterAfter
<1> QED BY <1>3, <1>4 DEF Continues, rest

(* The next thing cannot be read: there is no value. *)
LEMMA ReadNot ==
  ASSUME NEW A, NEW C, NEW b \in Seq(Byte), NEW v, NEW S,
         FirstIsNot(A, b), Continues(S, v, Then(A, C), b)
  PROVE  S = {}
<1>1. Then(A, C)[b] = {}
  BY ReadsNone
<1> QED BY <1>1 DEF Continues, After

(* What a union that comes next does to what is read.                      *)
LEMMA ReadUnion ==
  ASSUME NEW u, NEW g, \A tag \in DOMAIN Variants[u] : g[<<Variants[u][tag], 1>>] \in Readings,
         NEW C \in Readings, NEW b \in Seq(Byte), NEW v \in Seq(LeafValues), NEW S,
         Continues(S, v, Then(Either(u, g), C), b)
  PROVE  /\ PrefixLen <= Len(b) /\ PrefixAt(b, 0) \in DOMAIN Variants[u] =>
              Continues(S, v \o Present(Slice(b, 0, PrefixLen)),
                        Then(g[<<Variants[u][PrefixAt(b, 0)], 1>>], C),
                        Slice(b, PrefixLen, Len(b)))
         /\ ~(PrefixLen <= Len(b) /\ PrefixAt(b, 0) \in DOMAIN Variants[u]) => S = {}
<1> DEFINE Arm(tag) == Then(g[<<Variants[u][tag], 1>>], C)
           tag0     == PrefixAt(b, 0)
<1>0. Len(b) \in Nat /\ PrefixLen \in Nat /\ PrefixLen - 0 = PrefixLen /\ 0 <= PrefixLen /\ 0 \in Nat
  BY LenProperties DEF PrefixLen
<1>1. \A x : x \in Then(Either(u, g), C)[b] <=>
               \E tag \in DOMAIN Variants[u] : x \in Then(Tag(tag), Arm(tag))[b]
  BY EitherThen
<1> HIDE DEF Arm
<1>2. ASSUME NEW tag, ~(PrefixLen <= Len(b) /\ tag0 = tag) PROVE Then(Tag(tag), Arm(tag))[b] = {}
  BY <1>2, TagFirst, ReadsNone
<1>3. ASSUME PrefixLen <= Len(b), tag0 \in DOMAIN Variants[u]
      PROVE  Continues(S, v \o Present(Slice(b, 0, PrefixLen)), Arm(tag0), Slice(b, PrefixLen, Len(b)))
  <2>1. Arm(tag0) \in Readings /\ Tag(tag0) \in Readings
    <3>1. g[<<Variants[u][tag0], 1>>] \in Readings
      BY <1>3
    <3> QED BY <3>1, ThenType, TagType DEF Arm
  <2>2. Continues(S, v, Then(Tag(tag0), Arm(tag0)), b)
    <3> HIDE DEF tag0
    <3>1. \A x : x \in Then(Either(u, g), C)[b] <=> x \in Then(Tag(tag0), Arm(tag0))[b]
      BY <1>1, <1>2, <1>3
    <3>2. Then(Either(u, g), C)[b] = Then(Tag(tag0), Arm(tag0))[b]
      BY <3>1
    <3> QED BY <3>2 DEF Continues
  <2>3. PrefixLen \in 0 .. Len(b)
    BY <1>0, <1>3
  <2>4. Slice(b, 0, PrefixLen) \in Seq(Byte)
    BY <1>0, <1>3, SliceProperties
  <2>5. Present(Slice(b, 0, PrefixLen)) \in Seq(LeafValues)
    BY <2>4, PresentIsNotEnded
  <2>6. FirstIs(Tag(tag0), b, PrefixLen, Present(Slice(b, 0, PrefixLen)))
    BY <1>3, TagFirst
  <2> HIDE DEF tag0
  <2> QED BY <2>1, <2>2, <2>3, <2>5, <2>6, ReadOn
<1>4. ASSUME ~(PrefixLen <= Len(b) /\ tag0 \in DOMAIN Variants[u]) PROVE S = {}
  <2>1. \A tag \in DOMAIN Variants[u] : Then(Tag(tag), Arm(tag))[b] = {}
    BY <1>2, <1>4
  <2>2. Then(Either(u, g), C)[b] = {}
    BY <1>1, <2>1
  <2> QED BY <2>2 DEF Continues, After
<1> QED BY <1>3, <1>4 DEF Arm

(* Nothing follows A. *)
LEMMA ThenNothing ==
  ASSUME NEW A \in Readings, NEW b \in Seq(Byte), NEW x
  PROVE  x \in Then(A, Nothing)[b] <=> x \in A[b]
<1>0. Len(b) \in Nat /\ Slice(b, 0, Len(b)) = b /\ Slice(b, Len(b), Len(b)) = << >> /\ << >> \in Seq(Byte)
  BY LenProperties, SliceAll, EmptySlice
<1>1. ASSUME NEW n \in 0 .. Len(b), NEW v, NEW w, Split(A, Nothing, b, x, n, v, w)
      PROVE  x \in A[b]
  <2>0. n \in Nat /\ n <= Len(b) /\ Len(b) <= Len(b)
    BY <1>0
  <2>1. Slice(b, n, Len(b)) \in Seq(Byte) /\ Len(Slice(b, n, Len(b))) = Len(b) - n
    BY <1>0, <2>0, SliceProperties
  <2>2. Slice(b, n, Len(b)) = << >> /\ w = << >>
    BY <1>1, <2>1 DEF Split, Nothing
  <2>3. n = Len(b)
    BY <1>0, <2>1, <2>2, EmptySeq
  <2>4. v \in A[b] /\ x = v \o << >>
    BY <1>0, <1>1, <2>2, <2>3 DEF Split
  <2>5. v \in Seq(LeafValues)
    BY <2>4 DEF Readings
  <2> QED BY <2>4, <2>5, ConcatEmptySeq
<1>2. ASSUME x \in A[b] PROVE Split(A, Nothing, b, x, Len(b), x, << >>)
  <2>1. x \in Seq(LeafValues)
    BY <1>2 DEF Readings
  <2>2. x = x \o << >>
    BY <2>1, ConcatEmptySeq
  <2> QED BY <1>0, <1>2, <2>2 DEF Split, Nothing
<1>3. Len(b) \in 0 .. Len(b)
  BY <1>0
<1> QED BY <1>1, <1>2, <1>3, ThenMembers
=============================================================================
