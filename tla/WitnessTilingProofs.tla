------------------------- MODULE WitnessTilingProofs -------------------------
(***************************************************************************)
(* What the decoder makes of the bytes: the proof that decoded fields tile *)
(* the witness, that absence is final, and that a forged count is          *)
(* harmless, for every layout without a field called `buf`.                *)
(***************************************************************************)
EXTENDS WitnessDecoderProofs

(* No field shadows the local that holds the witness bytes.                *)
NoCapture == \A s \in Structs : \A i \in 1 .. Len(Fields[s]) : Fields[s][i].name # "buf"

(* The leaves tile the bytes up to Reached, absent ones at the very end.   *)
LeafInv ==
  /\ entry.at <= Len(witness.raw)
  /\ Reached \in 0 .. Len(witness.raw)
  /\ \A i \in 1 .. Len(leaves) :
       /\ Spells(witness.raw, leaves[i])
       /\ leaves[i].from = IF i = 1 THEN entry.at ELSE leaves[i - 1].to
       /\ ~leaves[i].some => /\ Reached = Len(witness.raw)
                             /\ \A j \in i .. Len(leaves) : ~leaves[j].some

(* Every call in progress reads the witness bytes, and the innermost one   *)
(* stands where the leaves end.                                            *)
FrameInv ==
  /\ \A d \in 1 .. Len(stack) : stack[d].buf = witness.raw
  /\ stack = << >> => leaves = << >>
  /\ stack # << >> /\ outcome = Pending => Cursor = Reached

(* The loop has read loop.i elements, all of them behind the prefix.       *)
LoopInv ==
  loop.count # 0 =>
    LET start == Reached + PrefixLen
    IN  /\ start + loop.i <= loop.cur
        /\ loop.cur <= Len(witness.raw)
        /\ loop.i <= loop.count
        /\ loop.count = PrefixAt(witness.raw, Reached)
        /\ loop.cur = start + loop.i * Current.kind.of.size
        /\ loop.val = Slice(witness.raw, start, loop.cur)
        /\ loop.cap = IF loop.count <= Len(witness.raw) - start THEN loop.count
                      ELSE Len(witness.raw) - start

OutcomeInv ==
  /\ outcome = Decoded /\ entry.body \in Tops => Reached = Len(witness.raw)
  /\ outcome.status = "err" /\ outcome.error.e = "TrailingBytes"
       => Reached # Len(witness.raw)

Progress == LeafInv /\ FrameInv /\ LoopInv /\ OutcomeInv

LEMMA RawType ==
  ASSUME TypeInv
  PROVE  /\ witness.raw \in Seq(Byte) /\ Len(witness.raw) \in Nat
         /\ entry.at \in Nat
<1>1. witness.raw \in Seq(Byte)
  BY BufferType DEF TypeInv, TypeOK
<1>2. QED
  BY <1>1, LenProperties DEF TypeInv, TypeOK

(* Binding a field, or passing a tag, extends the tiling by one leaf.      *)
LEMMA LeafAppended ==
  ASSUME TypeInv, LeafInv, NEW leaf \in Leaf,
         leaf.from = Reached, Spells(witness.raw, leaf), leaf.some => leaf.from < leaf.to,
         leaves' = Append(leaves, leaf), UNCHANGED <<entry, witness>>
  PROVE  LeafInv' /\ Reached' = leaf.to
<1>1. /\ leaves \in Seq(Leaf) /\ Len(leaves) \in Nat
      /\ leaves = << >> <=> Len(leaves) = 0
  BY LenProperties, EmptySeq DEF TypeInv, TypeOK
<1>2. /\ leaves' # << >> /\ Len(leaves') = Len(leaves) + 1
      /\ \A i \in 1 .. Len(leaves) : leaves'[i] = leaves[i]
      /\ leaves'[Len(leaves) + 1] = leaf
  BY <1>1, AppendProperties
<1>3. Reached' = leaf.to
  BY <1>2 DEF Reached
<1>4. /\ Len(witness.raw) \in Nat /\ Reached \in Nat /\ leaf.to \in Nat
      /\ Reached <= leaf.to /\ leaf.to <= Len(witness.raw)
      /\ ~leaf.some => leaf.to = Len(witness.raw)
  BY RawType DEF LeafInv, Leaf, Spells
<1>5. (entry.at <= Len(witness.raw) /\ Reached \in 0 .. Len(witness.raw))'
  BY <1>3, <1>4, RawType DEF LeafInv
<1>6. Reached = IF Len(leaves) = 0 THEN entry.at ELSE leaves[Len(leaves)].to
  BY <1>1 DEF Reached
<1>7. (\A i \in 1 .. Len(leaves) :
         /\ Spells(witness.raw, leaves[i])
         /\ leaves[i].from = IF i = 1 THEN entry.at ELSE leaves[i - 1].to)'
  <2> SUFFICES ASSUME NEW i \in 1 .. Len(leaves')
               PROVE  /\ Spells(witness.raw, leaves'[i])
                      /\ leaves'[i].from = IF i = 1 THEN entry.at ELSE leaves'[i - 1].to
    OBVIOUS
  <2>1. CASE i \in 1 .. Len(leaves)
    <3>1. leaves'[i] = leaves[i] /\ (i # 1 => leaves'[i - 1] = leaves[i - 1])
      BY <1>1, <1>2, <2>1
    <3>2. QED
      BY <2>1, <3>1 DEF LeafInv
  <2>2. CASE i = Len(leaves) + 1
    BY <1>1, <1>2, <1>6, <2>2
  <2>3. QED
    BY <1>1, <1>2, <2>1, <2>2
<1>8. (\A i \in 1 .. Len(leaves) :
         ~leaves[i].some => /\ Reached = Len(witness.raw)
                            /\ \A j \in i .. Len(leaves) : ~leaves[j].some)'
  <2> SUFFICES ASSUME NEW i \in 1 .. Len(leaves'), ~leaves'[i].some
               PROVE  /\ Reached' = Len(witness.raw)
                      /\ \A j \in i .. Len(leaves') : ~leaves'[j].some
    OBVIOUS
  <2>1. CASE i \in 1 .. Len(leaves)
    <3>1. Reached = Len(witness.raw) /\ \A j \in i .. Len(leaves) : ~leaves[j].some
      BY <1>2, <2>1 DEF LeafInv
    <3>2. ~leaf.some
      BY <1>4, <3>1
    <3>3. QED
      BY <1>1, <1>2, <1>3, <1>4, <2>1, <3>1, <3>2
  <2>2. CASE i = Len(leaves) + 1
    BY <1>1, <1>2, <1>3, <1>4, <2>2
  <2>3. QED
    BY <1>1, <1>2, <2>1, <2>2
<1>9. QED
  BY <1>3, <1>5, <1>7, <1>8 DEF LeafInv

(* A return with an error leaves what was decoded as it is.                *)
LEMMA FailKeepsProgress ==
  ASSUME TypeInv, Progress, NEW e \in Errors, e.e # "TrailingBytes", Fail(e)
  PROVE  Progress'
<1>1. outcome' # Pending /\ outcome' # Decoded /\ outcome'.error = e
  BY DEF Fail, Error, Pending, Decoded
<1>2. LeafInv'
  BY DEF Progress, LeafInv, Fail, Reached
<1>3. FrameInv'
  BY <1>1 DEF Progress, FrameInv, Fail
<1>4. LoopInv'
  BY DEF Progress, LoopInv, Fail, Reached, Current, Layout, Top
<1>5. OutcomeInv'
  BY <1>1 DEF OutcomeInv
<1>6. QED
  BY <1>2, <1>3, <1>4, <1>5 DEF Progress

(* The innermost call reads the witness from where the leaves end.         *)
LEMMA Reading ==
  ASSUME TypeInv, Progress, Running
  PROVE  /\ Buf = witness.raw /\ Cursor = Reached
         /\ Reached \in Nat /\ Reached <= Len(witness.raw)
         /\ Available(Reached) = Len(witness.raw) - Reached
<1>1. stack # << >> /\ Len(stack) \in 1 .. Len(stack)
  BY Innermost DEF Running
<1>2. Buf = witness.raw
  BY <1>1 DEF Progress, FrameInv, Buf, Top
<1>3. Cursor = Reached /\ Reached \in Nat /\ Reached <= Len(witness.raw)
  BY <1>1, RawType DEF Progress, FrameInv, LeafInv, Running
<1>4. QED
  BY <1>2, <1>3 DEF Available

LEMMA BindKeepsProgress ==
  ASSUME NoCapture, TypeInv, Progress, Running, Top.pc <= Len(Layout),
         NEW some \in BOOLEAN, NEW to \in Nat, NEW val \in Seq(Byte),
         Spells(witness.raw, [kind |-> Current.kind, some |-> some,
                              from |-> Cursor, to |-> to, val |-> val]),
         some => Cursor < to,
         Bind(some, Cursor, to, val), loop' = NoLoop
  PROVE  Progress'
<1> DEFINE leaf  == [kind |-> Current.kind, some |-> some, from |-> Cursor, to |-> to,
                     val |-> val]
           frame == [layout |-> Top.layout, pc |-> Top.pc + 1, cursor |-> to,
                     buf |-> IF Current.name = "buf" THEN val ELSE Buf]
<1>1. stack # << >> /\ Cursor = Reached /\ Buf = witness.raw
  BY Reading DEF Running
<1>2. leaf \in Leaf
  BY <1>1, Innermost DEF Leaf
<1>3. LeafInv' /\ Reached' = to
  <2>1. /\ leaf.from = Reached /\ Spells(witness.raw, leaf)
        /\ leaf.some => leaf.from < leaf.to
        /\ leaf.to = to
    BY <1>1
  <2>2. leaves' = Append(leaves, leaf) /\ UNCHANGED <<entry, witness>>
    BY DEF Bind
  <2> HIDE DEF leaf
  <2>3. QED
    BY <1>2, <2>1, <2>2, LeafAppended DEF Progress
<1>4. Current.name # "buf"
  <2>1. Top.layout \in Structs /\ Top.pc \in 1 .. Len(Layout)
    BY <1>1, Innermost
  <2>2. QED
    BY <2>1 DEF NoCapture, Current, Layout
<1>5. /\ stack \in Seq(Frame) /\ Len(stack) \in 1 .. Len(stack)
      /\ frame \in Frame /\ frame.buf = witness.raw /\ frame.cursor = to
  BY <1>1, <1>4, Innermost DEF TypeInv, TypeOK, Frame
<1>6. stack' = [stack EXCEPT ![Len(stack)] = frame]
  BY DEF Bind
<1> HIDE DEF frame
<1>7. /\ Len(stack') = Len(stack)
      /\ \A d \in 1 .. Len(stack) : stack'[d] = IF d = Len(stack) THEN frame ELSE stack[d]
  BY <1>5, <1>6, ExceptSeq
<1>8. UNCHANGED <<entry, witness, outcome>>
  BY DEF Bind
<1>9. FrameInv'
  <2>1. \A d \in 1 .. Len(stack') : stack'[d].buf = witness'.raw
    BY <1>5, <1>7, <1>8 DEF Progress, FrameInv
  <2>2. Cursor' = Reached' /\ stack' # << >>
    BY <1>3, <1>5, <1>7 DEF Cursor, Top
  <2>3. QED
    BY <2>1, <2>2 DEF FrameInv
<1>10. LoopInv'
  BY DEF LoopInv, NoLoop
<1>11. OutcomeInv'
  BY <1>8 DEF OutcomeInv, Running, Pending, Decoded
<1>12. QED
  BY <1>3, <1>9, <1>10, <1>11 DEF Progress

LEMMA ShortKeepsProgress ==
  ASSUME TypeInv, Progress, Len(Buf) \in Nat, NEW at \in Nat, NEW n \in Nat,
         Fail(Short(at, n))
  PROVE  Progress'
<1>1. Short(at, n) \in Errors
  BY ShortIsError
<1>2. Short(at, n).e # "TrailingBytes"
  BY DEF Short, Refusal, IntegerOverflow, FieldTooShort
<1>3. QED
  BY <1>1, <1>2, FailKeepsProgress

(* Taking a slice that spells the field extends the tiling.                *)
LEMMA TakeKeepsProgress ==
  ASSUME NoCapture, TypeInv, Progress, Running, loop.count = 0, Top.pc <= Len(Layout),
         NEW at \in Nat, NEW to \in Nat, at <= to, to <= Len(Buf), Cursor < to,
         Spells(witness.raw, [kind |-> Current.kind, some |-> TRUE,
                              from |-> Cursor, to |-> to,
                              val |-> Slice(witness.raw, at, to)]),
         Take(at, to)
  PROVE  Progress'
<1>1. stack # << >> /\ Buf = witness.raw
  BY Reading DEF Running
<1>2. Slice(Buf, at, to) \in Seq(Byte)
  BY <1>1, Innermost, SliceProperties
<1>3. Bind(TRUE, Cursor, to, Slice(Buf, at, to)) /\ loop' = NoLoop
  BY DEF Take, TypeInv, Shape
<1>4. QED
  BY <1>1, <1>2, <1>3, BindKeepsProgress

LEMMA ReadFixedKeepsProgress ==
  ASSUME NoCapture, TypeInv, Progress, Running, loop.count = 0, Top.pc <= Len(Layout),
         Inner(Current.kind) \in Fixed, ReadFixed(Inner(Current.kind).size)
  PROVE  Progress'
<1> DEFINE n == Inner(Current.kind).size
<1>1. /\ stack # << >> /\ Buf = witness.raw /\ Cursor \in Nat /\ n \in Nat
      /\ Cursor + n \in Nat /\ Cursor <= Cursor + n /\ Len(Buf) \in Nat
      /\ Buf \in Seq(Byte)
  BY Reading, Innermost, FixedSize DEF Running
<1>2. CASE Fits(Cursor, n) /\ Take(Cursor, Cursor + n)
  <2>1. Cursor + n <= Len(Buf)
    BY <1>2 DEF Fits
  <2>2. /\ Cursor < Cursor + n
        /\ Spells(witness.raw, [kind |-> Current.kind, some |-> TRUE,
                                from |-> Cursor, to |-> Cursor + n,
                                val |-> Slice(witness.raw, Cursor, Cursor + n)])
    BY <1>1, <2>1, FixedIsSpelled
  <2>3. QED
    BY <1>1, <1>2, <2>1, <2>2, TakeKeepsProgress
<1>3. CASE Fail(Short(Cursor, n))
  BY <1>1, <1>3, ShortKeepsProgress
<1>4. QED
  BY <1>2, <1>3 DEF ReadFixed

LEMMA ReadVarBytesKeepsProgress ==
  ASSUME NoCapture, TypeInv, Progress, Running, loop.count = 0, Top.pc <= Len(Layout),
         Inner(Current.kind) = VarBytes, ReadVarBytes
  PROVE  Progress'
<1> DEFINE start == Cursor + PrefixLen
           len   == PrefixAt(Buf, Cursor)
<1>1. /\ stack # << >> /\ Buf = witness.raw /\ Cursor \in Nat /\ PrefixLen \in Nat
      /\ start \in Nat /\ Len(Buf) \in Nat /\ Buf \in Seq(Byte)
  BY Reading, Innermost DEF Running, PrefixLen
<1>2. Fits(Cursor, PrefixLen) => len \in Nat
  BY <1>1, PrefixType DEF Fits
<1>3. CASE Fail(Short(Cursor, PrefixLen))
  BY <1>1, <1>3, ShortKeepsProgress
<1>4. CASE Fits(Cursor, PrefixLen) /\ Fail(Short(start, len))
  BY <1>1, <1>2, <1>4, ShortKeepsProgress
<1>5. CASE Fits(Cursor, PrefixLen) /\ Fits(start, len) /\ Take(start, start + len)
  <2>1. start + len \in Nat /\ start <= start + len /\ start + len <= Len(Buf)
        /\ start <= Len(Buf)
    BY <1>1, <1>2, <1>5 DEF Fits
  <2>2. /\ Cursor < start + len
        /\ Spells(witness.raw, [kind |-> Current.kind, some |-> TRUE,
                                from |-> Cursor, to |-> start + len,
                                val |-> Slice(witness.raw, start, start + len)])
    BY <1>1, <2>1, VarBytesAreSpelled
  <2>3. QED
    BY <1>1, <1>5, <2>1, <2>2, TakeKeepsProgress
<1>6. QED
  BY <1>3, <1>4, <1>5 DEF ReadVarBytes, Sliced, Fits

LEMMA AtFieldRuns ==
  ASSUME TypeInv, NEW tags, AtField(tags)
  PROVE  Running /\ loop.count = 0 /\ Top.pc <= Len(Layout)
  BY DEF AtField

LEMMA DecodeFixedKeepsProgress ==
  ASSUME NoCapture, TypeInv, Progress, DecodeFixed
  PROVE  Progress'
<1>1. Current.kind \in Fixed /\ Inner(Current.kind) = Current.kind
  BY AtFieldFacts, KindCases DEF DecodeFixed, Inner
<1>2. QED
  BY <1>1, AtFieldRuns, ReadFixedKeepsProgress DEF DecodeFixed

LEMMA DecodeVarBytesKeepsProgress ==
  ASSUME NoCapture, TypeInv, Progress, DecodeVarBytes
  PROVE  Progress'
<1>1. Inner(Current.kind) = VarBytes
  BY AtFieldFacts, KindCases DEF DecodeVarBytes, Inner, VarBytes
<1>2. QED
  BY <1>1, AtFieldRuns, ReadVarBytesKeepsProgress DEF DecodeVarBytes

LEMMA DecodeAbsentKeepsProgress ==
  ASSUME NoCapture, TypeInv, Progress, DecodeAbsent
  PROVE  Progress'
<1>1. Running /\ loop.count = 0 /\ Top.pc <= Len(Layout) /\ Current.kind.k = "opt"
  BY AtFieldRuns, AtFieldFacts DEF DecodeAbsent
<1>2. /\ stack # << >> /\ Buf = witness.raw /\ Cursor \in Nat
      /\ Cursor = Len(witness.raw) /\ witness.raw \in Seq(Byte)
  BY <1>1, Reading, RawType DEF Running, DecodeAbsent
<1>3. Bind(FALSE, Cursor, Cursor, << >>) /\ loop' = NoLoop
  BY <1>1 DEF DecodeAbsent, TypeInv, Shape
<1>4. Spells(witness.raw, [kind |-> Current.kind, some |-> FALSE, from |-> Cursor,
                           to |-> Cursor, val |-> << >>])
  BY <1>1, <1>2, AbsenceIsSpelled
<1>5. << >> \in Seq(Byte)
  OBVIOUS
<1>6. QED
  BY <1>1, <1>2, <1>3, <1>4, <1>5, BindKeepsProgress

LEMMA DecodePresentKeepsProgress ==
  ASSUME NoCapture, TypeInv, Progress, DecodePresent
  PROVE  Progress'
<1> DEFINE of   == Current.kind.of
           byte == [k |-> "scalar", size |-> 1]
<1>1. /\ Running /\ loop.count = 0 /\ Top.pc <= Len(Layout)
      /\ Inner(Current.kind) = of
  BY AtFieldRuns, AtFieldFacts DEF DecodePresent, Inner
<1>2. /\ Buf = witness.raw /\ Cursor \in Nat /\ Len(Buf) \in Nat /\ Cursor < Len(Buf)
      /\ Buf \in Seq(Byte)
  BY <1>1, Reading, Innermost DEF DecodePresent, Running
<1>3. CASE of = VarBytes /\ ReadVarBytes
  BY <1>1, <1>3, ReadVarBytesKeepsProgress
<1>4. CASE of \in Fixed /\ ReadFixed(of.size)
  BY <1>1, <1>4, ReadFixedKeepsProgress
<1>5. CASE Fail(IntegerOverflow)
  BY <1>5, FailKeepsProgress DEF Errors, IntegerOverflow
<1>6. CASE of = byte /\ Take(Cursor, Cursor + 1)
  <2>1. /\ Inner(Current.kind) \in Fixed /\ Inner(Current.kind).size = 1
        /\ Cursor + 1 \in Nat /\ Cursor <= Cursor + 1 /\ Cursor + 1 <= Len(Buf)
    BY <1>1, <1>2, <1>6 DEF Fixed, Scalars
  <2>2. /\ Cursor < Cursor + 1
        /\ Spells(witness.raw, [kind |-> Current.kind, some |-> TRUE,
                                from |-> Cursor, to |-> Cursor + 1,
                                val |-> Slice(witness.raw, Cursor, Cursor + 1)])
    BY <1>2, <2>1, FixedIsSpelled
  <2>3. QED
    BY <1>1, <1>2, <1>6, <2>1, <2>2, TakeKeepsProgress
<1>7. QED
  BY <1>3, <1>4, <1>5, <1>6 DEF DecodePresent

LEMMA DecodeVecCountKeepsProgress ==
  ASSUME TypeInv, Progress, DecodeVecCount
  PROVE  Progress'
<1> DEFINE start == Cursor + PrefixLen
           count == PrefixAt(Buf, Cursor)
<1>1. /\ Running /\ Buf = witness.raw /\ Cursor = Reached
      /\ Cursor \in Nat /\ PrefixLen \in Nat /\ start \in Nat /\ Len(Buf) \in Nat
      /\ Buf \in Seq(Byte)
  BY AtFieldRuns, Reading, Innermost DEF DecodeVecCount, Running, PrefixLen
<1>2. Current.kind.of.size \in Nat
  BY AtFieldFacts, KindCases DEF DecodeVecCount
<1>3. CASE Fail(Short(Cursor, PrefixLen))
  BY <1>1, <1>3, ShortKeepsProgress
<1>4. CASE Fail(InvalidVectorCount)
  BY <1>4, FailKeepsProgress DEF Errors, InvalidVectorCount
<1>5. CASE /\ Fits(Cursor, PrefixLen)
           /\ loop' = [count |-> count, i |-> 0, cur |-> start, val |-> << >>,
                       cap |-> IF count <= Available(start) THEN count
                               ELSE Available(start)]
           /\ UNCHANGED <<entry, witness, stack, leaves, outcome>>
  <2>1. start <= Len(witness.raw) /\ Available(start) = Len(witness.raw) - start
    BY <1>1, <1>5 DEF Fits, Available
  <2>2. count \in Nat
    BY <1>1, <2>1, PrefixType
  <2>3. Slice(witness.raw, start, start) = << >>
    BY <1>1, SubSeqEmpty DEF Slice
  <2>4. start = start + 0 * Current.kind.of.size
    BY <1>1, <1>2
  <2>5. UNCHANGED <<Reached, Current>>
    BY <1>5 DEF Reached, Current, Layout, Top
  <2>6. LoopInv'
    BY <1>1, <1>5, <2>1, <2>2, <2>3, <2>4, <2>5 DEF LoopInv
  <2>7. LeafInv' /\ FrameInv' /\ OutcomeInv'
    BY <1>5, <2>5 DEF Progress, LeafInv, FrameInv, OutcomeInv, Cursor, Top
  <2>8. QED
    BY <2>6, <2>7 DEF Progress
<1>6. QED
  BY <1>3, <1>4, <1>5 DEF DecodeVecCount, Sliced, Fits

LEMMA DecodeVecElementKeepsProgress ==
  ASSUME TypeInv, Progress, DecodeVecElement
  PROVE  Progress'
<1> DEFINE n     == Current.kind.of.size
           start == Reached + PrefixLen
           raw   == witness.raw
<1>1. /\ Running /\ loop.count # 0 /\ loop.i < loop.count
      /\ Buf = raw /\ Reached \in Nat /\ start \in Nat
      /\ raw \in Seq(Byte) /\ Len(raw) \in Nat
  BY Reading, RawType DEF DecodeVecElement, PrefixLen
<1>2. /\ n \in Nat \ {0} /\ loop.count \in Nat /\ loop.i \in Nat /\ loop.cur \in Nat
      /\ loop.cap \in Nat
  BY <1>1, InLoop DEF Loop
<1>3. CASE Fail(Refusal(loop.cur, n, VecElementsTooShort(loop.i)))
  <2>1. /\ Refusal(loop.cur, n, VecElementsTooShort(loop.i)) \in Errors
        /\ Refusal(loop.cur, n, VecElementsTooShort(loop.i)).e # "TrailingBytes"
    BY <1>2 DEF Refusal, VecElementsTooShort, IntegerOverflow, Errors
  <2>2. QED
    BY <1>3, <2>1, FailKeepsProgress
<1>4. CASE /\ Fits(loop.cur, n) /\ loop' = NextElement(n)
           /\ UNCHANGED <<entry, witness, stack, leaves, outcome>>
  <2>1. /\ loop.cur + n \in Nat /\ loop.cur + n <= Len(raw)
        /\ start + loop.i <= loop.cur
        /\ loop.val = Slice(raw, start, loop.cur)
    BY <1>1, <1>2, <1>4 DEF Fits, Progress, LoopInv
  <2>2. loop.cur = start + loop.i * n
    BY <1>1 DEF Progress, LoopInv
  <2>3. Slice(raw, start, loop.cur) \o Slice(raw, loop.cur, loop.cur + n)
          = Slice(raw, start, loop.cur + n)
    <3> DEFINE mid == loop.cur
               to  == loop.cur + n
    <3>1. /\ raw \in Seq(Byte) /\ start \in Nat /\ mid \in Nat /\ to \in Nat
          /\ start <= mid /\ mid <= to /\ to <= Len(raw)
      BY <1>1, <1>2, <2>1
    <3> HIDE DEF start, raw, mid, to
    <3>2. Slice(raw, start, mid) \o Slice(raw, mid, to) = Slice(raw, start, to)
      BY <3>1, SlicesMeet
    <3>3. QED
      BY <3>2 DEF mid, to
  <2>4. loop.cur + n = start + (loop.i + 1) * n
    <3>1. \A m \in Nat, k \in Nat : (m + 1) * k = m * k + k
      OBVIOUS
    <3>2. loop.i * n \in Nat
      <4>1. \A m \in Nat, k \in Nat : m * k \in Nat
        OBVIOUS
      <4>2. QED
        BY <1>2, <4>1
    <3>3. (loop.i + 1) * n = loop.i * n + n
      BY <1>2, <3>1
    <3>4. QED
      BY <1>1, <1>2, <2>2, <3>2, <3>3
  <2>5. /\ loop'.count = loop.count /\ loop'.i = loop.i + 1 /\ loop'.cur = loop.cur + n
        /\ loop'.cap = loop.cap /\ loop'.val = Slice(raw, start, loop.cur + n)
    BY <1>1, <1>4, <2>1, <2>3 DEF NextElement
  <2>6. UNCHANGED <<Reached, Current, witness>>
    BY <1>4 DEF Reached, Current, Layout, Top
  <2>7. start + loop'.i <= loop'.cur /\ loop'.cur <= Len(raw) /\ loop'.i <= loop'.count
    <3> HIDE DEF start, n, raw
    <3>1. QED
      BY <1>1, <1>2, <2>1, <2>5
  <2>8. LoopInv'
    BY <1>1, <2>4, <2>5, <2>6, <2>7 DEF Progress, LoopInv
  <2>9. LeafInv' /\ FrameInv' /\ OutcomeInv'
    BY <1>4, <2>6 DEF Progress, LeafInv, FrameInv, OutcomeInv, Cursor, Top
  <2>10. QED
    BY <2>8, <2>9 DEF Progress
<1>5. QED
  BY <1>3, <1>4 DEF DecodeVecElement, PushElement, Sliced, Fits

LEMMA FinishVecKeepsProgress ==
  ASSUME NoCapture, TypeInv, Progress, FinishVec
  PROVE  Progress'
<1> DEFINE start == Cursor + PrefixLen
           raw   == witness.raw
<1>1. /\ Running /\ loop.count # 0 /\ loop.i = loop.count
      /\ Bind(TRUE, Cursor, loop.cur, loop.val) /\ loop' = NoLoop
  BY DEF FinishVec
<1>2. /\ Top.pc <= Len(Layout) /\ Current.kind.k = "vec"
      /\ Current.kind.of.size \in Nat
      /\ loop.cur \in Nat /\ loop.val \in Seq(Byte) /\ loop.i \in Nat
  BY <1>1, InLoop DEF Loop
<1>3. Cursor = Reached /\ Cursor \in Nat /\ raw \in Seq(Byte) /\ Len(raw) \in Nat
  BY <1>1, Reading, RawType
<1>4. /\ start + loop.i <= loop.cur /\ loop.cur <= Len(raw)
      /\ PrefixAt(raw, Cursor) # 0
      /\ loop.cur = start + PrefixAt(raw, Cursor) * Current.kind.of.size
      /\ loop.val = Slice(raw, start, loop.cur)
  BY <1>1, <1>3 DEF Progress, LoopInv
<1>5. start <= Len(raw)
  BY <1>2, <1>3, <1>4 DEF PrefixLen
<1>6. /\ Cursor < loop.cur
      /\ Spells(raw, [kind |-> Current.kind, some |-> TRUE, from |-> Cursor,
                      to |-> loop.cur, val |-> loop.val])
  BY <1>2, <1>3, <1>4, <1>5, VecIsSpelled
<1>7. QED
  BY <1>1, <1>2, <1>6, BindKeepsProgress

(* A frame put on top of frames that read the witness reads it too.        *)
LEMMA FramesRead ==
  ASSUME NEW s \in Seq(Frame), NEW raw, \A d \in 1 .. Len(s) : s[d].buf = raw,
         NEW frame \in Frame, frame.buf = raw
  PROVE  /\ \A d \in 1 .. Len(Append(s, frame)) : Append(s, frame)[d].buf = raw
         /\ Append(s, frame)[Len(Append(s, frame))] = frame
         /\ Append(s, frame) # << >>
<1>1. /\ Len(Append(s, frame)) = Len(s) + 1
      /\ \A d \in 1 .. Len(s) : Append(s, frame)[d] = s[d]
      /\ Append(s, frame)[Len(s) + 1] = frame
      /\ Append(s, frame) # << >>
  BY AppendProperties
<1>2. Len(s) \in Nat
  BY LenProperties
<1>3. QED
  BY <1>1, <1>2

LEMMA DecodeNestedKeepsProgress ==
  ASSUME TypeInv, Progress, DecodeNested
  PROVE  Progress'
<1> DEFINE frame == Enter(Current.kind.path, Cursor)
<1>1. /\ Running /\ stack # << >> /\ loop.count = 0
      /\ Current.kind.path \in Structs
  BY AtFieldRuns, AtFieldFacts, KindCases DEF DecodeNested
<1>2. /\ Buf = witness.raw /\ Cursor = Reached /\ Cursor \in Nat
      /\ frame \in Frame /\ frame.buf = witness.raw /\ frame.cursor = Reached
  BY <1>1, Reading, Innermost, EnterIsFrame DEF Enter
<1> HIDE DEF frame
<1>3. stack' = Append(stack, frame) /\ UNCHANGED <<entry, witness, loop, leaves, outcome>>
  BY DEF DecodeNested, frame
<1>4. stack \in Seq(Frame) /\ \A d \in 1 .. Len(stack) : stack[d].buf = witness.raw
  BY DEF TypeInv, TypeOK, Progress, FrameInv
<1>5. /\ \A d \in 1 .. Len(stack') : stack'[d].buf = witness.raw
      /\ stack'[Len(stack')] = frame /\ stack' # << >>
  BY <1>2, <1>3, <1>4, FramesRead
<1>6. FrameInv'
  BY <1>2, <1>3, <1>5 DEF FrameInv, Cursor, Top, Reached
<1>7. LoopInv'
  BY <1>1, <1>3 DEF LoopInv
<1>8. LeafInv' /\ OutcomeInv'
  BY <1>3 DEF Progress, LeafInv, OutcomeInv, Reached
<1>9. QED
  BY <1>6, <1>7, <1>8 DEF Progress

LEMMA DecodeUnionKeepsProgress ==
  ASSUME TypeInv, Progress, DecodeUnion
  PROVE  Progress'
<1> DEFINE end   == Cursor + PrefixLen
           tag   == PrefixAt(Buf, Cursor)
           arms  == Variants[Current.kind.path]
           on    == Resume(Top, Top.pc, end)
           moved == [stack EXCEPT ![Len(stack)] = on]
           frame == Enter(arms[tag], end)
           leaf  == [kind |-> UnionTag, some |-> TRUE, from |-> Cursor, to |-> end,
                     val |-> Slice(Buf, Cursor, end)]
<1>1. /\ Running /\ stack # << >> /\ loop.count = 0 /\ Current.kind.path \in Unions
  BY AtFieldRuns, AtFieldFacts, KindCases DEF DecodeUnion
<1>2. /\ Buf = witness.raw /\ Cursor = Reached /\ Cursor \in Nat /\ end \in Nat
      /\ PrefixLen \in Nat /\ Len(Buf) \in Nat /\ Buf \in Seq(Byte)
  BY <1>1, Reading, Innermost DEF PrefixLen
<1>3. on \in Frame /\ on.buf = witness.raw
  BY <1>1, <1>2, Innermost DEF Resume, Frame, Buf
<1>4. /\ moved \in Seq(Frame)
      /\ \A d \in 1 .. Len(moved) : moved[d].buf = witness.raw
      /\ moved # << >>
  <2>1. stack \in Seq(Frame) /\ Len(stack) \in 1 .. Len(stack) /\ Len(stack) \in Nat \ {0}
    BY <1>1, Innermost DEF TypeInv, TypeOK
  <2>2. /\ moved \in Seq(Frame) /\ Len(moved) = Len(stack)
        /\ \A d \in 1 .. Len(stack) : moved[d] = IF d = Len(stack) THEN on ELSE stack[d]
    BY <1>3, <2>1, ExceptSeq
  <2>3. QED
    BY <1>3, <2>1, <2>2 DEF Progress, FrameInv
<1>5. CASE Fail(Short(Cursor, PrefixLen))
  BY <1>2, <1>5, ShortKeepsProgress
<1>6. CASE /\ outcome' = Error(UnknownUnionTypeId(tag))
           /\ stack' = moved /\ UNCHANGED <<entry, witness, loop, leaves>>
  <2>1. outcome' # Pending /\ outcome' # Decoded /\ outcome'.error.e # "TrailingBytes"
    BY <1>6 DEF Error, UnknownUnionTypeId, Pending, Decoded
  <2>2. FrameInv'
    BY <1>4, <1>6, <2>1 DEF FrameInv
  <2>3. LeafInv' /\ LoopInv' /\ OutcomeInv'
    BY <1>1, <1>6, <2>1 DEF Progress, LeafInv, LoopInv, OutcomeInv, Reached
  <2>4. QED
    BY <2>2, <2>3 DEF Progress
<1>7. CASE /\ Fits(Cursor, PrefixLen) /\ tag \in DOMAIN arms
           /\ stack' = Append(moved, frame) /\ leaves' = Append(leaves, leaf)
           /\ UNCHANGED <<entry, witness, loop, outcome>>
  <2>1. end <= Len(Buf) /\ arms[tag] \in Structs
    BY <1>1, <1>7, SchemaAssumption DEF Fits
  <2>2. frame \in Frame /\ frame.buf = witness.raw /\ frame.cursor = end
    BY <1>1, <1>2, <2>1, EnterIsFrame DEF Enter
  <2>3. leaf.from < leaf.to /\ Spells(witness.raw, leaf)
    BY <1>2, <2>1, TagIsSpelled
  <2>4. leaf \in Leaf /\ leaf.from = Reached /\ leaf.to = end
    <3>1. Cursor <= end
      BY <1>2
    <3>2. Slice(Buf, Cursor, end) \in Seq(Byte)
      BY <1>2, <2>1, <3>1, SliceProperties
    <3>3. QED
      BY <1>2, <3>2 DEF Leaf
  <2> HIDE DEF leaf, frame, moved
  <2>5. LeafInv' /\ Reached' = end
    BY <1>7, <2>3, <2>4, LeafAppended DEF Progress
  <2>6. /\ \A d \in 1 .. Len(stack') : stack'[d].buf = witness.raw
        /\ stack'[Len(stack')] = frame /\ stack' # << >>
    BY <1>4, <1>7, <2>2, FramesRead
  <2>7. FrameInv'
    BY <1>7, <2>2, <2>5, <2>6 DEF FrameInv, Cursor, Top
  <2>8. LoopInv' /\ OutcomeInv'
    BY <1>1, <1>7 DEF LoopInv, OutcomeInv, Running, Pending, Decoded
  <2>9. QED
    BY <2>5, <2>7, <2>8 DEF Progress
<1>8. QED
  BY <1>5, <1>6, <1>7 DEF DecodeUnion, Sliced, Fits

LEMMA ReturnNestedKeepsProgress ==
  ASSUME TypeInv, Progress, ReturnNested
  PROVE  Progress'
<1> DEFINE below == SubSeq(stack, 1, Len(stack) - 2)
           back  == Resume(Calling, Calling.pc + 1, Cursor)
           raw   == witness.raw
<1>1. Running /\ stack # << >> /\ loop.count = 0 /\ Len(stack) > 1
  BY DEF ReturnNested, Exhausted, Running
<1>2. /\ stack \in Seq(Frame) /\ Len(stack) \in Nat
      /\ Cursor = Reached /\ Cursor \in Nat
  BY <1>1, Innermost, Reading DEF TypeInv, TypeOK
<1>3. back \in Frame /\ back.buf = raw /\ back.cursor = Reached
  <2>1. Calling \in Frame /\ Calling.buf = raw
    BY <1>1, <1>2, ElementOfSeq DEF Calling, Progress, FrameInv
  <2>2. QED
    BY <1>2, <2>1 DEF Resume, Frame
<1>4. below \in Seq(Frame) /\ \A d \in 1 .. Len(below) : below[d].buf = raw
  <2>1. \A d \in 1 .. Len(stack) - 2 : stack[d] \in Frame /\ stack[d].buf = raw
    BY <1>2, ElementOfSeq DEF Progress, FrameInv
  <2>2. /\ below \in Seq(Frame)
        /\ Len(below) = IF 1 <= Len(stack) - 2 THEN Len(stack) - 2 ELSE 0
        /\ \A d \in 1 .. Len(stack) - 2 : below[d] = stack[d]
    <3>1. /\ 1 \in Int /\ Len(stack) - 2 \in Int
          /\ (Len(stack) - 2) - 1 + 1 = Len(stack) - 2
          /\ \A d \in Int : 1 + d - 1 = d
      BY <1>2
    <3>2. QED
      BY <2>1, <3>1, SubSeqProperties
  <2>3. QED
    BY <1>1, <1>2, <2>1, <2>2
<1>5. stack' = Append(below, back) /\ UNCHANGED <<entry, witness, loop, leaves, outcome>>
  BY DEF ReturnNested
<1> HIDE DEF below, back
<1>6. /\ \A d \in 1 .. Len(stack') : stack'[d].buf = raw
      /\ stack'[Len(stack')] = back /\ stack' # << >>
  BY <1>3, <1>4, <1>5, FramesRead
<1>7. FrameInv'
  BY <1>3, <1>5, <1>6 DEF FrameInv, Cursor, Top, Reached
<1>8. LeafInv' /\ LoopInv' /\ OutcomeInv'
  BY <1>1, <1>5 DEF Progress, LeafInv, LoopInv, OutcomeInv, Reached
<1>9. QED
  BY <1>7, <1>8 DEF Progress

LEMMA BeginKeepsProgress ==
  ASSUME TypeInv, Progress, Begin
  PROVE  Progress'
<1>1. /\ stack' = <<[layout |-> entry.body, pc |-> 1, cursor |-> entry.at,
                     buf |-> witness.raw]>>
      /\ UNCHANGED <<entry, witness, loop, leaves, outcome>>
      /\ stack = << >> /\ leaves = << >>
  BY DEF Begin, Progress, FrameInv
<1>2. /\ Len(stack') = 1 /\ stack'[1].buf = witness.raw /\ stack'[1].cursor = entry.at
      /\ stack' # << >>
  BY <1>1
<1>3. Reached = entry.at /\ Reached' = entry.at
  BY <1>1 DEF Reached
<1>4. FrameInv'
  BY <1>1, <1>2, <1>3 DEF FrameInv, Cursor, Top
<1>5. loop.count = 0
  BY <1>1 DEF TypeInv, Shape
<1>6. LeafInv' /\ LoopInv' /\ OutcomeInv'
  BY <1>1, <1>3, <1>5 DEF Progress, LeafInv, LoopInv, OutcomeInv
<1>7. QED
  BY <1>4, <1>6 DEF Progress

(* from_witness_args compares the end of the leaves with the end of the    *)
(* bytes; a call made by hand compares nothing.                            *)
LEMMA ReturnKeepsProgress ==
  ASSUME TypeInv, Progress, ReturnTop \/ ReturnToCaller
  PROVE  Progress'
<1>1. Running /\ Cursor = Reached /\ Buf = witness.raw
  <2>1. Running
    BY DEF ReturnTop, ReturnToCaller, Exhausted
  <2>2. QED
    BY <2>1, Reading
<1>2. UNCHANGED <<entry, witness, stack, loop, leaves>>
  BY DEF ReturnTop, ReturnToCaller
<1>3. LeafInv' /\ LoopInv'
  BY <1>2 DEF Progress, LeafInv, LoopInv, Reached, Current, Layout, Top
<1>4. outcome' # Pending
  BY DEF ReturnTop, ReturnToCaller, Decoded, Error, Pending
<1>5. FrameInv'
  BY <1>2, <1>4 DEF Progress, FrameInv
<1>6. OutcomeInv'
  <2>1. CASE ReturnTop
    <3>1. CASE Cursor = Len(Buf)
      BY <1>1, <1>2, <2>1, <3>1 DEF ReturnTop, OutcomeInv, Decoded, Reached
    <3>2. CASE Cursor # Len(Buf)
      BY <1>1, <1>2, <2>1, <3>2 DEF ReturnTop, OutcomeInv, Error, Decoded, Reached
    <3>3. QED
      BY <3>1, <3>2
  <2>2. CASE ReturnToCaller
    <3>1. entry'.body \notin Tops /\ outcome'.status = "ok"
      BY <1>2, <2>2, EntryAssumption DEF ReturnToCaller, Decoded
    <3>2. QED
      BY <3>1 DEF OutcomeInv
  <2>3. QED
    BY <2>1, <2>2
<1>7. QED
  BY <1>3, <1>5, <1>6 DEF Progress

LEMMA InitProgress == Init => Progress
<1> SUFFICES ASSUME Init PROVE Progress
  OBVIOUS
<1>1. entry.at \in Nat /\ entry.at <= Len(witness.raw) /\ Len(witness.raw) \in Nat
  <2>1. witness.raw \in Buffers \cup {<< >>}
    BY DEF Init
  <2>2. witness.raw \in Seq(Byte)
    BY <2>1, BufferType
  <2>3. Len(witness.raw) \in Nat
    BY <2>2, LenProperties
  <2>4. QED
    BY <2>3 DEF Init
<1>2. Reached = entry.at /\ Len(leaves) = 0 /\ Len(stack) = 0
  BY DEF Init, Reached
<1>3. LeafInv
  BY <1>1, <1>2 DEF LeafInv
<1>4. FrameInv /\ LoopInv /\ OutcomeInv
  BY <1>2 DEF Init, FrameInv, LoopInv, OutcomeInv, NoLoop, Pending, Decoded
<1>5. QED
  BY <1>3, <1>4 DEF Progress

LEMMA NextKeepsProgress ==
  ASSUME NoCapture
  PROVE  TypeInv /\ Progress /\ [Next]_vars => Progress'
<1> SUFFICES ASSUME TypeInv, Progress, [Next]_vars PROVE Progress'
  OBVIOUS
<1>1. CASE LoadFails
  <2>1. \E e \in {Load, MissingLockField} : Fail(e)
    BY <1>1 DEF LoadFails
  <2>2. \A e \in {Load, MissingLockField} : e \in Errors /\ e.e # "TrailingBytes"
    BY DEF Load, MissingLockField, Errors
  <2>3. QED
    BY <2>1, <2>2, FailKeepsProgress
<1>2. CASE Begin
  BY <1>2, BeginKeepsProgress
<1>3. CASE DecodeFixed
  BY <1>3, DecodeFixedKeepsProgress
<1>4. CASE DecodeVarBytes
  BY <1>4, DecodeVarBytesKeepsProgress
<1>5. CASE DecodeAbsent
  BY <1>5, DecodeAbsentKeepsProgress
<1>6. CASE DecodePresent
  BY <1>6, DecodePresentKeepsProgress
<1>7. CASE DecodeVecCount
  BY <1>7, DecodeVecCountKeepsProgress
<1>8. CASE DecodeVecElement
  BY <1>8, DecodeVecElementKeepsProgress
<1>9. CASE FinishVec
  BY <1>9, FinishVecKeepsProgress
<1>10. CASE DecodeNested
  BY <1>10, DecodeNestedKeepsProgress
<1>11. CASE DecodeUnion
  BY <1>11, DecodeUnionKeepsProgress
<1>12. CASE ReturnNested
  BY <1>12, ReturnNestedKeepsProgress
<1>13. CASE ReturnTop \/ ReturnToCaller
  BY <1>13, ReturnKeepsProgress
<1>14. CASE UNCHANGED vars
  BY <1>14 DEF vars, Progress, LeafInv, FrameInv, LoopInv, OutcomeInv,
     Reached, Cursor, Current, Layout, Top
<1>15. QED
  BY <1>1, <1>2, <1>3, <1>4, <1>5, <1>6, <1>7, <1>8, <1>9, <1>10, <1>11, <1>12,
     <1>13, <1>14 DEF Next, Returned

(* The decoded fields cover the witness from the start of the call without *)
(* a gap or an overlap, each from bytes that spell it, and an accepted     *)
(* witness to its last byte.                                               *)
THEOREM DecoderTiles ==
  ASSUME NoCapture
  PROVE  Spec => []Tiling
<1>1. TypeInv /\ Progress => Tiling
  <2> SUFFICES ASSUME TypeInv, Progress PROVE Tiling
    OBVIOUS
  <2>1. DOMAIN leaves = 1 .. Len(leaves)
    BY LenProperties DEF TypeInv, TypeOK
  <2>2. QED
    BY <2>1 DEF Tiling, Progress, LeafInv, OutcomeInv
<1>2. Init => Progress
  BY InitProgress
<1>3. TypeInv /\ Progress /\ [Next]_vars => Progress'
  BY NextKeepsProgress
<1>4. QED
  BY <1>1, <1>2, <1>3, InitType, NextKeepsType, PTL DEF Spec

(* An absent Option is followed by absent Options only, and never by a     *)
(* report of trailing bytes.                                               *)
THEOREM AbsentToTheEnd ==
  ASSUME NoCapture
  PROVE  Spec => []AbsenceIsFinal
<1>1. TypeInv /\ Progress => AbsenceIsFinal
  <2> SUFFICES ASSUME TypeInv, Progress PROVE AbsenceIsFinal
    OBVIOUS
  <2>1. DOMAIN leaves = 1 .. Len(leaves)
    BY LenProperties DEF TypeInv, TypeOK
  <2>2. QED
    BY <2>1 DEF AbsenceIsFinal, Progress, LeafInv, OutcomeInv
<1>2. Init => Progress
  BY InitProgress
<1>3. TypeInv /\ Progress /\ [Next]_vars => Progress'
  BY NextKeepsProgress
<1>4. QED
  BY <1>1, <1>2, <1>3, InitType, NextKeepsType, PTL DEF Spec

(* A forged element count buys no iteration and no allocation beyond the   *)
(* bytes that follow it.                                                   *)
THEOREM VectorsStayInBounds ==
  ASSUME NoCapture
  PROVE  Spec => []ForgedCountIsHarmless
<1>1. TypeInv /\ Progress => ForgedCountIsHarmless
  <2> SUFFICES ASSUME TypeInv, Progress, loop.count # 0
               PROVE  /\ loop.i <= loop.cap
                      /\ loop.cap <= Len(witness.raw) - (Reached + PrefixLen)
    BY DEF ForgedCountIsHarmless
  <2> DEFINE room == Len(witness.raw) - (Reached + PrefixLen)
  <2>1. /\ loop.i \in Nat /\ loop.count \in Nat /\ loop.cur \in Nat
        /\ Len(witness.raw) \in Nat /\ Reached \in Nat /\ PrefixLen \in Nat
    BY RawType, InLoop DEF Loop, Progress, LeafInv, PrefixLen
  <2>2. /\ (Reached + PrefixLen) + loop.i <= loop.cur /\ loop.cur <= Len(witness.raw)
        /\ loop.i <= loop.count
        /\ loop.cap = IF loop.count <= room THEN loop.count ELSE room
    BY DEF Progress, LoopInv
  <2>3. QED
    BY <2>1, <2>2
<1>2. Init => Progress
  BY InitProgress
<1>3. TypeInv /\ Progress /\ [Next]_vars => Progress'
  BY NextKeepsProgress
<1>4. QED
  BY <1>1, <1>2, <1>3, InitType, NextKeepsType, PTL DEF Spec

(* A slice is shorter than usize::MAX: an end that overflows is beyond it. *)
LEMMA SliceFitsUsize ==
  ASSUME TypeInv
  PROVE  Len(witness.raw) <= UsizeMax /\ UsizeMax \in Nat
<1>1. UsizeMax \in Nat /\ UsizeMax \div 2 <= UsizeMax
  BY WidthAssumption
<1>2. witness.raw \in Buffers \cup {<< >>}
  BY DEF TypeInv, TypeOK
<1>3. \A b \in Buffers : Len(b) <= UsizeMax \div 2
  BY EntryAssumption
<1>4. CASE witness.raw \in Buffers
  BY <1>1, <1>3, <1>4, RawType
<1>5. CASE witness.raw = << >>
  BY <1>1, <1>5
<1>6. QED
  BY <1>1, <1>2, <1>4, <1>5

(* An error leaves what it speaks of in its place.                         *)
LEMMA FailFacts ==
  ASSUME NEW e, Fail(e)
  PROVE  /\ outcome'.status = "err" /\ outcome'.error = e
         /\ UNCHANGED <<Reached, Current, witness>>
  BY DEF Fail, Error, Reached, Current, Layout, Top

(* The bytes of a field, or of a prefix, that starts where the leaves end. *)
LEMMA ShortAtCursor ==
  ASSUME TypeInv, Progress, Running, Top.pc <= Len(Layout),
         NEW n \in Nat, ~Fits(Cursor, n), Fail(Short(Cursor, n)),
         n = HeadLen(Inner(Current.kind))
  PROVE  ErrorIsTruthful'
<1> DEFINE raw  == witness.raw
           left == Len(raw) - Reached
           kind == Inner(Current.kind)
<1>1. /\ Buf = raw /\ Cursor = Reached /\ Reached \in Nat /\ Reached <= Len(raw)
      /\ Len(raw) \in Nat /\ Len(raw) <= UsizeMax /\ UsizeMax \in Nat
      /\ Available(Cursor) = left
  BY Reading, RawType, SliceFitsUsize
<1>2. CASE Cursor + n > UsizeMax
  <2>1. Short(Cursor, n) = IntegerOverflow
    BY <1>2 DEF Short, Refusal
  <2>2. left < n
    BY <1>1, <1>2
  <2>3. left < PrefixLen \/ PayloadTo(raw, kind, Reached) > Len(raw)
    <3>1. CASE n = PrefixLen
      BY <2>2, <3>1
    <3>2. CASE kind.k \in {"scalar", "array"} /\ n = kind.size
      <4>1. PayloadTo(raw, kind, Reached) = Reached + n
        BY <3>2 DEF PayloadTo
      <4>2. QED
        BY <1>1, <2>2, <4>1
    <3>3. QED
      BY <3>1, <3>2 DEF HeadLen
  <2>4. QED
    BY <2>1, <2>3, FailFacts DEF ErrorIsTruthful, IntegerOverflow
<1>3. CASE ~(Cursor + n > UsizeMax)
  <2>1. Short(Cursor, n) = FieldTooShort(n, left)
    BY <1>1, <1>3 DEF Short, Refusal
  <2>2. left < n
    BY <1>1, <1>3 DEF Fits
  <2>3. QED
    BY <2>1, <2>2, FailFacts DEF ErrorIsTruthful, FieldTooShort
<1>4. QED
  BY <1>2, <1>3

(* The bytes behind a length prefix.                                       *)
LEMMA ShortAfterPrefix ==
  ASSUME TypeInv, Progress, Running, Top.pc <= Len(Layout), Inner(Current.kind) = VarBytes,
         Fits(Cursor, PrefixLen), ~Fits(Cursor + PrefixLen, PrefixAt(Buf, Cursor)),
         Fail(Short(Cursor + PrefixLen, PrefixAt(Buf, Cursor)))
  PROVE  ErrorIsTruthful'
<1> DEFINE raw   == witness.raw
           left  == Len(raw) - Reached
           kind  == Inner(Current.kind)
           start == Cursor + PrefixLen
           n     == PrefixAt(Buf, Cursor)
<1>1. /\ Buf = raw /\ Cursor = Reached /\ Reached \in Nat /\ Reached <= Len(raw)
      /\ raw \in Seq(Byte) /\ Len(raw) \in Nat /\ Len(raw) <= UsizeMax /\ UsizeMax \in Nat
      /\ PrefixLen \in Nat
  BY Reading, RawType, SliceFitsUsize DEF PrefixLen
<1>2. start <= Len(raw) /\ n \in Nat
  BY <1>1, PrefixType DEF Fits
<1>3. CASE start + n > UsizeMax
  <2>1. Short(start, n) = IntegerOverflow
    BY <1>3 DEF Short, Refusal
  <2>2. PayloadTo(raw, kind, Reached) = start + n
    BY <1>1 DEF PayloadTo, VarBytes
  <2>3. PayloadTo(raw, kind, Reached) > Len(raw)
    BY <1>1, <1>2, <1>3, <2>2
  <2>4. QED
    BY <2>1, <2>3, FailFacts DEF ErrorIsTruthful, IntegerOverflow
<1>4. CASE ~(start + n > UsizeMax)
  <2>1. Short(start, n) = FieldTooShort(n, left - PrefixLen)
    BY <1>1, <1>2, <1>4 DEF Short, Refusal, Available
  <2>2. left - PrefixLen < n
    BY <1>1, <1>2, <1>4 DEF Fits
  <2>3. QED
    BY <1>1, <2>1, <2>2, FailFacts DEF ErrorIsTruthful, FieldTooShort
<1>5. QED
  BY <1>3, <1>4

(* The count that is zero.                                                 *)
LEMMA CountIsTruthful ==
  ASSUME TypeInv, Progress, Running, Top.pc <= Len(Layout), Current.kind.k = "vec",
         Fits(Cursor, PrefixLen), PrefixAt(Buf, Cursor) = 0, Fail(InvalidVectorCount)
  PROVE  ErrorIsTruthful'
<1>1. /\ Buf = witness.raw /\ Cursor = Reached /\ Reached \in Nat
      /\ Len(witness.raw) \in Nat /\ PrefixLen \in Nat
  BY Reading, RawType DEF PrefixLen
<1>2. PrefixLen <= Len(witness.raw) - Reached
  BY <1>1 DEF Fits
<1>3. QED
  BY <1>1, <1>2, FailFacts DEF ErrorIsTruthful, InvalidVectorCount

LEMMA ElementsAdd ==
  /\ \A m \in Nat, k \in Nat : m * k \in Nat /\ (m + 1) * k = m * k + k
  /\ \A m \in Nat, l \in Nat, k \in Nat : m <= l => m * k <= l * k
  OBVIOUS

(* Where an element that does not fit ends, and where the vector would.    *)
LEMMA ElementPastEnd ==
  ASSUME NEW at \in Nat, NEW used \in Nat, NEW n \in Nat, NEW all \in Nat,
         NEW len \in Nat, NEW max \in Nat, NEW p \in Nat,
         len <= max, at + p + used <= len, used + n <= all,
         ~(at + p + used + n <= max /\ at + p + used + n <= len)
  PROVE  /\ at + p + all > len
         /\ at + p + used + n <= max => /\ p + used <= len - at
                                       /\ len - at < p + (used + n)
  OBVIOUS

(* The element that does not fit, and the ones that did.                   *)
LEMMA ElementIsTruthful ==
  ASSUME TypeInv, Progress, Running, loop.count # 0, loop.i < loop.count,
         ~Fits(loop.cur, Current.kind.of.size),
         Fail(Refusal(loop.cur, Current.kind.of.size, VecElementsTooShort(loop.i)))
  PROVE  ErrorIsTruthful'
<1> DEFINE raw   == witness.raw
           left  == Len(raw) - Reached
           n     == Current.kind.of.size
           start == Reached + PrefixLen
           used  == loop.i * n
           all   == loop.count * n
<1>1. /\ Buf = raw /\ Reached \in Nat /\ Len(raw) \in Nat
      /\ Len(raw) <= UsizeMax /\ UsizeMax \in Nat /\ PrefixLen \in Nat
  BY Reading, RawType, SliceFitsUsize DEF PrefixLen
<1>2. /\ n \in Nat /\ loop.count \in Nat /\ loop.i \in Nat /\ loop.cur \in Nat
      /\ Current.kind.k = "vec"
  BY InLoop DEF Loop
<1>3. /\ loop.cur = start + used /\ loop.cur <= Len(raw)
      /\ loop.count = PrefixAt(raw, Reached)
  BY DEF Progress, LoopInv
<1>4. /\ used \in Nat /\ all \in Nat /\ (loop.i + 1) * n = used + n
      /\ used + n <= all
  <2>1. loop.i + 1 \in Nat /\ loop.i + 1 <= loop.count
    BY <1>2
  <2>2. QED
    BY <1>2, <2>1, ElementsAdd
<1>5. PayloadTo(raw, Inner(Current.kind), Reached) = start + all
  BY <1>2, <1>3 DEF PayloadTo, Inner
<1> HIDE DEF used, all
<1>6. /\ start + all > Len(raw)
      /\ loop.cur + n <= UsizeMax => /\ PrefixLen + used <= left
                                     /\ left < PrefixLen + (used + n)
  <2>1. ~(Reached + PrefixLen + used + n <= UsizeMax /\ Reached + PrefixLen + used + n <= Len(raw))
    BY <1>1, <1>3 DEF Fits
  <2>2. Reached + PrefixLen + used <= Len(raw)
    BY <1>3
  <2> HIDE DEF raw, n
  <2>3. QED
    BY ONLY <1>1, <1>2, <1>3, <1>4, <2>1, <2>2, ElementPastEnd
<1>7. CASE loop.cur + n > UsizeMax
  <2>1. Refusal(loop.cur, n, VecElementsTooShort(loop.i)) = IntegerOverflow
    BY <1>7 DEF Refusal
  <2>2. start + all > Len(raw)
    BY <1>6
  <2>3. QED
    BY <1>5, <2>1, <2>2, FailFacts DEF ErrorIsTruthful, IntegerOverflow
<1>8. CASE ~(loop.cur + n > UsizeMax)
  <2>1. Refusal(loop.cur, n, VecElementsTooShort(loop.i)) = VecElementsTooShort(loop.i)
    BY <1>8 DEF Refusal
  <2>2. PrefixLen + used <= left /\ left < PrefixLen + (used + n)
    BY <1>1, <1>2, <1>8, <1>6
  <2>3. /\ loop.i < PrefixAt(raw, Reached)
        /\ PrefixLen + loop.i * n <= left
        /\ left < PrefixLen + (loop.i + 1) * n
    BY <1>3, <1>4, <2>2 DEF used
  <2>4. QED
    BY <2>1, <2>3, FailFacts DEF ErrorIsTruthful, VecElementsTooShort
<1>9. QED
  BY <1>7, <1>8

(* The tag without an arm; the cursor that moved past it does not matter.  *)
LEMMA TagIsTruthful ==
  ASSUME TypeInv, Progress, DecodeUnion
  PROVE  ErrorIsTruthful'
<1> DEFINE end  == Cursor + PrefixLen
           tag  == PrefixAt(Buf, Cursor)
           on   == Resume(Top, Top.pc, end)
           moved == [stack EXCEPT ![Len(stack)] = on]
<1>1. /\ Running /\ stack # << >> /\ Top.pc <= Len(Layout)
      /\ HeadLen(Inner(Current.kind)) = PrefixLen
  BY AtFieldRuns, AtFieldFacts DEF DecodeUnion, HeadLen, Inner
<1>2. Buf = witness.raw /\ Cursor = Reached /\ PrefixLen \in Nat
  BY <1>1, Reading DEF PrefixLen
<1>3. CASE ~Fits(Cursor, PrefixLen) /\ Fail(Short(Cursor, PrefixLen))
  BY <1>1, <1>2, <1>3, ShortAtCursor
<1>4. CASE /\ tag \notin DOMAIN Variants[Current.kind.path]
           /\ outcome' = Error(UnknownUnionTypeId(tag))
           /\ stack' = moved
           /\ UNCHANGED <<entry, witness, loop, leaves>>
  <2>1. stack'[Len(stack')].layout = Top.layout /\ stack'[Len(stack')].pc = Top.pc
    <3>1. stack \in Seq(Frame) /\ Len(stack) \in 1 .. Len(stack)
      BY <1>1, Innermost DEF TypeInv, TypeOK
    <3>2. on \in Frame
      BY <1>1, <1>2, Innermost DEF Resume, Frame
    <3> HIDE DEF on
    <3>3. Len(moved) = Len(stack) /\ moved[Len(stack)] = on
      BY <3>1, <3>2, ExceptSeq
    <3>4. QED
      BY <1>4, <3>3 DEF on, Resume
  <2>2. UNCHANGED <<Current, Reached, witness>>
    BY <1>4, <2>1 DEF Current, Layout, Top, Reached
  <2>3. outcome'.status = "err" /\ outcome'.error = UnknownUnionTypeId(tag)
    BY <1>4 DEF Error
  <2>4. QED
    BY <1>2, <1>4, <2>2, <2>3 DEF ErrorIsTruthful, UnknownUnionTypeId
<1>5. CASE UNCHANGED outcome
  BY <1>1, <1>5 DEF ErrorIsTruthful, Running, Pending
<1>6. QED
  BY <1>3, <1>4, <1>5 DEF DecodeUnion, Sliced, Fits

(* A field that is bound makes no error.                                   *)
LEMMA TakeIsTruthful ==
  ASSUME Running, NEW at, NEW to, Take(at, to)
  PROVE  ErrorIsTruthful'
<1>1. outcome' = Pending \/ outcome' = Panic
  BY DEF Take, Panics, Bind, Running
<1>2. QED
  BY <1>1 DEF ErrorIsTruthful, Pending, Panic

LEMMA ReadVarBytesIsTruthful ==
  ASSUME TypeInv, Progress, Running, Top.pc <= Len(Layout), Inner(Current.kind) = VarBytes,
         ReadVarBytes
  PROVE  ErrorIsTruthful'
<1>1. PrefixLen \in Nat /\ HeadLen(Inner(Current.kind)) = PrefixLen
  BY DEF PrefixLen, HeadLen, VarBytes
<1>2. CASE ~Fits(Cursor, PrefixLen) /\ Fail(Short(Cursor, PrefixLen))
  BY <1>1, <1>2, ShortAtCursor
<1>3. CASE /\ Fits(Cursor, PrefixLen) /\ ~Fits(Cursor + PrefixLen, PrefixAt(Buf, Cursor))
           /\ Fail(Short(Cursor + PrefixLen, PrefixAt(Buf, Cursor)))
  BY <1>3, ShortAfterPrefix
<1>4. CASE Take(Cursor + PrefixLen, Cursor + PrefixLen + PrefixAt(Buf, Cursor))
  BY <1>4, TakeIsTruthful
<1>5. QED
  BY <1>2, <1>3, <1>4 DEF ReadVarBytes, Sliced, Fits

LEMMA ReadFixedIsTruthful ==
  ASSUME TypeInv, Progress, Running, Top.pc <= Len(Layout),
         Inner(Current.kind) \in Fixed, ReadFixed(Inner(Current.kind).size)
  PROVE  ErrorIsTruthful'
<1>1. /\ Inner(Current.kind).size \in Nat
      /\ HeadLen(Inner(Current.kind)) = Inner(Current.kind).size
  BY FixedSize DEF HeadLen
<1>2. QED
  BY <1>1, ShortAtCursor, TakeIsTruthful DEF ReadFixed

LEMMA DecodePresentIsTruthful ==
  ASSUME TypeInv, Progress, DecodePresent
  PROVE  ErrorIsTruthful'
<1> DEFINE of   == Current.kind.of
           byte == [k |-> "scalar", size |-> 1]
<1>1. /\ Running /\ Top.pc <= Len(Layout) /\ Inner(Current.kind) = of
  BY AtFieldRuns, AtFieldFacts DEF DecodePresent, Inner
<1>2. CASE of = VarBytes /\ ReadVarBytes
  BY <1>1, <1>2, ReadVarBytesIsTruthful
<1>3. CASE of \in Fixed /\ ReadFixed(of.size)
  BY <1>1, <1>3, ReadFixedIsTruthful
<1>4. CASE of = byte /\ Cursor + 1 > UsizeMax
  <2>1. /\ Cursor \in Nat /\ Cursor < Len(witness.raw)
        /\ Len(witness.raw) \in Nat /\ Len(witness.raw) <= UsizeMax /\ UsizeMax \in Nat
    BY <1>1, Reading, RawType, SliceFitsUsize DEF DecodePresent
  <2>2. QED
    BY <1>4, <2>1
<1>5. CASE Take(Cursor, Cursor + 1)
  BY <1>1, <1>5, TakeIsTruthful
<1>6. QED
  BY <1>2, <1>3, <1>4, <1>5 DEF DecodePresent

(* Whatever step the decoder takes from a state it can be in, the error it *)
(* may return is true: a fact about single steps, given the progress made. *)
LEMMA NextIsTruthful ==
  TypeInv /\ Progress /\ ErrorIsTruthful /\ [Next]_vars => ErrorIsTruthful'
<1> SUFFICES ASSUME TypeInv, Progress, ErrorIsTruthful, [Next]_vars
             PROVE  ErrorIsTruthful'
  OBVIOUS
<1> USE DEF PrefixLen
<1>1. CASE LoadFails
  <2>1. \E e \in {Load, MissingLockField} : Fail(e)
    BY <1>1 DEF LoadFails
  <2>2. QED
    BY <2>1, FailFacts DEF ErrorIsTruthful, Load, MissingLockField
<1>2. CASE outcome' = outcome /\ outcome = Pending
  BY <1>2 DEF ErrorIsTruthful, Pending
<1>3. CASE DecodeFixed
  <2>1. Current.kind \in Fixed /\ Inner(Current.kind) = Current.kind
    BY <1>3, AtFieldFacts, KindCases DEF DecodeFixed, Inner
  <2>2. QED
    BY <1>3, <2>1, AtFieldRuns, ReadFixedIsTruthful DEF DecodeFixed
<1>4. CASE DecodeVarBytes
  <2>1. Inner(Current.kind) = VarBytes
    BY <1>4, AtFieldFacts, KindCases DEF DecodeVarBytes, Inner, VarBytes
  <2>2. QED
    BY <1>4, <2>1, AtFieldRuns, ReadVarBytesIsTruthful DEF DecodeVarBytes
<1>5. CASE DecodePresent
  BY <1>5, DecodePresentIsTruthful
<1>6. CASE DecodeVecCount
  <2>1. Running /\ Top.pc <= Len(Layout) /\ Current.kind.k = "vec"
    BY <1>6, AtFieldRuns, AtFieldFacts DEF DecodeVecCount
  <2>2. CASE ~Fits(Cursor, PrefixLen) /\ Fail(Short(Cursor, PrefixLen))
    <3>1. PrefixLen \in Nat /\ HeadLen(Inner(Current.kind)) = PrefixLen
      BY <2>1 DEF HeadLen, Inner
    <3>2. QED
      BY <2>1, <2>2, <3>1, ShortAtCursor
  <2>3. CASE /\ Fits(Cursor, PrefixLen) /\ PrefixAt(Buf, Cursor) = 0
             /\ Fail(InvalidVectorCount)
    BY <2>1, <2>3, CountIsTruthful
  <2>4. CASE UNCHANGED outcome
    BY <1>2, <2>1, <2>4 DEF Running
  <2>5. QED
    BY <1>6, <2>2, <2>3, <2>4 DEF DecodeVecCount, Sliced, Fits
<1>7. CASE DecodeVecElement
  <2>1. /\ Running /\ loop.count # 0 /\ loop.i < loop.count
        /\ \/ /\ ~Fits(loop.cur, Current.kind.of.size)
              /\ Fail(Refusal(loop.cur, Current.kind.of.size, VecElementsTooShort(loop.i)))
           \/ UNCHANGED outcome
    BY <1>7 DEF DecodeVecElement, PushElement, Sliced, Fits
  <2>2. QED
    BY <1>2, <2>1, ElementIsTruthful DEF Running
<1>8. CASE DecodeUnion
  BY <1>8, TagIsTruthful
<1>9. CASE ReturnTop \/ ReturnToCaller
  <2>1. CASE outcome' = Decoded
    BY <2>1 DEF ErrorIsTruthful, Decoded
  <2>2. CASE Cursor # Len(Buf) /\ outcome' = Error(TrailingBytes(Cursor, Len(Buf)))
    <3>1. /\ Running /\ Reached' = Reached /\ witness' = witness
      BY <1>9 DEF ReturnTop, ReturnToCaller, Exhausted, Reached
    <3>2. /\ Buf = witness.raw /\ Cursor = Reached /\ Reached \in Nat
          /\ Reached < Len(witness.raw)
      BY <2>2, <3>1, Reading, RawType
    <3>3. outcome'.error = TrailingBytes(Reached, Len(witness.raw))
      BY <2>2, <3>2 DEF Error
    <3>4. QED
      BY <3>1, <3>2, <3>3 DEF ErrorIsTruthful, TrailingBytes
  <2>3. QED
    BY <1>9, <2>1, <2>2 DEF ReturnTop, ReturnToCaller
<1>10. CASE Begin \/ DecodeAbsent \/ FinishVec \/ DecodeNested \/ ReturnNested
  <2>1. outcome' = outcome /\ outcome = Pending
    BY <1>10 DEF Begin, DecodeAbsent, FinishVec, DecodeNested, ReturnNested, Bind,
       AtField, Exhausted, Running
  <2>2. QED
    BY <1>2, <2>1
<1>11. CASE UNCHANGED vars
  BY <1>11 DEF vars, ErrorIsTruthful, Reached, Current, Layout, Top
<1>12. QED
  BY <1>1, <1>3, <1>4, <1>5, <1>6, <1>7, <1>8, <1>9, <1>10, <1>11 DEF Next, Returned

(* Every error tells the truth about the witness: the bytes it calls       *)
(* missing, the element that does not fit, the tag without an arm.         *)
THEOREM ErrorsTellTheTruth ==
  ASSUME NoCapture
  PROVE  Spec => []ErrorIsTruthful
<1>1. Init => Progress /\ ErrorIsTruthful
  BY InitProgress DEF Init, ErrorIsTruthful, Pending
<1>2. TypeInv /\ Progress /\ [Next]_vars => Progress'
  BY NextKeepsProgress
<1>3. QED
  BY <1>1, <1>2, NextIsTruthful, InitType, NextKeepsType, PTL DEF Spec
=============================================================================
