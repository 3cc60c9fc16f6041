----------------------------- MODULE FieldProofs -----------------------------
(***************************************************************************)
(* Unknown fields, skipped and kept, for every nesting limit: skip_field   *)
(* agrees with decode_unknown_field, neither changes its verdict when more *)
(* bytes arrive, both refuse exactly the nesting above the limit, and what *)
(* is kept is written back and read again as it was.  Both walk forward    *)
(* through the buffer, so everything is shown from its end towards its     *)
(* start.                                                                  *)
(***************************************************************************)
EXTENDS PackedProofs, FieldReader

(* Induction from the end of a buffer: what holds at a position when it    *)
(* holds at every later one.                                               *)
LEMMA BackwardInduction ==
  ASSUME NEW N \in Nat, NEW T,
         \A p \in Nat : (p < N => \A q \in Nat : q > p => q \in T) => p \in T
  PROVE  Nat \subseteq T
<1> DEFINE U == {n \in Nat : \A p \in Nat : p + n >= N => p \in T}
<1>1. 0 \in U
  OBVIOUS
<1>2. ASSUME NEW n \in Nat, n \in U PROVE n + 1 \in U
  <2> SUFFICES ASSUME NEW p \in Nat, p + (n + 1) >= N PROVE p \in T
    OBVIOUS
  <2>1. \A q \in Nat : q > p => q \in T
    <3> SUFFICES ASSUME NEW q \in Nat, q > p PROVE q \in T
      OBVIOUS
    <3>1. q + n >= N
      OBVIOUS
    <3> QED BY <1>2, <3>1
  <2> QED BY <2>1
<1>3. Nat \subseteq U
  <2> HIDE DEF U
  <2> QED BY <1>1, <1>2, SetInduction
<1>4. N \in U
  BY <1>3
<1>5. \A p \in Nat : p + N >= N
  OBVIOUS
<1> QED BY <1>4, <1>5

(* A tag found at a position: it lies in the buffer. *)
TagFound(b, p, t) ==
    t.ok => /\ t.val.number \in Nat /\ t.val.wire \in WireTypes
            /\ t.used \in Nat /\ t.used >= 1
            /\ p + t.used \in Nat /\ p + t.used > p /\ p < Len(b)

LEMMA TagStep ==
  ASSUME NEW b \in Seq(Byte), NEW p \in Nat
  PROVE  TagFound(b, p, DecodeTag(From(b, p)))
<1> DEFINE f == From(b, p)
           t == DecodeTag(f)
<1> SUFFICES ASSUME t.ok PROVE TagFound(b, p, t)
  BY DEF TagFound
<1>1. f \in Seq(Byte) /\ Len(f) = (IF p <= Len(b) THEN Len(b) - p ELSE 0)
  BY FromIs
<1>2. PICK number \in 1 .. Pow2[NumberWidth] - 1, c \in 0 .. 5, n \in 1 .. Len(f) :
         t = Ok(Tag(number, WireTypeOf[c]), n)
  <2> HIDE DEF f
  <2> QED BY <1>1, TagRead
<1>3. /\ t.val.number = number /\ t.val.wire = WireTypeOf[c] /\ t.used = n
  BY <1>2 DEF Ok, Tag
<1>4. number \in Nat
  BY Widths, Pow2Type
<1>5. WireTypeOf[c] \in WireTypes
  BY WireCodes
<1>6. n \in Nat /\ n >= 1 /\ p < Len(b)
  <2>1. Len(b) \in Nat
    OBVIOUS
  <2> HIDE DEF f
  <2> QED BY <1>1, <2>1
<1> HIDE DEF t
<1> QED BY <1>3, <1>4, <1>5, <1>6 DEF TagFound

LEMMA WireNames ==
  WireTypes = {"Varint", "Fixed64", "LengthDelimited", "StartGroup", "EndGroup", "Fixed32"}
<1>1. DOMAIN WireTypeOf = 0 .. 5
  BY DEF WireTypeOf
<1>2. /\ WireTypeOf[0] = "Varint" /\ WireTypeOf[1] = "Fixed64" /\ WireTypeOf[2] = "LengthDelimited"
      /\ WireTypeOf[3] = "StartGroup" /\ WireTypeOf[4] = "EndGroup" /\ WireTypeOf[5] = "Fixed32"
  BY DEF WireTypeOf
<1>3. WireTypes = {WireTypeOf[c] : c \in 0 .. 5}
  BY <1>1 DEF WireTypes
<1> QED BY <1>2, <1>3

(* An answer that, if it is a value, ends at pos or later, or after pos. *)
Reaches(answer, pos) == answer.ok => answer.used \in Nat /\ answer.used >= pos
Passes(answer, pos) == answer.ok => answer.used \in Nat /\ answer.used > pos

LEMMA VarintReaches == ASSUME NEW b \in Seq(Byte) PROVE Reaches(DecodeVarint(b), 0)
<1> SUFFICES ASSUME DecodeVarint(b).ok PROVE Reaches(DecodeVarint(b), 0)
  BY DEF Reaches
<1>1. PICK v \in 0 .. Pow2[Width] - 1, n \in 1 .. Len(b) : DecodeVarint(b) = Ok(v, n)
  BY VarintRead
<1>2. n \in Nat /\ n >= 0
  OBVIOUS
<1> QED BY <1>1, <1>2 DEF Ok, Reaches

LEMMA DelimitedReaches ==
  ASSUME NEW b \in Seq(Byte)
  PROVE  Reaches(Delimited(b), 0) /\ Reaches(Content(b), 0)
<1>1. CASE ~Delimited(b).ok
  BY <1>1 DEF Content, Then, Reaches
<1>2. CASE Delimited(b).ok
  <2>1. PICK start \in Nat, end \in Nat : end <= Len(b) /\ Delimited(b) = Ok(start, end)
    BY <1>2, DelimitedRead
  <2>2. Content(b) = IF end < start THEN Fail("panic") ELSE Ok(SubSeq(b, start + 1, end), end)
    BY <2>1 DEF Content, Then, Ok
  <2>3. ~Fail("panic").ok
    BY DEF Fail
  <2> QED BY <2>1, <2>2, <2>3 DEF Reaches, Ok
<1> QED BY <1>1, <1>2

LEMMA PlainReaches ==
  ASSUME NEW b \in Seq(Byte), NEW wire \in WireTypes, wire # "StartGroup"
  PROVE  Reaches(SkipPlain(b, wire), 0) /\ Reaches(DecodePlain(b, wire), 0)
<1>1. Reaches(DecodeFixed64(b), 0) /\ Reaches(DecodeFixed32(b), 0)
  BY WidthsAssumption DEF DecodeFixed64, DecodeFixed32, DecodeFixed, Ok, Fail, Reaches
<1>2. Reaches(DecodeVarint(b), 0) /\ Reaches(Delimited(b), 0) /\ Reaches(Content(b), 0)
  BY VarintReaches, DelimitedReaches
<1>3. Reaches(Ok("skipped", 0), 0) /\ Reaches(Fail("Custom"), 0)
  BY DEF Reaches, Ok, Fail
<1>4. wire \in {"Varint", "Fixed64", "LengthDelimited", "EndGroup", "Fixed32"}
  BY WireNames
<1> QED BY <1>1, <1>2, <1>3, <1>4 DEF SkipPlain, DecodePlain

-----------------------------------------------------------------------------
(* One turn of skip_field's loop over a group, when f answers for the      *)
(* turns after it and for the groups inside.                               *)
SkipTurn(b, f, limit, p) ==
    LET tag == DecodeTag(From(b, p))
        at == p + tag.used
        value == SkipValue(b, at, tag.val.wire, limit, f)
    IN  IF ~tag.ok THEN tag
        ELSE IF tag.val.wire = "EndGroup" THEN Ok("skipped", at)
        ELSE IF ~value.ok THEN value
        ELSE f[limit][value.used]

IsSkip(b, f) == \A limit \in Nat, p \in Nat : f[limit][p] = SkipTurn(b, f, limit, p)

LEMMA SkipSolved ==
  ASSUME NEW b, NEW f, f = [limit \in Nat |-> [p \in Nat |-> SkipTurn(b, f, limit, p)]]
  PROVE  IsSkip(b, SkipGroup(b))
<1> DEFINE Turn(g, limit, p) == AfterTag(b, p, LAMBDA tag, at :
            IF tag.wire = "EndGroup" THEN Ok("skipped", at)
            ELSE Then(SkipValue(b, at, tag.wire, limit, g),
                      LAMBDA skipped, next : g[limit][next]))
           G(g) == [limit \in Nat |-> [pos \in Nat |-> Turn(g, limit, pos)]]
           R == CHOOSE g : g = G(g)
<1>1. \A g : \A limit \in Nat, p \in Nat : Turn(g, limit, p) = SkipTurn(b, g, limit, p)
  BY DEF AfterTag, Then, SkipTurn
<1>2. SkipGroup(b) = R
  BY DEF SkipGroup
<1> HIDE DEF Turn
<1>3. \A g : G(g) = [limit \in Nat |-> [p \in Nat |-> SkipTurn(b, g, limit, p)]]
  BY <1>1
<1>4. f = G(f)
  <2> HIDE DEF G
  <2> QED BY <1>3
<1>5. R = G(R)
  <2> HIDE DEF G
  <2> QED BY <1>4
<1>6. R = [limit \in Nat |-> [p \in Nat |-> SkipTurn(b, R, limit, p)]]
  <2> HIDE DEF G, R
  <2> QED BY <1>3, <1>5
<1> HIDE DEF R
<1>7. IsSkip(b, R)
  <2> SUFFICES ASSUME NEW limit \in Nat, NEW p \in Nat
               PROVE  R[limit][p] = SkipTurn(b, R, limit, p)
    BY DEF IsSkip
  <2>1. R[limit] = [q \in Nat |-> SkipTurn(b, R, limit, q)]
    BY <1>6
  <2> QED BY <2>1
<1> QED BY <1>2, <1>7

(* f moves on wherever it is asked after p. *)
SkipAhead(f, p) == \A limit \in Nat, q \in Nat : q > p => Passes(f[limit][q], q)

LEMMA SkipValueIs ==
  ASSUME NEW b, NEW pos, NEW wire, NEW limit, NEW f
  PROVE  SkipValue(b, pos, wire, limit, f) =
            IF wire = "StartGroup"
            THEN IF limit = 0 THEN Fail("RecursionLimitExceeded") ELSE f[limit - 1][pos]
            ELSE IF SkipPlain(From(b, pos), wire).ok
                 THEN Ok("skipped", pos + SkipPlain(From(b, pos), wire).used)
                 ELSE SkipPlain(From(b, pos), wire)
BY DEF SkipValue, Then

LEMMA SkipValueReaches ==
  ASSUME NEW b \in Seq(Byte), NEW p \in Nat, NEW at \in Nat, at > p,
         NEW wire \in WireTypes, NEW limit \in Nat, NEW f, SkipAhead(f, p)
  PROVE  Reaches(SkipValue(b, at, wire, limit, f), at)
<1>1. CASE wire = "StartGroup"
  <2>1. limit # 0 => Passes(f[limit - 1][at], at)
    BY DEF SkipAhead
  <2> QED BY <1>1, <2>1, SkipValueIs DEF Passes, Reaches, Fail
<1>2. CASE wire # "StartGroup"
  <2> DEFINE s == SkipPlain(From(b, at), wire)
  <2>1. Reaches(s, 0)
    BY <1>2, FromIs, PlainReaches
  <2>2. SkipValue(b, at, wire, limit, f) = IF s.ok THEN Ok("skipped", at + s.used) ELSE s
    BY <1>2, SkipValueIs
  <2> HIDE DEF s
  <2> QED BY <2>1, <2>2 DEF Reaches, Ok
<1> QED BY <1>1, <1>2

LEMMA SkipTurnPasses ==
  ASSUME NEW b \in Seq(Byte), NEW p \in Nat, NEW limit \in Nat, NEW f, SkipAhead(f, p)
  PROVE  Passes(SkipTurn(b, f, limit, p), p)
<1> DEFINE tag == DecodeTag(From(b, p))
           at == p + tag.used
           value == SkipValue(b, at, tag.val.wire, limit, f)
<1>1. SkipTurn(b, f, limit, p) =
         IF ~tag.ok THEN tag
         ELSE IF tag.val.wire = "EndGroup" THEN Ok("skipped", at)
         ELSE IF ~value.ok THEN value
         ELSE f[limit][value.used]
  BY DEF SkipTurn
<1>2. TagFound(b, p, tag)
  BY TagStep
<1>3. tag.ok => at \in Nat /\ at > p /\ tag.val.wire \in WireTypes
  BY <1>2 DEF TagFound
<1>4. tag.ok => Reaches(value, at)
  <2> HIDE DEF tag, at
  <2> QED BY <1>3, SkipValueReaches DEF value
<1> HIDE DEF tag, at, value
<1>5. tag.ok /\ value.ok => Passes(f[limit][value.used], p)
  <2> SUFFICES ASSUME tag.ok, value.ok PROVE Passes(f[limit][value.used], p)
    OBVIOUS
  <2>1. value.used \in Nat /\ value.used > p
    BY <1>3, <1>4 DEF Reaches
  <2>2. Passes(f[limit][value.used], value.used)
    BY <2>1 DEF SkipAhead
  <2> QED BY <2>1, <2>2 DEF Passes
<1> QED BY <1>1, <1>3, <1>5 DEF Passes, Ok

(* A turn asks for nothing before or at its own position. *)
SameSkips(f, g, p) == \A k \in Nat, q \in Nat : q > p => g[k][q] = f[k][q]

LEMMA SkipTurnLocal ==
  ASSUME NEW b \in Seq(Byte), NEW p \in Nat, NEW limit \in Nat, NEW f, NEW g, SkipAhead(f, p),
         SameSkips(f, g, p)
  PROVE  SkipTurn(b, g, limit, p) = SkipTurn(b, f, limit, p)
<1> DEFINE tag == DecodeTag(From(b, p))
           at == p + tag.used
           V(h) == SkipValue(b, at, tag.val.wire, limit, h)
<1>1. \A h : SkipTurn(b, h, limit, p) =
         IF ~tag.ok THEN tag
         ELSE IF tag.val.wire = "EndGroup" THEN Ok("skipped", at)
         ELSE IF ~V(h).ok THEN V(h)
         ELSE h[limit][V(h).used]
  BY DEF SkipTurn
<1>2. TagFound(b, p, tag)
  BY TagStep
<1>3. tag.ok => at \in Nat /\ at > p /\ tag.val.wire \in WireTypes
  BY <1>2 DEF TagFound
<1>4. tag.ok => Reaches(V(f), at)
  <2> HIDE DEF tag, at
  <2> QED BY <1>3, SkipValueReaches
<1>5. tag.ok => V(g) = V(f)
  <2> HIDE DEF tag, at
  <2>1. tag.ok /\ limit # 0 => g[limit - 1][at] = f[limit - 1][at]
    BY <1>3 DEF SameSkips
  <2> QED BY <2>1, SkipValueIs
<1> HIDE DEF tag, at, V
<1>6. tag.ok /\ V(f).ok => g[limit][V(f).used] = f[limit][V(f).used]
  <2> SUFFICES ASSUME tag.ok, V(f).ok PROVE g[limit][V(f).used] = f[limit][V(f).used]
    OBVIOUS
  <2>1. V(f).used \in Nat /\ V(f).used > p
    BY <1>3, <1>4 DEF Reaches
  <2> QED BY <2>1 DEF SameSkips
<1> QED BY <1>1, <1>5, <1>6

(* A table that is right in the last n positions of a buffer and after it. *)
SkipNear(b, f, n) ==
    \A limit \in Nat, p \in Nat : p + n >= Len(b) =>
        f[limit][p] = SkipTurn(b, f, limit, p) /\ Passes(f[limit][p], p)

LEMMA SkipNearer ==
  ASSUME NEW b \in Seq(Byte), NEW n \in Nat, NEW f, SkipNear(b, f, n)
  PROVE  \E g : SkipNear(b, g, n + 1)
<1> DEFINE g == [limit \in Nat |-> [p \in Nat |->
                    IF p + n >= Len(b) THEN f[limit][p] ELSE SkipTurn(b, f, limit, p)]]
<1>0. Len(b) \in Nat
  OBVIOUS
<1>1. \A limit \in Nat, p \in Nat :
         g[limit][p] = IF p + n >= Len(b) THEN f[limit][p] ELSE SkipTurn(b, f, limit, p)
  OBVIOUS
<1> HIDE DEF g
<1>2. ASSUME NEW limit \in Nat, NEW p \in Nat, p + (n + 1) >= Len(b)
      PROVE  g[limit][p] = SkipTurn(b, g, limit, p) /\ Passes(g[limit][p], p)
  <2>1. \A q \in Nat : q > p => q + n >= Len(b)
    BY <1>0, <1>2
  <2>2. SkipAhead(f, p)
    BY <2>1 DEF SkipAhead, SkipNear
  <2>3. SameSkips(f, g, p)
    BY <1>1, <2>1 DEF SameSkips
  <2>4. SkipTurn(b, g, limit, p) = SkipTurn(b, f, limit, p)
    BY <2>2, <2>3, SkipTurnLocal
  <2>5. g[limit][p] = SkipTurn(b, f, limit, p)
    BY <1>1 DEF SkipNear
  <2>6. Passes(SkipTurn(b, f, limit, p), p)
    BY <2>2, SkipTurnPasses
  <2> QED BY <2>4, <2>5, <2>6
<1>3. SkipNear(b, g, n + 1)
  BY <1>0, <1>2 DEF SkipNear
<1> QED BY <1>3

LEMMA SkipExists ==
  ASSUME NEW b \in Seq(Byte)
  PROVE  \E f : f = [limit \in Nat |-> [p \in Nat |-> SkipTurn(b, f, limit, p)]]
<1> DEFINE U == {n \in Nat : \E f : SkipNear(b, f, n)}
<1>0. Len(b) \in Nat
  OBVIOUS
<1>1. 0 \in U
  <2> DEFINE f == [limit \in Nat |-> [p \in Nat |-> DecodeTag(From(b, p))]]
  <2>1. \A limit \in Nat, p \in Nat : f[limit][p] = DecodeTag(From(b, p))
    OBVIOUS
  <2> HIDE DEF f
  <2>2. ASSUME NEW limit \in Nat, NEW p \in Nat, p >= Len(b)
        PROVE  f[limit][p] = SkipTurn(b, f, limit, p) /\ Passes(f[limit][p], p)
    <3>1. TagFound(b, p, DecodeTag(From(b, p)))
      BY TagStep
    <3>2. ~DecodeTag(From(b, p)).ok
      BY <1>0, <2>2, <3>1 DEF TagFound
    <3> QED BY <2>1, <3>2 DEF SkipTurn, Passes
  <2>3. SkipNear(b, f, 0)
    BY <1>0, <2>2 DEF SkipNear
  <2> QED BY <2>3
<1>2. ASSUME NEW n \in Nat, n \in U PROVE n + 1 \in U
  <2>1. \E f : SkipNear(b, f, n)
    BY <1>2
  <2>2. \E g : SkipNear(b, g, n + 1)
    BY <2>1, SkipNearer
  <2> QED BY <2>2
<1>3. Nat \subseteq U
  <2> HIDE DEF U
  <2> QED BY <1>1, <1>2, SetInduction
<1>4. Len(b) \in U
  <2> HIDE DEF U
  <2> QED BY <1>0, <1>3
<1>5. PICK f : SkipNear(b, f, Len(b))
  BY <1>4
<1>6. \A limit \in Nat, p \in Nat : f[limit][p] = SkipTurn(b, f, limit, p)
  <2>1. \A p \in Nat : p + Len(b) >= Len(b)
    BY <1>0
  <2> QED BY <1>5, <2>1 DEF SkipNear
<1> DEFINE g == [limit \in Nat |-> [p \in Nat |-> f[limit][p]]]
<1>7. \A limit \in Nat, p \in Nat : g[limit][p] = f[limit][p]
  OBVIOUS
<1>8. \A limit \in Nat, p \in Nat : SkipTurn(b, g, limit, p) = SkipTurn(b, f, limit, p)
  <2> SUFFICES ASSUME NEW limit \in Nat, NEW p \in Nat
               PROVE  SkipTurn(b, g, limit, p) = SkipTurn(b, f, limit, p)
    OBVIOUS
  <2>1. SkipAhead(f, p)
    <3>1. \A q \in Nat : q + Len(b) >= Len(b)
      BY <1>0
    <3> QED BY <1>5, <3>1 DEF SkipAhead, SkipNear
  <2>2. SameSkips(f, g, p)
    BY <1>7 DEF SameSkips
  <2> HIDE DEF g
  <2> QED BY <2>1, <2>2, SkipTurnLocal
<1>9. g = [limit \in Nat |-> [p \in Nat |-> SkipTurn(b, g, limit, p)]]
  <2>1. \A limit \in Nat, p \in Nat : f[limit][p] = SkipTurn(b, g, limit, p)
    BY <1>6, <1>8
  <2> DEFINE h == [limit \in Nat |-> [p \in Nat |-> SkipTurn(b, g, limit, p)]]
  <2>2. \A limit \in Nat : [p \in Nat |-> f[limit][p]] = [p \in Nat |-> SkipTurn(b, g, limit, p)]
    <3> HIDE DEF g
    <3> QED BY <2>1
  <2>3. g = [limit \in Nat |-> [p \in Nat |-> f[limit][p]]]
    OBVIOUS
  <2> HIDE DEF g
  <2> QED BY <2>2, <2>3
<1> HIDE DEF g
<1> QED BY <1>9

LEMMA SkipGroupIs == \A b \in Seq(Byte) : IsSkip(b, SkipGroup(b))
BY SkipExists, SkipSolved

(* Whatever the walk over a group answers, it moves on. *)
LEMMA SkipGroupPasses ==
  ASSUME NEW b \in Seq(Byte)
  PROVE  \A p \in Nat : SkipAhead(SkipGroup(b), p)
<1> DEFINE f == SkipGroup(b)
           T == {p \in Nat : \A limit \in Nat : Passes(f[limit][p], p)}
<1>1. ASSUME NEW p \in Nat, p < Len(b) => \A q \in Nat : q > p => q \in T
      PROVE  p \in T
  <2> SUFFICES ASSUME NEW limit \in Nat PROVE Passes(f[limit][p], p)
    OBVIOUS
  <2>1. f[limit][p] = SkipTurn(b, f, limit, p)
    BY SkipGroupIs DEF IsSkip
  <2> HIDE DEF f
  <2>2. CASE p < Len(b)
    <3>1. SkipAhead(f, p)
      BY <1>1, <2>2 DEF SkipAhead
    <3> QED BY <2>1, <3>1, SkipTurnPasses
  <2>3. CASE ~(p < Len(b))
    <3>1. TagFound(b, p, DecodeTag(From(b, p)))
      BY TagStep
    <3> QED BY <2>1, <2>3, <3>1 DEF SkipTurn, TagFound, Passes
  <2> QED BY <2>2, <2>3
<1>2. Nat \subseteq T
  <2>1. Len(b) \in Nat
    OBVIOUS
  <2> HIDE DEF T
  <2> QED BY <1>1, <2>1, BackwardInduction
<1>3. \A limit \in Nat, p \in Nat : Passes(f[limit][p], p)
  BY <1>2
<1>4. \A p \in Nat : SkipAhead(f, p)
  <2> HIDE DEF f
  <2> QED BY <1>3 DEF SkipAhead
<1> QED BY <1>4

-----------------------------------------------------------------------------
(* The same of decode_unknown_field's loop, which also knows the number    *)
(* of the group it is in.                                                  *)
KeepTurn(b, f, limit, number, p) ==
    LET tag == DecodeTag(From(b, p))
        at == p + tag.used
        field == DecodeValue(b, at, tag.val.number, tag.val.wire, limit, f)
        inner == f[limit][number][field.used]
    IN  IF ~tag.ok THEN tag
        ELSE IF tag.val.wire = "EndGroup"
        THEN IF tag.val.number = number THEN Ok(<<>>, at) ELSE Fail("Custom")
        ELSE IF ~field.ok THEN field
        ELSE IF ~inner.ok THEN inner
        ELSE Ok(<<field.val>> \o inner.val, inner.used)

IsKeep(b, f) ==
    \A limit \in Nat, number \in Nat, p \in Nat :
        f[limit][number][p] = KeepTurn(b, f, limit, number, p)

LEMMA KeepSolved ==
  ASSUME NEW b, NEW f,
         f = [limit \in Nat |-> [number \in Nat |-> [p \in Nat |-> KeepTurn(b, f, limit, number, p)]]]
  PROVE  IsKeep(b, DecodeGroup(b))
<1> DEFINE Turn(g, limit, number, p) == AfterTag(b, p, LAMBDA tag, at :
                IF tag.wire = "EndGroup"
                THEN IF tag.number = number THEN Ok(<<>>, at) ELSE Fail("Custom")
                ELSE Then(DecodeValue(b, at, tag.number, tag.wire, limit, g),
                          LAMBDA field, next :
                              Mapped(g[limit][number][next],
                                     LAMBDA inner : <<field>> \o inner)))
           G(g) == [limit \in Nat |-> [number \in Nat |-> [pos \in Nat |-> Turn(g, limit, number, pos)]]]
           R == CHOOSE g : g = G(g)
<1>1. \A g : \A limit \in Nat, number \in Nat, p \in Nat :
         Turn(g, limit, number, p) = KeepTurn(b, g, limit, number, p)
  <2> SUFFICES ASSUME NEW g, NEW limit \in Nat, NEW number \in Nat, NEW p \in Nat
               PROVE  Turn(g, limit, number, p) = KeepTurn(b, g, limit, number, p)
    OBVIOUS
  <2> DEFINE t == DecodeTag(From(b, p))
             at == p + t.used
             value == DecodeValue(b, at, t.val.number, t.val.wire, limit, g)
             More == Then(value, LAMBDA field, next :
                        Mapped(g[limit][number][next], LAMBDA inner : <<field>> \o inner))
             rest == g[limit][number][value.used]
  <2>1. Turn(g, limit, number, p) =
           IF t.ok
           THEN IF t.val.wire = "EndGroup"
                THEN IF t.val.number = number THEN Ok(<<>>, at) ELSE Fail("Custom")
                ELSE More
           ELSE t
    BY DEF AfterTag, Then
  <2>2. More = IF value.ok
               THEN IF rest.ok THEN Ok(<<value.val>> \o rest.val, rest.used) ELSE rest
               ELSE value
    <3> HIDE DEF value
    <3> QED BY DEF Then, Mapped
  <2>3. KeepTurn(b, g, limit, number, p) =
           IF ~t.ok THEN t
           ELSE IF t.val.wire = "EndGroup"
           THEN IF t.val.number = number THEN Ok(<<>>, at) ELSE Fail("Custom")
           ELSE IF ~value.ok THEN value
           ELSE IF ~rest.ok THEN rest
           ELSE Ok(<<value.val>> \o rest.val, rest.used)
    BY DEF KeepTurn
  <2> HIDE DEF Turn, t, at, value, More, rest
  <2> QED BY <2>1, <2>2, <2>3
<1>2. DecodeGroup(b) = R
  BY DEF DecodeGroup
<1> HIDE DEF Turn
<1>3. \A g : G(g) = [limit \in Nat |-> [number \in Nat |-> [p \in Nat |-> KeepTurn(b, g, limit, number, p)]]]
  BY <1>1
<1>4. f = G(f)
  <2> HIDE DEF G
  <2> QED BY <1>3
<1>5. R = G(R)
  <2> HIDE DEF G
  <2> QED BY <1>4
<1>6. R = [limit \in Nat |-> [number \in Nat |-> [p \in Nat |-> KeepTurn(b, R, limit, number, p)]]]
  <2> HIDE DEF G, R
  <2> QED BY <1>3, <1>5
<1> HIDE DEF R
<1>7. IsKeep(b, R)
  <2> SUFFICES ASSUME NEW limit \in Nat, NEW number \in Nat, NEW p \in Nat
               PROVE  R[limit][number][p] = KeepTurn(b, R, limit, number, p)
    BY DEF IsKeep
  <2>1. R[limit] = [n \in Nat |-> [q \in Nat |-> KeepTurn(b, R, limit, n, q)]]
    BY <1>6
  <2>2. R[limit][number] = [q \in Nat |-> KeepTurn(b, R, limit, number, q)]
    BY <2>1
  <2> QED BY <2>2
<1> QED BY <1>2, <1>7

KeepAhead(f, p) ==
    \A limit \in Nat, number \in Nat, q \in Nat : q > p => Passes(f[limit][number][q], q)

(* What DecodeValue reads before it names the field. *)
ValueRead(b, pos, number, wire, limit, f) ==
    IF wire = "StartGroup"
    THEN IF limit = 0 THEN Fail("RecursionLimitExceeded") ELSE f[limit - 1][number][pos]
    ELSE IF DecodePlain(From(b, pos), wire).ok
         THEN Ok(DecodePlain(From(b, pos), wire).val, pos + DecodePlain(From(b, pos), wire).used)
         ELSE DecodePlain(From(b, pos), wire)

LEMMA DecodeValueIs ==
  ASSUME NEW b, NEW pos, NEW number, NEW wire, NEW limit, NEW f
  PROVE  DecodeValue(b, pos, number, wire, limit, f) =
            IF ValueRead(b, pos, number, wire, limit, f).ok
            THEN Ok(UnknownField(number, wire, ValueRead(b, pos, number, wire, limit, f).val),
                    ValueRead(b, pos, number, wire, limit, f).used)
            ELSE ValueRead(b, pos, number, wire, limit, f)
BY DEF DecodeValue, ValueRead, Then, Mapped

LEMMA ValueReaches ==
  ASSUME NEW b \in Seq(Byte), NEW at \in Nat, NEW number \in Nat, NEW wire \in WireTypes,
         NEW limit \in Nat, NEW f, limit # 0 => Passes(f[limit - 1][number][at], at)
  PROVE  Reaches(DecodeValue(b, at, number, wire, limit, f), at)
<1> DEFINE r == ValueRead(b, at, number, wire, limit, f)
<1>1. CASE wire = "StartGroup"
  <2>1. Reaches(r, at)
    BY <1>1 DEF ValueRead, Passes, Reaches, Fail
  <2> HIDE DEF r
  <2> QED BY <2>1, DecodeValueIs DEF r, Reaches, Ok
<1>2. CASE wire # "StartGroup"
  <2> DEFINE s == DecodePlain(From(b, at), wire)
  <2>1. Reaches(s, 0)
    BY <1>2, FromIs, PlainReaches
  <2>2. r = IF s.ok THEN Ok(s.val, at + s.used) ELSE s
    BY <1>2 DEF ValueRead
  <2> HIDE DEF s, r
  <2>3. Reaches(r, at)
    BY <2>1, <2>2 DEF Reaches, Ok
  <2> QED BY <2>3, DecodeValueIs DEF r, Reaches, Ok
<1> QED BY <1>1, <1>2

LEMMA DecodeValueReaches ==
  ASSUME NEW b \in Seq(Byte), NEW p \in Nat, NEW at \in Nat, at > p, NEW number \in Nat,
         NEW wire \in WireTypes, NEW limit \in Nat, NEW f, KeepAhead(f, p)
  PROVE  Reaches(DecodeValue(b, at, number, wire, limit, f), at)
<1>1. limit # 0 => Passes(f[limit - 1][number][at], at)
  BY DEF KeepAhead
<1> QED BY <1>1, ValueReaches

LEMMA KeepTurnPasses ==
  ASSUME NEW b \in Seq(Byte), NEW p \in Nat, NEW limit \in Nat, NEW number \in Nat, NEW f,
         KeepAhead(f, p)
  PROVE  Passes(KeepTurn(b, f, limit, number, p), p)
<1> DEFINE tag == DecodeTag(From(b, p))
           at == p + tag.used
           field == DecodeValue(b, at, tag.val.number, tag.val.wire, limit, f)
           inner == f[limit][number][field.used]
<1>1. KeepTurn(b, f, limit, number, p) =
         IF ~tag.ok THEN tag
         ELSE IF tag.val.wire = "EndGroup"
         THEN IF tag.val.number = number THEN Ok(<<>>, at) ELSE Fail("Custom")
         ELSE IF ~field.ok THEN field
         ELSE IF ~inner.ok THEN inner
         ELSE Ok(<<field.val>> \o inner.val, inner.used)
  BY DEF KeepTurn
<1>2. TagFound(b, p, tag)
  BY TagStep
<1>3. tag.ok => at \in Nat /\ at > p /\ tag.val.wire \in WireTypes /\ tag.val.number \in Nat
  BY <1>2 DEF TagFound
<1>4. tag.ok => Reaches(field, at)
  <2> HIDE DEF tag, at
  <2> QED BY <1>3, DecodeValueReaches DEF field
<1> HIDE DEF tag, at, field
<1>5. tag.ok /\ field.ok => Passes(inner, p)
  <2> SUFFICES ASSUME tag.ok, field.ok PROVE Passes(inner, p)
    OBVIOUS
  <2>1. field.used \in Nat /\ field.used > p
    BY <1>3, <1>4 DEF Reaches
  <2>2. Passes(inner, field.used)
    BY <2>1 DEF KeepAhead
  <2> HIDE DEF inner
  <2> QED BY <2>1, <2>2 DEF Passes
<1> HIDE DEF inner
<1> QED BY <1>1, <1>3, <1>5 DEF Passes, Ok, Fail

SameKept(f, g, p) ==
    \A k \in Nat, n \in Nat, q \in Nat : q > p => g[k][n][q] = f[k][n][q]

LEMMA KeepTurnLocal ==
  ASSUME NEW b \in Seq(Byte), NEW p \in Nat, NEW limit \in Nat, NEW number \in Nat,
         NEW f, NEW g, KeepAhead(f, p), SameKept(f, g, p)
  PROVE  KeepTurn(b, g, limit, number, p) = KeepTurn(b, f, limit, number, p)
<1> DEFINE tag == DecodeTag(From(b, p))
           at == p + tag.used
           V(h) == DecodeValue(b, at, tag.val.number, tag.val.wire, limit, h)
           I(h) == h[limit][number][V(h).used]
<1>1. \A h : KeepTurn(b, h, limit, number, p) =
         IF ~tag.ok THEN tag
         ELSE IF tag.val.wire = "EndGroup"
         THEN IF tag.val.number = number THEN Ok(<<>>, at) ELSE Fail("Custom")
         ELSE IF ~V(h).ok THEN V(h)
         ELSE IF ~I(h).ok THEN I(h)
         ELSE Ok(<<V(h).val>> \o I(h).val, I(h).used)
  BY DEF KeepTurn
<1>2. TagFound(b, p, tag)
  BY TagStep
<1>3. tag.ok => at \in Nat /\ at > p /\ tag.val.wire \in WireTypes /\ tag.val.number \in Nat
  BY <1>2 DEF TagFound
<1>4. tag.ok => Reaches(V(f), at)
  <2> HIDE DEF tag, at
  <2> QED BY <1>3, DecodeValueReaches
<1>5. tag.ok => V(g) = V(f)
  <2> SUFFICES ASSUME tag.ok PROVE V(g) = V(f)
    OBVIOUS
  <2> DEFINE W(h) == ValueRead(b, at, tag.val.number, tag.val.wire, limit, h)
  <2> HIDE DEF tag, at
  <2>1. limit # 0 => g[limit - 1][tag.val.number][at] = f[limit - 1][tag.val.number][at]
    BY <1>3 DEF SameKept
  <2>2. W(g) = W(f)
    BY <2>1 DEF ValueRead
  <2>3. \A h : V(h) = IF W(h).ok
                     THEN Ok(UnknownField(tag.val.number, tag.val.wire, W(h).val), W(h).used)
                     ELSE W(h)
    BY DecodeValueIs
  <2> HIDE DEF V, W
  <2> QED BY <2>2, <2>3
<1> HIDE DEF tag, at, V
<1>6. tag.ok /\ V(f).ok => I(g) = I(f)
  <2> SUFFICES ASSUME tag.ok, V(f).ok PROVE I(g) = I(f)
    OBVIOUS
  <2>1. V(f).used \in Nat /\ V(f).used > p
    BY <1>3, <1>4 DEF Reaches
  <2> QED BY <1>5, <2>1 DEF SameKept
<1> HIDE DEF I
<1> QED BY <1>1, <1>5, <1>6

KeepNear(b, f, n) ==
    \A limit \in Nat, number \in Nat, p \in Nat : p + n >= Len(b) =>
        /\ f[limit][number][p] = KeepTurn(b, f, limit, number, p)
        /\ Passes(f[limit][number][p], p)

LEMMA KeepNearer ==
  ASSUME NEW b \in Seq(Byte), NEW n \in Nat, NEW f, KeepNear(b, f, n)
  PROVE  \E g : KeepNear(b, g, n + 1)
<1> DEFINE g == [limit \in Nat |-> [number \in Nat |-> [p \in Nat |->
                    IF p + n >= Len(b) THEN f[limit][number][p] ELSE KeepTurn(b, f, limit, number, p)]]]
<1>0. Len(b) \in Nat
  OBVIOUS
<1>1. \A limit \in Nat, number \in Nat, p \in Nat :
         g[limit][number][p] = IF p + n >= Len(b) THEN f[limit][number][p] ELSE KeepTurn(b, f, limit, number, p)
  OBVIOUS
<1> HIDE DEF g
<1>2. ASSUME NEW limit \in Nat, NEW number \in Nat, NEW p \in Nat, p + (n + 1) >= Len(b)
      PROVE  g[limit][number][p] = KeepTurn(b, g, limit, number, p) /\ Passes(g[limit][number][p], p)
  <2>1. \A q \in Nat : q > p => q + n >= Len(b)
    BY <1>0, <1>2
  <2>2. KeepAhead(f, p)
    BY <2>1 DEF KeepAhead, KeepNear
  <2>3. SameKept(f, g, p)
    <3> SUFFICES ASSUME NEW k \in Nat, NEW m \in Nat, NEW q \in Nat, q > p
                 PROVE  g[k][m][q] = f[k][m][q]
      BY DEF SameKept
    <3>1. q + n >= Len(b)
      BY <2>1
    <3> QED BY <1>1, <3>1
  <2>4. KeepTurn(b, g, limit, number, p) = KeepTurn(b, f, limit, number, p)
    BY <2>2, <2>3, KeepTurnLocal
  <2>5. g[limit][number][p] = KeepTurn(b, f, limit, number, p)
    <3>1. p + n >= Len(b) => f[limit][number][p] = KeepTurn(b, f, limit, number, p)
      BY DEF KeepNear
    <3>2. g[limit][number][p] = IF p + n >= Len(b) THEN f[limit][number][p]
                                ELSE KeepTurn(b, f, limit, number, p)
      BY <1>1
    <3> QED BY <3>1, <3>2
  <2>6. Passes(KeepTurn(b, f, limit, number, p), p)
    BY <2>2, KeepTurnPasses
  <2> QED BY <2>4, <2>5, <2>6
<1>3. KeepNear(b, g, n + 1)
  BY <1>0, <1>2 DEF KeepNear
<1> QED BY <1>3

LEMMA KeepExists ==
  ASSUME NEW b \in Seq(Byte)
  PROVE  \E f : f = [limit \in Nat |-> [number \in Nat |-> [p \in Nat |-> KeepTurn(b, f, limit, number, p)]]]
<1> DEFINE U == {n \in Nat : \E f : KeepNear(b, f, n)}
<1>0. Len(b) \in Nat
  OBVIOUS
<1>1. 0 \in U
  <2> DEFINE f == [limit \in Nat |-> [number \in Nat |-> [p \in Nat |-> DecodeTag(From(b, p))]]]
  <2>1. \A limit \in Nat, number \in Nat, p \in Nat : f[limit][number][p] = DecodeTag(From(b, p))
    OBVIOUS
  <2> HIDE DEF f
  <2>2. ASSUME NEW limit \in Nat, NEW number \in Nat, NEW p \in Nat, p >= Len(b)
        PROVE  f[limit][number][p] = KeepTurn(b, f, limit, number, p) /\ Passes(f[limit][number][p], p)
    <3>1. TagFound(b, p, DecodeTag(From(b, p)))
      BY TagStep
    <3>2. ~DecodeTag(From(b, p)).ok
      BY <1>0, <2>2, <3>1 DEF TagFound
    <3> QED BY <2>1, <3>2 DEF KeepTurn, Passes
  <2>3. KeepNear(b, f, 0)
    BY <1>0, <2>2 DEF KeepNear
  <2> QED BY <2>3
<1>2. ASSUME NEW n \in Nat, n \in U PROVE n + 1 \in U
  <2>1. \E f : KeepNear(b, f, n)
    BY <1>2
  <2>2. \E g : KeepNear(b, g, n + 1)
    BY <2>1, KeepNearer
  <2> QED BY <2>2
<1>3. Nat \subseteq U
  <2> HIDE DEF U
  <2> QED BY <1>1, <1>2, SetInduction
<1>4. Len(b) \in U
  <2> HIDE DEF U
  <2> QED BY <1>0, <1>3
<1>5. PICK f : KeepNear(b, f, Len(b))
  BY <1>4
<1>6. \A limit \in Nat, number \in Nat, p \in Nat : f[limit][number][p] = KeepTurn(b, f, limit, number, p)
  <2>1. \A p \in Nat : p + Len(b) >= Len(b)
    BY <1>0
  <2> QED BY <1>5, <2>1 DEF KeepNear
<1> DEFINE g == [limit \in Nat |-> [number \in Nat |-> [p \in Nat |-> f[limit][number][p]]]]
<1>7. \A limit \in Nat, number \in Nat, p \in Nat : g[limit][number][p] = f[limit][number][p]
  OBVIOUS
<1>8. \A limit \in Nat, number \in Nat, p \in Nat : KeepTurn(b, g, limit, number, p) = KeepTurn(b, f, limit, number, p)
  <2> SUFFICES ASSUME NEW limit \in Nat, NEW number \in Nat, NEW p \in Nat
               PROVE  KeepTurn(b, g, limit, number, p) = KeepTurn(b, f, limit, number, p)
    OBVIOUS
  <2>1. KeepAhead(f, p)
    <3>1. \A q \in Nat : q + Len(b) >= Len(b)
      BY <1>0
    <3> QED BY <1>5, <3>1 DEF KeepAhead, KeepNear
  <2>2. SameKept(f, g, p)
    BY <1>7 DEF SameKept
  <2> HIDE DEF g
  <2> QED BY <2>1, <2>2, KeepTurnLocal
<1>9. g = [limit \in Nat |-> [number \in Nat |-> [p \in Nat |-> KeepTurn(b, g, limit, number, p)]]]
  <2>1. ASSUME NEW limit \in Nat, NEW number \in Nat, NEW p \in Nat
        PROVE  f[limit][number][p] = KeepTurn(b, g, limit, number, p)
    <3>1. f[limit][number][p] = KeepTurn(b, f, limit, number, p)
      BY <1>6
    <3>2. KeepTurn(b, g, limit, number, p) = KeepTurn(b, f, limit, number, p)
      BY <1>8
    <3> QED BY <3>1, <3>2
  <2> DEFINE h == [limit \in Nat |-> [number \in Nat |-> [p \in Nat |-> KeepTurn(b, g, limit, number, p)]]]
  <2>2. \A limit \in Nat, number \in Nat : [p \in Nat |-> f[limit][number][p]] = [p \in Nat |-> KeepTurn(b, g, limit, number, p)]
    <3> HIDE DEF g
    <3> QED BY <2>1
  <2>4. \A limit \in Nat : [number \in Nat |-> [p \in Nat |-> f[limit][number][p]]]
                            = [number \in Nat |-> [p \in Nat |-> KeepTurn(b, g, limit, number, p)]]
    <3> HIDE DEF g
    <3> QED BY <2>2
  <2>3. g = [limit \in Nat |-> [number \in Nat |-> [p \in Nat |-> f[limit][number][p]]]]
    OBVIOUS
  <2> HIDE DEF g
  <2> QED BY <2>3, <2>4
<1> HIDE DEF g
<1> QED BY <1>9

LEMMA KeepGroupIs == \A b \in Seq(Byte) : IsKeep(b, DecodeGroup(b))
BY KeepExists, KeepSolved

(* Whatever the walk over a group answers, it moves on. *)
LEMMA KeepGroupPasses ==
  ASSUME NEW b \in Seq(Byte)
  PROVE  \A p \in Nat : KeepAhead(DecodeGroup(b), p)
<1> DEFINE f == DecodeGroup(b)
           T == {p \in Nat : \A limit \in Nat, number \in Nat : Passes(f[limit][number][p], p)}
<1>1. ASSUME NEW p \in Nat, p < Len(b) => \A q \in Nat : q > p => q \in T
      PROVE  p \in T
  <2> SUFFICES ASSUME NEW limit \in Nat, NEW number \in Nat PROVE Passes(f[limit][number][p], p)
    OBVIOUS
  <2>1. f[limit][number][p] = KeepTurn(b, f, limit, number, p)
    BY KeepGroupIs DEF IsKeep
  <2> HIDE DEF f
  <2>2. CASE p < Len(b)
    <3>1. KeepAhead(f, p)
      BY <1>1, <2>2 DEF KeepAhead
    <3> QED BY <2>1, <3>1, KeepTurnPasses
  <2>3. CASE ~(p < Len(b))
    <3>1. TagFound(b, p, DecodeTag(From(b, p)))
      BY TagStep
    <3> QED BY <2>1, <2>3, <3>1 DEF KeepTurn, TagFound, Passes
  <2> QED BY <2>2, <2>3
<1>2. Nat \subseteq T
  <2>1. Len(b) \in Nat
    OBVIOUS
  <2> HIDE DEF T
  <2> QED BY <1>1, <2>1, BackwardInduction
<1>3. \A limit \in Nat, number \in Nat, p \in Nat : Passes(f[limit][number][p], p)
  BY <1>2
<1>4. \A p \in Nat : KeepAhead(f, p)
  <2> HIDE DEF f
  <2> QED BY <1>3 DEF KeepAhead
<1> QED BY <1>4

-----------------------------------------------------------------------------
(* Skipping agrees with keeping: it ends where keeping ends, and fails as  *)
(* keeping fails, unless keeping fails for a reason of its own.            *)
Agree(kept, skipped) ==
    /\ kept.ok => skipped = Ok("skipped", kept.used)
    /\ ~kept.ok /\ kept.err \notin {"Custom", "panic"} => skipped = kept

PlainAgree(kept, skipped) ==
    /\ kept.ok => skipped.ok /\ skipped.used = kept.used
    /\ ~kept.ok /\ kept.err \notin {"Custom", "panic"} => skipped = kept

LEMMA ContentAgrees == ASSUME NEW b \in Seq(Byte) PROVE PlainAgree(Content(b), Delimited(b))
<1>1. CASE ~Delimited(b).ok
  <2>1. Content(b) = Delimited(b)
    BY <1>1 DEF Content, Then
  <2> QED BY <1>1, <2>1 DEF PlainAgree
<1>2. CASE Delimited(b).ok
  <2>1. PICK start \in Nat, end \in Nat : end <= Len(b) /\ Delimited(b) = Ok(start, end)
    BY <1>2, DelimitedRead
  <2>2. Content(b) = IF end < start THEN Fail("panic") ELSE Ok(SubSeq(b, start + 1, end), end)
    BY <2>1 DEF Content, Then, Ok
  <2> QED BY <2>1, <2>2 DEF PlainAgree, Ok, Fail
<1> QED BY <1>1, <1>2

LEMMA PlainsAgree ==
  ASSUME NEW b \in Seq(Byte), NEW wire \in WireTypes, wire # "StartGroup"
  PROVE  PlainAgree(DecodePlain(b, wire), SkipPlain(b, wire))
<1>1. \A a : PlainAgree(a, a)
  BY DEF PlainAgree
<1>2. PlainAgree(Content(b), Delimited(b))
  BY ContentAgrees
<1>3. PlainAgree(Fail("Custom"), Ok("skipped", 0))
  BY DEF PlainAgree, Fail
<1>4. wire \in {"Varint", "Fixed64", "LengthDelimited", "EndGroup", "Fixed32"}
  BY WireNames
<1> QED BY <1>1, <1>2, <1>3, <1>4 DEF SkipPlain, DecodePlain

LEMMA ValuesAgree ==
  ASSUME NEW b \in Seq(Byte), NEW at \in Nat, NEW number \in Nat, NEW wire \in WireTypes,
         NEW limit \in Nat, NEW f, NEW g,
         limit # 0 => Agree(f[limit - 1][number][at], g[limit - 1][at])
  PROVE  Agree(DecodeValue(b, at, number, wire, limit, f), SkipValue(b, at, wire, limit, g))
<1> DEFINE r == ValueRead(b, at, number, wire, limit, f)
           s == SkipValue(b, at, wire, limit, g)
<1>1. Agree(r, s)
  <2>1. CASE wire = "StartGroup"
    <3>1. r = IF limit = 0 THEN Fail("RecursionLimitExceeded") ELSE f[limit - 1][number][at]
      BY <2>1 DEF ValueRead
    <3>2. s = IF limit = 0 THEN Fail("RecursionLimitExceeded") ELSE g[limit - 1][at]
      BY <2>1, SkipValueIs
    <3>3. Agree(Fail("RecursionLimitExceeded"), Fail("RecursionLimitExceeded"))
      BY DEF Agree, Fail
    <3> HIDE DEF r, s
    <3> QED BY <3>1, <3>2, <3>3
  <2>2. CASE wire # "StartGroup"
    <3> DEFINE k == DecodePlain(From(b, at), wire)
               l == SkipPlain(From(b, at), wire)
    <3>1. PlainAgree(k, l)
      BY <2>2, FromIs, PlainsAgree
    <3>2. r = IF k.ok THEN Ok(k.val, at + k.used) ELSE k
      BY <2>2 DEF ValueRead
    <3>3. s = IF l.ok THEN Ok("skipped", at + l.used) ELSE l
      BY <2>2, SkipValueIs
    <3> HIDE DEF k, l, r, s
    <3>4. CASE k.ok
      <4>1. r.ok /\ r.used = at + k.used
        BY <3>2, <3>4 DEF Ok
      <4>2. l.ok /\ l.used = k.used
        BY <3>1, <3>4 DEF PlainAgree
      <4> QED BY <4>1, <4>2, <3>3 DEF Agree
    <3>5. CASE ~k.ok
      <4>1. r = k
        BY <3>2, <3>5
      <4>2. k.err \notin {"Custom", "panic"} => l = k
        BY <3>1, <3>5 DEF PlainAgree
      <4>3. k.err \notin {"Custom", "panic"} => s = k
        BY <3>3, <3>5, <4>2
      <4> QED BY <3>5, <4>1, <4>3 DEF Agree
    <3> QED BY <3>4, <3>5
  <2> QED BY <2>1, <2>2
<1>2. DecodeValue(b, at, number, wire, limit, f) =
         IF r.ok THEN Ok(UnknownField(number, wire, r.val), r.used) ELSE r
  BY DecodeValueIs
<1> HIDE DEF r, s
<1>3. Agree(IF r.ok THEN Ok(UnknownField(number, wire, r.val), r.used) ELSE r, s)
  BY <1>1 DEF Agree, Ok
<1> QED BY <1>2, <1>3 DEF s

AgreeAfter(f, g, p) ==
    \A k \in Nat, n \in Nat, q \in Nat : q > p => Agree(f[k][n][q], g[k][q])

LEMMA TurnsAgree ==
  ASSUME NEW b \in Seq(Byte), NEW p \in Nat, NEW limit \in Nat, NEW number \in Nat,
         NEW f, NEW g, KeepAhead(f, p),
         AgreeAfter(f, g, p)
  PROVE  Agree(KeepTurn(b, f, limit, number, p), SkipTurn(b, g, limit, p))
<1> DEFINE tag == DecodeTag(From(b, p))
           at == p + tag.used
           field == DecodeValue(b, at, tag.val.number, tag.val.wire, limit, f)
           value == SkipValue(b, at, tag.val.wire, limit, g)
           inner == f[limit][number][field.used]
           rest == g[limit][value.used]
<1>1. KeepTurn(b, f, limit, number, p) =
         IF ~tag.ok THEN tag
         ELSE IF tag.val.wire = "EndGroup"
         THEN IF tag.val.number = number THEN Ok(<<>>, at) ELSE Fail("Custom")
         ELSE IF ~field.ok THEN field
         ELSE IF ~inner.ok THEN inner
         ELSE Ok(<<field.val>> \o inner.val, inner.used)
  BY DEF KeepTurn
<1>2. SkipTurn(b, g, limit, p) =
         IF ~tag.ok THEN tag
         ELSE IF tag.val.wire = "EndGroup" THEN Ok("skipped", at)
         ELSE IF ~value.ok THEN value
         ELSE rest
  BY DEF SkipTurn
<1>3. TagFound(b, p, tag)
  BY TagStep
<1>4. tag.ok => at \in Nat /\ at > p /\ tag.val.wire \in WireTypes /\ tag.val.number \in Nat
  BY <1>3 DEF TagFound
<1>5. tag.ok => Reaches(field, at)
  <2> HIDE DEF tag, at
  <2> QED BY <1>4, DecodeValueReaches DEF field
<1>6. tag.ok => Agree(field, value)
  <2> SUFFICES ASSUME tag.ok PROVE Agree(field, value)
    OBVIOUS
  <2> HIDE DEF tag, at
  <2>1. limit # 0 => Agree(f[limit - 1][tag.val.number][at], g[limit - 1][at])
    BY <1>4 DEF AgreeAfter
  <2> QED BY <1>4, <2>1, ValuesAgree DEF field, value
<1> HIDE DEF tag, at, field, value
<1>7. tag.ok /\ field.ok => /\ value.ok /\ value.used = field.used
                           /\ Agree(inner, rest)
  <2> SUFFICES ASSUME tag.ok, field.ok
               PROVE  value.ok /\ value.used = field.used /\ Agree(inner, rest)
    OBVIOUS
  <2>1. value.ok /\ value.used = field.used
    BY <1>6 DEF Agree, Ok
  <2>2. field.used \in Nat /\ field.used > p
    BY <1>4, <1>5 DEF Reaches
  <2>3. Agree(f[limit][number][field.used], g[limit][field.used])
    BY <2>2 DEF AgreeAfter
  <2> QED BY <2>1, <2>3
<1> HIDE DEF inner, rest
<1>8. CASE ~tag.ok
  BY <1>1, <1>2, <1>8 DEF Agree
<1>9. CASE tag.ok /\ tag.val.wire = "EndGroup"
  <2>1. SkipTurn(b, g, limit, p) = Ok("skipped", at)
    BY <1>2, <1>9
  <2>2. CASE tag.val.number = number
    <3>1. KeepTurn(b, f, limit, number, p) = Ok(<<>>, at)
      BY <1>1, <1>9, <2>2
    <3> QED BY <2>1, <3>1 DEF Agree, Ok
  <2>3. CASE tag.val.number # number
    <3>1. KeepTurn(b, f, limit, number, p) = Fail("Custom")
      BY <1>1, <1>9, <2>3
    <3> QED BY <3>1 DEF Agree, Fail
  <2> QED BY <2>2, <2>3
<1>10. CASE tag.ok /\ tag.val.wire # "EndGroup" /\ ~field.ok
  <2>1. KeepTurn(b, f, limit, number, p) = field
    BY <1>1, <1>10
  <2>2. field.err \notin {"Custom", "panic"} => SkipTurn(b, g, limit, p) = field
    BY <1>2, <1>6, <1>10 DEF Agree
  <2> QED BY <1>10, <2>1, <2>2 DEF Agree
<1>11. CASE tag.ok /\ tag.val.wire # "EndGroup" /\ field.ok
  <2>1. SkipTurn(b, g, limit, p) = rest /\ Agree(inner, rest)
    BY <1>2, <1>7, <1>11
  <2>2. KeepTurn(b, f, limit, number, p) =
           IF ~inner.ok THEN inner ELSE Ok(<<field.val>> \o inner.val, inner.used)
    BY <1>1, <1>11
  <2>3. CASE ~inner.ok
    BY <2>1, <2>2, <2>3
  <2>4. CASE inner.ok
    BY <2>1, <2>2, <2>4 DEF Agree, Ok
  <2> QED BY <2>3, <2>4
<1> QED BY <1>8, <1>9, <1>10, <1>11

LEMMA GroupsAgree ==
  ASSUME NEW b \in Seq(Byte), NEW limit \in Nat, NEW number \in Nat, NEW p \in Nat
  PROVE  Agree(DecodeGroup(b)[limit][number][p], SkipGroup(b)[limit][p])
<1> DEFINE f == DecodeGroup(b)
           g == SkipGroup(b)
           T == {q \in Nat : \A k \in Nat, n \in Nat : Agree(f[k][n][q], g[k][q])}
<1>1. ASSUME NEW q \in Nat, q < Len(b) => \A r \in Nat : r > q => r \in T
      PROVE  q \in T
  <2> SUFFICES ASSUME NEW k \in Nat, NEW n \in Nat PROVE Agree(f[k][n][q], g[k][q])
    OBVIOUS
  <2>1. f[k][n][q] = KeepTurn(b, f, k, n, q)
    BY KeepGroupIs DEF IsKeep
  <2>2. g[k][q] = SkipTurn(b, g, k, q)
    BY SkipGroupIs DEF IsSkip
  <2>3. KeepAhead(f, q)
    BY KeepGroupPasses
  <2> HIDE DEF f, g
  <2>4. CASE q < Len(b)
    <3>1. AgreeAfter(f, g, q)
      BY <1>1, <2>4 DEF AgreeAfter
    <3> QED BY <2>1, <2>2, <2>3, <3>1, TurnsAgree
  <2>5. CASE ~(q < Len(b))
    <3>1. TagFound(b, q, DecodeTag(From(b, q)))
      BY TagStep
    <3> QED BY <2>1, <2>2, <2>5, <3>1 DEF KeepTurn, SkipTurn, TagFound, Agree
  <2> QED BY <2>4, <2>5
<1>2. Nat \subseteq T
  <2>1. Len(b) \in Nat
    OBVIOUS
  <2> HIDE DEF T
  <2> QED BY <1>1, <2>1, BackwardInduction
<1>3. Agree(f[limit][number][p], g[limit][p])
  BY <1>2
<1> QED BY <1>3

LEMMA FieldsAgree ==
  ASSUME NEW b \in Seq(Byte), NEW number \in Nat, NEW wire \in WireTypes, NEW limit \in Nat
  PROVE  Agree(DecodeUnknownField(b, number, wire, limit), SkipField(b, wire, limit))
<1> DEFINE f == DecodeGroup(b)
           g == SkipGroup(b)
<1>1. limit # 0 => Agree(f[limit - 1][number][0], g[limit - 1][0])
  <2> SUFFICES ASSUME limit # 0 PROVE Agree(f[limit - 1][number][0], g[limit - 1][0])
    OBVIOUS
  <2>1. limit - 1 \in Nat
    OBVIOUS
  <2> QED BY <2>1, GroupsAgree
<1> HIDE DEF f, g
<1>2. Agree(DecodeValue(b, 0, number, wire, limit, f), SkipValue(b, 0, wire, limit, g))
  BY <1>1, ValuesAgree
<1> QED BY <1>2 DEF DecodeUnknownField, SkipField, f, g

LEMMA TaggedAgree ==
  ASSUME NEW b \in Seq(Byte), NEW limit \in Nat
  PROVE  Agree(Keep(b, limit), Skip(b, limit))
<1> DEFINE tag == DecodeTag(From(b, 0))
           at == 0 + tag.used
           k == DecodeUnknownField(From(b, at), tag.val.number, tag.val.wire, limit)
           s == SkipField(From(b, at), tag.val.wire, limit)
<1>1. Keep(b, limit) = IF tag.ok THEN IF k.ok THEN Ok(k.val, at + k.used) ELSE k ELSE tag
  BY DEF Keep, AfterTag, Then
<1>2. Skip(b, limit) = IF tag.ok THEN IF s.ok THEN Ok("skipped", at + s.used) ELSE s ELSE tag
  BY DEF Skip, AfterTag, Then
<1>3. TagFound(b, 0, tag)
  BY TagStep
<1>4. tag.ok => at \in Nat /\ tag.val.wire \in WireTypes /\ tag.val.number \in Nat
  BY <1>3 DEF TagFound
<1> HIDE DEF tag, at
<1>5. tag.ok => Agree(k, s)
  <2> SUFFICES ASSUME tag.ok PROVE Agree(k, s)
    OBVIOUS
  <2>1. From(b, at) \in Seq(Byte)
    BY <1>4, FromIs
  <2> QED BY <1>4, <2>1, FieldsAgree
<1> HIDE DEF k, s
<1>6. CASE ~tag.ok
  BY <1>1, <1>2, <1>6 DEF Agree
<1>7. CASE tag.ok /\ k.ok
  <2>1. s = Ok("skipped", k.used)
    BY <1>5, <1>7 DEF Agree
  <2>2. s.ok /\ s.used = k.used
    BY <2>1 DEF Ok
  <2> QED BY <1>1, <1>2, <1>7, <2>2 DEF Agree, Ok
<1>8. CASE tag.ok /\ ~k.ok
  <2>1. Keep(b, limit) = k
    BY <1>1, <1>8
  <2>2. k.err \notin {"Custom", "panic"} => s = k
    BY <1>5, <1>8 DEF Agree
  <2> QED BY <1>2, <1>8, <2>1, <2>2 DEF Agree
<1> QED BY <1>6, <1>7, <1>8

(* Whatever the bytes and the nesting limit: skip_field ends where         *)
(* decode_unknown_field ends, and accepts nothing that the other refuses   *)
(* but a stray or foreign EndGroup tag and a length that wraps.            *)
THEOREM SkipsWhatIsKept == Spec => []SkipAgrees
<1>1. Buffer => SkipAgrees
  <2> SUFFICES ASSUME Buffer PROVE SkipAgrees
    OBVIOUS
  <2> DEFINE k == Keep(buf, MaxNesting)
             s == Skip(buf, MaxNesting)
  <2>1. Agree(k, s)
    BY NestingAssumption, TaggedAgree DEF Buffer
  <2> HIDE DEF k, s
  <2>2. /\ k.ok => s = Ok("skipped", k.used)
        /\ s.ok /\ ~k.ok => k.err \in {"Custom", "panic"}
    BY <2>1 DEF Agree
  <2> QED BY <2>2 DEF SkipAgrees, k, s
<1> QED BY <1>1, BufferInvariant, PTL

-----------------------------------------------------------------------------
(* More bytes.                                                             *)
Prefix(b, c) ==
    /\ b \in Seq(Byte) /\ c \in Seq(Byte) /\ Len(b) <= Len(c)
    /\ \A i \in 1 .. Len(b) : c[i] = b[i]

(* An answer that stands when more bytes have come. *)
Stands(answer, later) == Final(answer) => later = answer

LEMMA FromPrefix ==
  ASSUME NEW b, NEW c, Prefix(b, c), NEW p \in Nat
  PROVE  Prefix(From(b, p), From(c, p))
<1>1. /\ b \in Seq(Byte) /\ c \in Seq(Byte) /\ Len(b) <= Len(c)
      /\ \A i \in 1 .. Len(b) : c[i] = b[i]
      /\ Len(b) \in Nat /\ Len(c) \in Nat
  BY DEF Prefix
<1> DEFINE bp == From(b, p)
           cp == From(c, p)
<1>2. /\ bp \in Seq(Byte) /\ Len(bp) = (IF p <= Len(b) THEN Len(b) - p ELSE 0)
      /\ \A i \in 1 .. Len(b) - p : bp[i] = b[p + i]
  BY <1>1, FromIs
<1>3. /\ cp \in Seq(Byte) /\ Len(cp) = (IF p <= Len(c) THEN Len(c) - p ELSE 0)
      /\ \A i \in 1 .. Len(c) - p : cp[i] = c[p + i]
  BY <1>1, FromIs
<1> HIDE DEF bp, cp
<1>4. Len(bp) <= Len(cp)
  BY <1>1, <1>2, <1>3
<1>5. ASSUME NEW i \in 1 .. Len(bp) PROVE cp[i] = bp[i]
  <2>1. i \in 1 .. Len(b) - p /\ i \in 1 .. Len(c) - p /\ p + i \in 1 .. Len(b)
    BY <1>1, <1>2
  <2>2. bp[i] = b[p + i] /\ cp[i] = c[p + i]
    BY <1>2, <1>3, <2>1
  <2>3. c[p + i] = b[p + i]
    BY <1>1, <2>1
  <2> QED BY <2>2, <2>3
<1>6. Prefix(bp, cp)
  BY <1>2, <1>3, <1>4, <1>5 DEF Prefix
<1> QED BY <1>6 DEF bp, cp

LEMMA TagStands ==
  ASSUME NEW b, NEW c, Prefix(b, c)
  PROVE  Stands(DecodeVarint(b), DecodeVarint(c)) /\ Stands(DecodeTag(b), DecodeTag(c))
<1>1. /\ b \in Seq(Byte) /\ c \in Seq(Byte) /\ Len(b) <= Len(c)
      /\ \A i \in 1 .. Len(b) : c[i] = b[i]
  BY DEF Prefix
<1>2. Stands(DecodeVarint(b), DecodeVarint(c))
  BY <1>1, VarintFinal DEF Stands
<1>3. Stands(DecodeTag(b), DecodeTag(c))
  BY <1>1, TagFinal DEF Stands
<1> QED BY <1>2, <1>3

LEMMA FixedStands ==
  ASSUME NEW b, NEW c, Prefix(b, c), NEW len \in Nat
  PROVE  Stands(DecodeFixed(b, len), DecodeFixed(c, len))
<1>1. /\ b \in Seq(Byte) /\ c \in Seq(Byte) /\ Len(b) <= Len(c)
      /\ \A i \in 1 .. Len(b) : c[i] = b[i]
      /\ Len(b) \in Nat /\ Len(c) \in Nat
  BY DEF Prefix
<1>2. CASE Len(b) < len
  BY <1>2 DEF DecodeFixed, Stands, Final, Fail
<1>3. CASE ~(Len(b) < len)
  <2>1. \A i \in 1 .. len : c[i] = b[i]
    BY <1>1, <1>3
  <2>2. SubSeq(c, 1, len) = SubSeq(b, 1, len)
    BY <1>1, <1>3, <2>1
  <2>3. DecodeFixed(b, len) = Ok(SubSeq(b, 1, len), len)
    BY <1>3 DEF DecodeFixed
  <2>4. DecodeFixed(c, len) = Ok(SubSeq(c, 1, len), len)
    BY <1>1, <1>3 DEF DecodeFixed
  <2>5. DecodeFixed(c, len) = DecodeFixed(b, len)
    BY <2>2, <2>3, <2>4
  <2> QED BY <2>5 DEF Stands
<1> QED BY <1>2, <1>3

LEMMA DelimitedStands ==
  ASSUME NEW b, NEW c, Prefix(b, c)
  PROVE  Stands(Delimited(b), Delimited(c)) /\ Stands(Content(b), Content(c))
<1>1. /\ b \in Seq(Byte) /\ c \in Seq(Byte) /\ Len(b) <= Len(c)
      /\ \A i \in 1 .. Len(b) : c[i] = b[i]
      /\ Len(b) \in Nat /\ Len(c) \in Nat
  BY DEF Prefix
<1>2. Stands(Delimited(b), Delimited(c))
  <2>1. Stands(DecodeVarint(b), DecodeVarint(c))
    BY TagStands
  <2>2. CASE ~DecodeVarint(b).ok
    <3>1. Delimited(b) = DecodeVarint(b)
      BY <2>2 DEF Delimited, Then
    <3>2. DecodeVarint(c) = DecodeVarint(b) => Delimited(c) = DecodeVarint(b)
      BY <2>2 DEF Delimited, Then
    <3> QED BY <2>1, <3>1, <3>2 DEF Stands
  <2>3. CASE DecodeVarint(b).ok
    <3>1. PICK v \in 0 .. Pow2[Width] - 1, n \in 1 .. Len(b) : DecodeVarint(b) = Ok(v, n)
      BY <1>1, <2>3, VarintRead
    <3>2. DecodeVarint(c) = Ok(v, n)
      BY <2>1, <2>3, <3>1 DEF Stands, Final
    <3> DEFINE end == Unsigned(n + v, Width)
    <3>3. /\ Delimited(b) = IF end > Len(b) THEN Fail("UnexpectedEof") ELSE Ok(n, end)
          /\ Delimited(c) = IF end > Len(c) THEN Fail("UnexpectedEof") ELSE Ok(n, end)
      BY <3>1, <3>2, DelimitedCases
    <3>4. end \in Nat
      <4>1. Width \in Nat
        BY Widths
      <4>2. Pow2[Width] \in Nat \ {0}
        BY <4>1, Pow2Type
      <4>3. n + v \in Nat
        BY <1>1, <4>2
      <4> QED BY <4>2, <4>3, DivMod DEF Unsigned
    <3> HIDE DEF end
    <3>5. CASE end > Len(b)
      BY <3>3, <3>5 DEF Stands, Final, Fail
    <3>6. CASE ~(end > Len(b))
      BY <1>1, <3>3, <3>4, <3>6 DEF Stands
    <3> QED BY <3>5, <3>6
  <2> QED BY <2>2, <2>3
<1>3. Stands(Content(b), Content(c))
  <2>1. CASE ~Delimited(b).ok
    <3>1. Content(b) = Delimited(b)
      BY <2>1 DEF Content, Then
    <3>2. Delimited(c) = Delimited(b) => Content(c) = Delimited(b)
      BY <2>1 DEF Content, Then
    <3> QED BY <1>2, <3>1, <3>2 DEF Stands
  <2>2. CASE Delimited(b).ok
    <3>1. PICK start \in Nat, end \in Nat : end <= Len(b) /\ Delimited(b) = Ok(start, end)
      BY <1>1, <2>2, DelimitedRead
    <3>2. Delimited(c) = Ok(start, end)
      BY <1>2, <2>2, <3>1 DEF Stands, Final
    <3>3. Content(b) = IF end < start THEN Fail("panic") ELSE Ok(SubSeq(b, start + 1, end), end)
      BY <3>1 DEF Content, Then, Ok
    <3>4. Content(c) = IF end < start THEN Fail("panic") ELSE Ok(SubSeq(c, start + 1, end), end)
      BY <3>2 DEF Content, Then, Ok
    <3>5. SubSeq(c, start + 1, end) = SubSeq(b, start + 1, end)
      BY <1>1, <3>1
    <3>6. Content(c) = Content(b)
      <4>1. CASE end < start
        BY <3>3, <3>4, <4>1
      <4>2. CASE ~(end < start)
        BY <3>3, <3>4, <3>5, <4>2
      <4> QED BY <4>1, <4>2
    <3> QED BY <3>6 DEF Stands
  <2> QED BY <2>1, <2>2
<1> QED BY <1>2, <1>3

LEMMA PlainStands ==
  ASSUME NEW b, NEW c, Prefix(b, c), NEW wire \in WireTypes, wire # "StartGroup"
  PROVE  /\ Stands(SkipPlain(b, wire), SkipPlain(c, wire))
         /\ Stands(DecodePlain(b, wire), DecodePlain(c, wire))
<1>1. Stands(DecodeFixed64(b), DecodeFixed64(c)) /\ Stands(DecodeFixed32(b), DecodeFixed32(c))
  BY WidthsAssumption, FixedStands DEF DecodeFixed64, DecodeFixed32
<1>2. /\ Stands(DecodeVarint(b), DecodeVarint(c))
      /\ Stands(Delimited(b), Delimited(c)) /\ Stands(Content(b), Content(c))
  BY TagStands, DelimitedStands
<1>3. \A a : Stands(a, a)
  BY DEF Stands
<1>4. wire \in {"Varint", "Fixed64", "LengthDelimited", "EndGroup", "Fixed32"}
  BY WireNames
<1> QED BY <1>1, <1>2, <1>3, <1>4 DEF SkipPlain, DecodePlain

LEMMA SkipValueStands ==
  ASSUME NEW b, NEW c, Prefix(b, c), NEW at \in Nat, NEW wire \in WireTypes,
         NEW limit \in Nat, NEW f, NEW g,
         limit # 0 => Stands(f[limit - 1][at], g[limit - 1][at])
  PROVE  Stands(SkipValue(b, at, wire, limit, f), SkipValue(c, at, wire, limit, g))
<1> DEFINE v == SkipValue(b, at, wire, limit, f)
           w == SkipValue(c, at, wire, limit, g)
<1>1. CASE wire = "StartGroup"
  <2>1. v = IF limit = 0 THEN Fail("RecursionLimitExceeded") ELSE f[limit - 1][at]
    BY <1>1, SkipValueIs
  <2>2. w = IF limit = 0 THEN Fail("RecursionLimitExceeded") ELSE g[limit - 1][at]
    BY <1>1, SkipValueIs
  <2> HIDE DEF v, w
  <2>3. Stands(v, w)
    BY <2>1, <2>2 DEF Stands
  <2> QED BY <2>3 DEF v, w
<1>2. CASE wire # "StartGroup"
  <2> DEFINE r == SkipPlain(From(b, at), wire)
             s == SkipPlain(From(c, at), wire)
  <2>1. Stands(r, s)
    <3>1. Prefix(From(b, at), From(c, at))
      BY FromPrefix
    <3> QED BY <1>2, <3>1, PlainStands
  <2>2. v = IF r.ok THEN Ok("skipped", at + r.used) ELSE r
    BY <1>2, SkipValueIs
  <2>3. w = IF s.ok THEN Ok("skipped", at + s.used) ELSE s
    BY <1>2, SkipValueIs
  <2> HIDE DEF r, s, v, w
  <2>4. Stands(v, w)
    BY <2>1, <2>2, <2>3 DEF Stands, Final
  <2> QED BY <2>4 DEF v, w
<1> QED BY <1>1, <1>2

LEMMA DecodeValueStands ==
  ASSUME NEW b, NEW c, Prefix(b, c), NEW at \in Nat, NEW number \in Nat, NEW wire \in WireTypes,
         NEW limit \in Nat, NEW f, NEW g,
         limit # 0 => Stands(f[limit - 1][number][at], g[limit - 1][number][at])
  PROVE  Stands(DecodeValue(b, at, number, wire, limit, f), DecodeValue(c, at, number, wire, limit, g))
<1> DEFINE v == ValueRead(b, at, number, wire, limit, f)
           w == ValueRead(c, at, number, wire, limit, g)
<1>1. Stands(v, w)
  <2>1. CASE wire = "StartGroup"
    <3>1. v = IF limit = 0 THEN Fail("RecursionLimitExceeded") ELSE f[limit - 1][number][at]
      BY <2>1 DEF ValueRead
    <3>2. w = IF limit = 0 THEN Fail("RecursionLimitExceeded") ELSE g[limit - 1][number][at]
      BY <2>1 DEF ValueRead
    <3> HIDE DEF v, w
    <3> QED BY <3>1, <3>2 DEF Stands
  <2>2. CASE wire # "StartGroup"
    <3> DEFINE r == DecodePlain(From(b, at), wire)
               s == DecodePlain(From(c, at), wire)
    <3>1. Stands(r, s)
      <4>1. Prefix(From(b, at), From(c, at))
        BY FromPrefix
      <4> QED BY <2>2, <4>1, PlainStands
    <3>2. v = IF r.ok THEN Ok(r.val, at + r.used) ELSE r
      BY <2>2 DEF ValueRead
    <3>3. w = IF s.ok THEN Ok(s.val, at + s.used) ELSE s
      BY <2>2 DEF ValueRead
    <3> HIDE DEF r, s, v, w
    <3> QED BY <3>1, <3>2, <3>3 DEF Stands, Final
  <2> QED BY <2>1, <2>2
<1> DEFINE V == DecodeValue(b, at, number, wire, limit, f)
           W == DecodeValue(c, at, number, wire, limit, g)
<1>2. V = IF v.ok THEN Ok(UnknownField(number, wire, v.val), v.used) ELSE v
  BY DecodeValueIs
<1>3. W = IF w.ok THEN Ok(UnknownField(number, wire, w.val), w.used) ELSE w
  BY DecodeValueIs
<1> HIDE DEF v, w, V, W
<1>4. Stands(V, W)
  BY <1>1, <1>2, <1>3 DEF Stands, Final
<1> QED BY <1>4 DEF V, W

SkipsStand(f, g, p) == \A k \in Nat, q \in Nat : q > p => Stands(f[k][q], g[k][q])
KeepsStand(f, g, p) ==
    \A k \in Nat, n \in Nat, q \in Nat : q > p => Stands(f[k][n][q], g[k][n][q])

LEMMA SkipTurnStands ==
  ASSUME NEW b, NEW c, Prefix(b, c), NEW p \in Nat, NEW limit \in Nat,
         NEW f, NEW g, SkipAhead(f, p), SkipsStand(f, g, p)
  PROVE  Stands(SkipTurn(b, f, limit, p), SkipTurn(c, g, limit, p))
<1> DEFINE tag == DecodeTag(From(b, p))
           tagc == DecodeTag(From(c, p))
           at == p + tag.used
           v == SkipValue(b, at, tag.val.wire, limit, f)
           w == SkipValue(c, at, tag.val.wire, limit, g)
           rest == f[limit][v.used]
           more == g[limit][v.used]
<1>1. SkipTurn(b, f, limit, p) =
         IF ~tag.ok THEN tag
         ELSE IF tag.val.wire = "EndGroup" THEN Ok("skipped", at)
         ELSE IF ~v.ok THEN v
         ELSE rest
  BY DEF SkipTurn
<1>2. /\ ~tagc.ok => SkipTurn(c, g, limit, p) = tagc
      /\ tagc = tag =>
            SkipTurn(c, g, limit, p) =
               IF ~tag.ok THEN tag
               ELSE IF tag.val.wire = "EndGroup" THEN Ok("skipped", at)
               ELSE IF ~w.ok THEN w
               ELSE g[limit][w.used]
  BY DEF SkipTurn
<1>3. b \in Seq(Byte)
  BY DEF Prefix
<1>4. TagFound(b, p, tag)
  BY <1>3, TagStep
<1>5. tag.ok => at \in Nat /\ at > p /\ tag.val.wire \in WireTypes
  BY <1>4 DEF TagFound
<1>6. Stands(tag, tagc)
  <2>1. Prefix(From(b, p), From(c, p))
    BY FromPrefix
  <2> QED BY <2>1, TagStands
<1>7. tag.ok => Reaches(v, at)
  <2> HIDE DEF tag, at
  <2> QED BY <1>3, <1>5, SkipValueReaches DEF v
<1>8. tag.ok => Stands(v, w)
  <2> SUFFICES ASSUME tag.ok PROVE Stands(v, w)
    OBVIOUS
  <2> HIDE DEF tag, at
  <2>1. limit # 0 => Stands(f[limit - 1][at], g[limit - 1][at])
    BY <1>5 DEF SkipsStand
  <2> QED BY <1>5, <2>1, SkipValueStands DEF v, w
<1> HIDE DEF tag, tagc, at, v, w
<1>9. tag.ok /\ v.ok => Stands(rest, more)
  <2> SUFFICES ASSUME tag.ok, v.ok PROVE Stands(rest, more)
    OBVIOUS
  <2>1. v.used \in Nat /\ v.used > p
    BY <1>5, <1>7 DEF Reaches
  <2> QED BY <2>1 DEF SkipsStand
<1>10. CASE ~tag.ok
  BY <1>1, <1>2, <1>6, <1>10 DEF Stands
<1>11. CASE tag.ok
  <2>1. tagc = tag
    BY <1>6, <1>11 DEF Stands, Final
  <2>2. CASE tag.val.wire = "EndGroup"
    BY <1>1, <1>2, <1>11, <2>1, <2>2 DEF Stands
  <2>3. CASE tag.val.wire # "EndGroup" /\ ~v.ok
    <3>1. SkipTurn(b, f, limit, p) = v
      BY <1>1, <1>11, <2>3
    <3>2. w = v => SkipTurn(c, g, limit, p) = v
      BY <1>2, <1>11, <2>1, <2>3
    <3> QED BY <1>8, <1>11, <3>1, <3>2 DEF Stands
  <2>4. CASE tag.val.wire # "EndGroup" /\ v.ok
    <3>1. SkipTurn(b, f, limit, p) = rest
      BY <1>1, <1>11, <2>4
    <3>2. w = v
      BY <1>8, <1>11, <2>4 DEF Stands, Final
    <3>3. SkipTurn(c, g, limit, p) = more
      BY <1>2, <1>11, <2>1, <2>4, <3>2
    <3> QED BY <1>9, <1>11, <2>4, <3>1, <3>3
  <2> QED BY <2>2, <2>3, <2>4
<1> QED BY <1>10, <1>11

LEMMA KeepTurnStands ==
  ASSUME NEW b, NEW c, Prefix(b, c), NEW p \in Nat, NEW limit \in Nat, NEW number \in Nat,
         NEW f, NEW g, KeepAhead(f, p), KeepsStand(f, g, p)
  PROVE  Stands(KeepTurn(b, f, limit, number, p), KeepTurn(c, g, limit, number, p))
<1> DEFINE tag == DecodeTag(From(b, p))
           tagc == DecodeTag(From(c, p))
           at == p + tag.used
           v == DecodeValue(b, at, tag.val.number, tag.val.wire, limit, f)
           w == DecodeValue(c, at, tag.val.number, tag.val.wire, limit, g)
           rest == f[limit][number][v.used]
           more == g[limit][number][v.used]
           End == IF tag.val.number = number THEN Ok(<<>>, at) ELSE Fail("Custom")
           Put(r) == IF ~r.ok THEN r ELSE Ok(<<v.val>> \o r.val, r.used)
<1>1. KeepTurn(b, f, limit, number, p) =
         IF ~tag.ok THEN tag
         ELSE IF tag.val.wire = "EndGroup" THEN End
         ELSE IF ~v.ok THEN v
         ELSE Put(rest)
  BY DEF KeepTurn
<1>2. /\ ~tagc.ok => KeepTurn(c, g, limit, number, p) = tagc
      /\ tagc = tag =>
            KeepTurn(c, g, limit, number, p) =
               IF ~tag.ok THEN tag
               ELSE IF tag.val.wire = "EndGroup" THEN End
               ELSE IF ~w.ok THEN w
               ELSE IF ~g[limit][number][w.used].ok THEN g[limit][number][w.used]
               ELSE Ok(<<w.val>> \o g[limit][number][w.used].val, g[limit][number][w.used].used)
  BY DEF KeepTurn
<1>3. b \in Seq(Byte)
  BY DEF Prefix
<1>4. TagFound(b, p, tag)
  BY <1>3, TagStep
<1>5. tag.ok => at \in Nat /\ at > p /\ tag.val.wire \in WireTypes /\ tag.val.number \in Nat
  BY <1>4 DEF TagFound
<1>6. Stands(tag, tagc)
  <2>1. Prefix(From(b, p), From(c, p))
    BY FromPrefix
  <2> QED BY <2>1, TagStands
<1>7. tag.ok => Reaches(v, at)
  <2> HIDE DEF tag, at
  <2> QED BY <1>3, <1>5, DecodeValueReaches DEF v
<1>8. tag.ok => Stands(v, w)
  <2> SUFFICES ASSUME tag.ok PROVE Stands(v, w)
    OBVIOUS
  <2> HIDE DEF tag, at
  <2>1. limit # 0 => Stands(f[limit - 1][tag.val.number][at], g[limit - 1][tag.val.number][at])
    BY <1>5 DEF KeepsStand
  <2> QED BY <1>5, <2>1, DecodeValueStands DEF v, w
<1> HIDE DEF tag, tagc, at, v, w, End
<1>9. tag.ok /\ v.ok => Stands(rest, more)
  <2> SUFFICES ASSUME tag.ok, v.ok PROVE Stands(rest, more)
    OBVIOUS
  <2>1. v.used \in Nat /\ v.used > p
    BY <1>5, <1>7 DEF Reaches
  <2> QED BY <2>1 DEF KeepsStand
<1>10. CASE ~tag.ok
  BY <1>1, <1>2, <1>6, <1>10 DEF Stands
<1>11. CASE tag.ok
  <2>1. tagc = tag
    BY <1>6, <1>11 DEF Stands, Final
  <2>2. CASE tag.val.wire = "EndGroup"
    BY <1>1, <1>2, <1>11, <2>1, <2>2 DEF Stands
  <2>3. CASE tag.val.wire # "EndGroup" /\ ~v.ok
    <3>1. KeepTurn(b, f, limit, number, p) = v
      BY <1>1, <1>11, <2>3
    <3>2. w = v => KeepTurn(c, g, limit, number, p) = v
      BY <1>2, <1>11, <2>1, <2>3
    <3> QED BY <1>8, <1>11, <3>1, <3>2 DEF Stands
  <2>4. CASE tag.val.wire # "EndGroup" /\ v.ok
    <3>1. KeepTurn(b, f, limit, number, p) = Put(rest)
      BY <1>1, <1>11, <2>4
    <3>2. w = v
      BY <1>8, <1>11, <2>4 DEF Stands, Final
    <3>3. KeepTurn(c, g, limit, number, p) = Put(more)
      BY <1>2, <1>11, <2>1, <2>4, <3>2
    <3> HIDE DEF rest, more
    <3>4. Stands(rest, more)
      BY <1>9, <1>11, <2>4
    <3>5. Stands(Put(rest), Put(more))
      <4>1. CASE rest.ok
        BY <3>4, <4>1 DEF Stands, Final
      <4>2. CASE ~rest.ok
        BY <3>4, <4>2 DEF Stands
      <4> QED BY <4>1, <4>2
    <3> QED BY <3>1, <3>3, <3>5
  <2> QED BY <2>2, <2>3, <2>4
<1> QED BY <1>10, <1>11

LEMMA GroupsStand ==
  ASSUME NEW b, NEW c, Prefix(b, c), NEW limit \in Nat, NEW number \in Nat, NEW p \in Nat
  PROVE  /\ Stands(SkipGroup(b)[limit][p], SkipGroup(c)[limit][p])
         /\ Stands(DecodeGroup(b)[limit][number][p], DecodeGroup(c)[limit][number][p])
<1> DEFINE f == SkipGroup(b)
           g == SkipGroup(c)
           h == DecodeGroup(b)
           j == DecodeGroup(c)
           T == {q \in Nat : \A k \in Nat, n \in Nat : /\ Stands(f[k][q], g[k][q])
                                                    /\ Stands(h[k][n][q], j[k][n][q])}
<1>0. b \in Seq(Byte) /\ c \in Seq(Byte) /\ Len(b) \in Nat
  BY DEF Prefix
<1>1. ASSUME NEW q \in Nat, q < Len(b) => \A r \in Nat : r > q => r \in T
      PROVE  q \in T
  <2> SUFFICES ASSUME NEW k \in Nat, NEW n \in Nat
               PROVE  Stands(f[k][q], g[k][q]) /\ Stands(h[k][n][q], j[k][n][q])
    OBVIOUS
  <2>1. f[k][q] = SkipTurn(b, f, k, q) /\ g[k][q] = SkipTurn(c, g, k, q)
    BY <1>0, SkipGroupIs DEF IsSkip
  <2>2. h[k][n][q] = KeepTurn(b, h, k, n, q) /\ j[k][n][q] = KeepTurn(c, j, k, n, q)
    BY <1>0, KeepGroupIs DEF IsKeep
  <2>3. SkipAhead(f, q) /\ KeepAhead(h, q)
    BY <1>0, SkipGroupPasses, KeepGroupPasses
  <2> HIDE DEF f, g, h, j
  <2>4. CASE q < Len(b)
    <3>1. SkipsStand(f, g, q)
      BY <1>1, <2>4 DEF SkipsStand
    <3>2. KeepsStand(h, j, q)
      BY <1>1, <2>4 DEF KeepsStand
    <3>3. Stands(SkipTurn(b, f, k, q), SkipTurn(c, g, k, q))
      BY <2>3, <3>1, SkipTurnStands
    <3>4. Stands(KeepTurn(b, h, k, n, q), KeepTurn(c, j, k, n, q))
      BY <2>3, <3>2, KeepTurnStands
    <3> QED BY <2>1, <2>2, <3>3, <3>4
  <2>5. CASE ~(q < Len(b))
    <3> DEFINE tag == DecodeTag(From(b, q))
               tagc == DecodeTag(From(c, q))
    <3>1. TagFound(b, q, tag)
      BY <1>0, TagStep
    <3>2. Stands(tag, tagc)
      <4>1. Prefix(From(b, q), From(c, q))
        BY FromPrefix
      <4> QED BY <4>1, TagStands
    <3>3. ~tag.ok
      BY <1>0, <2>5, <3>1 DEF TagFound
    <3>4. f[k][q] = tag /\ h[k][n][q] = tag
      BY <2>1, <2>2, <3>3 DEF SkipTurn, KeepTurn
    <3>5. ~tagc.ok => g[k][q] = tagc /\ j[k][n][q] = tagc
      BY <2>1, <2>2 DEF SkipTurn, KeepTurn
    <3> HIDE DEF tag, tagc
    <3> QED BY <3>2, <3>3, <3>4, <3>5 DEF Stands
  <2> QED BY <2>4, <2>5
<1>2. Nat \subseteq T
  <2> HIDE DEF T
  <2> QED BY <1>0, <1>1, BackwardInduction
<1>3. Stands(f[limit][p], g[limit][p]) /\ Stands(h[limit][number][p], j[limit][number][p])
  BY <1>2
<1> QED BY <1>3

LEMMA FieldsStand ==
  ASSUME NEW b, NEW c, Prefix(b, c), NEW number \in Nat, NEW wire \in WireTypes, NEW limit \in Nat
  PROVE  /\ Stands(SkipField(b, wire, limit), SkipField(c, wire, limit))
         /\ Stands(DecodeUnknownField(b, number, wire, limit), DecodeUnknownField(c, number, wire, limit))
<1> DEFINE f == SkipGroup(b)
           g == SkipGroup(c)
           h == DecodeGroup(b)
           j == DecodeGroup(c)
<1>1. limit # 0 => /\ Stands(f[limit - 1][0], g[limit - 1][0])
                   /\ Stands(h[limit - 1][number][0], j[limit - 1][number][0])
  <2> SUFFICES ASSUME limit # 0
               PROVE  /\ Stands(f[limit - 1][0], g[limit - 1][0])
                      /\ Stands(h[limit - 1][number][0], j[limit - 1][number][0])
    OBVIOUS
  <2>1. limit - 1 \in Nat
    OBVIOUS
  <2> QED BY <2>1, GroupsStand
<1> HIDE DEF f, g, h, j
<1>2. Stands(SkipValue(b, 0, wire, limit, f), SkipValue(c, 0, wire, limit, g))
  BY <1>1, SkipValueStands
<1>3. Stands(DecodeValue(b, 0, number, wire, limit, h), DecodeValue(c, 0, number, wire, limit, j))
  BY <1>1, DecodeValueStands
<1> QED BY <1>2, <1>3 DEF SkipField, DecodeUnknownField, f, g, h, j

LEMMA TaggedStand ==
  ASSUME NEW b, NEW c, Prefix(b, c), NEW limit \in Nat
  PROVE  Stands(Keep(b, limit), Keep(c, limit)) /\ Stands(Skip(b, limit), Skip(c, limit))
<1> DEFINE tag == DecodeTag(From(b, 0))
           tagc == DecodeTag(From(c, 0))
           at == 0 + tag.used
           k == DecodeUnknownField(From(b, at), tag.val.number, tag.val.wire, limit)
           s == SkipField(From(b, at), tag.val.wire, limit)
           l == DecodeUnknownField(From(c, at), tag.val.number, tag.val.wire, limit)
           r == SkipField(From(c, at), tag.val.wire, limit)
<1>1. /\ Keep(b, limit) = IF tag.ok THEN IF k.ok THEN Ok(k.val, at + k.used) ELSE k ELSE tag
      /\ Skip(b, limit) = IF tag.ok THEN IF s.ok THEN Ok("skipped", at + s.used) ELSE s ELSE tag
  BY DEF Keep, Skip, AfterTag, Then
<1>2. /\ tagc = tag => Keep(c, limit) = IF tag.ok THEN IF l.ok THEN Ok(l.val, at + l.used) ELSE l ELSE tag
      /\ tagc = tag => Skip(c, limit) = IF tag.ok THEN IF r.ok THEN Ok("skipped", at + r.used) ELSE r ELSE tag
  BY DEF Keep, Skip, AfterTag, Then
<1>3. b \in Seq(Byte)
  BY DEF Prefix
<1>4. TagFound(b, 0, tag)
  BY <1>3, TagStep
<1>5. tag.ok => at \in Nat /\ tag.val.wire \in WireTypes /\ tag.val.number \in Nat
  BY <1>4 DEF TagFound
<1>6. Stands(tag, tagc)
  <2>1. Prefix(From(b, 0), From(c, 0))
    BY FromPrefix
  <2> QED BY <2>1, TagStands
<1> HIDE DEF tag, tagc, at
<1>7. tag.ok => Stands(k, l) /\ Stands(s, r)
  <2> SUFFICES ASSUME tag.ok PROVE Stands(k, l) /\ Stands(s, r)
    OBVIOUS
  <2>1. Prefix(From(b, at), From(c, at))
    BY <1>5, FromPrefix
  <2> QED BY <1>5, <2>1, FieldsStand
<1> HIDE DEF k, s, l, r
<1>8. CASE ~tag.ok
  BY <1>1, <1>2, <1>6, <1>8 DEF Stands
<1>9. CASE tag.ok
  <2>1. tagc = tag
    BY <1>6, <1>9 DEF Stands, Final
  <2>2. Stands(Keep(b, limit), Keep(c, limit))
    BY <1>1, <1>2, <1>7, <1>9, <2>1 DEF Stands, Final
  <2>3. Stands(Skip(b, limit), Skip(c, limit))
    BY <1>1, <1>2, <1>7, <1>9, <2>1 DEF Stands, Final
  <2> QED BY <2>2, <2>3
<1> QED BY <1>8, <1>9

(* However the bytes arrive in pieces, and however groups are nested: no   *)
(* answer but UnexpectedEof is changed by bytes that come later.           *)
THEOREM FieldVerdictsAreFinal == Spec => VerdictsFinal
<1> DEFINE FieldsFinal ==
        /\ ReadsFinal
        /\ Final(Keep(buf, MaxNesting)) => Keep(buf', MaxNesting) = Keep(buf, MaxNesting)
        /\ Final(Skip(buf, MaxNesting)) => Skip(buf', MaxNesting) = Skip(buf, MaxNesting)
<1>1. Buffer /\ [Next]_buf => [FieldsFinal]_buf
  <2> SUFFICES ASSUME Buffer, Feed PROVE FieldsFinal
    BY DEF Next
  <2>1. PICK x \in Byte : buf' = Append(buf, x)
    BY DEF Feed
  <2>2. buf \in Seq(Byte)
    BY DEF Buffer
  <2>3. Prefix(buf, buf')
    BY <2>1, <2>2 DEF Prefix
  <2>4. ReadsFinal
    BY <2>2, <2>3, TagStands DEF Stands, ReadsFinal
  <2>5. /\ Stands(Keep(buf, MaxNesting), Keep(buf', MaxNesting))
        /\ Stands(Skip(buf, MaxNesting), Skip(buf', MaxNesting))
    BY <2>3, NestingAssumption, TaggedStand
  <2> QED BY <2>4, <2>5 DEF Stands
<1> QED BY <1>1, BufferInvariant, PTL DEF Spec, VerdictsFinal

-----------------------------------------------------------------------------
(* Nesting limits.  An answer under a lower limit: the same, or a refusal  *)
(* for the nesting.                                                        *)
Lowered(low, high) == low = high \/ low = Fail("RecursionLimitExceeded")

LEMMA LoweredValue ==
  ASSUME NEW b \in Seq(Byte), NEW at \in Nat, NEW number \in Nat, NEW wire \in WireTypes,
         NEW l \in Nat, NEW m \in Nat, l <= m, NEW f,
         l # 0 => Lowered(f[l - 1][number][at], f[m - 1][number][at])
  PROVE  Lowered(DecodeValue(b, at, number, wire, l, f), DecodeValue(b, at, number, wire, m, f))
<1> DEFINE r == ValueRead(b, at, number, wire, l, f)
           s == ValueRead(b, at, number, wire, m, f)
           V == DecodeValue(b, at, number, wire, l, f)
           W == DecodeValue(b, at, number, wire, m, f)
<1>1. Lowered(r, s)
  <2>1. CASE wire = "StartGroup"
    <3>1. CASE l = 0
      BY <2>1, <3>1 DEF ValueRead, Lowered
    <3>2. CASE l # 0
      <4>1. r = f[l - 1][number][at] /\ s = f[m - 1][number][at]
        BY <2>1, <3>2 DEF ValueRead
      <4> QED BY <3>2, <4>1
    <3> QED BY <3>1, <3>2
  <2>2. CASE wire # "StartGroup"
    <3>1. r = s
      BY <2>2 DEF ValueRead
    <3> QED BY <3>1 DEF Lowered
  <2> QED BY <2>1, <2>2
<1>2. V = IF r.ok THEN Ok(UnknownField(number, wire, r.val), r.used) ELSE r
  BY DecodeValueIs
<1>3. W = IF s.ok THEN Ok(UnknownField(number, wire, s.val), s.used) ELSE s
  BY DecodeValueIs
<1> HIDE DEF r, s, V, W
<1>4. Lowered(V, W)
  <2>1. CASE r = s
    <3>1. V = W
      BY <1>2, <1>3, <2>1
    <3> QED BY <3>1 DEF Lowered
  <2>2. CASE r = Fail("RecursionLimitExceeded")
    <3>1. ~r.ok
      BY <2>2 DEF Fail
    <3>2. V = r
      BY <1>2, <3>1
    <3> QED BY <2>2, <3>2 DEF Lowered
  <2> QED BY <1>1, <2>1, <2>2 DEF Lowered
<1> QED BY <1>4 DEF V, W

LoweredAfter(f, l, m, p) ==
    \A n \in Nat, q \in Nat : q > p => Lowered(f[l][n][q], f[m][n][q])

LEMMA LoweredTurn ==
  ASSUME NEW b \in Seq(Byte), NEW p \in Nat, NEW number \in Nat,
         NEW l \in Nat, NEW m \in Nat, l <= m, NEW f, KeepAhead(f, p),
         LoweredAfter(f, l, m, p), l # 0 => LoweredAfter(f, l - 1, m - 1, p)
  PROVE  Lowered(KeepTurn(b, f, l, number, p), KeepTurn(b, f, m, number, p))
<1> DEFINE tag == DecodeTag(From(b, p))
           at == p + tag.used
           V(k) == DecodeValue(b, at, tag.val.number, tag.val.wire, k, f)
           End == IF tag.val.number = number THEN Ok(<<>>, at) ELSE Fail("Custom")
           R(k) == f[k][number][V(k).used]
<1>1. \A k : KeepTurn(b, f, k, number, p) =
         IF ~tag.ok THEN tag
         ELSE IF tag.val.wire = "EndGroup" THEN End
         ELSE IF ~V(k).ok THEN V(k)
         ELSE IF ~R(k).ok THEN R(k)
         ELSE Ok(<<V(k).val>> \o R(k).val, R(k).used)
  BY DEF KeepTurn
<1>2. TagFound(b, p, tag)
  BY TagStep
<1>3. tag.ok => at \in Nat /\ at > p /\ tag.val.wire \in WireTypes /\ tag.val.number \in Nat
  BY <1>2 DEF TagFound
<1>4. tag.ok => Reaches(V(m), at)
  <2> HIDE DEF tag, at
  <2> QED BY <1>3, DecodeValueReaches
<1>5. tag.ok => Lowered(V(l), V(m))
  <2> SUFFICES ASSUME tag.ok PROVE Lowered(V(l), V(m))
    OBVIOUS
  <2> HIDE DEF tag, at
  <2>1. l # 0 => Lowered(f[l - 1][tag.val.number][at], f[m - 1][tag.val.number][at])
    BY <1>3 DEF LoweredAfter
  <2> QED BY <1>3, <2>1, LoweredValue
<1>6. ~Fail("RecursionLimitExceeded").ok
  BY DEF Fail
<1> HIDE DEF tag, at, V, End
<1>7. CASE ~(tag.ok /\ tag.val.wire # "EndGroup")
  <2>1. KeepTurn(b, f, l, number, p) = KeepTurn(b, f, m, number, p)
    BY <1>1, <1>7
  <2> QED BY <2>1 DEF Lowered
<1>8. CASE tag.ok /\ tag.val.wire # "EndGroup"
  <2>1. CASE V(l) = Fail("RecursionLimitExceeded")
    <3>1. KeepTurn(b, f, l, number, p) = V(l)
      BY <1>1, <1>6, <1>8, <2>1
    <3> QED BY <2>1, <3>1 DEF Lowered
  <2>2. CASE V(l) = V(m) /\ ~V(m).ok
    <3>1. KeepTurn(b, f, l, number, p) = V(l) /\ KeepTurn(b, f, m, number, p) = V(m)
      BY <1>1, <1>8, <2>2
    <3> QED BY <2>2, <3>1 DEF Lowered
  <2>3. CASE V(l) = V(m) /\ V(m).ok
    <3>1. V(m).used \in Nat /\ V(m).used > p
      BY <1>3, <1>4, <1>8, <2>3 DEF Reaches
    <3>2. Lowered(R(l), R(m))
      BY <2>3, <3>1 DEF LoweredAfter
    <3> HIDE DEF R
    <3>3. \A k \in {l, m} : KeepTurn(b, f, k, number, p) =
                             IF ~R(k).ok THEN R(k) ELSE Ok(<<V(m).val>> \o R(k).val, R(k).used)
      BY <1>1, <1>8, <2>3
    <3>4. CASE R(l) = R(m)
      BY <3>3, <3>4 DEF Lowered
    <3>5. CASE R(l) = Fail("RecursionLimitExceeded")
      <4>1. KeepTurn(b, f, l, number, p) = R(l)
        BY <1>6, <3>3, <3>5
      <4> QED BY <3>5, <4>1 DEF Lowered
    <3> QED BY <3>2, <3>4, <3>5 DEF Lowered
  <2> QED BY <1>5, <1>8, <2>1, <2>2, <2>3 DEF Lowered
<1> QED BY <1>7, <1>8

LEMMA LoweredGroup ==
  ASSUME NEW b \in Seq(Byte), NEW l \in Nat, NEW m \in Nat, l <= m, NEW number \in Nat, NEW p \in Nat
  PROVE  Lowered(DecodeGroup(b)[l][number][p], DecodeGroup(b)[m][number][p])
<1> DEFINE f == DecodeGroup(b)
           T == {q \in Nat : \A i \in Nat, j \in Nat, n \in Nat :
                    i <= j => Lowered(f[i][n][q], f[j][n][q])}
<1>1. ASSUME NEW q \in Nat, q < Len(b) => \A r \in Nat : r > q => r \in T
      PROVE  q \in T
  <2> SUFFICES ASSUME NEW i \in Nat, NEW j \in Nat, NEW n \in Nat, i <= j
               PROVE  Lowered(f[i][n][q], f[j][n][q])
    OBVIOUS
  <2>1. f[i][n][q] = KeepTurn(b, f, i, n, q) /\ f[j][n][q] = KeepTurn(b, f, j, n, q)
    BY KeepGroupIs DEF IsKeep
  <2>2. KeepAhead(f, q)
    BY KeepGroupPasses
  <2> HIDE DEF f
  <2>3. CASE q < Len(b)
    <3>1. LoweredAfter(f, i, j, q)
      BY <1>1, <2>3 DEF LoweredAfter
    <3>2. i # 0 => LoweredAfter(f, i - 1, j - 1, q)
      <4> SUFFICES ASSUME i # 0 PROVE LoweredAfter(f, i - 1, j - 1, q)
        OBVIOUS
      <4>1. i - 1 \in Nat /\ j - 1 \in Nat /\ i - 1 <= j - 1
        OBVIOUS
      <4> QED BY <1>1, <2>3, <4>1 DEF LoweredAfter
    <3> QED BY <2>1, <2>2, <3>1, <3>2, LoweredTurn
  <2>4. CASE ~(q < Len(b))
    <3>1. TagFound(b, q, DecodeTag(From(b, q)))
      BY TagStep
    <3> QED BY <2>1, <2>4, <3>1 DEF KeepTurn, TagFound, Lowered
  <2> QED BY <2>3, <2>4
<1>2. Nat \subseteq T
  <2>1. Len(b) \in Nat
    OBVIOUS
  <2> HIDE DEF T
  <2> QED BY <1>1, <2>1, BackwardInduction
<1>3. Lowered(f[l][number][p], f[m][number][p])
  BY <1>2
<1> QED BY <1>3

(* A lower recursion limit never changes a field that is kept: whatever    *)
(* the bytes, decode_unknown_field gives the same answer or refuses for    *)
(* the nesting, and then skip_field refuses under that limit too.          *)
THEOREM LimitsOnlyRefuse ==
  ASSUME NEW b \in Seq(Byte), NEW l \in Nat, NEW m \in Nat, l <= m
  PROVE  \/ Keep(b, l) = Keep(b, m)
         \/ /\ Keep(b, l) = Fail("RecursionLimitExceeded")
            /\ Skip(b, l) = Fail("RecursionLimitExceeded")
<1> DEFINE tag == DecodeTag(From(b, 0))
           at == 0 + tag.used
           c == From(b, at)
           K(k) == DecodeUnknownField(c, tag.val.number, tag.val.wire, k)
           h == DecodeGroup(c)
<1>1. \A k : Keep(b, k) = IF tag.ok THEN IF K(k).ok THEN Ok(K(k).val, at + K(k).used) ELSE K(k) ELSE tag
  BY DEF Keep, AfterTag, Then
<1>2. TagFound(b, 0, tag)
  BY TagStep
<1>3. tag.ok => at \in Nat /\ tag.val.wire \in WireTypes /\ tag.val.number \in Nat
  BY <1>2 DEF TagFound
<1> HIDE DEF tag, at
<1>4. tag.ok => Lowered(K(l), K(m))
  <2> SUFFICES ASSUME tag.ok PROVE Lowered(K(l), K(m))
    OBVIOUS
  <2>1. c \in Seq(Byte)
    BY <1>3, FromIs
  <2> HIDE DEF c
  <2>2. l # 0 => Lowered(h[l - 1][tag.val.number][0], h[m - 1][tag.val.number][0])
    <3> SUFFICES ASSUME l # 0 PROVE Lowered(h[l - 1][tag.val.number][0], h[m - 1][tag.val.number][0])
      OBVIOUS
    <3>1. l - 1 \in Nat /\ m - 1 \in Nat /\ l - 1 <= m - 1
      OBVIOUS
    <3> QED BY <1>3, <2>1, <3>1, LoweredGroup
  <2> HIDE DEF h
  <2>3. Lowered(DecodeValue(c, 0, tag.val.number, tag.val.wire, l, h),
                DecodeValue(c, 0, tag.val.number, tag.val.wire, m, h))
    BY <1>3, <2>1, <2>2, LoweredValue
  <2> QED BY <2>3 DEF DecodeUnknownField, h
<1> HIDE DEF K
<1>5. Lowered(Keep(b, l), Keep(b, m))
  BY <1>1, <1>4 DEF Lowered, Fail
<1>6. Keep(b, l) = Fail("RecursionLimitExceeded") => Skip(b, l) = Fail("RecursionLimitExceeded")
  <2>1. Agree(Keep(b, l), Skip(b, l))
    BY TaggedAgree
  <2> QED BY <2>1 DEF Agree, Fail
<1> QED BY <1>5, <1>6 DEF Lowered

(* The limit has one threshold, common to both decoders: a field that some *)
(* limit lets through is read, and stepped over, to the same byte under    *)
(* every limit from a certain depth on, and refused for its nesting by     *)
(* both under every limit below.                                           *)
THEOREM OneThreshold ==
  ASSUME NEW b \in Seq(Byte), NEW m \in Nat, Keep(b, m).ok
  PROVE  \E depth \in 0 .. m : \A l \in Nat :
            IF depth <= l
            THEN Keep(b, l) = Keep(b, m) /\ Skip(b, l) = Ok("skipped", Keep(b, m).used)
            ELSE /\ Keep(b, l) = Fail("RecursionLimitExceeded")
                 /\ Skip(b, l) = Fail("RecursionLimitExceeded")
<1> DEFINE S == {l \in Nat : Keep(b, l) = Keep(b, m)}
<1>1. ASSUME NEW l \in Nat, ~(l \in S)
      PROVE  /\ Keep(b, l) = Fail("RecursionLimitExceeded")
             /\ Skip(b, l) = Fail("RecursionLimitExceeded")
  <2>1. l <= m
    <3> SUFFICES ASSUME ~(l <= m) PROVE FALSE
      OBVIOUS
    <3>1. Keep(b, m) # Fail("RecursionLimitExceeded")
      BY DEF Fail
    <3>2. m <= l
      OBVIOUS
    <3> QED BY <1>1, <3>1, <3>2, LimitsOnlyRefuse
  <2> QED BY <1>1, <2>1, LimitsOnlyRefuse
<1>2. ASSUME NEW d \in S, NEW l \in Nat, d <= l PROVE l \in S
  <2>1. Keep(b, d) # Fail("RecursionLimitExceeded")
    BY DEF Fail
  <2>2. Keep(b, d) = Keep(b, l)
    BY <1>2, <2>1, LimitsOnlyRefuse
  <2> QED BY <1>2, <2>2
<1>3. PICK depth \in S : \A l \in S : depth <= l
  <2>1. m \in S /\ S \subseteq Nat
    OBVIOUS
  <2> HIDE DEF S
  <2> QED BY <2>1, LeastNatural
<1>4. depth \in 0 .. m
  BY <1>3
<1>5. ASSUME NEW l \in S PROVE Keep(b, l) = Keep(b, m) /\ Skip(b, l) = Ok("skipped", Keep(b, m).used)
  <2>1. Agree(Keep(b, l), Skip(b, l))
    BY TaggedAgree
  <2> QED BY <2>1 DEF Agree
<1>6. \A l \in Nat : depth <= l <=> l \in S
  BY <1>2, <1>3
<1> HIDE DEF S
<1> QED BY <1>1, <1>4, <1>5, <1>6

-----------------------------------------------------------------------------
(* Depth.  The recursion of Fields: what is not a group, and groups of the *)
(* fields of the depth below.                                              *)
Ungrouped ==
    [number : Nat, wire : {"Varint"}, data : 0 .. Pow2[Width] - 1]
    \cup [number : Nat, wire : {"Fixed64", "Fixed32", "LengthDelimited"}, data : Seq(Byte)]

GroupsOf(S) == [number : Nat, wire : {"StartGroup"}, data : Seq(S)]

FieldsAt(g, d) == Ungrouped \cup IF d = 0 THEN {} ELSE GroupsOf(g[d - 1])

FieldsUpTo(g, n) == \A i \in 0 .. n : g[i] = FieldsAt(g, i)

LEMMA FieldsAtSame ==
  ASSUME NEW g, NEW h, NEW d \in Nat, d # 0 => g[d - 1] = h[d - 1]
  PROVE  FieldsAt(g, d) = FieldsAt(h, d)
<1>1. CASE d = 0
  BY <1>1 DEF FieldsAt
<1>2. CASE d # 0
  <2>1. GroupsOf(g[d - 1]) = GroupsOf(h[d - 1])
    BY <1>2
  <2> QED BY ONLY <1>2, <2>1 DEF FieldsAt
<1> QED BY <1>1, <1>2

LEMMA FieldsUpToSame ==
  ASSUME NEW g, NEW h, NEW n \in Nat, NEW m \in Nat, FieldsUpTo(g, n), FieldsUpTo(h, m)
  PROVE  \A i \in Nat : i <= n /\ i <= m => g[i] = h[i]
<1> DEFINE T == {i \in Nat : i <= n /\ i <= m => g[i] = h[i]}
<1>1. 0 \in T
  <2>1. g[0] = FieldsAt(g, 0) /\ h[0] = FieldsAt(h, 0)
    BY DEF FieldsUpTo
  <2>2. FieldsAt(g, 0) = FieldsAt(h, 0)
    BY FieldsAtSame
  <2> QED BY <2>1, <2>2
<1>2. ASSUME NEW i \in Nat, i \in T PROVE i + 1 \in T
  <2> SUFFICES ASSUME i + 1 <= n, i + 1 <= m PROVE g[i + 1] = h[i + 1]
    OBVIOUS
  <2>1. i <= n /\ i <= m /\ i + 1 \in 0 .. n /\ i + 1 \in 0 .. m /\ (i + 1) - 1 = i
    OBVIOUS
  <2>2. g[i] = h[i]
    BY <1>2, <2>1
  <2>3. g[i + 1] = FieldsAt(g, i + 1) /\ h[i + 1] = FieldsAt(h, i + 1)
    BY <2>1 DEF FieldsUpTo
  <2>4. FieldsAt(g, i + 1) = FieldsAt(h, i + 1)
    BY <2>1, <2>2, FieldsAtSame
  <2> QED BY <2>3, <2>4
<1>3. Nat \subseteq T
  <2> HIDE DEF T
  <2> QED BY <1>1, <1>2, SetInduction
<1> QED BY <1>3

LEMMA FieldsFurther ==
  ASSUME NEW n \in Nat, NEW g, FieldsUpTo(g, n)
  PROVE  \E h : FieldsUpTo(h, n + 1)
<1> DEFINE h == [i \in Nat |-> IF i = n + 1 THEN FieldsAt(g, n + 1) ELSE g[i]]
<1>1. \A i \in Nat : h[i] = IF i = n + 1 THEN FieldsAt(g, n + 1) ELSE g[i]
  OBVIOUS
<1> HIDE DEF h
<1>2. ASSUME NEW i \in 0 .. n + 1 PROVE h[i] = FieldsAt(h, i)
  <2>1. i \in Nat
    OBVIOUS
  <2>2. i # 0 => h[i - 1] = g[i - 1]
    <3>1. i # 0 => i - 1 \in Nat /\ i - 1 # n + 1
      BY <2>1
    <3> QED BY <1>1, <3>1
  <2>3. FieldsAt(h, i) = FieldsAt(g, i)
    BY <2>1, <2>2, FieldsAtSame
  <2>4. h[i] = FieldsAt(g, i)
    <3>1. CASE i = n + 1
      BY <1>1, <2>1, <3>1
    <3>2. CASE i # n + 1
      <4>1. i \in 0 .. n
        BY <3>2
      <4>2. g[i] = FieldsAt(g, i)
        BY <4>1 DEF FieldsUpTo
      <4> QED BY <1>1, <2>1, <3>2, <4>2
    <3> QED BY <3>1, <3>2
  <2> QED BY <2>3, <2>4
<1> QED BY <1>2 DEF FieldsUpTo

LEMMA FieldsExist == \E F : F = [d \in Nat |-> FieldsAt(F, d)]
<1> DEFINE T == {n \in Nat : \E g : FieldsUpTo(g, n)}
<1>1. 0 \in T
  <2> DEFINE g == [i \in {0} |-> Ungrouped]
  <2>1. g[0] = FieldsAt(g, 0)
    <3>1. g[0] = Ungrouped
      OBVIOUS
    <3> HIDE DEF g
    <3> QED BY ONLY <3>1 DEF FieldsAt
  <2> HIDE DEF g
  <2>2. \A i \in 0 .. 0 : i = 0
    OBVIOUS
  <2>3. FieldsUpTo(g, 0)
    BY <2>1, <2>2 DEF FieldsUpTo
  <2> QED BY <2>3
<1>2. ASSUME NEW n \in Nat, n \in T PROVE n + 1 \in T
  <2>1. \E g : FieldsUpTo(g, n)
    BY <1>2
  <2>2. \E g : FieldsUpTo(g, n + 1)
    BY <2>1, FieldsFurther
  <2> QED BY <2>2
<1>3. Nat \subseteq T
  <2> HIDE DEF T
  <2> QED BY <1>1, <1>2, SetInduction
<1> DEFINE g(n) == CHOOSE g : FieldsUpTo(g, n)
           F == [n \in Nat |-> g(n)[n]]
<1>4. \A n \in Nat : FieldsUpTo(g(n), n)
  BY <1>3
<1> HIDE DEF g
<1>5. \A n \in Nat : F[n] = g(n)[n]
  OBVIOUS
<1>6. F = [d \in Nat |-> F[d]]
  OBVIOUS
<1> HIDE DEF F
<1>7. ASSUME NEW n \in Nat PROVE F[n] = FieldsAt(F, n)
  <2>1. FieldsUpTo(g(n), n) /\ n \in 0 .. n
    BY <1>4
  <2>2. F[n] = FieldsAt(g(n), n)
    BY <1>5, <2>1 DEF FieldsUpTo
  <2>3. n # 0 => F[n - 1] = g(n)[n - 1]
    <3> SUFFICES ASSUME n # 0 PROVE F[n - 1] = g(n)[n - 1]
      OBVIOUS
    <3>1. n - 1 \in Nat /\ n - 1 <= n /\ n - 1 <= n - 1
      OBVIOUS
    <3>2. FieldsUpTo(g(n - 1), n - 1)
      BY <1>4, <3>1
    <3>3. g(n)[n - 1] = g(n - 1)[n - 1]
      BY <2>1, <3>1, <3>2, FieldsUpToSame
    <3> QED BY <1>5, <3>1, <3>3
  <2> QED BY <2>2, <2>3, FieldsAtSame
<1>8. F = [d \in Nat |-> FieldsAt(F, d)]
  BY <1>6, <1>7
<1> QED BY <1>8

LEMMA FieldsRecursion == \A d \in Nat : Fields[d] = FieldsAt(Fields, d)
<1> DEFINE Body(g, d) ==
              [number : Nat, wire : {"Varint"}, data : 0 .. Pow2[Width] - 1]
              \cup [number : Nat, wire : {"Fixed64", "Fixed32", "LengthDelimited"}, data : Seq(Byte)]
              \cup IF d = 0 THEN {}
                   ELSE [number : Nat, wire : {"StartGroup"}, data : Seq(g[d - 1])]
           G(g) == [depth \in Nat |-> Body(g, depth)]
           R == CHOOSE g : g = G(g)
<1>1. \A g : \A d \in Nat : Body(g, d) = FieldsAt(g, d)
  BY DEF FieldsAt, Ungrouped, GroupsOf
<1>2. Fields = R
  BY DEF Fields
<1> HIDE DEF Body
<1>3. \A g : G(g) = [d \in Nat |-> FieldsAt(g, d)]
  BY <1>1
<1>4. \E f : f = G(f)
  <2> HIDE DEF G
  <2> QED BY <1>3, FieldsExist
<1>5. R = G(R)
  <2> HIDE DEF G
  <2> QED BY <1>4
<1>6. R = [d \in Nat |-> FieldsAt(R, d)]
  <2> HIDE DEF G, R
  <2> QED BY <1>3, <1>5
<1> HIDE DEF R
<1>7. \A d \in Nat : R[d] = FieldsAt(R, d)
  BY <1>6
<1> QED BY <1>2, <1>7

LEMMA SeqGrows ==
  ASSUME NEW S, NEW T, S \subseteq T
  PROVE  Seq(S) \subseteq Seq(T)
<1> SUFFICES ASSUME NEW s \in Seq(S) PROVE s \in Seq(T)
  OBVIOUS
<1>1. \A i \in 1 .. Len(s) : s[i] \in T
  OBVIOUS
<1>2. s = [i \in 1 .. Len(s) |-> s[i]] /\ Len(s) \in Nat
  OBVIOUS
<1> DEFINE n == Len(s)
           g == [i \in 1 .. n |-> s[i]]
<1>3. g \in [1 .. n -> T] /\ n \in Nat /\ s = g
  BY <1>1, <1>2
<1> HIDE DEF g, n
<1> QED BY <1>3, FunctionIsSeq

LEMMA FieldsGrow == \A d \in Nat : Fields[d] \subseteq Fields[d + 1]
<1> DEFINE T == {d \in Nat : Fields[d] \subseteq Fields[d + 1]}
<1>0. ASSUME NEW d \in Nat PROVE Fields[d + 1] = Ungrouped \cup GroupsOf(Fields[d])
  <2>1. d + 1 \in Nat /\ d + 1 # 0 /\ (d + 1) - 1 = d
    OBVIOUS
  <2>2. Fields[d + 1] = FieldsAt(Fields, d + 1)
    BY <2>1, FieldsRecursion
  <2>3. FieldsAt(Fields, d + 1) = Ungrouped \cup GroupsOf(Fields[(d + 1) - 1])
    BY ONLY <2>1 DEF FieldsAt
  <2> QED BY <2>1, <2>2, <2>3
<1>1. 0 \in T
  <2>1. Fields[0] = Ungrouped
    BY FieldsRecursion DEF FieldsAt
  <2> QED BY <1>0, <2>1
<1>2. ASSUME NEW d \in Nat, d \in T PROVE d + 1 \in T
  <2>1. Fields[d + 1] = Ungrouped \cup GroupsOf(Fields[d])
    BY <1>0
  <2>2. Fields[(d + 1) + 1] = Ungrouped \cup GroupsOf(Fields[d + 1])
    BY <1>0
  <2>3. Seq(Fields[d]) \subseteq Seq(Fields[d + 1])
    BY <1>2, SeqGrows
  <2>4. GroupsOf(Fields[d]) \subseteq GroupsOf(Fields[d + 1])
    BY <2>3 DEF GroupsOf
  <2> QED BY <2>1, <2>2, <2>4
<1>3. Nat \subseteq T
  <2> HIDE DEF T
  <2> QED BY <1>1, <1>2, SetInduction
<1> QED BY <1>3

(* A field of a depth: its kind, and for a group the depth of what it      *)
(* holds.                                                                  *)
LEMMA FieldKinds ==
  ASSUME NEW d \in Nat, NEW number \in Nat, NEW wire, NEW val
  PROVE  UnknownField(number, wire, val) \in Fields[d] <=>
            \/ wire = "Varint" /\ val \in 0 .. Pow2[Width] - 1
            \/ wire \in {"Fixed64", "Fixed32", "LengthDelimited"} /\ val \in Seq(Byte)
            \/ wire = "StartGroup" /\ d # 0 /\ val \in Seq(Fields[d - 1])
<1> DEFINE f == UnknownField(number, wire, val)
<1>1. Fields[d] = FieldsAt(Fields, d)
  BY FieldsRecursion
<1>2. f \in Ungrouped <=>
         \/ wire = "Varint" /\ val \in 0 .. Pow2[Width] - 1
         \/ wire \in {"Fixed64", "Fixed32", "LengthDelimited"} /\ val \in Seq(Byte)
  BY DEF Ungrouped, UnknownField
<1>3. \A S : f \in GroupsOf(S) <=> wire = "StartGroup" /\ val \in Seq(S)
  BY DEF GroupsOf, UnknownField
<1> HIDE DEF f
<1>4. f \in FieldsAt(Fields, d) <=> f \in Ungrouped \/ (d # 0 /\ f \in GroupsOf(Fields[d - 1]))
  BY DEF FieldsAt
<1> QED BY <1>1, <1>2, <1>3, <1>4 DEF f

-----------------------------------------------------------------------------
(* What is kept under a limit is nested no deeper than it.                 *)
LEMMA PlainKept ==
  ASSUME NEW b \in Seq(Byte), NEW wire \in WireTypes, wire # "StartGroup", DecodePlain(b, wire).ok
  PROVE  \/ wire = "Varint" /\ DecodePlain(b, wire).val \in 0 .. Pow2[Width] - 1
         \/ /\ wire \in {"Fixed64", "Fixed32", "LengthDelimited"}
            /\ DecodePlain(b, wire).val \in Seq(Byte)
<1>1. CASE wire = "Varint"
  <2>1. DecodePlain(b, wire) = DecodeVarint(b)
    BY <1>1 DEF DecodePlain
  <2>2. PICK v \in 0 .. Pow2[Width] - 1, n \in 1 .. Len(b) : DecodeVarint(b) = Ok(v, n)
    BY <2>1, VarintRead
  <2> QED BY <1>1, <2>1, <2>2 DEF Ok
<1>2. ASSUME NEW len \in Nat, DecodeFixed(b, len).ok PROVE DecodeFixed(b, len).val \in Seq(Byte)
  <2>1. ~(Len(b) < len)
    BY <1>2 DEF DecodeFixed, Fail
  <2>2. DecodeFixed(b, len).val = SubSeq(b, 1, len)
    BY <2>1 DEF DecodeFixed, Ok
  <2>3. SubSeq(b, 0 + 1, len) \in Seq(Byte)
    <3>1. 0 \in Nat /\ 0 <= len /\ len <= Len(b)
      BY <2>1
    <3> QED BY <3>1, Sliced
  <2> QED BY <2>2, <2>3
<1>3. CASE wire \in {"Fixed64", "Fixed32"}
  <2>1. \/ DecodePlain(b, wire) = DecodeFixed(b, Fixed64Len)
        \/ DecodePlain(b, wire) = DecodeFixed(b, Fixed32Len)
    BY <1>3 DEF DecodePlain, DecodeFixed64, DecodeFixed32
  <2>2. Fixed64Len \in Nat /\ Fixed32Len \in Nat
    BY WidthsAssumption
  <2> QED BY <1>2, <1>3, <2>1, <2>2
<1>4. CASE wire = "LengthDelimited"
  <2>1. DecodePlain(b, wire) = Content(b)
    BY <1>4 DEF DecodePlain
  <2>2. Delimited(b).ok
    BY <2>1 DEF Content, Then
  <2>3. PICK start \in Nat, end \in Nat : end <= Len(b) /\ Delimited(b) = Ok(start, end)
    BY <2>2, DelimitedRead
  <2>4. Content(b) = IF end < start THEN Fail("panic") ELSE Ok(SubSeq(b, start + 1, end), end)
    BY <2>3 DEF Content, Then, Ok
  <2>5. ~(end < start)
    BY <2>1, <2>4 DEF Fail
  <2>6. SubSeq(b, start + 1, end) \in Seq(Byte)
    BY <2>3, <2>5, Sliced
  <2>7. Content(b).val = SubSeq(b, start + 1, end)
    BY <2>4, <2>5 DEF Ok
  <2> QED BY <1>4, <2>1, <2>6, <2>7
<1>5. CASE wire = "EndGroup"
  BY <1>5 DEF DecodePlain, Fail
<1> QED BY <1>1, <1>3, <1>4, <1>5, WireNames

(* An answer that, if it is a value, is one of S. *)
Keeps(answer, S) == answer.ok => answer.val \in S

LEMMA ValueKept ==
  ASSUME NEW b \in Seq(Byte), NEW at \in Nat, NEW number \in Nat, NEW wire \in WireTypes,
         NEW limit \in Nat, NEW f,
         limit # 0 => Keeps(f[limit - 1][number][at], Seq(Fields[limit - 1]))
  PROVE  Keeps(DecodeValue(b, at, number, wire, limit, f), Fields[limit])
<1> DEFINE r == ValueRead(b, at, number, wire, limit, f)
<1>1. DecodeValue(b, at, number, wire, limit, f)
        = IF r.ok THEN Ok(UnknownField(number, wire, r.val), r.used) ELSE r
  BY DecodeValueIs
<1>2. r.ok => UnknownField(number, wire, r.val) \in Fields[limit]
  <2> SUFFICES ASSUME r.ok PROVE UnknownField(number, wire, r.val) \in Fields[limit]
    OBVIOUS
  <2>1. CASE wire = "StartGroup"
    <3>1. limit # 0 /\ r = f[limit - 1][number][at]
      BY <2>1 DEF ValueRead, Fail
    <3>2. r.val \in Seq(Fields[limit - 1])
      BY <3>1 DEF Keeps
    <3> HIDE DEF r
    <3> QED BY <2>1, <3>1, <3>2, FieldKinds
  <2>2. CASE wire # "StartGroup"
    <3> DEFINE s == DecodePlain(From(b, at), wire)
    <3>1. From(b, at) \in Seq(Byte)
      BY FromIs
    <3>2. r = IF s.ok THEN Ok(s.val, at + s.used) ELSE s
      BY <2>2 DEF ValueRead
    <3>3. s.ok /\ r.val = s.val
      BY <3>2 DEF Ok
    <3>4. \/ wire = "Varint" /\ s.val \in 0 .. Pow2[Width] - 1
          \/ wire \in {"Fixed64", "Fixed32", "LengthDelimited"} /\ s.val \in Seq(Byte)
      BY <2>2, <3>1, <3>3, PlainKept
    <3> HIDE DEF r, s
    <3> QED BY <3>3, <3>4, FieldKinds
  <2> QED BY <2>1, <2>2
<1> HIDE DEF r
<1> QED BY <1>1, <1>2 DEF Keeps, Ok

LEMMA GroupKept ==
  ASSUME NEW b \in Seq(Byte), NEW limit \in Nat, NEW number \in Nat, NEW p \in Nat
  PROVE  Keeps(DecodeGroup(b)[limit][number][p], Seq(Fields[limit]))
<1> DEFINE f == DecodeGroup(b)
           T == {q \in Nat : \A l \in Nat, n \in Nat : Keeps(f[l][n][q], Seq(Fields[l]))}
<1>1. ASSUME NEW q \in Nat, q < Len(b) => \A r \in Nat : r > q => r \in T
      PROVE  q \in T
  <2> SUFFICES ASSUME NEW l \in Nat, NEW n \in Nat, f[l][n][q].ok
               PROVE  f[l][n][q].val \in Seq(Fields[l])
    BY DEF Keeps
  <2> DEFINE tag == DecodeTag(From(b, q))
             at == q + tag.used
             V == DecodeValue(b, at, tag.val.number, tag.val.wire, l, f)
             R == f[l][n][V.used]
  <2>1. f[l][n][q] =
           IF ~tag.ok THEN tag
           ELSE IF tag.val.wire = "EndGroup"
           THEN IF tag.val.number = n THEN Ok(<<>>, at) ELSE Fail("Custom")
           ELSE IF ~V.ok THEN V
           ELSE IF ~R.ok THEN R
           ELSE Ok(<<V.val>> \o R.val, R.used)
    <3>1. f[l][n][q] = KeepTurn(b, f, l, n, q)
      BY KeepGroupIs DEF IsKeep
    <3> HIDE DEF f
    <3> QED BY <3>1 DEF KeepTurn
  <2>2. KeepAhead(f, q)
    BY KeepGroupPasses
  <2>3. TagFound(b, q, tag)
    BY TagStep
  <2> HIDE DEF f
  <2>4. tag.ok => at \in Nat /\ at > q /\ tag.val.wire \in WireTypes /\ tag.val.number \in Nat
    BY <2>3 DEF TagFound
  <2>5. tag.ok => q < Len(b)
    BY <2>3 DEF TagFound
  <2>6. tag.ok => Reaches(V, at)
    <3> HIDE DEF tag, at
    <3> QED BY <2>2, <2>4, DecodeValueReaches
  <2>7. tag.ok => Keeps(V, Fields[l])
    <3> SUFFICES ASSUME tag.ok PROVE Keeps(V, Fields[l])
      OBVIOUS
    <3> HIDE DEF tag, at
    <3>1. l # 0 => Keeps(f[l - 1][tag.val.number][at], Seq(Fields[l - 1]))
      <4> SUFFICES ASSUME l # 0 PROVE Keeps(f[l - 1][tag.val.number][at], Seq(Fields[l - 1]))
        OBVIOUS
      <4>1. l - 1 \in Nat /\ at \in T
        BY <1>1, <2>4, <2>5
      <4> QED BY <2>4, <4>1
    <3> QED BY <2>4, <3>1, ValueKept
  <2> HIDE DEF tag, at, V
  <2>8. CASE tag.ok /\ tag.val.wire = "EndGroup"
    <3>1. f[l][n][q] = IF tag.val.number = n THEN Ok(<<>>, at) ELSE Fail("Custom")
      BY <2>1, <2>8
    <3>2. f[l][n][q].val = <<>>
      BY <3>1 DEF Ok, Fail
    <3>3. \A S : <<>> \in Seq(S)
      OBVIOUS
    <3> QED BY <3>2, <3>3
  <2>9. CASE tag.ok /\ tag.val.wire # "EndGroup" /\ V.ok
    <3>1. V.used \in Nat /\ V.used > q
      BY <2>4, <2>6, <2>9 DEF Reaches
    <3>2. V.used \in T
      BY <1>1, <2>5, <2>9, <3>1
    <3>3. Keeps(R, Seq(Fields[l]))
      BY <3>2
    <3> HIDE DEF R
    <3>4. R.ok
      BY <2>1, <2>9
    <3>5. R.val \in Seq(Fields[l]) /\ V.val \in Fields[l]
      BY <2>7, <2>9, <3>3, <3>4 DEF Keeps
    <3>6. f[l][n][q].val = <<V.val>> \o R.val
      BY <2>1, <2>9, <3>4 DEF Ok
    <3> DEFINE S == Fields[l]
               x == V.val
               t == R.val
    <3>7. x \in S /\ t \in Seq(S)
      BY <3>5
    <3>8. <<x>> \o t \in Seq(S)
      <4> HIDE DEF S, x, t
      <4> QED BY <3>7, Consed
    <3> QED BY <3>6, <3>8
  <2>10. CASE ~tag.ok \/ (tag.val.wire # "EndGroup" /\ ~V.ok)
    BY <2>1, <2>10
  <2> QED BY <2>8, <2>9, <2>10
<1>2. Nat \subseteq T
  <2>1. Len(b) \in Nat
    OBVIOUS
  <2> HIDE DEF T
  <2> QED BY <1>1, <2>1, BackwardInduction
<1>3. Keeps(f[limit][number][p], Seq(Fields[limit]))
  BY <1>2
<1> QED BY <1>3

(* What fits a lower limit is kept under it with the same answer. *)
LEMMA ValueFits ==
  ASSUME NEW b \in Seq(Byte), NEW at \in Nat, NEW number \in Nat, NEW wire \in WireTypes,
         NEW l \in Nat, NEW m \in Nat, l <= m, NEW f,
         DecodeValue(b, at, number, wire, m, f).ok,
         DecodeValue(b, at, number, wire, m, f).val \in Fields[l],
         l # 0 /\ f[m - 1][number][at].ok /\ f[m - 1][number][at].val \in Seq(Fields[l - 1])
            => f[l - 1][number][at] = f[m - 1][number][at]
  PROVE  DecodeValue(b, at, number, wire, l, f) = DecodeValue(b, at, number, wire, m, f)
<1> DEFINE r == ValueRead(b, at, number, wire, l, f)
           s == ValueRead(b, at, number, wire, m, f)
           V == DecodeValue(b, at, number, wire, l, f)
           W == DecodeValue(b, at, number, wire, m, f)
<1>1. V = IF r.ok THEN Ok(UnknownField(number, wire, r.val), r.used) ELSE r
  BY DecodeValueIs
<1>2. W = IF s.ok THEN Ok(UnknownField(number, wire, s.val), s.used) ELSE s
  BY DecodeValueIs
<1>3. r = s
  <2>1. CASE wire = "StartGroup"
    <3>1. s.ok
      <4> HIDE DEF s, W
      <4>1. W.ok
        BY DEF W
      <4> QED BY <1>2, <4>1
    <3>2. m # 0 /\ s = f[m - 1][number][at]
      BY <2>1, <3>1 DEF ValueRead, Fail
    <3>3. UnknownField(number, wire, s.val) \in Fields[l]
      <4>1. W = Ok(UnknownField(number, wire, s.val), s.used)
        BY <1>2, <3>1
      <4>2. W.val \in Fields[l]
        OBVIOUS
      <4> HIDE DEF W, s
      <4> QED BY <4>1, <4>2 DEF Ok
    <3>4. l # 0 /\ s.val \in Seq(Fields[l - 1])
      <4> HIDE DEF s
      <4> QED BY <2>1, <3>3, FieldKinds
    <3>5. f[l - 1][number][at] = f[m - 1][number][at]
      BY <3>1, <3>2, <3>4
    <3>6. r = f[l - 1][number][at]
      BY <2>1, <3>4 DEF ValueRead
    <3> QED BY <3>2, <3>5, <3>6
  <2>2. CASE wire # "StartGroup"
    BY <2>2 DEF ValueRead
  <2> QED BY <2>1, <2>2
<1> HIDE DEF r, s, V, W
<1>4. V = W
  BY <1>1, <1>2, <1>3
<1> QED BY <1>4 DEF V, W

LEMMA ConsKept ==
  ASSUME NEW S, NEW T, NEW x, NEW s \in Seq(T), <<x>> \o s \in Seq(S)
  PROVE  x \in S /\ s \in Seq(S)
<1> DEFINE t == <<x>> \o s
           n == Len(s)
<1>1. /\ n \in Nat /\ Len(t) = n + 1 /\ t[1] = x
      /\ \A i \in 1 .. n : t[i + 1] = s[i]
      /\ s = [i \in 1 .. n |-> s[i]]
  OBVIOUS
<1>2. \A i \in 1 .. n + 1 : t[i] \in S
  <2>1. t \in Seq(S)
    OBVIOUS
  <2> HIDE DEF t, n
  <2> QED BY <1>1, <2>1
<1> HIDE DEF t, n
<1>3. x \in S
  BY <1>1, <1>2
<1>4. \A i \in 1 .. n : s[i] \in S
  <2> SUFFICES ASSUME NEW i \in 1 .. n PROVE s[i] \in S
    OBVIOUS
  <2>1. i + 1 \in 1 .. n + 1
    BY <1>1
  <2> QED BY <1>1, <1>2, <2>1
<1> DEFINE g == [i \in 1 .. n |-> s[i]]
<1>5. g \in [1 .. n -> S] /\ s = g
  BY <1>1, <1>4
<1> HIDE DEF g
<1> QED BY <1>1, <1>3, <1>5, FunctionIsSeq

LEMMA GroupFits ==
  ASSUME NEW b \in Seq(Byte), NEW l \in Nat, NEW m \in Nat, l <= m, NEW number \in Nat, NEW p \in Nat,
         DecodeGroup(b)[m][number][p].ok,
         DecodeGroup(b)[m][number][p].val \in Seq(Fields[l])
  PROVE  DecodeGroup(b)[l][number][p] = DecodeGroup(b)[m][number][p]
<1> DEFINE f == DecodeGroup(b)
           Fit(i, j, n, q) == f[j][n][q].ok /\ f[j][n][q].val \in Seq(Fields[i])
           T == {q \in Nat : \A i \in Nat, j \in Nat, n \in Nat :
                    i <= j /\ Fit(i, j, n, q) => f[i][n][q] = f[j][n][q]}
<1>1. ASSUME NEW q \in Nat, q < Len(b) => \A r \in Nat : r > q => r \in T
      PROVE  q \in T
  <2> SUFFICES ASSUME NEW i \in Nat, NEW j \in Nat, NEW n \in Nat, i <= j,
                      f[j][n][q].ok, f[j][n][q].val \in Seq(Fields[i])
               PROVE  f[i][n][q] = f[j][n][q]
    OBVIOUS
  <2> DEFINE tag == DecodeTag(From(b, q))
             at == q + tag.used
             V(k) == DecodeValue(b, at, tag.val.number, tag.val.wire, k, f)
             R(k) == f[k][n][V(k).used]
             End == IF tag.val.number = n THEN Ok(<<>>, at) ELSE Fail("Custom")
  <2>1. \A k \in Nat : f[k][n][q] =
           IF ~tag.ok THEN tag
           ELSE IF tag.val.wire = "EndGroup" THEN End
           ELSE IF ~V(k).ok THEN V(k)
           ELSE IF ~R(k).ok THEN R(k)
           ELSE Ok(<<V(k).val>> \o R(k).val, R(k).used)
    <3> SUFFICES ASSUME NEW k \in Nat
                 PROVE  f[k][n][q] =
                           IF ~tag.ok THEN tag
                           ELSE IF tag.val.wire = "EndGroup" THEN End
                           ELSE IF ~V(k).ok THEN V(k)
                           ELSE IF ~R(k).ok THEN R(k)
                           ELSE Ok(<<V(k).val>> \o R(k).val, R(k).used)
      OBVIOUS
    <3>1. f[k][n][q] = KeepTurn(b, f, k, n, q)
      BY KeepGroupIs DEF IsKeep
    <3> HIDE DEF f
    <3> QED BY <3>1 DEF KeepTurn
  <2>2. KeepAhead(f, q)
    BY KeepGroupPasses
  <2>3. TagFound(b, q, tag)
    BY TagStep
  <2>4. \A k \in Nat, o \in Nat, r \in Nat : Keeps(f[k][o][r], Seq(Fields[k]))
    BY GroupKept
  <2> HIDE DEF f
  <2>5. tag.ok => at \in Nat /\ at > q /\ tag.val.wire \in WireTypes /\ tag.val.number \in Nat
    BY <2>3 DEF TagFound
  <2>6. tag.ok => q < Len(b)
    BY <2>3 DEF TagFound
  <2>7. tag.ok => Reaches(V(j), at)
    <3> HIDE DEF tag, at
    <3> QED BY <2>2, <2>5, DecodeValueReaches
  <2>8. tag.ok /\ V(j).ok /\ V(j).val \in Fields[i] => V(i) = V(j)
    <3> SUFFICES ASSUME tag.ok, V(j).ok, V(j).val \in Fields[i] PROVE V(i) = V(j)
      OBVIOUS
    <3> DEFINE o == tag.val.number
               w == tag.val.wire
    <3>1. at \in Nat /\ w \in WireTypes /\ o \in Nat
      BY <2>5
    <3>2. at \in T
      <4> HIDE DEF T, at
      <4> QED BY <1>1, <2>5, <2>6
    <3>3. i # 0 /\ f[j - 1][o][at].ok /\ f[j - 1][o][at].val \in Seq(Fields[i - 1])
             => f[i - 1][o][at] = f[j - 1][o][at]
      <4> SUFFICES ASSUME i # 0, f[j - 1][o][at].ok, f[j - 1][o][at].val \in Seq(Fields[i - 1])
                   PROVE  f[i - 1][o][at] = f[j - 1][o][at]
        OBVIOUS
      <4> HIDE DEF at, o
      <4>1. i - 1 \in Nat /\ j - 1 \in Nat /\ i - 1 <= j - 1
        BY ONLY i \in Nat, j \in Nat, i <= j, i # 0
      <4>2. \A x \in Nat, y \in Nat, n1 \in Nat : x <= y /\ Fit(x, y, n1, at) => f[x][n1][at] = f[y][n1][at]
        BY <3>2
      <4>3. Fit(i - 1, j - 1, o, at)
        OBVIOUS
      <4> HIDE DEF Fit
      <4> QED BY <3>1, <4>1, <4>2, <4>3
    <3>4. DecodeValue(b, at, o, w, j, f).ok /\ DecodeValue(b, at, o, w, j, f).val \in Fields[i]
      OBVIOUS
    <3> HIDE DEF at, o, w
    <3>5. DecodeValue(b, at, o, w, i, f) = DecodeValue(b, at, o, w, j, f)
      BY <3>1, <3>3, <3>4, ValueFits
    <3> QED BY <3>5 DEF o, w
  <2> HIDE DEF tag, at, V, End
  <2>9. CASE ~(tag.ok /\ tag.val.wire # "EndGroup" /\ V(j).ok)
    <3>1. CASE ~tag.ok \/ tag.val.wire = "EndGroup"
      BY <2>1, <3>1
    <3>2. CASE tag.ok /\ tag.val.wire # "EndGroup" /\ ~V(j).ok
      BY <2>1, <3>2
    <3> QED BY <2>9, <3>1, <3>2
  <2>10. CASE tag.ok /\ tag.val.wire # "EndGroup" /\ V(j).ok
    <3>1. V(j).used \in Nat /\ V(j).used > q
      BY <2>5, <2>7, <2>10 DEF Reaches
    <3>2. V(j).used \in T
      BY <1>1, <2>6, <2>10, <3>1
    <3>3. R(j).ok
      BY <2>1, <2>10
    <3>4. R(j).val \in Seq(Fields[j])
      BY <2>4, <3>1, <3>3 DEF Keeps
    <3>5. f[j][n][q].val = <<V(j).val>> \o R(j).val
      <4> DEFINE joined == <<V(j).val>> \o R(j).val
      <4>1. f[j][n][q] = Ok(joined, R(j).used)
        BY <2>1, <2>10, <3>3
      <4> HIDE DEF joined, R
      <4>2. f[j][n][q].val = joined
        BY <4>1 DEF Ok
      <4> QED BY <4>2 DEF joined
    <3>6. V(j).val \in Fields[i] /\ R(j).val \in Seq(Fields[i])
      <4> DEFINE x == V(j).val
                 t == R(j).val
                 S == Fields[i]
                 U == Fields[j]
      <4>1. t \in Seq(U) /\ <<x>> \o t \in Seq(S)
        BY <3>4, <3>5
      <4> HIDE DEF x, t, S, U
      <4>2. x \in S /\ t \in Seq(S)
        BY <4>1, ConsKept
      <4> QED BY <4>2 DEF x, t, S
    <3>7. V(i) = V(j)
      BY <2>8, <2>10, <3>6
    <3>8. R(i) = R(j)
      <4> DEFINE u == V(j).used
      <4>1. R(i) = f[i][n][u] /\ R(j) = f[j][n][u]
        BY <3>7
      <4>2. u \in T /\ f[j][n][u].ok /\ f[j][n][u].val \in Seq(Fields[i])
        BY <3>2, <3>3, <3>6
      <4> HIDE DEF u, R
      <4> QED BY <4>1, <4>2
    <3> HIDE DEF R
    <3> QED BY <2>1, <2>10, <3>3, <3>7, <3>8
  <2> QED BY <2>9, <2>10
<1>2. Nat \subseteq T
  <2>1. Len(b) \in Nat
    OBVIOUS
  <2> HIDE DEF T
  <2> QED BY <1>1, <2>1, BackwardInduction
<1>3. p \in T
  BY <1>2
<1> QED BY <1>3

LEMMA FieldKept ==
  ASSUME NEW b \in Seq(Byte), NEW l \in Nat, NEW m \in Nat, l <= m
  PROVE  /\ Keeps(Keep(b, m), Fields[m])
         /\ Keep(b, m).ok /\ Keep(b, m).val \in Fields[l] => Keep(b, l) = Keep(b, m)
<1> DEFINE tag == DecodeTag(From(b, 0))
           at == 0 + tag.used
           c == From(b, at)
           h == DecodeGroup(c)
           K(k) == DecodeValue(c, 0, tag.val.number, tag.val.wire, k, h)
<1>1. \A k : Keep(b, k) = IF tag.ok THEN IF K(k).ok THEN Ok(K(k).val, at + K(k).used) ELSE K(k) ELSE tag
  BY DEF Keep, AfterTag, Then, DecodeUnknownField
<1>2. TagFound(b, 0, tag)
  BY TagStep
<1>3. tag.ok => at \in Nat /\ tag.val.wire \in WireTypes /\ tag.val.number \in Nat
  BY <1>2 DEF TagFound
<1>4. CASE ~tag.ok
  BY <1>1, <1>4 DEF Keeps
<1>5. CASE tag.ok
  <2> HIDE DEF tag, at
  <2>1. c \in Seq(Byte)
    BY <1>3, <1>5, FromIs
  <2>2. \A k \in Nat, n \in Nat : Keeps(h[k][n][0], Seq(Fields[k]))
    <3> HIDE DEF c
    <3> QED BY <2>1, GroupKept
  <2>3. \A i \in Nat, j \in Nat, n \in Nat :
           i <= j /\ h[j][n][0].ok /\ h[j][n][0].val \in Seq(Fields[i]) => h[i][n][0] = h[j][n][0]
    <3> HIDE DEF c
    <3> QED BY <2>1, GroupFits
  <2> HIDE DEF c, h
  <2>4. Keeps(K(m), Fields[m])
    <3>1. m # 0 => Keeps(h[m - 1][tag.val.number][0], Seq(Fields[m - 1]))
      <4> SUFFICES ASSUME m # 0 PROVE Keeps(h[m - 1][tag.val.number][0], Seq(Fields[m - 1]))
        OBVIOUS
      <4>1. m - 1 \in Nat
        OBVIOUS
      <4> QED BY <1>3, <1>5, <2>2, <4>1
    <3> QED BY <1>3, <1>5, <2>1, <3>1, ValueKept
  <2>5. K(m).ok /\ K(m).val \in Fields[l] => K(l) = K(m)
    <3> SUFFICES ASSUME K(m).ok, K(m).val \in Fields[l] PROVE K(l) = K(m)
      OBVIOUS
    <3> DEFINE n == tag.val.number
               w == tag.val.wire
    <3>1. l # 0 /\ h[m - 1][n][0].ok /\ h[m - 1][n][0].val \in Seq(Fields[l - 1])
             => h[l - 1][n][0] = h[m - 1][n][0]
      <4> SUFFICES ASSUME l # 0, h[m - 1][n][0].ok, h[m - 1][n][0].val \in Seq(Fields[l - 1])
                   PROVE  h[l - 1][n][0] = h[m - 1][n][0]
        OBVIOUS
      <4>1. l - 1 \in Nat /\ m - 1 \in Nat /\ l - 1 <= m - 1 /\ n \in Nat
        BY <1>3, <1>5
      <4> HIDE DEF n
      <4> QED BY <2>3, <4>1
    <3>2. DecodeValue(c, 0, n, w, m, h).ok /\ DecodeValue(c, 0, n, w, m, h).val \in Fields[l]
      OBVIOUS
    <3>3. w \in WireTypes /\ n \in Nat
      BY <1>3, <1>5
    <3> HIDE DEF n, w
    <3>4. DecodeValue(c, 0, n, w, l, h) = DecodeValue(c, 0, n, w, m, h)
      BY <2>1, <3>1, <3>2, <3>3, ValueFits
    <3> QED BY <3>4 DEF n, w
  <2> HIDE DEF K
  <2>6. Keep(b, m) = IF K(m).ok THEN Ok(K(m).val, at + K(m).used) ELSE K(m)
    BY <1>1, <1>5
  <2>7. Keep(b, l) = IF K(l).ok THEN Ok(K(l).val, at + K(l).used) ELSE K(l)
    BY <1>1, <1>5
  <2>8. Keep(b, m).ok => K(m).ok /\ Keep(b, m).val = K(m).val
    BY <2>6 DEF Ok
  <2> QED BY <2>4, <2>5, <2>6, <2>7, <2>8 DEF Keeps
<1> QED BY <1>4, <1>5

(* The recursion limit is the number of nested groups allowed, exactly,    *)
(* for every buffer and every limit: both decoders read a field under the  *)
(* limits that its groups are not nested deeper than, and refuse it for    *)
(* its nesting under the others.                                           *)
THEOREM NestingIsExact == Spec => []NestingExact
<1>1. Buffer => NestingExact
  <2> SUFFICES ASSUME buf \in Seq(Byte), Keep(buf, MaxNesting).ok, NEW l \in 0 .. MaxNesting
               PROVE  IF Keep(buf, MaxNesting).val \in Fields[l]
                      THEN Keep(buf, l) = Keep(buf, MaxNesting) /\ Skip(buf, l).ok
                      ELSE /\ Keep(buf, l) = Fail("RecursionLimitExceeded")
                           /\ Skip(buf, l) = Fail("RecursionLimitExceeded")
    BY DEF Buffer, NestingExact
  <2> DEFINE kept == Keep(buf, MaxNesting)
  <2>1. l \in Nat /\ MaxNesting \in Nat /\ l <= MaxNesting
    BY NestingAssumption
  <2>2. CASE kept.val \in Fields[l]
    <3>1. Keep(buf, l) = kept
      BY <2>1, <2>2, FieldKept
    <3>2. Agree(Keep(buf, l), Skip(buf, l))
      BY <2>1, TaggedAgree
    <3> QED BY <2>2, <3>1, <3>2 DEF Agree, Ok
  <2>3. CASE ~(kept.val \in Fields[l])
    <3>1. Keeps(Keep(buf, l), Fields[l])
      BY <2>1, FieldKept
    <3>2. Keep(buf, l) # kept
      BY <2>3, <3>1 DEF Keeps
    <3> QED BY <2>1, <2>3, <3>2, LimitsOnlyRefuse
  <2> QED BY <2>2, <2>3
<1> QED BY <1>1, BufferInvariant, PTL DEF Spec

-----------------------------------------------------------------------------
(* Writing back.  Recursion over a depth, whose values at each depth are   *)
(* of their own set.                                                       *)
LEMMA DepthRecursion ==
  ASSUME NEW R, NEW first \in R[0], NEW step,
         \A d \in Nat : \A s \in R[d] : step[d][s] \in R[d + 1]
  PROVE  \E f : /\ f = [d \in Nat |-> f[d]]
                /\ f[0] = first
                /\ \A d \in Nat : f[d] \in R[d] /\ f[d + 1] = step[d][f[d]]
<1> DEFINE S == UNION {R[d] : d \in Nat}
           m == [x \in Nat |-> x]
           pred == [x \in Nat |-> x - 1]
           base == [x \in Nat |-> first]
           next == [x \in Nat |-> [s \in S |-> IF s \in R[x - 1] THEN step[x - 1][s] ELSE first]]
<1>1. \A d \in Nat : R[d] \subseteq S
  OBVIOUS
<1>2. first \in S
  BY <1>1
<1>3. ASSUME NEW x \in Nat, x # 0, NEW s \in S
      PROVE  /\ next[x][s] = (IF s \in R[x - 1] THEN step[x - 1][s] ELSE first)
             /\ next[x][s] \in S
  <2>1. x - 1 \in Nat /\ (x - 1) + 1 = x
    BY <1>3
  <2>2. next[x][s] = IF s \in R[x - 1] THEN step[x - 1][s] ELSE first
    OBVIOUS
  <2>3. s \in R[x - 1] => step[x - 1][s] \in R[x]
    <3>1. \A t \in R[x - 1] : step[x - 1][t] \in R[(x - 1) + 1]
      BY <2>1
    <3> QED BY <2>1, <3>1
  <2> HIDE DEF next, S
  <2> QED BY <1>1, <1>2, <2>2, <2>3
<1>4. \E f : Recursive(f, Nat, S, {0}, pred, base, next)
  <2>1. m \in [Nat -> Nat] /\ \A x \in Nat : x \in {0} => base[x] \in S
    BY <1>2
  <2>2. \A x \in Nat : x \notin {0} => pred[x] \in Nat /\ m[pred[x]] < m[x]
    OBVIOUS
  <2>3. \A x \in Nat : x \notin {0} => \A s \in S : next[x][s] \in S
    <3> HIDE DEF next, S
    <3> QED BY <1>3
  <2> HIDE DEF m, pred, base, next, S
  <2> QED BY <2>1, <2>2, <2>3, RecursionExists
<1>5. PICK f : Recursive(f, Nat, S, {0}, pred, base, next)
  BY <1>4
<1>6. f \in [Nat -> S]
  BY <1>5 DEF Recursive
<1>7. f[0] = first
  <2>1. f[0] = IF 0 \in {0} THEN base[0] ELSE next[0][f[pred[0]]]
    BY <1>5 DEF Recursive
  <2> QED BY <2>1
<1>8. ASSUME NEW d \in Nat PROVE f[d] \in R[d] => f[d + 1] = step[d][f[d]]
  <2>1. f[d + 1] = IF d + 1 \in {0} THEN base[d + 1] ELSE next[d + 1][f[pred[d + 1]]]
    <3>1. \A x \in Nat : f[x] = IF x \in {0} THEN base[x] ELSE next[x][f[pred[x]]]
      <4> HIDE DEF base, next, pred, S
      <4> QED BY <1>5 DEF Recursive
    <3> HIDE DEF base, next, pred, S
    <3> QED BY <3>1
  <2>2. d + 1 \in Nat /\ d + 1 # 0 /\ (d + 1) - 1 = d /\ pred[d + 1] = d /\ f[d] \in S
    BY <1>6
  <2>3. next[d + 1][f[d]] = IF f[d] \in R[(d + 1) - 1] THEN step[(d + 1) - 1][f[d]] ELSE first
    <3> HIDE DEF next, S
    <3> QED BY <1>3, <2>2
  <2> HIDE DEF next, pred, base, S
  <2> QED BY <2>1, <2>2, <2>3
<1> DEFINE T == {d \in Nat : f[d] \in R[d]}
<1>9. Nat \subseteq T
  <2>1. 0 \in T
    BY <1>7
  <2>2. ASSUME NEW d \in Nat, d \in T PROVE d + 1 \in T
    BY <1>8, <2>2
  <2> HIDE DEF T
  <2> QED BY <2>1, <2>2, SetInduction
<1>10. f = [d \in Nat |-> f[d]]
  BY <1>6
<1> QED BY <1>7, <1>8, <1>9, <1>10

(* The pieces of a sequence of fields written or sized by inner. *)
Inner(data, inner) == [i \in DOMAIN data |-> inner[data[i]]]

LEMMA InnerIs ==
  ASSUME NEW S, NEW V, NEW data \in Seq(S), NEW inner \in [S -> V]
  PROVE  /\ Len(data) \in Nat
         /\ Inner(data, inner) \in [1 .. Len(data) -> V]
         /\ DOMAIN Inner(data, inner) = 1 .. Len(data)
         /\ \A i \in 1 .. Len(data) : Inner(data, inner)[i] = inner[data[i]]
<1>1. DOMAIN data = 1 .. Len(data) /\ Len(data) \in Nat /\ \A i \in 1 .. Len(data) : data[i] \in S
  OBVIOUS
<1> QED BY <1>1 DEF Inner

LEMMA NoPieces == ASSUME NEW V, NEW seqs \in [1 .. 0 -> V] PROVE FlattenSeq(seqs) = <<>> /\ Total(seqs) = 0
<1>1. seqs = <<>>
  OBVIOUS
<1>2. FlattenSeq(<<>>) = <<>>
  BY DEF FlattenSeq
<1>3. Total(<<>>) = 0
  <2>1. 0 \in Nat /\ <<>> \in [1 .. 0 -> Nat] /\ Len(<<>>) = 0
    OBVIOUS
  <2>2. [i \in 0 .. 0 |-> 0] \in [0 .. 0 -> Nat] /\ [i \in 0 .. 0 |-> 0][0] = 0
    OBVIOUS
  <2> DEFINE P == [i \in 0 .. 0 |-> 0]
  <2>3. P \in [0 .. 0 -> Nat] /\ P[0] = 0 /\ \A i \in 1 .. 0 : P[i] = P[i - 1] + <<>>[i]
    BY <2>2
  <2> HIDE DEF P
  <2>4. Total(<<>>) = P[0]
    BY <2>1, <2>3, SameSums
  <2> QED BY <2>3, <2>4
<1> QED BY <1>1, <1>2, <1>3

LEMMA PiecesTyped ==
  ASSUME NEW n \in Nat
  PROVE  /\ \A seqs \in [1 .. n -> Seq(Byte)] : FlattenSeq(seqs) \in Seq(Byte)
         /\ \A lens \in [1 .. n -> Nat] : Total(lens) \in Nat
<1>1. ASSUME NEW seqs \in [1 .. n -> Seq(Byte)] PROVE FlattenSeq(seqs) \in Seq(Byte)
  <2>1. CASE n = 0
    <3>1. seqs \in [1 .. 0 -> Seq(Byte)]
      BY <2>1
    <3>2. FlattenSeq(seqs) = <<>>
      BY <3>1, NoPieces
    <3>3. \A S : <<>> \in Seq(S)
      OBVIOUS
    <3> QED BY <3>2, <3>3
  <2>2. CASE n # 0
    <3>1. n >= 1
      BY <2>2
    <3> QED BY <3>1, FlattenPieces
  <2> QED BY <2>1, <2>2
<1>2. ASSUME NEW lens \in [1 .. n -> Nat] PROVE Total(lens) \in Nat
  BY TotalRecursion
<1> QED BY <1>1, <1>2

LEMMA CodesAre == \A w \in WireTypes : WireCode[w] \in 0 .. 5 /\ WireTypeOf[WireCode[w]] = w
<1> SUFFICES ASSUME NEW w \in WireTypes PROVE WireCode[w] \in 0 .. 5 /\ WireTypeOf[WireCode[w]] = w
  OBVIOUS
<1>1. PICK c \in 0 .. 5 : w = WireTypeOf[c]
  BY WireCodes DEF WireTypes
<1> QED BY <1>1, WireCodes

LEMMA TagBytes ==
  ASSUME NEW number \in Nat, NEW wire \in WireTypes
  PROVE  /\ number * 8 + WireCode[wire] \in Nat
         /\ EncodeTag(number, wire) \in Seq(Byte)
<1>1. number * 8 + WireCode[wire] \in Nat
  BY CodesAre
<1> QED BY <1>1, EncodedSeq DEF EncodeTag

LEMMA VarintLenType == ASSUME NEW v \in Nat PROVE VarintLen(v) \in Nat
<1> DEFINE K == {k \in 0 .. Width - 1 : Pow2[k] <= v}
           a == Cardinality(K) + GroupBits - 1
<1>1. IsFiniteSet(K)
  <2>1. IsFiniteSet(0 .. Width - 1)
    BY Widths, FS_Interval
  <2> QED BY <2>1, FS_Subset
<1>2. Cardinality(K) \in Nat
  BY <1>1, FS_CardinalityType
<1> HIDE DEF K
<1>3. a \in Nat /\ GroupBits \in Nat \ {0}
  BY <1>2, Widths
<1>4. VarintLen(v) = IF v = 0 THEN 1 ELSE a \div GroupBits
  BY DEF VarintLen, a, K
<1> HIDE DEF a
<1>5. a \div GroupBits \in Nat
  BY <1>3, DivMod
<1> QED BY <1>4, <1>5

(* A field is not a group, or a group of fields of the depth below. *)
LEMMA FieldIs ==
  ASSUME NEW d \in Nat, NEW f \in Fields[d]
  PROVE  /\ f = UnknownField(f.number, f.wire, f.data)
         /\ f.number \in Nat /\ f.wire \in WireTypes
         /\ \/ f.wire = "Varint" /\ f.data \in 0 .. Pow2[Width] - 1
            \/ f.wire \in {"Fixed64", "Fixed32", "LengthDelimited"} /\ f.data \in Seq(Byte)
            \/ f.wire = "StartGroup" /\ d # 0 /\ f.data \in Seq(Fields[d - 1])
<1>1. Fields[d] = FieldsAt(Fields, d)
  BY FieldsRecursion
<1>2. f \in Ungrouped \/ (d # 0 /\ f \in GroupsOf(Fields[d - 1]))
  BY <1>1 DEF FieldsAt
<1>3. f \in Ungrouped =>
        /\ f = UnknownField(f.number, f.wire, f.data) /\ f.number \in Nat
        /\ \/ f.wire = "Varint" /\ f.data \in 0 .. Pow2[Width] - 1
           \/ f.wire \in {"Fixed64", "Fixed32", "LengthDelimited"} /\ f.data \in Seq(Byte)
  BY DEF Ungrouped, UnknownField
<1>4. \A S : f \in GroupsOf(S) =>
        /\ f = UnknownField(f.number, f.wire, f.data) /\ f.number \in Nat
        /\ f.wire = "StartGroup" /\ f.data \in Seq(S)
  BY DEF GroupsOf, UnknownField
<1>5. {"Varint", "Fixed64", "Fixed32", "LengthDelimited", "StartGroup"} \subseteq WireTypes
  BY WireNames
<1> QED BY <1>2, <1>3, <1>4, <1>5

(* Outside of groups nothing is asked of the depth below. *)
LEMMA UngroupedData ==
  ASSUME NEW d \in Nat, NEW f \in Fields[d], f.wire # "StartGroup"
  PROVE  /\ \A s, t : WriteData(f, s) = WriteData(f, t) /\ DataLen(f, s) = DataLen(f, t)
         /\ \A s : WriteData(f, s) \in Seq(Byte) /\ DataLen(f, s) \in Nat
<1>1. CASE f.wire = "Varint"
  <2>1. f.data \in 0 .. Pow2[Width] - 1
    BY <1>1, FieldIs
  <2>2. f.data \in Nat
    BY <2>1, Widths, Pow2Type
  <2>3. \A s : WriteData(f, s) = EncodeVarint[f.data] /\ DataLen(f, s) = VarintLen(f.data)
    BY <1>1 DEF WriteData, DataLen
  <2> QED BY <2>2, <2>3, EncodedSeq, VarintLenType
<1>2. CASE f.wire = "Fixed64"
  <2>1. f.data \in Seq(Byte) /\ Fixed64Len \in Nat
    BY <1>2, FieldIs, WidthsAssumption
  <2>2. \A s : WriteData(f, s) = f.data /\ DataLen(f, s) = Fixed64Len
    BY <1>2 DEF WriteData, DataLen
  <2> QED BY <2>1, <2>2
<1>3. CASE f.wire = "Fixed32"
  <2>1. f.data \in Seq(Byte) /\ Fixed32Len \in Nat
    BY <1>3, FieldIs, WidthsAssumption
  <2>2. \A s : WriteData(f, s) = f.data /\ DataLen(f, s) = Fixed32Len
    BY <1>3 DEF WriteData, DataLen
  <2> QED BY <2>1, <2>2
<1>4. CASE f.wire = "LengthDelimited"
  <2> DEFINE data == f.data
             n == Len(data)
             head == EncodeVarint[n]
  <2>1. data \in Seq(Byte) /\ n \in Nat
    BY <1>4, FieldIs
  <2>2. \A s : WriteData(f, s) = head \o data /\ DataLen(f, s) = VarintLen(n) + n
    BY <1>4 DEF WriteData, DataLen
  <2> HIDE DEF data, n
  <2>3. head \in Seq(Byte) /\ VarintLen(n) \in Nat
    BY <2>1, EncodedSeq, VarintLenType
  <2>4. head \o data \in Seq(Byte) /\ VarintLen(n) + n \in Nat
    <3> HIDE DEF head
    <3> QED BY <2>1, <2>3, Joined
  <2> HIDE DEF head
  <2> QED BY <2>2, <2>4
<1> QED BY <1>1, <1>2, <1>3, <1>4, FieldIs

LEMMA GroupData ==
  ASSUME NEW f, f.wire = "StartGroup", NEW s
  PROVE  /\ WriteData(f, s) = FlattenSeq(Inner(f.data, s)) \o EncodeTag(f.number, "EndGroup")
         /\ DataLen(f, s) = GroupLen(f.number, Inner(f.data, s))
BY DEF WriteData, DataLen, Inner

LEMMA GroupedData ==
  ASSUME NEW d \in Nat, NEW f \in Fields[d + 1]
  PROVE  /\ \A s \in [Fields[d] -> Seq(Byte)] : WriteData(f, s) \in Seq(Byte)
         /\ \A s \in [Fields[d] -> Nat] : DataLen(f, s) \in Nat
<1>0. d + 1 \in Nat /\ (d + 1) - 1 = d
  OBVIOUS
<1>1. CASE f.wire # "StartGroup"
  BY <1>0, <1>1, UngroupedData
<1>2. CASE f.wire = "StartGroup"
  <2>1. f.data \in Seq(Fields[d]) /\ f.number \in Nat
    BY <1>0, <1>2, FieldIs
  <2>2. "EndGroup" \in WireTypes
    BY WireNames
  <2>3. EncodeTag(f.number, "EndGroup") \in Seq(Byte) /\ f.number * 8 + WireCode["EndGroup"] \in Nat
    BY <2>1, <2>2, TagBytes
  <2> DEFINE data == f.data
             F == Fields[d]
  <2>4. data \in Seq(F) /\ Len(data) \in Nat
    BY <2>1
  <2>5. ASSUME NEW s \in [F -> Seq(Byte)] PROVE WriteData(f, s) \in Seq(Byte)
    <3> HIDE DEF data, F
    <3>1. Inner(data, s) \in [1 .. Len(data) -> Seq(Byte)]
      BY <2>4, InnerIs
    <3> DEFINE flat == FlattenSeq(Inner(data, s))
               end == EncodeTag(f.number, "EndGroup")
    <3>2. flat \in Seq(Byte) /\ end \in Seq(Byte)
      BY <2>3, <2>4, <3>1, PiecesTyped
    <3>3. WriteData(f, s) = flat \o end
      BY <1>2, GroupData DEF data
    <3> HIDE DEF flat, end
    <3> QED BY <3>2, <3>3, Joined
  <2>6. ASSUME NEW s \in [F -> Nat] PROVE DataLen(f, s) \in Nat
    <3> HIDE DEF data, F
    <3>1. Inner(data, s) \in [1 .. Len(data) -> Nat]
      BY <2>4, InnerIs
    <3>2. Total(Inner(data, s)) \in Nat
      BY <2>4, <3>1, PiecesTyped
    <3>3. VarintLen(f.number * 8 + WireCode["EndGroup"]) \in Nat
      BY <2>3, VarintLenType
    <3>4. DataLen(f, s) = Total(Inner(data, s)) + VarintLen(f.number * 8 + WireCode["EndGroup"])
      BY <1>2, GroupData DEF data, GroupLen
    <3> QED BY <3>2, <3>3, <3>4
  <2> QED BY <2>5, <2>6
<1> QED BY <1>1, <1>2

(* The recursions of Written and of Sized. *)
LEMMA WrittenRecursion ==
  \A d \in Nat : /\ Written[d] \in [Fields[d] -> Seq(Byte)]
                 /\ Written[d] = [f \in Fields[d] |->
                        EncodeTag(f.number, f.wire) \o WriteData(f, Written[d - 1])]
<1> DEFINE Body(d, s) == [f \in Fields[d] |-> EncodeTag(f.number, f.wire) \o WriteData(f, s)]
           R == [d \in Nat |-> [Fields[d] -> Seq(Byte)]]
           step == [d \in Nat |-> [s \in R[d] |-> Body(d + 1, s)]]
           G(g) == [depth \in Nat |-> Body(depth, g[depth - 1])]
           W == CHOOSE g : g = G(g)
<1>1. \A d \in Nat : R[d] = [Fields[d] -> Seq(Byte)]
  OBVIOUS
<1>2. ASSUME NEW d \in Nat, NEW s, \A f \in Fields[d] : WriteData(f, s) \in Seq(Byte)
      PROVE  Body(d, s) \in [Fields[d] -> Seq(Byte)]
  <2> SUFFICES ASSUME NEW f \in Fields[d] PROVE EncodeTag(f.number, f.wire) \o WriteData(f, s) \in Seq(Byte)
    OBVIOUS
  <2> DEFINE e == EncodeTag(f.number, f.wire)
             w == WriteData(f, s)
  <2>1. e \in Seq(Byte)
    BY FieldIs, TagBytes
  <2>2. w \in Seq(Byte)
    BY <1>2
  <2> HIDE DEF e, w
  <2>3. e \o w \in Seq(Byte)
    BY <2>1, <2>2, Joined
  <2> QED BY <2>3 DEF e, w
<1>3. \A f \in Fields[0] : f.wire # "StartGroup"
  BY FieldIs
<1>4. \A s, t : Body(0, s) = Body(0, t)
  <2> SUFFICES ASSUME NEW s, NEW t PROVE Body(0, s) = Body(0, t)
    OBVIOUS
  <2>1. \A f \in Fields[0] : WriteData(f, s) = WriteData(f, t)
    BY <1>3, UngroupedData
  <2> QED BY <2>1
<1>5. \A s : Body(0, s) \in R[0]
  <2> SUFFICES ASSUME NEW s PROVE Body(0, s) \in R[0]
    OBVIOUS
  <2>1. \A f \in Fields[0] : WriteData(f, s) \in Seq(Byte)
    BY <1>3, UngroupedData
  <2>2. Body(0, s) \in [Fields[0] -> Seq(Byte)]
    <3> HIDE DEF Body
    <3> QED BY <1>2, <2>1
  <2> HIDE DEF Body, R
  <2> QED BY <1>1, <2>2
<1>6. ASSUME NEW d \in Nat, NEW s \in R[d]
      PROVE  step[d][s] = Body(d + 1, s) /\ Body(d + 1, s) \in R[d + 1]
  <2>1. step[d][s] = Body(d + 1, s)
    <3> HIDE DEF Body, R
    <3> QED OBVIOUS
  <2>2. s \in [Fields[d] -> Seq(Byte)]
    BY <1>1
  <2>3. \A f \in Fields[d + 1] : WriteData(f, s) \in Seq(Byte)
    BY <2>2, GroupedData
  <2>4. Body(d + 1, s) \in [Fields[d + 1] -> Seq(Byte)]
    <3> HIDE DEF Body
    <3> QED BY <1>2, <2>3
  <2> HIDE DEF Body, R, step
  <2> QED BY <1>1, <2>1, <2>4
<1>7. PICK f : /\ f = [d \in Nat |-> f[d]]
               /\ f[0] = Body(0, 0)
               /\ \A d \in Nat : f[d] \in R[d] /\ f[d + 1] = step[d][f[d]]
  <2> DEFINE first == Body(0, 0)
  <2>1. first \in R[0] /\ \A d \in Nat : \A s \in R[d] : step[d][s] \in R[d + 1]
    <3> HIDE DEF Body, R, step
    <3> QED BY <1>5, <1>6
  <2> HIDE DEF first, R, step
  <2>2. \E f : /\ f = [d \in Nat |-> f[d]]
               /\ f[0] = first
               /\ \A d \in Nat : f[d] \in R[d] /\ f[d + 1] = step[d][f[d]]
    BY <2>1, DepthRecursion
  <2> HIDE DEF Body
  <2> QED BY <2>2 DEF first
<1> HIDE DEF Body, R, step
<1>8. ASSUME NEW d \in Nat PROVE f[d] = Body(d, f[d - 1])
  <2>1. CASE d = 0
    BY <1>4, <1>7, <2>1
  <2>2. CASE d # 0
    <3>1. d - 1 \in Nat /\ (d - 1) + 1 = d
      BY <2>2
    <3>2. f[d - 1] \in R[d - 1] /\ f[(d - 1) + 1] = step[d - 1][f[d - 1]]
      BY <1>7, <3>1
    <3>3. step[d - 1][f[d - 1]] = Body((d - 1) + 1, f[d - 1])
      BY <1>6, <3>1, <3>2
    <3> QED BY <3>1, <3>2, <3>3
  <2> QED BY <2>1, <2>2
<1>9. f = G(f)
  BY <1>7, <1>8
<1>10. Written = W
  BY DEF Written, Body
<1>11. W = G(W)
  <2> HIDE DEF G
  <2> QED BY <1>9
<1> HIDE DEF W
<1>12. \A d \in Nat : W[d] = Body(d, W[d - 1])
  BY <1>11
<1> DEFINE T == {d \in Nat : W[d] \in R[d]}
<1>13. Nat \subseteq T
  <2>1. 0 \in T
    BY <1>5, <1>12
  <2>2. ASSUME NEW d \in Nat, d \in T PROVE d + 1 \in T
    <3>1. (d + 1) - 1 = d /\ d + 1 \in Nat
      OBVIOUS
    <3>2. W[d + 1] = Body(d + 1, W[d])
      BY <1>12, <3>1
    <3>3. Body(d + 1, W[d]) \in R[d + 1]
      BY <1>6, <2>2
    <3> QED BY <3>1, <3>2, <3>3
  <2> HIDE DEF T
  <2> QED BY <2>1, <2>2, SetInduction
<1> QED BY <1>1, <1>10, <1>12, <1>13 DEF Body

LEMMA SizedRecursion ==
  \A d \in Nat : /\ Sized[d] \in [Fields[d] -> Nat]
                 /\ Sized[d] = [f \in Fields[d] |->
                        VarintLen(f.number * 8 + WireCode[f.wire]) + DataLen(f, Sized[d - 1])]
<1> DEFINE Body(d, s) == [f \in Fields[d] |-> VarintLen(f.number * 8 + WireCode[f.wire]) + DataLen(f, s)]
           R == [d \in Nat |-> [Fields[d] -> Nat]]
           step == [d \in Nat |-> [s \in R[d] |-> Body(d + 1, s)]]
           G(g) == [depth \in Nat |-> Body(depth, g[depth - 1])]
           W == CHOOSE g : g = G(g)
<1>1. \A d \in Nat : R[d] = [Fields[d] -> Nat]
  OBVIOUS
<1>2. ASSUME NEW d \in Nat, NEW s, \A f \in Fields[d] : DataLen(f, s) \in Nat
      PROVE  Body(d, s) \in [Fields[d] -> Nat]
  <2> SUFFICES ASSUME NEW f \in Fields[d]
               PROVE  VarintLen(f.number * 8 + WireCode[f.wire]) + DataLen(f, s) \in Nat
    OBVIOUS
  <2>1. f.number * 8 + WireCode[f.wire] \in Nat
    BY FieldIs, TagBytes
  <2>2. VarintLen(f.number * 8 + WireCode[f.wire]) \in Nat
    BY <2>1, VarintLenType
  <2>3. DataLen(f, s) \in Nat
    BY <1>2
  <2> QED BY <2>2, <2>3
<1>3. \A f \in Fields[0] : f.wire # "StartGroup"
  BY FieldIs
<1>4. \A s, t : Body(0, s) = Body(0, t)
  <2> SUFFICES ASSUME NEW s, NEW t PROVE Body(0, s) = Body(0, t)
    OBVIOUS
  <2>1. \A f \in Fields[0] : DataLen(f, s) = DataLen(f, t)
    BY <1>3, UngroupedData
  <2> QED BY <2>1
<1>5. \A s : Body(0, s) \in R[0]
  <2> SUFFICES ASSUME NEW s PROVE Body(0, s) \in R[0]
    OBVIOUS
  <2>1. \A f \in Fields[0] : DataLen(f, s) \in Nat
    BY <1>3, UngroupedData
  <2>2. Body(0, s) \in [Fields[0] -> Nat]
    <3> HIDE DEF Body
    <3> QED BY <1>2, <2>1
  <2> HIDE DEF Body, R
  <2> QED BY <1>1, <2>2
<1>6. ASSUME NEW d \in Nat, NEW s \in R[d]
      PROVE  step[d][s] = Body(d + 1, s) /\ Body(d + 1, s) \in R[d + 1]
  <2>1. step[d][s] = Body(d + 1, s)
    <3> HIDE DEF Body, R
    <3> QED OBVIOUS
  <2>2. s \in [Fields[d] -> Nat]
    BY <1>1
  <2>3. \A f \in Fields[d + 1] : DataLen(f, s) \in Nat
    BY <2>2, GroupedData
  <2>4. Body(d + 1, s) \in [Fields[d + 1] -> Nat]
    <3> HIDE DEF Body
    <3> QED BY <1>2, <2>3
  <2> HIDE DEF Body, R, step
  <2> QED BY <1>1, <2>1, <2>4
<1>7. PICK f : /\ f = [d \in Nat |-> f[d]]
               /\ f[0] = Body(0, 0)
               /\ \A d \in Nat : f[d] \in R[d] /\ f[d + 1] = step[d][f[d]]
  <2> DEFINE first == Body(0, 0)
  <2>1. first \in R[0] /\ \A d \in Nat : \A s \in R[d] : step[d][s] \in R[d + 1]
    <3> HIDE DEF Body, R, step
    <3> QED BY <1>5, <1>6
  <2> HIDE DEF first, R, step
  <2>2. \E f : /\ f = [d \in Nat |-> f[d]]
               /\ f[0] = first
               /\ \A d \in Nat : f[d] \in R[d] /\ f[d + 1] = step[d][f[d]]
    BY <2>1, DepthRecursion
  <2> HIDE DEF Body
  <2> QED BY <2>2 DEF first
<1> HIDE DEF Body, R, step
<1>8. ASSUME NEW d \in Nat PROVE f[d] = Body(d, f[d - 1])
  <2>1. CASE d = 0
    BY <1>4, <1>7, <2>1
  <2>2. CASE d # 0
    <3>1. d - 1 \in Nat /\ (d - 1) + 1 = d
      BY <2>2
    <3>2. f[d - 1] \in R[d - 1] /\ f[(d - 1) + 1] = step[d - 1][f[d - 1]]
      BY <1>7, <3>1
    <3>3. step[d - 1][f[d - 1]] = Body((d - 1) + 1, f[d - 1])
      BY <1>6, <3>1, <3>2
    <3> QED BY <3>1, <3>2, <3>3
  <2> QED BY <2>1, <2>2
<1>9. f = G(f)
  BY <1>7, <1>8
<1>10. Sized = W
  BY DEF Sized, Body
<1>11. W = G(W)
  <2> HIDE DEF G
  <2> QED BY <1>9
<1> HIDE DEF W
<1>12. \A d \in Nat : W[d] = Body(d, W[d - 1])
  BY <1>11
<1> DEFINE T == {d \in Nat : W[d] \in R[d]}
<1>13. Nat \subseteq T
  <2>1. 0 \in T
    BY <1>5, <1>12
  <2>2. ASSUME NEW d \in Nat, d \in T PROVE d + 1 \in T
    <3>1. (d + 1) - 1 = d /\ d + 1 \in Nat
      OBVIOUS
    <3>2. W[d + 1] = Body(d + 1, W[d])
      BY <1>12, <3>1
    <3>3. Body(d + 1, W[d]) \in R[d + 1]
      BY <1>6, <2>2
    <3> QED BY <3>1, <3>2, <3>3
  <2> HIDE DEF T
  <2> QED BY <2>1, <2>2, SetInduction
<1> QED BY <1>1, <1>10, <1>12, <1>13 DEF Body

-----------------------------------------------------------------------------
(* The bytes s stand in c after position p. *)
Has(c, p, s) == p + Len(s) <= Len(c) /\ \A k \in 1 .. Len(s) : c[p + k] = s[k]

LEMMA HasParts ==
  ASSUME NEW c \in Seq(Byte), NEW p \in Nat, NEW s \in Seq(Byte), NEW t \in Seq(Byte), Has(c, p, s \o t)
  PROVE  /\ Has(c, p, s) /\ Has(c, p + Len(s), t)
         /\ p + Len(s) \in Nat /\ p + Len(s \o t) = (p + Len(s)) + Len(t)
<1> DEFINE u == s \o t
           m == Len(s)
           n == Len(t)
<1>1. /\ m \in Nat /\ n \in Nat /\ Len(u) = m + n /\ Len(c) \in Nat
      /\ \A i \in 1 .. m : u[i] = s[i]
      /\ \A i \in 1 .. n : u[m + i] = t[i]
  BY Joined
<1>2. p + Len(u) <= Len(c) /\ \A k \in 1 .. Len(u) : c[p + k] = u[k]
  BY DEF Has
<1> HIDE DEF u, m, n
<1>3. p + m <= Len(c) /\ \A k \in 1 .. m : c[p + k] = s[k]
  <2>1. \A k \in 1 .. m : k \in 1 .. Len(u)
    BY <1>1
  <2> QED BY <1>1, <1>2, <2>1
<1>4. (p + m) + n <= Len(c) /\ \A k \in 1 .. n : c[(p + m) + k] = t[k]
  <2>1. \A k \in 1 .. n : m + k \in 1 .. Len(u) /\ (p + m) + k = p + (m + k)
    BY <1>1
  <2> QED BY <1>1, <1>2, <2>1
<1>5. p + m \in Nat /\ p + Len(u) = (p + m) + n
  BY <1>1
<1>6. Has(c, p, s)
  BY <1>3 DEF Has, m
<1>7. Has(c, p + m, t)
  BY <1>4 DEF Has, n
<1> QED BY <1>5, <1>6, <1>7 DEF u, m, n

LEMMA HasFrom ==
  ASSUME NEW c \in Seq(Byte), NEW p \in Nat, NEW s \in Seq(Byte), Has(c, p, s)
  PROVE  /\ From(c, p) \in Seq(Byte) /\ Len(s) <= Len(From(c, p))
         /\ \A k \in 1 .. Len(s) : From(c, p)[k] = s[k]
         /\ Has(From(c, p), 0, s)
<1> DEFINE f == From(c, p)
           n == Len(s)
<1>1. /\ f \in Seq(Byte) /\ Len(f) = (IF p <= Len(c) THEN Len(c) - p ELSE 0)
      /\ \A i \in 1 .. Len(c) - p : f[i] = c[p + i]
  BY FromIs
<1>2. p + n <= Len(c) /\ (\A k \in 1 .. n : c[p + k] = s[k]) /\ n \in Nat /\ Len(c) \in Nat
  BY DEF Has
<1> HIDE DEF f, n
<1>3. n <= Len(f) /\ \A k \in 1 .. n : k \in 1 .. Len(c) - p
  BY <1>1, <1>2
<1>4. \A k \in 1 .. n : f[k] = s[k]
  BY <1>1, <1>2, <1>3
<1>5. 0 + n <= Len(f) /\ \A k \in 1 .. n : f[0 + k] = s[k]
  BY <1>2, <1>3, <1>4
<1> QED BY <1>1, <1>3, <1>4, <1>5 DEF f, n, Has

LEMMA VarintThere ==
  ASSUME NEW v \in 0 .. Pow2[Width] - 1, NEW b \in Seq(Byte), Has(b, 0, EncodeVarint[v])
  PROVE  DecodeVarint(b) = Ok(v, Len(EncodeVarint[v]))
<1> DEFINE e == EncodeVarint[v]
           L == Len(e)
<1>1. v \in Nat /\ v < Pow2[Width]
  BY Widths, Pow2Type
<1>2. Encodes(e, v, L) /\ L \in Nat
  BY <1>1, EncodeShape DEF Encodes
<1>3. 0 + L <= Len(b) /\ \A k \in 1 .. L : b[0 + k] = e[k]
  BY DEF Has
<1> HIDE DEF e
<1>4. L <= Len(b) /\ \A i \in 1 .. L : b[i] = e[i]
  BY <1>2, <1>3
<1> HIDE DEF L
<1>5. DecodeVarint(b) = Ok(v, L)
  BY <1>1, <1>2, <1>4, DecodeEncoded
<1> QED BY <1>5 DEF L, e

(* A written tag, or value, as it stands anywhere. *)
TagBack(t, w) ==
    /\ w \in Seq(Byte) /\ Len(w) >= 1 /\ Len(w) <= t.used
    /\ VarintLen(t.val.number * 8 + WireCode[t.val.wire]) = Len(w)
    /\ \A c \in Seq(Byte), p \in Nat : Has(c, p, w) => DecodeTag(From(c, p)) = Ok(t.val, Len(w))

LEMMA TagWas ==
  ASSUME NEW b \in Seq(Byte), DecodeTag(b).ok
  PROVE  TagBack(DecodeTag(b), EncodeTag(DecodeTag(b).val.number, DecodeTag(b).val.wire))
<1> DEFINE t == DecodeTag(b)
<1>1. PICK number \in 1 .. Pow2[NumberWidth] - 1, k \in 0 .. 5, n \in 1 .. Len(b) :
         /\ t = Ok(Tag(number, WireTypeOf[k]), n)
         /\ number * 8 + k < Pow2[Width]
         /\ number * 8 + k < Pow2[GroupBits * n]
  BY TagRead
<1> DEFINE raw == number * 8 + k
           wire == WireTypeOf[k]
           w == EncodeVarint[raw]
<1>2. t.val = Tag(number, wire) /\ t.used = n /\ t.val.number = number /\ t.val.wire = wire
  BY <1>1 DEF Ok, Tag
<1>3. WireCode[wire] = k /\ EncodeTag(number, wire) = w
  BY WireCodes DEF EncodeTag
<1>4. raw \in 0 .. Pow2[Width] - 1 /\ raw \in Nat
  <2>1. Pow2[Width] \in Nat /\ number \in Nat /\ k \in Nat
    BY Widths, Pow2Type
  <2>2. number * 8 + k < Pow2[Width]
    BY <1>1
  <2> QED BY ONLY <2>1, <2>2
<1>5. w \in Seq(Byte) /\ Len(w) >= 1 /\ Len(w) \in 1 .. n
  <2>1. n \in Nat /\ n >= 1 /\ raw < Pow2[GroupBits * n]
    BY <1>1
  <2> HIDE DEF raw
  <2> QED BY <1>4, <2>1, EncodedSeq, EncodedAtMost
<1>6. VarintLen(raw) = Len(w)
  <2> HIDE DEF raw
  <2> QED BY <1>4, VarintLenExact
<1>7. ASSUME NEW c \in Seq(Byte), NEW p \in Nat, Has(c, p, w)
      PROVE  DecodeTag(From(c, p)) = Ok(t.val, Len(w))
  <2> DEFINE d == From(c, p)
             L == Len(w)
  <2>1. d \in Seq(Byte) /\ Has(d, 0, w)
    <3> HIDE DEF w
    <3> QED BY <1>5, <1>7, HasFrom
  <2>2. DecodeVarint(d) = Ok(raw, L)
    <3> HIDE DEF raw, d
    <3> QED BY <1>4, <2>1, VarintThere
  <2>3. DecodeVarint(d) = Ok(number * 8 + k, L)
    BY <2>2
  <2> HIDE DEF d, L, w, raw
  <2>4. DecodeTag(d) = Ok(Tag(number, WireTypeOf[k]), L)
    BY <2>3, TagReadsBack
  <2> QED BY <1>2, <2>4 DEF d, L, wire
<1>8. Len(w) <= t.used /\ VarintLen(t.val.number * 8 + WireCode[t.val.wire]) = Len(w)
  <2>1. VarintLen(number * 8 + k) = Len(w)
    BY <1>6
  <2> HIDE DEF w, wire, t
  <2> QED BY <1>2, <1>3, <1>5, <2>1
<1>9. EncodeTag(t.val.number, t.val.wire) = w
  BY <1>2, <1>3
<1>10. TagBack(t, w)
  <2> HIDE DEF w, t
  <2> QED BY <1>5, <1>7, <1>8 DEF TagBack
<1> HIDE DEF w, t
<1>11. TagBack(t, EncodeTag(t.val.number, t.val.wire))
  BY <1>9, <1>10
<1> QED BY <1>11 DEF t

(* One more piece in front. *)
LEMMA FlatCons ==
  ASSUME NEW n \in Nat, NEW ss \in [1 .. n -> Seq(Byte)], NEW s \in Seq(Byte),
         NEW tt \in [1 .. n + 1 -> Seq(Byte)], tt[1] = s, \A i \in 1 .. n : tt[i + 1] = ss[i]
  PROVE  FlattenSeq(tt) = s \o FlattenSeq(ss)
<1>1. PICK f : Joins(f, tt, n + 1, Byte)
  <2>1. n + 1 \in Nat /\ n + 1 >= 1
    OBVIOUS
  <2> QED BY <2>1, FlattenRecursion
<1>2. /\ f[1] = tt[1] /\ FlattenSeq(tt) = f[n + 1]
      /\ \A i \in 2 .. n + 1 : f[i] = f[i - 1] \o tt[i]
  BY <1>1 DEF Joins
<1>3. CASE n = 0
  <2>1. FlattenSeq(ss) = <<>>
    BY <1>3, NoPieces
  <2>2. s \o <<>> = s
    BY ConcatEmptySeq
  <2>3. n + 1 = 1
    BY <1>3
  <2> QED BY <1>2, <2>1, <2>2, <2>3
<1>4. CASE n # 0
  <2>1. PICK g : Joins(g, ss, n, Byte)
    <3>1. n >= 1
      BY <1>4
    <3> QED BY <3>1, FlattenRecursion
  <2>2. /\ g \in [1 .. n -> Seq(Byte)] /\ g[1] = ss[1] /\ FlattenSeq(ss) = g[n]
        /\ \A i \in 2 .. n : g[i] = g[i - 1] \o ss[i]
    BY <2>1 DEF Joins
  <2> DEFINE T == {i \in Nat : i + 1 <= n => f[(i + 1) + 1] = s \o g[i + 1]}
  <2>3. 0 \in T
    <3>1. 2 \in 2 .. n + 1 /\ 1 \in 1 .. n /\ 2 - 1 = 1 /\ 1 + 1 = 2
      BY <1>4
    <3>2. f[2] = f[1] \o tt[2]
      BY <1>2, <3>1
    <3>3. tt[2] = ss[1]
      BY <3>1
    <3>4. f[2] = s \o g[1]
      BY <1>2, <2>2, <3>2, <3>3
    <3>5. (0 + 1) + 1 = 2 /\ 0 + 1 = 1
      OBVIOUS
    <3> QED BY <3>4, <3>5
  <2>4. ASSUME NEW i \in Nat, i \in T PROVE i + 1 \in T
    <3> SUFFICES ASSUME (i + 1) + 1 <= n PROVE f[((i + 1) + 1) + 1] = s \o g[(i + 1) + 1]
      OBVIOUS
    <3> DEFINE j == i + 1
    <3>1. /\ j \in 1 .. n /\ j + 1 \in 1 .. n /\ j + 1 \in 2 .. n /\ (j + 1) + 1 \in 2 .. n + 1
          /\ (j + 1) - 1 = j /\ ((j + 1) + 1) - 1 = j + 1 /\ j <= n
      OBVIOUS
    <3>2. f[j + 1] = s \o g[j]
      BY <2>4, <3>1
    <3> HIDE DEF j
    <3>3. f[(j + 1) + 1] = f[j + 1] \o tt[(j + 1) + 1]
      <4>1. f[(j + 1) + 1] = f[((j + 1) + 1) - 1] \o tt[(j + 1) + 1]
        BY <1>2, <3>1
      <4> QED BY <3>1, <4>1
    <3>4. tt[(j + 1) + 1] = ss[j + 1]
      BY <3>1
    <3>5. g[j + 1] = g[j] \o ss[j + 1]
      <4>1. g[j + 1] = g[(j + 1) - 1] \o ss[j + 1]
        BY <2>2, <3>1
      <4> QED BY <3>1, <4>1
    <3>6. g[j] \in Seq(Byte) /\ ss[j + 1] \in Seq(Byte)
      BY <2>2, <3>1
    <3>7. (s \o g[j]) \o ss[j + 1] = s \o (g[j] \o ss[j + 1])
      BY <3>6, Rejoined
    <3>8. f[(j + 1) + 1] = s \o g[j + 1]
      BY <3>2, <3>3, <3>4, <3>5, <3>7
    <3> QED BY <3>8 DEF j
  <2> HIDE DEF T
  <2>5. n - 1 \in T
    <3>1. n - 1 \in Nat
      BY <1>4
    <3> QED BY <2>3, <2>4, <3>1, SetInduction
  <2>6. f[n + 1] = s \o g[n]
    <3>1. (n - 1) + 1 = n
      OBVIOUS
    <3> QED BY <2>5, <3>1 DEF T
  <2> QED BY <1>2, <2>2, <2>6
<1> QED BY <1>3, <1>4

LEMMA TotalCons ==
  ASSUME NEW n \in Nat, NEW ss \in [1 .. n -> Nat], NEW x \in Nat,
         NEW tt \in [1 .. n + 1 -> Nat], tt[1] = x, \A i \in 1 .. n : tt[i + 1] = ss[i]
  PROVE  Total(tt) = x + Total(ss)
<1>1. PICK f \in [0 .. n -> Nat] : /\ f[0] = 0
                                   /\ \A i \in 1 .. n : f[i] = f[i - 1] + ss[i]
                                   /\ Total(ss) = f[n]
  BY TotalRecursion
<1> DEFINE P == [i \in 0 .. n + 1 |-> IF i = 0 THEN 0 ELSE x + f[i - 1]]
<1>2. \A i \in 1 .. n + 1 : P[i] = x + f[i - 1] /\ P[i] \in Nat
  <2> SUFFICES ASSUME NEW i \in 1 .. n + 1 PROVE P[i] = x + f[i - 1] /\ P[i] \in Nat
    OBVIOUS
  <2>1. i \in 0 .. n + 1 /\ i # 0 /\ i - 1 \in 0 .. n
    OBVIOUS
  <2>2. f[i - 1] \in Nat
    BY <2>1
  <2> QED BY <2>1, <2>2
<1>3. P[0] = 0 /\ P \in [0 .. n + 1 -> Nat]
  <2>1. ASSUME NEW i \in 0 .. n + 1 PROVE (IF i = 0 THEN 0 ELSE x + f[i - 1]) \in Nat
    <3>1. i # 0 => i - 1 \in 0 .. n
      OBVIOUS
    <3> QED BY <3>1
  <2> QED BY <2>1
<1> HIDE DEF P
<1>4. ASSUME NEW i \in 1 .. n + 1 PROVE P[i] = P[i - 1] + tt[i]
  <2>1. CASE i = 1
    <3>1. P[1] = x + f[0] /\ i - 1 = 0 /\ 1 \in 1 .. n + 1
      <4>1. 1 \in 1 .. n + 1 /\ 1 - 1 = 0
        OBVIOUS
      <4>2. P[1] = x + f[1 - 1]
        BY <1>2, <4>1
      <4> QED BY <2>1, <4>1, <4>2
    <3> QED BY <1>1, <1>3, <2>1, <3>1
  <2>2. CASE i # 1
    <3> DEFINE j == i - 1
    <3>1. j \in 1 .. n /\ j + 1 = i /\ j \in 1 .. n + 1 /\ j - 1 \in 0 .. n /\ j \in 0 .. n
      BY <2>2
    <3> DEFINE a == f[j - 1]
               z == ss[j]
    <3>2. P[i] = x + f[j] /\ P[j] = x + a /\ f[j] = a + z
      BY <1>1, <1>2, <3>1
    <3>3. tt[i] = z
      BY <3>1
    <3>4. a \in Nat /\ z \in Nat
      BY <3>1
    <3> HIDE DEF a, z
    <3> QED BY <3>2, <3>3, <3>4
  <2> QED BY <2>1, <2>2
<1>5. Total(tt) = P[n + 1]
  <2>1. n + 1 \in Nat
    OBVIOUS
  <2> QED BY <1>3, <1>4, <2>1, SameSums
<1>6. P[n + 1] = x + f[n]
  <2>1. n + 1 \in 1 .. n + 1 /\ (n + 1) - 1 = n
    OBVIOUS
  <2> QED BY <1>2, <2>1
<1> QED BY <1>1, <1>5, <1>6

(* A value as it stands anywhere, in no more room than it was read from. *)
PlainBack(b, wire, w, size) ==
    /\ w \in Seq(Byte) /\ size = Len(w) /\ Len(w) <= DecodePlain(b, wire).used
    /\ \A c \in Seq(Byte), p \in Nat : Has(c, p, w) =>
          DecodePlain(From(c, p), wire) = Ok(DecodePlain(b, wire).val, Len(w))

LEMMA VarintWas ==
  ASSUME NEW b \in Seq(Byte), DecodeVarint(b).ok
  PROVE  PlainBack(b, "Varint", EncodeVarint[DecodeVarint(b).val], VarintLen(DecodeVarint(b).val))
<1> DEFINE r == DecodeVarint(b)
           v == r.val
           w == EncodeVarint[v]
<1>1. PICK x \in 0 .. Pow2[Width] - 1, n \in 1 .. Len(b) : r = Ok(x, n) /\ x < Pow2[GroupBits * n]
  BY VarintRead
<1>2. v = x /\ r.used = n
  BY <1>1 DEF Ok
<1>3. v \in 0 .. Pow2[Width] - 1 /\ v \in Nat /\ n \in Nat /\ n >= 1 /\ v < Pow2[GroupBits * n]
  <2>1. Pow2[Width] \in Nat
    BY Widths, Pow2Type
  <2> HIDE DEF v
  <2> QED BY <1>1, <1>2, <2>1
<1>4. \A c : DecodePlain(c, "Varint") = DecodeVarint(c)
  BY DEF DecodePlain
<1> HIDE DEF v
<1>5. w \in Seq(Byte) /\ Len(w) \in 1 .. n
  BY <1>3, EncodedSeq, EncodedAtMost
<1>6. VarintLen(v) = Len(w)
  BY <1>3, VarintLenExact
<1>7. ASSUME NEW c \in Seq(Byte), NEW p \in Nat, Has(c, p, w)
      PROVE  DecodeVarint(From(c, p)) = Ok(v, Len(w))
  <2> DEFINE d == From(c, p)
  <2>1. d \in Seq(Byte) /\ Has(d, 0, w)
    <3> HIDE DEF w
    <3> QED BY <1>5, <1>7, HasFrom
  <2> HIDE DEF d
  <2>2. DecodeVarint(d) = Ok(v, Len(w))
    BY <1>3, <2>1, VarintThere
  <2> QED BY <2>2 DEF d
<1> HIDE DEF w
<1>8. PlainBack(b, "Varint", w, VarintLen(v))
  BY <1>2, <1>4, <1>5, <1>6, <1>7 DEF PlainBack, v
<1> QED BY <1>8 DEF w, v

LEMMA FixedWas ==
  ASSUME NEW b \in Seq(Byte), NEW len \in Nat, NEW wire,
         \A c : DecodePlain(c, wire) = DecodeFixed(c, len), DecodeFixed(b, len).ok
  PROVE  PlainBack(b, wire, DecodeFixed(b, len).val, len)
<1> DEFINE w == SubSeq(b, 0 + 1, len)
<1>1. ~(Len(b) < len)
  BY DEF DecodeFixed, Fail
<1>2. DecodeFixed(b, len).val = w /\ DecodeFixed(b, len).used = len
  BY <1>1 DEF DecodeFixed, Ok
<1>3. w \in Seq(Byte) /\ Len(w) = len
  <2>1. 0 \in Nat /\ 0 <= len /\ len <= Len(b) /\ len - 0 = len
    BY <1>1
  <2> QED BY <2>1, Sliced
<1> HIDE DEF w
<1>4. ASSUME NEW c \in Seq(Byte), NEW p \in Nat, Has(c, p, w)
      PROVE  DecodeFixed(From(c, p), len) = Ok(w, len)
  <2> DEFINE d == From(c, p)
             s == SubSeq(d, 0 + 1, len)
  <2>1. d \in Seq(Byte) /\ len <= Len(d) /\ \A k \in 1 .. len : d[k] = w[k]
    BY <1>3, <1>4, HasFrom
  <2> HIDE DEF d
  <2>2. s \in Seq(Byte) /\ Len(s) = len /\ \A k \in 1 .. len : s[k] = d[k]
    <3>1. 0 \in Nat /\ 0 <= len /\ len <= Len(d) /\ len - 0 = len /\ \A k \in 1 .. len : 0 + k = k
      BY <2>1
    <3>2. s \in Seq(Byte) /\ Len(s) = len - 0 /\ \A k \in 1 .. len - 0 : s[k] = d[0 + k]
      BY <2>1, <3>1, Sliced
    <3> QED BY <3>1, <3>2
  <2>3. s = w
    <3> HIDE DEF s
    <3> QED BY <1>3, <2>1, <2>2
  <2>4. DecodeFixed(d, len) = Ok(s, len)
    <3>1. ~(Len(d) < len)
      BY <2>1
    <3> QED BY <3>1 DEF DecodeFixed
  <2> QED BY <2>3, <2>4 DEF d
<1>5. PlainBack(b, wire, w, len)
  <2>1. DecodePlain(b, wire) = DecodeFixed(b, len)
    OBVIOUS
  <2> QED BY <1>2, <1>3, <1>4, <2>1 DEF PlainBack
<1> QED BY <1>2, <1>5

LEMMA WidthPowers ==
  /\ Pow2[Width - 1] \in Nat /\ Pow2[Width] \in Nat /\ Pow2[Width] \in Nat \ {0}
  /\ Pow2[Width] = 2 * Pow2[Width - 1]
<1>1. Width - 1 \in Nat /\ Width \in Nat /\ (Width - 1) + 1 = Width
  BY Widths
<1>2. Pow2[(Width - 1) + 1] = 2 * Pow2[Width - 1]
  BY <1>1, Pow2Values
<1> QED BY <1>1, <1>2, Pow2Type

(* A length does not wrap where its content was cut out of the buffer. *)
LEMMA ContentWas ==
  ASSUME NEW b \in Seq(Byte), Len(b) < Pow2[Width - 1], Content(b).ok
  PROVE  LET data == Content(b).val
         IN  PlainBack(b, "LengthDelimited", EncodeVarint[Len(data)] \o data, VarintLen(Len(data)) + Len(data))
<1> DEFINE r == DecodeVarint(b)
           dl == Delimited(b)
           ct == Content(b)
<1>1. r.ok /\ dl.ok
  <2>1. ~r.ok => dl = r
    BY DEF Delimited, Then
  <2>2. ~dl.ok => ct = dl
    BY DEF Content, Then
  <2> HIDE DEF r, dl
  <2> QED BY <2>1, <2>2
<1>2. PICK v \in 0 .. Pow2[Width] - 1, n \in 1 .. Len(b) : r = Ok(v, n) /\ v < Pow2[GroupBits * n]
  BY <1>1, VarintRead
<1> DEFINE end == Unsigned(n + v, Width)
<1>3. n \in Nat /\ n >= 1 /\ n <= Len(b) /\ v \in Nat /\ v < Pow2[Width] /\ Len(b) \in Nat
  BY <1>2, WidthPowers
<1>4. dl = IF end > Len(b) THEN Fail("UnexpectedEof") ELSE Ok(n, end)
  BY <1>2, DelimitedCases
<1>5. ~(end > Len(b)) /\ dl = Ok(n, end)
  <2> HIDE DEF dl, end
  <2> QED BY <1>1, <1>4 DEF Fail
<1>6. ct = IF end < n THEN Fail("panic") ELSE Ok(SubSeq(b, n + 1, end), end)
  <2> HIDE DEF end
  <2> QED BY <1>5 DEF Content, Then, Ok
<1>7. ~(end < n) /\ ct = Ok(SubSeq(b, n + 1, end), end)
  <2> HIDE DEF ct, end
  <2>1. ct.ok
    BY DEF ct
  <2> QED BY <1>6, <2>1 DEF Fail
<1>8. end = n + v
  <2> DEFINE W == Pow2[Width]
             a == n + v
  <2>1. W \in Nat \ {0} /\ W \in Nat /\ Len(b) < W
    BY WidthPowers, <1>3
  <2>2. end = a % W
    BY DEF Unsigned
  <2> HIDE DEF end, W, a
  <2>3. a \in Nat /\ a >= n /\ a < n + W
    BY <1>3, <2>1 DEF a, W
  <2>4. CASE a < W
    <3>1. a = W * 0 + a /\ 0 \in Nat
      BY <2>1, <2>3
    <3>2. a % W = a
      BY <2>1, <2>3, <2>4, <3>1, DivUnique
    <3> QED BY <2>2, <3>2 DEF a
  <2>5. CASE ~(a < W)
    <3>1. a - W \in Nat /\ a - W < n /\ a - W < W /\ a = W * 1 + (a - W) /\ 1 \in Nat
      BY <1>3, <2>1, <2>3, <2>5
    <3>2. a % W = a - W
      BY <2>1, <2>3, <3>1, DivUnique
    <3> QED BY <1>7, <2>2, <3>1, <3>2
  <2> QED BY <2>4, <2>5
<1> DEFINE data == SubSeq(b, n + 1, end)
           head == EncodeVarint[v]
           w == head \o data
<1>9. ct.val = data /\ ct.used = end
  <2> HIDE DEF data, ct, end
  <2> QED BY <1>7 DEF Ok, data
<1>10. data \in Seq(Byte) /\ Len(data) = v /\ end \in Nat
  <2> HIDE DEF end
  <2>1. end \in Nat /\ n <= end /\ end <= Len(b) /\ end - n = v
    BY <1>3, <1>5, <1>8
  <2> QED BY <1>3, <2>1, Sliced
<1>11. head \in Seq(Byte) /\ Len(head) \in 1 .. n /\ VarintLen(v) = Len(head)
  BY <1>2, <1>3, EncodedSeq, EncodedAtMost, VarintLenExact
<1> HIDE DEF data, ct, end, dl, r, head
<1>12. w \in Seq(Byte) /\ Len(w) = Len(head) + v /\ Len(head) \in Nat
  BY <1>10, <1>11, Joined
<1>13. Len(w) <= ct.used /\ VarintLen(v) + v = Len(w)
  <2> HIDE DEF w
  <2> QED BY <1>3, <1>8, <1>9, <1>11, <1>12
<1>14. ASSUME NEW c \in Seq(Byte), NEW p \in Nat, Has(c, p, w)
       PROVE  Content(From(c, p)) = Ok(data, Len(w))
  <2> DEFINE d == From(c, p)
             h == Len(head)
  <2>1. d \in Seq(Byte) /\ Has(d, 0, w)
    <3> HIDE DEF w
    <3> QED BY <1>12, <1>14, HasFrom
  <2> HIDE DEF d
  <2>2. Has(d, 0, head) /\ Has(d, 0 + h, data)
    BY <1>10, <1>11, <2>1, HasParts
  <2>3. DecodeVarint(d) = Ok(v, h)
    BY <1>2, <2>1, <2>2, VarintThere DEF head
  <2>4. (0 + h) + Len(data) <= Len(d) /\ \A k \in 1 .. Len(data) : d[(0 + h) + k] = data[k]
    BY <2>2 DEF Has
  <2>5. h \in Nat /\ h <= n /\ v \in Nat /\ Len(d) \in Nat
    BY <1>3, <1>11, <2>1
  <2> HIDE DEF h, w
  <2>6. h + v <= Len(d) /\ \A k \in 1 .. v : d[h + k] = data[k]
    <3>1. 0 + h = h
      BY <2>5
    <3> QED BY <1>10, <2>4, <3>1
  <2>7. Unsigned(h + v, Width) = h + v
    <3> DEFINE W == Pow2[Width]
               a == h + v
    <3>1. W \in Nat \ {0} /\ a \in Nat /\ a < W /\ a = W * 0 + a /\ 0 \in Nat
      <4>1. h + v <= Len(b)
        BY <1>3, <1>5, <1>8, <2>5
      <4>2. Len(b) < W /\ W \in Nat
        BY <1>3, WidthPowers
      <4> HIDE DEF W
      <4> QED BY <1>3, <2>5, <4>1, <4>2
    <3> HIDE DEF W, a
    <3>2. a % W = a
      BY <3>1, DivUnique
    <3> QED BY <3>2 DEF W, a, Unsigned
  <2>8. Delimited(d) = IF h + v > Len(d) THEN Fail("UnexpectedEof") ELSE Ok(h, h + v)
    <3>1. Delimited(d) = IF Unsigned(h + v, Width) > Len(d) THEN Fail("UnexpectedEof")
                        ELSE Ok(h, Unsigned(h + v, Width))
      BY <2>3, DelimitedCases
    <3> QED BY <2>7, <3>1
  <2>9. Delimited(d) = Ok(h, h + v)
    BY <2>5, <2>6, <2>8
  <2> DEFINE s == SubSeq(d, h + 1, h + v)
  <2>10. Content(d) = Ok(s, h + v)
    <3>1. Content(d) = IF h + v < h THEN Fail("panic") ELSE Ok(SubSeq(d, h + 1, h + v), h + v)
      BY <2>9 DEF Content, Then, Ok
    <3>2. ~(h + v < h)
      BY <2>5
    <3> QED BY <3>1, <3>2
  <2>11. s = data
    <3> DEFINE q == h + v
    <3>1. q \in Nat /\ h <= q /\ q - h = v /\ q <= Len(d)
      BY <2>5, <2>6
    <3>2. s = SubSeq(d, h + 1, q)
      OBVIOUS
    <3> HIDE DEF s, q
    <3>4. s \in Seq(Byte) /\ Len(s) = q - h /\ \A k \in 1 .. q - h : s[k] = d[h + k]
      BY <2>1, <2>5, <3>1, <3>2, Sliced
    <3>3. Len(s) = Len(data) /\ \A k \in 1 .. Len(s) : s[k] = data[k]
      BY <1>10, <2>6, <3>1, <3>4
    <3> QED BY <1>10, <3>3, <3>4
  <2>12. Len(w) = h + v
    BY <1>12 DEF h
  <2> QED BY <2>10, <2>11, <2>12 DEF d
<1>15. \A c : DecodePlain(c, "LengthDelimited") = Content(c)
  BY DEF DecodePlain
<1>16. PlainBack(b, "LengthDelimited", w, VarintLen(v) + v)
  <2>1. DecodePlain(b, "LengthDelimited") = ct
    BY <1>15 DEF ct
  <2> HIDE DEF w
  <2> QED BY <1>9, <1>12, <1>13, <1>14, <1>15, <2>1 DEF PlainBack
<1>17. Content(b).val = data
  BY <1>9 DEF ct
<1> QED BY <1>10, <1>16, <1>17 DEF w, head

LEMMA PlainWas ==
  ASSUME NEW b \in Seq(Byte), Len(b) < Pow2[Width - 1], NEW wire \in WireTypes, wire # "StartGroup",
         DecodePlain(b, wire).ok, NEW number, NEW s, NEW t
  PROVE  LET f == UnknownField(number, wire, DecodePlain(b, wire).val)
         IN  PlainBack(b, wire, WriteData(f, s), DataLen(f, t))
<1> DEFINE val == DecodePlain(b, wire).val
           f == UnknownField(number, wire, val)
<1>0. f.wire = wire /\ f.data = val
  BY DEF UnknownField
<1> HIDE DEF f
<1>1. CASE wire = "Varint"
  <2>1. DecodePlain(b, wire) = DecodeVarint(b)
    BY <1>1 DEF DecodePlain
  <2>2. PlainBack(b, wire, EncodeVarint[val], VarintLen(val))
    BY <1>1, <2>1, VarintWas
  <2>3. WriteData(f, s) = EncodeVarint[val] /\ DataLen(f, t) = VarintLen(val)
    BY <1>0, <1>1 DEF WriteData, DataLen
  <2> QED BY <2>2, <2>3 DEF f
<1>2. CASE wire = "Fixed64"
  <2>1. \A c : DecodePlain(c, wire) = DecodeFixed(c, Fixed64Len)
    BY <1>2 DEF DecodePlain, DecodeFixed64
  <2>2. PlainBack(b, wire, DecodeFixed(b, Fixed64Len).val, Fixed64Len)
    BY <2>1, WidthsAssumption, FixedWas
  <2>3. WriteData(f, s) = val /\ DataLen(f, t) = Fixed64Len
    BY <1>0, <1>2 DEF WriteData, DataLen
  <2> QED BY <2>1, <2>2, <2>3 DEF f
<1>3. CASE wire = "Fixed32"
  <2>1. \A c : DecodePlain(c, wire) = DecodeFixed(c, Fixed32Len)
    BY <1>3 DEF DecodePlain, DecodeFixed32
  <2>2. PlainBack(b, wire, DecodeFixed(b, Fixed32Len).val, Fixed32Len)
    BY <2>1, WidthsAssumption, FixedWas
  <2>3. WriteData(f, s) = val /\ DataLen(f, t) = Fixed32Len
    BY <1>0, <1>3 DEF WriteData, DataLen
  <2> QED BY <2>1, <2>2, <2>3 DEF f
<1>4. CASE wire = "LengthDelimited"
  <2>1. DecodePlain(b, wire) = Content(b)
    BY <1>4 DEF DecodePlain
  <2>2. PlainBack(b, wire, EncodeVarint[Len(val)] \o val, VarintLen(Len(val)) + Len(val))
    BY <1>4, <2>1, ContentWas
  <2>3. /\ WriteData(f, s) = EncodeVarint[Len(val)] \o val
        /\ DataLen(f, t) = VarintLen(Len(val)) + Len(val)
    BY <1>0, <1>4 DEF WriteData, DataLen
  <2> QED BY <2>2, <2>3 DEF f
<1>5. wire # "EndGroup"
  BY DEF DecodePlain, Fail
<1> QED BY <1>1, <1>2, <1>3, <1>4, <1>5, WireNames

(* The rest of a group as it is written and sized. *)
GroupBytes(d, number, inner) ==
    FlattenSeq(Inner(inner, Written[d])) \o EncodeTag(number, "EndGroup")
GroupSize(d, number, inner) == GroupLen(number, Inner(inner, Sized[d]))

(* What a buffer holds is written back in the size computed for it, in no  *)
(* more room, and reads as the same again wherever it then stands.         *)
GroupBack(b, q, number, d) ==
    LET g == DecodeGroup(b)[d][number][q]
        w == GroupBytes(d, number, g.val)
    IN  g.ok => /\ w \in Seq(Byte) /\ GroupSize(d, number, g.val) = Len(w) /\ q + Len(w) <= g.used
                /\ \A c \in Seq(Byte), p \in Nat : Has(c, p, w) =>
                      DecodeGroup(c)[d][number][p] = Ok(g.val, p + Len(w))

ValueBack(b, at, number, wire, d) ==
    LET r == DecodeValue(b, at, number, wire, d, DecodeGroup(b))
        w == WriteData(r.val, Written[d - 1])
    IN  r.ok => /\ w \in Seq(Byte) /\ DataLen(r.val, Sized[d - 1]) = Len(w) /\ at + Len(w) <= r.used
                /\ \A c \in Seq(Byte), p \in Nat : Has(c, p, w) =>
                      DecodeValue(c, p, number, wire, d, DecodeGroup(c)) = Ok(r.val, p + Len(w))

LEMMA ValueIsBack ==
  ASSUME NEW b \in Seq(Byte), Len(b) < Pow2[Width - 1], NEW at \in Nat, NEW number \in Nat,
         NEW wire \in WireTypes, NEW d \in Nat, d # 0 => GroupBack(b, at, number, d - 1)
  PROVE  ValueBack(b, at, number, wire, d)
<1> DEFINE h == DecodeGroup(b)
           r == DecodeValue(b, at, number, wire, d, h)
           v == ValueRead(b, at, number, wire, d, h)
           w == WriteData(r.val, Written[d - 1])
           size == DataLen(r.val, Sized[d - 1])
           Again == \A c \in Seq(Byte), p \in Nat : Has(c, p, w) =>
                      DecodeValue(c, p, number, wire, d, DecodeGroup(c)) = Ok(r.val, p + Len(w))
<1>0. SUFFICES ASSUME r.ok
               PROVE  w \in Seq(Byte) /\ size = Len(w) /\ at + Len(w) <= r.used /\ Again
  BY DEF ValueBack
<1> DEFINE f == UnknownField(number, wire, v.val)
<1>1. v.ok /\ r.val = f /\ r.used = v.used
  <2>1. r = IF v.ok THEN Ok(f, v.used) ELSE v
    BY DecodeValueIs
  <2> HIDE DEF v, r, f
  <2>2. v.ok
    BY <1>0, <2>1
  <2> QED BY <2>1, <2>2 DEF Ok
<1>2. f.wire = wire /\ f.number = number /\ f.data = v.val
  BY DEF UnknownField
<1>3. CASE wire = "StartGroup"
  <2> DEFINE e == d - 1
             g == h[e][number][at]
  <2>1. d # 0 /\ v = g /\ e \in Nat
    <3>1. d # 0
      BY <1>1, <1>3 DEF ValueRead, Fail
    <3>2. v = g
      BY <1>3, <3>1 DEF ValueRead
    <3> QED BY <3>1, <3>2
  <2>2. GroupBack(b, at, number, e)
    BY <2>1
  <2>3. w = GroupBytes(e, number, g.val) /\ size = GroupSize(e, number, g.val)
    <3> HIDE DEF f, v, g, r
    <3>1. r.val.wire = "StartGroup" /\ r.val.number = number /\ r.val.data = g.val
      BY <1>1, <1>2, <1>3, <2>1
    <3> QED BY <3>1, GroupData DEF GroupBytes, GroupSize
  <2> DEFINE u == GroupBytes(e, number, g.val)
  <2>4. /\ u \in Seq(Byte) /\ GroupSize(e, number, g.val) = Len(u) /\ at + Len(u) <= g.used
        /\ \A c \in Seq(Byte), p \in Nat : Has(c, p, u) =>
              DecodeGroup(c)[e][number][p] = Ok(g.val, p + Len(u))
    BY <1>1, <2>1, <2>2 DEF GroupBack
  <2>5. ASSUME NEW c \in Seq(Byte), NEW p \in Nat, Has(c, p, u)
        PROVE  DecodeValue(c, p, number, wire, d, DecodeGroup(c)) = Ok(f, p + Len(u))
    <3> DEFINE j == DecodeGroup(c)
               y == ValueRead(c, p, number, wire, d, j)
               L == p + Len(u)
    <3>1. j[e][number][p] = Ok(g.val, L)
      BY <2>4, <2>5
    <3>2. y = j[e][number][p]
      BY <1>3, <2>1 DEF ValueRead
    <3>3. DecodeValue(c, p, number, wire, d, j) = IF y.ok THEN Ok(UnknownField(number, wire, y.val), y.used) ELSE y
      BY DecodeValueIs
    <3>4. y.ok /\ y.val = v.val /\ y.used = L
      <4> HIDE DEF y, j, L, v, g
      <4> QED BY <2>1, <3>1, <3>2 DEF Ok
    <3> HIDE DEF y, j, v, L
    <3>5. DecodeValue(c, p, number, wire, d, j) = Ok(UnknownField(number, wire, v.val), L)
      BY <3>3, <3>4
    <3> QED BY <3>5 DEF j, L
  <2>6. w = u
    BY <2>3
  <2> HIDE DEF w, u, size, r, f, v, g, e, h
  <2>7. Again
    BY <1>1, <2>5, <2>6 DEF h
  <2>8. w \in Seq(Byte) /\ size = Len(w) /\ at + Len(w) <= r.used
    BY <1>1, <2>1, <2>3, <2>4, <2>6
  <2> QED BY <2>7, <2>8
<1>4. CASE wire # "StartGroup"
  <2> DEFINE B == From(b, at)
             s == DecodePlain(B, wire)
             fs == UnknownField(number, wire, s.val)
             u == WriteData(fs, Written[d - 1])
             z == DataLen(fs, Sized[d - 1])
  <2>1. B \in Seq(Byte) /\ Len(B) <= Len(b) /\ Len(b) \in Nat /\ Len(B) \in Nat
    <3>1. B \in Seq(Byte) /\ Len(B) = IF at <= Len(b) THEN Len(b) - at ELSE 0
      BY FromIs
    <3>2. Len(b) \in Nat
      OBVIOUS
    <3> HIDE DEF B
    <3> QED BY <3>1, <3>2
  <2>2. Len(B) < Pow2[Width - 1]
    <3> HIDE DEF B
    <3> QED BY <2>1, WidthPowers
  <2>3. v = IF s.ok THEN Ok(s.val, at + s.used) ELSE s
    BY <1>4 DEF ValueRead
  <2>4. s.ok /\ v.val = s.val /\ v.used = at + s.used
    <3> HIDE DEF v, s
    <3> QED BY <1>1, <2>3 DEF Ok
  <2>5. s.used \in Nat
    <3>1. Reaches(s, 0)
      BY <1>4, <2>1, PlainReaches
    <3> QED BY <2>4, <3>1 DEF Reaches
  <2>6. PlainBack(B, wire, u, z)
    <3> HIDE DEF B
    <3>1. DecodePlain(B, wire).ok
      BY <2>4
    <3> QED BY <1>4, <2>1, <2>2, <3>1, PlainWas
  <2>7. u \in Seq(Byte) /\ z = Len(u) /\ Len(u) <= s.used
        /\ \A c \in Seq(Byte), p \in Nat : Has(c, p, u) => DecodePlain(From(c, p), wire) = Ok(s.val, Len(u))
    BY <2>6 DEF PlainBack
  <2>8. ASSUME NEW c \in Seq(Byte), NEW p \in Nat, Has(c, p, u)
        PROVE  DecodeValue(c, p, number, wire, d, DecodeGroup(c)) = Ok(f, p + Len(u))
    <3> DEFINE j == DecodeGroup(c)
               y == ValueRead(c, p, number, wire, d, j)
               k == DecodePlain(From(c, p), wire)
               L == Len(u)
    <3>1. k = Ok(s.val, L)
      BY <2>7, <2>8
    <3>2. y = IF k.ok THEN Ok(k.val, p + k.used) ELSE k
      BY <1>4 DEF ValueRead
    <3>3. DecodeValue(c, p, number, wire, d, j) = IF y.ok THEN Ok(UnknownField(number, wire, y.val), y.used) ELSE y
      BY DecodeValueIs
    <3> HIDE DEF y, j, L, v, k, s
    <3>4. y.ok /\ y.val = v.val /\ y.used = p + L
      BY <2>4, <3>1, <3>2 DEF Ok
    <3>5. DecodeValue(c, p, number, wire, d, j) = Ok(UnknownField(number, wire, v.val), p + L)
      BY <3>3, <3>4
    <3> QED BY <3>5 DEF j, L
  <2>9. f = fs
    BY <2>4
  <2>10. w = u /\ size = z
    <3> HIDE DEF f, fs, r
    <3> QED BY <1>1, <2>9
  <2> HIDE DEF w, u, size, z, r, f, v, s, h
  <2>11. Again
    BY <1>1, <2>8, <2>10 DEF h
  <2>12. w \in Seq(Byte) /\ size = Len(w) /\ at + Len(w) <= r.used
    <3>1. Len(u) \in Nat /\ Len(u) <= s.used
      BY <2>7
    <3>2. at + Len(u) <= at + s.used
      BY <2>5, <3>1
    <3> QED BY <1>1, <2>4, <2>7, <2>10, <3>2
  <2> QED BY <2>11, <2>12
<1> QED BY <1>3, <1>4

LEMMA GroupEnds ==
  ASSUME NEW d \in Nat, NEW number \in Nat
  PROVE  /\ GroupBytes(d, number, <<>>) = EncodeTag(number, "EndGroup")
         /\ GroupSize(d, number, <<>>) = VarintLen(number * 8 + WireCode["EndGroup"])
<1> DEFINE e == EncodeTag(number, "EndGroup")
           x == number * 8 + WireCode["EndGroup"]
<1>1. "EndGroup" \in WireTypes
  BY WireNames
<1>2. e \in Seq(Byte) /\ x \in Nat
  BY <1>1, TagBytes
<1>3. VarintLen(x) \in Nat
  <2> HIDE DEF x
  <2> QED BY <1>2, VarintLenType
<1>4. \A s : Inner(<<>>, s) \in [1 .. 0 -> Nat]
  BY DEF Inner
<1>5. \A s : FlattenSeq(Inner(<<>>, s)) = <<>> /\ Total(Inner(<<>>, s)) = 0
  BY <1>4, NoPieces
<1>6. <<>> \o e = e
  <2> HIDE DEF e
  <2> QED BY <1>2, ConcatEmptySeq
<1>7. GroupBytes(d, number, <<>>) = FlattenSeq(Inner(<<>>, Written[d])) \o e
  BY DEF GroupBytes
<1>8. GroupSize(d, number, <<>>) = Total(Inner(<<>>, Sized[d])) + VarintLen(x)
  BY DEF GroupSize, GroupLen
<1> HIDE DEF e, x
<1>9. GroupBytes(d, number, <<>>) = e /\ GroupSize(d, number, <<>>) = VarintLen(x)
  <2>1. GroupBytes(d, number, <<>>) = e
    BY <1>5, <1>6, <1>7
  <2> DEFINE t == Total(Inner(<<>>, Sized[d]))
             v == VarintLen(x)
  <2>2. t = 0 /\ v \in Nat /\ GroupSize(d, number, <<>>) = t + v
    BY <1>3, <1>5, <1>8
  <2> HIDE DEF t, v
  <2>3. GroupSize(d, number, <<>>) = v
    BY <2>2
  <2> QED BY <2>1, <2>3 DEF v
<1> QED BY <1>9 DEF e, x

(* a and then the n pieces of ss. *)
Longer(tt, a, ss, n) == tt[1] = a /\ \A i \in 1 .. n : tt[i + 1] = ss[i]

LEMMA InnerCons ==
  ASSUME NEW F, NEW V, NEW x \in F, NEW rest \in Seq(F), NEW s \in [F -> V]
  PROVE  /\ Len(rest) \in Nat
         /\ Inner(rest, s) \in [1 .. Len(rest) -> V]
         /\ Inner(<<x>> \o rest, s) \in [1 .. Len(rest) + 1 -> V]
         /\ Longer(Inner(<<x>> \o rest, s), s[x], Inner(rest, s), Len(rest))
<1> DEFINE all == <<x>> \o rest
           n == Len(rest)
           tt == Inner(all, s)
           ss == Inner(rest, s)
<1>1. /\ all \in Seq(F) /\ Len(all) = n + 1 /\ all[1] = x
      /\ \A i \in 1 .. n : all[i + 1] = rest[i]
  BY Consed
<1> HIDE DEF all
<1>0. \A data \in Seq(F) :
        /\ Len(data) \in Nat /\ Inner(data, s) \in [1 .. Len(data) -> V]
        /\ \A i \in 1 .. Len(data) : Inner(data, s)[i] = s[data[i]]
  <2> SUFFICES ASSUME NEW data \in Seq(F)
               PROVE  /\ Len(data) \in Nat /\ Inner(data, s) \in [1 .. Len(data) -> V]
                      /\ \A i \in 1 .. Len(data) : Inner(data, s)[i] = s[data[i]]
    OBVIOUS
  <2>1. DOMAIN data = 1 .. Len(data) /\ Len(data) \in Nat /\ \A i \in 1 .. Len(data) : data[i] \in F
    OBVIOUS
  <2>2. \A i \in 1 .. Len(data) : s[data[i]] \in V
    BY <2>1
  <2>3. Inner(data, s) = [i \in 1 .. Len(data) |-> s[data[i]]]
    BY <2>1 DEF Inner
  <2> QED BY <2>1, <2>2, <2>3
<1>2. n \in Nat /\ ss \in [1 .. n -> V] /\ \A i \in 1 .. n : ss[i] = s[rest[i]]
  BY <1>0
<1>3. tt \in [1 .. Len(all) -> V] /\ \A i \in 1 .. Len(all) : tt[i] = s[all[i]]
  BY <1>0, <1>1
<1> HIDE DEF tt, ss, n
<1>4. 1 \in 1 .. n + 1 /\ \A i \in 1 .. n : i + 1 \in 1 .. n + 1
  BY <1>2
<1>5. tt \in [1 .. n + 1 -> V] /\ tt[1] = s[x] /\ \A i \in 1 .. n : tt[i + 1] = ss[i]
  <2>1. tt \in [1 .. n + 1 -> V] /\ \A i \in 1 .. n + 1 : tt[i] = s[all[i]]
    BY ONLY <1>1, <1>3
  <2> QED BY ONLY <1>1, <1>2, <1>4, <2>1
<1>6. Longer(tt, s[x], ss, n)
  BY <1>5 DEF Longer
<1> QED BY <1>2, <1>5, <1>6 DEF tt, ss, n, all

LEMMA GroupCons ==
  ASSUME NEW d \in Nat, NEW number \in Nat, NEW x \in Fields[d], NEW rest \in Seq(Fields[d]),
         WriteData(x, Written[d - 1]) \in Seq(Byte)
  PROVE  /\ GroupBytes(d, number, <<x>> \o rest)
              = EncodeTag(x.number, x.wire) \o (WriteData(x, Written[d - 1]) \o GroupBytes(d, number, rest))
         /\ GroupSize(d, number, <<x>> \o rest)
              = (VarintLen(x.number * 8 + WireCode[x.wire]) + DataLen(x, Sized[d - 1]))
                + GroupSize(d, number, rest)
         /\ GroupBytes(d, number, rest) \in Seq(Byte)
<1> DEFINE F == Fields[d]
           W == Written[d]
           Z == Sized[d]
           n == Len(rest)
           all == <<x>> \o rest
           e == EncodeTag(x.number, x.wire)
           wd == WriteData(x, Written[d - 1])
           E == EncodeTag(number, "EndGroup")
           k == VarintLen(number * 8 + WireCode["EndGroup"])
           Fl == FlattenSeq(Inner(rest, W))
           To == Total(Inner(rest, Z))
<1>1. W \in [F -> Seq(Byte)] /\ W[x] = e \o wd
  BY WrittenRecursion
<1>2. Z \in [F -> Nat] /\ Z[x] = VarintLen(x.number * 8 + WireCode[x.wire]) + DataLen(x, Sized[d - 1])
  BY SizedRecursion
<1>3. x \in F /\ rest \in Seq(F)
  OBVIOUS
<1>4. e \in Seq(Byte) /\ wd \in Seq(Byte)
  BY FieldIs, TagBytes
<1>5. E \in Seq(Byte) /\ k \in Nat
  <2>1. "EndGroup" \in WireTypes
    BY WireNames
  <2>2. number * 8 + WireCode["EndGroup"] \in Nat /\ E \in Seq(Byte)
    BY <2>1, TagBytes
  <2> QED BY <2>2, VarintLenType
<1>6. /\ GroupBytes(d, number, rest) = Fl \o E
      /\ GroupBytes(d, number, all) = FlattenSeq(Inner(all, W)) \o E
  BY DEF GroupBytes
<1>7. /\ GroupSize(d, number, rest) = To + k
      /\ GroupSize(d, number, all) = Total(Inner(all, Z)) + k
  BY DEF GroupSize, GroupLen
<1> HIDE DEF F, W, Z, e, wd, E, k
<1>8. FlattenSeq(Inner(all, W)) = (e \o wd) \o Fl /\ Fl \in Seq(Byte)
  <2>1. /\ n \in Nat /\ Inner(rest, W) \in [1 .. n -> Seq(Byte)]
        /\ Inner(all, W) \in [1 .. n + 1 -> Seq(Byte)]
        /\ Longer(Inner(all, W), W[x], Inner(rest, W), n)
    <3> DEFINE V == Seq(Byte)
    <3>1. W \in [F -> V]
      BY <1>1
    <3> HIDE DEF V
    <3>2. /\ n \in Nat /\ Inner(rest, W) \in [1 .. n -> V]
          /\ Inner(all, W) \in [1 .. n + 1 -> V]
          /\ Longer(Inner(all, W), W[x], Inner(rest, W), n)
      BY <1>3, <3>1, InnerCons
    <3> QED BY <3>2 DEF V
  <2>2. W[x] \in Seq(Byte)
    BY <1>1, <1>3
  <2> HIDE DEF n, all
  <2>3. FlattenSeq(Inner(all, W)) = W[x] \o Fl
    BY <2>1, <2>2, FlatCons DEF Longer
  <2>4. Fl \in Seq(Byte)
    BY <2>1, PiecesTyped
  <2> QED BY <1>1, <2>3, <2>4
<1>9. Total(Inner(all, Z)) = Z[x] + To /\ To \in Nat /\ Z[x] \in Nat
  <2>1. /\ n \in Nat /\ Inner(rest, Z) \in [1 .. n -> Nat]
        /\ Inner(all, Z) \in [1 .. n + 1 -> Nat]
        /\ Longer(Inner(all, Z), Z[x], Inner(rest, Z), n)
    <3> DEFINE V == Nat
    <3>1. Z \in [F -> V]
      BY <1>2
    <3> HIDE DEF V
    <3>2. /\ n \in Nat /\ Inner(rest, Z) \in [1 .. n -> V]
          /\ Inner(all, Z) \in [1 .. n + 1 -> V]
          /\ Longer(Inner(all, Z), Z[x], Inner(rest, Z), n)
      BY <1>3, <3>1, InnerCons
    <3> QED BY <3>2 DEF V
  <2>2. Z[x] \in Nat
    BY <1>2, <1>3
  <2> HIDE DEF n, all
  <2>3. Total(Inner(all, Z)) = Z[x] + To
    BY ONLY <2>1, <2>2, TotalCons DEF Longer
  <2>4. To \in Nat
    BY <2>1, PiecesTyped
  <2> QED BY <2>2, <2>3, <2>4
<1> HIDE DEF Fl, To, all
<1>10. ((e \o wd) \o Fl) \o E = e \o (wd \o (Fl \o E)) /\ Fl \o E \in Seq(Byte)
  <2>1. e \o wd \in Seq(Byte) /\ Fl \o E \in Seq(Byte)
    BY ONLY <1>4, <1>5, <1>8, Joined
  <2>2. ((e \o wd) \o Fl) \o E = (e \o wd) \o (Fl \o E)
    BY <1>5, <1>8, <2>1, Rejoined
  <2>3. (e \o wd) \o (Fl \o E) = e \o (wd \o (Fl \o E))
    BY <1>4, <2>1, Rejoined
  <2> QED BY <2>1, <2>2, <2>3
<1>11. GroupBytes(d, number, all) = e \o (wd \o GroupBytes(d, number, rest))
       /\ GroupBytes(d, number, rest) \in Seq(Byte)
  BY <1>6, <1>8, <1>10
<1>12. GroupSize(d, number, all) = Z[x] + GroupSize(d, number, rest)
  BY <1>5, <1>7, <1>9
<1> QED BY <1>2, <1>11, <1>12 DEF all, e, wd

GroupJoined(d, number, x, rest) ==
    /\ GroupBytes(d, number, <<x>> \o rest)
         = EncodeTag(x.number, x.wire) \o (WriteData(x, Written[d - 1]) \o GroupBytes(d, number, rest))
    /\ GroupSize(d, number, <<x>> \o rest)
         = (VarintLen(x.number * 8 + WireCode[x.wire]) + DataLen(x, Sized[d - 1]))
           + GroupSize(d, number, rest)

LEMMA GroupIsJoined ==
  ASSUME NEW d \in Nat, NEW number \in Nat, NEW x \in Fields[d], NEW rest \in Seq(Fields[d]),
         WriteData(x, Written[d - 1]) \in Seq(Byte)
  PROVE  GroupJoined(d, number, x, rest)
BY GroupCons DEF GroupJoined

(* The end of a group, and one more field in front of the rest of it. *)
LEMMA EndIsBack ==
  ASSUME NEW b \in Seq(Byte), NEW q \in Nat, NEW number \in Nat, NEW d \in Nat, NEW t,
         t = DecodeTag(From(b, q)), t.ok, t.val.wire = "EndGroup"
  PROVE  GroupBack(b, q, number, d)
<1> DEFINE g == DecodeGroup(b)[d][number][q]
           e == EncodeTag(number, "EndGroup")
<1>1. SUFFICES ASSUME g.ok PROVE GroupBack(b, q, number, d)
  BY DEF GroupBack
<1>2. g = KeepTurn(b, DecodeGroup(b), d, number, q)
  BY KeepGroupIs DEF IsKeep
<1>3. g = IF t.val.number = number THEN Ok(<<>>, q + t.used) ELSE Fail("Custom")
  BY <1>2 DEF KeepTurn
<1> HIDE DEF g
<1>4. t.val.number = number /\ g.val = <<>> /\ g.used = q + t.used
  BY <1>1, <1>3 DEF Ok, Fail
<1>5. From(b, q) \in Seq(Byte) /\ TagFound(b, q, t)
  BY FromIs, TagStep
<1>6. TagBack(t, EncodeTag(t.val.number, t.val.wire))
  BY <1>5, TagWas
<1>7. TagBack(t, e)
  BY <1>4, <1>6
<1> HIDE DEF e
<1>8. /\ e \in Seq(Byte) /\ Len(e) <= t.used
      /\ VarintLen(number * 8 + WireCode["EndGroup"]) = Len(e)
      /\ \A c \in Seq(Byte), p \in Nat : Has(c, p, e) => DecodeTag(From(c, p)) = Ok(t.val, Len(e))
  BY <1>4, <1>7 DEF TagBack
<1>9. GroupBytes(d, number, g.val) = e /\ GroupSize(d, number, g.val) = Len(e)
  <2>1. GroupBytes(d, number, <<>>) = EncodeTag(number, "EndGroup")
        /\ GroupSize(d, number, <<>>) = VarintLen(number * 8 + WireCode["EndGroup"])
    BY GroupEnds
  <2> QED BY ONLY <1>4, <1>8, <2>1 DEF e
<1>10. ASSUME NEW c \in Seq(Byte), NEW p \in Nat, Has(c, p, e)
       PROVE  DecodeGroup(c)[d][number][p] = Ok(g.val, p + Len(e))
  <2> DEFINE h == DecodeGroup(c)
             u == DecodeTag(From(c, p))
             L == Len(e)
  <2>1. h[d][number][p] = KeepTurn(c, h, d, number, p)
    BY KeepGroupIs DEF IsKeep
  <2>2. u = Ok(t.val, L)
    BY <1>8, <1>10
  <2>3. u.ok /\ u.val = t.val /\ u.used = L
    <3> HIDE DEF u
    <3> QED BY <2>2 DEF Ok
  <2> HIDE DEF h
  <2>4. u.ok /\ u.val.wire = "EndGroup" =>
           KeepTurn(c, h, d, number, p) = IF u.val.number = number THEN Ok(<<>>, p + u.used) ELSE Fail("Custom")
    BY DEF KeepTurn
  <2> HIDE DEF u, L
  <2>5. h[d][number][p] = Ok(<<>>, p + L)
    BY <1>4, <2>1, <2>3, <2>4
  <2> QED BY <1>4, <2>5 DEF h, L
<1>11. q + Len(e) <= g.used
  <2>1. t.used \in Nat /\ Len(e) \in Nat
    BY <1>5, <1>8 DEF TagFound
  <2> QED BY <1>4, <1>8, <2>1
<1>12. DecodeGroup(b)[d][number][q] = g
  BY DEF g
<1> QED BY <1>8, <1>9, <1>10, <1>11, <1>12 DEF GroupBack

LEMMA KeepGroupTurn ==
  ASSUME NEW b \in Seq(Byte), NEW d \in Nat, NEW number \in Nat, NEW p \in Nat
  PROVE  DecodeGroup(b)[d][number][p] = KeepTurn(b, DecodeGroup(b), d, number, p)
BY KeepGroupIs DEF IsKeep

LEMMA KeepGroupAnswers ==
  ASSUME NEW b \in Seq(Byte), NEW d \in Nat, NEW number \in Nat, NEW p \in Nat
  PROVE  Passes(DecodeGroup(b)[d][number][p], p)
<1>1. DecodeGroup(b)[d][number][p] = KeepTurn(b, DecodeGroup(b), d, number, p)
  BY KeepGroupTurn
<1>2. KeepAhead(DecodeGroup(b), p)
  BY KeepGroupPasses
<1> QED BY <1>1, <1>2, KeepTurnPasses

LEMMA FieldIsBack ==
  ASSUME NEW b \in Seq(Byte), NEW q \in Nat, NEW number \in Nat, NEW d \in Nat,
         NEW t, t = DecodeTag(From(b, q)), t.ok, t.val.wire # "EndGroup",
         NEW V, V = DecodeValue(b, q + t.used, t.val.number, t.val.wire, d, DecodeGroup(b)), V.ok,
         NEW R, R = DecodeGroup(b)[d][number][V.used], R.ok,
         ValueBack(b, q + t.used, t.val.number, t.val.wire, d),
         V.used \in Nat, GroupBack(b, V.used, number, d)
  PROVE  GroupBack(b, q, number, d)
<1> DEFINE g == DecodeGroup(b)[d][number][q]
           at == q + t.used
           x == V.val
           rest == R.val
           inner == <<x>> \o rest
           e == EncodeTag(t.val.number, t.val.wire)
           wd == WriteData(x, Written[d - 1])
           wr == GroupBytes(d, number, rest)
           w == GroupBytes(d, number, inner)
<1>1. g = Ok(inner, R.used)
  <2>1. g = KeepTurn(b, DecodeGroup(b), d, number, q)
    BY ONLY b \in Seq(Byte), d \in Nat, number \in Nat, q \in Nat, KeepGroupTurn, Zenon
  <2> QED BY <2>1 DEF KeepTurn
<1>2. g.ok /\ g.val = inner /\ g.used = R.used
  <2> HIDE DEF g, inner
  <2> QED BY <1>1 DEF Ok
<1>3. TagFound(b, q, t) /\ From(b, q) \in Seq(Byte)
  BY FromIs, TagStep
<1>4. t.used \in Nat /\ at \in Nat /\ t.val.number \in Nat /\ t.val.wire \in WireTypes
  BY <1>3 DEF TagFound
<1>5. /\ e \in Seq(Byte) /\ Len(e) <= t.used
      /\ VarintLen(t.val.number * 8 + WireCode[t.val.wire]) = Len(e)
      /\ \A c \in Seq(Byte), p \in Nat : Has(c, p, e) => DecodeTag(From(c, p)) = Ok(t.val, Len(e))
  BY <1>3, TagWas DEF TagBack
<1>6. /\ wd \in Seq(Byte) /\ DataLen(x, Sized[d - 1]) = Len(wd) /\ at + Len(wd) <= V.used
      /\ \A c \in Seq(Byte), p \in Nat : Has(c, p, wd) =>
            DecodeValue(c, p, t.val.number, t.val.wire, d, DecodeGroup(c)) = Ok(x, p + Len(wd))
  BY DEF ValueBack
<1>7. /\ wr \in Seq(Byte) /\ GroupSize(d, number, rest) = Len(wr) /\ V.used + Len(wr) <= R.used
      /\ \A c \in Seq(Byte), p \in Nat : Has(c, p, wr) =>
            DecodeGroup(c)[d][number][p] = Ok(rest, p + Len(wr))
  BY DEF GroupBack
<1>8. x.number = t.val.number /\ x.wire = t.val.wire
  <2> DEFINE r == ValueRead(b, at, t.val.number, t.val.wire, d, DecodeGroup(b))
  <2>1. V = IF r.ok THEN Ok(UnknownField(t.val.number, t.val.wire, r.val), r.used) ELSE r
    BY DecodeValueIs
  <2>2. V.ok
    OBVIOUS
  <2> HIDE DEF r, at
  <2> QED BY ONLY <2>1, <2>2 DEF Ok, UnknownField, x
<1>9. x \in Fields[d] /\ rest \in Seq(Fields[d])
  <2>1. Keeps(g, Seq(Fields[d])) /\ Keeps(R, Seq(Fields[d]))
    BY GroupKept
  <2> HIDE DEF g
  <2>2. inner \in Seq(Fields[d]) /\ rest \in Seq(Fields[d])
    BY <1>2, <2>1 DEF Keeps
  <2> DEFINE F == Fields[d]
  <2>3. <<x>> \o rest \in Seq(F) /\ rest \in Seq(F)
    BY <2>2
  <2> HIDE DEF x, rest, F, inner
  <2>4. x \in F
    BY <2>3, ConsKept
  <2> QED BY <2>2, <2>4 DEF F
<1> HIDE DEF x, rest, g, at
<1>10. /\ w = e \o (wd \o wr)
       /\ GroupSize(d, number, inner) = (Len(e) + Len(wd)) + Len(wr)
  <2>1. /\ w = EncodeTag(x.number, x.wire) \o (wd \o wr)
        /\ GroupSize(d, number, inner)
              = (VarintLen(x.number * 8 + WireCode[x.wire]) + DataLen(x, Sized[d - 1]))
                + GroupSize(d, number, rest)
    <3>1. WriteData(x, Written[d - 1]) \in Seq(Byte)
      BY <1>6
    <3>2. x \in Fields[d] /\ rest \in Seq(Fields[d])
      BY <1>9
    <3> HIDE DEF wd, wr, w, inner, e
    <3>3. GroupJoined(d, number, x, rest)
      BY <3>1, <3>2, GroupIsJoined
    <3> QED BY <3>3 DEF GroupJoined, wd, wr, w, inner
  <2>2. EncodeTag(x.number, x.wire) = e
    BY <1>8
  <2>3. VarintLen(x.number * 8 + WireCode[x.wire]) = Len(e)
    BY <1>5, <1>8
  <2> HIDE DEF e, wd, wr, w, inner
  <2> QED BY <1>6, <1>7, <2>1, <2>2, <2>3
<1> HIDE DEF e, wd, wr, w, inner
<1>11. /\ wd \o wr \in Seq(Byte) /\ w \in Seq(Byte)
       /\ Len(w) = (Len(e) + Len(wd)) + Len(wr)
       /\ Len(e) \in Nat /\ Len(wd) \in Nat /\ Len(wr) \in Nat
  <2> DEFINE m == wd \o wr
  <2>0. wd \in Seq(Byte) /\ wr \in Seq(Byte) /\ e \in Seq(Byte)
    BY <1>5, <1>6, <1>7
  <2>1. m \in Seq(Byte) /\ Len(m) = Len(wd) + Len(wr) /\ Len(wd) \in Nat /\ Len(wr) \in Nat
    BY ONLY <2>0, Joined
  <2> HIDE DEF m
  <2>2. w = e \o m
    BY <1>10 DEF m
  <2>3. w \in Seq(Byte) /\ Len(w) = Len(e) + Len(m) /\ Len(e) \in Nat
    BY ONLY <2>0, <2>1, <2>2, Joined
  <2> QED BY ONLY <1>10, <2>0, <2>1, <2>3 DEF m
<1>12. q + Len(w) <= g.used
  <2>1. R.used \in Int
    <3>1. Passes(R, V.used)
      BY KeepGroupAnswers
    <3> DEFINE ru == R.used
    <3>2. ru \in Nat
      BY <3>1 DEF Passes
    <3> HIDE DEF ru
    <3>3. ru \in Int
      BY ONLY <3>2
    <3> QED BY <3>3 DEF ru
  <2>2. at = q + t.used
    BY DEF at
  <2> DEFINE a == Len(e)
             k == Len(wd)
             n == Len(wr)
             m == Len(w)
             tu == t.used
             vu == V.used
             ru == R.used
  <2>3. /\ a \in Nat /\ k \in Nat /\ n \in Nat /\ m = (a + k) + n
        /\ a <= tu /\ at + k <= vu /\ vu + n <= ru
    BY <1>5, <1>6, <1>7, <1>11
  <2>4. tu \in Nat /\ vu \in Nat /\ ru \in Int /\ at = q + tu
    BY <1>4, <2>1, <2>2
  <2> HIDE DEF a, k, n, m, tu, vu, ru
  <2>5. q + m <= ru
    BY ONLY q \in Nat, <2>3, <2>4
  <2> QED BY <1>2, <2>5 DEF m, ru
<1>13. ASSUME NEW c \in Seq(Byte), NEW p \in Nat, Has(c, p, w)
       PROVE  DecodeGroup(c)[d][number][p] = Ok(inner, p + Len(w))
  <2> DEFINE h == DecodeGroup(c)
             u == DecodeTag(From(c, p))
             a == p + Len(e)
             n == a + Len(wd)
             Y == DecodeValue(c, p + u.used, u.val.number, u.val.wire, d, h)
             Z == h[d][number][Y.used]
  <2>1. Has(c, p, e) /\ Has(c, a, wd \o wr) /\ a \in Nat
    BY <1>5, <1>10, <1>11, <1>13, HasParts
  <2>2. Has(c, a, wd) /\ Has(c, n, wr) /\ n \in Nat
    <3> HIDE DEF a
    <3> QED BY <1>6, <1>7, <2>1, HasParts
  <2>3. u = Ok(t.val, Len(e))
    BY <1>5, <2>1
  <2>4. u.ok /\ u.val = t.val /\ u.used = Len(e)
    <3> HIDE DEF u
    <3> QED BY <2>3 DEF Ok
  <2>5. Y = Ok(x, n)
    <3>1. p + u.used = a /\ u.val.number = t.val.number /\ u.val.wire = t.val.wire
      BY <2>4
    <3>2. DecodeValue(c, a, t.val.number, t.val.wire, d, h) = Ok(x, n)
      <4> HIDE DEF a
      <4> QED BY <1>6, <2>1, <2>2
    <3> HIDE DEF u, a, h, n
    <3> QED BY <3>1, <3>2
  <2>6. Y.ok /\ Y.val = x /\ Y.used = n
    <3> HIDE DEF Y, n
    <3> QED BY <2>5 DEF Ok
  <2> DEFINE L == n + Len(wr)
  <2>7. Z = Ok(rest, L)
    <3>1. h[d][number][n] = Ok(rest, L)
      <4> HIDE DEF n
      <4> QED BY <1>7, <2>2
    <3> HIDE DEF Y, n, h, L
    <3> QED BY <2>6, <3>1
  <2>8. Z.ok /\ Z.val = rest /\ Z.used = L
    <3> HIDE DEF Z, L
    <3> QED BY <2>7 DEF Ok
  <2>9. h[d][number][p] =
           IF ~u.ok THEN u
           ELSE IF u.val.wire = "EndGroup"
           THEN IF u.val.number = number THEN Ok(<<>>, p + u.used) ELSE Fail("Custom")
           ELSE IF ~Y.ok THEN Y
           ELSE IF ~Z.ok THEN Z
           ELSE Ok(<<Y.val>> \o Z.val, Z.used)
    <3>1. h[d][number][p] = KeepTurn(c, h, d, number, p)
      BY ONLY c \in Seq(Byte), d \in Nat, number \in Nat, p \in Nat, KeepGroupTurn, Zenon
    <3> HIDE DEF h
    <3> QED BY ONLY <3>1, Zenon DEF KeepTurn
  <2>10. L = p + Len(w)
    BY <1>11
  <2> HIDE DEF u, Y, Z, L, h
  <2>11. h[d][number][p] = Ok(<<x>> \o rest, L)
    BY <2>4, <2>6, <2>8, <2>9
  <2> QED BY <2>10, <2>11 DEF h, inner
<1>14. DecodeGroup(b)[d][number][q] = g
  BY DEF g
<1>15. GroupBytes(d, number, inner) = w /\ GroupSize(d, number, inner) = Len(w)
  BY <1>10, <1>11 DEF w
<1> QED BY <1>2, <1>11, <1>12, <1>13, <1>14, <1>15 DEF GroupBack

LEMMA GroupIsBack ==
  ASSUME NEW b \in Seq(Byte), Len(b) < Pow2[Width - 1], NEW p \in Nat, NEW number \in Nat, NEW d \in Nat
  PROVE  GroupBack(b, p, number, d)
<1> DEFINE f == DecodeGroup(b)
           T == {q \in Nat : \A k \in Nat, n \in Nat : GroupBack(b, q, n, k)}
<1>1. ASSUME NEW q \in Nat, q < Len(b) => \A r \in Nat : r > q => r \in T
      PROVE  q \in T
  <2> SUFFICES ASSUME NEW k \in Nat, NEW n \in Nat, f[k][n][q].ok PROVE GroupBack(b, q, n, k)
    BY DEF GroupBack
  <2> DEFINE t == DecodeTag(From(b, q))
             at == q + t.used
             V == DecodeValue(b, at, t.val.number, t.val.wire, k, f)
             R == f[k][n][V.used]
  <2>1. f[k][n][q] =
           IF ~t.ok THEN t
           ELSE IF t.val.wire = "EndGroup"
           THEN IF t.val.number = n THEN Ok(<<>>, at) ELSE Fail("Custom")
           ELSE IF ~V.ok THEN V
           ELSE IF ~R.ok THEN R
           ELSE Ok(<<V.val>> \o R.val, R.used)
    <3>1. f[k][n][q] = KeepTurn(b, f, k, n, q)
      BY KeepGroupIs DEF IsKeep
    <3> HIDE DEF f
    <3> QED BY <3>1 DEF KeepTurn
  <2>2. KeepAhead(f, q)
    BY KeepGroupPasses
  <2>3. TagFound(b, q, t)
    BY TagStep
  <2>4. t.ok
    <3> HIDE DEF t, f, V, R
    <3> QED BY <2>1
  <2>5. at \in Nat /\ at > q /\ t.val.wire \in WireTypes /\ t.val.number \in Nat /\ q < Len(b)
    BY <2>3, <2>4 DEF TagFound
  <2>6. CASE t.val.wire = "EndGroup"
    BY <2>4, <2>6, EndIsBack
  <2>7. CASE t.val.wire # "EndGroup"
    <3>1. V.ok /\ R.ok
      <4> HIDE DEF t, f, V, R
      <4> QED BY <2>1, <2>4, <2>7
    <3>2. Reaches(V, at)
      <4> HIDE DEF t, at
      <4> QED BY <2>2, <2>5, DecodeValueReaches
    <3>3. V.used \in Nat /\ V.used > q
      <4> HIDE DEF V, at
      <4> QED BY <2>5, <3>1, <3>2 DEF Reaches
    <3>4. at \in T /\ V.used \in T
      <4> HIDE DEF T, V, at
      <4> QED BY <1>1, <2>5, <3>3
    <3>5. ValueBack(b, at, t.val.number, t.val.wire, k)
      <4>1. k # 0 => GroupBack(b, at, t.val.number, k - 1)
        <5> SUFFICES ASSUME k # 0 PROVE GroupBack(b, at, t.val.number, k - 1)
          OBVIOUS
        <5>1. k - 1 \in Nat
          OBVIOUS
        <5> HIDE DEF at, t
        <5> QED BY <2>5, <3>4, <5>1
      <4> HIDE DEF at, t
      <4> QED BY <2>5, <4>1, ValueIsBack
    <3>6. GroupBack(b, V.used, n, k)
      <4> HIDE DEF V
      <4> QED BY <3>4
    <3> QED BY <2>4, <2>7, <3>1, <3>3, <3>5, <3>6, FieldIsBack
  <2> QED BY <2>6, <2>7
<1>2. Nat \subseteq T
  <2>1. Len(b) \in Nat
    OBVIOUS
  <2> HIDE DEF T
  <2> QED BY <1>1, <2>1, BackwardInduction
<1>3. p \in T
  BY <1>2
<1> QED BY <1>3

(* A field kept from bytes that fit in memory: its size is the length of   *)
(* what is written, which takes no more room and reads as the field again. *)
KeptBack(b, m) ==
    LET kept == Keep(b, m)
        w == Written[m][kept.val]
    IN  kept.ok => /\ Len(w) = Sized[m][kept.val] /\ Len(w) <= kept.used
                   /\ Keep(w, m) = Ok(kept.val, Len(w))

LEMMA FieldKeptBack ==
  ASSUME NEW b \in Seq(Byte), Len(b) < Pow2[Width - 1], NEW m \in Nat
  PROVE  KeptBack(b, m)
<1> DEFINE kept == Keep(b, m)
           x == kept.val
           t == DecodeTag(From(b, 0))
           at == 0 + t.used
           c == From(b, at)
           K == DecodeValue(c, 0, t.val.number, t.val.wire, m, DecodeGroup(c))
           e == EncodeTag(t.val.number, t.val.wire)
           wd == WriteData(x, Written[m - 1])
           w == Written[m][x]
<1>1. SUFFICES ASSUME kept.ok
               PROVE  /\ Len(w) = Sized[m][x] /\ Len(w) <= kept.used
                      /\ Keep(w, m) = Ok(x, Len(w))
  BY DEF KeptBack
<1>2. kept = IF t.ok THEN IF K.ok THEN Ok(K.val, at + K.used) ELSE K ELSE t
  BY DEF Keep, AfterTag, Then, DecodeUnknownField
<1>3. t.ok /\ K.ok /\ x = K.val /\ kept.used = at + K.used
  <2> HIDE DEF t, K, at
  <2> QED BY <1>1, <1>2 DEF Ok
<1>4. TagFound(b, 0, t) /\ From(b, 0) \in Seq(Byte)
  BY FromIs, TagStep
<1>5. t.used \in Nat /\ at \in Nat /\ at = t.used /\ t.val.number \in Nat /\ t.val.wire \in WireTypes
  <2>1. t.used \in Nat /\ t.val.number \in Nat /\ t.val.wire \in WireTypes
    BY <1>3, <1>4 DEF TagFound
  <2> HIDE DEF t
  <2> QED BY <2>1
<1>6. c \in Seq(Byte) /\ Len(c) < Pow2[Width - 1]
  <2>1. at \in Nat
    BY <1>5
  <2> HIDE DEF at
  <2>2. /\ c \in Seq(Byte)
        /\ Len(c) = IF at <= Len(b) THEN Len(b) - at ELSE 0
    BY <2>1, FromIs
  <2> DEFINE n == Len(b)
             k == Len(c)
             P == Pow2[Width - 1]
  <2>3. n \in Nat /\ k \in Nat
    BY <2>2
  <2>4. P \in Nat
    BY WidthPowers
  <2>5. n < P /\ k = IF at <= n THEN n - at ELSE 0
    BY <2>2
  <2> HIDE DEF n, k, P
  <2>6. k < P
    BY <2>1, <2>3, <2>4, <2>5
  <2> QED BY <2>2, <2>6 DEF k, P
<1>7. ValueBack(c, 0, t.val.number, t.val.wire, m)
  <2>1. m # 0 => GroupBack(c, 0, t.val.number, m - 1)
    <3> SUFFICES ASSUME m # 0 PROVE GroupBack(c, 0, t.val.number, m - 1)
      OBVIOUS
    <3>1. m - 1 \in Nat
      OBVIOUS
    <3> HIDE DEF c, t
    <3> QED BY <1>5, <1>6, <3>1, GroupIsBack
  <2> HIDE DEF c, t
  <2> QED BY <1>5, <1>6, <2>1, ValueIsBack
<1>8. /\ wd \in Seq(Byte) /\ DataLen(x, Sized[m - 1]) = Len(wd) /\ 0 + Len(wd) <= K.used
      /\ \A s \in Seq(Byte), p \in Nat : Has(s, p, wd) =>
            DecodeValue(s, p, t.val.number, t.val.wire, m, DecodeGroup(s)) = Ok(x, p + Len(wd))
  <2> HIDE DEF c, t, at
  <2> QED BY <1>3, <1>7 DEF ValueBack
<1>9. /\ e \in Seq(Byte) /\ Len(e) <= t.used
      /\ VarintLen(t.val.number * 8 + WireCode[t.val.wire]) = Len(e)
      /\ \A s \in Seq(Byte), p \in Nat : Has(s, p, e) => DecodeTag(From(s, p)) = Ok(t.val, Len(e))
  BY <1>3, <1>4, TagWas DEF TagBack
<1>10. x.number = t.val.number /\ x.wire = t.val.wire
  <2> DEFINE r == ValueRead(c, 0, t.val.number, t.val.wire, m, DecodeGroup(c))
  <2>1. K = IF r.ok THEN Ok(UnknownField(t.val.number, t.val.wire, r.val), r.used) ELSE r
    BY DecodeValueIs
  <2>2. x = K.val /\ K.ok
    BY <1>3
  <2> HIDE DEF r, K, x
  <2> QED BY <2>1, <2>2 DEF Ok, UnknownField
<1>11. x \in Fields[m]
  <2>1. Keeps(kept, Fields[m])
    BY FieldKept
  <2> QED BY <1>1, <2>1 DEF Keeps
<1> HIDE DEF x, K, c
<1>12. w = e \o wd
  <2>1. Written[m][x] = EncodeTag(x.number, x.wire) \o WriteData(x, Written[m - 1])
    BY <1>11, WrittenRecursion
  <2> QED BY <1>10, <2>1
<1>13. Sized[m][x] = Len(e) + Len(wd)
  <2>1. Sized[m][x] = VarintLen(x.number * 8 + WireCode[x.wire]) + DataLen(x, Sized[m - 1])
    BY <1>11, SizedRecursion
  <2> HIDE DEF e, wd
  <2> QED BY <1>8, <1>9, <1>10, <2>1
<1> HIDE DEF e, wd, w
<1>14. /\ w \in Seq(Byte) /\ Len(w) = Len(e) + Len(wd)
       /\ Len(e) \in Nat /\ Len(wd) \in Nat
  BY <1>8, <1>9, <1>12, Joined
<1>15. K.used \in Nat
  <2> DEFINE n == t.val.number
             wire == t.val.wire
             h == DecodeGroup(c)
  <2>1. n \in Nat /\ wire \in WireTypes
    BY <1>5
  <2> HIDE DEF n, wire
  <2>2. m # 0 => Passes(h[m - 1][n][0], 0)
    <3> SUFFICES ASSUME m # 0 PROVE Passes(h[m - 1][n][0], 0)
      OBVIOUS
    <3>1. m - 1 \in Nat
      OBVIOUS
    <3> QED BY <1>6, <2>1, <3>1, KeepGroupAnswers
  <2> HIDE DEF h
  <2>3. Reaches(DecodeValue(c, 0, n, wire, m, h), 0)
    BY <1>6, <2>1, <2>2, ValueReaches
  <2>4. Reaches(K, 0)
    BY <2>3 DEF K, h, n, wire
  <2> QED BY <1>3, <2>4 DEF Reaches
<1>16. Len(w) <= kept.used
  <2> DEFINE a == Len(e)
             k == Len(wd)
             n == Len(w)
             ku == K.used
             tu == t.used
             u == kept.used
  <2>1. a \in Nat /\ k \in Nat /\ n = a + k /\ a <= tu /\ 0 + k <= ku /\ tu \in Nat /\ ku \in Nat /\ u = tu + ku
    BY <1>3, <1>5, <1>8, <1>9, <1>14, <1>15
  <2> HIDE DEF a, k, n, ku, tu, u
  <2>2. n <= u
    BY <2>1
  <2> QED BY <2>2 DEF n, u
<1>17. Keep(w, m) = Ok(x, Len(w))
  <2> DEFINE y == DecodeTag(From(w, 0))
             to == 0 + y.used
             s == From(w, to)
             Y == DecodeValue(s, 0, y.val.number, y.val.wire, m, DecodeGroup(s))
  <2>1. Keep(w, m) = IF y.ok THEN IF Y.ok THEN Ok(Y.val, to + Y.used) ELSE Y ELSE y
    BY DEF Keep, AfterTag, Then, DecodeUnknownField
  <2>2. Has(w, 0, e \o wd)
    BY <1>12, <1>14 DEF Has
  <2>3. Has(w, 0, e)
    BY <1>8, <1>9, <1>14, <2>2, HasParts
  <2>4. y = Ok(t.val, Len(e))
    BY <1>9, <1>14, <2>3
  <2>5. y.ok /\ y.val = t.val /\ y.used = Len(e)
    <3> HIDE DEF y
    <3> QED BY <2>4 DEF Ok
  <2>6. to = Len(e)
    <3> HIDE DEF y
    <3> QED BY <1>14, <2>5
  <2>7. s = wd
    <3> HIDE DEF to
    <3> QED BY <1>8, <1>9, <1>12, <2>6, SecondPart
  <2>8. Has(wd, 0, wd)
    BY <1>14 DEF Has
  <2>9. DecodeValue(wd, 0, t.val.number, t.val.wire, m, DecodeGroup(wd)) = Ok(x, 0 + Len(wd))
    BY <1>8, <2>8
  <2>10. Y = Ok(x, Len(wd))
    <3>1. 0 + Len(wd) = Len(wd)
      BY <1>14
    <3> HIDE DEF s, y, t, to
    <3> QED BY <2>5, <2>7, <2>9, <3>1
  <2>11. Y.ok /\ Y.val = x /\ Y.used = Len(wd)
    <3> HIDE DEF Y
    <3> QED BY <2>10 DEF Ok
  <2> HIDE DEF y, Y, to
  <2> QED BY <1>14, <2>1, <2>5, <2>6, <2>11
<1> QED BY <1>13, <1>14, <1>16, <1>17

(* Whatever is received, a field that is kept is written in exactly the    *)
(* size computed for it, in no more bytes than it was read from, and those *)
(* bytes decode to the same field under the same limit: nested groups,     *)
(* padded tags and padded lengths included (unknown_fields.rs: write_to,   *)
(* encoded_len, decode_unknown_field).                                     *)
THEOREM KeptReadsBack == Spec => []KeptRoundTrip
<1>1. Buffer => KeptRoundTrip
  <2> SUFFICES ASSUME Buffer PROVE KeptRoundTrip
    OBVIOUS
  <2>1. buf \in Seq(Byte) /\ Len(buf) < Pow2[Width - 1]
    BY DEF Buffer
  <2>2. KeptBack(buf, MaxNesting)
    BY <2>1, NestingAssumption, FieldKeptBack
  <2> QED BY <2>2 DEF KeptBack, KeptRoundTrip, WriteField, FieldLen
<1> QED BY <1>1, BufferInvariant, PTL DEF Spec
=============================================================================
