---------------------------- MODULE PackedProofs ----------------------------
(***************************************************************************)
(* Packed fields, for every width and every slice: what decode_packed_*    *)
(* finds is written by encode_packed in the bytes that PackedSize computes *)
(* and is found again.  The argument follows the bytes: where each element *)
(* was read (Run), where each is written (Pieces), and that the second     *)
(* places lie no further apart than the first, so that the length is far   *)
(* from wrapping.                                                          *)
(***************************************************************************)
EXTENDS WireProofs

(* The elements of a packed field. *)
Values == 0 .. Pow2[Width] - 1

LEMMA FromIs ==
  ASSUME NEW b \in Seq(Byte), NEW pos \in Nat
  PROVE  /\ From(b, pos) \in Seq(Byte)
         /\ Len(From(b, pos)) = IF pos <= Len(b) THEN Len(b) - pos ELSE 0
         /\ \A i \in 1 .. Len(b) - pos : From(b, pos)[i] = b[pos + i]
BY DEF From

LEMMA VarintAnswers ==
  ASSUME NEW b \in Seq(Byte)
  PROVE  \/ DecodeVarint(b) \in {Fail("VarintTooLong"), Fail("UnexpectedEof")}
         \/ \E v \in Values, n \in 1 .. Len(b) : DecodeVarint(b) = Ok(v, n)
<1>1. CASE DecodeVarint(b).ok
  BY <1>1, VarintRead DEF Values
<1>2. CASE ~DecodeVarint(b).ok
  <2>1. Ok(Gathered(b, LastByte(b)), LastByte(b)).ok
    BY DEF Ok
  <2> QED BY <1>2, <2>1, DecodeCases
<1> QED BY <1>1, <1>2

LEMMA VarintsRecursion ==
  ASSUME NEW b \in Seq(Byte), NEW end \in Nat
  PROVE  \A pos \in Nat :
            LET a == DecodeVarint(From(b, pos))
                rest == VarintsFrom(b, end)[pos + a.used]
            IN  VarintsFrom(b, end)[pos] =
                   IF pos >= end THEN Ok(<<>>, end)
                   ELSE IF ~a.ok THEN a
                   ELSE IF ~rest.ok THEN rest
                   ELSE Ok(<<a.val>> \o rest.val, rest.used)
<1> DEFINE A(pos) == DecodeVarint(From(b, pos))
           B == {pos \in Nat : pos >= end \/ ~A(pos).ok}
           S == {Ok(s, end) : s \in Seq(Values)} \cup {Fail("VarintTooLong"), Fail("UnexpectedEof")}
           m == [pos \in Nat |-> IF pos >= end THEN 0 ELSE end - pos]
           pred == [pos \in Nat |-> pos + A(pos).used]
           base == [pos \in Nat |-> IF pos >= end THEN Ok(<<>>, end) ELSE A(pos)]
           step == [pos \in Nat |-> [a \in S |-> IF a.ok THEN Ok(<<A(pos).val>> \o a.val, a.used) ELSE a]]
           G(f) == [pos \in Nat |->
                      IF pos >= end THEN Ok(<<>>, end)
                      ELSE Then(DecodeVarint(From(b, pos)), LAMBDA v, used :
                              Mapped(f[pos + used], LAMBDA rest : <<v>> \o rest))]
<1>1. ASSUME NEW pos \in Nat
      PROVE  \/ A(pos) \in {Fail("VarintTooLong"), Fail("UnexpectedEof")} /\ ~A(pos).ok
             \/ A(pos).ok /\ A(pos).val \in Values /\ A(pos).used \in Nat /\ A(pos).used >= 1
  <2>1. From(b, pos) \in Seq(Byte)
    BY FromIs
  <2>2. CASE A(pos) \in {Fail("VarintTooLong"), Fail("UnexpectedEof")}
    BY <2>2 DEF Fail
  <2>3. CASE \E v \in Values, n \in 1 .. Len(From(b, pos)) : A(pos) = Ok(v, n)
    <3>1. PICK v \in Values, n \in 1 .. Len(From(b, pos)) : A(pos) = Ok(v, n)
      BY <2>3
    <3>2. n \in Nat /\ n >= 1
      BY <2>1
    <3> QED BY <3>1, <3>2 DEF Ok
  <2> QED BY <2>1, <2>2, <2>3, VarintAnswers
<1>2. \A s \in Seq(Values) : Ok(s, end).ok /\ Ok(s, end).val = s /\ Ok(s, end).used = end
  BY DEF Ok
<1>3. ~Fail("VarintTooLong").ok /\ ~Fail("UnexpectedEof").ok
  BY DEF Fail
<1>4. \E f : Recursive(f, Nat, S, B, pred, base, step)
  <2>1. m \in [Nat -> Nat]
    OBVIOUS
  <2>2. ASSUME NEW x \in Nat, x \in B PROVE base[x] \in S
    <3>1. CASE x >= end
      <4>1. <<>> \in Seq(Values)
        OBVIOUS
      <4> QED BY <3>1, <4>1
    <3>2. CASE ~(x >= end)
      <4>1. ~A(x).ok /\ base[x] = A(x)
        BY <2>2, <3>2
      <4> HIDE DEF A, base
      <4> QED BY <4>1, <1>1
    <3> QED BY <3>1, <3>2
  <2>3. ASSUME NEW x \in Nat, x \notin B PROVE pred[x] \in Nat /\ m[pred[x]] < m[x]
    <3>1. ~(x >= end) /\ A(x).ok
      BY <2>3
    <3>2. pred[x] = x + A(x).used
      OBVIOUS
    <3>3. A(x).used \in Nat /\ A(x).used >= 1
      BY <1>1, <3>1
    <3> HIDE DEF A, pred
    <3> QED BY <3>1, <3>2, <3>3
  <2>4. ASSUME NEW x \in Nat, x \notin B, NEW a \in S PROVE step[x][a] \in S
    <3>1. A(x).val \in Values
      <4> HIDE DEF A
      <4> QED BY <1>1, <2>4
    <3>2. step[x][a] = IF a.ok THEN Ok(<<A(x).val>> \o a.val, a.used) ELSE a
      OBVIOUS
    <3> HIDE DEF A, step
    <3>3. CASE \E s \in Seq(Values) : a = Ok(s, end)
      <4>1. PICK s \in Seq(Values) : a = Ok(s, end)
        BY <3>3
      <4>2. <<A(x).val>> \o s \in Seq(Values)
        <5>1. <<A(x).val>> \in Seq(Values)
          BY <3>1
        <5> QED BY <5>1, ConcatProperties
      <4>3. a.ok /\ a.val = s /\ a.used = end
        BY <4>1, <1>2
      <4>4. step[x][a] = Ok(<<A(x).val>> \o s, end)
        BY <3>2, <4>3
      <4> QED BY <4>2, <4>4
    <3>4. CASE a \in {Fail("VarintTooLong"), Fail("UnexpectedEof")}
      BY <3>2, <3>4, <1>3
    <3> QED BY <3>3, <3>4
  <2> HIDE DEF B, S, m, pred, base, step
  <2> QED BY <2>1, <2>2, <2>3, <2>4, RecursionExists
<1>5. PICK f : Recursive(f, Nat, S, B, pred, base, step)
  BY <1>4
<1>6. ASSUME NEW g, NEW pos \in Nat
      PROVE  Then(A(pos), LAMBDA v, used : Mapped(g[pos + used], LAMBDA rest : <<v>> \o rest))
               = IF A(pos).ok
                 THEN IF g[pos + A(pos).used].ok
                      THEN Ok(<<A(pos).val>> \o g[pos + A(pos).used].val, g[pos + A(pos).used].used)
                      ELSE g[pos + A(pos).used]
                 ELSE A(pos)
  <2> HIDE DEF A
  <2> QED BY DEF Then, Mapped
<1>7. f = G(f)
  <2>1. ASSUME NEW pos \in Nat PROVE f[pos] = G(f)[pos]
    <3>1. f \in [Nat -> S] /\ f[pos] = IF pos \in B THEN base[pos] ELSE step[pos][f[pred[pos]]]
      BY <1>5 DEF Recursive
    <3>2. CASE pos >= end
      BY <3>1, <3>2
    <3>3. CASE ~(pos >= end) /\ ~A(pos).ok
      <4>1. f[pos] = A(pos)
        BY <3>1, <3>3
      <4>2. G(f)[pos] = Then(A(pos), LAMBDA v, used : Mapped(f[pos + used], LAMBDA rest : <<v>> \o rest))
        BY <3>3
      <4>3. Then(A(pos), LAMBDA v, used : Mapped(f[pos + used], LAMBDA rest : <<v>> \o rest)) = A(pos)
        <5> HIDE DEF A
        <5> QED BY <3>3 DEF Then
      <4> HIDE DEF A, G
      <4> QED BY <4>1, <4>2, <4>3
    <3>4. CASE ~(pos >= end) /\ A(pos).ok
      <4>1. pos + A(pos).used \in Nat
        BY <1>1, <3>4
      <4> DEFINE a == f[pos + A(pos).used]
      <4>2. a \in S
        <5> HIDE DEF A, S
        <5> QED BY <3>1, <4>1
      <4>3. f[pos] = step[pos][a]
        BY <3>1, <3>4
      <4>4. step[pos][a] = IF a.ok THEN Ok(<<A(pos).val>> \o a.val, a.used) ELSE a
        <5> HIDE DEF A, S, a
        <5> QED BY <4>2
      <4>5. G(f)[pos] = Then(A(pos), LAMBDA v, used : Mapped(f[pos + used], LAMBDA rest : <<v>> \o rest))
        BY <3>4
      <4> HIDE DEF A, G, step
      <4> QED BY <4>3, <4>4, <4>5, <3>4, <1>6
    <3> QED BY <3>2, <3>3, <3>4
  <2>2. f = [pos \in Nat |-> f[pos]]
    BY <1>5 DEF Recursive
  <2> HIDE DEF A
  <2> QED BY <2>1, <2>2
<1> DEFINE R == CHOOSE g : g = G(g)
<1>8. R = G(R)
  <2> HIDE DEF G
  <2> QED BY <1>7
<1>9. VarintsFrom(b, end) = R
  BY DEF VarintsFrom
<1>10. ASSUME NEW pos \in Nat
       PROVE  R[pos] = IF pos >= end THEN Ok(<<>>, end)
                       ELSE Then(DecodeVarint(From(b, pos)), LAMBDA v, used :
                               Mapped(R[pos + used], LAMBDA rest : <<v>> \o rest))
  <2> DEFINE H == G(R)
  <2>1. H[pos] = IF pos >= end THEN Ok(<<>>, end)
                 ELSE Then(DecodeVarint(From(b, pos)), LAMBDA v, used :
                         Mapped(R[pos + used], LAMBDA rest : <<v>> \o rest))
    <3> HIDE DEF R
    <3> QED OBVIOUS
  <2>2. R = H
    BY <1>8
  <2> HIDE DEF H, R
  <2> QED BY <2>1, <2>2
<1>11. ASSUME NEW pos \in Nat
       PROVE  R[pos] = IF pos >= end THEN Ok(<<>>, end)
                       ELSE IF ~A(pos).ok THEN A(pos)
                       ELSE IF ~R[pos + A(pos).used].ok THEN R[pos + A(pos).used]
                       ELSE Ok(<<A(pos).val>> \o R[pos + A(pos).used].val, R[pos + A(pos).used].used)
  <2>1. CASE pos >= end
    <3> HIDE DEF R
    <3> QED BY <2>1, <1>10
  <2>2. CASE ~(pos >= end)
    <3>1. R[pos] = Then(A(pos), LAMBDA v, used : Mapped(R[pos + used], LAMBDA rest : <<v>> \o rest))
      <4> HIDE DEF R
      <4> QED BY <2>2, <1>10
    <3> HIDE DEF A, R
    <3> QED BY <2>2, <3>1 DEF Then, Mapped
  <2> QED BY <2>1, <2>2
<1> HIDE DEF R
<1> QED BY <1>9, <1>11

(* Sums are the only function with their equations. *)
LEMMA SameSums ==
  ASSUME NEW n \in Nat, NEW s \in [1 .. n -> Nat],
         NEW P \in [0 .. n -> Nat], P[0] = 0, \A i \in 1 .. n : P[i] = P[i - 1] + s[i]
  PROVE  Total(s) = P[n]
<1>1. PICK f \in [0 .. n -> Nat] : /\ f[0] = 0
                                   /\ \A i \in 1 .. n : f[i] = f[i - 1] + s[i]
                                   /\ Total(s) = f[n]
  BY TotalRecursion
<1> DEFINE T == {i \in Nat : i <= n => f[i] = P[i]}
<1>2. 0 \in T
  BY <1>1
<1>3. ASSUME NEW i \in Nat, i \in T PROVE i + 1 \in T
  <2> SUFFICES ASSUME i + 1 <= n PROVE f[i + 1] = P[i + 1]
    OBVIOUS
  <2>1. i + 1 \in 1 .. n /\ (i + 1) - 1 = i /\ i <= n
    OBVIOUS
  <2>2. f[i + 1] = f[i] + s[i + 1] /\ P[i + 1] = P[i] + s[i + 1]
    BY <1>1, <2>1
  <2> QED BY <1>3, <2>1, <2>2
<1> HIDE DEF T
<1>4. n \in T
  BY <1>2, <1>3, SetInduction
<1> QED BY <1>1, <1>4 DEF T

(* Where the pieces of a flattened sequence are: the i-th after P[i - 1]. *)
Pieces(flat, seqs, n, P) ==
    /\ P \in [0 .. n -> Nat]
    /\ P[0] = 0
    /\ \A i \in 1 .. n : P[i] = P[i - 1] + Len(seqs[i])
    /\ Len(flat) = P[n]
    /\ \A i \in 1 .. n : \A k \in 1 .. Len(seqs[i]) :
          P[i - 1] + k <= P[n] /\ flat[P[i - 1] + k] = seqs[i][k]

(* The flattened prefixes of a sequence of sequences. *)
Joins(f, seqs, n, S) ==
    /\ f \in [1 .. n -> Seq(S)]
    /\ f[1] = seqs[1]
    /\ \A i \in 2 .. n : f[i] = f[i - 1] \o seqs[i]
    /\ FlattenSeq(seqs) = f[n]

LEMMA FlattenRecursion ==
  ASSUME NEW S, NEW n \in Nat, n >= 1, NEW seqs \in [1 .. n -> Seq(S)]
  PROVE  \E f : Joins(f, seqs, n, S)
<1> DEFINE D == 1 .. n
           m == [i \in D |-> i]
           pred == [i \in D |-> i - 1]
           step == [i \in D |-> [t \in Seq(S) |-> t \o seqs[i]]]
           G(f) == [i \in D |-> IF i = 1 THEN seqs[i] ELSE f[i - 1] \o seqs[i]]
<1>1. \E f : Recursive(f, D, Seq(S), {1}, pred, seqs, step)
  <2>1. /\ m \in [D -> Nat]
        /\ \A x \in D : x \in {1} => seqs[x] \in Seq(S)
        /\ \A x \in D : x \notin {1} => pred[x] \in D /\ m[pred[x]] < m[x]
    OBVIOUS
  <2>2. \A x \in D : x \notin {1} => \A t \in Seq(S) : step[x][t] \in Seq(S)
    BY ConcatProperties
  <2> HIDE DEF D, m, pred, step
  <2> QED BY <2>1, <2>2, RecursionExists
<1>2. PICK f : Recursive(f, D, Seq(S), {1}, pred, seqs, step)
  BY <1>1
<1>3. f = G(f)
  <2>1. f \in [D -> Seq(S)]
    BY <1>2 DEF Recursive
  <2>2. ASSUME NEW i \in D PROVE f[i] = IF i = 1 THEN seqs[i] ELSE f[i - 1] \o seqs[i]
    <3>1. f[i] = IF i \in {1} THEN seqs[i] ELSE step[i][f[pred[i]]]
      BY <1>2 DEF Recursive
    <3>2. i # 1 => i - 1 \in D /\ f[i - 1] \in Seq(S)
      BY <2>1
    <3> QED BY <3>1, <3>2
  <2> QED BY <2>1, <2>2
<1> DEFINE F == CHOOSE g : g = G(g)
<1>4. F = G(F)
  BY <1>3
<1>5. Len(seqs) = n
  OBVIOUS
<1>6. FlattenSeq(seqs) = F[n]
  BY <1>5 DEF FlattenSeq
<1> HIDE DEF F
<1>7. F[1] = seqs[1] /\ \A i \in 2 .. n : F[i] = F[i - 1] \o seqs[i]
  <2>1. \A i \in D : F[i] = IF i = 1 THEN seqs[i] ELSE F[i - 1] \o seqs[i]
    <3> DEFINE H == G(F)
    <3>1. \A i \in D : H[i] = IF i = 1 THEN seqs[i] ELSE F[i - 1] \o seqs[i]
      OBVIOUS
    <3>2. F = H
      BY <1>4
    <3> HIDE DEF H
    <3> QED BY <3>1, <3>2
  <2>2. 1 \in D /\ \A i \in 2 .. n : i \in D /\ i # 1
    OBVIOUS
  <2> HIDE DEF D
  <2> QED BY <2>1, <2>2
<1>8. F \in [1 .. n -> Seq(S)]
  <2> DEFINE T == {i \in Nat : i + 1 <= n => F[i + 1] \in Seq(S)}
  <2>1. 0 \in T
    BY <1>7
  <2>2. ASSUME NEW i \in Nat, i \in T PROVE i + 1 \in T
    <3> SUFFICES ASSUME (i + 1) + 1 <= n PROVE F[(i + 1) + 1] \in Seq(S)
      OBVIOUS
    <3>1. (i + 1) + 1 \in 2 .. n /\ ((i + 1) + 1) - 1 = i + 1 /\ (i + 1) + 1 \in 1 .. n
      OBVIOUS
    <3>2. F[(i + 1) + 1] = F[i + 1] \o seqs[(i + 1) + 1]
      BY <1>7, <3>1
    <3> QED BY <2>2, <3>1, <3>2, ConcatProperties
  <2> HIDE DEF T
  <2>3. Nat \subseteq T
    BY <2>1, <2>2, SetInduction
  <2>4. ASSUME NEW i \in 1 .. n PROVE F[i] \in Seq(S)
    <3>1. i - 1 \in T /\ (i - 1) + 1 = i
      BY <2>3
    <3> QED BY <3>1 DEF T
  <2> QED BY <1>4, <2>4
<1> QED BY <1>6, <1>7, <1>8 DEF Joins

LEMMA FlattenPieces ==
  ASSUME NEW S, NEW n \in Nat, n >= 1, NEW seqs \in [1 .. n -> Seq(S)]
  PROVE  /\ FlattenSeq(seqs) \in Seq(S)
         /\ \E P : Pieces(FlattenSeq(seqs), seqs, n, P)
         /\ Total([i \in 1 .. n |-> Len(seqs[i])]) = Len(FlattenSeq(seqs))
<1>0. PICK f : Joins(f, seqs, n, S)
  BY FlattenRecursion
<1>1. /\ f \in [1 .. n -> Seq(S)]
      /\ f[1] = seqs[1]
      /\ \A i \in 2 .. n : f[i] = f[i - 1] \o seqs[i]
      /\ FlattenSeq(seqs) = f[n]
  BY <1>0 DEF Joins
<1> DEFINE P == [i \in 0 .. n |-> IF i = 0 THEN 0 ELSE Len(f[i])]
           Prefix(j) == [i \in 0 .. j |-> P[i]]
           T == {i \in Nat : i + 1 <= n => Pieces(f[i + 1], seqs, i + 1, Prefix(i + 1))}
<1>2. P \in [0 .. n -> Nat] /\ P[0] = 0 /\ \A i \in 1 .. n : P[i] = Len(f[i])
  BY <1>1
<1>3. \A i \in 1 .. n : P[i] = P[i - 1] + Len(seqs[i])
  <2> SUFFICES ASSUME NEW i \in 1 .. n PROVE P[i] = P[i - 1] + Len(seqs[i])
    OBVIOUS
  <2>1. CASE i = 1
    BY <1>1, <1>2, <2>1
  <2>2. CASE i # 1
    <3>1. i \in 2 .. n /\ i - 1 \in 1 .. n
      BY <2>2
    <3>2. Len(f[i - 1] \o seqs[i]) = Len(f[i - 1]) + Len(seqs[i])
      BY <3>1, ConcatProperties
    <3> HIDE DEF P
    <3> QED BY <1>1, <1>2, <3>1, <3>2
  <2> QED BY <2>1, <2>2
<1> HIDE DEF P
<1>4. 0 \in T
  <2> SUFFICES Pieces(f[1], seqs, 1, Prefix(1))
    OBVIOUS
  <2>1. Prefix(1) \in [0 .. 1 -> Nat] /\ Prefix(1)[0] = 0 /\ Prefix(1)[1] = Len(f[1])
    BY <1>2
  <2>2. f[1] = seqs[1] /\ Len(seqs[1]) \in Nat
    BY <1>1
  <2> HIDE DEF Prefix
  <2>3. \A i \in 1 .. 1 : Prefix(1)[i] = Prefix(1)[i - 1] + Len(seqs[i])
    BY <2>1, <2>2
  <2> QED BY <2>1, <2>2, <2>3 DEF Pieces
<1>5. ASSUME NEW j \in Nat, j \in T PROVE j + 1 \in T
  <2> SUFFICES ASSUME (j + 1) + 1 <= n
               PROVE  Pieces(f[(j + 1) + 1], seqs, (j + 1) + 1, Prefix((j + 1) + 1))
    OBVIOUS
  <2> DEFINE l == j + 1
             c == l + 1
  <2>1. l \in 1 .. n /\ c \in 2 .. n /\ c - 1 = l /\ c \in Nat /\ c \in 1 .. n /\ l < c /\ l \in Nat
    OBVIOUS
  <2>2. Pieces(f[l], seqs, l, Prefix(l))
    <3>1. l <= n
      BY <2>1
    <3> HIDE DEF Prefix
    <3> QED BY <1>5, <3>1
  <2> HIDE DEF l, T
  <2>3. f[c] = f[l] \o seqs[c] /\ f[l] \in Seq(S) /\ seqs[c] \in Seq(S)
    BY <1>1, <2>1
  <2> HIDE DEF c
  <2>4. /\ Len(f[c]) = Len(f[l]) + Len(seqs[c])
        /\ \A k \in 1 .. Len(f[l]) : f[c][k] = f[l][k]
        /\ \A k \in 1 .. Len(seqs[c]) : f[c][Len(f[l]) + k] = seqs[c][k]
        /\ Len(f[l]) \in Nat /\ Len(seqs[c]) \in Nat
    <3> DEFINE x == f[l]
               y == seqs[c]
    <3>1. x \in Seq(S) /\ y \in Seq(S)
      BY <2>3
    <3> HIDE DEF x, y
    <3>2. /\ Len(x \o y) = Len(x) + Len(y)
          /\ \A k \in 1 .. Len(x) : (x \o y)[k] = x[k]
          /\ \A k \in 1 .. Len(y) : (x \o y)[Len(x) + k] = y[k]
          /\ Len(x) \in Nat /\ Len(y) \in Nat
      BY <3>1
    <3> QED BY <2>3, <3>2 DEF x, y
  <2>5. P[l] = Len(f[l]) /\ P[c] = Len(f[c])
    BY <1>2, <2>1
  <2>6. /\ Prefix(c) \in [0 .. c -> Nat] /\ Prefix(c)[0] = 0
        /\ \A i \in 0 .. c : Prefix(c)[i] = P[i]
        /\ \A i \in 0 .. l : Prefix(l)[i] = P[i]
    BY <1>2, <2>1
  <2> HIDE DEF Prefix
  <2>7. \A i \in 1 .. c : Prefix(c)[i] = Prefix(c)[i - 1] + Len(seqs[i])
    <3> SUFFICES ASSUME NEW i \in 1 .. c
                 PROVE  Prefix(c)[i] = Prefix(c)[i - 1] + Len(seqs[i])
      OBVIOUS
    <3>1. i \in 0 .. c /\ i - 1 \in 0 .. c /\ i \in 1 .. n
      BY <2>1
    <3> QED BY <1>3, <2>6, <3>1
  <2>8. ASSUME NEW i \in 1 .. c, NEW k \in 1 .. Len(seqs[i])
        PROVE  P[i - 1] + k <= P[c] /\ f[c][P[i - 1] + k] = seqs[i][k]
    <3>1. CASE i = c
      <4>1. i - 1 = l /\ k \in 1 .. Len(seqs[c]) /\ k \in Nat /\ k <= Len(seqs[c])
        BY <2>1, <2>4, <3>1
      <4>2. f[c][Len(f[l]) + k] = seqs[c][k]
        BY <2>4, <4>1
      <4>3. P[i - 1] = Len(f[l]) /\ P[c] = Len(f[l]) + Len(seqs[c])
        BY <2>4, <2>5, <4>1
      <4>4. P[i - 1] + k <= P[c]
        BY ONLY <2>4, <4>1, <4>3
      <4>5. f[c][P[i - 1] + k] = seqs[i][k]
        BY ONLY <3>1, <4>2, <4>3
      <4> QED BY <4>4, <4>5
    <3>2. CASE i # c
      <4>1. i \in 1 .. l /\ i - 1 \in 0 .. l /\ l \in 0 .. l
        BY <2>1, <3>2
      <4>2. P[i - 1] + k <= P[l] /\ f[l][P[i - 1] + k] = seqs[i][k]
        BY <2>2, <2>6, <4>1 DEF Pieces
      <4>3. P[i - 1] \in Nat /\ Len(seqs[i]) \in Nat
        BY <1>2, <2>1, <4>1
      <4>4. P[i - 1] + k \in 1 .. Len(f[l])
        <5>1. k \in Nat /\ k >= 1 /\ Len(f[l]) \in Nat
          BY <2>4, <4>3
        <5>2. P[i - 1] + k <= Len(f[l])
          BY <2>5, <4>2
        <5> QED BY ONLY <4>3, <5>1, <5>2
      <4>5. f[c][P[i - 1] + k] = f[l][P[i - 1] + k]
        BY <2>4, <4>4
      <4>6. P[i - 1] + k <= P[c]
        <5>1. P[c] = P[l] + Len(seqs[c]) /\ P[l] \in Nat /\ Len(seqs[c]) \in Nat
          BY ONLY <2>4, <2>5
        <5>2. k \in Nat
          BY <4>3
        <5> QED BY ONLY <4>2, <4>3, <5>1, <5>2, SMT
      <4> QED BY <4>2, <4>5, <4>6
    <3> QED BY <3>1, <3>2
  <2>9. Pieces(f[c], seqs, c, Prefix(c))
    <3>1. c \in 0 .. c /\ \A i \in 1 .. c : i - 1 \in 0 .. c
      BY <2>1
    <3> QED BY <2>5, <2>6, <2>7, <2>8, <3>1 DEF Pieces
  <2> QED BY <2>9 DEF c, l
<1>6. Pieces(f[n], seqs, n, Prefix(n))
  <2> HIDE DEF T
  <2>1. n - 1 \in Nat /\ (n - 1) + 1 = n
    OBVIOUS
  <2>2. n - 1 \in T
    BY <1>4, <1>5, <2>1, SetInduction
  <2> HIDE DEF Prefix
  <2> QED BY <2>1, <2>2 DEF T
<1>7. Total([i \in 1 .. n |-> Len(seqs[i])]) = P[n]
  <2> DEFINE s == [i \in 1 .. n |-> Len(seqs[i])]
  <2>1. s \in [1 .. n -> Nat] /\ \A i \in 1 .. n : s[i] = Len(seqs[i])
    OBVIOUS
  <2> HIDE DEF s
  <2>2. Total(s) = P[n]
    BY <1>2, <1>3, <2>1, SameSums
  <2> QED BY <2>2 DEF s
<1>8. P[n] = Len(f[n])
  BY <1>2
<1> HIDE DEF Prefix
<1> QED BY <1>1, <1>6, <1>7, <1>8

-----------------------------------------------------------------------------
LEMMA Consed ==
  ASSUME NEW S, NEW x \in S, NEW s \in Seq(S)
  PROVE  /\ <<x>> \o s \in Seq(S)
         /\ Len(<<x>> \o s) = Len(s) + 1
         /\ (<<x>> \o s)[1] = x
         /\ \A i \in 1 .. Len(s) : (<<x>> \o s)[i + 1] = s[i]
<1>1. <<x>> \in Seq(S) /\ Len(<<x>>) = 1 /\ <<x>>[1] = x
  OBVIOUS
<1> DEFINE one == <<x>>
<1> HIDE DEF one
<1>2. /\ one \o s \in Seq(S)
      /\ Len(one \o s) = Len(one) + Len(s)
      /\ \A i \in 1 .. Len(one) : (one \o s)[i] = one[i]
      /\ \A i \in 1 .. Len(s) : (one \o s)[Len(one) + i] = s[i]
      /\ Len(s) \in Nat
  <2>1. one \in Seq(S)
    BY <1>1 DEF one
  <2> QED BY <2>1
<1>3. one \in Seq(S) /\ Len(one) = 1 /\ one[1] = x
  BY <1>1 DEF one
<1>4. \A i \in 1 .. Len(s) : i + 1 = Len(one) + i
  BY <1>2, <1>3
<1>5. /\ one \o s \in Seq(S)
      /\ Len(one \o s) = Len(s) + 1
      /\ (one \o s)[1] = x
      /\ \A i \in 1 .. Len(s) : (one \o s)[i + 1] = s[i]
  BY <1>2, <1>3, <1>4
<1> QED BY <1>5 DEF one

(* Elements that decode_packed_varints finds from pos on: their encodings  *)
(* take no more bytes than lie between the places they were read at.       *)
Run(b, pos, vals, Q) ==
    /\ vals \in Seq(Values)
    /\ Q \in [1 .. Len(vals) + 1 -> Nat]
    /\ Q[1] = pos
    /\ \A i \in 1 .. Len(vals) : Q[i] + Len(EncodeVarint[vals[i]]) <= Q[i + 1]
    /\ vals # <<>> => Q[Len(vals) + 1] <= Len(b)

LEMMA RunLonger ==
  ASSUME NEW b \in Seq(Byte), NEW pos \in Nat, NEW v \in Values, NEW used \in Nat,
         Len(EncodeVarint[v]) <= used, pos + used <= Len(b),
         NEW vals, NEW Q, Run(b, pos + used, vals, Q)
  PROVE  \E R : Run(b, pos, <<v>> \o vals, R)
<1> DEFINE n == Len(vals)
           more == <<v>> \o vals
           R == [i \in 1 .. (n + 1) + 1 |-> IF i = 1 THEN pos ELSE Q[i - 1]]
<1>1. vals \in Seq(Values) /\ n \in Nat /\ Q \in [1 .. n + 1 -> Nat] /\ Q[1] = pos + used
  BY DEF Run
<1>2. /\ more \in Seq(Values) /\ Len(more) = n + 1 /\ more[1] = v
      /\ \A i \in 1 .. n : more[i + 1] = vals[i]
  BY <1>1, Consed
<1>3. /\ R \in [1 .. (n + 1) + 1 -> Nat] /\ R[1] = pos
      /\ \A i \in 2 .. (n + 1) + 1 : R[i] = Q[i - 1]
  BY <1>1
<1> HIDE DEF R, more, n
<1>4. \A i \in 1 .. n + 1 : R[i] + Len(EncodeVarint[more[i]]) <= R[i + 1]
  <2> SUFFICES ASSUME NEW i \in 1 .. n + 1
               PROVE  R[i] + Len(EncodeVarint[more[i]]) <= R[i + 1]
    OBVIOUS
  <2>1. R[i + 1] = Q[i]
    <3>1. i + 1 \in 2 .. (n + 1) + 1 /\ (i + 1) - 1 = i
      BY <1>1
    <3> QED BY <1>3, <3>1
  <2>2. CASE i = 1
    <3>1. R[i + 1] = pos + used /\ more[i] = v /\ R[i] = pos
      BY <1>1, <1>2, <1>3, <2>1, <2>2
    <3>2. Len(EncodeVarint[v]) \in Nat
      <4>1. v \in Nat
        BY Widths, Pow2Type DEF Values
      <4> QED BY <4>1, EncodeShape DEF Encodes
    <3> QED BY <3>1, <3>2
  <2>3. CASE i # 1
    <3>1. i - 1 \in 1 .. n /\ i \in 2 .. (n + 1) + 1 /\ (i - 1) + 1 = i
      BY <1>1, <2>3
    <3>2. more[i] = vals[i - 1] /\ R[i] = Q[i - 1]
      <4>1. more[(i - 1) + 1] = vals[i - 1]
        BY <1>2, <3>1
      <4> QED BY <1>3, <3>1, <4>1
    <3>3. Q[i - 1] + Len(EncodeVarint[vals[i - 1]]) <= Q[i]
      <4>1. Q[i - 1] + Len(EncodeVarint[vals[i - 1]]) <= Q[(i - 1) + 1]
        BY <3>1 DEF Run, n
      <4> QED BY <3>1, <4>1
    <3> QED BY <2>1, <3>2, <3>3
  <2> QED BY <2>2, <2>3
<1>5. R[(n + 1) + 1] <= Len(b)
  <2>1. R[(n + 1) + 1] = Q[n + 1]
    <3>1. (n + 1) + 1 \in 2 .. (n + 1) + 1 /\ ((n + 1) + 1) - 1 = n + 1
      BY <1>1
    <3> QED BY <1>3, <3>1
  <2>2. CASE vals = <<>>
    <3>1. n = 0
      BY <2>2 DEF n
    <3> QED BY <1>1, <2>1, <3>1
  <2>3. CASE vals # <<>>
    BY <2>1, <2>3 DEF Run, n
  <2> QED BY <2>2, <2>3
<1>6. Run(b, pos, more, R)
  BY <1>2, <1>3, <1>4, <1>5 DEF Run
<1> QED BY <1>6 DEF more

LEMMA VarintsRead ==
  ASSUME NEW b \in Seq(Byte), NEW end \in Nat, NEW pos \in Nat,
         VarintsFrom(b, end)[pos].ok
  PROVE  \E vals, Q : VarintsFrom(b, end)[pos] = Ok(vals, end) /\ Run(b, pos, vals, Q)
<1> DEFINE F == VarintsFrom(b, end)
           T == {d \in Nat : \A p \in Nat : end <= p + d /\ F[p].ok =>
                    \E vals, Q : F[p] = Ok(vals, end) /\ Run(b, p, vals, Q)}
<1> HIDE DEF F
<1>1. ASSUME NEW p \in Nat, p >= end
      PROVE  \E vals, Q : F[p] = Ok(vals, end) /\ Run(b, p, vals, Q)
  <2> DEFINE Q == [i \in 1 .. 1 |-> p]
  <2>1. F[p] = Ok(<<>>, end)
    BY <1>1, VarintsRecursion DEF F
  <2>2. Run(b, p, <<>>, Q)
    BY DEF Run
  <2> QED BY <2>1, <2>2
<1>2. 0 \in T
  BY <1>1
<1>3. ASSUME NEW d \in Nat, d \in T PROVE d + 1 \in T
  <2> SUFFICES ASSUME NEW p \in Nat, end <= p + (d + 1), F[p].ok, ~(p >= end)
               PROVE  \E vals, Q : F[p] = Ok(vals, end) /\ Run(b, p, vals, Q)
    BY <1>1
  <2> DEFINE c == From(b, p)
             a == DecodeVarint(c)
             rest == F[p + a.used]
  <2>1. F[p] = IF ~a.ok THEN a ELSE IF ~rest.ok THEN rest
               ELSE Ok(<<a.val>> \o rest.val, rest.used)
    BY VarintsRecursion DEF F
  <2>2. a.ok
    <3> HIDE DEF a
    <3> QED BY <2>1
  <2>3. rest.ok
    <3> HIDE DEF a, rest
    <3> QED BY <2>1
  <2>4. c \in Seq(Byte) /\ Len(c) = IF p <= Len(b) THEN Len(b) - p ELSE 0
    BY FromIs
  <2> HIDE DEF c
  <2>5. PICK v \in 0 .. Pow2[Width] - 1, n \in 1 .. Len(c) :
           a = Ok(v, n) /\ v < Pow2[GroupBits * n]
    BY <2>2, <2>4, VarintRead
  <2>6. a.val = v /\ a.used = n
    BY <2>5 DEF Ok
  <2> HIDE DEF a
  <2>7. v \in Nat /\ v \in Values /\ n \in Nat /\ n >= 1 /\ p + n <= Len(b)
    BY <2>4, <2>5, Widths, Pow2Type DEF Values
  <2>8. Len(EncodeVarint[v]) <= n
    <3>1. Len(EncodeVarint[v]) \in 1 .. n
      BY <2>5, <2>7, EncodedAtMost
    <3> QED BY <2>7, <3>1
  <2>9. PICK vals, Q : rest = Ok(vals, end) /\ Run(b, p + n, vals, Q)
    <3>1. p + n \in Nat /\ end <= (p + n) + d /\ rest = F[p + n]
      BY <2>6, <2>7
    <3> QED BY <1>3, <2>3, <3>1
  <2>10. rest.val = vals /\ rest.used = end
    BY <2>9 DEF Ok
  <2> HIDE DEF rest
  <2>11. F[p] = Ok(<<v>> \o vals, end)
    BY <2>1, <2>2, <2>3, <2>6, <2>10
  <2>12. \E R : Run(b, p, <<v>> \o vals, R)
    BY <2>7, <2>8, <2>9, RunLonger
  <2> QED BY <2>11, <2>12
<1> HIDE DEF T
<1>4. Nat \subseteq T
  BY <1>2, <1>3, SetInduction
<1>5. end \in T
  BY <1>4
<1>6. \A p \in Nat : end <= p + end /\ F[p].ok =>
         \E vals, Q : F[p] = Ok(vals, end) /\ Run(b, p, vals, Q)
  BY <1>5 DEF T
<1>7. end <= pos + end
  OBVIOUS
<1> QED BY <1>6, <1>7 DEF F

LEMMA DelimitedCases ==
  ASSUME NEW b, NEW len, NEW header, DecodeVarint(b) = Ok(len, header)
  PROVE  Delimited(b) = IF Unsigned(header + len, Width) > Len(b) THEN Fail("UnexpectedEof")
                        ELSE Ok(header, Unsigned(header + len, Width))
<1> DEFINE r == DecodeVarint(b)
<1>1. r.ok => Delimited(b) = IF Unsigned(r.used + r.val, Width) > Len(b) THEN Fail("UnexpectedEof")
                             ELSE Ok(r.used, Unsigned(r.used + r.val, Width))
  BY DEF Delimited, Then
<1>2. r.ok /\ r.val = len /\ r.used = header
  BY DEF Ok
<1> HIDE DEF r
<1> QED BY <1>1, <1>2

LEMMA DelimitedRead ==
  ASSUME NEW b \in Seq(Byte), Delimited(b).ok
  PROVE  \E start \in Nat, end \in Nat : end <= Len(b) /\ Delimited(b) = Ok(start, end)
<1> DEFINE r == DecodeVarint(b)
<1>1. r.ok
  <2>1. ~r.ok => Delimited(b) = r
    BY DEF Delimited, Then
  <2> HIDE DEF r
  <2> QED BY <2>1
<1>2. PICK v \in 0 .. Pow2[Width] - 1, n \in 1 .. Len(b) :
         DecodeVarint(b) = Ok(v, n) /\ v < Pow2[GroupBits * n]
  BY <1>1, VarintRead
<1> DEFINE e == Unsigned(n + v, Width)
<1>3. n \in Nat /\ v \in Nat /\ e \in Nat
  <2>1. Width \in Nat
    BY Widths
  <2>2. Pow2[Width] \in Nat \ {0}
    BY <2>1, Pow2Type
  <2>3. n \in Nat /\ v \in Nat /\ n + v \in Nat
    BY <2>2
  <2> QED BY <2>2, <2>3, DivMod DEF Unsigned
<1>4. Delimited(b) = IF e > Len(b) THEN Fail("UnexpectedEof") ELSE Ok(n, e)
  BY <1>2, DelimitedCases
<1> HIDE DEF e
<1>5. ~(e > Len(b))
  BY <1>4 DEF Fail
<1> QED BY <1>3, <1>4, <1>5

(* Concatenations, by position. *)
LEMMA Joined ==
  ASSUME NEW S, NEW s \in Seq(S), NEW t \in Seq(S)
  PROVE  /\ s \o t \in Seq(S)
         /\ Len(s) \in Nat /\ Len(t) \in Nat
         /\ Len(s \o t) = Len(s) + Len(t)
         /\ \A i \in 1 .. Len(s) : (s \o t)[i] = s[i]
         /\ \A i \in 1 .. Len(t) : (s \o t)[Len(s) + i] = t[i]
OBVIOUS

LEMMA Rejoined ==
  ASSUME NEW s \in Seq(Byte), NEW t \in Seq(Byte), NEW u \in Seq(Byte)
  PROVE  (s \o t) \o u = s \o (t \o u)
BY ConcatAssociative

LEMMA SecondPart ==
  ASSUME NEW s \in Seq(Byte), NEW t \in Seq(Byte)
  PROVE  From(s \o t, Len(s)) = t
<1> DEFINE u == s \o t
           f == From(u, Len(s))
<1>1. /\ u \in Seq(Byte) /\ Len(s) \in Nat /\ Len(t) \in Nat
      /\ Len(u) = Len(s) + Len(t)
      /\ \A i \in 1 .. Len(t) : u[Len(s) + i] = t[i]
  BY Joined
<1> HIDE DEF u
<1>2. /\ f \in Seq(Byte) /\ Len(f) = IF Len(s) <= Len(u) THEN Len(u) - Len(s) ELSE 0
      /\ \A i \in 1 .. Len(u) - Len(s) : f[i] = u[Len(s) + i]
  BY <1>1, FromIs
<1> HIDE DEF f
<1>3. Len(f) = Len(t) /\ \A i \in 1 .. Len(t) : f[i] = t[i]
  BY <1>1, <1>2
<1>4. f = t
  BY <1>2, <1>3
<1> QED BY <1>4 DEF f, u

LEMMA EncodedSeq ==
  ASSUME NEW v \in Nat
  PROVE  /\ EncodeVarint[v] \in Seq(Byte) /\ EncodeVarint[v] # <<>>
         /\ Len(EncodeVarint[v]) \in Nat /\ Len(EncodeVarint[v]) >= 1
BY EncodeShape DEF Encodes

LEMMA TagCodes ==
  /\ WireTypeOf[2] = "LengthDelimited" /\ WireCode["LengthDelimited"] = 2
  /\ 10 \in 0 .. Pow2[Width] - 1
<1>1. WireTypeOf[2] = "LengthDelimited"
  BY DEF WireTypeOf
<1>2. WireCode[WireTypeOf[2]] = 2
  BY WireCodes
<1>3. 16 <= Pow2[Width] /\ Pow2[Width] \in Nat
  <2>1. Pow2[4] = 16
    BY Pow2Values
  <2>2. Pow2[4] <= Pow2[Width]
    BY Widths, Pow2Monotonic
  <2> QED BY <2>1, <2>2, Widths, Pow2Type
<1> QED BY <1>1, <1>2, <1>3

(* What encode_packed writes, as decode_packed's prefix reads it.          *)
LEMMA PackedWritten ==
  ASSUME NEW n \in Nat, n >= 1, NEW enc \in [1 .. n -> Seq(Byte)],
         Len(FlattenSeq(enc)) < Pow2[Width - 1]
  PROVE  LET flat == FlattenSeq(enc)
             head == EncodeVarint[Len(flat)]
             again == EncodePacked(1, enc)
             body == From(again, DecodeTag(again).used)
         IN  /\ flat \in Seq(Byte) /\ head \in Seq(Byte)
             /\ Len(again) = PackedSize(1, [i \in DOMAIN enc |-> Len(enc[i])])
             /\ body = head \o flat
             /\ Delimited(body) = Ok(Len(head), Len(body))
<1> DEFINE flat == FlattenSeq(enc)
           N == Len(flat)
           head == EncodeVarint[N]
           tag == EncodeVarint[10]
           again == EncodePacked(1, enc)
           content == head \o flat
           whole == tag \o content
<1>1. flat \in Seq(Byte) /\ N \in Nat /\ Total([i \in 1 .. n |-> Len(enc[i])]) = N
  <2>1. flat \in Seq(Byte) /\ Total([i \in 1 .. n |-> Len(enc[i])]) = N
    BY FlattenPieces, Zenon
  <2> HIDE DEF flat
  <2> QED BY <2>1
<1>2. enc # <<>> /\ DOMAIN enc = 1 .. n /\ [i \in 1 .. n |-> Len(enc[i])] # <<>>
  OBVIOUS
<1>3. EncodeTag(1, "LengthDelimited") = tag
  BY TagCodes DEF EncodeTag
<1>4. again = (tag \o head) \o flat
  BY <1>2, <1>3 DEF EncodePacked
<1>5. N < Pow2[Width - 1] /\ Pow2[Width] = 2 * Pow2[Width - 1]
      /\ Pow2[Width - 1] \in Nat /\ Width <= Pow2[Width - 1] /\ Pow2[Width] \in Nat \ {0}
  <2>1. Width - 1 \in Nat /\ Width \in Nat /\ (Width - 1) + 1 = Width
    BY Widths
  <2>2. Pow2[(Width - 1) + 1] = 2 * Pow2[Width - 1]
    BY <2>1, Pow2Values
  <2>3. (Width - 1) + 1 <= Pow2[Width - 1]
    BY <2>1, Pow2Above
  <2>5. Pow2[Width - 1] \in Nat /\ Pow2[Width] \in Nat \ {0}
    BY <2>1, Pow2Type
  <2> QED BY <2>1, <2>2, <2>3, <2>5
<1> HIDE DEF flat, again
<1>6. N \in 0 .. Pow2[Width] - 1
  <2> HIDE DEF N
  <2> QED BY <1>1, <1>5
<1> HIDE DEF N
<1>7. tag \in Seq(Byte) /\ head \in Seq(Byte) /\ Len(tag) \in Nat /\ Len(head) \in Nat
      /\ Len(tag) >= 1 /\ Len(head) >= 1
  BY <1>1, EncodedSeq
<1>8. Len(head) <= Width
  <2>1. N < Pow2[GroupBits * Width]
    <3>1. GroupBits \in Nat /\ GroupBits >= 1 /\ Width \in Nat /\ Width >= 1
      BY Widths
    <3>2. Width <= GroupBits * Width /\ GroupBits * Width \in Nat
      <4>1. 1 * Width <= GroupBits * Width
        BY <3>1, MulMonotonic
      <4> QED BY <3>1, <4>1, Distributive
    <3>3. Pow2[Width] <= Pow2[GroupBits * Width] /\ Pow2[GroupBits * Width] \in Nat
      <4> DEFINE w == GroupBits * Width
      <4>1. w \in Nat /\ Width <= w
        BY <3>2
      <4> HIDE DEF w
      <4>2. Pow2[Width] <= Pow2[w] /\ Pow2[w] \in Nat
        BY <3>1, <4>1, Pow2Monotonic, Pow2Type
      <4> QED BY <4>2 DEF w
    <3> DEFINE x == Pow2[GroupBits * Width]
               y == Pow2[Width]
    <3>4. N < y /\ y <= x /\ y \in Nat /\ x \in Nat
      BY <1>1, <1>5, <1>6, <3>3
    <3> HIDE DEF x, y
    <3>5. N < x
      BY <1>1, <3>4
    <3> QED BY <3>5 DEF x
  <2>2. Width \in Nat /\ Width >= 1
    BY Widths
  <2>3. Len(head) \in 1 .. Width
    BY <1>1, <2>1, <2>2, EncodedAtMost
  <2> QED BY <2>2, <2>3
<1> HIDE DEF tag, head
<1>9. /\ content \in Seq(Byte) /\ Len(content) = Len(head) + N
      /\ whole \in Seq(Byte) /\ Len(whole) = Len(tag) + (Len(head) + N)
      /\ \A i \in 1 .. Len(tag) : whole[i] = tag[i]
      /\ \A i \in 1 .. Len(head) : content[i] = head[i]
  <2>1. /\ content \in Seq(Byte) /\ Len(content) = Len(head) + N
        /\ \A i \in 1 .. Len(head) : content[i] = head[i]
    BY <1>1, <1>7, Joined DEF N
  <2> HIDE DEF content
  <2> QED BY <1>7, <2>1, Joined
<1>10. again = whole
  <2>1. tag \in Seq(Byte) /\ head \in Seq(Byte) /\ flat \in Seq(Byte)
    BY <1>1, <1>7
  <2>2. (tag \o head) \o flat = tag \o (head \o flat)
    BY ONLY <2>1, Rejoined
  <2> QED BY <1>4, <2>2
<1> HIDE DEF content, whole
<1>11. DecodeVarint(whole) = Ok(10, Len(tag))
  <2>1. Encodes(tag, 10, Len(tag))
    BY EncodeShape DEF tag
  <2>2. 10 \in Nat /\ 10 < Pow2[Width]
    BY TagCodes, <1>5
  <2>3. Len(tag) <= Len(whole)
    BY <1>1, <1>7, <1>9
  <2> QED BY <1>9, <2>1, <2>2, <2>3, DecodeEncoded
<1>12. DecodeTag(whole) = Ok(Tag(1, WireTypeOf[2]), Len(tag))
  <2>1. DecodeVarint(whole) = Ok(1 * 8 + 2, Len(tag))
    BY <1>11
  <2>2. 1 \in 1 .. Pow2[NumberWidth] - 1 /\ 2 \in 0 .. 5
    <3>1. Pow2[1] <= Pow2[NumberWidth] /\ Pow2[NumberWidth] \in Nat
      BY Widths, Pow2Monotonic, Pow2Type
    <3>2. Pow2[0 + 1] = 2 * Pow2[0] /\ Pow2[0] = 1
      BY Pow2Values
    <3> QED BY <3>1, <3>2
  <2> QED BY <2>1, <2>2, TagReadsBack
<1>13. From(again, DecodeTag(again).used) = content
  <2>1. DecodeTag(again).used = Len(tag)
    BY <1>10, <1>12 DEF Ok
  <2>2. content \in Seq(Byte)
    BY <1>9
  <2> QED BY <1>7, <1>10, <2>1, <2>2, SecondPart DEF whole
<1>14. Len(again) = PackedSize(1, [i \in DOMAIN enc |-> Len(enc[i])])
  <2>1. PackedSize(1, [i \in DOMAIN enc |-> Len(enc[i])])
          = VarintLen(10) + VarintLen(N) + N
    <3> DEFINE lens == [i \in 1 .. n |-> Len(enc[i])]
    <3>1. [i \in DOMAIN enc |-> Len(enc[i])] = lens
      BY <1>2
    <3>2. Total(lens) = N /\ lens # <<>>
      BY <1>1, <1>2
    <3> HIDE DEF lens
    <3>3. PackedSize(1, lens) = VarintLen(1 * 8 + 2) + VarintLen(N) + N
      BY <3>2 DEF PackedSize
    <3>4. 1 * 8 + 2 = 10
      OBVIOUS
    <3> QED BY <3>1, <3>3, <3>4
  <2>2. VarintLen(10) = Len(tag) /\ VarintLen(N) = Len(head)
    BY <1>6, TagCodes, VarintLenExact DEF tag, head
  <2>3. Len(again) = Len(tag) + (Len(head) + N)
    BY <1>9, <1>10
  <2>4. PackedSize(1, [i \in DOMAIN enc |-> Len(enc[i])]) = (Len(tag) + Len(head)) + N
    BY ONLY <2>1, <2>2
  <2>5. Len(tag) + (Len(head) + N) = (Len(tag) + Len(head)) + N
    BY ONLY <1>1, <1>7
  <2> QED BY ONLY <2>3, <2>4, <2>5
<1>15. DecodeVarint(content) = Ok(N, Len(head))
  <2>1. Encodes(head, N, Len(head))
    BY <1>1, EncodeShape DEF head
  <2>2. Len(head) <= Len(content) /\ N < Pow2[Width]
    <3>1. Len(head) <= Len(head) + N
      BY ONLY <1>1, <1>7
    <3>2. N < Pow2[Width]
      BY ONLY <1>1, <1>5, <1>6
    <3> QED BY <1>9, <3>1, <3>2
  <2>3. /\ content \in Seq(Byte) /\ N \in Nat
        /\ \A i \in 1 .. Len(head) : content[i] = head[i]
    BY <1>1, <1>9
  <2> QED BY ONLY <2>1, <2>2, <2>3, DecodeEncoded
<1>16. Delimited(content) = Ok(Len(head), Len(content))
  <2>1. Len(head) + N < Pow2[Width] /\ Len(head) + N \in Nat
    <3>1. Width \in Nat
      BY Widths
    <3> DEFINE x == Pow2[Width - 1]
               l == Len(head)
    <3>2. /\ N \in Nat /\ l \in Nat /\ x \in Nat /\ N < x /\ l <= Width /\ Width <= x
          /\ Pow2[Width] = 2 * x
      BY <1>1, <1>5, <1>7, <1>8
    <3> HIDE DEF x, l
    <3>3. l + N < 2 * x /\ l + N \in Nat
      BY ONLY <3>1, <3>2
    <3> QED BY <3>2, <3>3 DEF l
  <2>2. Unsigned(Len(head) + N, Width) = Len(head) + N
    <3> DEFINE x == Len(head) + N
               m == Pow2[Width]
    <3>1. x \in Nat /\ m \in Nat \ {0} /\ x < m
      BY <1>5, <2>1
    <3> HIDE DEF x, m
    <3>2. x = m * 0 + x
      BY <3>1
    <3>3. x % m = x
      BY <3>1, <3>2, DivUnique
    <3> QED BY <3>3 DEF Unsigned, x, m
  <2>3. ~(Len(head) + N > Len(content))
    BY <1>9, <2>1
  <2> QED BY <1>9, <1>15, <2>2, <2>3, DelimitedCases
<1>17. content = head \o flat
  BY DEF content
<1> QED BY <1>1, <1>7, <1>13, <1>14, <1>16, <1>17 DEF flat, head, again, N

Encodings(vals) == [i \in 1 .. Len(vals) |-> EncodeVarint[vals[i]]]

LEMMA ValueEncoded ==
  ASSUME NEW v \in Values
  PROVE  /\ v \in Nat /\ v < Pow2[Width]
         /\ EncodeVarint[v] \in Seq(Byte)
         /\ Len(EncodeVarint[v]) \in Nat /\ Len(EncodeVarint[v]) >= 1
<1>1. Pow2[Width] \in Nat
  BY Widths, Pow2Type
<1>2. v \in Nat /\ v < Pow2[Width]
  BY <1>1 DEF Values
<1> QED BY <1>2, EncodedSeq

LEMMA RunTotal ==
  ASSUME NEW b \in Seq(Byte), NEW pos \in Nat, NEW vals, NEW Q, Run(b, pos, vals, Q),
         vals # <<>>, NEW flat, NEW P, Pieces(flat, Encodings(vals), Len(vals), P)
  PROVE  Len(flat) <= Len(b)
<1> DEFINE n == Len(vals)
           enc == Encodings(vals)
           T == {i \in Nat : i <= n => P[i] <= Q[i + 1]}
<1>1. n \in Nat /\ Q \in [1 .. n + 1 -> Nat] /\ Q[1] = pos /\ vals \in Seq(Values)
  BY DEF Run
<1>2. P \in [0 .. n -> Nat] /\ P[0] = 0 /\ Len(flat) = P[n]
  BY DEF Pieces
<1>3. ASSUME NEW i \in 1 .. n
      PROVE  /\ P[i] = P[i - 1] + Len(EncodeVarint[vals[i]])
             /\ Q[i] + Len(EncodeVarint[vals[i]]) <= Q[i + 1]
             /\ Len(EncodeVarint[vals[i]]) \in Nat
  <2>1. enc[i] = EncodeVarint[vals[i]] /\ vals[i] \in Values
    BY <1>1 DEF Encodings
  <2> QED BY <2>1, ValueEncoded DEF Pieces, Run
<1>4. 0 \in T
  <2>1. 0 + 1 = 1 /\ P[0] <= Q[1]
    BY <1>1, <1>2
  <2> QED BY <2>1
<1>5. ASSUME NEW i \in Nat, i \in T PROVE i + 1 \in T
  <2> SUFFICES ASSUME i + 1 <= n PROVE P[i + 1] <= Q[(i + 1) + 1]
    OBVIOUS
  <2>1. i + 1 \in 1 .. n /\ (i + 1) - 1 = i /\ i \in 0 .. n /\ i <= n
    BY <1>1
  <2> DEFINE l == Len(EncodeVarint[vals[i + 1]])
  <2>2. P[i + 1] = P[i] + l /\ Q[i + 1] + l <= Q[(i + 1) + 1] /\ l \in Nat
    BY <1>3, <2>1
  <2> HIDE DEF l, n
  <2>3. /\ P[i] \in Nat /\ P[i] <= Q[i + 1] /\ i + 1 \in 1 .. n + 1 /\ Q[i + 1] \in Nat
        /\ (i + 1) + 1 \in 1 .. n + 1 /\ Q[(i + 1) + 1] \in Nat
    <3>1. P[i] \in Nat /\ P[i] <= Q[i + 1]
      BY <1>2, <1>5, <2>1
    <3>2. i + 1 \in 1 .. n + 1 /\ (i + 1) + 1 \in 1 .. n + 1
      BY <1>1, <2>1
    <3> QED BY <1>1, <3>1, <3>2
  <2> QED BY ONLY <2>2, <2>3
<1> HIDE DEF T
<1>6. n \in T
  <2>1. Nat \subseteq T
    BY ONLY <1>4, <1>5, SetInduction
  <2> QED BY ONLY <1>1, <2>1
<1>7. Q[n + 1] <= Len(b) /\ P[n] <= Q[n + 1]
  BY <1>6, <1>1 DEF T, Run
<1>8. Q[n + 1] \in Nat /\ P[n] \in Nat /\ Len(b) \in Nat
  <2> HIDE DEF n
  <2>1. n + 1 \in 1 .. n + 1 /\ n \in 0 .. n
    BY ONLY <1>1
  <2>2. Q[n + 1] \in Nat
    BY ONLY <1>1, <2>1
  <2>3. P[n] \in Nat
    BY ONLY <1>2, <2>1
  <2>4. Len(b) \in Nat
    OBVIOUS
  <2> QED BY ONLY <2>2, <2>3, <2>4
<1> QED BY ONLY <1>2, <1>7, <1>8

LEMMA RestOf ==
  ASSUME NEW S, NEW s \in Seq(S), NEW j \in Nat, j < Len(s)
  PROVE  /\ SubSeq(s, j + 1, Len(s)) = <<s[j + 1]>> \o SubSeq(s, (j + 1) + 1, Len(s))
         /\ SubSeq(s, j + 1, Len(s)) \in Seq(S)
<1> DEFINE x == s[j + 1]
           t == SubSeq(s, (j + 1) + 1, Len(s))
           u == SubSeq(s, j + 1, Len(s))
<1>1. x \in S /\ t \in Seq(S) /\ u \in Seq(S) /\ Len(s) \in Nat
  OBVIOUS
<1>2. Len(t) = Len(s) - (j + 1) /\ \A i \in 1 .. Len(s) - (j + 1) : t[i] = s[(j + 1) + i]
  OBVIOUS
<1>3. Len(u) = Len(s) - j /\ \A i \in 1 .. Len(s) - j : u[i] = s[j + i]
  OBVIOUS
<1> DEFINE w == <<x>> \o t
<1>x. x = s[j + 1]
  OBVIOUS
<1> HIDE DEF x, t, u
<1>4. /\ w \in Seq(S) /\ Len(w) = Len(t) + 1 /\ w[1] = x
      /\ \A i \in 1 .. Len(t) : w[i + 1] = t[i]
  BY <1>1, Consed
<1> HIDE DEF w
<1>5. Len(w) = Len(u)
  BY <1>1, <1>2, <1>3, <1>4
<1>6. ASSUME NEW i \in 1 .. Len(u) PROVE w[i] = u[i]
  <2>1. CASE i = 1
    <3>1. 1 \in 1 .. Len(s) - j
      BY <1>1
    <3> QED BY <1>3, <1>4, <1>x, <2>1, <3>1
  <2>2. CASE i # 1
    <3>1. i - 1 \in 1 .. Len(t) /\ i - 1 \in 1 .. Len(s) - (j + 1)
          /\ i \in 1 .. Len(s) - j /\ (i - 1) + 1 = i /\ (j + 1) + (i - 1) = j + i
      BY <1>1, <1>2, <1>3, <2>2
    <3>2. w[(i - 1) + 1] = t[i - 1] /\ t[i - 1] = s[(j + 1) + (i - 1)] /\ u[i] = s[j + i]
      BY <1>2, <1>3, <1>4, <3>1
    <3> QED BY <3>1, <3>2
  <2> QED BY <2>1, <2>2
<1>7. w = u
  BY <1>1, <1>4, <1>5, <1>6
<1> QED BY <1>1, <1>7 DEF w, u, t, x

LEMMA Offsets ==
  ASSUME NEW h \in Nat, NEW p \in Nat, NEW l \in Nat, NEW q \in Nat, l >= 1, p + l <= q
  PROVE  /\ h + p \in Nat /\ ~(h + p >= h + q) /\ (h + p) + l = h + (p + l)
         /\ (h + q) - (h + p) = q - p /\ h + p <= h + q
         /\ \A k \in 1 .. l : /\ k \in 1 .. q - p /\ p + k \in 1 .. q
                              /\ (h + p) + k = h + (p + k)
OBVIOUS

(* decode_packed_varints on encodings laid one after the other. *)
LEMMA VarintsReread ==
  ASSUME NEW vals \in Seq(Values), NEW flat \in Seq(Byte),
         NEW P, Pieces(flat, Encodings(vals), Len(vals), P),
         NEW body \in Seq(Byte), NEW h \in Nat, Len(body) = h + Len(flat),
         \A i \in 1 .. Len(flat) : body[h + i] = flat[i]
  PROVE  VarintsFrom(body, Len(body))[h] = Ok(vals, Len(body))
<1> DEFINE n == Len(vals)
           enc == Encodings(vals)
           end == Len(body)
           R == VarintsFrom(body, end)
           rest(j) == SubSeq(vals, j + 1, n)
           T == {d \in Nat : d <= n => R[h + P[n - d]] = Ok(rest(n - d), end)}
<1>1. /\ n \in Nat /\ end \in Nat /\ P \in [0 .. n -> Nat] /\ P[0] = 0
      /\ end = h + P[n] /\ Len(flat) = P[n]
  BY DEF Pieces
<1> HIDE DEF R, end
<1>2. 0 \in T
  <2> DEFINE x == h + P[n]
  <2>1. n - 0 = n /\ x \in Nat /\ x >= end
    <3> HIDE DEF n
    <3>1. P[n] \in Nat
      BY <1>1
    <3> QED BY <1>1, <3>1
  <2> HIDE DEF x
  <2>2. R[x] = Ok(<<>>, end)
    BY <1>1, <2>1, VarintsRecursion DEF R
  <2>3. rest(n) = <<>>
    OBVIOUS
  <2> HIDE DEF rest, n
  <2> QED BY <2>1, <2>2, <2>3 DEF x
<1>3. ASSUME NEW d \in Nat, d \in T PROVE d + 1 \in T
  <2> SUFFICES ASSUME d + 1 <= n
               PROVE  R[h + P[n - (d + 1)]] = Ok(rest(n - (d + 1)), end)
    OBVIOUS
  <2> DEFINE j == n - (d + 1)
             c == j + 1
             v == vals[c]
             e == EncodeVarint[v]
             L == Len(e)
             pos == h + P[j]
             from == From(body, pos)
             a == DecodeVarint(from)
  <2>1. /\ j \in Nat /\ j \in 0 .. n /\ c \in 1 .. n /\ c \in 0 .. n /\ n - d = c
        /\ c - 1 = j /\ d <= n /\ j < n
    <3> HIDE DEF n
    <3> QED BY <1>1
  <2>2. v \in Values /\ enc[c] = e
    BY <2>1 DEF Encodings
  <2>3. R[h + P[c]] = Ok(rest(c), end)
    <3> HIDE DEF rest
    <3> QED BY <1>3, <2>1
  <2>4. rest(j) = <<v>> \o rest(c)
    <3>1. SubSeq(vals, j + 1, Len(vals)) = <<vals[j + 1]>> \o SubSeq(vals, (j + 1) + 1, Len(vals))
      BY <2>1, RestOf
    <3> QED BY <3>1
  <2> HIDE DEF T, rest, j, c, v
  <2>5. v \in Nat /\ v < Pow2[Width] /\ L \in Nat /\ L >= 1
    BY <2>2, ValueEncoded
  <2>6. /\ P[c] = P[j] + L /\ P[j] \in Nat /\ P[c] \in Nat /\ P[n] \in Nat
        /\ \A k \in 1 .. L : P[j] + k <= P[n] /\ flat[P[j] + k] = e[k]
    <3>1. /\ P[c] = P[c - 1] + Len(enc[c])
          /\ \A k \in 1 .. Len(enc[c]) : P[c - 1] + k <= P[n] /\ flat[P[c - 1] + k] = enc[c][k]
      <4>1. Pieces(flat, enc, n, P)
        OBVIOUS
      <4> HIDE DEF n
      <4> QED BY <2>1, <4>1 DEF Pieces
    <3> HIDE DEF n, e
    <3>2. P[j] \in Nat /\ P[c] \in Nat /\ P[n] \in Nat
      <4>1. n \in 0 .. n
        BY <1>1
      <4> QED BY <1>1, <2>1, <4>1
    <3>3. Len(enc[c]) = L
      BY <2>2
    <3> HIDE DEF L
    <3> QED BY ONLY <2>1, <2>2, <3>1, <3>2, <3>3
  <2> HIDE DEF e, L, n
  <2>7. P[j] + L <= P[n]
    <3>1. L \in 1 .. L
      BY <2>5
    <3> QED BY <2>6, <3>1
  <2>8. /\ pos \in Nat /\ ~(pos >= h + P[n]) /\ pos + L = h + (P[j] + L)
        /\ (h + P[n]) - pos = P[n] - P[j] /\ pos <= h + P[n]
        /\ \A k \in 1 .. L : /\ k \in 1 .. P[n] - P[j] /\ P[j] + k \in 1 .. P[n]
                             /\ pos + k = h + (P[j] + k)
    <3> DEFINE p == P[j]
               q == P[n]
    <3>1. h \in Nat /\ p \in Nat /\ L \in Nat /\ q \in Nat /\ L >= 1 /\ p + L <= q
      BY <2>5, <2>6, <2>7
    <3> HIDE DEF p, q
    <3>2. /\ h + p \in Nat /\ ~(h + p >= h + q) /\ (h + p) + L = h + (p + L)
          /\ (h + q) - (h + p) = q - p /\ h + p <= h + q
          /\ \A k \in 1 .. L : /\ k \in 1 .. q - p /\ p + k \in 1 .. q
                               /\ (h + p) + k = h + (p + k)
      BY ONLY <3>1, Offsets
    <3> QED BY <3>2 DEF p, q
  <2>9. ~(pos >= end) /\ pos + L = h + P[c] /\ end - pos = P[n] - P[j] /\ pos <= end
    <3>1. end = h + P[n] /\ P[c] = P[j] + L
      BY <1>1, <2>6
    <3> HIDE DEF pos
    <3> QED BY ONLY <2>8, <3>1
  <2> HIDE DEF pos
  <2>10. /\ from \in Seq(Byte) /\ Len(from) = P[n] - P[j]
         /\ \A k \in 1 .. P[n] - P[j] : from[k] = body[pos + k]
    <3>1. /\ from \in Seq(Byte) /\ Len(from) = IF pos <= Len(body) THEN Len(body) - pos ELSE 0
          /\ \A i \in 1 .. Len(body) - pos : from[i] = body[pos + i]
      BY <2>8, FromIs
    <3> HIDE DEF from
    <3> QED BY <2>8, <2>9, <3>1, SMTT(30) DEF end
  <2> HIDE DEF from
  <2>11. a = Ok(v, L)
    <3>1. Encodes(e, v, L)
      BY <2>5, EncodeShape DEF L, e
    <3>2. L <= Len(from)
      <4>1. L \in Nat /\ P[j] \in Nat /\ P[n] \in Nat /\ Len(from) = P[n] - P[j]
        BY ONLY <2>5, <2>6, <2>10
      <4> QED BY ONLY <2>7, <4>1
    <3>3. ASSUME NEW k \in 1 .. L PROVE from[k] = e[k]
      <4>1. /\ body[h + (P[j] + k)] = flat[P[j] + k]
            /\ from[k] = body[pos + k] /\ flat[P[j] + k] = e[k]
        BY <1>1, <2>6, <2>8, <2>10
      <4> QED BY <2>8, <4>1
    <3> QED BY <2>5, <2>10, <3>1, <3>2, <3>3, DecodeEncoded
  <2>12. R[pos] = IF ~a.ok THEN a ELSE IF ~R[pos + a.used].ok THEN R[pos + a.used]
                  ELSE Ok(<<a.val>> \o R[pos + a.used].val, R[pos + a.used].used)
    BY <1>1, <2>8, <2>9, VarintsRecursion DEF R, from
  <2>13. a.ok /\ a.val = v /\ a.used = L
    <3> HIDE DEF a
    <3> QED BY <2>11 DEF Ok
  <2>14. R[pos + L].ok /\ R[pos + L].val = rest(c) /\ R[pos + L].used = end
    <3>1. R[pos + L] = Ok(rest(c), end)
      BY <2>3, <2>9
    <3> QED BY <3>1 DEF Ok
  <2> HIDE DEF a
  <2>15. R[pos] = Ok(<<v>> \o rest(c), end)
    BY <2>12, <2>13, <2>14
  <2>16. R[h + P[j]] = Ok(rest(j), end)
    BY <2>4, <2>15 DEF pos
  <2> QED BY <2>16 DEF j
<1> HIDE DEF T
<1>4. n \in T
  BY <1>1, <1>2, <1>3, SetInduction
<1>5. n - n = 0 /\ P[n - n] = 0 /\ h + 0 = h /\ n <= n
  BY <1>1
<1>6. rest(0) = vals
  BY <1>1
<1>7. R[h] = Ok(vals, end)
  <2> HIDE DEF rest, n
  <2>1. R[h + P[n - n]] = Ok(rest(n - n), end)
    BY <1>4, <1>5 DEF T
  <2> QED BY <2>1, <1>5, <1>6
<1> QED BY <1>7 DEF R, end

(* A content cut into values of len bytes. *)
Cut(content, len) ==
    [i \in 1 .. Len(content) \div len |-> SubSeq(content, len * (i - 1) + 1, len * i)]

Slice(b, start, end) == SubSeq(b, start + 1, end)

FixedAnswer(content, start, end, len) ==
    IF end < start THEN Fail("panic")
    ELSE IF Len(content) % len # 0 THEN Fail("Custom")
    ELSE Ok(Cut(content, len), end)

LEMMA FixedCases ==
  ASSUME NEW b, NEW len, NEW start, NEW end, Delimited(b) = Ok(start, end)
  PROVE  DecodePackedFixed(b, len) = FixedAnswer(Slice(b, start, end), start, end, len)
<1> DEFINE d == Delimited(b)
           c == Content(b)
           content == Slice(b, start, end)
<1>1. d.ok /\ d.val = start /\ d.used = end
  BY DEF Ok
<1>2. d.ok => Content(b) = IF d.used < d.val THEN Fail("panic")
                           ELSE Ok(Slice(b, d.val, d.used), d.used)
  BY DEF Content, Then, Slice
<1>3. c = IF end < start THEN Fail("panic") ELSE Ok(content, end)
  <2> HIDE DEF d
  <2> QED BY <1>1, <1>2
<1>4. ~c.ok => DecodePackedFixed(b, len) = c
  BY DEF DecodePackedFixed, Then
<1>5. c.ok => DecodePackedFixed(b, len) =
                 IF Len(c.val) % len # 0 THEN Fail("Custom")
                 ELSE Ok([i \in 1 .. Len(c.val) \div len |->
                             SubSeq(c.val, len * (i - 1) + 1, len * i)], c.used)
  BY DEF DecodePackedFixed, Then
<1> HIDE DEF c, content
<1>6. CASE end < start
  <2>1. ~c.ok
    BY <1>3, <1>6 DEF Fail
  <2> QED BY <1>3, <1>4, <1>6, <2>1 DEF FixedAnswer, content
<1>7. CASE ~(end < start)
  <2>1. c.ok /\ c.val = content /\ c.used = end
    BY <1>3, <1>7 DEF Ok
  <2>2. DecodePackedFixed(b, len) =
            IF Len(content) % len # 0 THEN Fail("Custom")
            ELSE Ok([i \in 1 .. Len(content) \div len |->
                        SubSeq(content, len * (i - 1) + 1, len * i)], end)
    BY <1>5, <2>1
  <2> QED BY <1>7, <2>2 DEF content, FixedAnswer, Cut
<1> QED BY <1>6, <1>7

(* Where the i-th of m pieces of one length lies. *)
LEMMA Strides ==
  ASSUME NEW len \in Nat, NEW m \in Nat, NEW i \in 1 .. m
  PROVE  /\ len * (i - 1) \in Nat /\ len * i \in Nat /\ len * m \in Nat
         /\ len * i = len * (i - 1) + len
         /\ len * i <= len * m
<1>1. i - 1 \in Nat /\ i \in Nat /\ 1 \in Nat /\ i = (i - 1) + 1 /\ i <= m
  OBVIOUS
<1>2. len * ((i - 1) + 1) = len * (i - 1) + len * 1 /\ len * (i - 1) \in Nat /\ len * 1 \in Nat
  BY <1>1, Distributive
<1>3. i * len <= m * len
  BY <1>1, MulMonotonic
<1>4. i * len = len * i /\ m * len = len * m /\ len * 1 = len
  BY <1>1
<1>5. len * i = len * (i - 1) + len
  BY <1>1, <1>2, <1>4
<1>6. len * m \in Nat
  BY Distributive
<1> QED BY <1>2, <1>3, <1>4, <1>5, <1>6

LEMMA Sliced ==
  ASSUME NEW S, NEW s \in Seq(S), NEW p \in Nat, NEW q \in Nat, p <= q, q <= Len(s)
  PROVE  /\ SubSeq(s, p + 1, q) \in Seq(S)
         /\ Len(SubSeq(s, p + 1, q)) = q - p
         /\ \A k \in 1 .. q - p : SubSeq(s, p + 1, q)[k] = s[p + k]
<1>1. SubSeq(s, p + 1, q) \in Seq(S)
  OBVIOUS
<1>2. Len(SubSeq(s, p + 1, q)) = q - p
  OBVIOUS
<1>3. ASSUME NEW k \in 1 .. q - p PROVE SubSeq(s, p + 1, q)[k] = s[p + k]
  <2>1. (p + 1) + k - 1 = p + k
    OBVIOUS
  <2> QED BY <2>1
<1> QED BY <1>1, <1>2, <1>3

(* What decode_packed_fixed finds: pieces of one length, no more of them   *)
(* than the buffer holds.                                                  *)
LEMMA FixedRead ==
  ASSUME NEW b \in Seq(Byte), NEW len \in Nat \ {0}, DecodePackedFixed(b, len).ok
  PROVE  \E m \in Nat : \E el \in [1 .. m -> Seq(Byte)] :
            /\ DecodePackedFixed(b, len).val = el
            /\ \A i \in 1 .. m : Len(el[i]) = len
            /\ len * m <= Len(b)
<1>1. Delimited(b).ok
  <2>1. ~Delimited(b).ok => Content(b) = Delimited(b)
    BY DEF Content, Then
  <2>2. ~Content(b).ok => DecodePackedFixed(b, len) = Content(b)
    BY DEF DecodePackedFixed, Then
  <2> QED BY <2>1, <2>2
<1>2. PICK start \in Nat, end \in Nat : end <= Len(b) /\ Delimited(b) = Ok(start, end)
  BY <1>1, DelimitedRead
<1> DEFINE c == Slice(b, start, end)
           m == Len(c) \div len
           el == Cut(c, len)
<1>3. DecodePackedFixed(b, len) =
         IF end < start THEN Fail("panic") ELSE IF Len(c) % len # 0 THEN Fail("Custom")
         ELSE Ok(el, end)
  <2>1. DecodePackedFixed(b, len) = FixedAnswer(c, start, end, len)
    BY <1>2, FixedCases
  <2> HIDE DEF c
  <2> QED BY <2>1 DEF FixedAnswer
<1> HIDE DEF c, el
<1>4. ~(end < start) /\ DecodePackedFixed(b, len) = Ok(el, end)
  <2>1. ~Fail("panic").ok /\ ~Fail("Custom").ok
    BY DEF Fail
  <2> QED BY <1>3, <2>1
<1>5. c \in Seq(Byte) /\ Len(c) \in Nat /\ Len(c) <= Len(b)
  <2>1. c \in Seq(Byte) /\ Len(c) = end - start
    BY <1>2, <1>4, Sliced DEF c, Slice
  <2> QED BY <1>2, <2>1
<1>6. m \in Nat /\ len * m <= Len(c) /\ len * m \in Nat
  <2>1. m \in Nat /\ Len(c) % len \in Nat /\ Len(c) = len * m + (Len(c) % len)
    BY <1>5, DivMod
  <2> HIDE DEF m
  <2>2. len * m \in Nat
    BY <2>1, Distributive
  <2> QED BY <1>5, <2>1, <2>2
<1> HIDE DEF m
<1>7. ASSUME NEW i \in 1 .. m PROVE el[i] \in Seq(Byte) /\ Len(el[i]) = len
  <2> DEFINE p == len * (i - 1)
             q == len * i
             r == len * m
  <2>1. p \in Nat /\ q \in Nat /\ r \in Nat /\ q = p + len /\ q <= r
    BY <1>6, Strides
  <2>2. el[i] = SubSeq(c, p + 1, q)
    BY DEF el, Cut, m
  <2>3. r <= Len(c) /\ Len(c) \in Nat
    BY <1>5, <1>6
  <2> HIDE DEF p, q, r
  <2>4. p <= q /\ q <= Len(c) /\ q - p = len
    BY <2>1, <2>3
  <2> QED BY <1>5, <2>1, <2>2, <2>4, Sliced
<1>8. el \in [1 .. m -> Seq(Byte)]
  BY <1>7 DEF el, Cut, m
<1>9. DecodePackedFixed(b, len).val = el
  BY <1>4 DEF Ok
<1>10. len * m <= Len(b)
  BY <1>5, <1>6
<1> QED BY <1>6, <1>7, <1>8, <1>9, <1>10

Strided(P, len, m) == \A i \in 0 .. m : P[i] = len * i

LEMMA FixedPieces ==
  ASSUME NEW len \in Nat \ {0}, NEW m \in Nat, NEW el \in [1 .. m -> Seq(Byte)],
         \A i \in 1 .. m : Len(el[i]) = len,
         NEW flat \in Seq(Byte), NEW P, Pieces(flat, el, m, P)
  PROVE  Len(flat) = len * m /\ Strided(P, len, m)
<1>1. /\ P \in [0 .. m -> Nat] /\ P[0] = 0 /\ Len(flat) = P[m]
      /\ \A i \in 1 .. m : P[i] = P[i - 1] + len
      /\ \A i \in 1 .. m : \A k \in 1 .. len : flat[P[i - 1] + k] = el[i][k]
  BY DEF Pieces
<1>2. \A i \in 0 .. m : P[i] = len * i
  <2> DEFINE T == {i \in Nat : i <= m => P[i] = len * i}
  <2>1. 0 \in T
    BY <1>1
  <2>2. ASSUME NEW i \in Nat, i \in T PROVE i + 1 \in T
    <3> SUFFICES ASSUME i + 1 <= m PROVE P[i + 1] = len * (i + 1)
      OBVIOUS
    <3>1. i + 1 \in 1 .. m /\ (i + 1) - 1 = i /\ P[i] = len * i
      BY <2>2
    <3>2. len * (i + 1) = len * i + len
      BY <3>1, Strides
    <3> QED BY <1>1, <3>1, <3>2
  <2> HIDE DEF T
  <2>3. Nat \subseteq T
    BY <2>1, <2>2, SetInduction
  <2> QED BY <2>3 DEF T
<1>3. Len(flat) = len * m
  <2>1. m \in 0 .. m
    OBVIOUS
  <2> QED BY <1>1, <1>2, <2>1
<1> QED BY <1>2, <1>3 DEF Strided

LEMMA FixedReread ==
  ASSUME NEW len \in Nat \ {0}, NEW m \in Nat, NEW el \in [1 .. m -> Seq(Byte)],
         \A i \in 1 .. m : Len(el[i]) = len,
         NEW flat \in Seq(Byte), NEW P, Pieces(flat, el, m, P),
         NEW head \in Seq(Byte), Delimited(head \o flat) = Ok(Len(head), Len(head \o flat))
  PROVE  DecodePackedFixed(head \o flat, len) = Ok(el, Len(head \o flat))
<1>0. Len(flat) = len * m /\ \A i \in 0 .. m : P[i] = len * i
  <2>1. Len(flat) = len * m /\ Strided(P, len, m)
    BY FixedPieces
  <2> QED BY <2>1 DEF Strided
<1> DEFINE body == head \o flat
           h == Len(head)
           end == Len(body)
           c == Slice(body, h, end)
           found == Cut(c, len)
<1>1. DecodePackedFixed(body, len) =
         IF end < h THEN Fail("panic") ELSE IF Len(c) % len # 0 THEN Fail("Custom")
         ELSE Ok(found, end)
  <2>1. DecodePackedFixed(body, len) = FixedAnswer(c, h, end, len)
    <3>1. Delimited(body) = Ok(h, end) /\ c = Slice(body, h, end)
      OBVIOUS
    <3> HIDE DEF c, body, h, end
    <3> QED BY <3>1, FixedCases
  <2> HIDE DEF c, body, h, end
  <2> QED BY <2>1 DEF FixedAnswer
<1>2. /\ body \in Seq(Byte) /\ h \in Nat /\ Len(flat) \in Nat /\ end = h + Len(flat)
      /\ \A i \in 1 .. Len(flat) : body[h + i] = flat[i]
  BY Joined
<1>3. c = flat
  <2>1. From(body, h) = flat
    BY SecondPart
  <2> QED BY <2>1 DEF From, Slice
<1> HIDE DEF c, body
<1> HIDE DEF end, h
<1>4. ~(end < h)
  BY <1>2
<1>5. Len(c) % len = 0 /\ Len(c) \div len = m
  <2>1. Len(c) = len * m + 0 /\ Len(c) \in Nat
    BY <1>0, <1>2, <1>3
  <2> HIDE DEF found
  <2> QED BY <2>1, DivUnique
<1>6. ASSUME NEW i \in 1 .. m PROVE SubSeq(c, len * (i - 1) + 1, len * i) = el[i]
  <2> DEFINE p == len * (i - 1)
             q == len * i
             r == len * m
             x == SubSeq(c, p + 1, q)
             y == el[i]
  <2>1. p \in Nat /\ q \in Nat /\ r \in Nat /\ q = p + len /\ q <= r
    BY Strides
  <2>2. r = Len(c) /\ c \in Seq(Byte) /\ Len(c) \in Nat
    BY <1>0, <1>2, <1>3
  <2>3. P[i - 1] = p
    BY <1>0
  <2>4. y \in Seq(Byte) /\ Len(y) = len
    OBVIOUS
  <2>5. \A k \in 1 .. len : flat[p + k] = y[k]
    <3>1. \A k \in 1 .. Len(el[i]) : flat[P[i - 1] + k] = el[i][k]
      BY DEF Pieces
    <3>2. Len(el[i]) = len
      OBVIOUS
    <3> QED BY <2>3, <3>1, <3>2 DEF y
  <2> HIDE DEF p, q, r, y
  <2>6. p <= q /\ q <= Len(c) /\ q - p = len
    BY <2>1, <2>2
  <2>7. x \in Seq(Byte) /\ Len(x) = len /\ \A k \in 1 .. len : x[k] = c[p + k]
    BY <2>1, <2>2, <2>6, Sliced
  <2> HIDE DEF x
  <2>8. x = y
    BY <1>3, <2>4, <2>5, <2>7
  <2> QED BY <2>8 DEF x, y, p, q
<1>7. found = el
  <2>1. found = [i \in 1 .. m |-> el[i]]
    <3>1. found = [i \in 1 .. m |-> SubSeq(c, len * (i - 1) + 1, len * i)]
      BY <1>5 DEF Cut
    <3> HIDE DEF found
    <3> QED BY <1>6, <3>1
  <2> HIDE DEF found
  <2> QED BY <2>1
<1> HIDE DEF found
<1> QED BY <1>1, <1>4, <1>5, <1>7 DEF body, end

LEMMA NothingRepacked ==
  /\ \A f : Len(EncodePacked(1, <<>>)) = PackedSize(1, [i \in DOMAIN <<>> |-> f])
  /\ \A lens : lens = <<>> => PackedSize(1, lens) = 0
  /\ Len(EncodePacked(1, <<>>)) = 0
<1>1. \A lens : lens = <<>> => PackedSize(1, lens) = 0
  BY DEF PackedSize
<1>2. EncodePacked(1, <<>>) = <<>>
  BY DEF EncodePacked
<1>3. \A f : [i \in DOMAIN <<>> |-> f] = <<>>
  OBVIOUS
<1> QED BY <1>1, <1>2, <1>3

LEMMA VarintsCases ==
  ASSUME NEW b
  PROVE  /\ DecodePackedVarints(b).ok => Delimited(b).ok
         /\ \A start, end : Delimited(b) = Ok(start, end) =>
               DecodePackedVarints(b) = VarintsFrom(b, end)[start]
<1> DEFINE d == Delimited(b)
<1>1. d.ok => DecodePackedVarints(b) = VarintsFrom(b, d.used)[d.val]
  BY DEF DecodePackedVarints, Then
<1>2. ~d.ok => DecodePackedVarints(b) = d
  BY DEF DecodePackedVarints, Then
<1>3. ASSUME NEW start, NEW end, d = Ok(start, end)
      PROVE  d.ok /\ d.val = start /\ d.used = end
  BY <1>3 DEF Ok
<1> HIDE DEF d
<1> QED BY <1>1, <1>2, <1>3 DEF d

(* However many elements a packed varint field holds: written again they   *)
(* take the computed size and are read back.                               *)
LEMMA VarintsRepacked ==
  ASSUME NEW b \in Seq(Byte), Len(b) < Pow2[Width - 1], DecodePackedVarints(b).ok
  PROVE  LET varints == DecodePackedVarints(b)
         IN  Repacked(varints.val,
                      [i \in DOMAIN varints.val |-> EncodeVarint[varints.val[i]]],
                      DecodePackedVarints)
<1>1. PICK start \in Nat, end \in Nat : end <= Len(b) /\ Delimited(b) = Ok(start, end)
  BY DelimitedRead, VarintsCases
<1>2. DecodePackedVarints(b) = VarintsFrom(b, end)[start]
  BY <1>1, VarintsCases
<1>3. PICK vals, Q : VarintsFrom(b, end)[start] = Ok(vals, end) /\ Run(b, start, vals, Q)
  BY <1>2, VarintsRead
<1>4. DecodePackedVarints(b).val = vals
  BY <1>2, <1>3 DEF Ok
<1> DEFINE n == Len(vals)
           enc == Encodings(vals)
           flat == FlattenSeq(enc)
           head == EncodeVarint[Len(flat)]
           again == EncodePacked(1, enc)
           body == From(again, DecodeTag(again).used)
<1>5. vals \in Seq(Values) /\ n \in Nat /\ DOMAIN vals = 1 .. n
  BY <1>3 DEF Run
<1>6. enc \in [1 .. n -> Seq(Byte)]
  <2>1. ASSUME NEW i \in 1 .. n PROVE EncodeVarint[vals[i]] \in Seq(Byte)
    <3>1. vals[i] \in Values
      BY <1>5
    <3> QED BY <3>1, ValueEncoded
  <2> QED BY <2>1 DEF Encodings
<1> SUFFICES Repacked(vals, enc, DecodePackedVarints)
  BY <1>4, <1>5 DEF Encodings
<1>7. CASE vals = <<>>
  <2>1. n = 0
    BY <1>7
  <2>2. enc = <<>> /\ [i \in DOMAIN enc |-> Len(enc[i])] = <<>>
    BY <2>1 DEF Encodings
  <2> HIDE DEF enc
  <2>3. Len(EncodePacked(1, enc)) = PackedSize(1, [i \in DOMAIN enc |-> Len(enc[i])])
    BY <2>2, NothingRepacked
  <2> QED BY <1>7, <2>3 DEF Repacked
<1>8. CASE vals # <<>>
  <2>1. n >= 1
    BY <1>5, <1>8
  <2> HIDE DEF enc
  <2>2. PICK P : Pieces(flat, enc, n, P)
    BY <1>5, <1>6, <2>1, FlattenPieces
  <2>3. Len(flat) <= Len(b)
    <3>1. Pieces(flat, Encodings(vals), Len(vals), P)
      BY <2>2 DEF enc
    <3> HIDE DEF flat, n
    <3> QED BY <1>3, <1>8, <3>1, RunTotal
  <2>4. Len(flat) < Pow2[Width - 1]
    <3>1. flat \in Seq(Byte)
      BY <1>5, <1>6, <2>1, FlattenPieces
    <3>2. Width - 1 \in Nat
      BY Widths
    <3>3. Pow2[Width - 1] \in Nat
      BY <3>2, Pow2Type
    <3> HIDE DEF flat
    <3>4. Len(flat) \in Nat /\ Len(b) \in Nat
      BY <3>1
    <3> QED BY ONLY <2>3, <3>3, <3>4, Len(b) < Pow2[Width - 1]
  <2>5. /\ flat \in Seq(Byte) /\ head \in Seq(Byte)
        /\ Len(again) = PackedSize(1, [i \in DOMAIN enc |-> Len(enc[i])])
        /\ body = head \o flat
        /\ Delimited(body) = Ok(Len(head), Len(body))
    <3> HIDE DEF n
    <3> QED BY <1>5, <1>6, <2>1, <2>4, PackedWritten
  <2> HIDE DEF flat, head, again, body
  <2>6. /\ body \in Seq(Byte) /\ Len(head) \in Nat /\ Len(body) = Len(head) + Len(flat)
        /\ \A i \in 1 .. Len(flat) : body[Len(head) + i] = flat[i]
    BY <2>5, Joined
  <2>7. VarintsFrom(body, Len(body))[Len(head)] = Ok(vals, Len(body))
    <3>1. Pieces(flat, Encodings(vals), Len(vals), P)
      BY <2>2 DEF enc
    <3> DEFINE h == Len(head)
    <3>2. /\ vals \in Seq(Values) /\ flat \in Seq(Byte) /\ body \in Seq(Byte)
          /\ h \in Nat /\ Len(body) = h + Len(flat)
      BY <1>5, <2>5, <2>6
    <3>3. \A i \in 1 .. Len(flat) : body[h + i] = flat[i]
      BY <2>6
    <3> HIDE DEF n, h
    <3>4. VarintsFrom(body, Len(body))[h] = Ok(vals, Len(body))
      BY ONLY <3>1, <3>2, <3>3, VarintsReread
    <3> QED BY <3>4 DEF h
  <2>8. DecodePackedVarints(body) = Ok(vals, Len(body))
    BY <2>5, <2>7, VarintsCases
  <2>9. /\ DecodePackedVarints(body).ok
        /\ DecodePackedVarints(body).val = vals
        /\ DecodePackedVarints(body).used = Len(body)
    BY <2>8 DEF Ok
  <2> QED BY <2>5, <2>9 DEF Repacked, again, body
<1> QED BY <1>7, <1>8

(* The same of a packed field of fixed-width elements.                     *)
LEMMA FixedRepacked ==
  ASSUME NEW b \in Seq(Byte), Len(b) < Pow2[Width - 1],
         NEW len \in Nat \ {0}, DecodePackedFixed(b, len).ok
  PROVE  LET fixed == DecodePackedFixed(b, len)
             Fixed(bytes) == DecodePackedFixed(bytes, len)
         IN  Repacked(fixed.val, fixed.val, Fixed)
<1>1. PICK n \in Nat : \E el \in [1 .. n -> Seq(Byte)] :
         /\ DecodePackedFixed(b, len).val = el
         /\ \A i \in 1 .. n : Len(el[i]) = len
         /\ len * n <= Len(b)
  BY FixedRead
<1>2. PICK enc \in [1 .. n -> Seq(Byte)] :
         /\ DecodePackedFixed(b, len).val = enc
         /\ \A i \in 1 .. n : Len(enc[i]) = len
         /\ len * n <= Len(b)
  BY <1>1
<1> DEFINE flat == FlattenSeq(enc)
           head == EncodeVarint[Len(flat)]
           again == EncodePacked(1, enc)
           body == From(again, DecodeTag(again).used)
           Fixed(bytes) == DecodePackedFixed(bytes, len)
<1> SUFFICES Repacked(enc, enc, Fixed)
  BY <1>2
<1>3. CASE n = 0
  <2>1. enc = <<>> /\ [i \in DOMAIN enc |-> Len(enc[i])] = <<>>
    BY <1>3
  <2>2. Len(EncodePacked(1, enc)) = PackedSize(1, [i \in DOMAIN enc |-> Len(enc[i])])
    BY <2>1, NothingRepacked
  <2> QED BY <2>1, <2>2 DEF Repacked
<1>4. CASE n # 0
  <2>1. n >= 1
    BY <1>4
  <2>2. PICK P : Pieces(flat, enc, n, P)
    BY <2>1, FlattenPieces
  <2>3. flat \in Seq(Byte)
    BY <2>1, FlattenPieces
  <2>4. Len(flat) = len * n
    <3>1. \A i \in 1 .. n : Len(enc[i]) = len
      BY <1>2
    <3> HIDE DEF flat
    <3> QED BY <2>2, <2>3, <3>1, FixedPieces
  <2>5. Len(flat) < Pow2[Width - 1]
    <3>1. Width - 1 \in Nat
      BY Widths
    <3>2. Pow2[Width - 1] \in Nat
      BY <3>1, Pow2Type
    <3> HIDE DEF flat
    <3>3. Len(flat) \in Nat /\ Len(b) \in Nat /\ Len(flat) <= Len(b)
      BY <1>2, <2>3, <2>4
    <3> QED BY ONLY <3>2, <3>3, Len(b) < Pow2[Width - 1]
  <2>6. /\ head \in Seq(Byte)
        /\ Len(again) = PackedSize(1, [i \in DOMAIN enc |-> Len(enc[i])])
        /\ body = head \o flat
        /\ Delimited(body) = Ok(Len(head), Len(body))
    <3>1. n \in Nat /\ n >= 1 /\ enc \in [1 .. n -> Seq(Byte)]
      BY <2>1
    <3> QED BY ONLY <3>1, <2>5, PackedWritten
  <2> HIDE DEF flat, head, again, body
  <2>7. DecodePackedFixed(body, len) = Ok(enc, Len(body))
    <3>1. \A i \in 1 .. n : Len(enc[i]) = len
      BY <1>2
    <3>2. Delimited(head \o flat) = Ok(Len(head), Len(head \o flat))
      BY <2>6
    <3>3. DecodePackedFixed(head \o flat, len) = Ok(enc, Len(head \o flat))
      BY <2>2, <2>3, <2>6, <3>1, <3>2, FixedReread, ZenonT(30)
    <3> QED BY <2>6, <3>3
  <2>8. Fixed(body).ok /\ Fixed(body).val = enc /\ Fixed(body).used = Len(body)
    BY <2>7 DEF Ok
  <2>9. Len(again) = PackedSize(1, [i \in DOMAIN enc |-> Len(enc[i])])
    BY ONLY <2>6
  <2> QED BY ONLY <2>8, <2>9 DEF Repacked, again, body
<1> QED BY <1>3, <1>4

(* Whatever packed field a buffer holds, however long the slice: its       *)
(* elements, written packed again, take the size computed for them and are *)
(* read back.                                                              *)
THEOREM PackedReadsBack == Spec => []PackedRoundTrip
<1>1. Buffer => PackedRoundTrip
  <2> SUFFICES ASSUME buf \in Seq(Byte), Len(buf) < Pow2[Width - 1] PROVE PackedRoundTrip
    BY DEF Buffer
  <2> DEFINE varints == DecodePackedVarints(buf)
             fixed == DecodePackedFixed(buf, Fixed32Len)
             Fixed(bytes) == DecodePackedFixed(bytes, Fixed32Len)
  <2>1. varints.ok => Repacked(varints.val,
                               [i \in DOMAIN varints.val |-> EncodeVarint[varints.val[i]]],
                               DecodePackedVarints)
    BY VarintsRepacked
  <2>2. fixed.ok => Repacked(fixed.val, fixed.val, Fixed)
    <3>1. Fixed32Len \in Nat \ {0}
      BY WidthsAssumption
    <3> QED BY <3>1, FixedRepacked
  <2> QED BY <2>1, <2>2 DEF PackedRoundTrip
<1> QED BY <1>1, BufferInvariant, PTL
=============================================================================
