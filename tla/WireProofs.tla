----------------------------- MODULE WireProofs -----------------------------
(***************************************************************************)
(* What varints, tags and zigzag guarantee at any widths, and for buffers  *)
(* of any bytes.                                                           *)
(***************************************************************************)
EXTENDS WireReader, SequenceTheorems, FiniteSetTheorems, WellFoundedInduction, TLAPS

(* Nonempty sets of naturals have a least element. *)
LEMMA LeastNatural ==
  ASSUME NEW T, T \subseteq Nat, T # {}
  PROVE  \E x \in T : \A y \in T : x <= y
<1>1. PICK x \in T : \A y \in T : ~(<<y, x>> \in OpToRel(<, Nat))
  BY NatLessThanWellFounded, WFMin
<1>2. \A y \in T : ~(y < x)
  BY <1>1 DEF OpToRel
<1> QED BY <1>2

(* Induction, for a set. *)
LEMMA SetInduction ==
  ASSUME NEW T, 0 \in T, \A n \in Nat : n \in T => n + 1 \in T
  PROVE  Nat \subseteq T
<1> SUFFICES ASSUME Nat \ T # {} PROVE FALSE
  OBVIOUS
<1>1. PICK x \in Nat \ T : \A y \in Nat \ T : x <= y
  BY LeastNatural
<1>2. x # 0 /\ x - 1 \in Nat
  BY <1>1
<1>3. x - 1 \in T
  BY <1>1, <1>2
<1>4. (x - 1) + 1 \in T
  BY <1>2, <1>3
<1> QED BY <1>1, <1>4

LEMMA StrongInduction ==
  ASSUME NEW T, \A n \in Nat : (\A m \in 0 .. n - 1 : m \in T) => n \in T
  PROVE  Nat \subseteq T
<1> SUFFICES ASSUME Nat \ T # {} PROVE FALSE
  OBVIOUS
<1>1. PICK x \in Nat \ T : \A y \in Nat \ T : x <= y
  BY LeastNatural
<1>2. \A m \in 0 .. x - 1 : m \in T
  BY <1>1
<1> QED BY <1>1, <1>2

LEMMA FunctionIsSeq ==
  ASSUME NEW S, NEW n \in Nat, NEW g \in [1..n -> S]
  PROVE  g \in Seq(S) /\ Len(g) = n
OBVIOUS

-----------------------------------------------------------------------------
(* Recursion.  A function is defined by recursion when every argument is   *)
(* either in B or goes over to one of smaller measure.                     *)
Recursive(f, D, S, B, pred, base, step) ==
    /\ f \in [D -> S]
    /\ \A x \in D : f[x] = IF x \in B THEN base[x] ELSE step[x][f[pred[x]]]

(* The part of the function on arguments of a measure below n. *)
Attempts(n, D, S, B, m, pred, base, step) ==
    {f \in [{x \in D : m[x] < n} -> S] :
        \A x \in D : m[x] < n =>
            f[x] = IF x \in B THEN base[x] ELSE step[x][f[pred[x]]]}

LEMMA RecursionExists ==
  ASSUME NEW D, NEW S, NEW B, NEW m \in [D -> Nat], NEW pred, NEW base, NEW step,
         \A x \in D : x \in B => base[x] \in S,
         \A x \in D : x \notin B => pred[x] \in D /\ m[pred[x]] < m[x],
         \A x \in D : x \notin B => \A s \in S : step[x][s] \in S
  PROVE  \E f : Recursive(f, D, S, B, pred, base, step)
<1> DEFINE Below(n) == {x \in D : m[x] < n}
           A(n) == Attempts(n, D, S, B, m, pred, base, step)
           T == {n \in Nat : A(n) # {}}
<1>1. 0 \in T
  <2>1. Below(0) = {}
    OBVIOUS
  <2>2. [x \in Below(0) |-> base[x]] \in A(0)
    BY <2>1 DEF Attempts
  <2> QED BY <2>2
<1>2. ASSUME NEW n \in Nat, n \in T PROVE n + 1 \in T
  <2>1. PICK g : g \in A(n)
    BY <1>2
  <2>2. /\ g \in [Below(n) -> S]
        /\ \A x \in Below(n) : g[x] = IF x \in B THEN base[x] ELSE step[x][g[pred[x]]]
    BY <2>1 DEF Attempts
  <2> DEFINE f == [x \in Below(n + 1) |-> IF x \in B THEN base[x] ELSE step[x][g[pred[x]]]]
  <2>3. \A x \in Below(n + 1) : x \notin B => pred[x] \in Below(n)
    OBVIOUS
  <2>4. f \in [Below(n + 1) -> S]
    BY <2>2, <2>3
  <2>5. \A x \in Below(n) : f[x] = g[x]
    BY <2>2
  <2>6. \A x \in Below(n + 1) : f[x] = IF x \in B THEN base[x] ELSE step[x][f[pred[x]]]
    BY <2>3, <2>5
  <2> HIDE DEF f
  <2>7. f \in A(n + 1)
    BY <2>4, <2>6 DEF Attempts
  <2> QED BY <2>7
<1>3. \A n \in Nat : A(n) # {}
  <2> HIDE DEF T
  <2>1. Nat \subseteq T
    BY <1>1, <1>2, SetInduction
  <2> QED BY <2>1 DEF T
<1>4. ASSUME NEW i \in Nat, NEW j \in Nat, NEW f \in A(i), NEW g \in A(j)
      PROVE  \A x \in D : m[x] < i /\ m[x] < j => f[x] = g[x]
  <2> DEFINE U == {m[x] : x \in {y \in D : m[y] < i /\ m[y] < j /\ f[y] # g[y]}}
  <2> SUFFICES ASSUME U # {} PROVE FALSE
    OBVIOUS
  <2>0. U \subseteq Nat
    OBVIOUS
  <2>1. PICK k \in U : \A l \in U : k <= l
    BY <2>0, LeastNatural
  <2>2. PICK x \in D : m[x] = k /\ m[x] < i /\ m[x] < j /\ f[x] # g[x]
    BY <2>1
  <2>3. /\ f[x] = IF x \in B THEN base[x] ELSE step[x][f[pred[x]]]
        /\ g[x] = IF x \in B THEN base[x] ELSE step[x][g[pred[x]]]
    BY <2>2 DEF Attempts
  <2>4. x \notin B
    BY <2>2, <2>3
  <2>5. pred[x] \in D /\ m[pred[x]] < k /\ m[pred[x]] \in Nat
    BY <2>2, <2>4
  <2>6. f[pred[x]] = g[pred[x]]
    <3> SUFFICES ASSUME f[pred[x]] # g[pred[x]] PROVE FALSE
      OBVIOUS
    <3>1. k < i /\ k < j /\ k \in Nat
      BY <2>2
    <3>2. m[pred[x]] < i /\ m[pred[x]] < j
      BY <2>5, <3>1
    <3>3. m[pred[x]] \in U
      BY <2>5, <3>2
    <3>4. k <= m[pred[x]]
      BY <2>1, <3>3
    <3> QED BY <2>5, <3>1, <3>4
  <2> QED BY <2>2, <2>3, <2>4, <2>6
<1> DEFINE P(x) == CHOOSE f : f \in A(m[x] + 1)
           F == [x \in D |-> P(x)[x]]
<1>5. \A x \in D : P(x) \in A(m[x] + 1)
  BY <1>3
<1> HIDE DEF P
<1>6. ASSUME NEW x \in D
      PROVE  /\ P(x)[x] \in S
             /\ P(x)[x] = IF x \in B THEN base[x] ELSE step[x][P(x)[pred[x]]]
  <2>1. m[x] < m[x] + 1
    OBVIOUS
  <2>2. P(x) \in A(m[x] + 1)
    BY <1>5
  <2>3. /\ P(x) \in [Below(m[x] + 1) -> S]
        /\ \A y \in D : m[y] < m[x] + 1 =>
              P(x)[y] = IF y \in B THEN base[y] ELSE step[y][P(x)[pred[y]]]
    BY <2>2 DEF Attempts
  <2> QED BY <2>1, <2>3
<1>7. ASSUME NEW x \in D
      PROVE  F[x] = IF x \in B THEN base[x] ELSE step[x][F[pred[x]]]
  <2>1. P(x)[x] = IF x \in B THEN base[x] ELSE step[x][P(x)[pred[x]]]
    BY <1>6
  <2>2. CASE x \in B
    BY <2>1, <2>2
  <2>3. CASE x \notin B
    <3>1. pred[x] \in D /\ m[pred[x]] < m[x] /\ m[pred[x]] \in Nat /\ m[x] \in Nat
      BY <2>3
    <3>2. P(x) \in A(m[x] + 1) /\ P(pred[x]) \in A(m[pred[x]] + 1)
      BY <1>5, <3>1
    <3>3. P(x)[pred[x]] = P(pred[x])[pred[x]]
      <4> HIDE DEF A
      <4> QED BY <3>1, <3>2, <1>4
    <3> QED BY <2>1, <2>3, <3>1, <3>3
  <2> QED BY <2>2, <2>3
<1>8. F \in [D -> S]
  BY <1>6
<1> HIDE DEF F
<1> QED BY <1>7, <1>8 DEF Recursive
-----------------------------------------------------------------------------
(* Powers of two. *)
LEMMA Pow2Recursion ==
  Pow2 = [n \in Nat |-> IF n = 0 THEN 1 ELSE 2 * Pow2[n - 1]]
<1> DEFINE m == [n \in Nat |-> n]
           pred == [n \in Nat |-> n - 1]
           base == [n \in Nat |-> 1]
           step == [n \in Nat |-> [s \in Nat |-> 2 * s]]
<1>1. \E f : Recursive(f, Nat, Nat, {0}, pred, base, step)
  <2>1. /\ m \in [Nat -> Nat]
        /\ \A x \in Nat : x \in {0} => base[x] \in Nat
        /\ \A x \in Nat : x \notin {0} => pred[x] \in Nat /\ m[pred[x]] < m[x]
        /\ \A x \in Nat : x \notin {0} => \A s \in Nat : step[x][s] \in Nat
    OBVIOUS
  <2> HIDE DEF m, pred, base, step
  <2> QED BY <2>1, RecursionExists
<1>2. PICK f : Recursive(f, Nat, Nat, {0}, pred, base, step)
  BY <1>1
<1>3. f = [n \in Nat |-> IF n = 0 THEN 1 ELSE 2 * f[n - 1]]
  <2>1. f \in [Nat -> Nat]
    BY <1>2 DEF Recursive
  <2>2. ASSUME NEW n \in Nat PROVE f[n] = IF n = 0 THEN 1 ELSE 2 * f[n - 1]
    <3>1. f[n] = IF n \in {0} THEN base[n] ELSE step[n][f[pred[n]]]
      BY <1>2 DEF Recursive
    <3>2. n # 0 => n - 1 \in Nat /\ f[n - 1] \in Nat
      BY <2>1
    <3> QED BY <3>1, <3>2
  <2> QED BY <2>1, <2>2
<1> QED BY <1>3 DEF Pow2

LEMMA Pow2AtLeast == \A n \in Nat : Pow2[n] \in Nat /\ Pow2[n] >= 1
<1> DEFINE T == {n \in Nat : Pow2[n] \in Nat /\ Pow2[n] >= 1}
<1>1. 0 \in T
  BY Pow2Recursion
<1>2. ASSUME NEW n \in Nat, n \in T PROVE n + 1 \in T
  BY <1>2, Pow2Recursion
<1> HIDE DEF T
<1>3. Nat \subseteq T
  BY <1>1, <1>2, SetInduction
<1> QED BY <1>3 DEF T

LEMMA Pow2Type == \A n \in Nat : Pow2[n] \in Nat /\ Pow2[n] >= 1 /\ Pow2[n] \in Nat \ {0}
BY Pow2AtLeast

LEMMA Pow2Values ==
  /\ Pow2[0] = 1
  /\ \A n \in Nat : Pow2[n + 1] = 2 * Pow2[n]
BY Pow2Recursion

LEMMA MulAssoc == \A a, b, c \in Nat : a * (b * c) = (a * b) * c
OBVIOUS

LEMMA Pow2Add == \A a, b \in Nat : Pow2[a + b] = Pow2[a] * Pow2[b]
<1> SUFFICES ASSUME NEW a \in Nat PROVE \A b \in Nat : Pow2[a + b] = Pow2[a] * Pow2[b]
  OBVIOUS
<1> DEFINE T == {b \in Nat : Pow2[a + b] = Pow2[a] * Pow2[b]}
<1>1. 0 \in T
  BY Pow2Values, Pow2Type
<1>2. ASSUME NEW b \in Nat, b \in T PROVE b + 1 \in T
  <2>1. Pow2[a + (b + 1)] = 2 * Pow2[a + b]
    <3>1. a + (b + 1) = (a + b) + 1 /\ a + b \in Nat
      OBVIOUS
    <3> QED BY <3>1, Pow2Values
  <2>2. Pow2[b + 1] = 2 * Pow2[b]
    BY Pow2Values
  <2>3. Pow2[a + b] = Pow2[a] * Pow2[b]
    BY <1>2
  <2>4. 2 * (Pow2[a] * Pow2[b]) = Pow2[a] * (2 * Pow2[b])
    BY Pow2Type
  <2> QED BY <2>1, <2>2, <2>3, <2>4
<1> HIDE DEF T
<1>3. Nat \subseteq T
  BY <1>1, <1>2, SetInduction
<1> QED BY <1>3 DEF T

LEMMA Distributive ==
  \A a, x, y \in Nat : a * (x + y) = a * x + a * y /\ a * x \in Nat
OBVIOUS

LEMMA MulMonotonic == \A a, b, c \in Nat : a <= b => a * c <= b * c
OBVIOUS

LEMMA Pow2Monotonic ==
  ASSUME NEW a \in Nat, NEW b \in Nat, a <= b
  PROVE  Pow2[a] <= Pow2[b]
<1>1. b - a \in Nat /\ b = (b - a) + a
  OBVIOUS
<1>2. Pow2[b] = Pow2[b - a] * Pow2[a]
  BY <1>1, Pow2Add
<1>3. 1 * Pow2[a] <= Pow2[b - a] * Pow2[a]
  BY <1>1, Pow2Type, MulMonotonic
<1> QED BY <1>2, <1>3, Pow2Type

(* The exponent is below the power. *)
LEMMA Pow2Above == \A n \in Nat : n + 1 <= Pow2[n]
<1> DEFINE T == {n \in Nat : n + 1 <= Pow2[n]}
<1>1. 0 \in T
  BY Pow2Values
<1>2. ASSUME NEW n \in Nat, n \in T PROVE n + 1 \in T
  BY <1>2, Pow2Values, Pow2Type
<1> HIDE DEF T
<1>3. Nat \subseteq T
  BY <1>1, <1>2, SetInduction
<1> QED BY <1>3 DEF T

-----------------------------------------------------------------------------
(* Division. *)
LEMMA DivMod ==
  ASSUME NEW a \in Nat, NEW d \in Nat \ {0}
  PROVE  /\ a \div d \in Nat
         /\ a % d \in Nat /\ a % d < d
         /\ a = d * (a \div d) + (a % d)
<1>1. a % d \in Nat /\ a % d < d
  OBVIOUS
<1>2. a \div d \in Nat
  OBVIOUS
<1>3. a % d = a - d * (a \div d)
  OBVIOUS
<1> QED BY <1>1, <1>2, <1>3

LEMMA DivUnique ==
  ASSUME NEW a \in Nat, NEW d \in Nat \ {0}, NEW q \in Nat, NEW r \in Nat,
         r < d, a = d * q + r
  PROVE  a \div d = q /\ a % d = r
<1>1. a \div d = q
  OBVIOUS
<1>2. a = d * (a \div d) + (a % d) /\ a % d \in Nat
  BY DivMod
<1> QED BY <1>1, <1>2

LEMMA DivDiv ==
  ASSUME NEW a \in Nat, NEW b \in Nat \ {0}, NEW c \in Nat \ {0}
  PROVE  (a \div b) \div c = a \div (b * c)
<1> DEFINE q == a \div b
           s == a % b
           p == q \div c
           t == q % c
<1>1. q \in Nat /\ s \in Nat /\ s < b /\ a = b * q + s
  BY DivMod
<1>2. p \in Nat /\ t \in Nat /\ t < c /\ q = c * p + t
  BY <1>1, DivMod
<1>3. b * c \in Nat \ {0}
  OBVIOUS
<1> HIDE DEF q, s, p, t
<1> DEFINE r == b * t + s
<1>4. r \in Nat /\ a = (b * c) * p + r
  <2>1. b * q = b * (c * p) + b * t /\ b * (c * p) \in Nat /\ b * t \in Nat
    <3>1. c * p \in Nat
      BY <1>2
    <3> QED BY <1>2, <3>1, Distributive
  <2>2. b * (c * p) = (b * c) * p
    BY <1>2, MulAssoc
  <2> QED BY <1>1, <2>1, <2>2
<1>5. r < b * c
  <2>1. (t + 1) * b <= c * b
    <3>1. t + 1 <= c /\ t + 1 \in Nat
      BY <1>2
    <3> QED BY <3>1, MulMonotonic
  <2>2. (t + 1) * b = b * t + b /\ c * b = b * c
    BY <1>2
  <2> QED BY <2>1, <2>2, <1>1, <1>2
<1> HIDE DEF r
<1>6. a \div (b * c) = p
  BY <1>2, <1>3, <1>4, <1>5, DivUnique
<1> QED BY <1>6 DEF p, q
-----------------------------------------------------------------------------
(* The widths. *)
LEMMA Widths ==
  /\ GroupBits \in Nat /\ GroupBits >= 1
  /\ NumberWidth \in Nat /\ NumberWidth >= 3
  /\ Width \in Nat /\ Width >= 4 /\ NumberWidth < Width
  /\ Cont \in Nat /\ Cont \in Nat \ {0} /\ Cont >= 2 /\ Cont = Pow2[GroupBits]
  /\ Byte = 0 .. 2 * Cont - 1
<1>1. GroupBits \in Nat /\ GroupBits >= 1 /\ Pow2[GroupBits] \in Nat
  BY WidthsAssumption, Pow2Type
<1>2. GroupBits + 1 <= Pow2[GroupBits]
  BY <1>1, Pow2Above
<1> QED BY <1>1, <1>2, WidthsAssumption, Pow2Values DEF Cont, Byte

(* q and r are what a varint keeps of a after a byte, and in that byte. *)
Split(a, q, r) ==
    /\ q \in Nat /\ r \in Nat /\ r < Cont
    /\ a = Cont * q + r
    /\ a >= Cont => 0 < q /\ q < a

LEMMA ByCont == \A a \in Nat : Split(a, a \div Cont, a % Cont)
<1> SUFFICES ASSUME NEW a \in Nat PROVE Split(a, a \div Cont, a % Cont)
  OBVIOUS
<1> DEFINE q == a \div Cont
           r == a % Cont
<1>1. Cont \in Nat \ {0} /\ Cont >= 2
  BY Widths
<1>2. q \in Nat /\ r \in Nat /\ r < Cont /\ a = Cont * q + r
  BY <1>1, DivMod
<1> HIDE DEF q, r
<1>3. ASSUME a >= Cont PROVE 0 < q /\ q < a
  <2>1. q # 0
    <3> SUFFICES ASSUME q = 0 PROVE FALSE
      OBVIOUS
    <3>1. Cont * q = 0
      BY <1>1
    <3> QED BY <1>1, <1>2, <1>3, <3>1
  <2>2. 2 * q <= Cont * q
    BY <1>1, <1>2, MulMonotonic
  <2> QED BY <1>1, <1>2, <2>1, <2>2
<1>4. Split(a, q, r)
  BY <1>2, <1>3 DEF Split
<1> QED BY <1>4 DEF q, r

(* The bits before the i-th byte of a varint. *)
LEMMA Shifts ==
  /\ GroupBits * 0 = 0
  /\ \A i \in Nat : GroupBits * i \in Nat /\ GroupBits * (i + 1) = GroupBits * i + GroupBits
  /\ \A i, j \in Nat : i <= j => GroupBits * i <= GroupBits * j
BY Widths

LEMMA Powers ==
  \A i \in Nat : /\ Pow2[GroupBits * i] \in Nat
                /\ Pow2[GroupBits * i] \in Nat \ {0}
                /\ Pow2[GroupBits * i] >= 1
                /\ Pow2[GroupBits * (i + 1)] = Cont * Pow2[GroupBits * i]
<1> SUFFICES ASSUME NEW i \in Nat
             PROVE  /\ Pow2[GroupBits * i] \in Nat
                    /\ Pow2[GroupBits * i] \in Nat \ {0}
                /\ Pow2[GroupBits * i] >= 1
                    /\ Pow2[GroupBits * (i + 1)] = Cont * Pow2[GroupBits * i]
  OBVIOUS
<1> DEFINE s == GroupBits * i
<1>1. s \in Nat /\ GroupBits * (i + 1) = GroupBits + s
  BY Shifts, Widths
<1> HIDE DEF s
<1>2. Pow2[GroupBits + s] = Cont * Pow2[s]
  BY <1>1, Widths, Pow2Add
<1>3. Pow2[s] \in Nat /\ Pow2[s] \in Nat \ {0} /\ Pow2[s] >= 1
  BY <1>1, Pow2Type
<1> QED BY <1>1, <1>2, <1>3 DEF s

(* As many bytes as a value of full width needs, and not one more. *)
LEMMA VarintMaxBytes ==
  /\ VarintMax \in Nat /\ VarintMax >= 1
  /\ GroupBits * (VarintMax - 1) < Width
  /\ Width <= GroupBits * VarintMax
<1> DEFINE a == Width + GroupBits - 1
           r == a % GroupBits
<1>1. a \in Nat /\ a >= GroupBits /\ GroupBits \in Nat \ {0}
  BY Widths
<1>2. /\ VarintMax \in Nat
      /\ r \in Nat /\ r < GroupBits
      /\ a = GroupBits * VarintMax + r
  <2> HIDE DEF a
  <2>1. VarintMax = a \div GroupBits
    BY DEF VarintMax, a
  <2> QED BY <1>1, <2>1, DivMod
<1> HIDE DEF r
<1>3. VarintMax >= 1
  <2> SUFFICES ASSUME VarintMax = 0 PROVE FALSE
    BY <1>2
  <2>1. a = r
    BY <1>2, Shifts
  <2> QED BY <2>1, <1>1, <1>2
<1>4. VarintMax - 1 \in Nat /\ VarintMax = (VarintMax - 1) + 1
  BY <1>2, <1>3
<1>5. GroupBits * VarintMax = GroupBits * (VarintMax - 1) + GroupBits
  BY <1>4, Shifts
<1>6. GroupBits * VarintMax \in Nat /\ GroupBits * (VarintMax - 1) \in Nat
  BY <1>2, <1>4, Shifts
<1> QED BY <1>2, <1>3, <1>5, <1>6, Widths DEF a

-----------------------------------------------------------------------------
(* Sums. *)
LEMMA TotalRecursion ==
  ASSUME NEW n \in Nat, NEW s \in [1 .. n -> Nat]
  PROVE  \E f \in [0 .. n -> Nat] :
            /\ f[0] = 0
            /\ \A i \in 1 .. n : f[i] = f[i - 1] + s[i]
            /\ Total(s) = f[n]
<1> DEFINE D == 0 .. n
           m == [i \in D |-> i]
           pred == [i \in D |-> i - 1]
           base == [i \in D |-> 0]
           step == [i \in D |-> [t \in Nat |-> t + s[i]]]
           G(f) == [i \in D |-> IF i = 0 THEN 0 ELSE f[i - 1] + s[i]]
<1>1. \E f : Recursive(f, D, Nat, {0}, pred, base, step)
  <2>1. /\ m \in [D -> Nat]
        /\ \A x \in D : x \in {0} => base[x] \in Nat
        /\ \A x \in D : x \notin {0} => pred[x] \in D /\ m[pred[x]] < m[x]
        /\ \A x \in D : x \notin {0} => \A t \in Nat : step[x][t] \in Nat
    OBVIOUS
  <2> HIDE DEF D, m, pred, base, step
  <2> QED BY <2>1, RecursionExists
<1>2. PICK f : Recursive(f, D, Nat, {0}, pred, base, step)
  BY <1>1
<1>3. f = G(f)
  <2>1. f \in [D -> Nat]
    BY <1>2 DEF Recursive
  <2>2. ASSUME NEW i \in D PROVE f[i] = IF i = 0 THEN 0 ELSE f[i - 1] + s[i]
    <3>1. f[i] = IF i \in {0} THEN base[i] ELSE step[i][f[pred[i]]]
      BY <1>2 DEF Recursive
    <3>2. i # 0 => i - 1 \in D /\ f[i - 1] \in Nat
      BY <2>1
    <3> QED BY <3>1, <3>2
  <2> QED BY <2>1, <2>2
<1> DEFINE Sum == CHOOSE g : g = G(g)
<1>4. Sum = G(Sum)
  BY <1>3
<1>5. Len(s) = n
  OBVIOUS
<1>6. Total(s) = Sum[n]
  BY <1>5 DEF Total
<1> HIDE DEF Sum
<1>7. Sum[0] = 0 /\ \A i \in 1 .. n : Sum[i] = Sum[i - 1] + s[i]
  BY <1>4
<1>8. Sum \in [0 .. n -> Nat]
  <2> DEFINE T == {i \in Nat : i <= n => Sum[i] \in Nat}
  <2>1. 0 \in T
    BY <1>7
  <2>2. ASSUME NEW i \in Nat, i \in T PROVE i + 1 \in T
    <3> SUFFICES ASSUME i + 1 <= n PROVE Sum[i + 1] \in Nat
      OBVIOUS
    <3>1. Sum[i + 1] = Sum[i] + s[i + 1]
      BY <1>7
    <3> QED BY <2>2, <3>1
  <2> HIDE DEF T
  <2>3. Nat \subseteq T
    BY <2>1, <2>2, SetInduction
  <2>4. \A i \in 0 .. n : Sum[i] \in Nat
    BY <2>3 DEF T
  <2> QED BY <1>4, <2>4
<1> QED BY <1>6, <1>7, <1>8
-----------------------------------------------------------------------------
(* Encoding. *)
LEMMA EncodeRecursion ==
  EncodeVarint = [value \in Nat |->
      IF value < Cont THEN <<value>>
      ELSE <<(value % Cont) + Cont>> \o EncodeVarint[value \div Cont]]
<1> DEFINE B == {v \in Nat : v < Cont}
           m == [v \in Nat |-> v]
           pred == [v \in Nat |-> v \div Cont]
           base == [v \in Nat |-> <<v>>]
           step == [v \in Nat |-> [t \in Seq(Nat) |-> <<(v % Cont) + Cont>> \o t]]
<1>1. \E f : Recursive(f, Nat, Seq(Nat), B, pred, base, step)
  <2>1. m \in [Nat -> Nat] /\ \A x \in Nat : x \in B => base[x] \in Seq(Nat)
    OBVIOUS
  <2>2. ASSUME NEW x \in Nat, x \notin B PROVE pred[x] \in Nat /\ m[pred[x]] < m[x]
    <3> DEFINE q == x \div Cont
    <3>1. Split(x, q, x % Cont)
      BY ByCont
    <3>2. x >= Cont
      BY <2>2, Widths
    <3> HIDE DEF q
    <3>3. q \in Nat /\ q < x
      BY <3>1, <3>2 DEF Split
    <3> QED BY <3>3 DEF q
  <2>3. ASSUME NEW x \in Nat, NEW t \in Seq(Nat) PROVE step[x][t] \in Seq(Nat)
    <3> DEFINE r == x % Cont
    <3>1. r + Cont \in Nat
      <4>1. Split(x, x \div Cont, r)
        BY ByCont
      <4> HIDE DEF r
      <4>2. r \in Nat /\ Cont \in Nat
        BY <4>1, Widths DEF Split
      <4> QED BY ONLY <4>2
    <3>2. <<r + Cont>> \o t \in Seq(Nat)
      <4> HIDE DEF r
      <4>1. <<r + Cont>> \in Seq(Nat)
        BY <3>1
      <4> QED BY <4>1, ConcatProperties
    <3> QED BY <3>2
  <2> HIDE DEF B, m, pred, base, step
  <2> QED BY <2>1, <2>2, <2>3, RecursionExists
<1>2. PICK f : Recursive(f, Nat, Seq(Nat), B, pred, base, step)
  BY <1>1
<1>3. f = [v \in Nat |-> IF v < Cont THEN <<v>> ELSE <<(v % Cont) + Cont>> \o f[v \div Cont]]
  <2>1. f \in [Nat -> Seq(Nat)]
    BY <1>2 DEF Recursive
  <2>2. ASSUME NEW v \in Nat
        PROVE  f[v] = IF v < Cont THEN <<v>> ELSE <<(v % Cont) + Cont>> \o f[v \div Cont]
    <3>1. f[v] = IF v \in B THEN base[v] ELSE step[v][f[pred[v]]]
      BY <1>2 DEF Recursive
    <3>2. v \div Cont \in Nat /\ f[v \div Cont] \in Seq(Nat)
      <4>1. Split(v, v \div Cont, v % Cont)
        BY ByCont
      <4> QED BY <2>1, <4>1 DEF Split
    <3> QED BY <3>1, <3>2
  <2> QED BY <2>1, <2>2
<1> QED BY <1>3 DEF EncodeVarint

(* What a varint of L bytes e says of its value: the bytes are its groups  *)
(* of bits, all but the last with the continuation bit, and the last group *)
(* is not empty unless it is the only one.                                 *)
Encodes(e, v, L) ==
    /\ L \in Nat /\ L >= 1
    /\ e \in [1 .. L -> Byte]
    /\ \A i \in 1 .. L :
          e[i] = ((v \div Pow2[GroupBits * (i - 1)]) % Cont) + IF i < L THEN Cont ELSE 0
    /\ v < Pow2[GroupBits * L]
    /\ L > 1 => Pow2[GroupBits * (L - 1)] <= v

LEMMA EncodesShort ==
  ASSUME NEW v \in Nat, v < Cont
  PROVE  Encodes(<<v>>, v, 1)
<1>1. Pow2[GroupBits * 0] = 1 /\ Pow2[GroupBits * 1] = Cont
  BY Widths, Pow2Values
<1>2. v \div 1 = v /\ v % Cont = v
  <2>1. v = 1 * v + 0 /\ v = Cont * 0 + v /\ Cont \in Nat \ {0}
    BY Widths
  <2> QED BY <2>1, DivUnique
<1>3. v \in Byte
  BY Widths
<1>4. <<v>> \in [1 .. 1 -> Byte]
  BY <1>3
<1> QED BY <1>1, <1>2, <1>4 DEF Encodes

LEMMA EncodesLong ==
  ASSUME NEW v \in Nat, v >= Cont, NEW e, NEW L, Encodes(e, v \div Cont, L)
  PROVE  Encodes(<<(v % Cont) + Cont>> \o e, v, L + 1)
<1> DEFINE q == v \div Cont
           r == v % Cont
           f == <<r + Cont>> \o e
<1>0. Split(v, q, r)
  BY ByCont
<1>1. q \in Nat /\ r \in Nat /\ r < Cont /\ v = Cont * q + r /\ Cont \in Nat \ {0}
  <2> HIDE DEF q, r
  <2> QED BY <1>0, Widths DEF Split
<1>2. /\ L \in Nat /\ L >= 1
      /\ e \in [1 .. L -> Byte]
      /\ \A i \in 1 .. L :
            e[i] = ((q \div Pow2[GroupBits * (i - 1)]) % Cont) + IF i < L THEN Cont ELSE 0
      /\ q < Pow2[GroupBits * L]
      /\ L > 1 => Pow2[GroupBits * (L - 1)] <= q
  BY DEF Encodes
<1>3. \A i \in Nat : q \div Pow2[GroupBits * i] = v \div Pow2[GroupBits * (i + 1)]
  <2> SUFFICES ASSUME NEW i \in Nat
               PROVE  q \div Pow2[GroupBits * i] = v \div Pow2[GroupBits * (i + 1)]
    OBVIOUS
  <2>1. Pow2[GroupBits * i] \in Nat \ {0} /\ Pow2[GroupBits * (i + 1)] = Cont * Pow2[GroupBits * i]
    BY Powers
  <2> DEFINE a == Pow2[GroupBits * i]
             d == Pow2[GroupBits * (i + 1)]
  <2>2. v \in Nat /\ Cont \in Nat \ {0} /\ a \in Nat \ {0} /\ d = Cont * a
    BY <1>1, <2>1
  <2> HIDE DEF a, d
  <2>3. (v \div Cont) \div a = v \div d
    BY ONLY <2>2, DivDiv
  <2> QED BY <2>3 DEF q, a, d
<1>4. q >= 1
  <2> HIDE DEF q, r
  <2> QED BY <1>0 DEF Split
<1>5. f \in [1 .. L + 1 -> Byte] /\ f[1] = r + Cont /\ \A i \in 2 .. L + 1 : f[i] = e[i - 1]
  <2> HIDE DEF q, r
  <2>1. r + Cont \in Byte
    <3>1. r \in Nat /\ r < Cont /\ Cont \in Nat /\ Byte = 0 .. 2 * Cont - 1
      BY <1>1, Widths
    <3> QED BY ONLY <3>1
  <2>2. e \in Seq(Byte) /\ Len(e) = L
    BY <1>2, FunctionIsSeq
  <2>3. <<r + Cont>> \in Seq(Byte) /\ Len(<<r + Cont>>) = 1
    BY <2>1
  <2>4. /\ f \in Seq(Byte)
        /\ Len(f) = 1 + L
        /\ f[1] = r + Cont
        /\ \A i \in 2 .. L + 1 : f[i] = e[i - 1]
    BY <1>2, <2>2, <2>3, ConcatProperties
  <2> HIDE DEF f
  <2>5. f \in [1 .. Len(f) -> Byte]
    BY <2>4, LenProperties
  <2> QED BY <1>2, <2>4, <2>5
<1>6. v \div Pow2[GroupBits * 0] = v
  <2>1. Pow2[GroupBits * 0] = 1
    BY Shifts, Pow2Values
  <2>2. v = 1 * v + 0
    OBVIOUS
  <2> QED BY <2>1, <2>2, DivUnique
<1>7. ASSUME NEW i \in 1 .. L + 1
      PROVE  f[i] = ((v \div Pow2[GroupBits * (i - 1)]) % Cont) + IF i < L + 1 THEN Cont ELSE 0
  <2>1. CASE i = 1
    BY <1>2, <1>5, <1>6, <2>1
  <2>2. CASE i # 1
    <3>1. i - 1 \in 1 .. L /\ (i - 1) - 1 \in Nat /\ ((i - 1) - 1) + 1 = i - 1
      BY <1>2, <2>2
    <3>2. q \div Pow2[GroupBits * ((i - 1) - 1)] = v \div Pow2[GroupBits * (i - 1)]
      BY <1>3, <3>1
    <3>3. f[i] = e[i - 1]
      <4> HIDE DEF f
      <4>1. i \in 2 .. L + 1
        BY <1>2, <2>2
      <4> QED BY <1>5, <4>1
    <3>4. i - 1 < L <=> i < L + 1
      BY <1>2
    <3> HIDE DEF q, f
    <3> QED BY <1>2, <3>1, <3>2, <3>3, <3>4
  <2> QED BY <2>1, <2>2
<1> HIDE DEF q, r, f
<1>8. v < Pow2[GroupBits * (L + 1)]
  <2> DEFINE p == Pow2[GroupBits * L]
  <2>1. p \in Nat /\ Pow2[GroupBits * (L + 1)] = Cont * p
    BY <1>2, Powers
  <2>2. q + 1 <= p
    BY <1>1, <1>2, <2>1
  <2> HIDE DEF p
  <2>3. (q + 1) * Cont <= p * Cont
    BY <1>1, <2>1, <2>2, MulMonotonic
  <2>4. (q + 1) * Cont = Cont * q + Cont /\ p * Cont = Cont * p
    BY <1>1, <2>1
  <2> QED BY <1>1, <2>1, <2>3, <2>4
<1>9. Pow2[GroupBits * L] <= v
  <2> DEFINE p == Pow2[GroupBits * (L - 1)]
  <2>1. p \in Nat /\ Pow2[GroupBits * L] = Cont * p
    <3>1. L - 1 \in Nat /\ (L - 1) + 1 = L
      BY <1>2
    <3> QED BY <3>1, Powers
  <2>2. p <= q
    <3>1. CASE L = 1
      BY <1>4, <3>1, Shifts, Pow2Values
    <3>2. CASE L # 1
      BY <1>2, <3>2
    <3> QED BY <3>1, <3>2
  <2> HIDE DEF p
  <2>3. p * Cont <= q * Cont /\ p * Cont = Cont * p /\ q * Cont = Cont * q
    BY <1>1, <2>1, <2>2, MulMonotonic
  <2> QED BY <1>1, <2>1, <2>3
<1>10. Encodes(f, v, L + 1)
  <2>1. (L + 1) - 1 = L /\ L + 1 \in Nat /\ L + 1 >= 1
    BY <1>2
  <2> QED BY <1>5, <1>7, <1>8, <1>9, <2>1 DEF Encodes
<1> QED BY <1>10 DEF f, r

LEMMA EncodeShape ==
  ASSUME NEW v \in Nat
  PROVE  /\ EncodeVarint[v] \in Seq(Byte)
         /\ Encodes(EncodeVarint[v], v, Len(EncodeVarint[v]))
<1> DEFINE T == {w \in Nat : \E L \in Nat : Encodes(EncodeVarint[w], w, L)}
<1>1. ASSUME NEW n \in Nat, \A k \in 0 .. n - 1 : k \in T
      PROVE  n \in T
  <2>1. CASE n < Cont
    <3>1. EncodeVarint[n] = <<n>>
      BY <2>1, EncodeRecursion
    <3>2. Encodes(<<n>>, n, 1)
      BY <2>1, EncodesShort
    <3> QED BY <3>1, <3>2
  <2>2. CASE n >= Cont
    <3> DEFINE q == n \div Cont
    <3>1. Split(n, q, n % Cont)
      BY ByCont
    <3>2. q \in Nat /\ q < n
      <4> HIDE DEF q
      <4> QED BY <2>2, <3>1 DEF Split
    <3>3. q \in T
      <4> HIDE DEF q, T
      <4> QED BY <1>1, <3>2
    <3>4. PICK L \in Nat : Encodes(EncodeVarint[q], q, L)
      BY <3>3
    <3>5. EncodeVarint[n] = <<(n % Cont) + Cont>> \o EncodeVarint[q]
      <4>1. ~(n < Cont)
        BY <2>2, Widths
      <4> QED BY <4>1, EncodeRecursion
    <3>6. Encodes(EncodeVarint[n], n, L + 1)
      BY <2>2, <3>4, <3>5, EncodesLong
    <3> QED BY <3>6
  <2> QED BY <2>1, <2>2, Widths
<1> HIDE DEF T
<1>2. v \in T
  BY <1>1, StrongInduction
<1>3. PICK L \in Nat : Encodes(EncodeVarint[v], v, L)
  BY <1>2 DEF T
<1>4. EncodeVarint[v] \in Seq(Byte) /\ Len(EncodeVarint[v]) = L
  <2>1. EncodeVarint[v] \in [1 .. L -> Byte]
    BY <1>3 DEF Encodes
  <2> QED BY <2>1, FunctionIsSeq
<1> QED BY <1>3, <1>4
-----------------------------------------------------------------------------
(* varint_len counts the bits of a value: b of them when the value is      *)
(* below 2^b and not below 2^(b - 1).                                      *)
LEMMA BitCount ==
  ASSUME NEW v \in Nat, v >= 1, v < Pow2[Width]
  PROVE  \E b \in 1 .. Width : /\ v < Pow2[b]
                              /\ Pow2[b - 1] <= v
                              /\ Cardinality({k \in 0 .. Width - 1 : Pow2[k] <= v}) = b
<1> DEFINE U == {k \in Nat : v < Pow2[k]}
<1>1. Width \in U
  BY Widths
<1>2. PICK b \in U : \A k \in U : b <= k
  BY <1>1, LeastNatural
<1>3. b \in Nat /\ v < Pow2[b] /\ b <= Width
  BY <1>1, <1>2
<1>4. b # 0
  BY <1>3, Pow2Values
<1>5. b - 1 \in Nat /\ b - 1 \notin U
  BY <1>2, <1>3, <1>4
<1>6. Pow2[b - 1] <= v
  BY <1>5, Pow2Type
<1>7. {k \in 0 .. Width - 1 : Pow2[k] <= v} = 0 .. b - 1
  <2>1. ASSUME NEW k \in 0 .. Width - 1, Pow2[k] <= v PROVE k \in 0 .. b - 1
    <3> SUFFICES ASSUME b <= k PROVE FALSE
      BY <1>3
    <3>1. Pow2[b] <= Pow2[k]
      BY <1>3, Pow2Monotonic
    <3> QED BY <2>1, <3>1, <1>3, Pow2Type
  <2>2. ASSUME NEW k \in 0 .. b - 1 PROVE k \in 0 .. Width - 1 /\ Pow2[k] <= v
    <3>1. k \in Nat /\ k <= b - 1 /\ k \in 0 .. Width - 1
      BY <1>3, Widths
    <3>2. Pow2[k] <= Pow2[b - 1]
      BY <3>1, <1>5, Pow2Monotonic
    <3> QED BY <3>1, <3>2, <1>5, <1>6, Pow2Type
  <2> QED BY <2>1, <2>2
<1>8. Cardinality(0 .. b - 1) = b
  BY <1>3, <1>5, FS_Interval
<1>9. b \in 1 .. Width
  BY <1>3, <1>4
<1> QED BY <1>3, <1>6, <1>7, <1>8, <1>9

(* A value of L groups of bits, the last of them not empty. *)
LEMMA GroupCount ==
  ASSUME NEW v \in Nat, v >= 1, v < Pow2[Width],
         NEW L \in Nat, L >= 1,
         v < Pow2[GroupBits * L], Pow2[GroupBits * (L - 1)] <= v
  PROVE  VarintLen(v) = L
<1>1. PICK b \in 1 .. Width : /\ v < Pow2[b]
                               /\ Pow2[b - 1] <= v
                               /\ Cardinality({k \in 0 .. Width - 1 : Pow2[k] <= v}) = b
  BY BitCount
<1> DEFINE g == GroupBits * L
           h == GroupBits * (L - 1)
<1>2. L - 1 \in Nat /\ (L - 1) + 1 = L
  OBVIOUS
<1>3. g \in Nat /\ h \in Nat /\ g = h + GroupBits
  BY <1>2, Shifts
<1>4. Pow2[g] \in Nat /\ Pow2[h] \in Nat /\ v < Pow2[g] /\ Pow2[h] <= v
  BY <1>3, Pow2Type
<1> HIDE DEF g, h
<1>5. b \in Nat /\ b - 1 \in Nat /\ Pow2[b] \in Nat /\ Pow2[b - 1] \in Nat
  BY <1>1, Widths, Pow2Type
<1>6. h < b
  <2> SUFFICES ASSUME b <= h PROVE FALSE
    BY <1>3, <1>5
  <2>1. Pow2[b] <= Pow2[h]
    BY <1>3, <1>5, Pow2Monotonic
  <2> QED BY <2>1, <1>1, <1>4, <1>5
<1>7. b <= g
  <2> SUFFICES ASSUME g <= b - 1 PROVE FALSE
    BY <1>3, <1>5
  <2>1. Pow2[g] <= Pow2[b - 1]
    BY <1>3, <1>5, Pow2Monotonic
  <2> QED BY <2>1, <1>1, <1>4, <1>5
<1> DEFINE a == b + GroupBits - 1
           r == a - g
<1>8. a \in Nat /\ r \in Nat /\ r < GroupBits /\ a = g + r /\ GroupBits \in Nat \ {0}
  BY <1>3, <1>5, <1>6, <1>7, Widths
<1>9. a = GroupBits * L + r
  BY <1>8 DEF g
<1>10. VarintLen(v) = a \div GroupBits
  BY <1>1 DEF VarintLen
<1> HIDE DEF a, r
<1> QED BY <1>8, <1>9, <1>10, DivUnique

LEMMA VarintLenExact ==
  ASSUME NEW v \in 0 .. Pow2[Width] - 1
  PROVE  VarintLen(v) = Len(EncodeVarint[v])
<1>1. v \in Nat /\ v < Pow2[Width]
  BY Widths, Pow2Type
<1> DEFINE e == EncodeVarint[v]
           L == Len(e)
<1>2. Encodes(e, v, L)
  BY <1>1, EncodeShape
<1> HIDE DEF e, L
<1>3. L \in Nat /\ L >= 1 /\ v < Pow2[GroupBits * L] /\ (L > 1 => Pow2[GroupBits * (L - 1)] <= v)
  BY <1>2 DEF Encodes
<1>4. CASE v = 0
  <2>1. VarintLen(v) = 1
    BY <1>4 DEF VarintLen
  <2>2. ~(L > 1)
    <3> SUFFICES ASSUME L > 1 PROVE FALSE
      OBVIOUS
    <3>1. L - 1 \in Nat
      BY <1>3
    <3> QED BY <1>3, <1>4, <3>1, Powers
  <2>3. VarintLen(v) = L
    BY <1>3, <2>1, <2>2
  <2> QED BY <2>3 DEF e, L
<1>5. CASE v # 0
  <2>1. Pow2[GroupBits * (L - 1)] <= v
    <3>1. CASE L = 1
      <4>1. GroupBits * (L - 1) = 0
        BY <3>1, Shifts
      <4> QED BY <4>1, <1>1, <1>5, Pow2Values
    <3>2. CASE L # 1
      BY <1>3, <3>2
    <3> QED BY <3>1, <3>2
  <2>2. VarintLen(v) = L
    BY <1>1, <1>3, <1>5, <2>1, GroupCount
  <2> QED BY <2>2 DEF e, L
<1> QED BY <1>4, <1>5
-----------------------------------------------------------------------------
(* Decoding.  LastByte is the byte that ends a varint, and one past the    *)
(* buffer when none does; Gathered is the value of the first n bytes.      *)
LastByte(b) == Min({i \in DOMAIN b : b[i] < Cont} \cup {Len(b) + 1})
Gathered(b, n) == Total([i \in 1 .. n |-> Shifted(b[i], GroupBits * (i - 1))])

LEMMA DecodeCases ==
  ASSUME NEW b
  PROVE  DecodeVarint(b) =
            IF LastByte(b) > VarintMax /\ Len(b) > VarintMax
            THEN Fail("VarintTooLong")
            ELSE IF LastByte(b) > Len(b) THEN Fail("UnexpectedEof")
            ELSE Ok(Gathered(b, LastByte(b)), LastByte(b))
BY DEF DecodeVarint, LastByte, Gathered

LEMMA LastByteIs ==
  ASSUME NEW b \in Seq(Byte)
  PROVE  /\ LastByte(b) \in 1 .. Len(b) + 1
         /\ LastByte(b) <= Len(b) => b[LastByte(b)] < Cont
         /\ \A i \in 1 .. Len(b) : i < LastByte(b) => ~(b[i] < Cont)
         /\ \A k \in 1 .. Len(b) + 1 :
               /\ k <= Len(b) => b[k] < Cont
               /\ \A i \in 1 .. k - 1 : ~(b[i] < Cont)
               => k = LastByte(b)
<1> DEFINE U == {i \in DOMAIN b : b[i] < Cont} \cup {Len(b) + 1}
           n == LastByte(b)
<1>1. U \subseteq Nat /\ U # {} /\ \A i \in U : i \in 1 .. Len(b) + 1
  OBVIOUS
<1>2. \E x \in U : \A y \in U : x <= y
  BY <1>1, LeastNatural
<1>3. n \in U /\ \A y \in U : n <= y
  BY <1>2 DEF LastByte, Min
<1> HIDE DEF n
<1>4. n \in 1 .. Len(b) + 1 /\ (n <= Len(b) => b[n] < Cont)
  BY <1>3
<1>5. \A i \in 1 .. Len(b) : i < n => ~(b[i] < Cont)
  <2> SUFFICES ASSUME NEW i \in 1 .. Len(b), i < n, b[i] < Cont PROVE FALSE
    OBVIOUS
  <2>1. i \in U
    OBVIOUS
  <2> QED BY <2>1, <1>3, <1>4
<1>6. ASSUME NEW k \in 1 .. Len(b) + 1, k <= Len(b) => b[k] < Cont,
             \A i \in 1 .. k - 1 : ~(b[i] < Cont)
      PROVE  k = n
  <2>1. k \in U
    BY <1>6
  <2>2. n <= k
    BY <1>3, <2>1
  <2>3. ~(n < k)
    <3> SUFFICES ASSUME n < k PROVE FALSE
      OBVIOUS
    <3>1. n \in 1 .. k - 1 /\ n <= Len(b)
      BY <1>4
    <3> QED BY <3>1, <1>4, <1>6
  <2> QED BY <2>2, <2>3, <1>4
<1> QED BY <1>4, <1>5, <1>6 DEF n

LEMMA ModBelow ==
  ASSUME NEW a \in Nat, NEW d \in Nat \ {0}
  PROVE  /\ a % d \in Nat /\ a % d < d /\ a % d <= a
         /\ a < d => a % d = a
<1> DEFINE q == a \div d
           r == a % d
<1>1. q \in Nat /\ r \in Nat /\ r < d /\ a = d * q + r
  BY DivMod
<1>2. a < d => r = a
  <2>1. a = d * 0 + a
    OBVIOUS
  <2> QED BY <2>1, DivUnique
<1> HIDE DEF q, r
<1>3. d * q \in Nat
  BY <1>1
<1>4. r \in Nat /\ r < d /\ r <= a /\ (a < d => r = a)
  BY <1>1, <1>2, <1>3
<1> QED BY <1>4 DEF r

(* Where the groups of a varint that is not too long start. *)
LEMMA ShiftBelow ==
  ASSUME NEW i \in 1 .. VarintMax
  PROVE  /\ GroupBits * (i - 1) \in Nat
         /\ GroupBits * (i - 1) < Width
         /\ Width - GroupBits * (i - 1) \in Nat
         /\ Pow2[Width] = Pow2[Width - GroupBits * (i - 1)] * Pow2[GroupBits * (i - 1)]
<1> DEFINE s == GroupBits * (i - 1)
<1>1. i - 1 \in Nat /\ VarintMax - 1 \in Nat /\ i - 1 <= VarintMax - 1
  BY VarintMaxBytes
<1>2. s \in Nat /\ s <= GroupBits * (VarintMax - 1) /\ GroupBits * (VarintMax - 1) \in Nat
  BY <1>1, Shifts
<1>3. s < Width
  BY <1>2, VarintMaxBytes, Widths
<1> HIDE DEF s
<1>4. Width - s \in Nat /\ Width = (Width - s) + s
  BY <1>2, <1>3, Widths
<1>5. Pow2[Width] = Pow2[Width - s] * Pow2[s]
  BY <1>2, <1>4, Pow2Add
<1> QED BY <1>2, <1>3, <1>4, <1>5 DEF s

(* A group of bits, where it is put, stays below the next one. *)
LEMMA ShiftedBounds ==
  ASSUME NEW byte \in Nat, NEW i \in 1 .. VarintMax
  PROVE  /\ Shifted(byte, GroupBits * (i - 1)) \in Nat
         /\ Shifted(byte, GroupBits * (i - 1)) + Pow2[GroupBits * (i - 1)] <= Pow2[GroupBits * i]
         /\ Shifted(byte, GroupBits * (i - 1)) + Pow2[GroupBits * (i - 1)] <= Pow2[Width]
<1> DEFINE s == GroupBits * (i - 1)
           P == Pow2[s]
           R == Pow2[Width - s]
           c == byte % Cont
           x == c % R
<1>1. s \in Nat /\ Width - s \in Nat /\ Pow2[Width] = R * P
  BY ShiftBelow
<1>2. P \in Nat /\ R \in Nat /\ R \in Nat \ {0}
  BY <1>1, Pow2Type
<1>3. Pow2[GroupBits * i] = Cont * P
  <2>1. i - 1 \in Nat /\ (i - 1) + 1 = i
    BY VarintMaxBytes
  <2> QED BY <2>1, Powers
<1>4. Cont \in Nat \ {0}
  BY Widths
<1>5. c \in Nat /\ c < Cont
  BY <1>4, ModBelow
<1>6. Shifted(byte, s) = x * P
  BY DEF Shifted
<1> HIDE DEF s, P, R, c
<1>7. x \in Nat /\ x < R /\ x <= c
  BY <1>2, <1>5, ModBelow
<1> HIDE DEF x
<1>8. x + 1 \in Nat /\ x + 1 <= R /\ x + 1 <= Cont
  BY <1>2, <1>4, <1>5, <1>7
<1>9. (x + 1) * P <= R * P /\ (x + 1) * P <= Cont * P
  BY <1>2, <1>4, <1>8, MulMonotonic
<1>10. (x + 1) * P = x * P + P /\ x * P \in Nat
  BY <1>2, <1>7
<1>11. /\ x * P \in Nat
       /\ x * P + P <= Pow2[GroupBits * i]
       /\ x * P + P <= Pow2[Width]
  BY <1>1, <1>3, <1>9, <1>10
<1> QED BY <1>6, <1>11 DEF s, P

LEMMA GatheredBounds ==
  ASSUME NEW b \in Seq(Byte), NEW n \in 1 .. Len(b), n <= VarintMax
  PROVE  /\ Gathered(b, n) \in Nat
         /\ Gathered(b, n) < Pow2[Width]
         /\ Gathered(b, n) < Pow2[GroupBits * n]
<1> DEFINE g == [i \in 1 .. n |-> Shifted(b[i], GroupBits * (i - 1))]
<1>0. n \in Nat /\ VarintMax \in Nat
  BY VarintMaxBytes
<1>1. \A i \in 1 .. n : i \in 1 .. VarintMax /\ b[i] \in Nat
  <2>1. \A i \in 1 .. n : b[i] \in Byte
    OBVIOUS
  <2>2. \A x \in Byte : x \in Nat
    BY Widths
  <2> QED BY <1>0, <2>1, <2>2
<1>2. g \in [1 .. n -> Nat]
  BY <1>1, ShiftedBounds
<1>3. PICK f \in [0 .. n -> Nat] : /\ f[0] = 0
                                   /\ \A i \in 1 .. n : f[i] = f[i - 1] + g[i]
                                   /\ Total(g) = f[n]
  <2> HIDE DEF g
  <2> QED BY <1>0, <1>2, TotalRecursion
<1> DEFINE T == {i \in Nat : i <= n => f[i] < Pow2[GroupBits * i] /\ f[i] < Pow2[Width]}
<1>4. 0 \in T
  <2>1. Pow2[GroupBits * 0] = 1 /\ Pow2[Width] >= 1 /\ Pow2[Width] \in Nat
    BY Shifts, Widths, Pow2Values, Pow2Type
  <2> HIDE DEF g
  <2> QED BY <1>3, <2>1
<1>5. ASSUME NEW i \in Nat, i \in T PROVE i + 1 \in T
  <2> SUFFICES ASSUME i + 1 <= n
               PROVE  f[i + 1] < Pow2[GroupBits * (i + 1)] /\ f[i + 1] < Pow2[Width]
    OBVIOUS
  <2>1. i + 1 \in 1 .. n /\ (i + 1) - 1 = i /\ i <= n
    OBVIOUS
  <2>2. f[i + 1] = f[i] + g[i + 1] /\ g[i + 1] = Shifted(b[i + 1], GroupBits * i)
    BY <1>3, <2>1
  <2>3. /\ Shifted(b[i + 1], GroupBits * i) \in Nat
        /\ Shifted(b[i + 1], GroupBits * i) + Pow2[GroupBits * i] <= Pow2[GroupBits * (i + 1)]
        /\ Shifted(b[i + 1], GroupBits * i) + Pow2[GroupBits * i] <= Pow2[Width]
    BY <1>1, <2>1, ShiftedBounds
  <2>4. f[i] \in Nat /\ f[i] < Pow2[GroupBits * i]
    BY <1>3, <1>5, <2>1
  <2>5. Pow2[GroupBits * i] \in Nat /\ Pow2[GroupBits * (i + 1)] \in Nat /\ Pow2[Width] \in Nat
    <3>1. i + 1 \in Nat /\ Width \in Nat
      BY Widths
    <3>2. Pow2[GroupBits * i] \in Nat /\ Pow2[GroupBits * (i + 1)] \in Nat
      BY <3>1, Powers
    <3>3. Pow2[Width] \in Nat
      BY <3>1, Pow2Type
    <3> QED BY <3>2, <3>3
  <2> DEFINE s == Shifted(b[i + 1], GroupBits * i)
             p == Pow2[GroupBits * i]
             q == Pow2[GroupBits * (i + 1)]
             w == Pow2[Width]
             before == f[i]
             after == f[i + 1]
  <2>6. /\ after = before + s /\ before \in Nat /\ before < p
        /\ s \in Nat /\ p \in Nat /\ q \in Nat /\ w \in Nat
        /\ s + p <= q /\ s + p <= w
    BY <2>2, <2>3, <2>4, <2>5
  <2> HIDE DEF g, T, s, p, q, w, before, after
  <2>7. after < q /\ after < w
    BY ONLY <2>6
  <2> QED BY ONLY <2>7 DEF q, w, after
<1> HIDE DEF g, T
<1>6. n \in T
  <2>1. Nat \subseteq T
    BY ONLY <1>4, <1>5, SetInduction
  <2> QED BY ONLY <1>0, <2>1
<1>7. f[n] \in Nat /\ f[n] < Pow2[GroupBits * n] /\ f[n] < Pow2[Width]
  BY <1>3, <1>6 DEF T
<1> QED BY <1>3, <1>7 DEF Gathered, g

(* A buffer that starts with the bytes of a varint reads as its value. *)
LEMMA EncodedFits ==
  ASSUME NEW v \in Nat, v < Pow2[Width], NEW e, NEW L, Encodes(e, v, L)
  PROVE  L \in 1 .. VarintMax
<1>1. L \in Nat /\ L >= 1 /\ (L > 1 => Pow2[GroupBits * (L - 1)] <= v)
  BY DEF Encodes
<1> SUFFICES ASSUME L > VarintMax PROVE FALSE
  BY <1>1, VarintMaxBytes
<1>2. L > 1 /\ L - 1 \in Nat /\ VarintMax \in Nat /\ VarintMax <= L - 1
  BY <1>1, VarintMaxBytes
<1>3. /\ GroupBits * VarintMax \in Nat /\ GroupBits * (L - 1) \in Nat
      /\ GroupBits * VarintMax <= GroupBits * (L - 1)
  BY <1>2, Shifts
<1>4. Width \in Nat /\ Width <= GroupBits * (L - 1)
  BY <1>3, VarintMaxBytes, Widths
<1>5. Pow2[Width] <= Pow2[GroupBits * (L - 1)]
  BY <1>3, <1>4, Pow2Monotonic
<1> QED BY <1>1, <1>2, <1>3, <1>4, <1>5, Pow2Type

(* What is put back at place i: the group, none of its bits lost. *)
LEMMA ShiftedBack ==
  ASSUME NEW v \in Nat, v < Pow2[Width], NEW i \in 1 .. VarintMax, NEW byte,
         \E more \in {0, Cont} :
            byte = ((v \div Pow2[GroupBits * (i - 1)]) % Cont) + more
  PROVE  /\ Shifted(byte, GroupBits * (i - 1)) \in Nat
         /\ Shifted(byte, GroupBits * (i - 1)) + Pow2[GroupBits * i] * (v \div Pow2[GroupBits * i])
               = Pow2[GroupBits * (i - 1)] * (v \div Pow2[GroupBits * (i - 1)])
<1> DEFINE s == GroupBits * (i - 1)
           P == Pow2[s]
           R == Pow2[Width - s]
           g == v \div P
           q == g \div Cont
           r == g % Cont
<1>1. s \in Nat /\ Width - s \in Nat /\ Pow2[Width] = R * P
  BY ShiftBelow
<1>2. P \in Nat \ {0} /\ R \in Nat \ {0} /\ Cont \in Nat \ {0}
  BY <1>1, Pow2Type, Widths
<1>3. Pow2[GroupBits * i] = Cont * P
  <2>1. i - 1 \in Nat /\ (i - 1) + 1 = i
    BY VarintMaxBytes
  <2> QED BY <2>1, Powers
<1>4. v \div Pow2[GroupBits * i] = q
  <2> HIDE DEF P
  <2>1. v \div (P * Cont) = q
    BY <1>2, DivDiv
  <2>2. P * Cont = Cont * P
    BY <1>2
  <2> QED BY <1>3, <2>1, <2>2
<1>5. g \in Nat /\ v = P * g + (v % P) /\ v % P \in Nat
  <2> HIDE DEF s, P
  <2> QED BY <1>2, DivMod
<1>6. Split(g, q, r)
  <2> HIDE DEF g
  <2> QED BY <1>5, ByCont
<1>7. PICK more \in {0, Cont} : byte = r + more
  OBVIOUS
<1>8. Shifted(byte, s) = ((byte % Cont) % R) * P
  BY DEF Shifted
<1> DEFINE t == v % P
<1>9. v = P * g + t /\ t \in Nat
  BY <1>5
<1> HIDE DEF s, P, R, g, q, r, t
<1>10. q \in Nat /\ r \in Nat /\ r < Cont /\ g = Cont * q + r
  BY <1>6 DEF Split
<1>11. byte % Cont = r
  <2>1. CASE byte = r
    BY <1>2, <1>10, <2>1, ModBelow
  <2>2. CASE byte = r + Cont
    <3>1. byte = Cont * 1 + r /\ byte \in Nat
      BY <1>2, <1>10, <2>2
    <3> QED BY <1>2, <1>10, <3>1, DivUnique
  <2> QED BY <1>7, <1>10, <2>1, <2>2
<1>12. r <= g
  <2>1. Cont * q \in Nat
    BY <1>2, <1>10
  <2> QED BY <1>5, <1>10, <2>1
<1>13. g < R
  <2> SUFFICES ASSUME R <= g PROVE FALSE
    BY <1>2, <1>5
  <2>1. R * P <= g * P
    BY <1>2, <1>5, MulMonotonic
  <2>2. g * P = P * g /\ P * g \in Nat
    BY <1>2, <1>5
  <2> QED BY <1>1, <1>2, <1>9, <2>1, <2>2
<1>14. r % R = r
  BY <1>2, <1>5, <1>10, <1>12, <1>13, ModBelow
<1>15. r * P \in Nat /\ r * P + (Cont * P) * q = P * g
  <2>1. Cont * q \in Nat /\ P * g = P * (Cont * q) + P * r
    BY <1>2, <1>10, Distributive
  <2>2. P * (Cont * q) = (P * Cont) * q /\ P * Cont = Cont * P /\ P * r = r * P
    BY <1>2, <1>10, MulAssoc
  <2>3. P * (Cont * q) \in Nat /\ P * r \in Nat
    BY <1>2, <1>10, <2>1
  <2> QED BY <2>1, <2>2, <2>3
<1>16. Shifted(byte, s) = r * P
  BY <1>8, <1>11, <1>14
<1>17. Shifted(byte, s) \in Nat /\ Shifted(byte, s) + Pow2[GroupBits * i] * q = P * g
  BY <1>3, <1>15, <1>16
<1> QED BY <1>4, <1>17 DEF s, P, g

LEMMA DecodeEncoded ==
  ASSUME NEW b \in Seq(Byte), NEW v \in Nat, v < Pow2[Width], NEW e, NEW L,
         Encodes(e, v, L), L <= Len(b), \A i \in 1 .. L : b[i] = e[i]
  PROVE  DecodeVarint(b) = Ok(v, L)
<1>1. /\ L \in Nat /\ L >= 1
      /\ \A i \in 1 .. L :
            e[i] = ((v \div Pow2[GroupBits * (i - 1)]) % Cont) + IF i < L THEN Cont ELSE 0
      /\ v < Pow2[GroupBits * L]
  BY DEF Encodes
<1>2. L \in 1 .. VarintMax /\ VarintMax \in Nat
  BY EncodedFits, VarintMaxBytes
<1>3. ASSUME NEW i \in 1 .. L
      PROVE  /\ (v \div Pow2[GroupBits * (i - 1)]) % Cont \in Nat
             /\ (v \div Pow2[GroupBits * (i - 1)]) % Cont < Cont
  <2>1. i - 1 \in Nat
    BY <1>1
  <2>2. Pow2[GroupBits * (i - 1)] \in Nat \ {0}
    BY <2>1, Powers
  <2> DEFINE g == v \div Pow2[GroupBits * (i - 1)]
  <2>3. g \in Nat
    BY <2>2, DivMod
  <2> HIDE DEF g
  <2>4. g % Cont \in Nat /\ g % Cont < Cont
    BY <2>3, Widths, ModBelow
  <2> QED BY <2>4 DEF g
<1>4. LastByte(b) = L
  <2>1. b[L] < Cont
    <3>1. b[L] = ((v \div Pow2[GroupBits * (L - 1)]) % Cont) + 0 /\ L \in 1 .. L
      BY <1>1
    <3> QED BY <1>3, <3>1
  <2>2. \A i \in 1 .. L - 1 : ~(b[i] < Cont)
    <3> SUFFICES ASSUME NEW i \in 1 .. L - 1 PROVE ~(b[i] < Cont)
      OBVIOUS
    <3>1. i \in 1 .. L /\ i < L
      BY <1>1
    <3>2. b[i] = ((v \div Pow2[GroupBits * (i - 1)]) % Cont) + Cont
      BY <1>1, <3>1
    <3> QED BY <1>3, <3>1, <3>2, Widths
  <2>3. L \in 1 .. Len(b) + 1
    BY <1>1
  <2> QED BY <2>1, <2>2, <2>3, LastByteIs
<1> DEFINE g == [i \in 1 .. L |-> Shifted(b[i], GroupBits * (i - 1))]
<1>5. ASSUME NEW i \in 1 .. L
      PROVE  /\ g[i] \in Nat
             /\ g[i] + Pow2[GroupBits * i] * (v \div Pow2[GroupBits * i])
                   = Pow2[GroupBits * (i - 1)] * (v \div Pow2[GroupBits * (i - 1)])
  <2>1. i \in 1 .. VarintMax
    BY <1>2
  <2>2. \E more \in {0, Cont} : b[i] = ((v \div Pow2[GroupBits * (i - 1)]) % Cont) + more
    BY <1>1
  <2>3. g[i] = Shifted(b[i], GroupBits * (i - 1))
    OBVIOUS
  <2> HIDE DEF g
  <2> QED BY <2>1, <2>2, <2>3, ShiftedBack
<1>6. g \in [1 .. L -> Nat]
  BY <1>5
<1>7. PICK f \in [0 .. L -> Nat] : /\ f[0] = 0
                                   /\ \A i \in 1 .. L : f[i] = f[i - 1] + g[i]
                                   /\ Total(g) = f[L]
  <2> HIDE DEF g
  <2> QED BY <1>1, <1>6, TotalRecursion
<1> DEFINE Rest(i) == Pow2[GroupBits * i] * (v \div Pow2[GroupBits * i])
           T == {i \in Nat : i <= L => f[i] + Rest(i) = v}
<1> HIDE DEF g
<1>8. \A i \in Nat : Rest(i) \in Nat
  <2> SUFFICES ASSUME NEW i \in Nat PROVE Rest(i) \in Nat
    OBVIOUS
  <2> DEFINE p == Pow2[GroupBits * i]
             d == v \div p
  <2>1. p \in Nat \ {0}
    BY Powers
  <2> HIDE DEF p
  <2>2. d \in Nat
    BY <2>1, DivMod
  <2> HIDE DEF d
  <2>3. p * d \in Nat
    BY <2>1, <2>2
  <2> QED BY <2>3 DEF p, d
<1>9. Rest(0) = v
  <2>1. Pow2[GroupBits * 0] = 1
    BY Shifts, Pow2Values
  <2>2. v \div 1 = v
    <3>1. v = 1 * v + 0
      OBVIOUS
    <3> QED BY <3>1, DivUnique
  <2> QED BY <2>1, <2>2
<1>10. Rest(L) = 0
  <2> DEFINE p == Pow2[GroupBits * L]
  <2>1. p \in Nat \ {0} /\ v < p
    BY <1>1, Powers
  <2>2. v \div p = 0
    <3> HIDE DEF p
    <3>1. v = p * 0 + v
      BY <2>1
    <3> QED BY <2>1, <3>1, DivUnique
  <2> QED BY <2>1, <2>2
<1>11. \A i \in 1 .. L : g[i] + Rest(i) = Rest(i - 1) /\ g[i] \in Nat
  BY <1>5
<1> HIDE DEF Rest
<1>12. 0 \in T
  BY <1>7, <1>9
<1>13. ASSUME NEW i \in Nat, i \in T PROVE i + 1 \in T
  <2> SUFFICES ASSUME i + 1 <= L PROVE f[i + 1] + Rest(i + 1) = v
    OBVIOUS
  <2>1. i + 1 \in 1 .. L /\ (i + 1) - 1 = i /\ i <= L /\ i \in 0 .. L
    BY <1>1
  <2>2. f[i + 1] = f[i] + g[i + 1] /\ g[i + 1] + Rest(i + 1) = Rest(i) /\ g[i + 1] \in Nat
    BY <1>7, <1>11, <2>1
  <2>3. f[i] + Rest(i) = v
    BY <1>13, <2>1
  <2>4. f[i] \in Nat /\ Rest(i) \in Nat /\ Rest(i + 1) \in Nat
    BY <1>7, <1>8, <2>1
  <2> QED BY <2>2, <2>3, <2>4
<1> HIDE DEF T
<1>14. L \in T
  BY <1>1, <1>12, <1>13, SetInduction
<1>15. Gathered(b, L) = v
  <2>1. f[L] + Rest(L) = v
    BY <1>1, <1>14 DEF T
  <2>2. f[L] = v
    BY <2>1, <1>1, <1>7, <1>10
  <2> QED BY <1>7, <2>2 DEF Gathered, g
<1> QED BY <1>2, <1>4, <1>15, DecodeCases
-----------------------------------------------------------------------------
(* A value below n groups of bits takes at most n bytes. *)
LEMMA EncodedAtMost ==
  ASSUME NEW v \in Nat, NEW n \in Nat, n >= 1, v < Pow2[GroupBits * n]
  PROVE  Len(EncodeVarint[v]) \in 1 .. n
<1> DEFINE L == Len(EncodeVarint[v])
<1>1. Encodes(EncodeVarint[v], v, L)
  BY EncodeShape
<1> HIDE DEF L
<1>2. L \in Nat /\ L >= 1 /\ (L > 1 => Pow2[GroupBits * (L - 1)] <= v)
  BY <1>1 DEF Encodes
<1>3. L <= n
  <2> SUFFICES ASSUME n < L PROVE FALSE
    BY <1>2
  <2>1. L - 1 \in Nat /\ n <= L - 1 /\ L > 1
    BY <1>2
  <2>2. /\ GroupBits * n \in Nat /\ GroupBits * (L - 1) \in Nat
        /\ GroupBits * n <= GroupBits * (L - 1)
    BY <2>1, Shifts
  <2>3. Pow2[GroupBits * n] <= Pow2[GroupBits * (L - 1)]
    BY <2>2, Pow2Monotonic
  <2>4. Pow2[GroupBits * n] \in Nat /\ Pow2[GroupBits * (L - 1)] \in Nat
    BY <2>2, Pow2Type
  <2> QED BY <1>2, <2>1, <2>3, <2>4
<1> QED BY <1>2, <1>3 DEF L

LEMMA VarintRead ==
  ASSUME NEW b \in Seq(Byte), DecodeVarint(b).ok
  PROVE  \E v \in 0 .. Pow2[Width] - 1, n \in 1 .. Len(b) :
            /\ DecodeVarint(b) = Ok(v, n)
            /\ n = LastByte(b) /\ n <= VarintMax
            /\ v < Pow2[GroupBits * n]
<1> DEFINE n == LastByte(b)
           v == Gathered(b, n)
<1>1. n \in 1 .. Len(b) + 1 /\ VarintMax \in Nat
  BY LastByteIs, VarintMaxBytes
<1>2. ~Fail("VarintTooLong").ok /\ ~Fail("UnexpectedEof").ok
  BY DEF Fail
<1>3. ~(n > VarintMax /\ Len(b) > VarintMax) /\ ~(n > Len(b)) /\ DecodeVarint(b) = Ok(v, n)
  BY <1>2, DecodeCases
<1>4. n \in 1 .. Len(b) /\ n <= VarintMax
  <2> HIDE DEF n, v
  <2> QED BY <1>1, <1>3
<1>5. v \in Nat /\ v < Pow2[Width] /\ v < Pow2[GroupBits * n]
  <2> HIDE DEF n
  <2> QED BY <1>4, GatheredBounds
<1>6. v \in 0 .. Pow2[Width] - 1
  <2> HIDE DEF v
  <2> QED BY <1>5, Widths, Pow2Type
<1> HIDE DEF v
<1> QED BY <1>3, <1>4, <1>5, <1>6

LEMMA VarintReadsBack ==
  ASSUME NEW v \in 0 .. Pow2[Width] - 1
  PROVE  DecodeVarint(EncodeVarint[v]) = Ok(v, Len(EncodeVarint[v]))
<1>1. v \in Nat /\ v < Pow2[Width]
  BY Widths, Pow2Type
<1>2. /\ EncodeVarint[v] \in Seq(Byte)
      /\ Encodes(EncodeVarint[v], v, Len(EncodeVarint[v]))
  BY <1>1, EncodeShape
<1>3. Len(EncodeVarint[v]) \in Nat
  BY <1>2
<1> QED BY <1>1, <1>2, <1>3, DecodeEncoded

-----------------------------------------------------------------------------
(* Tags. *)
LEMMA WireCodes ==
  /\ DOMAIN WireTypeOf = 0 .. 5
  /\ \A c \in 0 .. 5 : WireTypeOf[c] \in WireTypes /\ WireCode[WireTypeOf[c]] = c
<1>1. DOMAIN WireTypeOf = 0 .. 5
  BY DEF WireTypeOf
<1>2. /\ WireTypeOf[0] = "Varint" /\ WireTypeOf[1] = "Fixed64" /\ WireTypeOf[2] = "LengthDelimited"
      /\ WireTypeOf[3] = "StartGroup" /\ WireTypeOf[4] = "EndGroup" /\ WireTypeOf[5] = "Fixed32"
  BY DEF WireTypeOf
<1>3. \A c, d \in 0 .. 5 : WireTypeOf[c] = WireTypeOf[d] => c = d
  BY <1>2
<1>4. \A c \in 0 .. 5 : WireTypeOf[c] \in WireTypes
  BY <1>1 DEF WireTypes
<1>5. ASSUME NEW c \in 0 .. 5 PROVE WireCode[WireTypeOf[c]] = c
  <2>1. WireCode[WireTypeOf[c]] = CHOOSE d \in 0 .. 5 : WireTypeOf[d] = WireTypeOf[c]
    BY <1>1, <1>4 DEF WireCode
  <2> QED BY <2>1, <1>3
<1> QED BY <1>1, <1>4, <1>5

LEMMA TagCases ==
  ASSUME NEW b
  PROVE  /\ ~DecodeVarint(b).ok => DecodeTag(b) = DecodeVarint(b)
         /\ \A raw, used : DecodeVarint(b) = Ok(raw, used) =>
               DecodeTag(b) =
                  IF Unsigned(raw \div 8, NumberWidth) = 0 THEN Fail("InvalidFieldNumber")
                  ELSE IF raw % 8 \notin 0 .. 5 THEN Fail("UnknownWireType")
                  ELSE Ok(Tag(Unsigned(raw \div 8, NumberWidth), WireTypeOf[raw % 8]), used)
<1> DEFINE r == DecodeVarint(b)
<1>1. ~r.ok => DecodeTag(b) = r
  BY DEF DecodeTag, Then
<1>2. r.ok =>
         DecodeTag(b) =
            IF Unsigned(r.val \div 8, NumberWidth) = 0 THEN Fail("InvalidFieldNumber")
            ELSE IF r.val % 8 \notin DOMAIN WireTypeOf THEN Fail("UnknownWireType")
            ELSE Ok(Tag(Unsigned(r.val \div 8, NumberWidth), WireTypeOf[r.val % 8]), r.used)
  BY DEF DecodeTag, Then
<1>3. ASSUME NEW raw, NEW used, r = Ok(raw, used)
      PROVE  r.ok /\ r.val = raw /\ r.used = used
  BY <1>3 DEF Ok
<1> HIDE DEF r
<1>4. ASSUME NEW raw, NEW used, r = Ok(raw, used)
      PROVE  DecodeTag(b) =
                  IF Unsigned(raw \div 8, NumberWidth) = 0 THEN Fail("InvalidFieldNumber")
                  ELSE IF raw % 8 \notin 0 .. 5 THEN Fail("UnknownWireType")
                  ELSE Ok(Tag(Unsigned(raw \div 8, NumberWidth), WireTypeOf[raw % 8]), used)
  <2>1. r.ok /\ r.val = raw /\ r.used = used
    BY <1>3, <1>4
  <2> QED BY <1>2, <2>1, WireCodes
<1> QED BY <1>1, <1>4 DEF r

LEMMA TagRead ==
  ASSUME NEW b \in Seq(Byte), DecodeTag(b).ok
  PROVE  \E number \in 1 .. Pow2[NumberWidth] - 1, c \in 0 .. 5, n \in 1 .. Len(b) :
            /\ DecodeTag(b) = Ok(Tag(number, WireTypeOf[c]), n)
            /\ n = LastByte(b) /\ n <= VarintMax
            /\ number * 8 + c < Pow2[Width]
            /\ number * 8 + c < Pow2[GroupBits * n]
<1>1. DecodeVarint(b).ok
  BY TagCases
<1>2. PICK raw \in 0 .. Pow2[Width] - 1, n \in 1 .. Len(b) :
         /\ DecodeVarint(b) = Ok(raw, n)
         /\ n = LastByte(b) /\ n <= VarintMax
         /\ raw < Pow2[GroupBits * n]
  BY <1>1, VarintRead
<1> DEFINE q == raw \div 8
           c == raw % 8
           M == Pow2[NumberWidth]
           number == q % M
<1>3. DecodeTag(b) = IF number = 0 THEN Fail("InvalidFieldNumber")
                     ELSE IF c \notin 0 .. 5 THEN Fail("UnknownWireType")
                     ELSE Ok(Tag(number, WireTypeOf[c]), n)
  <2>1. Unsigned(q, NumberWidth) = number
    BY DEF Unsigned
  <2> HIDE DEF number
  <2> QED BY <1>2, <2>1, TagCases
<1>4. raw \in Nat /\ raw < Pow2[Width] /\ Pow2[Width] \in Nat /\ M \in Nat \ {0}
  <2>1. Pow2[Width] \in Nat /\ M \in Nat \ {0}
    BY Widths, Pow2Type
  <2> HIDE DEF M
  <2> QED BY <2>1
<1>5. q \in Nat /\ c \in Nat /\ raw = 8 * q + c
  BY <1>4, DivMod
<1> HIDE DEF q, c, M
<1>6. number \in Nat /\ number < M /\ number <= q
  BY <1>4, <1>5, ModBelow
<1> HIDE DEF number
<1>7. number # 0 /\ c \in 0 .. 5 /\ DecodeTag(b) = Ok(Tag(number, WireTypeOf[c]), n)
  BY <1>3 DEF Fail
<1>8. number * 8 + c <= raw
  BY <1>5, <1>6
<1>9. number \in 1 .. M - 1
  BY <1>4, <1>6, <1>7
<1>10. number * 8 + c \in Nat /\ number * 8 + c < Pow2[Width]
  BY <1>4, <1>5, <1>6, <1>8
<1>11. Pow2[GroupBits * n] \in Nat
  <2>1. n \in Nat
    OBVIOUS
  <2> QED BY <2>1, Powers
<1>12. number * 8 + c < Pow2[GroupBits * n]
  BY <1>2, <1>4, <1>8, <1>10, <1>11
<1> QED BY <1>2, <1>7, <1>9, <1>10, <1>12 DEF M

LEMMA TagReadsBack ==
  ASSUME NEW number \in 1 .. Pow2[NumberWidth] - 1, NEW c \in 0 .. 5,
         NEW b, NEW n, DecodeVarint(b) = Ok(number * 8 + c, n)
  PROVE  DecodeTag(b) = Ok(Tag(number, WireTypeOf[c]), n)
<1>1. Pow2[NumberWidth] \in Nat \ {0} /\ Pow2[NumberWidth] \in Nat
  BY Widths, Pow2Type
<1> DEFINE raw == number * 8 + c
<1>2. number \in Nat /\ number < Pow2[NumberWidth] /\ number # 0 /\ raw \in Nat /\ raw = 8 * number + c
  BY <1>1
<1> HIDE DEF raw
<1>3. raw \div 8 = number /\ raw % 8 = c
  BY <1>2, DivUnique
<1>4. Unsigned(number, NumberWidth) = number
  BY <1>1, <1>2, ModBelow DEF Unsigned
<1>5. DecodeVarint(b) = Ok(raw, n)
  BY DEF raw
<1>6. DecodeTag(b) =
         IF Unsigned(raw \div 8, NumberWidth) = 0 THEN Fail("InvalidFieldNumber")
         ELSE IF raw % 8 \notin 0 .. 5 THEN Fail("UnknownWireType")
         ELSE Ok(Tag(Unsigned(raw \div 8, NumberWidth), WireTypeOf[raw % 8]), n)
  BY <1>5, TagCases
<1> QED BY <1>2, <1>3, <1>4, <1>6

(* The tag that encode_tag writes, and the value it writes as a varint. *)
LEMMA TagWritten ==
  ASSUME NEW number \in 1 .. Pow2[NumberWidth] - 1, NEW c \in 0 .. 5,
         number * 8 + c < Pow2[Width]
  PROVE  /\ number * 8 + c \in 0 .. Pow2[Width] - 1
         /\ EncodeTag(number, WireTypeOf[c]) = EncodeVarint[number * 8 + c]
         /\ DecodeTag(EncodeTag(number, WireTypeOf[c]))
               = Ok(Tag(number, WireTypeOf[c]), Len(EncodeTag(number, WireTypeOf[c])))
<1> DEFINE raw == number * 8 + c
<1>1. Pow2[NumberWidth] \in Nat /\ Pow2[Width] \in Nat
  BY Widths, Pow2Type
<1>2. raw \in 0 .. Pow2[Width] - 1
  BY <1>1
<1>3. EncodeTag(number, WireTypeOf[c]) = EncodeVarint[raw]
  BY WireCodes DEF EncodeTag
<1>4. DecodeVarint(EncodeVarint[raw]) = Ok(raw, Len(EncodeVarint[raw]))
  <2> HIDE DEF raw
  <2> QED BY <1>2, VarintReadsBack
<1>5. DecodeTag(EncodeVarint[raw]) = Ok(Tag(number, WireTypeOf[c]), Len(EncodeVarint[raw]))
  <2> DEFINE e == EncodeVarint[raw]
             n == Len(e)
  <2>1. DecodeVarint(e) = Ok(number * 8 + c, n)
    BY <1>4
  <2> HIDE DEF e, n
  <2>2. DecodeTag(e) = Ok(Tag(number, WireTypeOf[c]), n)
    BY <2>1, TagReadsBack
  <2> QED BY <2>2 DEF e, n
<1> HIDE DEF raw
<1>6. /\ raw \in 0 .. Pow2[Width] - 1
      /\ EncodeTag(number, WireTypeOf[c]) = EncodeVarint[raw]
      /\ DecodeTag(EncodeTag(number, WireTypeOf[c]))
            = Ok(Tag(number, WireTypeOf[c]), Len(EncodeTag(number, WireTypeOf[c])))
  BY <1>2, <1>3, <1>5
<1> QED BY <1>6 DEF raw

(* The u32 form of a tag, while three bits of the number are free. *)
LEMMA TagValue ==
  ASSUME NEW number \in Nat, number < Pow2[NumberWidth - 3], NEW c \in 0 .. 5
  PROVE  TagEncodeValue(Tag(number, WireTypeOf[c])) = number * 8 + c
<1> DEFINE w == NumberWidth - 3
<1>1. w \in Nat /\ NumberWidth = ((w + 1) + 1) + 1 /\ w + 1 \in Nat /\ (w + 1) + 1 \in Nat
  BY Widths
<1> HIDE DEF w
<1>2. Pow2[NumberWidth] = 2 * (2 * (2 * Pow2[w])) /\ Pow2[w] \in Nat
  BY <1>1, Pow2Values, Pow2Type
<1>3. number * 8 \in Nat /\ number * 8 < Pow2[NumberWidth] /\ Pow2[NumberWidth] \in Nat \ {0}
  BY <1>2 DEF w
<1>4. Unsigned(number * 8, NumberWidth) = number * 8
  BY <1>3, ModBelow DEF Unsigned
<1> QED BY <1>4, WireCodes DEF TagEncodeValue, Tag

-----------------------------------------------------------------------------
(* Zigzag. *)
LEMMA ModNear ==
  ASSUME NEW d \in Nat \ {0}, NEW x \in Int, -d <= x, x < 2 * d
  PROVE  x % d = IF x < 0 THEN x + d ELSE IF x < d THEN x ELSE x - d
<1>1. x % d \in Nat /\ x % d < d
  OBVIOUS
<1>2. x \div d \in Int /\ x = d * (x \div d) + (x % d)
  OBVIOUS
<1> DEFINE q == x \div d
           r == x % d
<1> HIDE DEF q, r
<1>3. q \in Int /\ r \in Nat /\ r < d /\ x = d * q + r
  BY <1>1, <1>2 DEF q, r
<1>4. q <= 1
  <2> SUFFICES ASSUME q >= 2 PROVE FALSE
    BY <1>3
  <2>1. 2 * d <= q * d
    BY <1>3, MulMonotonic
  <2> QED BY <1>3, <2>1
<1>5. q >= -1
  <2> SUFFICES ASSUME q <= -2 PROVE FALSE
    BY <1>3
  <2>1. -q \in Nat /\ 2 <= -q
    BY <1>3
  <2>2. 2 * d <= (-q) * d
    BY <2>1, MulMonotonic
  <2>3. (-q) * d = -(d * q)
    BY <1>3
  <2> QED BY <1>3, <2>2, <2>3
<1>6. q \in {-1, 0, 1}
  BY <1>3, <1>4, <1>5
<1>7. r = IF x < 0 THEN x + d ELSE IF x < d THEN x ELSE x - d
  <2>1. CASE q = -1
    <3>1. d * q = -d
      BY <2>1
    <3> QED BY <1>3, <3>1
  <2>2. CASE q = 0
    <3>1. d * q = 0
      BY <2>2
    <3> QED BY <1>3, <3>1
  <2>3. CASE q = 1
    <3>1. d * q = d
      BY <2>3
    <3> QED BY <1>3, <3>1
  <2> QED BY <1>6, <2>1, <2>2, <2>3
<1> QED BY <1>7 DEF r

(* Zigzag at a width: the signed numbers go to the unsigned ones, small    *)
(* ones to small ones.                                                     *)
LEMMA ZigzagIs ==
  ASSUME NEW w \in Nat \ {0}, NEW v \in -Pow2[w - 1] .. Pow2[w - 1] - 1
  PROVE  ZigzagEncode(v, w) = IF v < 0 THEN -2 * v - 1 ELSE 2 * v
<1> DEFINE H == Pow2[w - 1]
           M == Pow2[w]
<1>1. w - 1 \in Nat /\ w = (w - 1) + 1
  OBVIOUS
<1>2. H \in Nat /\ H >= 1 /\ M = 2 * H /\ M \in Nat \ {0}
  <2>1. Pow2[(w - 1) + 1] = 2 * Pow2[w - 1] /\ Pow2[w - 1] \in Nat /\ Pow2[w - 1] >= 1
    BY <1>1, Pow2Values, Pow2Type
  <2> QED BY <1>1, <2>1
<1> DEFINE doubled == Signed(2 * v, w)
<1>3. ZigzagEncode(v, w) = (IF v < 0 THEN -doubled - 1 ELSE doubled) % M
  BY DEF ZigzagEncode, Unsigned, Not
<1>4. doubled = ((2 * v + H) % M) - H
  BY DEF Signed
<1> HIDE DEF H, M, doubled
<1>5. v \in Int /\ -H <= v /\ v < H
  BY <1>2 DEF H
<1> DEFINE y == 2 * v + H
<1>6. y % M = IF y < 0 THEN y + M ELSE IF y < M THEN y ELSE y - M
  <2>1. y \in Int /\ -M <= y /\ y < 2 * M
    BY <1>2, <1>5
  <2> HIDE DEF y
  <2> QED BY <1>2, <2>1, ModNear
<1>7. doubled \in {2 * v, 2 * v + M, 2 * v - M} /\ -H <= doubled /\ doubled < H
  BY <1>2, <1>4, <1>5, <1>6
<1> DEFINE x == IF v < 0 THEN -doubled - 1 ELSE doubled
<1>8. x \in Int /\ -M <= x /\ x < 2 * M
  BY <1>2, <1>5, <1>7
<1>9. x % M = IF x < 0 THEN x + M ELSE IF x < M THEN x ELSE x - M
  <2> HIDE DEF x
  <2> QED BY <1>2, <1>8, ModNear
<1>10. x % M = IF v < 0 THEN -2 * v - 1 ELSE 2 * v
  <2>1. x % M = IF x < 0 THEN x + M ELSE x
    BY <1>2, <1>5, <1>7, <1>9
  <2>2. (IF x < 0 THEN x + M ELSE x) = IF v < 0 THEN -2 * v - 1 ELSE 2 * v
    BY <1>2, <1>5, <1>7
  <2> QED BY <2>1, <2>2
<1> QED BY <1>3, <1>10

(* Zigzag loses nothing at any width: zigzag_encode and zigzag_decode are  *)
(* inverse to each other between all signed and all unsigned numbers, the  *)
(* smallest signed one, whose double does not fit, included.               *)
THEOREM ZigzagBothWays ==
  ASSUME NEW w \in Nat \ {0}
  PROVE  /\ \A v \in -Pow2[w - 1] .. Pow2[w - 1] - 1 :
               /\ ZigzagEncode(v, w) \in 0 .. Pow2[w] - 1
               /\ ZigzagDecode(ZigzagEncode(v, w), w) = v
         /\ \A u \in 0 .. Pow2[w] - 1 :
               /\ ZigzagDecode(u, w) \in -Pow2[w - 1] .. Pow2[w - 1] - 1
               /\ ZigzagEncode(ZigzagDecode(u, w), w) = u
<1> DEFINE H == Pow2[w - 1]
           M == Pow2[w]
<1>1. w - 1 \in Nat /\ w = (w - 1) + 1
  OBVIOUS
<1>2. H \in Nat /\ H >= 1 /\ M = 2 * H
  <2>1. Pow2[(w - 1) + 1] = 2 * Pow2[w - 1] /\ Pow2[w - 1] \in Nat /\ Pow2[w - 1] >= 1
    BY <1>1, Pow2Values, Pow2Type
  <2> QED BY <1>1, <2>1
<1>3. \A v \in -H .. H - 1 : ZigzagEncode(v, w) = IF v < 0 THEN -2 * v - 1 ELSE 2 * v
  BY ZigzagIs
<1> HIDE DEF H, M
<1>4. ASSUME NEW v \in -H .. H - 1
      PROVE  ZigzagEncode(v, w) \in 0 .. M - 1 /\ ZigzagDecode(ZigzagEncode(v, w), w) = v
  <2> DEFINE e == ZigzagEncode(v, w)
  <2>1. e = IF v < 0 THEN -2 * v - 1 ELSE 2 * v
    BY <1>3
  <2> HIDE DEF e
  <2>2. e \in 0 .. M - 1
    BY <1>2, <2>1
  <2>3. ZigzagDecode(e, w) = v
    <3>1. CASE v < 0
      <4>1. e = 2 * (-v - 1) + 1 /\ -v - 1 \in Nat /\ e \in Nat
        BY <1>2, <2>1, <3>1
      <4>2. e % 2 = 1 /\ e \div 2 = -v - 1
        BY <4>1
      <4> QED BY <1>2, <4>2 DEF ZigzagDecode, Not
    <3>2. CASE v >= 0
      <4>1. e = 2 * v /\ v \in Nat /\ e \in Nat
        BY <1>2, <2>1, <3>2
      <4>2. e % 2 = 0 /\ e \div 2 = v
        BY <4>1
      <4> QED BY <4>2 DEF ZigzagDecode
    <3> QED BY <1>2, <3>1, <3>2
  <2> QED BY <2>2, <2>3 DEF e
<1>5. ASSUME NEW u \in 0 .. M - 1
      PROVE  ZigzagDecode(u, w) \in -H .. H - 1 /\ ZigzagEncode(ZigzagDecode(u, w), w) = u
  <2> DEFINE d == ZigzagDecode(u, w)
             q == u \div 2
             r == u % 2
  <2>1. q \in Nat /\ r \in {0, 1} /\ u = 2 * q + r
    BY <1>2
  <2>2. d = IF r = 1 THEN -q - 1 ELSE q
    BY DEF ZigzagDecode, Not
  <2> HIDE DEF d, q, r
  <2>3. d \in -H .. H - 1
    BY <1>2, <2>1, <2>2
  <2>4. ZigzagEncode(d, w) = IF d < 0 THEN -2 * d - 1 ELSE 2 * d
    BY <1>3, <2>3
  <2>5. ZigzagEncode(d, w) = u
    BY <1>2, <2>1, <2>2, <2>4
  <2> QED BY <2>3, <2>5 DEF d
<1> QED BY <1>4, <1>5 DEF H, M

-----------------------------------------------------------------------------
(* The buffer holds bytes, no more than a slice may. *)
Buffer == buf \in Seq(Byte) /\ Len(buf) < Pow2[Width - 1]

LEMMA BufferInvariant == Spec => []Buffer
<1>1. Pow2[Width - 1] \in Nat /\ Pow2[Width - 1] >= 1
  <2>1. Width - 1 \in Nat
    BY Widths
  <2> QED BY <2>1, Pow2Type
<1>2. Init => Buffer
  BY <1>1 DEF Init, Buffer
<1>3. Buffer /\ [Next]_buf => Buffer'
  <2> SUFFICES ASSUME Buffer, Feed PROVE Buffer'
    BY DEF Next, Buffer
  <2>1. PICK b \in Byte : /\ Len(buf) < ShortLen \/ Len(buf) < MaxLen
                          /\ buf' = Append(buf, b)
    BY DEF Feed
  <2>2. buf' \in Seq(Byte) /\ Len(buf') = Len(buf) + 1 /\ Len(buf) \in Nat
    BY <2>1 DEF Buffer
  <2>3. /\ ShortLen \in Nat /\ ShortLen < Pow2[Width - 1]
        /\ MaxLen \in Nat /\ MaxLen < Pow2[Width - 1]
    BY <1>1, LengthsAssumption
  <2> QED BY <1>1, <2>1, <2>2, <2>3 DEF Buffer
<1> QED BY <1>2, <1>3, PTL DEF Spec

(* Whatever varint decode_varint accepts, at any width: its value fits the *)
(* width, varint_len is what encode_varint writes, no more than was read,  *)
(* and it reads back as itself.                                            *)
THEOREM VarintsReadBack == Spec => []VarintRoundTrip
<1>1. Buffer => VarintRoundTrip
  <2> SUFFICES ASSUME buf \in Seq(Byte), DecodeVarint(buf).ok
               PROVE  LET read == DecodeVarint(buf)
                          again == EncodeVarint[read.val]
                      IN  /\ read.val \in 0 .. Pow2[Width] - 1
                          /\ Len(again) = VarintLen(read.val)
                          /\ Len(again) <= read.used
                          /\ DecodeVarint(again) = Ok(read.val, Len(again))
    BY DEF Buffer, VarintRoundTrip
  <2>1. PICK v \in 0 .. Pow2[Width] - 1, n \in 1 .. Len(buf) :
           DecodeVarint(buf) = Ok(v, n) /\ v < Pow2[GroupBits * n]
    BY VarintRead
  <2>2. DecodeVarint(buf).val = v /\ DecodeVarint(buf).used = n
    BY <2>1 DEF Ok
  <2>3. v \in Nat /\ n \in Nat /\ n >= 1
    BY Widths, Pow2Type
  <2>4. Len(EncodeVarint[v]) \in 1 .. n
    BY <2>1, <2>3, EncodedAtMost
  <2>5. Len(EncodeVarint[v]) <= n
    BY <2>3, <2>4
  <2> QED BY <2>2, <2>5, VarintLenExact, VarintReadsBack
<1> QED BY <1>1, BufferInvariant, PTL

(* Whatever tag decode_tag accepts, at any widths: encode_tag writes it in *)
(* no more bytes, it reads back as itself, and Tag::encode_value agrees    *)
(* with encode_tag while three bits of the number are free.                *)
THEOREM TagsReadBack == Spec => []TagRoundTrip
<1>1. Buffer => TagRoundTrip
  <2> SUFFICES ASSUME buf \in Seq(Byte), DecodeTag(buf).ok
               PROVE  LET read == DecodeTag(buf)
                          again == EncodeTag(read.val.number, read.val.wire)
                      IN  /\ DecodeTag(again) = Ok(read.val, Len(again))
                          /\ Len(again) <= read.used
                          /\ read.val.number < Pow2[NumberWidth - 3]
                                => EncodeVarint[TagEncodeValue(read.val)] = again
    BY DEF Buffer, TagRoundTrip
  <2>1. PICK number \in 1 .. Pow2[NumberWidth] - 1, c \in 0 .. 5, n \in 1 .. Len(buf) :
           /\ DecodeTag(buf) = Ok(Tag(number, WireTypeOf[c]), n)
           /\ number * 8 + c < Pow2[Width]
           /\ number * 8 + c < Pow2[GroupBits * n]
    BY TagRead
  <2> DEFINE tag == Tag(number, WireTypeOf[c])
             again == EncodeTag(number, WireTypeOf[c])
  <2>2. /\ DecodeTag(buf).val = tag /\ DecodeTag(buf).used = n
        /\ tag.number = number /\ tag.wire = WireTypeOf[c]
    BY <2>1 DEF Ok, Tag
  <2>3. number \in Nat /\ n \in Nat /\ n >= 1 /\ number * 8 + c \in Nat
    BY Widths, Pow2Type
  <2>4. again = EncodeVarint[number * 8 + c] /\ DecodeTag(again) = Ok(tag, Len(again))
    BY <2>1, TagWritten
  <2>5. Len(again) <= n
    <3>1. Len(again) \in 1 .. n
      BY <2>1, <2>3, <2>4, EncodedAtMost
    <3> QED BY <2>3, <3>1
  <2>6. number < Pow2[NumberWidth - 3] => EncodeVarint[TagEncodeValue(tag)] = again
    BY <2>3, <2>4, TagValue
  <2> HIDE DEF tag, again
  <2> QED BY <2>2, <2>4, <2>5, <2>6 DEF again
<1> QED BY <1>1, BufferInvariant, PTL

(* What an answer about a buffer says of a longer one. *)
LEMMA GatheredSame ==
  ASSUME NEW b \in Seq(Byte), NEW c \in Seq(Byte), NEW n \in Nat,
         \A i \in 1 .. n : c[i] = b[i]
  PROVE  Gathered(c, n) = Gathered(b, n)
<1>1. [i \in 1 .. n |-> Shifted(c[i], GroupBits * (i - 1))]
        = [i \in 1 .. n |-> Shifted(b[i], GroupBits * (i - 1))]
  OBVIOUS
<1> QED BY <1>1 DEF Gathered

LEMMA VarintFinal ==
  ASSUME NEW b \in Seq(Byte), NEW c \in Seq(Byte), Len(b) <= Len(c),
         \A i \in 1 .. Len(b) : c[i] = b[i],
         Final(DecodeVarint(b))
  PROVE  DecodeVarint(c) = DecodeVarint(b)
<1> DEFINE n == LastByte(b)
           k == LastByte(c)
<1>1. /\ n \in 1 .. Len(b) + 1
      /\ n <= Len(b) => b[n] < Cont
      /\ \A i \in 1 .. Len(b) : i < n => ~(b[i] < Cont)
  BY LastByteIs
<1>2. /\ k \in 1 .. Len(c) + 1
      /\ k <= Len(c) => c[k] < Cont
      /\ \A i \in 1 .. Len(c) : i < k => ~(c[i] < Cont)
  BY LastByteIs
<1>3. VarintMax \in Nat /\ Len(b) \in Nat /\ Len(c) \in Nat
  BY VarintMaxBytes
<1>4. ~(n > Len(b)) \/ (n > VarintMax /\ Len(b) > VarintMax)
  <2> SUFFICES ASSUME n > Len(b), ~(n > VarintMax /\ Len(b) > VarintMax) PROVE FALSE
    OBVIOUS
  <2>1. DecodeVarint(b) = Fail("UnexpectedEof")
    BY DecodeCases
  <2> QED BY <2>1 DEF Final, Fail
<1>5. CASE n <= Len(b)
  <2>1. k = n
    <3> HIDE DEF k
    <3>1. n \in 1 .. Len(c) + 1 /\ n \in 1 .. Len(c) /\ n \in 1 .. Len(b)
      BY <1>1, <1>3, <1>5
    <3>2. c[n] < Cont
      BY <1>1, <1>5, <3>1
    <3>3. \A i \in 1 .. n - 1 : ~(c[i] < Cont)
      <4> SUFFICES ASSUME NEW i \in 1 .. n - 1 PROVE ~(c[i] < Cont)
        OBVIOUS
      <4>1. i \in 1 .. Len(b) /\ i < n
        BY <1>1, <1>3
      <4> QED BY <1>1, <4>1
    <3> HIDE DEF n
    <3> QED BY <3>1, <3>2, <3>3, LastByteIs DEF k
  <2>2. Gathered(c, n) = Gathered(b, n)
    <3>1. n \in Nat /\ \A i \in 1 .. n : c[i] = b[i]
      BY <1>1, <1>3, <1>5
    <3> HIDE DEF n
    <3> QED BY <3>1, GatheredSame
  <2> HIDE DEF n, k
  <2>3. n > VarintMax => Len(b) > VarintMax /\ Len(c) > VarintMax
    BY <1>1, <1>3, <1>5
  <2>4. ~(n > Len(b)) /\ ~(n > Len(c))
    BY <1>1, <1>3, <1>5
  <2> QED BY <2>1, <2>2, <2>3, <2>4, DecodeCases DEF n, k
<1>6. CASE n > Len(b)
  <2>1. n > VarintMax /\ Len(b) > VarintMax
    BY <1>1, <1>3, <1>4, <1>6
  <2>2. k > Len(b)
    <3> SUFFICES ASSUME k <= Len(b) PROVE FALSE
      BY <1>2, <1>3
    <3> HIDE DEF n, k
    <3>1. k \in 1 .. Len(b) /\ k < n /\ k <= Len(c)
      BY <1>1, <1>2, <1>3, <1>6
    <3>2. c[k] = b[k] /\ c[k] < Cont /\ ~(b[k] < Cont)
      BY <1>1, <1>2, <3>1
    <3> QED BY <3>2
  <2> HIDE DEF n, k
  <2>3. k > VarintMax /\ Len(c) > VarintMax
    BY <1>2, <1>3, <2>1, <2>2
  <2> QED BY <2>1, <2>3, DecodeCases DEF n, k
<1> QED BY <1>1, <1>3, <1>5, <1>6

LEMMA TagFinal ==
  ASSUME NEW b \in Seq(Byte), NEW c \in Seq(Byte), Len(b) <= Len(c),
         \A i \in 1 .. Len(b) : c[i] = b[i],
         Final(DecodeTag(b))
  PROVE  DecodeTag(c) = DecodeTag(b)
<1>1. CASE ~DecodeVarint(b).ok
  <2>1. DecodeTag(b) = DecodeVarint(b)
    BY <1>1, TagCases
  <2>2. DecodeVarint(c) = DecodeVarint(b)
    BY <2>1, VarintFinal
  <2> QED BY <1>1, <2>1, <2>2, TagCases
<1>2. CASE DecodeVarint(b).ok
  <2>1. DecodeVarint(c) = DecodeVarint(b)
    BY <1>2, VarintFinal DEF Final
  <2>2. PICK raw, used : DecodeVarint(b) = Ok(raw, used)
    BY <1>2, VarintRead
  <2> QED BY <2>1, <2>2, TagCases
<1> QED BY <1>1, <1>2

(* However the bytes arrive in pieces, decode_varint and decode_tag give a *)
(* verdict once: more bytes change no answer other than UnexpectedEof.     *)
THEOREM VerdictsAreFinal == Spec => [][ReadsFinal]_buf
<1>1. Buffer /\ [Next]_buf => [ReadsFinal]_buf
  <2> SUFFICES ASSUME Buffer, Feed PROVE ReadsFinal
    BY DEF Next
  <2>1. PICK x \in Byte : buf' = Append(buf, x)
    BY DEF Feed
  <2>2. buf \in Seq(Byte)
    BY DEF Buffer
  <2>3. /\ buf' \in Seq(Byte) /\ Len(buf) <= Len(buf')
        /\ \A i \in 1 .. Len(buf) : buf'[i] = buf[i]
    BY <2>1, <2>2
  <2> QED BY <2>2, <2>3, VarintFinal, TagFinal DEF ReadsFinal
<1> QED BY <1>1, BufferInvariant, PTL DEF Spec
=============================================================================
