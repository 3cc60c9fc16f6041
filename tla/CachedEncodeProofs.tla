------------------------- MODULE CachedEncodeProofs -------------------------
(***************************************************************************)
(* Why the lengths written by concurrent encoders of one message are       *)
(* exact, for any message shape, any number of threads and any history of  *)
(* changes between the encodes.                                            *)
(*                                                                         *)
(* The sums of the model have no type the provers can establish (a fold is *)
(* recursive), and none is needed: two encoders store the same number      *)
(* because they add up the same terms.  So sequences of calls are typed    *)
(* over any set, and sizes are only ever compared.                         *)
(***************************************************************************)
EXTENDS CachedEncode, TLAPS

IsSeq(s) == \E S : s \in Seq(S)

(***************************************************************************)
(* The invariant.  Computed(t): the messages whose size this encode of t   *)
(* has stored.  Their cells hold the size their present fields add up to   *)
(* (Valid), and so every frame of t has accounted for the fields before    *)
(* its next one (FrameOK).                                                 *)
(***************************************************************************)
Computed(t) == {n \in Node : sized[t][n] > 0}

Term(n, i) == IF present[Kids[n][i]] THEN FieldBytes(Kids[n][i], cached[Kids[n][i]]) ELSE 0
Terms(n) == [i \in 1..Len(Kids[n]) |-> Term(n, i)]

Valid(t) ==
  \A n \in Computed(t) :
    /\ cached[n] = Total(n, Terms(n))
    /\ \A i \in 1..Len(Kids[n]) : present[Kids[n][i]] => Kids[n][i] \in Computed(t)

FrameOK(t, f) ==
  /\ f.op \in {"size", "write"} /\ f.node \in Node
  /\ f.next \in 1..(Len(Kids[f.node]) + 1)
  /\ f.acc = [i \in 1..(f.next - 1) |-> Term(f.node, i)]
  /\ \A i \in 1..(f.next - 1) : present[Kids[f.node][i]] => Kids[f.node][i] \in Computed(t)
  /\ f.op = "write" => f.node \in Computed(t) /\ f.prefix = cached[f.node]
  /\ f.entry # 0 =>
       /\ f.op = "write"
       /\ Kids[f.node][f.next] \in Computed(t)
       /\ f.entry = EntryBytes(cached[Kids[f.node][f.next]], cached[Kids[f.node][f.next]])

(* g is the call that f, the frame below it, is waiting for. *)
Linked(f, g) ==
  /\ f.next <= Len(Kids[f.node])
  /\ g.node = Kids[f.node][f.next]
  /\ present[g.node]
  /\ g.op = "write" => f.op = "write" /\ (g.node \in MapValue => f.entry # 0)

StackOK(t) ==
  /\ IsSeq(stack[t])
  /\ \A i \in 1..Len(stack[t]) : FrameOK(t, stack[t][i])
  /\ \A i \in 1..(Len(stack[t]) - 1) : Linked(stack[t][i], stack[t][i+1])
  /\ Len(stack[t]) > 0 => stack[t][1].node = Root
  /\ stack[t] = <<>> => Computed(t) = {}

Functional ==
  /\ own = [n \in Node |-> own[n]]
  /\ cached = [n \in Node |-> cached[n]]
  /\ stack = [t \in Thread |-> stack[t]]
  /\ sized \in [Thread -> [Node -> Nat]]

Passes == Functional /\ \A t \in Thread : Valid(t) /\ StackOK(t)

-----------------------------------------------------------------------------
LEMMA SeqShape ==
  ASSUME NEW s, IsSeq(s)
  PROVE  Len(s) \in Nat /\ (s # <<>> <=> Len(s) > 0)
BY DEF IsSeq

LEMMA AppendShape ==
  ASSUME NEW s, IsSeq(s), NEW g
  PROVE  /\ IsSeq(Append(s, g)) /\ Len(Append(s, g)) = Len(s) + 1
         /\ \A i \in 1..Len(s) : Append(s, g)[i] = s[i]
         /\ Append(s, g)[Len(s) + 1] = g
<1>1. PICK S : s \in Seq(S)
  BY DEF IsSeq
<1>2. s \in Seq(S \cup {g}) /\ g \in S \cup {g}
  BY <1>1
<1> QED BY <1>2 DEF IsSeq

(* The first m elements, then g. *)
LEMMA CutShape ==
  ASSUME NEW s, IsSeq(s), NEW g, NEW m \in Nat, m <= Len(s)
  PROVE  LET r == Append(SubSeq(s, 1, m), g)
         IN  /\ IsSeq(r) /\ Len(r) = m + 1
             /\ \A i \in 1..m : r[i] = s[i]
             /\ r[m + 1] = g
<1>1. PICK S : s \in Seq(S)
  BY DEF IsSeq
<1>2. /\ SubSeq(s, 1, m) \in Seq(S) /\ Len(SubSeq(s, 1, m)) = m
      /\ \A i \in 1..m : SubSeq(s, 1, m)[i] = s[i]
  BY <1>1
<1>3. IsSeq(SubSeq(s, 1, m))
  BY <1>2 DEF IsSeq
<1> HIDE DEF IsSeq
<1> QED BY <1>2, <1>3, AppendShape

LEMMA EmptyAndSingle ==
  /\ IsSeq(<<>>) /\ Len(<<>>) = 0
  /\ \A g : IsSeq(<<g>>) /\ Len(<<g>>) = 1 /\ <<g>>[1] = g
<1>1. <<>> \in Seq({}) /\ Len(<<>>) = 0
  OBVIOUS
<1>2. ASSUME NEW g
      PROVE  <<g>> \in Seq({g}) /\ Len(<<g>>) = 1 /\ <<g>>[1] = g
  OBVIOUS
<1> QED BY <1>1, <1>2 DEF IsSeq

LEMMA CallFields ==
  \A op, n, i, acc, p, e :
    /\ Call(op, n, i, acc, p, e).op = op /\ Call(op, n, i, acc, p, e).node = n
    /\ Call(op, n, i, acc, p, e).next = i /\ Call(op, n, i, acc, p, e).acc = acc
    /\ Call(op, n, i, acc, p, e).prefix = p /\ Call(op, n, i, acc, p, e).entry = e
BY DEF Call

LEMMA KidsTyped ==
  \A n \in Node : Len(Kids[n]) \in Nat /\ \A i \in 1..Len(Kids[n]) : Kids[n][i] \in Node
BY MessageAssumption

(***************************************************************************)
(* What a step leaves alone.  Steady(u): the step neither forgets nor      *)
(* alters a size that the encode of u relies on.                           *)
(***************************************************************************)
Steady(u) ==
  /\ own' = own /\ present' = present
  /\ \A n \in Computed(u) : n \in Computed(u)' /\ cached'[n] = cached[n]

LEMMA TermsKept ==
  ASSUME NEW u \in Thread, Steady(u), NEW n \in Node, NEW m \in Nat, m <= Len(Kids[n]),
         \A i \in 1..m : present[Kids[n][i]] => Kids[n][i] \in Computed(u)
  PROVE  /\ [i \in 1..m |-> Term(n, i)]' = [i \in 1..m |-> Term(n, i)]
         /\ \A i \in 1..m : present'[Kids[n][i]] => Kids[n][i] \in Computed(u)'
<1>1. \A i \in 1..m : Term(n, i)' = Term(n, i)
  <2> TAKE i \in 1..m
  <2>1. CASE present[Kids[n][i]]
    <3>1. cached'[Kids[n][i]] = cached[Kids[n][i]]
      BY <2>1 DEF Steady
    <3> QED BY <2>1, <3>1 DEF Term, Steady
  <2>2. CASE ~present[Kids[n][i]]
    BY <2>2 DEF Term, Steady
  <2> QED BY <2>1, <2>2
<1>2. \A i \in 1..m : present'[Kids[n][i]] => Kids[n][i] \in Computed(u)'
  BY DEF Steady
<1> QED BY <1>1, <1>2

LEMMA FrameKept ==
  ASSUME NEW u \in Thread, Steady(u), NEW f, FrameOK(u, f)
  PROVE  FrameOK(u, f)'
<1>1. f.node \in Node /\ Len(Kids[f.node]) \in Nat /\ f.next \in 1..(Len(Kids[f.node]) + 1)
  BY KidsTyped DEF FrameOK
<1>2. f.next - 1 \in Nat /\ f.next - 1 <= Len(Kids[f.node])
  BY <1>1
<1>3. \A i \in 1..(f.next - 1) : present[Kids[f.node][i]] => Kids[f.node][i] \in Computed(u)
  BY DEF FrameOK
<1>4. /\ [i \in 1..(f.next - 1) |-> Term(f.node, i)]' = [i \in 1..(f.next - 1) |-> Term(f.node, i)]
      /\ \A i \in 1..(f.next - 1) : present'[Kids[f.node][i]] => Kids[f.node][i] \in Computed(u)'
  BY <1>1, <1>2, <1>3, TermsKept
<1>5. f.op = "write" => f.node \in Computed(u)' /\ f.prefix = cached'[f.node]
  BY DEF FrameOK, Steady
<1>6. f.entry # 0 =>
        /\ f.op = "write"
        /\ Kids[f.node][f.next] \in Computed(u)'
        /\ f.entry = EntryBytes(cached'[Kids[f.node][f.next]], cached'[Kids[f.node][f.next]])
  <2>1. SUFFICES ASSUME f.entry # 0
                 PROVE  /\ f.op = "write"
                        /\ Kids[f.node][f.next] \in Computed(u)'
                        /\ f.entry = EntryBytes(cached'[Kids[f.node][f.next]], cached'[Kids[f.node][f.next]])
    OBVIOUS
  <2>2. /\ f.op = "write"
        /\ Kids[f.node][f.next] \in Computed(u)
        /\ f.entry = EntryBytes(cached[Kids[f.node][f.next]], cached[Kids[f.node][f.next]])
    BY <2>1 DEF FrameOK
  <2>3. /\ Kids[f.node][f.next] \in Computed(u)'
        /\ cached'[Kids[f.node][f.next]] = cached[Kids[f.node][f.next]]
    BY <2>2 DEF Steady
  <2> QED BY <2>2, <2>3
<1>7. f.op \in {"size", "write"} /\ f.acc = [i \in 1..(f.next - 1) |-> Term(f.node, i)]
  BY DEF FrameOK
<1> QED BY <1>1, <1>4, <1>5, <1>6, <1>7 DEF FrameOK

LEMMA ValidKept ==
  ASSUME NEW u \in Thread, Steady(u), Valid(u), Computed(u)' = Computed(u)
  PROVE  Valid(u)'
<1> SUFFICES ASSUME NEW n \in Computed(u)
             PROVE  /\ cached'[n] = Total(n, Terms(n))'
                    /\ \A i \in 1..Len(Kids[n]) : present'[Kids[n][i]] => Kids[n][i] \in Computed(u)'
  BY DEF Valid
<1>1. n \in Node /\ Len(Kids[n]) \in Nat
  BY KidsTyped DEF Computed
<1>2. /\ cached[n] = Total(n, Terms(n))
      /\ \A i \in 1..Len(Kids[n]) : present[Kids[n][i]] => Kids[n][i] \in Computed(u)
  BY DEF Valid
<1>3. /\ [i \in 1..Len(Kids[n]) |-> Term(n, i)]' = [i \in 1..Len(Kids[n]) |-> Term(n, i)]
      /\ \A i \in 1..Len(Kids[n]) : present'[Kids[n][i]] => Kids[n][i] \in Computed(u)'
  BY <1>1, <1>2, TermsKept
<1>4. Terms(n)' = Terms(n)
  BY <1>3 DEF Terms
<1>5. Total(n, Terms(n))' = Total(n, Terms(n))
  BY <1>4 DEF Total, Steady
<1> QED BY <1>2, <1>3, <1>5 DEF Steady

LEMMA LinkKept ==
  ASSUME NEW f, NEW g, Linked(f, g), present' = present
  PROVE  Linked(f, g)'
BY DEF Linked

(* The stack after a step: m frames are kept and g is put on them. *)
LEMMA StackRebuilt ==
  ASSUME NEW u \in Thread, Steady(u), StackOK(u), NEW m \in Nat, m <= Len(stack[u]), NEW g,
         IsSeq(stack'[u]), Len(stack'[u]) = m + 1,
         \A i \in 1..m : stack'[u][i] = stack[u][i],
         stack'[u][m + 1] = g,
         FrameOK(u, g)',
         m > 0 => Linked(stack[u][m], g),
         m = 0 => g.node = Root
  PROVE  StackOK(u)'
<1>1. Len(stack[u]) \in Nat
  BY SeqShape DEF StackOK
<1>2. ASSUME NEW i \in 1..Len(stack'[u])
      PROVE  FrameOK(u, stack[u][i])'
  <2>1. CASE i \in 1..m
    <3>1. PICK f : f = stack[u][i]
      OBVIOUS
    <3>2. FrameOK(u, f)
      BY <1>1, <2>1, <3>1 DEF StackOK
    <3>3. FrameOK(u, f)'
      BY <3>2, FrameKept
    <3> QED BY <2>1, <3>1, <3>3
  <2>2. CASE i = m + 1
    BY <2>2
  <2> QED BY <2>1, <2>2
<1>3. ASSUME NEW i \in 1..(Len(stack'[u]) - 1)
      PROVE  Linked(stack[u][i], stack[u][i+1])'
  <2>1. CASE i < m
    <3>1. i \in 1..(Len(stack[u]) - 1) /\ i \in 1..m /\ i + 1 \in 1..m
      BY <1>1, <2>1
    <3>2. PICK f, h : f = stack[u][i] /\ h = stack[u][i+1]
      OBVIOUS
    <3>3. Linked(f, h)
      BY <3>1, <3>2 DEF StackOK
    <3>4. Linked(f, h)'
      BY <3>3, LinkKept DEF Steady
    <3> QED BY <3>1, <3>2, <3>4
  <2>2. CASE i = m
    <3>1. PICK f : f = stack[u][m]
      OBVIOUS
    <3>2. Linked(f, g)'
      BY <2>2, <3>1, LinkKept DEF Steady
    <3> QED BY <2>2, <3>1, <3>2
  <2> QED BY <2>1, <2>2
<1>4. stack'[u][1].node = Root
  BY <1>1 DEF StackOK
<1>5. stack'[u] # <<>>
  BY SeqShape
<1> QED BY <1>2, <1>3, <1>4, <1>5 DEF StackOK

LEMMA StackKept ==
  ASSUME NEW u \in Thread, Steady(u), StackOK(u), stack'[u] = stack[u], Computed(u)' = Computed(u)
  PROVE  StackOK(u)'
<1>1. ASSUME NEW i \in 1..Len(stack[u])
      PROVE  FrameOK(u, stack[u][i])'
  <2>1. PICK f : f = stack[u][i]
    OBVIOUS
  <2>2. FrameOK(u, f)
    BY <2>1 DEF StackOK
  <2> QED BY <2>1, <2>2, FrameKept
<1>2. ASSUME NEW i \in 1..(Len(stack[u]) - 1)
      PROVE  Linked(stack[u][i], stack[u][i+1])'
  <2>1. PICK f, h : f = stack[u][i] /\ h = stack[u][i+1]
    OBVIOUS
  <2>2. Linked(f, h)
    BY <2>1 DEF StackOK
  <2> QED BY <2>1, <2>2, LinkKept DEF Steady
<1> QED BY <1>1, <1>2 DEF StackOK

-----------------------------------------------------------------------------
LEMMA AppendFunction ==
  ASSUME NEW n \in Nat, NEW g, g = [i \in 1..n |-> g[i]], NEW b
  PROVE  Append(g, b) = [i \in 1..(n + 1) |-> IF i = n + 1 THEN b ELSE g[i]]
<1> DEFINE S == {g[i] : i \in 1..n}
<1>1. [i \in 1..n |-> g[i]] \in [1..n -> S]
  OBVIOUS
<1>2. g \in [1..n -> S]
  BY <1>1, Zenon
<1>3. g \in Seq(S) /\ Len(g) = n
  BY <1>2
<1> HIDE DEF S
<1> QED BY <1>3

LEMMA TopFacts ==
  ASSUME NEW t \in Thread, StackOK(t), ~Idle(t)
  PROVE  /\ IsSeq(stack[t]) /\ Len(stack[t]) \in Nat \ {0}
         /\ FrameOK(t, Top(t))
         /\ Len(stack[t]) = 1 => Top(t).node = Root
         /\ Len(stack[t]) > 1 => FrameOK(t, Caller(t)) /\ Linked(Caller(t), Top(t))
         /\ Len(stack[t]) > 2 => Linked(stack[t][Len(stack[t]) - 2], Caller(t))
<1>1. IsSeq(stack[t]) /\ Len(stack[t]) \in Nat \ {0}
  BY SeqShape DEF StackOK, Idle
<1>2. Len(stack[t]) > 1 => FrameOK(t, Caller(t)) /\ Linked(Caller(t), Top(t))
  <2> SUFFICES ASSUME Len(stack[t]) > 1
               PROVE  FrameOK(t, Caller(t)) /\ Linked(Caller(t), Top(t))
    OBVIOUS
  <2>1. Len(stack[t]) - 1 \in 1..(Len(stack[t]) - 1) /\ (Len(stack[t]) - 1) + 1 = Len(stack[t])
    BY <1>1
  <2> QED BY <1>1, <2>1 DEF StackOK, Top, Caller
<1>3. Len(stack[t]) > 2 => Linked(stack[t][Len(stack[t]) - 2], Caller(t))
  <2> SUFFICES ASSUME Len(stack[t]) > 2
               PROVE  Linked(stack[t][Len(stack[t]) - 2], Caller(t))
    OBVIOUS
  <2>1. Len(stack[t]) - 2 \in 1..(Len(stack[t]) - 1) /\ (Len(stack[t]) - 2) + 1 = Len(stack[t]) - 1
    BY <1>1
  <2> QED BY <1>1, <2>1 DEF StackOK, Caller
<1> QED BY <1>1, <1>2, <1>3 DEF StackOK, Top

(* The frame goes past a field whose bytes are those the field takes. *)
LEMMA FrameAdvanced ==
  ASSUME NEW u \in Thread, NEW f, FrameOK(u, f)', f.next <= Len(Kids[f.node]),
         NEW b, b = Term(f.node, f.next)',
         present'[Kids[f.node][f.next]] => Kids[f.node][f.next] \in Computed(u)'
  PROVE  FrameOK(u, Past(f, b))'
<1> DEFINE h == Past(f, b)
<1>1. /\ h.op = f.op /\ h.node = f.node /\ h.next = f.next + 1
      /\ h.acc = Append(f.acc, b) /\ h.prefix = f.prefix /\ h.entry = 0
  BY DEF Past, Call
<1>2. /\ f.node \in Node /\ Len(Kids[f.node]) \in Nat
      /\ f.next \in Nat \ {0} /\ f.next - 1 \in Nat
  BY KidsTyped DEF FrameOK
<1>3. f.acc = [i \in 1..(f.next - 1) |-> Term(f.node, i)']
  BY DEF FrameOK
<1>4. Append(f.acc, b) = [i \in 1..f.next |-> Term(f.node, i)']
  <2>1. \A i \in 1..(f.next - 1) : f.acc[i] = Term(f.node, i)'
    BY <1>3
  <2>2. f.acc = [i \in 1..(f.next - 1) |-> f.acc[i]]
    BY <1>3
  <2>3. Append(f.acc, b) = [i \in 1..((f.next - 1) + 1) |-> IF i = (f.next - 1) + 1 THEN b ELSE f.acc[i]]
    BY <1>2, <2>2, AppendFunction
  <2>4. (f.next - 1) + 1 = f.next
    BY <1>2
  <2>5. \A i \in 1..f.next : (IF i = f.next THEN b ELSE f.acc[i]) = Term(f.node, i)'
    BY <1>2, <2>1
  <2> QED BY <2>3, <2>4, <2>5
<1>5. \A i \in 1..f.next : present'[Kids[f.node][i]] => Kids[f.node][i] \in Computed(u)'
  BY <1>2 DEF FrameOK
<1>6. h.next \in 1..(Len(Kids[f.node]) + 1) /\ h.next - 1 = f.next
  BY <1>1, <1>2
<1>7. /\ h.op \in {"size", "write"}
      /\ h.op = "write" => h.node \in Computed(u)' /\ h.prefix = cached'[h.node]
  BY <1>1 DEF FrameOK
<1> HIDE DEF h
<1> QED BY <1>1, <1>2, <1>4, <1>5, <1>6, <1>7 DEF FrameOK, h

-----------------------------------------------------------------------------
(* A step of t that stores nothing. *)
LEMMA PureStep ==
  ASSUME Passes, NEW t \in Thread, NEW s, SetStack(t, s),
         UNCHANGED <<message, cached, sized>>, StackOK(t)'
  PROVE  Passes'
<1>1. /\ stack'[t] = s /\ stack' = [u \in Thread |-> stack'[u]]
      /\ \A u \in Thread \ {t} : stack'[u] = stack[u]
  BY DEF SetStack, Passes, Functional
<1>2. own' = own /\ present' = present /\ cached' = cached /\ sized' = sized
  BY DEF message
<1>3. Functional'
  BY <1>1, <1>2 DEF Passes, Functional
<1>4. \A u \in Thread : Steady(u) /\ Computed(u)' = Computed(u)
  BY <1>2 DEF Steady, Computed
<1>5. \A u \in Thread : Valid(u)'
  BY <1>4, ValidKept DEF Passes
<1>6. \A u \in Thread : StackOK(u)'
  BY <1>1, <1>4, StackKept DEF Passes
<1> QED BY <1>3, <1>5, <1>6 DEF Passes

LEMMA SteadyWhenUnchanged ==
  ASSUME NEW u \in Thread, UNCHANGED <<message, cached, sized>>
  PROVE  Steady(u) /\ Computed(u)' = Computed(u)
BY DEF Steady, Computed, message

(* A call that starts is a good frame. *)
LEMMA FreshFrame ==
  ASSUME NEW u \in Thread, NEW op \in {"size", "write"}, NEW n \in Node, NEW p,
         op = "write" => n \in Computed(u)' /\ p = cached'[n]
  PROVE  FrameOK(u, Call(op, n, 1, <<>>, p, 0))'
<1> DEFINE h == Call(op, n, 1, <<>>, p, 0)
<1>1. h.op = op /\ h.node = n /\ h.next = 1 /\ h.acc = <<>> /\ h.prefix = p /\ h.entry = 0
  BY DEF Call
<1>2. <<>> = [i \in 1..(1 - 1) |-> Term(n, i)']
  OBVIOUS
<1>3. 1 \in 1..(Len(Kids[n]) + 1)
  BY KidsTyped
<1> HIDE DEF h
<1> QED BY <1>1, <1>2, <1>3 DEF FrameOK, h

(* A call is pushed and nothing is stored. *)
LEMMA PushPure ==
  ASSUME Passes, NEW t \in Thread, NEW op \in {"size", "write"}, NEW n \in Node, NEW p,
         Push(t, Call(op, n, 1, <<>>, p, 0)), UNCHANGED <<message, cached, sized>>,
         op = "write" => n \in Computed(t) /\ p = cached[n],
         ~Idle(t) => Linked(Top(t), Call(op, n, 1, <<>>, p, 0)),
         Idle(t) => n = Root
  PROVE  Passes'
<1> DEFINE h == Call(op, n, 1, <<>>, p, 0)
<1>1. StackOK(t) /\ IsSeq(stack[t]) /\ Len(stack[t]) \in Nat /\ (Idle(t) <=> Len(stack[t]) = 0)
  BY SeqShape DEF Passes, StackOK, Idle
<1>2. stack'[t] = Append(stack[t], h)
  BY DEF Push, SetStack, Passes, Functional
<1>3. FrameOK(t, h)'
  <2>1. op = "write" => n \in Computed(t)' /\ p = cached'[n]
    BY SteadyWhenUnchanged DEF Steady
  <2> QED BY <2>1, FreshFrame
<1>4. h.node = n
  BY DEF Call
<1> HIDE DEF h
<1>5. /\ IsSeq(stack'[t]) /\ Len(stack'[t]) = Len(stack[t]) + 1
      /\ \A i \in 1..Len(stack[t]) : stack'[t][i] = stack[t][i]
      /\ stack'[t][Len(stack[t]) + 1] = h
  BY <1>1, <1>2, AppendShape
<1>6. Len(stack[t]) > 0 => Linked(stack[t][Len(stack[t])], h)
  BY <1>1 DEF Top, h
<1>7. StackOK(t)'
  BY <1>1, <1>3, <1>4, <1>5, <1>6, StackRebuilt, SteadyWhenUnchanged
<1> QED BY <1>7, PureStep DEF Push

-----------------------------------------------------------------------------
LEMMA EncodeKeeps ==
  ASSUME Passes, NEW t \in Thread, Encode(t)
  PROVE  Passes'
<1>1. Root \in Node
  BY MessageAssumption
<1> QED BY <1>1, PushPure DEF Encode, SizeCall

LEMMA FieldFacts ==
  ASSUME Passes, NEW t \in Thread, NEW op \in {"size", "write"}, AtField(t, op)
  PROVE  /\ ~Idle(t) /\ FrameOK(t, Top(t)) /\ Top(t).op = op
         /\ Top(t).next \in 1..Len(Kids[Top(t).node]) /\ Field(t) \in Node
         /\ Field(t) = Kids[Top(t).node][Top(t).next]
<1>1. ~Idle(t) /\ FrameOK(t, Top(t)) /\ Top(t).op = op /\ Top(t).next <= Len(Kids[Top(t).node])
  BY TopFacts DEF AtField, Passes
<1>2. Top(t).node \in Node /\ Top(t).next \in 1..(Len(Kids[Top(t).node]) + 1) /\ Len(Kids[Top(t).node]) \in Nat
  BY <1>1, KidsTyped DEF FrameOK
<1>3. Top(t).next \in 1..Len(Kids[Top(t).node])
  BY <1>1, <1>2
<1> QED BY <1>1, <1>2, <1>3, KidsTyped DEF Field

LEMMA SizeFieldKeeps ==
  ASSUME Passes, NEW t \in Thread, SizeField(t)
  PROVE  Passes'
<1> DEFINE h == SizeCall(Field(t))
<1>1. ~Idle(t) /\ Top(t).next <= Len(Kids[Top(t).node]) /\ Field(t) \in Node
      /\ Field(t) = Kids[Top(t).node][Top(t).next]
  BY FieldFacts DEF SizeField, AtField
<1>2. h.node = Field(t) /\ h.op = "size"
  BY DEF SizeCall, Call
<1>3. Linked(Top(t), h)
  BY <1>1, <1>2 DEF Linked, SizeField
<1> QED BY <1>1, <1>3, PushPure DEF SizeField, SizeCall

LEMMA SizeEntryKeeps ==
  ASSUME Passes, NEW t \in Thread, SizeEntry(t)
  PROVE  Passes'
<1> DEFINE h == SizeCall(Field(t))
<1>1. ~Idle(t) /\ Top(t).next <= Len(Kids[Top(t).node]) /\ Field(t) \in Node
      /\ Field(t) = Kids[Top(t).node][Top(t).next]
  BY FieldFacts DEF SizeEntry, AtField
<1>2. h.node = Field(t) /\ h.op = "size"
  BY DEF SizeCall, Call
<1>3. Linked(Top(t), h)
  BY <1>1, <1>2 DEF Linked, SizeEntry
<1> QED BY <1>1, <1>3, PushPure DEF SizeEntry, SizeCall

(* The prefix is loaded from a cell this encode has stored: the message on  *)
(* top of the stack is Computed, so its present fields are.                 *)
LEMMA WriteFieldKeeps ==
  ASSUME Passes, NEW t \in Thread, WriteField(t)
  PROVE  Passes'
<1> DEFINE h == WriteCall(Field(t), cached[Field(t)])
<1>1. ~Idle(t) /\ FrameOK(t, Top(t)) /\ Top(t).op = "write"
      /\ Top(t).next \in 1..Len(Kids[Top(t).node]) /\ Field(t) \in Node
      /\ Field(t) = Kids[Top(t).node][Top(t).next]
  BY FieldFacts DEF WriteField
<1>2. h.node = Field(t) /\ h.op = "write"
  BY DEF WriteCall, Call
<1>3. present[Field(t)] /\ (Field(t) \in MapValue => Top(t).entry # 0)
  BY DEF WriteField
<1>4. Linked(Top(t), h)
  <2>1. Top(t).next <= Len(Kids[Top(t).node])
    BY DEF WriteField, AtField
  <2> QED BY <1>1, <1>2, <1>3, <2>1 DEF Linked
<1>5. Top(t).node \in Computed(t)
  BY <1>1 DEF FrameOK
<1>6. Field(t) \in Computed(t)
  BY <1>1, <1>3, <1>5 DEF Passes, Valid
<1> QED BY <1>1, <1>4, <1>6, PushPure DEF WriteField, WriteCall

(* The frame on top is replaced. *)
LEMMA ReplacedTop ==
  ASSUME NEW t \in Thread, StackOK(t), Steady(t), ~Idle(t), NEW g,
         stack'[t] = Append(Below(t), g), FrameOK(t, g)',
         g.node = Top(t).node, g.op = Top(t).op
  PROVE  StackOK(t)'
<1>1. IsSeq(stack[t]) /\ Len(stack[t]) \in Nat \ {0}
  BY TopFacts
<1> DEFINE m == Len(stack[t]) - 1
<1>2. m \in Nat /\ m <= Len(stack[t])
  BY <1>1
<1>3. stack'[t] = Append(SubSeq(stack[t], 1, m), g)
  BY DEF Below
<1>4. /\ IsSeq(stack'[t]) /\ Len(stack'[t]) = m + 1
      /\ \A i \in 1..m : stack'[t][i] = stack[t][i]
      /\ stack'[t][m + 1] = g
  BY <1>1, <1>2, <1>3, CutShape
<1>5. m > 0 => Linked(stack[t][m], g)
  BY <1>1, TopFacts DEF Linked, Caller
<1>6. m = 0 => g.node = Root
  BY <1>1, TopFacts
<1> HIDE DEF m
<1> QED BY <1>2, <1>4, <1>5, <1>6, StackRebuilt

LEMMA SkipUnsetKeeps ==
  ASSUME Passes, NEW t \in Thread, SkipUnset(t)
  PROVE  Passes'
<1> DEFINE h == Past(Top(t), 0)
<1>1. PICK op \in {"size", "write"} : AtField(t, op)
  BY DEF SkipUnset
<1>2. ~Idle(t) /\ FrameOK(t, Top(t)) /\ Top(t).next <= Len(Kids[Top(t).node])
      /\ Field(t) = Kids[Top(t).node][Top(t).next]
  BY <1>1, FieldFacts DEF AtField
<1>3. Steady(t) /\ ~present'[Field(t)]
  BY SteadyWhenUnchanged DEF SkipUnset, message
<1>4. PICK f : f = Top(t)
  OBVIOUS
<1>5. FrameOK(t, f)'
  BY <1>2, <1>3, <1>4, FrameKept
<1>6. 0 = Term(f.node, f.next)'
  BY <1>2, <1>3, <1>4 DEF Term
<1>7. FrameOK(t, Past(f, 0))'
  BY <1>2, <1>3, <1>4, <1>5, <1>6, FrameAdvanced
<1>8. Past(f, 0).node = f.node /\ Past(f, 0).op = f.op
  BY DEF Past, Call
<1>9. stack'[t] = Append(Below(t), Past(f, 0))
  BY <1>4 DEF SkipUnset, SetStack, Passes, Functional
<1>10. StackOK(t)'
  BY <1>2, <1>3, <1>4, <1>7, <1>8, <1>9, ReplacedTop DEF Passes
<1> QED BY <1>10, PureStep DEF SkipUnset

-----------------------------------------------------------------------------
(* The call on top returns and its caller's frame is replaced. *)
LEMMA ReturnedInto ==
  ASSUME NEW t \in Thread, StackOK(t), Steady(t), Len(stack[t]) > 1, NEW g,
         stack'[t] = Append(SubSeq(stack[t], 1, Len(stack[t]) - 2), g), FrameOK(t, g)',
         g.node = Caller(t).node, g.op = Caller(t).op
  PROVE  StackOK(t)'
<1>1. IsSeq(stack[t]) /\ Len(stack[t]) \in Nat
  BY SeqShape DEF StackOK
<1>2. ~Idle(t)
  BY <1>1, SeqShape DEF Idle
<1> DEFINE m == Len(stack[t]) - 2
<1>3. m \in Nat /\ m <= Len(stack[t])
  BY <1>1
<1>4. /\ IsSeq(stack'[t]) /\ Len(stack'[t]) = m + 1
      /\ \A i \in 1..m : stack'[t][i] = stack[t][i]
      /\ stack'[t][m + 1] = g
  BY <1>1, <1>3, CutShape
<1>5. m > 0 => Linked(stack[t][m], g)
  BY <1>1, <1>2, TopFacts DEF Linked
<1>6. m = 0 => g.node = Root
  BY <1>1 DEF StackOK, Caller
<1> HIDE DEF m
<1> QED BY <1>3, <1>4, <1>5, <1>6, StackRebuilt

(* At the end of its fields a call has added up the whole message. *)
LEMMA EndFacts ==
  ASSUME Passes, NEW t \in Thread, NEW op \in {"size", "write"}, AtEnd(t, op)
  PROVE  /\ ~Idle(t) /\ FrameOK(t, Top(t)) /\ Top(t).op = op /\ Top(t).node \in Node
         /\ Top(t).acc = Terms(Top(t).node)
         /\ Result(t) = Total(Top(t).node, Terms(Top(t).node))
         /\ \A i \in 1..Len(Kids[Top(t).node]) :
              present[Kids[Top(t).node][i]] => Kids[Top(t).node][i] \in Computed(t)
         /\ op = "write" => Result(t) = cached[Top(t).node] /\ Top(t).prefix = cached[Top(t).node]
<1>1. ~Idle(t) /\ FrameOK(t, Top(t)) /\ Top(t).op = op /\ Top(t).next > Len(Kids[Top(t).node])
  BY TopFacts DEF AtEnd, Passes
<1>2. Top(t).node \in Node /\ Len(Kids[Top(t).node]) \in Nat /\ Top(t).next - 1 = Len(Kids[Top(t).node])
  BY <1>1, KidsTyped DEF FrameOK
<1>3. /\ Top(t).acc = [i \in 1..(Top(t).next - 1) |-> Term(Top(t).node, i)]
      /\ \A i \in 1..(Top(t).next - 1) :
           present[Kids[Top(t).node][i]] => Kids[Top(t).node][i] \in Computed(t)
      /\ op = "write" => Top(t).node \in Computed(t) /\ Top(t).prefix = cached[Top(t).node]
  BY <1>1 DEF FrameOK
<1>4. Top(t).acc = Terms(Top(t).node)
  BY <1>2, <1>3 DEF Terms
<1>5. Result(t) = Total(Top(t).node, Terms(Top(t).node))
  BY <1>4 DEF Result
<1>6. op = "write" => Result(t) = cached[Top(t).node]
  BY <1>3, <1>5 DEF Passes, Valid
<1> QED BY <1>1, <1>2, <1>3, <1>4, <1>5, <1>6

(* Prefix, entry length and bytes written agree, so the caller accounts for *)
(* the field with the bytes that compute_size counted.                      *)
LEMMA WriteToParentKeeps ==
  ASSUME Passes, NEW t \in Thread, WriteToParent(t)
  PROVE  Passes'
<1> PICK f, g : f = Caller(t) /\ g = Top(t)
  OBVIOUS
<1>0. PICK b : b = FieldWritten(g.node, f.entry, g.prefix, Result(t))
  OBVIOUS
<1>1. /\ ~Idle(t) /\ g.op = "write" /\ g.node \in Node
      /\ Result(t) = cached[g.node] /\ g.prefix = cached[g.node]
  BY EndFacts DEF WriteToParent
<1>2. Len(stack[t]) > 1 /\ FrameOK(t, f) /\ Linked(f, g)
  BY <1>1, TopFacts DEF WriteToParent, Passes
<1>3. /\ f.next <= Len(Kids[f.node]) /\ g.node = Kids[f.node][f.next] /\ present[g.node]
      /\ f.op = "write" /\ (g.node \in MapValue => f.entry # 0)
  BY <1>1, <1>2 DEF Linked
<1>4. f.node \in Node /\ Len(Kids[f.node]) \in Nat /\ f.next \in 1..Len(Kids[f.node])
  BY <1>2, <1>3, KidsTyped DEF FrameOK
<1>5. g.node \in Computed(t)
  BY <1>2, <1>3, <1>4 DEF Passes, Valid, FrameOK
<1>6. g.node \in MapValue => f.entry = EntryBytes(cached[g.node], cached[g.node])
  BY <1>2, <1>3 DEF FrameOK
<1>7. b = FieldBytes(g.node, cached[g.node])
  BY <1>0, <1>1, <1>6 DEF FieldWritten, FieldBytes
<1>8. Steady(t) /\ present' = present /\ cached' = cached /\ Computed(t)' = Computed(t)
  BY SteadyWhenUnchanged DEF WriteToParent, message
<1>9. b = Term(f.node, f.next)'
  BY <1>3, <1>7, <1>8 DEF Term
<1>10. FrameOK(t, f)'
  BY <1>2, <1>8, FrameKept
<1>11. FrameOK(t, Past(f, b))'
  BY <1>3, <1>5, <1>8, <1>9, <1>10, FrameAdvanced
<1>12. Past(f, b).node = f.node /\ Past(f, b).op = f.op
  BY DEF Past, Call
<1>13. stack'[t] = Append(SubSeq(stack[t], 1, Len(stack[t]) - 2), Past(f, b))
  BY <1>0 DEF WriteToParent, ReturnInto, SetStack, Passes, Functional
<1>14. StackOK(t)'
  BY <1>2, <1>8, <1>11, <1>12, <1>13, ReturnedInto DEF Passes
<1> QED BY <1>14, PureStep DEF WriteToParent, ReturnInto

-----------------------------------------------------------------------------
(***************************************************************************)
(* A store.  An encode that has already stored the size of this message    *)
(* has added up the same terms, so it finds the same number there; for any *)
(* other encode the cell means nothing yet.                                *)
(***************************************************************************)
LEMMA StoreIsSteady ==
  ASSUME Passes, NEW t \in Thread, Store(t)
  PROVE  /\ \A u \in Thread : Steady(u)
         /\ \A u \in Thread \ {t} : Computed(u)' = Computed(u)
         /\ Computed(t)' = Computed(t) \cup {Top(t).node}
         /\ cached'[Top(t).node] = Result(t)
         /\ cached' = [n \in Node |-> cached'[n]] /\ own' = own
         /\ sized' \in [Thread -> [Node -> Nat]]
<1> PICK k : k = Top(t).node
  OBVIOUS
<1>1. k \in Node /\ Result(t) = Total(k, Terms(k))
  BY EndFacts DEF Store
<1>2. cached' = [cached EXCEPT ![k] = Result(t)] /\ sized' = [sized EXCEPT ![t][k] = @ + 1]
  BY DEF Store, Result
<1>3. own' = own /\ present' = present
  BY DEF Store, message
<1>4. /\ cached' = [n \in Node |-> cached'[n]] /\ cached'[k] = Result(t)
      /\ \A n \in Node \ {k} : cached'[n] = cached[n]
  BY <1>1, <1>2 DEF Passes, Functional
<1>5. /\ sized' \in [Thread -> [Node -> Nat]]
      /\ \A u \in Thread \ {t} : sized'[u] = sized[u]
      /\ \A n \in Node \ {k} : sized'[t][n] = sized[t][n]
      /\ sized'[t][k] = sized[t][k] + 1 /\ sized[t][k] \in Nat
  BY <1>1, <1>2 DEF Passes, Functional
<1>6. \A u \in Thread \ {t} : Computed(u)' = Computed(u)
  BY <1>5 DEF Computed
<1>7. Computed(t)' = Computed(t) \cup {k}
  BY <1>1, <1>5 DEF Computed
<1>8. ASSUME NEW u \in Thread, NEW n \in Computed(u)
      PROVE  cached'[n] = cached[n]
  <2>1. CASE n = k
    <3>1. cached[k] = Total(k, Terms(k))
      BY <2>1 DEF Passes, Valid
    <3> QED BY <1>1, <1>4, <2>1, <3>1
  <2>2. CASE n # k
    BY <1>4, <2>2 DEF Computed
  <2> QED BY <2>1, <2>2
<1>9. \A u \in Thread : Steady(u)
  BY <1>3, <1>6, <1>7, <1>8 DEF Steady
<1> QED BY <1>3, <1>4, <1>5, <1>6, <1>7, <1>9

LEMMA StoreStep ==
  ASSUME Passes, NEW t \in Thread, NEW s, Store(t), SetStack(t, s), StackOK(t)'
  PROVE  Passes'
<1> PICK k : k = Top(t).node
  OBVIOUS
<1>1. /\ stack' = [u \in Thread |-> stack'[u]]
      /\ \A u \in Thread \ {t} : stack'[u] = stack[u]
  BY DEF SetStack, Passes, Functional
<1>2. Functional'
  BY <1>1, StoreIsSteady DEF Passes, Functional
<1>3. \A u \in Thread \ {t} : Valid(u)' /\ StackOK(u)'
  BY <1>1, StoreIsSteady, ValidKept, StackKept DEF Passes
<1>4. /\ k \in Node /\ Result(t) = Total(k, Terms(k))
      /\ \A i \in 1..Len(Kids[k]) : present[Kids[k][i]] => Kids[k][i] \in Computed(t)
  BY EndFacts DEF Store
<1>5. Steady(t) /\ cached'[k] = Result(t) /\ Computed(t)' = Computed(t) \cup {k}
  BY StoreIsSteady
<1>6. ASSUME NEW n \in Node,
             \A i \in 1..Len(Kids[n]) : present[Kids[n][i]] => Kids[n][i] \in Computed(t)
      PROVE  /\ Total(n, Terms(n))' = Total(n, Terms(n))
             /\ \A i \in 1..Len(Kids[n]) : present'[Kids[n][i]] => Kids[n][i] \in Computed(t)'
  <2>1. Len(Kids[n]) \in Nat
    BY KidsTyped
  <2>2. /\ [i \in 1..Len(Kids[n]) |-> Term(n, i)]' = [i \in 1..Len(Kids[n]) |-> Term(n, i)]
        /\ \A i \in 1..Len(Kids[n]) : present'[Kids[n][i]] => Kids[n][i] \in Computed(t)'
    BY <1>5, <1>6, <2>1, TermsKept
  <2>3. Terms(n)' = Terms(n)
    BY <2>2 DEF Terms
  <2> QED BY <1>5, <2>2, <2>3 DEF Total, Steady
<1>7. Valid(t)'
  <2> SUFFICES ASSUME NEW n \in Computed(t)'
               PROVE  /\ cached'[n] = Total(n, Terms(n))'
                      /\ \A i \in 1..Len(Kids[n]) : present'[Kids[n][i]] => Kids[n][i] \in Computed(t)'
    BY DEF Valid
  <2>1. CASE n = k
    BY <1>4, <1>5, <1>6, <2>1
  <2>2. CASE n \in Computed(t)
    <3>1. /\ n \in Node /\ cached[n] = Total(n, Terms(n)) /\ cached'[n] = cached[n]
          /\ \A i \in 1..Len(Kids[n]) : present[Kids[n][i]] => Kids[n][i] \in Computed(t)
      BY <1>5, <2>2 DEF Passes, Valid, Steady, Computed
    <3> QED BY <1>6, <3>1
  <2> QED BY <1>5, <2>1, <2>2
<1> QED BY <1>2, <1>3, <1>7 DEF Passes

LEMMA SizeDoneKeeps ==
  ASSUME Passes, NEW t \in Thread, SizeDone(t)
  PROVE  Passes'
<1>0. PICK p : p = Result(t)
  OBVIOUS
<1>1. Store(t) /\ Len(stack[t]) = 1 /\ SetStack(t, <<WriteCall(Root, p)>>)
  BY <1>0 DEF SizeDone
<1>2. Top(t).node = Root /\ Root \in Node
  BY <1>1, EndFacts, TopFacts, MessageAssumption DEF Store, Passes
<1>3. Root \in Computed(t)' /\ p = cached'[Root] /\ Steady(t)
  BY <1>0, <1>1, <1>2, StoreIsSteady
<1>4. FrameOK(t, WriteCall(Root, p))'
  BY <1>2, <1>3, FreshFrame DEF WriteCall
<1> DEFINE h == WriteCall(Root, p)
<1>5. h.node = Root
  BY DEF WriteCall, Call
<1>6. stack'[t] = <<h>>
  BY <1>1 DEF SetStack, Passes, Functional
<1> HIDE DEF h
<1>7. IsSeq(stack'[t]) /\ Len(stack'[t]) = 0 + 1 /\ stack'[t][0 + 1] = h
  <2>1. IsSeq(<<h>>) /\ Len(<<h>>) = 1 /\ <<h>>[1] = h
    BY EmptyAndSingle
  <2> QED BY <1>6, <2>1
<1>8. StackOK(t)'
  BY <1>1, <1>3, <1>4, <1>5, <1>7, StackRebuilt DEF h, Passes
<1> QED BY <1>1, <1>8, StoreStep

LEMMA SizeToParentKeeps ==
  ASSUME Passes, NEW t \in Thread, SizeToParent(t)
  PROVE  Passes'
<1> PICK f, k : f = Caller(t) /\ k = Top(t).node
  OBVIOUS
<1>0. PICK b : b = FieldBytes(k, Result(t))
  OBVIOUS
<1>1. Store(t) /\ Len(stack[t]) > 1 /\ ReturnInto(t, Past(f, b))
  BY <1>0 DEF SizeToParent
<1>2. ~Idle(t) /\ FrameOK(t, f) /\ f.next <= Len(Kids[f.node]) /\ k = Kids[f.node][f.next] /\ present[k]
  BY <1>1, EndFacts, TopFacts DEF Store, Linked, Passes
<1>3. k \in Computed(t)' /\ Result(t) = cached'[k] /\ Steady(t)
  BY <1>1, StoreIsSteady
<1>4. FrameOK(t, f)' /\ present' = present
  BY <1>2, <1>3, FrameKept DEF Steady
<1>5. b = Term(f.node, f.next)'
  BY <1>0, <1>2, <1>3, <1>4 DEF Term
<1>6. FrameOK(t, Past(f, b))'
  BY <1>2, <1>3, <1>4, <1>5, FrameAdvanced
<1>7. Past(f, b).node = f.node /\ Past(f, b).op = f.op
  BY DEF Past, Call
<1>8. stack'[t] = Append(SubSeq(stack[t], 1, Len(stack[t]) - 2), Past(f, b))
  BY <1>1 DEF ReturnInto, SetStack, Passes, Functional
<1>9. StackOK(t)'
  BY <1>1, <1>3, <1>6, <1>7, <1>8, ReturnedInto DEF Passes
<1> QED BY <1>1, <1>9, StoreStep DEF ReturnInto

LEMMA SizeToEntryKeeps ==
  ASSUME Passes, NEW t \in Thread, SizeToEntry(t)
  PROVE  Passes'
<1> PICK f, k : f = Caller(t) /\ k = Top(t).node
  OBVIOUS
<1>0. PICK e : e = EntryBytes(Result(t), Result(t))
  OBVIOUS
<1> DEFINE h == WithEntry(f, e)
<1>1. Store(t) /\ Len(stack[t]) > 1 /\ ReturnInto(t, h)
  BY <1>0 DEF SizeToEntry
<1>2. ~Idle(t) /\ FrameOK(t, f) /\ k = Kids[f.node][f.next] /\ f.op = "write"
  BY <1>1, EndFacts, TopFacts DEF Store, Linked, Passes, SizeToEntry
<1>3. k \in Computed(t)' /\ Result(t) = cached'[k] /\ Steady(t)
  BY <1>1, StoreIsSteady
<1>4. FrameOK(t, f)'
  BY <1>2, <1>3, FrameKept
<1>5. /\ h.op = f.op /\ h.node = f.node /\ h.next = f.next
      /\ h.acc = f.acc /\ h.prefix = f.prefix /\ h.entry = e
  BY DEF WithEntry, Call
<1>6. stack'[t] = Append(SubSeq(stack[t], 1, Len(stack[t]) - 2), h)
  BY <1>1 DEF ReturnInto, SetStack, Passes, Functional
<1> HIDE DEF h
<1>7. e = EntryBytes(cached'[k], cached'[k])
  BY <1>0, <1>3
<1>8. FrameOK(t, h)'
  BY <1>2, <1>3, <1>4, <1>5, <1>7 DEF FrameOK, h
<1>9. StackOK(t)'
  BY <1>1, <1>3, <1>5, <1>6, <1>8, ReturnedInto DEF Passes, h
<1> QED BY <1>1, <1>9, StoreStep DEF ReturnInto, h

-----------------------------------------------------------------------------
LEMMA WriteDoneKeeps ==
  ASSUME Passes, NEW t \in Thread, WriteDone(t)
  PROVE  Passes'
<1>1. /\ own' = own /\ present' = present /\ cached' = cached
      /\ stack' = [stack EXCEPT ![t] = <<>>] /\ sized' = [sized EXCEPT ![t] = NoCount]
  BY DEF WriteDone, SetStack, message
<1>2. Functional'
  BY <1>1 DEF Passes, Functional, NoCount
<1>3. ASSUME NEW u \in Thread, u # t
      PROVE  Valid(u)' /\ StackOK(u)'
  <2>1. stack'[u] = stack[u] /\ Computed(u)' = Computed(u)
    BY <1>1, <1>3 DEF Computed, Passes, Functional
  <2>2. Steady(u)
    BY <1>1, <2>1 DEF Steady
  <2> QED BY <2>1, <2>2, ValidKept, StackKept DEF Passes
<1>4. stack'[t] = <<>> /\ sized'[t] = NoCount
  BY <1>1 DEF Passes, Functional
<1>5. Computed(t)' = {}
  BY <1>4 DEF Computed, NoCount
<1>6. Valid(t)'
  BY <1>5 DEF Valid
<1>7. StackOK(t)'
  BY <1>4, <1>5, EmptyAndSingle DEF StackOK
<1> QED BY <1>2, <1>3, <1>6, <1>7 DEF Passes

(* With exclusive access nobody relies on a cell. *)
LEMMA OwnerKeeps ==
  ASSUME Passes, Owner
  PROVE  Passes'
<1> DEFINE Rest == /\ Exclusive /\ stack' = stack /\ sized' = sized
                   /\ own' = [n \in Node |-> own'[n]] /\ cached' = [n \in Node |-> cached'[n]]
<1>1. Rest
  <2>1. ASSUME NEW n \in Node, NEW s \in OwnSizes, SetScalars(n, s)
        PROVE  Rest
    BY <2>1 DEF SetScalars, Passes, Functional
  <2>2. ASSUME NEW k \in Node \ {Root}, InsertDefault(k)
        PROVE  Rest
    BY <2>2 DEF InsertDefault, Passes, Functional
  <2>3. ASSUME NEW k \in Node \ {Root}, Unset(k)
        PROVE  Rest
    BY <2>3 DEF Unset, Passes, Functional
  <2>4. CASE Clear
    BY <2>4 DEF Clear, Passes, Functional
  <2>5. CASE Clone
    BY <2>5 DEF Clone, message, Passes, Functional
  <2>6. ASSUME NEW k \in Node \ {Root}, PutBack(k)
        PROVE  Rest
    BY <2>6 DEF PutBack, Passes, Functional
  <2> QED BY <2>1, <2>2, <2>3, <2>4, <2>5, <2>6 DEF Owner
<1>2. ASSUME NEW u \in Thread
      PROVE  stack'[u] = <<>> /\ Computed(u)' = {}
  BY <1>1 DEF Exclusive, Idle, Passes, StackOK, Computed
<1>3. ASSUME NEW u \in Thread
      PROVE  Valid(u)' /\ StackOK(u)'
  BY <1>2, EmptyAndSingle DEF Valid, StackOK
<1> QED BY <1>1, <1>3 DEF Passes, Functional

LEMMA InitPasses == Init => Passes
<1> SUFFICES ASSUME Init PROVE Passes
  OBVIOUS
<1>1. Functional
  BY DEF Init, Functional, NoCount
<1>2. ASSUME NEW u \in Thread
      PROVE  stack[u] = <<>> /\ Computed(u) = {}
  BY DEF Init, Computed, NoCount
<1>3. ASSUME NEW u \in Thread
      PROVE  Valid(u) /\ StackOK(u)
  BY <1>2, EmptyAndSingle DEF Valid, StackOK
<1> QED BY <1>1, <1>3 DEF Passes

LEMMA StutterKeeps ==
  ASSUME Passes, UNCHANGED vars
  PROVE  Passes'
<1>1. own' = own /\ present' = present /\ cached' = cached /\ stack' = stack /\ sized' = sized
  BY DEF vars
<1>2. Functional'
  BY <1>1 DEF Functional, Passes
<1>3. ASSUME NEW u \in Thread
      PROVE  Valid(u)' /\ StackOK(u)'
  <2>1. Steady(u) /\ Computed(u)' = Computed(u) /\ stack'[u] = stack[u]
    BY <1>1 DEF Steady, Computed
  <2> QED BY <2>1, ValidKept, StackKept DEF Passes
<1> QED BY <1>2, <1>3 DEF Passes

LEMMA StepPasses == Passes /\ [Next]_vars => Passes'
<1> SUFFICES ASSUME Passes, [Next]_vars PROVE Passes'
  OBVIOUS
<1>1. ASSUME NEW t \in Thread, Pass(t)
      PROVE  Passes'
  BY <1>1, SkipUnsetKeeps, SizeFieldKeeps, SizeDoneKeeps, SizeToParentKeeps, SizeToEntryKeeps,
     SizeEntryKeeps, WriteFieldKeeps, WriteToParentKeeps, WriteDoneKeeps DEF Pass
<1> QED BY <1>1, EncodeKeeps, OwnerKeeps, StutterKeeps DEF Next

(* Whatever the shape of the message, the number of encoders and the history *)
(* of changes, the encoders keep the invariant (CachedSize, encode and the   *)
(* generated compute_size and write_to).                                     *)
THEOREM PassesAlways == Spec => []Passes
BY InitPasses, StepPasses, PTL DEF Spec

-----------------------------------------------------------------------------
(* The length prefix of every message is the number of bytes write_to then   *)
(* puts out, and the size encode asserts at the end is the buffer's length.  *)
THEOREM PrefixesAreExact == Spec => []PrefixExact
<1>1. Passes => PrefixExact
  BY EndFacts DEF PrefixExact
<1> QED BY <1>1, PassesAlways, PTL

(* The length announced for a map entry is right for the prefix that the     *)
(* value inside it then gets from its cell.                                  *)
THEOREM EntriesAreExact == Spec => []EntryExact
<1>1. Passes => EntryExact
  <2> SUFFICES ASSUME Passes, NEW t \in Thread, NEW i \in Calls(t, "write"),
                      i > 1, stack[t][i].node \in MapValue
               PROVE  stack[t][i-1].entry = EntryBytes(stack[t][i].prefix, stack[t][i].prefix)
    BY DEF EntryExact
  <2>1. StackOK(t) /\ Len(stack[t]) \in Nat
    BY SeqShape DEF Passes, StackOK
  <2>2. i \in 1..Len(stack[t]) /\ stack[t][i].op = "write"
    BY DEF Calls
  <2>3. i - 1 \in 1..(Len(stack[t]) - 1) /\ i - 1 \in 1..Len(stack[t]) /\ (i - 1) + 1 = i
    BY <2>1, <2>2
  <2>4. FrameOK(t, stack[t][i]) /\ FrameOK(t, stack[t][i-1])
    BY <2>1, <2>2, <2>3 DEF StackOK
  <2>5. Linked(stack[t][i-1], stack[t][i])
    BY <2>1, <2>3 DEF StackOK
  <2>6. /\ stack[t][i].prefix = cached[stack[t][i].node]
        /\ stack[t][i-1].entry # 0
        /\ stack[t][i].node = Kids[stack[t][i-1].node][stack[t][i-1].next]
    BY <2>2, <2>4, <2>5 DEF FrameOK, Linked
  <2> QED BY <2>4, <2>6 DEF FrameOK
<1> QED BY <1>1, PassesAlways, PTL

(* No cell changes between the moment a prefix is loaded from it and the end *)
(* of the message that follows, although all encoders store to the cells.    *)
THEOREM CellsAreSettled == Spec => []CellsSettled
<1>1. Passes => CellsSettled
  <2> SUFFICES ASSUME Passes, NEW t \in Thread, NEW i \in Calls(t, "write")
               PROVE  stack[t][i].prefix = cached[stack[t][i].node]
    BY DEF CellsSettled
  <2>1. FrameOK(t, stack[t][i]) /\ stack[t][i].op = "write"
    BY DEF Calls, Passes, StackOK
  <2> QED BY <2>1 DEF FrameOK
<1> QED BY <1>1, PassesAlways, PTL

(* A cell that some encode in progress has stored is never altered, neither *)
(* by another encoder's store nor by the owner.                             *)
THEOREM NoStoreIsLost == Spec => NoLostStore
<1>1. ASSUME Passes, [Next]_vars, NEW u \in Thread, NEW n \in Node, sized[u][n] > 0
      PROVE  cached'[n] = cached[n]
  <2>1. n \in Computed(u)
    BY <1>1 DEF Computed
  <2>2. CASE Owner
    <3>1. stack[u] = <<>>
      BY <2>2 DEF Owner, SetScalars, InsertDefault, PutBack, Unset, Clear, Clone, Exclusive, Idle
    <3>2. Computed(u) = {}
      BY <1>1, <3>1 DEF Passes, StackOK
    <3> QED BY <2>1, <3>2
  <2>3. ASSUME NEW t \in Thread, Store(t)
        PROVE  cached'[n] = cached[n]
    BY <1>1, <2>1, <2>3, StoreIsSteady DEF Steady
  <2>4. ASSUME NEW t \in Thread, Encode(t) \/ Pass(t)
        PROVE  cached' = cached \/ Store(t)
    BY <2>4 DEF Encode, Pass, SkipUnset, SizeField, SizeDone, SizeToParent, SizeToEntry,
                SizeEntry, WriteField, WriteToParent, WriteDone
  <2>5. CASE UNCHANGED vars
    BY <2>5 DEF vars
  <2> QED BY <1>1, <2>2, <2>3, <2>4, <2>5 DEF Next
<1>2. Passes /\ [Next]_vars =>
        [\A u \in Thread, n \in Node :
           sized[u][n] > 0 /\ sized'[u][n] > 0 => cached'[n] = cached[n]]_vars
  BY <1>1
<1> QED BY <1>2, PassesAlways, PTL DEF Spec, NoLostStore
=============================================================================
