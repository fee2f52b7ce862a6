----------------------- MODULE AssistantMessageProofs -----------------------
(***************************************************************************)
(* What AssistantMessage promises TaskTurn, for every set of tools and of  *)
(* parameters, every answer and every way to cut it into chunks: the form  *)
(* of the blocks, that an answer which is not ambiguous only grows, and    *)
(* that an answer that can be told apart is understood as it was meant.    *)
(***************************************************************************)
EXTENDS AssistantMessage, SequenceTheorems, WellFoundedInduction, TLAPS

-----------------------------------------------------------------------------
(* Numbers and recursion. *)

\* A set of numbers that is not empty has a least element.
LEMMA Least ==
  ASSUME NEW S, S \subseteq Nat, S # {}
  PROVE  \E n \in S : \A k \in S : n <= k
<1>1. PICK n \in S : \A k \in S : ~(<<k, n>> \in OpToRel(<, Nat))
  BY NatLessThanWellFounded, WFMin
<1>2. \A k \in S : ~(k < n)
  BY <1>1 DEF OpToRel
<1> QED
  BY <1>2

\* What holds at 0 and passes from a number to the next one up to N, holds up to N.
LEMMA Upward ==
  ASSUME NEW N \in Nat, NEW T, 0 \in T,
         \A n \in 0..N : n # N /\ n \in T => n + 1 \in T
  PROVE  0..N \subseteq T
<1> DEFINE S == {n \in 0..N : n \notin T}
<1> SUFFICES ASSUME S # {} PROVE FALSE
  OBVIOUS
<1>1. PICK n \in S : \A k \in S : n <= k
  <2>1. S \subseteq Nat
    OBVIOUS
  <2> QED
    BY <2>1, Least
<1>2. n # 0 /\ n - 1 \in 0..N /\ n - 1 # N /\ n = (n - 1) + 1
  BY <1>1
<1>3. n - 1 \notin S
  BY <1>1, <1>2
<1> QED
  BY <1>1, <1>2, <1>3

\* The state before the first token, and the state after each one.
LEMMA ScanIs ==
  ASSUME NEW m, Len(m) \in Nat
  PROVE  /\ Scan(m)[0] = Start
         /\ \A i \in 1..Len(m) : Scan(m)[i] = AtToken(m, Scan(m)[i - 1], i)
<1> DEFINE Good(g, n) == g = [i \in 0..n |-> IF i = 0 THEN Start ELSE AtToken(m, g[i - 1], i)]
           T == {n \in 0..Len(m) : \E g : Good(g, n)}
<1>1. 0 \in T
  <2> DEFINE g == [i \in 0..0 |-> Start]
  <2>1. Good(g, 0)
    OBVIOUS
  <2> HIDE DEF g, Good
  <2> QED
    BY <2>1
<1>2. ASSUME NEW n \in 0..Len(m), n # Len(m), n \in T PROVE n + 1 \in T
  <2>1. PICK g : Good(g, n)
    BY <1>2
  <2> DEFINE h == [i \in 0..n + 1 |-> IF i = n + 1 THEN AtToken(m, g[n], i) ELSE g[i]]
  <2>2. \A i \in 0..n : h[i] = g[i]
    OBVIOUS
  <2>3. ASSUME NEW i \in 0..n + 1
        PROVE  h[i] = IF i = 0 THEN Start ELSE AtToken(m, h[i - 1], i)
    <3>1. CASE i = n + 1
      <4>1. h[i] = AtToken(m, g[n], i) /\ i # 0 /\ i - 1 = n /\ n \in 0..n
        BY <3>1
      <4> QED
        BY <4>1, <2>2
    <3>2. CASE i = 0
      <4>1. h[i] = g[0] /\ g[0] = Start
        BY <3>2, <2>1
      <4> QED
        BY <4>1, <3>2
    <3>3. CASE i # n + 1 /\ i # 0
      <4>1. i \in 0..n /\ i - 1 \in 0..n
        BY <3>3
      <4>2. h[i] = g[i] /\ h[i - 1] = g[i - 1]
        BY <4>1, <2>2
      <4>3. g[i] = AtToken(m, g[i - 1], i)
        BY <4>1, <3>3, <2>1
      <4> QED
        BY <4>2, <4>3, <3>3
    <3> QED
      BY <3>1, <3>2, <3>3
  <2>4. Good(h, n + 1)
    <3> DEFINE f == [i \in 0..n + 1 |-> IF i = 0 THEN Start ELSE AtToken(m, h[i - 1], i)]
    <3>1. \A i \in 0..n + 1 : h[i] = f[i]
      BY <2>3
    <3>2. h = [i \in 0..n + 1 |-> h[i]]
      OBVIOUS
    <3>3. f = [i \in 0..n + 1 |-> f[i]]
      OBVIOUS
    <3> HIDE DEF h, f
    <3>4. h = f
      BY <3>1, <3>2, <3>3
    <3> QED
      BY <3>4 DEF f
  <2>5. n + 1 \in 0..Len(m)
    BY <1>2
  <2> QED
    BY <2>4, <2>5
<1>3. 0..Len(m) \subseteq T
  <2> HIDE DEF T
  <2> QED
    BY <1>1, <1>2, Upward
<1>4. \E g : Good(g, Len(m))
  BY <1>3
<1>5. Scan(m) = CHOOSE g : Good(g, Len(m))
  BY DEF Scan
<1>6. Good(Scan(m), Len(m))
  BY <1>4, <1>5
<1> QED
  BY <1>6

\* FlattenSeq puts its sequences one after another.
LEMMA FlattenIs ==
  ASSUME NEW S, NEW q \in Seq(Seq(S)), q # <<>>
  PROVE  \E f : /\ f[1] = q[1]
                /\ \A i \in 2..Len(q) : f[i] = f[i - 1] \o q[i]
                /\ FlattenSeq(q) = f[Len(q)]
<1> DEFINE Good(g, n) == g = [i \in 1..n |-> IF i = 1 THEN q[i] ELSE g[i - 1] \o q[i]]
           T == {n \in 0..Len(q) : \E g : Good(g, n)}
<1>0. Len(q) \in Nat /\ Len(q) # 0
  BY EmptySeq
<1>1. 0 \in T
  <2> DEFINE g == [i \in 1..0 |-> q[i]]
  <2>1. Good(g, 0)
    OBVIOUS
  <2> HIDE DEF g, Good
  <2> QED
    BY <2>1, <1>0
<1>2. ASSUME NEW n \in 0..Len(q), n # Len(q), n \in T PROVE n + 1 \in T
  <2>1. PICK g : Good(g, n)
    BY <1>2
  <2> DEFINE h == [i \in 1..n + 1 |-> IF i # n + 1 THEN g[i] ELSE IF i = 1 THEN q[i] ELSE g[n] \o q[i]]
  <2>2. \A i \in 1..n : h[i] = g[i]
    OBVIOUS
  <2>3. ASSUME NEW i \in 1..n + 1
        PROVE  h[i] = IF i = 1 THEN q[i] ELSE h[i - 1] \o q[i]
    <3>1. CASE i = n + 1 /\ i # 1
      <4>1. i - 1 = n /\ n \in 1..n
        BY <3>1
      <4>3. h[i] = g[n] \o q[i]
        BY <3>1, Zenon
      <4> QED
        BY <4>1, <4>3, <2>2, <3>1
    <3>2. CASE i = n + 1 /\ i = 1
      BY <3>2
    <3>3. CASE i # n + 1 /\ i = 1
      <4>1. h[i] = g[i] /\ i \in 1..n
        BY <3>3
      <4> QED
        BY <4>1, <2>1, <3>3
    <3>4. CASE i # n + 1 /\ i # 1
      <4>1. i \in 1..n /\ i - 1 \in 1..n
        BY <3>4
      <4>2. h[i] = g[i] /\ h[i - 1] = g[i - 1]
        BY <4>1, <2>2
      <4>3. g[i] = g[i - 1] \o q[i]
        BY <4>1, <3>4, <2>1
      <4> QED
        BY <4>2, <4>3, <3>4
    <3> QED
      BY <3>1, <3>2, <3>3, <3>4
  <2>4. Good(h, n + 1)
    <3> DEFINE f == [i \in 1..n + 1 |-> IF i = 1 THEN q[i] ELSE h[i - 1] \o q[i]]
    <3>1. \A i \in 1..n + 1 : h[i] = f[i]
      BY <2>3
    <3>2. h = [i \in 1..n + 1 |-> h[i]]
      OBVIOUS
    <3>3. f = [i \in 1..n + 1 |-> f[i]]
      OBVIOUS
    <3> HIDE DEF h, f
    <3>4. h = f
      BY <3>1, <3>2, <3>3
    <3> QED
      BY <3>4 DEF f
  <2>5. n + 1 \in 0..Len(q)
    BY <1>2, <1>0
  <2> HIDE DEF h, Good
  <2> QED
    BY <2>4, <2>5
<1>3. 0..Len(q) \subseteq T
  <2> HIDE DEF T
  <2> QED
    BY <1>0, <1>1, <1>2, Upward
<1>4. \E g : Good(g, Len(q))
  <2>1. Len(q) \in T
    <3> HIDE DEF T
    <3> QED
      BY <1>3, <1>0
  <2> HIDE DEF Good
  <2> QED
    BY <2>1
<1> DEFINE flat == CHOOSE g : Good(g, Len(q))
<1>5. FlattenSeq(q) = flat[Len(q)]
  BY <1>0 DEF FlattenSeq
<1>6. Good(flat, Len(q))
  BY <1>4
<1> HIDE DEF flat
<1>7. ASSUME NEW i \in 1..Len(q)
      PROVE  flat[i] = IF i = 1 THEN q[i] ELSE flat[i - 1] \o q[i]
  BY <1>6, Zenon
<1>8. flat[1] = q[1]
  BY <1>7, <1>0
<1>9. ASSUME NEW i \in 2..Len(q) PROVE flat[i] = flat[i - 1] \o q[i]
  <2>1. i \in 1..Len(q) /\ i # 1
    OBVIOUS
  <2> QED
    BY <1>7, <2>1
<1> QED
  BY <1>5, <1>8, <1>9

-----------------------------------------------------------------------------
(* Where in an answer a token stands: outside calls, in a call, in a value. *)

Contexts == (Tools \cup {None}) \X (Params \cup {None})
Outside == <<None, None>>

\* After context c, token x leads to context d.
Step(c, x, d) ==
    \/ c = Outside /\ d = Outside /\ \A t \in Tools : x # Open(t)
    \/ \E t \in Tools :
         \/ c = Outside /\ x = Open(t) /\ d = <<t, None>>
         \/ c = <<t, None>> /\ x = Space /\ d = c
         \/ c = <<t, None>> /\ x = Close(t) /\ d = Outside
         \/ \E p \in Params :
              \/ c = <<t, None>> /\ x = Open(p) /\ d = <<t, p>>
              \/ c = <<t, p>> /\ x \notin {Close("parameter"), Close(p)} /\ d = c
              \/ c = <<t, p>> /\ x = Close(p) /\ d = <<t, None>>

\* l gives the context before the first token and after each one.
Labels(l, x) ==
    /\ l \in [0..Len(x) -> Contexts]
    /\ \A i \in 1..Len(x) : Step(l[i - 1], x[i], l[i])

Leads(c, x, d) ==
    /\ x \in Seq(Tokens)
    /\ \E l : Labels(l, x) /\ l[0] = c /\ l[Len(x)] = d

LEMMA LeadsOne ==
  ASSUME NEW c \in Contexts, NEW x \in Tokens, NEW d \in Contexts, Step(c, x, d)
  PROVE  Leads(c, <<x>>, d)
<1> DEFINE l == [i \in 0..1 |-> IF i = 0 THEN c ELSE d]
<1>1. Len(<<x>>) = 1 /\ <<x>>[1] = x /\ <<x>> \in Seq(Tokens)
  OBVIOUS
<1>2. l \in [0..1 -> Contexts] /\ l[0] = c /\ l[1] = d
  OBVIOUS
<1> HIDE DEF l
<1>3. ASSUME NEW i \in 1..1 PROVE Step(l[i - 1], <<x>>[i], l[i])
  <2>1. i = 1 /\ i - 1 = 0
    OBVIOUS
  <2> QED
    BY <2>1, <1>1, <1>2
<1>4. Labels(l, <<x>>)
  BY <1>1, <1>2, <1>3 DEF Labels
<1> QED
  BY <1>1, <1>2, <1>4 DEF Leads

LEMMA LeadsSame ==
  ASSUME NEW c \in Contexts, NEW x \in Seq(Tokens), \A i \in 1..Len(x) : Step(c, x[i], c)
  PROVE  Leads(c, x, c)
<1> DEFINE l == [i \in 0..Len(x) |-> c]
<1>1. l \in [0..Len(x) -> Contexts] /\ \A i \in 0..Len(x) : l[i] = c
  OBVIOUS
<1> HIDE DEF l
<1>2. Len(x) \in Nat
  BY LenProperties
<1>3. \A i \in 1..Len(x) : l[i - 1] = c /\ l[i] = c
  BY <1>1, <1>2
<1>4. Labels(l, x)
  BY <1>1, <1>3 DEF Labels
<1>5. l[0] = c /\ l[Len(x)] = c
  BY <1>1, <1>2
<1> QED
  BY <1>4, <1>5 DEF Leads

LEMMA LeadsConcat ==
  ASSUME NEW b, NEW c, NEW d, NEW x, NEW y, Leads(b, x, c), Leads(c, y, d)
  PROVE  Leads(b, x \o y, d)
<1>1. PICK k : Labels(k, x) /\ k[0] = b /\ k[Len(x)] = c
  BY DEF Leads
<1>2. PICK l : Labels(l, y) /\ l[0] = c /\ l[Len(y)] = d
  BY DEF Leads
<1>3. x \in Seq(Tokens) /\ y \in Seq(Tokens) /\ Len(x) \in Nat /\ Len(y) \in Nat
  BY LenProperties DEF Leads
<1>4. /\ x \o y \in Seq(Tokens)
      /\ Len(x \o y) = Len(x) + Len(y)
      /\ \A i \in 1..Len(x) + Len(y) : (x \o y)[i] = IF i <= Len(x) THEN x[i] ELSE y[i - Len(x)]
  BY <1>3, ConcatProperties
<1> DEFINE N == Len(x)
           h == [i \in 0..N + Len(y) |-> IF i <= N THEN k[i] ELSE l[i - N]]
<1>5. h \in [0..N + Len(y) -> Contexts]
  <2>1. k \in [0..N -> Contexts] /\ l \in [0..Len(y) -> Contexts]
    BY <1>1, <1>2 DEF Labels
  <2>2. ASSUME NEW i \in 0..N + Len(y) PROVE h[i] \in Contexts
    <3>1. CASE i <= N
      <4>1. i \in 0..N /\ h[i] = k[i]
        BY <3>1, <1>3
      <4> QED
        BY <4>1, <2>1
    <3>2. CASE ~(i <= N)
      <4>1. i - N \in 0..Len(y) /\ h[i] = l[i - N]
        BY <3>2, <1>3
      <4> QED
        BY <4>1, <2>1
    <3> QED
      BY <3>1, <3>2
  <2> QED
    BY <2>2
<1>6. \A i \in 0..N : h[i] = k[i]
  BY <1>3
<1>7. \A i \in N..N + Len(y) : h[i] = l[i - N]
  <2> SUFFICES ASSUME NEW i \in N..N + Len(y) PROVE h[i] = l[i - N]
    OBVIOUS
  <2>1. CASE i = N
    <3>1. h[i] = k[N] /\ i - N = 0
      BY <2>1, <1>3
    <3> QED
      BY <3>1, <1>1, <1>2
  <2>2. CASE i # N
    BY <2>2, <1>3
  <2> QED
    BY <2>1, <2>2
<1> HIDE DEF h
<1>8. ASSUME NEW i \in 1..N + Len(y) PROVE Step(h[i - 1], (x \o y)[i], h[i])
  <2>1. CASE i <= N
    <3>1. i \in 1..N /\ i - 1 \in 0..N /\ i \in 0..N
      BY <2>1, <1>3
    <3>2. h[i - 1] = k[i - 1] /\ h[i] = k[i] /\ (x \o y)[i] = x[i]
      BY <3>1, <2>1, <1>4, <1>6
    <3>3. Step(k[i - 1], x[i], k[i])
      BY <3>1, <1>1 DEF Labels
    <3> QED
      BY <3>2, <3>3
  <2>2. CASE ~(i <= N)
    <3> DEFINE j == i - N
    <3>1. j \in 1..Len(y) /\ i - 1 \in N..N + Len(y) /\ i \in N..N + Len(y) /\ (i - 1) - N = j - 1
      BY <2>2, <1>3
    <3>2. h[i - 1] = l[j - 1] /\ h[i] = l[j] /\ (x \o y)[i] = y[j]
      BY <3>1, <2>2, <1>4, <1>7
    <3>3. Step(l[j - 1], y[j], l[j])
      BY <3>1, <1>2 DEF Labels
    <3> QED
      BY <3>2, <3>3
  <2> QED
    BY <2>1, <2>2
<1>9. Labels(h, x \o y)
  BY <1>4, <1>5, <1>8 DEF Labels
<1>10. h[0] = b /\ h[Len(x \o y)] = d
  <2>1. h[0] = k[0]
    BY <1>3, <1>6
  <2>2. h[N + Len(y)] = l[(N + Len(y)) - N] /\ (N + Len(y)) - N = Len(y)
    BY <1>3, <1>7
  <2> QED
    BY <2>1, <2>2, <1>1, <1>2, <1>4
<1> QED
  BY <1>4, <1>9, <1>10 DEF Leads

\* One after another, sequences that lead from a context to itself do so together.
LEMMA LeadsFlatten ==
  ASSUME NEW c \in Contexts, NEW q, NEW N \in Nat, q = [n \in 1..N |-> q[n]],
         \A n \in 1..N : Leads(c, q[n], c)
  PROVE  Leads(c, FlattenSeq(q), c)
<1>1. \A n \in 1..N : q[n] \in Seq(Tokens)
  BY DEF Leads
<1>2. q \in Seq(Seq(Tokens)) /\ Len(q) = N
  BY <1>1
<1>3. CASE q = <<>>
  <2>1. FlattenSeq(q) = <<>>
    BY <1>3 DEF FlattenSeq
  <2>2. <<>> \in Seq(Tokens) /\ \A i \in 1..Len(<<>>) : Step(c, <<>>[i], c)
    OBVIOUS
  <2> QED
    BY <2>1, <2>2, LeadsSame
<1>4. CASE q # <<>>
  <2>1. PICK f : /\ f[1] = q[1]
                 /\ \A i \in 2..N : f[i] = f[i - 1] \o q[i]
                 /\ FlattenSeq(q) = f[N]
    BY <1>2, <1>4, FlattenIs
  <2>2. N # 0
    BY <1>2, <1>4, EmptySeq
  <2> DEFINE T == {n \in 0..N : n # 0 => Leads(c, f[n], c)}
  <2>3. 0 \in T
    OBVIOUS
  <2>4. ASSUME NEW n \in 0..N, n # N, n \in T PROVE n + 1 \in T
    <3>1. n + 1 \in 1..N
      BY <2>4
    <3>2. Leads(c, q[n + 1], c)
      BY <3>1
    <3>3. CASE n = 0
      BY <3>1, <3>2, <3>3, <2>1
    <3>4. CASE n # 0
      <4>1. n + 1 \in 2..N /\ (n + 1) - 1 = n
        BY <3>1, <3>4
      <4>2. f[n + 1] = f[n] \o q[n + 1]
        BY <4>1, <2>1
      <4>3. Leads(c, f[n], c)
        BY <2>4, <3>4
      <4>4. Leads(c, f[n + 1], c)
        BY <4>2, <4>3, <3>2, LeadsConcat
      <4> QED
        BY <4>4, <3>1
    <3> QED
      BY <3>3, <3>4
  <2>5. 0..N \subseteq T
    <3> HIDE DEF T
    <3> QED
      BY <2>3, <2>4, Upward
  <2> QED
    BY <2>1, <2>2, <2>5
<1> QED
  BY <1>3, <1>4

\* What a call holds between two parameters, before and after one.
LEMMA ParamLeads ==
  ASSUME NEW t \in Tools, NEW p \in Params \X Seq(Tokens),
         NEW d, d = [param |-> "own", tool |-> "own"],
         ToSet(p[2]) \cap {Close("parameter"), Close(p[1])} = {}
  PROVE  Leads(<<t, None>>, RenderParam(p, d), <<t, None>>)
<1> DEFINE c == <<t, None>>
           v == <<t, p[1]>>
<1>1. c \in Contexts /\ v \in Contexts /\ p[1] \in Params /\ p[2] \in Seq(Tokens)
  BY DEF Contexts
<1>2. Open(p[1]) \in Tokens /\ Close(p[1]) \in Tokens /\ Space \in Tokens
  BY <1>1 DEF Open, Close, Tokens
<1>3. Leads(c, <<Open(p[1])>>, v)
  <2>1. Step(c, Open(p[1]), v)
    BY <1>1 DEF Step
  <2> QED
    BY <2>1, <1>1, <1>2, LeadsOne
<1>4. Leads(v, p[2], v)
  <2>1. ASSUME NEW i \in 1..Len(p[2]) PROVE Step(v, p[2][i], v)
    <3>1. p[2][i] \in ToSet(p[2])
      BY <1>1, LenProperties DEF ToSet
    <3>2. p[2][i] \notin {Close("parameter"), Close(p[1])}
      BY <3>1
    <3> QED
      BY <3>2, <1>1 DEF Step
  <2> QED
    BY <2>1, <1>1, LeadsSame
<1>5. Leads(v, <<Close(p[1])>>, c)
  <2>1. Step(v, Close(p[1]), c)
    BY <1>1 DEF Step
  <2> QED
    BY <2>1, <1>1, <1>2, LeadsOne
<1>6. Leads(c, <<Space>>, c)
  <2>1. Step(c, Space, c)
    BY DEF Step
  <2> QED
    BY <2>1, <1>1, <1>2, LeadsOne
<1>7. <<Close(p[1]), Space>> = <<Close(p[1])>> \o <<Space>>
  OBVIOUS
<1>8. CloseOf(p[1], d.param) = Close(p[1])
  BY DEF CloseOf
<1> HIDE DEF c, v
<1>9. Leads(v, <<Close(p[1]), Space>>, c)
  BY <1>5, <1>6, <1>7, LeadsConcat
<1>10. Leads(c, <<Open(p[1])>> \o p[2], v)
  BY <1>3, <1>4, LeadsConcat
<1>11. Leads(c, (<<Open(p[1])>> \o p[2]) \o <<Close(p[1]), Space>>, c)
  BY <1>9, <1>10, LeadsConcat
<1> QED
  BY <1>8, <1>11 DEF RenderParam, c

LEMMA RenderLeads ==
  ASSUME NEW b \in Texts \cup Calls, NEW d, d = [param |-> "own", tool |-> "own"],
         IF b.kind = "text" THEN ToSet(b.text) \cap {Open(t) : t \in Tools} = {}
         ELSE \A p \in ToSet(b.params) :
                ToSet(p[2]) \cap {Close("parameter"), Close(p[1])} = {}
  PROVE  Leads(Outside, Render(b, d), Outside)
<1>1. Outside \in Contexts
  BY DEF Outside, Contexts
<1>2. CASE b.kind = "text"
  <2>1. b.text \in Seq(Tokens) /\ Render(b, d) = b.text
    BY <1>2 DEF Texts, Calls, Render
  <2>2. ASSUME NEW i \in 1..Len(b.text) PROVE Step(Outside, b.text[i], Outside)
    <3>1. b.text[i] \in ToSet(b.text)
      BY <2>1, LenProperties DEF ToSet
    <3>2. \A t \in Tools : b.text[i] # Open(t)
      BY <3>1, <1>2
    <3> QED
      BY <3>2 DEF Step
  <2> QED
    BY <2>1, <2>2, <1>1, LeadsSame
<1>3. CASE b.kind # "text"
  <2>1. b.name \in Tools /\ b.params \in Seq(Params \X Seq(Tokens))
    BY <1>3 DEF Texts, Calls
  <2> DEFINE c == <<b.name, None>>
             q == [n \in DOMAIN b.params |-> RenderParam(b.params[n], d)]
  <2>2. c \in Contexts /\ Open(b.name) \in Tokens /\ Close(b.name) \in Tokens
    BY <2>1 DEF Contexts, Open, Close, Tokens
  <2>3. Leads(Outside, <<Open(b.name)>>, c)
    <3>1. Step(Outside, Open(b.name), c)
      BY <2>1 DEF Step
    <3> QED
      BY <3>1, <2>2, <1>1, LeadsOne
  <2>4. Leads(c, FlattenSeq(q), c)
    <3>1. DOMAIN b.params = 1..Len(b.params) /\ Len(b.params) \in Nat
      BY <2>1, LenProperties
    <3>2. ASSUME NEW n \in 1..Len(b.params) PROVE Leads(c, q[n], c)
      <4>1. b.params[n] \in Params \X Seq(Tokens)
        BY <2>1, <3>1, ElementOfSeq
      <4>2. ToSet(b.params[n][2]) \cap {Close("parameter"), Close(b.params[n][1])} = {}
        BY <1>3, <3>1 DEF ToSet
      <4>3. Leads(c, RenderParam(b.params[n], d), c)
        BY <4>1, <4>2, <2>1, ParamLeads
      <4> QED
        BY <4>3, <3>1
    <3>3. q = [n \in 1..Len(b.params) |-> q[n]]
      BY <3>1
    <3> HIDE DEF c, q
    <3> QED
      BY <3>1, <3>2, <3>3, <2>2, LeadsFlatten
  <2>5. Leads(c, <<Close(b.name)>>, Outside)
    <3>1. Step(c, Close(b.name), Outside)
      BY <2>1 DEF Step
    <3> QED
      BY <3>1, <2>2, <1>1, LeadsOne
  <2>6. Render(b, d) = (<<Open(b.name)>> \o FlattenSeq(q)) \o <<Close(b.name)>>
    BY <1>3 DEF Render, CloseOf
  <2> HIDE DEF c, q
  <2>7. Leads(Outside, <<Open(b.name)>> \o FlattenSeq(q), c)
    BY <2>3, <2>4, LeadsConcat
  <2> QED
    BY <2>5, <2>6, <2>7, LeadsConcat
<1> QED
  BY <1>2, <1>3

\* An unambiguous answer can be read without looking ahead.
LEMMA AnswerLeads ==
  ASSUME Unambiguous, intent \in Seq(Texts \cup Calls)
  PROVE  Leads(Outside, Answer, Outside)
<1> DEFINE q == [n \in DOMAIN intent |-> Render(intent[n], dialect)]
<1>1. DOMAIN intent = 1..Len(intent) /\ Len(intent) \in Nat
  BY LenProperties
<1>2. ASSUME NEW n \in 1..Len(intent) PROVE Leads(Outside, q[n], Outside)
  <2>1. intent[n] \in Texts \cup Calls
    BY <1>1, ElementOfSeq
  <2>2. intent[n] \in ToSet(intent)
    BY <1>1 DEF ToSet
  <2>3. Leads(Outside, Render(intent[n], dialect), Outside)
    BY <2>1, <2>2, RenderLeads DEF Unambiguous
  <2> QED
    BY <2>3, <1>1
<1>3. q = [n \in 1..Len(intent) |-> q[n]]
  BY <1>1
<1>4. Outside \in Contexts
  BY DEF Outside, Contexts
<1>5. Answer = FlattenSeq(q)
  BY DEF Answer
<1> HIDE DEF q
<1> QED
  BY <1>1, <1>2, <1>3, <1>4, <1>5, LeadsFlatten

-----------------------------------------------------------------------------
(* One token, whatever stands around it. *)

Listed(q) == \E S : q \in Seq(S)

State(st, i) ==
    /\ DOMAIN st = DOMAIN Start
    /\ Listed(st.blocks)
    /\ st.tool \in Tools \cup {None} /\ st.param \in Params \cup {None}
    /\ st.tool # None => st.body \in 1..i + 1
    /\ st.param # None => st.value \in 1..i + 1
    /\ st.text \in 0..i

\* The open tool goes on, is complete, or there is none and text goes on or ends.
GoesOn(a, b) == a.tool # None /\ b.tool = a.tool /\ b.blocks = a.blocks
Completes(a, b) ==
    a.tool # None /\ \E c : c.kind = "tool" /\ c.partial = FALSE /\ b.blocks = Append(a.blocks, c)
StaysText(a, b, i) ==
    a.tool = None /\ b.tool = None /\ b.blocks = a.blocks /\ b.text = IF a.text = 0 THEN i ELSE a.text
Opens(m, a, b, i) ==
    /\ a.tool = None /\ b.tool # None
    /\ b.blocks = WithText(a, IF a.text = 0 THEN <<>> ELSE Trim(SubSeq(m, a.text, i - 1)), FALSE)

LEMMA Appended ==
  ASSUME NEW q, NEW b, Listed(q)
  PROVE  /\ Listed(Append(q, b)) /\ Len(q) \in Nat /\ Len(Append(q, b)) = Len(q) + 1
         /\ Append(q, b)[Len(q) + 1] = b
         /\ \A n \in 1..Len(q) : Append(q, b)[n] = q[n]
<1>1. PICK S : q \in Seq(S)
  BY DEF Listed
<1>2. q \in Seq(S \cup {b}) /\ b \in S \cup {b}
  BY <1>1
<1>3. Append(q, b) \in Seq(S \cup {b})
  BY <1>2, AppendProperties
<1>4. Listed(Append(q, b))
  BY <1>3 DEF Listed
<1> QED
  BY <1>2, <1>4, AppendProperties, LenProperties

LEMMA StartFields ==
  DOMAIN Start = {"blocks", "tool", "body", "param", "value", "params", "text"}
BY DEF Start

LEMMA StartState == State(Start, 0)
<1>1. Listed(<<>>)
  <2>1. <<>> \in Seq({})
    OBVIOUS
  <2> QED
    BY <2>1 DEF Listed
<1> QED
  BY <1>1 DEF State, Start

LEMMA AfterParamState ==
  ASSUME NEW m, NEW st, NEW i \in Nat, State(st, i), NEW j
  PROVE  /\ State(AfterParam(m, st, j), i)
         /\ AfterParam(m, st, j).blocks = st.blocks
         /\ AfterParam(m, st, j).tool = st.tool
         /\ AfterParam(m, st, j).text = st.text
<1> DEFINE v == Put(st.params, st.param, Trim(SubSeq(m, st.value, j - 1)))
           r == [st EXCEPT !.param = None, !.params = v]
<1>1. AfterParam(m, st, j) = IF ClosesParam(m, st, j) THEN r ELSE st
  BY DEF AfterParam
<1> HIDE DEF v
<1>2. State(r, i) /\ r.blocks = st.blocks /\ r.tool = st.tool /\ r.text = st.text
  BY StartFields DEF State
<1> HIDE DEF r
<1> QED
  BY <1>1, <1>2

LEMMA TokenState ==
  ASSUME NEW m, NEW st, NEW i \in Nat, i # 0, State(st, i - 1)
  PROVE  /\ State(AtToken(m, st, i), i)
         /\ \/ GoesOn(st, AtToken(m, st, i))
            \/ Completes(st, AtToken(m, st, i))
            \/ StaysText(st, AtToken(m, st, i), i)
            \/ Opens(m, st, AtToken(m, st, i), i)
<1> DEFINE p == AfterParam(m, st, i)
           s == AtToken(m, st, i)
<1>1. State(p, i - 1) /\ p.blocks = st.blocks /\ p.tool = st.tool /\ p.text = st.text
  BY AfterParamState
<1>2. s = CASE p.tool = None -> InText(m, p, i)
            [] p.tool # None /\ p.param = None -> InTool(m, p, i)
            [] OTHER -> p
  BY DEF AtToken
<1> SUFFICES /\ State(s, i)
             /\ GoesOn(st, s) \/ Completes(st, s) \/ StaysText(st, s, i) \/ Opens(m, st, s, i)
  OBVIOUS
<1> HIDE DEF p, s
<1>3. State(p, i)
  BY <1>1 DEF State
<1>4. CASE p.tool = None
  <2> DEFINE q == IF p.text = 0 THEN <<>> ELSE Trim(SubSeq(m, p.text, i - 1))
             w == WithText(p, q, FALSE)
  <2>1. s = InText(m, p, i)
    BY <1>2, <1>4
  <2>2. CASE m[i] \in {Open(t) : t \in Tools}
    <3>1. PICK t \in Tools : m[i] = Open(t)
      BY <2>2
    <3>2. m[i][2] = t
      BY <3>1 DEF Open
    <3>3. s = [Start EXCEPT !.blocks = w, !.tool = t, !.body = i + 1]
      BY <2>1, <2>2, <3>2 DEF InText
    <3>4. Listed(w)
      BY <1>1, Appended DEF WithText, State
    <3>5. t # None
      BY NamesAssumption
    <3>6. w = WithText(st, IF st.text = 0 THEN <<>> ELSE Trim(SubSeq(m, st.text, i - 1)), FALSE)
      BY <1>1 DEF WithText
    <3> HIDE DEF w
    <3>7. State(s, i) /\ s.tool = t /\ s.blocks = w
      BY <3>3, <3>4, StartFields DEF State, Start
    <3> QED
      BY <3>5, <3>6, <3>7, <1>1, <1>4 DEF Opens
  <2>3. CASE m[i] \notin {Open(t) : t \in Tools}
    <3>1. s = [p EXCEPT !.text = IF @ = 0 THEN i ELSE @]
      BY <2>1, <2>3 DEF InText
    <3>2. State(s, i)
      BY <3>1, <1>3, StartFields DEF State
    <3>3. StaysText(st, s, i)
      BY <3>1, <1>1, <1>3, <1>4, StartFields DEF State, StaysText
    <3> QED
      BY <3>2, <3>3
  <2> QED
    BY <2>2, <2>3
<1>5. CASE p.tool # None /\ p.param = None
  <2>1. s = InTool(m, p, i)
    BY <1>2, <1>5
  <2>2. CASE m[i] \in {Open(n) : n \in Params}
    <3>1. PICK n \in Params : m[i] = Open(n)
      BY <2>2
    <3>2. m[i][2] = n
      BY <3>1 DEF Open
    <3>5. s = [p EXCEPT !.param = m[i][2], !.value = i + 1]
      <4> DEFINE c == [Start EXCEPT !.blocks =
                         Append(p.blocks, ToolBlock(p.tool, FinalParams(p, SubSeq(m, p.body, i - 1)), FALSE))]
      <4>1. s = CASE m[i] \in {Open(k) : k \in Params} -> [p EXCEPT !.param = m[i][2], !.value = i + 1]
                  [] ClosesTool(m, p.tool, i) -> c
                  [] OTHER -> p
        BY <2>1 DEF InTool
      <4>2. ~ClosesTool(m, p.tool, i)
        BY <3>1, NamesAssumption DEF ClosesTool, Open, Close
      <4> HIDE DEF c
      <4> QED
        BY <4>1, <4>2, <2>2
    <3>3. s = [p EXCEPT !.param = n, !.value = i + 1]
      BY <3>2, <3>5
    <3>4. State(s, i) /\ s.tool = p.tool /\ s.blocks = p.blocks
      BY <3>3, <1>3, StartFields DEF State
    <3> QED
      BY <3>4, <1>1, <1>5 DEF GoesOn
  <2>3. CASE m[i] \notin {Open(n) : n \in Params} /\ ClosesTool(m, p.tool, i)
    <3> DEFINE c == ToolBlock(p.tool, FinalParams(p, SubSeq(m, p.body, i - 1)), FALSE)
    <3>1. s = [Start EXCEPT !.blocks = Append(p.blocks, c)]
      BY <2>1, <2>3 DEF InTool
    <3>2. c.kind = "tool" /\ c.partial = FALSE
      BY DEF ToolBlock
    <3>3. Listed(Append(p.blocks, c))
      BY <1>1, Appended DEF State
    <3> HIDE DEF c
    <3>4. State(s, i) /\ s.blocks = Append(p.blocks, c)
      BY <3>1, <3>3, StartFields DEF State, Start
    <3> QED
      BY <3>2, <3>4, <1>1, <1>5 DEF Completes
  <2>4. CASE m[i] \notin {Open(n) : n \in Params} /\ ~ClosesTool(m, p.tool, i)
    <3>1. s = p
      BY <2>1, <2>4 DEF InTool
    <3> QED
      BY <3>1, <1>1, <1>3, <1>5 DEF GoesOn
  <2> QED
    BY <2>2, <2>3, <2>4
<1>6. CASE p.tool # None /\ p.param # None
  <2>1. s = p
    BY <1>2, <1>6
  <2> QED
    BY <2>1, <1>1, <1>3, <1>6 DEF GoesOn
<1> QED
  BY <1>4, <1>5, <1>6

\* Every state of a scan is one.
LEMMA ScanStates ==
  ASSUME NEW m, Len(m) \in Nat
  PROVE  \A i \in 0..Len(m) : State(Scan(m)[i], i)
<1> DEFINE T == {i \in 0..Len(m) : State(Scan(m)[i], i)}
<1>1. 0 \in T
  BY ScanIs, StartState
<1>2. ASSUME NEW i \in 0..Len(m), i # Len(m), i \in T PROVE i + 1 \in T
  <2>1. i + 1 \in 1..Len(m) /\ (i + 1) - 1 = i /\ i + 1 \in Nat /\ i + 1 # 0
    BY <1>2
  <2>2. Scan(m)[i + 1] = AtToken(m, Scan(m)[i], i + 1)
    BY <2>1, ScanIs
  <2>3. State(Scan(m)[i], (i + 1) - 1)
    BY <1>2, <2>1
  <2>4. State(AtToken(m, Scan(m)[i], i + 1), i + 1)
    BY <2>1, <2>3, TokenState
  <2> QED
    BY <2>1, <2>2, <2>4
<1>3. 0..Len(m) \subseteq T
  <2> HIDE DEF T
  <2> QED
    BY <1>1, <1>2, Upward
<1> QED
  BY <1>3

-----------------------------------------------------------------------------
(* One token of an answer that can be read without looking ahead. *)

Fits(st, c) == st.tool = c[1] /\ st.param = c[2]

\* Only a parameter's own closing tag closes it.
LEMMA ParamCloses ==
  ASSUME NEW m, NEW st, NEW i, NEW c, NEW d, Fits(st, c), Step(c, m[i], d)
  PROVE  ClosesParam(m, st, i) <=> st.param # None /\ m[i] = Close(st.param)
<1> SUFFICES ASSUME st.param # None, m[i] = Close("parameter") PROVE m[i] = Close(st.param)
  BY DEF ClosesParam
<1>1. c[2] # None
  BY DEF Fits
<1>2. PICK t \in Tools, p \in Params :
        \/ c = <<t, p>> /\ m[i] \notin {Close("parameter"), Close(p)}
        \/ c = <<t, p>> /\ m[i] = Close(p)
  BY <1>1 DEF Step, Outside
<1> QED
  BY <1>2 DEF Fits

\* Only a tool's own closing tag closes it.
LEMMA ToolCloses ==
  ASSUME NEW m, NEW st, NEW i, NEW c, NEW d, Fits(st, c), Step(c, m[i], d),
         st.tool # None, st.param = None \/ m[i] = Close(st.param)
  PROVE  ClosesTool(m, st.tool, i) <=> m[i] = Close(st.tool)
<1> SUFFICES ASSUME m[i][1] = "close", m[i][2] \notin Params PROVE m[i] = Close(st.tool)
  BY DEF ClosesTool
<1>1. c # Outside
  BY DEF Fits, Outside
<1>2. PICK t \in Tools :
        \/ c = <<t, None>> /\ m[i] = Space
        \/ c = <<t, None>> /\ m[i] = Close(t)
        \/ \E p \in Params :
             \/ c = <<t, None>> /\ m[i] = Open(p)
             \/ c = <<t, p>> /\ m[i] \notin {Close("parameter"), Close(p)}
             \/ c = <<t, p>> /\ m[i] = Close(p)
  BY <1>1 DEF Step
<1>3. m[i] # Space
  BY DEF Space
<1>4. \A p \in Params : m[i] # Open(p) /\ m[i] # Close(p)
  BY DEF Open, Close
<1>5. \A p \in Params : p # None
  BY NamesAssumption
<1> QED
  BY <1>2, <1>3, <1>4, <1>5 DEF Fits

\* Where the parser stands after a token, which it reads the same whatever follows.
LEMMA TokenFits ==
  ASSUME NEW m, NEW st, NEW i \in Nat, i # 0, State(st, i - 1),
         NEW c, NEW d, Fits(st, c), Step(c, m[i], d)
  PROVE  /\ Fits(AtToken(m, st, i), d)
         /\ \A y : y[i] = m[i] /\ (\A k \in 1..i : SubSeq(y, k, i - 1) = SubSeq(m, k, i - 1))
              => AtToken(y, st, i) = AtToken(m, st, i)
<1> DEFINE p == AfterParam(m, st, i)
<1>1. State(p, i - 1) /\ p.tool = st.tool
  BY AfterParamState
<1>2. p.param = IF m[i] = Close(st.param) THEN None ELSE st.param
  BY ParamCloses, StartFields DEF AfterParam, State
<1>3. ASSUME NEW y, y[i] = m[i], \A k \in 1..i : SubSeq(y, k, i - 1) = SubSeq(m, k, i - 1)
      PROVE  AtToken(y, st, i) = AtToken(m, st, i)
  <2>1. ClosesParam(y, st, i) <=> ClosesParam(m, st, i)
    BY <1>3, ParamCloses
  <2>2. st.param # None => SubSeq(y, st.value, i - 1) = SubSeq(m, st.value, i - 1)
    <3>1. st.param # None => st.value \in 1..i
      BY DEF State
    <3> QED
      BY <3>1, <1>3, Zenon
  <2>3. AfterParam(y, st, i) = p
    BY <2>1, <2>2 DEF AfterParam, ClosesParam
  <2>4. AtToken(y, st, i) = CASE p.tool = None -> InText(y, p, i)
                              [] p.tool # None /\ p.param = None -> InTool(y, p, i)
                              [] OTHER -> p
    BY <2>3 DEF AtToken
  <2>5. AtToken(m, st, i) = CASE p.tool = None -> InText(m, p, i)
                              [] p.tool # None /\ p.param = None -> InTool(m, p, i)
                              [] OTHER -> p
    BY DEF AtToken
  <2> HIDE DEF p
  <2>6. InText(y, p, i) = InText(m, p, i)
    <3>1. p.text # 0 => SubSeq(y, p.text, i - 1) = SubSeq(m, p.text, i - 1)
      BY <1>1, <1>3 DEF State
    <3> QED
      BY <3>1, <1>3 DEF InText
  <2>7. p.tool # None /\ p.param = None => InTool(y, p, i) = InTool(m, p, i)
    <3> SUFFICES ASSUME p.tool # None, p.param = None PROVE InTool(y, p, i) = InTool(m, p, i)
      OBVIOUS
    <3>1. st.tool # None /\ (st.param = None \/ m[i] = Close(st.param))
      BY <1>1, <1>2
    <3>2. ClosesTool(y, p.tool, i) <=> ClosesTool(m, p.tool, i)
      <4>1. ClosesTool(m, st.tool, i) <=> m[i] = Close(st.tool)
        BY <3>1, ToolCloses
      <4>2. Step(c, y[i], d) /\ (st.param = None \/ y[i] = Close(st.param))
        BY <3>1, <1>3
      <4>3. ClosesTool(y, st.tool, i) <=> y[i] = Close(st.tool)
        BY <3>1, <4>2, ToolCloses
      <4> QED
        BY <4>1, <4>3, <1>1, <1>3
    <3>3. SubSeq(y, p.body, i - 1) = SubSeq(m, p.body, i - 1)
      <4>1. p.body \in 1..i
        BY <3>1, <1>1 DEF State
      <4> QED
        BY <4>1, <1>3, Zenon
    <3> QED
      BY <3>2, <3>3, <1>3 DEF InTool
  <2> QED
    BY <2>4, <2>5, <2>6, <2>7
<1>4. Fits(AtToken(m, st, i), d)
  <2> DEFINE s == AtToken(m, st, i)
  <2>1. s = CASE p.tool = None -> InText(m, p, i)
              [] p.tool # None /\ p.param = None -> InTool(m, p, i)
              [] OTHER -> p
    BY DEF AtToken
  <2> SUFFICES Fits(s, d)
    OBVIOUS
  <2> HIDE DEF p, s
  <2>2. \A t \in Tools : t # None /\ t \notin Params
    BY NamesAssumption
  <2>3. \A n \in Params : n # None
    BY NamesAssumption
  <2>4. CASE c = Outside /\ d = Outside /\ \A t \in Tools : m[i] # Open(t)
    <3>1. p.tool = None /\ p.param = None
      BY <2>4, <1>1, <1>2 DEF Fits, Outside
    <3>2. s = [p EXCEPT !.text = IF @ = 0 THEN i ELSE @]
      BY <3>1, <2>1, <2>4 DEF InText
    <3> QED
      BY <3>1, <3>2, <2>4, <1>1, StartFields DEF Fits, Outside, State
  <2>5. ASSUME NEW t \in Tools, c = Outside, m[i] = Open(t), d = <<t, None>> PROVE Fits(s, d)
    <3>1. p.tool = None
      BY <2>5, <1>1 DEF Fits, Outside
    <3>2. m[i][2] = t /\ m[i] \in {Open(k) : k \in Tools}
      BY <2>5 DEF Open
    <3> DEFINE w == WithText(p, IF p.text = 0 THEN <<>> ELSE Trim(SubSeq(m, p.text, i - 1)), FALSE)
    <3>3. s = [Start EXCEPT !.blocks = w, !.tool = t, !.body = i + 1]
      BY <3>1, <3>2, <2>1 DEF InText
    <3> HIDE DEF w
    <3> QED
      BY <3>3, <2>5, StartFields DEF Fits, Start
  <2>6. ASSUME NEW t \in Tools, c = <<t, None>>, m[i] = Space \/ m[i] = Close(t) \/ \E n \in Params : m[i] = Open(n)
        PROVE  /\ p.tool = t /\ p.param = None /\ s = InTool(m, p, i)
               /\ ClosesTool(m, t, i) <=> m[i] = Close(t)
    <3>1. st.tool = t /\ st.param = None /\ st.tool # None
      BY <2>2, <2>6 DEF Fits
    <3>2. p.tool = t /\ p.param = None
      BY <3>1, <1>1, <1>2
    <3>3. ClosesTool(m, t, i) <=> m[i] = Close(t)
      BY <3>1, ToolCloses
    <3> QED
      BY <3>1, <3>2, <3>3, <2>1
  <2>7. ASSUME NEW t \in Tools, c = <<t, None>>, m[i] = Space, d = c PROVE Fits(s, d)
    <3>1. m[i] \notin {Open(n) : n \in Params} /\ m[i] # Close(t)
      BY <2>7 DEF Space, Open, Close
    <3>2. s = p
      BY <3>1, <2>6, <2>7 DEF InTool
    <3> QED
      BY <3>2, <2>6, <2>7 DEF Fits
  <2>8. ASSUME NEW t \in Tools, c = <<t, None>>, m[i] = Close(t), d = Outside PROVE Fits(s, d)
    <3>1. m[i] \notin {Open(n) : n \in Params}
      BY <2>8 DEF Open, Close
    <3> DEFINE b == Append(p.blocks, ToolBlock(p.tool, FinalParams(p, SubSeq(m, p.body, i - 1)), FALSE))
    <3>2. s = [Start EXCEPT !.blocks = b]
      BY <3>1, <2>6, <2>8 DEF InTool
    <3> HIDE DEF b
    <3> QED
      BY <3>2, <2>8, StartFields DEF Fits, Outside, Start
  <2>9. ASSUME NEW t \in Tools, NEW n \in Params, c = <<t, None>>, m[i] = Open(n), d = <<t, n>>
        PROVE  Fits(s, d)
    <3>1. m[i] \in {Open(k) : k \in Params} /\ m[i][2] = n /\ ~ClosesTool(m, t, i)
      BY <2>6, <2>9 DEF Open, Close
    <3> DEFINE b == [Start EXCEPT !.blocks =
                       Append(p.blocks, ToolBlock(p.tool, FinalParams(p, SubSeq(m, p.body, i - 1)), FALSE))]
    <3>2. s = CASE m[i] \in {Open(k) : k \in Params} -> [p EXCEPT !.param = m[i][2], !.value = i + 1]
                [] ClosesTool(m, p.tool, i) -> b
                [] OTHER -> p
      BY <2>6, <2>9 DEF InTool
    <3> HIDE DEF b
    <3>3. s = [p EXCEPT !.param = n, !.value = i + 1]
      BY <3>1, <3>2, <2>6, <2>9
    <3> QED
      BY <3>3, <2>6, <2>9, <1>1, StartFields DEF Fits, State
  <2>10. ASSUME NEW t \in Tools, NEW n \in Params, c = <<t, n>>,
                m[i] \notin {Close("parameter"), Close(n)}, d = c
         PROVE  Fits(s, d)
    <3>1. p.tool = t /\ p.param = n
      BY <2>10, <1>1, <1>2 DEF Fits
    <3>2. s = p
      BY <3>1, <2>1, <2>2, <2>3
    <3> QED
      BY <3>1, <3>2, <2>10 DEF Fits
  <2>11. ASSUME NEW t \in Tools, NEW n \in Params, c = <<t, n>>, m[i] = Close(n), d = <<t, None>>
         PROVE  Fits(s, d)
    <3>1. st.tool = t /\ st.param = n /\ p.tool = t /\ p.param = None
      BY <2>11, <1>1, <1>2 DEF Fits
    <3>2. m[i] \notin {Open(k) : k \in Params}
      BY <2>11 DEF Open, Close
    <3>3. ~ClosesTool(m, t, i)
      <4>1. Close(n) # Close(t)
        BY <2>2 DEF Close
      <4> QED
        BY <4>1, <3>1, <2>2, <2>11, ToolCloses
    <3>4. s = InTool(m, p, i)
      BY <3>1, <2>1, <2>2
    <3>5. s = p
      BY <3>1, <3>2, <3>3, <3>4 DEF InTool
    <3> QED
      BY <3>1, <3>5, <2>11 DEF Fits
  <2> QED
    BY <2>4, <2>5, <2>7, <2>8, <2>9, <2>10, <2>11 DEF Step
<1> QED
  BY <1>3, <1>4

-----------------------------------------------------------------------------
(* A part of an answer is read as the whole of it is. *)

LEMMA PrefixIs ==
  ASSUME NEW x \in Seq(Tokens), NEW k \in 0..Len(x)
  PROVE  /\ SubSeq(x, 1, k) \in Seq(Tokens) /\ Len(SubSeq(x, 1, k)) = k
         /\ \A i \in 1..k : SubSeq(x, 1, k)[i] = x[i]
         /\ \A a \in 1..k + 1, b \in 0..k : SubSeq(SubSeq(x, 1, k), a, b) = SubSeq(x, a, b)
<1> DEFINE y == SubSeq(x, 1, k)
<1>1. Len(x) \in Nat /\ \A i \in 1..k : x[i] \in Tokens
  BY ElementOfSeq, LenProperties
<1>2. y \in Seq(Tokens) /\ Len(y) = k /\ \A i \in 1..k : y[i] = x[i]
  <2>1. ASSUME NEW a \in Int, a = 1
        PROVE  /\ SubSeq(x, a, k) \in Seq(Tokens)
               /\ Len(SubSeq(x, a, k)) = IF a <= k THEN k - a + 1 ELSE 0
               /\ \A i \in 1..k - a + 1 : SubSeq(x, a, k)[i] = x[a + i - 1]
    BY <1>1, <2>1, SubSeqProperties
  <2> QED
    BY <2>1
<1>3. Len(y) = k /\ \A i \in 1..k : y[i] = x[i]
  BY <1>2
<1> HIDE DEF y
<1>4. ASSUME NEW a \in 1..k + 1, NEW b \in 0..k PROVE SubSeq(y, a, b) = SubSeq(x, a, b)
  <2>1. \A i \in a..b : x[i] \in Tokens /\ y[i] \in Tokens /\ y[i] = x[i]
    BY <1>1, <1>3
  <2>2. /\ SubSeq(x, a, b) \in Seq(Tokens) /\ Len(SubSeq(x, a, b)) = IF a <= b THEN b - a + 1 ELSE 0
        /\ \A i \in 1..b - a + 1 : SubSeq(x, a, b)[i] = x[a + i - 1]
    BY <2>1, SubSeqProperties
  <2>3. /\ SubSeq(y, a, b) \in Seq(Tokens) /\ Len(SubSeq(y, a, b)) = IF a <= b THEN b - a + 1 ELSE 0
        /\ \A i \in 1..b - a + 1 : SubSeq(y, a, b)[i] = y[a + i - 1]
    BY <2>1, SubSeqProperties
  <2>4. ASSUME NEW i \in 1..Len(SubSeq(x, a, b)) PROVE SubSeq(y, a, b)[i] = SubSeq(x, a, b)[i]
    <3>1. i \in 1..b - a + 1 /\ a + i - 1 \in a..b
      BY <2>2
    <3> QED
      BY <3>1, <2>1, <2>2, <2>3
  <2>5. Len(SubSeq(y, a, b)) = Len(SubSeq(x, a, b))
    BY <2>2, <2>3
  <2> QED
    BY <2>2, <2>3, <2>4, <2>5, SeqEqual
<1> QED
  BY <1>2, <1>3, <1>4 DEF y

LEMMA PrefixScan ==
  ASSUME NEW x, Leads(Outside, x, Outside), NEW k \in 0..Len(x)
  PROVE  \A i \in 0..k : Scan(SubSeq(x, 1, k))[i] = Scan(x)[i]
<1> DEFINE y == SubSeq(x, 1, k)
<1>1. x \in Seq(Tokens) /\ Len(x) \in Nat /\ k \in Nat
  BY LenProperties DEF Leads
<1>2. PICK l : Labels(l, x) /\ l[0] = Outside
  BY DEF Leads
<1>3. Len(y) = k /\ (\A i \in 1..k : y[i] = x[i])
      /\ \A a \in 1..k + 1, b \in 0..k : SubSeq(y, a, b) = SubSeq(x, a, b)
  BY <1>1, PrefixIs
<1> HIDE DEF y
<1> DEFINE T == {i \in 0..k : Scan(y)[i] = Scan(x)[i] /\ Fits(Scan(x)[i], l[i])}
<1>4. 0 \in T
  <2>1. Scan(y)[0] = Start /\ Scan(x)[0] = Start
    BY <1>1, <1>3, ScanIs
  <2> QED
    BY <2>1, <1>1, <1>2 DEF Fits, Start, Outside
<1>5. ASSUME NEW n \in 0..k, n # k, n \in T PROVE n + 1 \in T
  <2> DEFINE i == n + 1
             s == Scan(x)[n]
  <2>1. i \in 1..k /\ i \in 1..Len(x) /\ i - 1 = n /\ i \in Nat /\ i # 0 /\ n \in 0..Len(x)
    BY <1>1, <1>5
  <2>2. Scan(x)[i] = AtToken(x, s, i)
    BY <2>1, <1>1, ScanIs
  <2>3. Scan(y)[i] = AtToken(y, s, i)
    <3>1. Scan(y)[i] = AtToken(y, Scan(y)[i - 1], i)
      BY <2>1, <1>1, <1>3, ScanIs
    <3> QED
      BY <3>1, <2>1, <1>5
  <2>4. State(s, i - 1)
    BY <2>1, <1>1, ScanStates
  <2>5. Fits(s, l[n]) /\ Step(l[n], x[i], l[i])
    BY <2>1, <1>2, <1>5 DEF Labels
  <2>6. y[i] = x[i] /\ \A a \in 1..i : SubSeq(y, a, i - 1) = SubSeq(x, a, i - 1)
    BY <2>1, <1>3
  <2> HIDE DEF i, s
  <2>7. Fits(AtToken(x, s, i), l[i]) /\ AtToken(y, s, i) = AtToken(x, s, i)
    BY <2>1, <2>4, <2>5, <2>6, TokenFits
  <2>8. i \in T
    BY <2>1, <2>2, <2>3, <2>7
  <2> QED
    BY <2>8 DEF i
<1>6. 0..k \subseteq T
  <2> HIDE DEF T
  <2> QED
    BY <1>1, <1>4, <1>5, Upward
<1> QED
  BY <1>6 DEF y

-----------------------------------------------------------------------------
(* Blocks only grow. *)

\* A text comes out as nothing only if it is nothing but space.
LEMMA TrimIs ==
  ASSUME NEW x \in Seq(Tokens), NEW a \in Nat, a # 0, NEW b \in 0..Len(x)
  PROVE  Trim(SubSeq(x, a, b)) = <<>> <=> \A n \in a..b : x[n] = Space
<1> DEFINE q == SubSeq(x, a, b)
           marks == {n \in DOMAIN q : q[n] # Space}
<1>1. Len(x) \in Nat /\ \A n \in a..b : x[n] \in Tokens
  BY ElementOfSeq, LenProperties
<1>2. /\ q \in Seq(Tokens) /\ Len(q) = IF a <= b THEN b - a + 1 ELSE 0
      /\ \A i \in 1..b - a + 1 : q[i] = x[a + i - 1]
  BY <1>1, SubSeqProperties
<1>3. DOMAIN q = 1..Len(q) /\ Len(q) \in Nat
  BY <1>2, LenProperties
<1> HIDE DEF q
<1>4. CASE marks = {}
  <2>1. Trim(q) = <<>>
    BY <1>4 DEF Trim
  <2>2. ASSUME NEW n \in a..b PROVE x[n] = Space
    <3>1. n - a + 1 \in 1..b - a + 1 /\ a + (n - a + 1) - 1 = n /\ n - a + 1 \in DOMAIN q
      BY <1>2, <1>3
    <3>2. q[n - a + 1] = Space
      BY <3>1, <1>4
    <3> QED
      BY <3>1, <3>2, <1>2
  <2> QED
    BY <2>1, <2>2 DEF q
<1>5. CASE marks # {}
  <2>1. marks \subseteq 1..Len(q)
    BY <1>3
  <2>2. Min(marks) \in marks /\ \A n \in marks : Min(marks) <= n
    <3>1. \E n \in marks : \A k \in marks : n <= k
      <4>1. marks \subseteq Nat
        BY <2>1
      <4> HIDE DEF marks
      <4> QED
        BY <1>5, <4>1, Least
    <3> HIDE DEF marks
    <3> QED
      BY <3>1 DEF Min
  <2>3. Max(marks) \in marks
    <3> DEFINE co == {Len(q) - n : n \in marks}
    <3>1. co \subseteq Nat /\ co # {}
      BY <1>3, <1>5, <2>1
    <3>2. PICK c \in co : \A k \in co : c <= k
      <4> HIDE DEF co
      <4> QED
        BY <3>1, Least
    <3>3. PICK n \in marks : c = Len(q) - n
      BY <3>2
    <3>4. \A k \in marks : Len(q) - n <= Len(q) - k
      BY <3>2, <3>3
    <3>5. \A k \in marks : n >= k
      BY <3>4, <2>1, <1>3
    <3> HIDE DEF marks
    <3> QED
      BY <3>3, <3>5 DEF Max
  <2>4. Trim(q) = SubSeq(q, Min(marks), Max(marks))
    BY <1>5 DEF Trim
  <2>5. Min(marks) \in 1..Len(q) /\ Max(marks) \in 1..Len(q) /\ Min(marks) <= Max(marks)
    BY <2>1, <2>2, <2>3
  <2>6. Len(Trim(q)) = Max(marks) - Min(marks) + 1
    <3> HIDE DEF marks
    <3>1. \A i \in Min(marks)..Max(marks) : q[i] \in Tokens
      BY <2>5, <1>2, <1>3, ElementOfSeq
    <3> QED
      BY <2>4, <2>5, <3>1, <1>3, SubSeqProperties
  <2>7. Trim(q) # <<>>
    <3>1. Len(<<>>) = 0
      OBVIOUS
    <3> HIDE DEF marks
    <3> QED
      BY <2>5, <2>6, <3>1, <1>3
  <2>8. PICK i \in marks : TRUE
    BY <1>5
  <2>9. i \in 1..b - a + 1 /\ a + i - 1 \in a..b /\ q[i] # Space
    BY <2>8, <1>2, <1>3
  <2>10. x[a + i - 1] # Space
    BY <2>9, <1>2
  <2> QED
    BY <2>7, <2>9, <2>10 DEF q
<1> QED
  BY <1>4, <1>5

Grows(q, r) == Listed(r) /\ Len(q) <= Len(r) /\ \A n \in 1..Len(q) : r[n] = q[n]

\* Some text stands between a and k.
Marked(m, a, k) == a # 0 /\ \E n \in a..k : m[n] # Space

\* From state a, after k tokens of m, to a later one, b: the blocks stay, and
\* what is open is still open or has become the next block.
Onward(m, k, a, b) ==
    /\ Grows(a.blocks, b.blocks)
    /\ a.tool # None =>
         \/ b.tool = a.tool /\ b.blocks = a.blocks
         \/ Len(b.blocks) > Len(a.blocks) /\ b.blocks[Len(a.blocks) + 1].kind = "tool"
    /\ a.tool = None /\ Marked(m, a.text, k) =>
         \/ b.tool = None /\ b.text = a.text /\ b.blocks = a.blocks
         \/ Len(b.blocks) > Len(a.blocks)

LEMMA ListedLen ==
  ASSUME NEW q, Listed(q)
  PROVE  Len(q) \in Nat /\ DOMAIN q = 1..Len(q)
BY LenProperties DEF Listed

\* A next block, or none, keeps the ones that are there.
LEMMA GrowsAppend ==
  ASSUME NEW q, NEW r, NEW c, Listed(q), Grows(q, r)
  PROVE  Grows(q, Append(r, c))
<1>1. Listed(r) /\ Len(q) \in Nat /\ Len(r) \in Nat
  BY ListedLen DEF Grows
<1>2. /\ Listed(Append(r, c)) /\ Len(Append(r, c)) = Len(r) + 1
      /\ \A n \in 1..Len(r) : Append(r, c)[n] = r[n]
  BY <1>1, Appended
<1> QED
  BY <1>1, <1>2 DEF Grows

LEMMA TokenOnward ==
  ASSUME NEW m \in Seq(Tokens), NEW k \in Nat, NEW i \in 1..Len(m), k <= i - 1,
         NEW a, NEW b, Listed(a.blocks), State(b, i - 1), Onward(m, k, a, b)
  PROVE  Onward(m, k, a, AtToken(m, b, i))
<1> DEFINE c == AtToken(m, b, i)
           q == a.blocks
           r == b.blocks
<1>1. i \in Nat /\ i # 0 /\ i - 1 \in 0..Len(m) /\ Len(m) \in Nat
  BY LenProperties
<1>2. GoesOn(b, c) \/ Completes(b, c) \/ StaysText(b, c, i) \/ Opens(m, b, c, i)
  BY <1>1, TokenState
<1>3. Listed(q) /\ Listed(r) /\ Len(q) \in Nat /\ Len(r) \in Nat /\ Grows(q, r)
  BY ListedLen DEF Onward, Grows
<1> SUFFICES Onward(m, k, a, c)
  OBVIOUS
<1> HIDE DEF c
<1>4. CASE c.blocks = r
  <2>1. GoesOn(b, c) \/ StaysText(b, c, i) \/ Opens(m, b, c, i)
    <3>1. \A x : Append(r, x) # r
      <4> SUFFICES ASSUME NEW x PROVE Append(r, x) # r
        OBVIOUS
      <4>1. Len(Append(r, x)) = Len(r) + 1
        BY <1>3, Appended
      <4> QED
        BY <4>1, <1>3
    <3> QED
      BY <3>1, <1>2, <1>4 DEF Completes
  <2>2. Grows(q, c.blocks)
    BY <1>3, <1>4
  <2>3. CASE Len(r) > Len(q)
    BY <2>2, <2>3, <1>3, <1>4 DEF Onward
  <2>4. CASE ~(Len(r) > Len(q))
    <3>1. a.tool # None => b.tool = a.tool /\ b.blocks = a.blocks
      BY <2>4 DEF Onward
    <3>2. a.tool = None /\ Marked(m, a.text, k) => b.tool = None /\ b.text = a.text /\ b.blocks = a.blocks
      BY <2>4 DEF Onward
    <3>3. a.tool # None => c.tool = a.tool /\ c.blocks = a.blocks
      BY <3>1, <2>1, <1>4 DEF GoesOn, StaysText, Opens
    <3>4. a.tool = None /\ Marked(m, a.text, k) => c.tool = None /\ c.text = a.text /\ c.blocks = a.blocks
      <4> SUFFICES ASSUME a.tool = None, Marked(m, a.text, k)
                   PROVE  c.tool = None /\ c.text = a.text /\ c.blocks = a.blocks
        OBVIOUS
      <4>1. b.tool = None /\ b.text = a.text /\ b.blocks = a.blocks /\ b.text # 0 /\ b.text \in 0..i - 1
        BY <3>2 DEF Marked, State
      <4>2. CASE StaysText(b, c, i)
        BY <4>1, <4>2 DEF StaysText
      <4>3. CASE Opens(m, b, c, i)
        <5> DEFINE v == Trim(SubSeq(m, b.text, i - 1))
        <5>1. \E n \in b.text..i - 1 : m[n] # Space
          BY <4>1, <1>1 DEF Marked
        <5>2. v # <<>>
          <6>1. b.text \in Nat
            BY <4>1
          <6>2. v = <<>> <=> \A n \in b.text..i - 1 : m[n] = Space
            BY <6>1, <4>1, <1>1, TrimIs
          <6> HIDE DEF v
          <6> QED
            BY <6>2, <5>1
        <5>3. c.blocks = Append(r, TextBlock(v, FALSE))
          BY <5>2, <4>1, <4>3 DEF Opens, WithText
        <5>4. Len(c.blocks) = Len(r) + 1
          BY <5>3, <1>3, Appended
        <5> QED
          BY <5>4, <1>3, <1>4
      <4> QED
        BY <4>1, <4>2, <4>3, <2>1 DEF GoesOn
    <3> QED
      BY <2>2, <3>3, <3>4 DEF Onward
  <2> QED
    BY <2>3, <2>4
<1>5. ASSUME NEW x, c.blocks = Append(r, x), x.kind = "tool" \/ b.tool = None
      PROVE  Onward(m, k, a, c)
  <2>1. /\ Len(c.blocks) = Len(r) + 1 /\ c.blocks[Len(r) + 1] = x
        /\ \A n \in 1..Len(r) : c.blocks[n] = r[n]
    BY <1>3, <1>5, Appended
  <2>2. Grows(q, c.blocks)
    BY <1>3, <1>5, GrowsAppend
  <2>3. Len(c.blocks) > Len(q)
    BY <2>1, <1>3 DEF Grows
  <2>4. a.tool # None => c.blocks[Len(q) + 1].kind = "tool"
    <3> SUFFICES ASSUME a.tool # None PROVE c.blocks[Len(q) + 1].kind = "tool"
      OBVIOUS
    <3>1. CASE Len(r) > Len(q)
      <4>1. r[Len(q) + 1].kind = "tool"
        <5>1. r # q
          BY <3>1, <1>3
        <5> QED
          BY <5>1 DEF Onward
      <4>2. Len(q) + 1 \in 1..Len(r)
        BY <3>1, <1>3
      <4> QED
        BY <4>1, <4>2, <2>1
    <3>2. CASE ~(Len(r) > Len(q))
      <4>1. b.tool = a.tool /\ r = q
        BY <3>2 DEF Onward
      <4> QED
        BY <4>1, <2>1, <1>5
    <3> QED
      BY <3>1, <3>2
  <2> QED
    BY <2>2, <2>3, <2>4 DEF Onward
<1>6. CASE Completes(b, c)
  BY <1>5, <1>6 DEF Completes
<1>7. CASE Opens(m, b, c, i) /\ c.blocks # r
  BY <1>5, <1>7 DEF Opens, WithText
<1> QED
  BY <1>2, <1>4, <1>6, <1>7 DEF GoesOn, StaysText

LEMMA ScanOnward ==
  ASSUME NEW m \in Seq(Tokens), NEW k \in 0..Len(m)
  PROVE  \A j \in k..Len(m) : Onward(m, k, Scan(m)[k], Scan(m)[j])
<1> DEFINE s(j) == Scan(m)[j]
           N == Len(m) - k
           T == {n \in 0..N : Onward(m, k, Scan(m)[k], Scan(m)[k + n])}
<1>1. Len(m) \in Nat /\ k \in Nat /\ N \in Nat
  <2>1. Len(m) \in Nat
    BY LenProperties
  <2> QED
    BY <2>1
<1>2. \A j \in 0..Len(m) : State(Scan(m)[j], j)
  BY <1>1, ScanStates
<1>3. Listed(Scan(m)[k].blocks)
  BY <1>2 DEF State
<1>4. 0 \in T
  <2>1. Grows(Scan(m)[k].blocks, Scan(m)[k].blocks)
    BY <1>3, ListedLen DEF Grows
  <2>2. Onward(m, k, Scan(m)[k], Scan(m)[k])
    BY <2>1 DEF Onward
  <2>3. k + 0 = k /\ 0 \in 0..N
    BY <1>1
  <2> QED
    BY <2>2, <2>3
<1>5. ASSUME NEW n \in 0..N, n # N, n \in T PROVE n + 1 \in T
  <2> DEFINE i == k + (n + 1)
  <2>1. i \in 1..Len(m) /\ i - 1 = k + n /\ k <= i - 1 /\ k + n \in 0..Len(m) /\ n + 1 \in 0..N
    BY <1>1, <1>5
  <2> HIDE DEF i
  <2>2. Scan(m)[i] = AtToken(m, Scan(m)[i - 1], i)
    BY <2>1, <1>1, ScanIs
  <2>3. State(Scan(m)[i - 1], i - 1) /\ Onward(m, k, Scan(m)[k], Scan(m)[i - 1])
    BY <2>1, <1>2, <1>5
  <2>4. Onward(m, k, Scan(m)[k], Scan(m)[i])
    BY <2>1, <2>2, <2>3, <1>1, <1>3, TokenOnward
  <2> QED
    BY <2>1, <2>4 DEF i
<1>6. 0..N \subseteq T
  <2> HIDE DEF T, N
  <2> QED
    BY <1>1, <1>4, <1>5, Upward
<1>7. ASSUME NEW j \in k..Len(m) PROVE Onward(m, k, Scan(m)[k], Scan(m)[j])
  <2>1. j - k \in 0..N /\ k + (j - k) = j
    BY <1>1
  <2> QED
    BY <2>1, <1>6
<1> QED
  BY <1>7

-----------------------------------------------------------------------------
(* What is shown and executed. *)

\* After k tokens of x, in state st, B are the complete blocks and what is open.
Comes(x, k, st, B) ==
    LET open == st.tool # None \/ Marked(x, st.text, k)
    IN  /\ Listed(st.blocks) /\ Grows(st.blocks, B)
        /\ ~open => Len(B) = Len(st.blocks)
        /\ open => /\ Len(B) = Len(st.blocks) + 1
                   /\ B[Len(B)].partial = TRUE
                   /\ B[Len(B)].kind = IF st.tool # None THEN "tool" ELSE "text"

LEMMA ParseIs ==
  ASSUME NEW x, Leads(Outside, x, Outside), NEW k \in 0..Len(x)
  PROVE  Comes(x, k, Scan(x)[k], Parse(SubSeq(x, 1, k)))
<1> DEFINE y == SubSeq(x, 1, k)
           st == Scan(x)[k]
           B == Parse(y)
           q == st.blocks
           open == st.tool # None \/ Marked(x, st.text, k)
<1>1. x \in Seq(Tokens) /\ Len(x) \in Nat
  BY LenProperties DEF Leads
<1>2. Len(y) = k /\ \A a \in 1..k + 1, b \in 0..k : SubSeq(y, a, b) = SubSeq(x, a, b)
  BY <1>1, PrefixIs
<1>3. B = AtEnd(y, st)
  <2>1. k \in 0..k
    BY <1>1
  <2>2. Scan(y)[k] = st
    BY <2>1, PrefixScan
  <2> QED
    BY <1>2, <2>2 DEF Parse
<1>4. State(st, k)
  BY <1>1, ScanStates
<1>5. Listed(q) /\ Len(q) \in Nat /\ Grows(q, q)
  BY <1>4, ListedLen DEF State, Grows
<1> HIDE DEF y, st, B
<1> SUFFICES Comes(x, k, st, B)
  BY DEF st, B, y
<1>6. CASE st.tool # None
  <2> DEFINE rest == Trim(SubSeq(y, st.value, Len(y)))
             c == ToolBlock(st.tool, IF st.param = None THEN st.params ELSE Put(st.params, st.param, rest), TRUE)
  <2>1. B = Append(q, c)
    BY <1>3, <1>6 DEF AtEnd
  <2>2. c.kind = "tool" /\ c.partial = TRUE
    BY DEF ToolBlock
  <2> HIDE DEF c
  <2>3. Grows(q, B) /\ Len(B) = Len(q) + 1 /\ B[Len(q) + 1] = c
    <3>1. Grows(q, Append(q, c))
      BY <1>5, GrowsAppend
    <3>2. Len(Append(q, c)) = Len(q) + 1 /\ Append(q, c)[Len(q) + 1] = c
      BY <1>5, Appended
    <3> QED
      BY <2>1, <3>1, <3>2
  <2> QED
    BY <2>2, <2>3, <1>5, <1>6 DEF Comes
<1>7. CASE st.tool = None /\ st.text = 0
  <2>1. B = q
    BY <1>3, <1>7 DEF AtEnd
  <2>2. ~open
    BY <1>7 DEF Marked
  <2> QED
    BY <2>1, <2>2, <1>5, <1>7 DEF Comes
<1>8. CASE st.tool = None /\ st.text # 0
  <2> DEFINE v == Trim(SubSeq(x, st.text, k))
  <2>1. st.text \in 1..k /\ k \in 0..k /\ st.text \in Nat /\ st.text # 0
    BY <1>4, <1>8 DEF State
  <2>2. SubSeq(y, st.text, Len(y)) = SubSeq(x, st.text, k)
    <3>1. st.text \in 1..k + 1
      BY <2>1
    <3>2. SubSeq(y, st.text, k) = SubSeq(x, st.text, k)
      BY <3>1, <2>1, <1>2
    <3> QED
      BY <3>2, <1>2
  <2>3. B = WithText(st, v, TRUE)
    BY <2>2, <1>3, <1>8 DEF AtEnd
  <2>4. open <=> v # <<>>
    <3>1. v = <<>> <=> \A n \in st.text..k : x[n] = Space
      BY <2>1, <1>1, TrimIs
    <3> HIDE DEF v
    <3> QED
      BY <3>1, <1>8 DEF Marked
  <2> HIDE DEF v
  <2>5. CASE v = <<>>
    <3>1. B = q
      BY <2>3, <2>5 DEF WithText
    <3> QED
      BY <3>1, <2>4, <2>5, <1>5, <1>8 DEF Comes
  <2>6. CASE v # <<>>
    <3> DEFINE c == TextBlock(v, TRUE)
    <3>1. B = Append(q, c)
      BY <2>3, <2>6 DEF WithText
    <3>2. c.kind = "text" /\ c.partial = TRUE
      BY DEF TextBlock
    <3> HIDE DEF c
    <3>3. Grows(q, B) /\ Len(B) = Len(q) + 1 /\ B[Len(q) + 1] = c
      <4>1. Grows(q, Append(q, c))
        BY <1>5, GrowsAppend
      <4>2. Len(Append(q, c)) = Len(q) + 1 /\ Append(q, c)[Len(q) + 1] = c
        BY <1>5, Appended
      <4> QED
        BY <3>1, <4>1, <4>2
    <3> QED
      BY <3>2, <3>3, <2>4, <2>6, <1>5, <1>8 DEF Comes
  <2> QED
    BY <2>5, <2>6
<1> QED
  BY <1>5, <1>6, <1>7, <1>8

\* From the blocks of one chunk to those of a later one.
Follows(B, C) ==
    /\ DOMAIN B = 1..Len(B) /\ Len(B) \in Nat /\ Len(C) \in Nat
    /\ Len(B) <= Len(C)
    /\ \A n \in 1..Len(B) :
         \/ C[n] = B[n]
         \/ B[n].partial = TRUE /\ (B[n].kind = "tool" => C[n].kind = "tool")

LEMMA ParseGrows ==
  ASSUME NEW x, Leads(Outside, x, Outside), NEW k \in 0..Len(x), NEW j \in k..Len(x)
  PROVE  Follows(Parse(SubSeq(x, 1, k)), Parse(SubSeq(x, 1, j)))
<1> DEFINE B == Parse(SubSeq(x, 1, k))
           C == Parse(SubSeq(x, 1, j))
           a == Scan(x)[k]
           b == Scan(x)[j]
           p == (a.tool # None \/ Marked(x, a.text, k))
           q == (b.tool # None \/ Marked(x, b.text, j))
<1>1. x \in Seq(Tokens) /\ Len(x) \in Nat /\ j \in 0..Len(x) /\ k \in Nat /\ k <= j
  BY LenProperties DEF Leads
<1>2. Onward(x, k, a, b)
  BY <1>1, ScanOnward
<1>3. /\ Listed(a.blocks) /\ Grows(a.blocks, B)
      /\ Len(B) = IF p THEN Len(a.blocks) + 1 ELSE Len(a.blocks)
      /\ p => B[Len(B)].partial = TRUE /\ B[Len(B)].kind = IF a.tool # None THEN "tool" ELSE "text"
  <2>1. Comes(x, k, a, B)
    BY ParseIs
  <2> HIDE DEF a
  <2> QED
    BY <2>1 DEF Comes
<1>4. /\ Listed(b.blocks) /\ Grows(b.blocks, C)
      /\ Len(C) = IF q THEN Len(b.blocks) + 1 ELSE Len(b.blocks)
      /\ q => C[Len(C)].partial = TRUE /\ C[Len(C)].kind = IF b.tool # None THEN "tool" ELSE "text"
  <2>1. Comes(x, j, b, C)
    BY <1>1, ParseIs
  <2> HIDE DEF b
  <2> QED
    BY <2>1 DEF Comes
<1>5. Marked(x, a.text, k) => Marked(x, a.text, j)
  BY <1>1 DEF Marked
<1>6. a.text \in 0..k
  BY <1>1, ScanStates DEF State
<1> SUFFICES Follows(B, C)
  OBVIOUS
<1> HIDE DEF a, b, B, C
<1>7. Len(a.blocks) \in Nat /\ Len(b.blocks) \in Nat /\ Len(a.blocks) <= Len(b.blocks)
  BY <1>2, <1>3, <1>4, ListedLen DEF Onward, Grows
<1>8. DOMAIN B = 1..Len(B) /\ Len(B) \in Nat /\ Len(C) \in Nat
  BY <1>3, <1>4, ListedLen DEF Grows
<1>9. \A n \in 1..Len(a.blocks) : C[n] = B[n]
  <2> SUFFICES ASSUME NEW n \in 1..Len(a.blocks) PROVE C[n] = B[n]
    OBVIOUS
  <2>1. B[n] = a.blocks[n]
    BY <1>3 DEF Grows
  <2>2. b.blocks[n] = a.blocks[n]
    BY <1>2 DEF Onward, Grows
  <2>3. C[n] = b.blocks[n]
    BY <1>4, <1>7 DEF Grows
  <2> QED
    BY <2>1, <2>2, <2>3
<1>10. CASE ~p
  <2>1. Len(B) = Len(a.blocks)
    BY <1>3, <1>10
  <2>2. Len(b.blocks) <= Len(C)
    BY <1>4 DEF Grows
  <2> QED
    BY <2>1, <2>2, <1>7, <1>8, <1>9 DEF Follows
<1>11. CASE p
  <2>1. Len(B) = Len(a.blocks) + 1
    BY <1>3, <1>11
  <2>2. Len(b.blocks) <= Len(C)
    BY <1>4 DEF Grows
  <2>3. Len(C) >= Len(B) /\ (a.tool # None => C[Len(B)].kind = "tool")
    <3>1. CASE Len(b.blocks) > Len(a.blocks)
      <4>1. a.tool # None => b.blocks[Len(a.blocks) + 1].kind = "tool"
        <5>1. b.blocks # a.blocks
          BY <3>1, <1>7
        <5> QED
          BY <5>1, <1>2 DEF Onward
      <4>2. C[Len(B)] = b.blocks[Len(B)]
        <5>1. Len(B) \in 1..Len(b.blocks)
          BY <3>1, <2>1, <1>7
        <5> QED
          BY <5>1, <1>4 DEF Grows
      <4> QED
        BY <3>1, <4>1, <4>2, <2>1, <2>2, <1>7, <1>8
    <3>2. CASE ~(Len(b.blocks) > Len(a.blocks))
      <4>1. CASE a.tool # None
        <5>1. b.tool = a.tool /\ b.blocks = a.blocks
          BY <4>1, <3>2, <1>2 DEF Onward
        <5>2. Len(C) = Len(B) /\ C[Len(C)].kind = "tool"
          BY <4>1, <5>1, <1>4, <2>1
        <5> QED
          BY <5>2, <1>8
      <4>2. CASE a.tool = None
        <5>1. Marked(x, a.text, k)
          BY <4>2, <1>11
        <5>2. b.tool = None /\ b.text = a.text /\ b.blocks = a.blocks
          BY <4>2, <5>1, <3>2, <1>2 DEF Onward
        <5>3. Len(C) = Len(B)
          BY <5>1, <5>2, <1>4, <1>5, <2>1
        <5> QED
          BY <4>2, <5>3, <1>8
      <4> QED
        BY <4>1, <4>2
    <3> QED
      BY <3>1, <3>2
  <2>4. ASSUME NEW n \in 1..Len(B)
        PROVE  C[n] = B[n] \/ (B[n].partial = TRUE /\ (B[n].kind = "tool" => C[n].kind = "tool"))
    <3>1. CASE n \in 1..Len(a.blocks)
      BY <3>1, <1>9
    <3>2. CASE n = Len(B)
      <4>1. B[n].kind = "tool" => a.tool # None
        BY <3>2, <1>3, <1>11
      <4> QED
        BY <3>2, <4>1, <2>3, <1>3, <1>11
    <3> QED
      <4>1. n \in 1..Len(a.blocks) \/ n = Len(B)
        BY <2>1, <1>7
      <4> QED
        BY <3>1, <3>2, <4>1
  <2> QED
    BY <2>3, <2>4, <1>8 DEF Follows
<1> QED
  BY <1>10, <1>11

-----------------------------------------------------------------------------
(* Where the parts of an answer stand. *)

\* x stands in m, after its first o tokens.
At(m, o, x) == o + Len(x) <= Len(m) /\ \A i \in 1..Len(x) : m[o + i] = x[i]

\* The sequences of q stand in m one after another; g tells where each one ends.
Parts(m, o, q, g) ==
    /\ g \in [0..Len(q) -> Nat] /\ g[0] = o
    /\ \A n \in 1..Len(q) : g[n] = g[n - 1] + Len(q[n]) /\ At(m, g[n - 1], q[n])

LEMMA AtConcat ==
  ASSUME NEW S, NEW x \in Seq(S), NEW y \in Seq(S)
  PROVE  /\ x \o y \in Seq(S) /\ Len(x \o y) = Len(x) + Len(y)
         /\ At(x \o y, 0, x) /\ At(x \o y, Len(x), y)
<1>1. /\ x \o y \in Seq(S) /\ Len(x \o y) = Len(x) + Len(y)
      /\ \A i \in 1..Len(x) + Len(y) : (x \o y)[i] = IF i <= Len(x) THEN x[i] ELSE y[i - Len(x)]
  BY ConcatProperties
<1>2. Len(x) \in Nat /\ Len(y) \in Nat
  BY LenProperties
<1>3. At(x \o y, 0, x)
  BY <1>1, <1>2 DEF At
<1>4. ASSUME NEW i \in 1..Len(y) PROVE (x \o y)[Len(x) + i] = y[i]
  <2>1. Len(x) + i \in 1..Len(x) + Len(y) /\ ~(Len(x) + i <= Len(x)) /\ (Len(x) + i) - Len(x) = i
    BY <1>2
  <2> QED
    BY <2>1, <1>1
<1>5. At(x \o y, Len(x), y)
  BY <1>1, <1>4 DEF At
<1> QED
  BY <1>1, <1>3, <1>5

LEMMA AtPart ==
  ASSUME NEW m, NEW x, NEW y, Len(m) \in Nat, Len(x) \in Nat, Len(y) \in Nat,
         NEW o \in Nat, NEW k \in Nat, At(m, o, x), At(x, k, y)
  PROVE  At(m, o + k, y)
<1>1. ASSUME NEW i \in 1..Len(y) PROVE m[(o + k) + i] = y[i]
  <2>1. k + i \in 1..Len(x) /\ (o + k) + i = o + (k + i)
    BY DEF At
  <2> QED
    BY <2>1 DEF At
<1> QED
  BY <1>1 DEF At

LEMMA FlattenParts ==
  ASSUME NEW S, NEW q \in Seq(Seq(S))
  PROVE  /\ FlattenSeq(q) \in Seq(S)
         /\ \E g : Parts(FlattenSeq(q), 0, q, g) /\ g[Len(q)] = Len(FlattenSeq(q))
<1>0. Len(q) \in Nat /\ \A n \in 1..Len(q) : q[n] \in Seq(S) /\ Len(q[n]) \in Nat
  BY ElementOfSeq, LenProperties
<1>1. CASE q = <<>>
  <2> DEFINE g == [n \in 0..0 |-> 0]
  <2>1. FlattenSeq(q) = <<>> /\ Len(q) = 0
    BY <1>1 DEF FlattenSeq
  <2>2. Parts(<<>>, 0, q, g) /\ g[0] = Len(<<>>)
    BY <2>1 DEF Parts
  <2> HIDE DEF g
  <2> QED
    BY <2>1, <2>2
<1>2. CASE q # <<>>
  <2>1. PICK f : /\ f[1] = q[1]
                 /\ \A i \in 2..Len(q) : f[i] = f[i - 1] \o q[i]
                 /\ FlattenSeq(q) = f[Len(q)]
    BY <1>2, FlattenIs
  <2>2. Len(q) # 0
    BY <1>2, EmptySeq
  <2> DEFINE g == [n \in 0..Len(q) |-> IF n = 0 THEN 0 ELSE Len(f[n])]
             T == {n \in 0..Len(q) :
                     n # 0 => /\ \A k \in 1..n : f[k] \in Seq(S)
                              /\ \A k \in 1..n : g[k] = g[k - 1] + Len(q[k]) /\ At(f[n], g[k - 1], q[k])}
  <2>3. g[0] = 0 /\ \A n \in 1..Len(q) : g[n] = Len(f[n])
    OBVIOUS
  <2>4. g = [n \in 0..Len(q) |-> g[n]]
    OBVIOUS
  <2> HIDE DEF g
  <2>5. 0 \in T
    BY <1>0
  <2>6. ASSUME NEW n \in 0..Len(q), n # Len(q), n \in T PROVE n + 1 \in T
    <3>1. n + 1 \in 1..Len(q) /\ n + 1 \in 0..Len(q) /\ q[n + 1] \in Seq(S) /\ Len(q[n + 1]) \in Nat
      BY <2>6, <1>0
    <3>2. CASE n = 0
      <4>1. f[1] \in Seq(S) /\ Len(f[1]) \in Nat
        BY <3>1, <3>2, <2>1
      <4>2. g[1] = g[0] + Len(q[1]) /\ At(f[1], g[0], q[1])
        BY <4>1, <3>1, <3>2, <2>1, <2>3 DEF At
      <4>3. \A k \in 1..1 : k = 1 /\ k - 1 = 0
        OBVIOUS
      <4> QED
        BY <4>1, <4>2, <4>3, <3>1, <3>2
    <3>3. CASE n # 0
      <4>1. /\ \A k \in 1..n : f[k] \in Seq(S)
            /\ f[n] \in Seq(S)
            /\ \A k \in 1..n : g[k] = g[k - 1] + Len(q[k]) /\ At(f[n], g[k - 1], q[k])
        BY <2>6, <3>3
      <4>2. n + 1 \in 2..Len(q) /\ (n + 1) - 1 = n /\ n \in 1..Len(q)
        BY <3>1, <3>3
      <4>3. f[n + 1] = f[n] \o q[n + 1]
        BY <4>2, <2>1
      <4>4. /\ f[n + 1] \in Seq(S) /\ Len(f[n + 1]) = Len(f[n]) + Len(q[n + 1])
            /\ At(f[n + 1], 0, f[n]) /\ At(f[n + 1], Len(f[n]), q[n + 1])
        BY <4>1, <4>3, <3>1, AtConcat
      <4>5. Len(f[n]) \in Nat /\ Len(f[n + 1]) \in Nat
        BY <4>1, <4>4, LenProperties
      <4>6. ASSUME NEW k \in 1..n + 1 PROVE g[k] = g[k - 1] + Len(q[k]) /\ At(f[n + 1], g[k - 1], q[k])
        <5>1. CASE k = n + 1
          <6>1. g[k] = Len(f[n + 1]) /\ g[k - 1] = Len(f[n])
            BY <5>1, <4>2, <3>1, <2>3
          <6> QED
            BY <6>1, <5>1, <4>4
        <5>2. CASE k # n + 1
          <6>1. k \in 1..n /\ k \in 1..Len(q)
            BY <5>2, <3>1
          <6>2. g[k] = g[k - 1] + Len(q[k]) /\ At(f[n], g[k - 1], q[k])
            BY <6>1, <4>1
          <6>3. g[k - 1] \in Nat
            <7>1. CASE k = 1
              BY <7>1, <2>3
            <7>2. CASE k # 1
              <8>1. k - 1 \in 1..Len(q) /\ k - 1 \in 1..n
                BY <7>2, <6>1, <4>2
              <8>2. g[k - 1] = Len(f[k - 1]) /\ f[k - 1] \in Seq(S)
                BY <8>1, <2>3, <4>1
              <8> QED
                BY <8>2, LenProperties
            <7> QED
              BY <7>1, <7>2
          <6>4. At(f[n + 1], 0 + g[k - 1], q[k])
            BY <6>1, <6>2, <6>3, <4>4, <4>5, <1>0, AtPart
          <6> QED
            BY <6>2, <6>3, <6>4
        <5> QED
          BY <5>1, <5>2
      <4>7. ASSUME NEW k \in 1..n + 1 PROVE f[k] \in Seq(S)
        <5>1. k \in 1..n \/ k = n + 1
          BY <3>1
        <5> QED
          BY <5>1, <4>1, <4>4
      <4> QED
        BY <4>6, <4>7, <3>1
    <3> QED
      BY <3>2, <3>3
  <2>7. 0..Len(q) \subseteq T
    <3> HIDE DEF T
    <3> QED
      BY <1>0, <2>5, <2>6, Upward
  <2>8. Len(q) \in T
    <3> HIDE DEF T
    <3> QED
      BY <1>0, <2>7
  <2>9. FlattenSeq(q) \in Seq(S) /\ g[Len(q)] = Len(FlattenSeq(q))
        /\ \A k \in 1..Len(q) : g[k] = g[k - 1] + Len(q[k]) /\ At(FlattenSeq(q), g[k - 1], q[k])
    BY <2>1, <2>2, <2>3, <2>8, <1>0
  <2>10. ASSUME NEW n \in 0..Len(q) PROVE g[n] \in Nat
    <3>1. CASE n = 0
      BY <3>1, <2>3
    <3>2. CASE n # 0
      <4>1. n \in 1..Len(q) /\ f[n] \in Seq(S)
        BY <3>2, <2>8
      <4> QED
        BY <4>1, <2>3, LenProperties
    <3> QED
      BY <3>1, <3>2
  <2>11. g \in [0..Len(q) -> Nat]
    BY <2>4, <2>10
  <2> QED
    BY <2>3, <2>9, <2>11 DEF Parts
<1> QED
  BY <1>1, <1>2

\* The same for a part of m.
LEMMA PartsAt ==
  ASSUME NEW S, NEW q \in Seq(Seq(S)), NEW m, Len(m) \in Nat, NEW o \in Nat, At(m, o, FlattenSeq(q))
  PROVE  \E g : Parts(m, o, q, g) /\ g[Len(q)] = o + Len(FlattenSeq(q))
<1> DEFINE x == FlattenSeq(q)
<1>1. PICK h : Parts(x, 0, q, h) /\ h[Len(q)] = Len(x)
  BY FlattenParts
<1>2. x \in Seq(S) /\ Len(x) \in Nat
  BY FlattenParts, LenProperties
<1>3. Len(q) \in Nat /\ \A n \in 1..Len(q) : Len(q[n]) \in Nat
  BY ElementOfSeq, LenProperties
<1> HIDE DEF x
<1> DEFINE g == [n \in 0..Len(q) |-> o + h[n]]
<1>4. h \in [0..Len(q) -> Nat] /\ h[0] = 0
  BY <1>1 DEF Parts
<1>5. g \in [0..Len(q) -> Nat] /\ \A n \in 0..Len(q) : g[n] = o + h[n]
  BY <1>4
<1> HIDE DEF g
<1>6. ASSUME NEW n \in 1..Len(q) PROVE g[n] = g[n - 1] + Len(q[n]) /\ At(m, g[n - 1], q[n])
  <2>1. n - 1 \in 0..Len(q) /\ n \in 0..Len(q)
    BY <1>3
  <2>2. g[n] = o + h[n] /\ g[n - 1] = o + h[n - 1] /\ h[n] \in Nat /\ h[n - 1] \in Nat
    BY <2>1, <1>4, <1>5
  <2>3. h[n] = h[n - 1] + Len(q[n]) /\ At(x, h[n - 1], q[n])
    BY <1>1 DEF Parts
  <2>4. At(m, o, x)
    BY DEF x
  <2>5. At(m, o + h[n - 1], q[n])
    BY <2>2, <2>3, <2>4, <1>2, <1>3, AtPart
  <2> QED
    BY <2>2, <2>3, <2>5, <1>3
<1>7. Parts(m, o, q, g)
  BY <1>3, <1>4, <1>5, <1>6 DEF Parts
<1>8. g[Len(q)] = o + Len(x)
  <2>1. Len(q) \in 0..Len(q)
    BY <1>3
  <2>2. h[Len(q)] = Len(x)
    BY <1>1 DEF x
  <2> QED
    BY <2>1, <2>2, <1>5
<1> QED
  BY <1>7, <1>8 DEF x

\* Token j of m is token k of part n.
TokenOf(m, q, g, j, n, k) ==
    n \in 1..Len(q) /\ k \in 1..Len(q[n]) /\ j = g[n - 1] + k /\ m[j] = q[n][k]

\* Every token is a token of a part.
LEMMA PartsCover ==
  ASSUME NEW S, NEW q \in Seq(Seq(S)), NEW m, NEW g, Parts(m, 0, q, g)
  PROVE  \A j \in 1..g[Len(q)] : \E n, k : TokenOf(m, q, g, j, n, k)
<1>1. Len(q) \in Nat /\ \A n \in 1..Len(q) : Len(q[n]) \in Nat
  BY ElementOfSeq, LenProperties
<1>2. /\ g[0] = 0 /\ \A n \in 0..Len(q) : g[n] \in Nat
      /\ \A n \in 1..Len(q) : g[n] = g[n - 1] + Len(q[n]) /\ At(m, g[n - 1], q[n])
  BY DEF Parts
<1> DEFINE T == {e \in 0..Len(q) : \A j \in 1..g[e] : \E n, k : TokenOf(m, q, g, j, n, k)}
<1>3. 0 \in T
  <2>1. \A j \in 1..g[0] : FALSE
    BY <1>2
  <2> QED
    BY <2>1, <1>1
<1>4. ASSUME NEW e \in 0..Len(q), e # Len(q), e \in T PROVE e + 1 \in T
  <2>1. e + 1 \in 1..Len(q) /\ (e + 1) - 1 = e /\ e + 1 \in 0..Len(q)
    BY <1>1, <1>4
  <2>2. g[e + 1] = g[e] + Len(q[e + 1]) /\ At(m, g[e], q[e + 1]) /\ g[e] \in Nat /\ Len(q[e + 1]) \in Nat
    BY <2>1, <1>1, <1>2
  <2>3. ASSUME NEW j \in 1..g[e + 1] PROVE \E n, k : TokenOf(m, q, g, j, n, k)
    <3>1. CASE j <= g[e]
      <4>1. j \in 1..g[e]
        BY <3>1, <2>2
      <4> QED
        BY <4>1, <1>4
    <3>2. CASE ~(j <= g[e])
      <4>1. j - g[e] \in 1..Len(q[e + 1]) /\ j = g[e] + (j - g[e])
        BY <3>2, <2>2
      <4>2. m[g[e] + (j - g[e])] = q[e + 1][j - g[e]]
        BY <4>1, <2>2 DEF At
      <4>3. TokenOf(m, q, g, j, e + 1, j - g[e])
        BY <4>1, <4>2, <2>1 DEF TokenOf
      <4> QED
        BY <4>3
    <3> QED
      BY <3>1, <3>2
  <2> QED
    BY <2>1, <2>3
<1>5. 0..Len(q) \subseteq T
  <2> HIDE DEF T
  <2> QED
    BY <1>1, <1>3, <1>4, Upward
<1>6. Len(q) \in T
  <2> HIDE DEF T
  <2> QED
    BY <1>1, <1>5
<1> QED
  BY <1>6

LEMMA AtSubSeq ==
  ASSUME NEW S, NEW m, NEW x \in Seq(S), NEW o \in Nat, At(m, o, x)
  PROVE  SubSeq(m, o + 1, o + Len(x)) = x
<1>1. Len(x) \in Nat /\ \A i \in 1..Len(x) : x[i] \in S
  BY ElementOfSeq, LenProperties
<1> DEFINE a == o + 1
           b == o + Len(x)
<1>2. a \in Int /\ b \in Int /\ b - a + 1 = Len(x)
  BY <1>1
<1>3. ASSUME NEW i \in a..b PROVE m[i] \in S
  <2>1. i - o \in 1..Len(x) /\ o + (i - o) = i
    BY <1>1
  <2>2. m[i] = x[i - o]
    BY <2>1 DEF At
  <2> QED
    BY <2>1, <2>2, <1>1
<1> HIDE DEF a, b
<1>4. /\ SubSeq(m, a, b) \in Seq(S) /\ Len(SubSeq(m, a, b)) = IF a <= b THEN b - a + 1 ELSE 0
      /\ \A i \in 1..b - a + 1 : SubSeq(m, a, b)[i] = m[a + i - 1]
  BY <1>2, <1>3, SubSeqProperties
<1>5. Len(SubSeq(m, a, b)) = Len(x)
  BY <1>1, <1>2, <1>4
<1>6. ASSUME NEW i \in 1..Len(x) PROVE SubSeq(m, a, b)[i] = x[i]
  <2>1. i \in 1..b - a + 1 /\ a + i - 1 = o + i
    BY <1>1, <1>2 DEF a
  <2>2. m[o + i] = x[i]
    BY DEF At
  <2> QED
    BY <2>1, <2>2, <1>4
<1>7. SubSeq(m, a, b) = x
  BY <1>4, <1>5, <1>6, SeqEqual
<1> QED
  BY <1>7 DEF a, b

-----------------------------------------------------------------------------
(* How blocks are written out. *)

Dialects == [param : {"own", "parameter"}, tool : {"own", "function"}]

LEMMA AtAround ==
  ASSUME NEW S, NEW a \in S, NEW y \in Seq(S), NEW z \in Seq(S)
  PROVE  /\ <<a>> \o y \o z \in Seq(S) /\ Len(<<a>> \o y \o z) = 1 + Len(y) + Len(z)
         /\ (<<a>> \o y \o z)[1] = a
         /\ At(<<a>> \o y \o z, 1, y) /\ At(<<a>> \o y \o z, 1 + Len(y), z)
<1> DEFINE x == <<a>> \o y
           w == x \o z
<1>1. <<a>> \in Seq(S) /\ Len(<<a>>) = 1 /\ <<a>>[1] = a
  OBVIOUS
<1>2. x \in Seq(S) /\ Len(x) = 1 + Len(y) /\ At(x, 0, <<a>>) /\ At(x, 1, y)
  BY <1>1, AtConcat
<1> HIDE DEF x
<1>3. w \in Seq(S) /\ Len(w) = Len(x) + Len(z) /\ At(w, 0, x) /\ At(w, Len(x), z)
  BY <1>2, AtConcat
<1>4. Len(w) \in Nat /\ Len(x) \in Nat /\ Len(y) \in Nat
  BY <1>2, <1>3, LenProperties
<1> HIDE DEF w
<1>5. At(w, 0 + 0, <<a>>) /\ At(w, 0 + 1, y)
  BY <1>1, <1>2, <1>3, <1>4, AtPart
<1>6. w[1] = a
  <2>1. At(w, 0, <<a>>)
    BY <1>5
  <2> QED
    BY <2>1, <1>1 DEF At
<1> QED
  BY <1>2, <1>3, <1>5, <1>6 DEF w, x

\* The same for tokens.
LEMMA TokensAround ==
  ASSUME NEW a \in Tokens, NEW y \in Seq(Tokens), NEW z \in Seq(Tokens), NEW w, w = <<a>> \o y \o z
  PROVE  /\ w \in Seq(Tokens) /\ Len(w) = 1 + Len(y) + Len(z)
         /\ w[1] = a /\ At(w, 1, y) /\ At(w, 1 + Len(y), z)
BY AtAround

LEMMA TagTokens ==
  /\ \A n \in Tools \cup Params \cup {"parameter", "function"} : Open(n) \in Tokens /\ Close(n) \in Tokens
  /\ Space \in Tokens
BY DEF Tokens, Open, Close

LEMMA RenderParamIs ==
  ASSUME NEW p \in Params \X Seq(Tokens), NEW d \in Dialects
  PROVE  LET x == RenderParam(p, d) IN
         /\ x \in Seq(Tokens) /\ Len(x) = Len(p[2]) + 3 /\ Len(p[2]) \in Nat
         /\ x[1] = Open(p[1]) /\ At(x, 1, p[2])
         /\ x[Len(p[2]) + 2] = CloseOf(p[1], d.param) /\ x[Len(p[2]) + 3] = Space
<1> DEFINE z == <<CloseOf(p[1], d.param), Space>>
           w == <<Open(p[1])>> \o p[2] \o z
<1>1. p[1] \in Params /\ p[2] \in Seq(Tokens)
  OBVIOUS
<1>2. CloseOf(p[1], d.param) \in Tokens
  BY TagTokens DEF CloseOf, Dialects
<1>3. z \in Seq(Tokens) /\ Len(z) = 2 /\ z[1] = CloseOf(p[1], d.param) /\ z[2] = Space
  BY <1>2, TagTokens
<1> HIDE DEF z
<1>4. Open(p[1]) \in Tokens
  BY <1>1, TagTokens
<1>5. /\ w \in Seq(Tokens) /\ Len(w) = 1 + Len(p[2]) + Len(z)
      /\ w[1] = Open(p[1]) /\ At(w, 1, p[2]) /\ At(w, 1 + Len(p[2]), z)
  BY <1>1, <1>3, <1>4, TokensAround
<1>6. Len(p[2]) \in Nat
  BY <1>1, LenProperties
<1>7. RenderParam(p, d) = w
  BY DEF RenderParam, z
<1> HIDE DEF w
<1>8. w[(1 + Len(p[2])) + 1] = z[1] /\ w[(1 + Len(p[2])) + 2] = z[2]
  <2>1. 1 \in 1..Len(z) /\ 2 \in 1..Len(z)
    BY <1>3
  <2> QED
    BY <2>1, <1>5, Zenon DEF At
<1>9. (1 + Len(p[2])) + 1 = Len(p[2]) + 2 /\ (1 + Len(p[2])) + 2 = Len(p[2]) + 3
  BY <1>6
<1> QED
  BY <1>3, <1>5, <1>6, <1>7, <1>8, <1>9

\* The parameters of a call, one after another, and all of them.
Rendered(b, d) == [n \in DOMAIN b.params |-> RenderParam(b.params[n], d)]
Body(b, d) == FlattenSeq(Rendered(b, d))

LEMMA CallIs ==
  ASSUME NEW b \in Calls
  PROVE  /\ b.kind = "tool" /\ b.kind # "text" /\ b.name \in Tools /\ b.params \in Seq(Params \X Seq(Tokens))
         /\ Len(b.params) \in Nat /\ DOMAIN b.params = 1..Len(b.params)
         /\ \A n \in 1..Len(b.params) : b.params[n] \in Params \X Seq(Tokens) /\ b.params[n] \in ToSet(b.params)
<1>1. b.kind = "tool" /\ b.kind # "text" /\ b.name \in Tools /\ b.params \in Seq(Params \X Seq(Tokens))
  BY DEF Calls
<1>2. Len(b.params) \in Nat /\ DOMAIN b.params = 1..Len(b.params)
  BY <1>1, LenProperties
<1>3. \A n \in 1..Len(b.params) : b.params[n] \in Params \X Seq(Tokens)
  BY <1>1, ElementOfSeq
<1> QED
  BY <1>1, <1>2, <1>3 DEF ToSet

LEMMA BodyIs ==
  ASSUME NEW b \in Calls, NEW d \in Dialects
  PROVE  /\ Rendered(b, d) \in Seq(Seq(Tokens)) /\ Len(Rendered(b, d)) = Len(b.params)
         /\ \A n \in 1..Len(b.params) : Rendered(b, d)[n] = RenderParam(b.params[n], d)
         /\ Body(b, d) \in Seq(Tokens) /\ Len(Body(b, d)) \in Nat
<1>1. \A n \in 1..Len(b.params) : RenderParam(b.params[n], d) \in Seq(Tokens)
  BY CallIs, RenderParamIs
<1>2. Rendered(b, d) = [n \in 1..Len(b.params) |-> RenderParam(b.params[n], d)]
  BY CallIs DEF Rendered
<1>3. Len(b.params) \in Nat
  BY CallIs
<1>4. Rendered(b, d) \in Seq(Seq(Tokens)) /\ Len(Rendered(b, d)) = Len(b.params)
  BY <1>1, <1>2, <1>3
<1>5. Body(b, d) \in Seq(Tokens)
  BY <1>4, FlattenParts DEF Body
<1> QED
  BY <1>2, <1>4, <1>5, LenProperties

LEMMA RenderCallIs ==
  ASSUME NEW b \in Calls, NEW d \in Dialects
  PROVE  LET x == Render(b, d) IN
         /\ x \in Seq(Tokens) /\ Len(x) = Len(Body(b, d)) + 2
         /\ x[1] = Open(b.name) /\ At(x, 1, Body(b, d))
         /\ x[Len(Body(b, d)) + 2] = CloseOf(b.name, d.tool)
<1> DEFINE z == <<CloseOf(b.name, d.tool)>>
           y == Body(b, d)
           w == <<Open(b.name)>> \o y \o z
<1>1. Open(b.name) \in Tokens /\ CloseOf(b.name, d.tool) \in Tokens
  BY CallIs, TagTokens DEF CloseOf, Dialects
<1>2. z \in Seq(Tokens) /\ Len(z) = 1 /\ z[1] = CloseOf(b.name, d.tool)
  BY <1>1
<1>3. y \in Seq(Tokens) /\ Len(y) \in Nat
  BY BodyIs
<1>4. Render(b, d) = w
  BY CallIs DEF Render, Body, Rendered
<1> HIDE DEF y, z
<1>5. /\ w \in Seq(Tokens) /\ Len(w) = 1 + Len(y) + Len(z)
      /\ w[1] = Open(b.name) /\ At(w, 1, y) /\ At(w, 1 + Len(y), z)
  BY <1>1, <1>2, <1>3, TokensAround
<1> HIDE DEF w
<1>6. w[(1 + Len(y)) + 1] = z[1]
  <2>1. 1 \in 1..Len(z)
    BY <1>2
  <2> QED
    BY <2>1, <1>5, Zenon DEF At
<1>7. (1 + Len(y)) + 1 = Len(y) + 2
  BY <1>3
<1> QED
  BY <1>2, <1>3, <1>4, <1>5, <1>6, <1>7 DEF y

LEMMA AnswerIs ==
  ASSUME intent \in Seq(Texts \cup Calls), dialect \in Dialects
  PROVE  LET q == [n \in DOMAIN intent |-> Render(intent[n], dialect)] IN
         /\ q \in Seq(Seq(Tokens)) /\ Len(q) = Len(intent) /\ Len(intent) \in Nat
         /\ \A n \in 1..Len(intent) : intent[n] \in Texts \cup Calls /\ q[n] = Render(intent[n], dialect)
         /\ Answer = FlattenSeq(q) /\ Answer \in Seq(Tokens) /\ Len(Answer) \in Nat
<1> DEFINE q == [n \in DOMAIN intent |-> Render(intent[n], dialect)]
<1>1. Len(intent) \in Nat /\ DOMAIN intent = 1..Len(intent)
      /\ \A n \in 1..Len(intent) : intent[n] \in Texts \cup Calls
  BY ElementOfSeq, LenProperties
<1>2. ASSUME NEW b \in Texts \cup Calls PROVE Render(b, dialect) \in Seq(Tokens)
  <2>1. CASE b \in Texts
    BY <2>1 DEF Texts, Render
  <2>2. CASE b \in Calls
    BY <2>2, RenderCallIs
  <2> QED
    BY <2>1, <2>2
<1>3. q = [n \in 1..Len(intent) |-> Render(intent[n], dialect)]
  BY <1>1
<1>4. \A n \in 1..Len(intent) : Render(intent[n], dialect) \in Seq(Tokens)
  BY <1>1, <1>2
<1>5. q \in Seq(Seq(Tokens)) /\ Len(q) = Len(intent)
  BY <1>1, <1>3, <1>4
<1>6. \A n \in 1..Len(intent) : q[n] = Render(intent[n], dialect)
  BY <1>3
<1>7. Answer = FlattenSeq(q)
  BY DEF Answer
<1> HIDE DEF q
<1>8. Answer \in Seq(Tokens)
  BY <1>5, <1>7, FlattenParts
<1>9. Len(Answer) \in Nat
  BY <1>8, LenProperties
<1> QED
  BY <1>1, <1>5, <1>6, <1>7, <1>8, <1>9 DEF q

-----------------------------------------------------------------------------
(* One token of an answer whose blocks are known. *)

\* Between the parameters of a call of t, whose body starts at n; blocks B come
\* before it and P holds its parameters so far.
Calling(st, B, t, n, P) ==
    /\ DOMAIN st = DOMAIN Start
    /\ st.blocks = B /\ st.tool = t /\ st.body = n /\ st.param = None /\ st.params = P

\* In the value of parameter p, which starts at a.
Valuing(st, B, t, n, P, p, a) ==
    /\ DOMAIN st = DOMAIN Start
    /\ st.blocks = B /\ st.tool = t /\ st.body = n /\ st.param = p /\ st.value = a /\ st.params = P

\* Outside calls; a is where the open text starts, or 0.
Reading(st, B, a) ==
    /\ DOMAIN st = DOMAIN Start
    /\ st.blocks = B /\ st.tool = None /\ st.param = None /\ st.text = a

\* A closing tag is a parameter's or the tool's own one comes later.
Keeps(m, t, i) ==
    m[i] # Close(t) /\ (m[i][1] = "close" /\ m[i][2] \notin Params => Later(m, i, Close(t)))

LEMMA NoNames ==
  /\ \A t \in Tools : t # None /\ t \notin Params
  /\ \A p \in Params : p # None /\ p \notin Tools
  /\ None \notin Tools \cup Params /\ "parameter" \notin Tools \cup Params /\ "function" \notin Tools \cup Params
BY NamesAssumption

LEMMA CallKeeps ==
  ASSUME NEW m, NEW i, NEW st, st.tool \in Tools, st.param = None,
         m[i] \notin {Open(p) : p \in Params}, Keeps(m, st.tool, i)
  PROVE  AtToken(m, st, i) = st
<1>1. ~ClosesTool(m, st.tool, i)
  BY DEF ClosesTool, Keeps
<1>2. InTool(m, st, i) = st
  BY <1>1 DEF InTool
<1>3. AfterParam(m, st, i) = st
  BY DEF AfterParam, ClosesParam
<1>4. st.tool # None
  BY NoNames
<1> QED
  BY <1>2, <1>3, <1>4 DEF AtToken

LEMMA ValueKeeps ==
  ASSUME NEW m, NEW i, NEW st, st.tool \in Tools, st.param \in Params, ~ClosesParam(m, st, i)
  PROVE  AtToken(m, st, i) = st
<1>1. AfterParam(m, st, i) = st
  BY DEF AfterParam
<1>2. st.tool # None /\ st.param # None
  BY NoNames
<1> QED
  BY <1>1, <1>2 DEF AtToken

LEMMA ValueEnds ==
  ASSUME NEW m, NEW i, NEW st, NEW B, NEW t \in Tools, NEW n, NEW P, NEW p \in Params, NEW a,
         Valuing(st, B, t, n, P, p, a), ClosesParam(m, st, i),
         m[i] \notin {Open(q) : q \in Params}, Keeps(m, t, i)
  PROVE  Calling(AtToken(m, st, i), B, t, n, Put(P, p, Trim(SubSeq(m, a, i - 1))))
<1> DEFINE v == Put(P, p, Trim(SubSeq(m, a, i - 1)))
           r == [st EXCEPT !.param = None, !.params = v]
<1>1. AfterParam(m, st, i) = [st EXCEPT !.param = None, !.params = Put(@, st.param, Trim(SubSeq(m, st.value, i - 1)))]
  BY DEF AfterParam
<1>2. st.param = p /\ st.value = a /\ st.params = P /\ st.tool = t /\ DOMAIN st = DOMAIN Start
  BY DEF Valuing
<1>3. AfterParam(m, st, i) = r
  BY <1>1, <1>2
<1> HIDE DEF v
<1>4. Calling(r, B, t, n, v)
  BY StartFields DEF Calling, Valuing
<1> HIDE DEF r
<1>5. r.tool = t /\ r.param = None
  BY <1>4 DEF Calling
<1>6. AtToken(m, st, i) = InTool(m, r, i)
  BY <1>3, <1>5, NoNames DEF AtToken
<1>7. InTool(m, r, i) = r
  <2>1. ~ClosesTool(m, t, i)
    BY DEF ClosesTool, Keeps
  <2> QED
    BY <2>1, <1>5 DEF InTool
<1> QED
  BY <1>4, <1>6, <1>7 DEF v

LEMMA ValueStarts ==
  ASSUME NEW m, NEW i, NEW st, NEW B, NEW t \in Tools, NEW n, NEW P, NEW p \in Params,
         Calling(st, B, t, n, P), m[i] = Open(p)
  PROVE  Valuing(AtToken(m, st, i), B, t, n, P, p, i + 1)
<1> DEFINE c == [Start EXCEPT !.blocks =
                   Append(st.blocks, ToolBlock(st.tool, FinalParams(st, SubSeq(m, st.body, i - 1)), FALSE))]
           r == [st EXCEPT !.param = m[i][2], !.value = i + 1]
<1>1. st.tool = t /\ st.param = None /\ DOMAIN st = DOMAIN Start
  BY DEF Calling
<1>2. AfterParam(m, st, i) = st
  BY <1>1 DEF AfterParam, ClosesParam
<1>3. AtToken(m, st, i) = InTool(m, st, i)
  BY <1>1, <1>2, NoNames DEF AtToken
<1>4. InTool(m, st, i) = CASE m[i] \in {Open(k) : k \in Params} -> r
                           [] ClosesTool(m, st.tool, i) -> c
                           [] OTHER -> st
  BY DEF InTool
<1>5. m[i] \in {Open(k) : k \in Params} /\ m[i][2] = p
  BY DEF Open
<1>6. ~ClosesTool(m, st.tool, i)
  BY DEF ClosesTool, Open, Close
<1>7. Valuing(r, B, t, n, P, p, i + 1)
  BY <1>5, StartFields DEF Calling, Valuing
<1> HIDE DEF c, r
<1>8. InTool(m, st, i) = r
  BY <1>4, <1>5, <1>6
<1> QED
  BY <1>3, <1>7, <1>8

LEMMA CallEnds ==
  ASSUME NEW m, NEW i, NEW st, NEW B, NEW t \in Tools, NEW n, NEW P,
         Calling(st, B, t, n, P), m[i] \notin {Open(p) : p \in Params}, ClosesTool(m, t, i)
  PROVE  Reading(AtToken(m, st, i),
                 Append(B, ToolBlock(t, FinalParams(st, SubSeq(m, n, i - 1)), FALSE)), 0)
<1> DEFINE C == Append(B, ToolBlock(t, FinalParams(st, SubSeq(m, n, i - 1)), FALSE))
<1>1. st.tool = t /\ st.param = None /\ st.body = n /\ st.blocks = B
  BY DEF Calling
<1>2. AfterParam(m, st, i) = st
  BY <1>1 DEF AfterParam, ClosesParam
<1>3. AtToken(m, st, i) = InTool(m, st, i)
  BY <1>1, <1>2, NoNames DEF AtToken
<1>4. InTool(m, st, i) = [Start EXCEPT !.blocks = C]
  BY <1>1 DEF InTool
<1> HIDE DEF C
<1>5. Reading([Start EXCEPT !.blocks = C], C, 0)
  BY StartFields DEF Reading, Start
<1> QED
  BY <1>3, <1>4, <1>5 DEF C

LEMMA TextKeeps ==
  ASSUME NEW m, NEW i, NEW st, NEW B, NEW a, Reading(st, B, a), m[i] \notin {Open(t) : t \in Tools}
  PROVE  Reading(AtToken(m, st, i), B, IF a = 0 THEN i ELSE a)
<1> DEFINE r == [st EXCEPT !.text = IF @ = 0 THEN i ELSE @]
<1>1. st.tool = None /\ st.param = None /\ st.text = a
  BY DEF Reading
<1>2. AfterParam(m, st, i) = st
  BY <1>1 DEF AfterParam, ClosesParam
<1>3. AtToken(m, st, i) = InText(m, st, i)
  BY <1>1, <1>2 DEF AtToken
<1>4. InText(m, st, i) = r
  BY DEF InText
<1>5. Reading(r, B, IF a = 0 THEN i ELSE a)
  BY StartFields DEF Reading
<1> QED
  BY <1>3, <1>4, <1>5

LEMMA CallStarts ==
  ASSUME NEW m, NEW i, NEW st, NEW B, NEW a, Reading(st, B, a), NEW t \in Tools, m[i] = Open(t)
  PROVE  Calling(AtToken(m, st, i),
                 WithText(st, IF a = 0 THEN <<>> ELSE Trim(SubSeq(m, a, i - 1)), FALSE), t, i + 1, <<>>)
<1> DEFINE w == WithText(st, IF a = 0 THEN <<>> ELSE Trim(SubSeq(m, a, i - 1)), FALSE)
           r == [Start EXCEPT !.blocks = w, !.tool = t, !.body = i + 1]
<1>1. st.tool = None /\ st.param = None /\ st.text = a
  BY DEF Reading
<1>2. AfterParam(m, st, i) = st
  BY <1>1 DEF AfterParam, ClosesParam
<1>3. AtToken(m, st, i) = InText(m, st, i)
  BY <1>1, <1>2 DEF AtToken
<1>4. m[i] \in {Open(k) : k \in Tools} /\ m[i][2] = t
  BY DEF Open
<1>5. InText(m, st, i) = r
  BY <1>1, <1>4 DEF InText
<1> HIDE DEF w
<1>6. Calling(r, w, t, i + 1, <<>>)
  BY StartFields DEF Calling, Start
<1> QED
  BY <1>3, <1>5, <1>6 DEF w

-----------------------------------------------------------------------------
(* A parameter is read. *)

\* In dialect d of answer m: free text is closed by "</parameter>" only when no
\* own closing tag is there, and then tools are closed by their own.
Decided(m, d) ==
    /\ d.param # "own" => d.tool = "own" /\ \A p \in FreeText : \A j \in 1..Len(m) : m[j] # Close(p)
    /\ d.tool # "own" => \A t \in Tools : \A j \in 1..Len(m) : m[j] # Close(t)

\* st is past parameter p; its value is the one meant if it can be told at once.
ReadTo(st, B, t, n, P, p) ==
    \E w : /\ Calling(st, B, t, n, Put(P, p[1], w))
           /\ Close(p[1]) \notin ToSet(p[2]) => w = p[2]

LEMMA ParamRead ==
  ASSUME NEW m, Len(m) \in Nat, NEW o \in Nat, NEW b \in Calls, NEW d \in Dialects, Decided(m, d),
         NEW p \in Params \X Seq(Tokens), ClearValue(p, b, d), At(m, o, RenderParam(p, d)),
         d.tool = "own" => Later(m, o + Len(RenderParam(p, d)), Close(b.name)),
         NEW B, NEW n, NEW P, Calling(Scan(m)[o], B, b.name, n, P)
  PROVE  ReadTo(Scan(m)[o + Len(RenderParam(p, d))], B, b.name, n, P, p)
<1> DEFINE q == p[1]
           v == p[2]
           V == Len(p[2])
           t == b.name
           S == Scan(m)
           x == RenderParam(p, d)
           c == Close(q) \in ToSet(v)
<1>1. /\ x \in Seq(Tokens) /\ Len(x) = V + 3 /\ V \in Nat
      /\ x[1] = Open(q) /\ At(x, 1, v) /\ x[V + 2] = CloseOf(q, d.param) /\ x[V + 3] = Space
  BY RenderParamIs
<1>2. q \in Params /\ t \in Tools /\ v \in Seq(Tokens) /\ \A k \in 1..V : v[k] \in ToSet(v)
  <2>1. q \in Params /\ v \in Seq(Tokens)
    OBVIOUS
  <2> QED
    BY <2>1, CallIs, LenProperties DEF ToSet
<1>3. o + (V + 3) <= Len(m) /\ \A k \in 1..V + 3 : m[o + k] = x[k]
  BY <1>1 DEF At
<1>4. At(m, o + 1, v)
  BY <1>1, AtPart
<1>5. ClearValue(p, b, d) /\ Calling(S[o], B, t, n, P)
  OBVIOUS
<1>6. d.tool = "own" => \E e \in o + (V + 3) + 1..Len(m) : m[e] = Close(t)
  BY <1>1 DEF Later
<1>7. \A i \in 1..Len(m) : S[i] = AtToken(m, S[i - 1], i)
  BY ScanIs
<1>8. d.param \in {"own", "parameter"} /\ d.tool \in {"own", "function"}
  BY DEF Dialects
<1>9. d.param # "own" => d.tool = "own" /\ \A j \in 1..Len(m) : q \in FreeText => m[j] # Close(q)
  BY DEF Decided
<1> SUFFICES \E w : Calling(S[o + (V + 3)], B, t, n, Put(P, q, w)) /\ (~c => w = v)
  BY <1>1 DEF ReadTo
<1> HIDE DEF x, S, q, v, V, t
<1>10. ASSUME NEW i \in 1..Len(m), i <= o + (V + 3), m[i] # Close(t),
             d.tool = "own" \/ (m[i][1] = "close" => m[i][2] \in Params)
       PROVE  Keeps(m, t, i)
  <2>1. CASE d.tool = "own"
    <3>1. PICK e \in o + (V + 3) + 1..Len(m) : m[e] = Close(t)
      BY <1>6, <2>1
    <3>2. e \in i + 1..Len(m)
      BY <3>1, <1>10, <1>1
    <3> QED
      BY <3>1, <3>2, <1>10 DEF Keeps, Later
  <2> QED
    BY <2>1, <1>10 DEF Keeps
<1>11. Valuing(S[o + 1], B, t, n, P, q, o + 2)
  <2>1. o + 1 \in 1..Len(m) /\ (o + 1) - 1 = o /\ (o + 1) + 1 = o + 2 /\ 1 \in 1..V + 3
    BY <1>1, <1>3
  <2>2. m[o + 1] = Open(q) /\ S[o + 1] = AtToken(m, S[o], o + 1)
    BY <2>1, <1>1, <1>3, <1>7
  <2>3. Valuing(AtToken(m, S[o], o + 1), B, t, n, P, q, (o + 1) + 1)
    BY <2>2, <1>2, <1>5, ValueStarts
  <2> QED
    BY <2>1, <2>2, <2>3
<1> DEFINE Past(st) == c /\ \E w : Calling(st, B, t, n, Put(P, q, w))
           T == {k \in 0..V : Valuing(S[o + 1 + k], B, t, n, P, q, o + 2) \/ Past(S[o + 1 + k])}
<1>12. 0 \in T
  <2>1. o + 1 + 0 = o + 1
    OBVIOUS
  <2> QED
    BY <2>1, <1>1, <1>11
<1>13. ASSUME NEW k \in 0..V, k # V, k \in T PROVE k + 1 \in T
  <2> DEFINE i == o + 1 + (k + 1)
  <2>1. /\ i \in 1..Len(m) /\ i - 1 = o + 1 + k /\ i <= o + (V + 3) /\ k + 1 \in 1..V /\ k + 1 \in 0..V
        /\ i < o + V + 2 /\ o + V + 2 \in i + 1..Len(m)
    <3>1. k \in Nat /\ k < V
      BY <1>1, <1>13
    <3> QED
      BY <3>1, <1>1, <1>3
  <2>2. m[i] = v[k + 1]
    <3>1. m[(o + 1) + (k + 1)] = v[k + 1]
      BY <2>1, <1>4 DEF At, V, v
    <3> QED
      BY <3>1
  <2>3. m[i] \in ToSet(v)
    BY <2>1, <2>2, <1>2
  <2>4. S[i] = AtToken(m, S[i - 1], i)
    BY <2>1, <1>7
  <2>5. Valuing(S[i - 1], B, t, n, P, q, o + 2) \/ Past(S[i - 1])
    BY <2>1, <1>13
  <2>6. c => /\ d.param = "own" /\ d.tool = "own"
             /\ \A y \in ToSet(v) : y \notin {Open(a) : a \in Params} /\ y # Close(t)
    BY <1>5 DEF ClearValue, q, v, t
  <2>7. \A a \in Params : Open(a) # Close(q)
    BY DEF Open, Close
  <2>8. Close(q) # Close(t) /\ Close(q)[1] = "close" /\ Close(q)[2] = q
    BY <1>2, NoNames DEF Close
  <2> SUFFICES Valuing(S[i], B, t, n, P, q, o + 2) \/ Past(S[i])
    BY <2>1
  <2> HIDE DEF i
  <2>9. CASE Past(S[i - 1])
    <3>1. PICK w : Calling(S[i - 1], B, t, n, Put(P, q, w))
      BY <2>9
    <3>2. S[i - 1].tool = t /\ S[i - 1].param = None
      BY <3>1 DEF Calling
    <3>3. m[i] \notin {Open(a) : a \in Params} /\ m[i] # Close(t) /\ d.tool = "own"
      BY <2>3, <2>6, <2>9
    <3>4. Keeps(m, t, i)
      BY <3>3, <2>1, <1>10
    <3>5. S[i] = S[i - 1]
      BY <3>2, <3>3, <3>4, <2>4, <1>2, CallKeeps
    <3> QED
      BY <3>5, <2>9
  <2>10. CASE Valuing(S[i - 1], B, t, n, P, q, o + 2)
    <3>1. S[i - 1].tool = t /\ S[i - 1].param = q
      BY <2>10 DEF Valuing
    <3>2. CASE m[i] = Close(q)
      <4>1. c
        BY <3>2, <2>3
      <4>2. ClosesParam(m, S[i - 1], i)
        BY <3>1, <3>2, <1>2, NoNames DEF ClosesParam
      <4>3. m[i] \notin {Open(a) : a \in Params} /\ Keeps(m, t, i)
        <5>1. m[i] # Close(t) /\ (m[i][1] = "close" => m[i][2] \in Params)
          BY <3>2, <2>8, <1>2
        <5> QED
          BY <5>1, <2>1, <2>7, <3>2, <1>10
      <4>4. Calling(S[i], B, t, n, Put(P, q, Trim(SubSeq(m, o + 2, i - 1))))
        BY <2>4, <2>10, <4>2, <4>3, <1>2, ValueEnds
      <4> QED
        BY <4>1, <4>4
    <3>3. CASE m[i] # Close(q)
      <4>1. ~ClosesParam(m, S[i - 1], i)
        <5> SUFFICES ASSUME m[i] = Close("parameter") PROVE q \in FreeText /\ Later(m, i, Close(q))
          BY <3>1, <3>3 DEF ClosesParam
        <5>1. d.param = "own" /\ q \in FreeText
          BY <2>3, <1>5 DEF ClearValue, q, v
        <5>2. V + 2 \in 1..V + 3 /\ o + (V + 2) = o + V + 2
          BY <1>1
        <5>3. m[o + V + 2] = Close(q)
          BY <5>1, <5>2, <1>1, <1>3 DEF CloseOf
        <5> QED
          BY <5>1, <5>3, <2>1 DEF Later
      <4>2. S[i] = S[i - 1]
        BY <3>1, <4>1, <2>4, <1>2, ValueKeeps
      <4> QED
        BY <4>2, <2>10
    <3> QED
      BY <3>2, <3>3
  <2> QED
    BY <2>5, <2>9, <2>10
<1>14. V \in T
  <2> HIDE DEF T
  <2>1. 0..V \subseteq T
    BY <1>1, <1>12, <1>13, Upward
  <2> QED
    BY <2>1, <1>1
<1> DEFINE i == o + V + 2
<1>15. /\ i \in 1..Len(m) /\ i - 1 = o + 1 + V /\ i <= o + (V + 3) /\ i + 1 = o + (V + 3)
       /\ i + 1 \in 1..Len(m) /\ (i + 1) - 1 = i /\ i = o + (V + 2) /\ V + 2 \in 1..V + 3 /\ V + 3 \in 1..V + 3
  BY <1>1, <1>3
<1>16. m[i] = CloseOf(q, d.param) /\ m[i + 1] = Space
  BY <1>1, <1>3, <1>15
<1>17. S[i] = AtToken(m, S[i - 1], i) /\ S[i + 1] = AtToken(m, S[i], i + 1)
  BY <1>7, <1>15
<1>18. Valuing(S[i - 1], B, t, n, P, q, o + 2) \/ Past(S[i - 1])
  BY <1>14, <1>15
<1>19. SubSeq(m, o + 2, i - 1) = v
  <2>1. SubSeq(m, (o + 1) + 1, (o + 1) + Len(v)) = v
    BY <1>2, <1>4, AtSubSeq
  <2>2. (o + 1) + 1 = o + 2 /\ (o + 1) + Len(v) = i - 1
    BY <1>1, <1>15 DEF V, v
  <2> QED
    BY <2>1, <2>2
<1>20. IF d.param = "own" THEN m[i] = Close(q) ELSE m[i] = Close("parameter")
  BY <1>8, <1>16 DEF CloseOf
<1> HIDE DEF i, c
<1>21. m[i] \notin {Open(a) : a \in Params} /\ Keeps(m, t, i)
  <2>1. m[i] \notin {Open(a) : a \in Params} /\ m[i] # Close(t)
    BY <1>2, <1>20, NoNames DEF Open, Close
  <2>2. d.tool = "own" \/ (m[i][1] = "close" => m[i][2] \in Params)
    BY <1>2, <1>9, <1>20 DEF Close
  <2> QED
    BY <2>1, <2>2, <1>10, <1>15
<1>22. \E w : Calling(S[i], B, t, n, Put(P, q, w)) /\ (~c => w = v)
  <2>1. CASE Past(S[i - 1])
    <3>1. PICK w : Calling(S[i - 1], B, t, n, Put(P, q, w))
      BY <2>1
    <3>2. S[i - 1].tool = t /\ S[i - 1].param = None
      BY <3>1 DEF Calling
    <3>3. S[i] = S[i - 1]
      BY <3>2, <1>2, <1>17, <1>21, CallKeeps
    <3> QED
      BY <2>1, <3>1, <3>3
  <2>2. CASE Valuing(S[i - 1], B, t, n, P, q, o + 2)
    <3>1. S[i - 1].param = q
      BY <2>2 DEF Valuing
    <3>2. ClosesParam(m, S[i - 1], i)
      <4>1. d.param # "own" => (q \in FreeText => ~Later(m, i, Close(q)))
        <5> SUFFICES ASSUME d.param # "own", q \in FreeText, NEW j \in i + 1..Len(m) PROVE m[j] # Close(q)
          BY DEF Later
        <5>1. j \in 1..Len(m)
          BY <1>15
        <5> QED
          BY <5>1, <1>9
      <4>2. q # None
        BY <1>2, NoNames
      <4> QED
        BY <3>1, <4>1, <4>2, <1>20 DEF ClosesParam
    <3>3. Calling(S[i], B, t, n, Put(P, q, Trim(SubSeq(m, o + 2, i - 1))))
      BY <2>2, <3>2, <1>2, <1>17, <1>21, ValueEnds
    <3>4. Trim(v) = v
      BY <1>5 DEF ClearValue, v
    <3>5. Trim(SubSeq(m, o + 2, i - 1)) = v
      BY <3>4, <1>19
    <3> QED
      BY <3>3, <3>5
  <2> QED
    BY <1>18, <2>1, <2>2
<1>23. S[i + 1] = S[i]
  <2>1. PICK w : Calling(S[i], B, t, n, Put(P, q, w))
    BY <1>22
  <2>2. S[i].tool = t /\ S[i].param = None
    BY <2>1 DEF Calling
  <2>3. m[i + 1] \notin {Open(a) : a \in Params} /\ m[i + 1] # Close(t) /\ m[i + 1][1] # "close"
    BY <1>16 DEF Space, Open, Close
  <2>4. Keeps(m, t, i + 1)
    BY <2>3 DEF Keeps
  <2> QED
    BY <2>2, <2>3, <2>4, <1>2, <1>17, CallKeeps
<1> QED
  BY <1>15, <1>22, <1>23

-----------------------------------------------------------------------------
(* What tags are found where. *)

\* Token k of parameter p as it is written out.
LEMMA ParamToken ==
  ASSUME NEW p \in Params \X Seq(Tokens), NEW d \in Dialects, NEW k \in 1..Len(RenderParam(p, d))
  PROVE  \/ k = 1 /\ RenderParam(p, d)[k] = Open(p[1])
         \/ k \in 2..Len(p[2]) + 1 /\ RenderParam(p, d)[k] \in ToSet(p[2])
         \/ k = Len(p[2]) + 2 /\ RenderParam(p, d)[k] = CloseOf(p[1], d.param)
         \/ k = Len(p[2]) + 3 /\ RenderParam(p, d)[k] = Space
<1> DEFINE x == RenderParam(p, d)
<1>1. /\ Len(x) = Len(p[2]) + 3 /\ Len(p[2]) \in Nat
      /\ x[1] = Open(p[1]) /\ At(x, 1, p[2])
      /\ x[Len(p[2]) + 2] = CloseOf(p[1], d.param) /\ x[Len(p[2]) + 3] = Space
  BY RenderParamIs
<1> HIDE DEF x
<1>2. CASE k \in 2..Len(p[2]) + 1
  <2>1. k - 1 \in 1..Len(p[2]) /\ 1 + (k - 1) = k
    BY <1>1, <1>2
  <2>2. x[k] = p[2][k - 1]
    BY <1>1, <2>1 DEF At
  <2>3. p[2][k - 1] \in ToSet(p[2])
    <3>1. DOMAIN p[2] = 1..Len(p[2])
      BY LenProperties
    <3> QED
      BY <3>1, <2>1 DEF ToSet
  <2> QED
    BY <1>2, <2>2, <2>3 DEF x
<1>3. CASE k = 1 \/ k = Len(p[2]) + 2 \/ k = Len(p[2]) + 3
  BY <1>1, <1>3 DEF x
<1>4. k \in 1..Len(p[2]) + 3
  BY <1>1 DEF x
<1> QED
  BY <1>1, <1>2, <1>3, <1>4

LEMMA BodyParts ==
  ASSUME NEW b \in Calls, NEW d \in Dialects
  PROVE  \E g : Parts(Body(b, d), 0, Rendered(b, d), g) /\ g[Len(b.params)] = Len(Body(b, d))
<1> DEFINE q == Rendered(b, d)
<1>1. q \in Seq(Seq(Tokens)) /\ Len(q) = Len(b.params) /\ Body(b, d) = FlattenSeq(q)
  BY BodyIs DEF Body
<1> HIDE DEF q
<1>2. \E g : Parts(FlattenSeq(q), 0, q, g) /\ g[Len(q)] = Len(FlattenSeq(q))
  BY <1>1, FlattenParts
<1> QED
  BY <1>1, <1>2 DEF q

\* Every token of a call's body is one of a parameter.
LEMMA BodyToken ==
  ASSUME NEW b \in Calls, NEW d \in Dialects, NEW g, Parts(Body(b, d), 0, Rendered(b, d), g),
         g[Len(b.params)] = Len(Body(b, d)), NEW j \in 1..Len(Body(b, d))
  PROVE  \E n \in 1..Len(b.params), k \in Nat :
           /\ k \in 1..Len(RenderParam(b.params[n], d)) /\ j = g[n - 1] + k
           /\ Body(b, d)[j] = RenderParam(b.params[n], d)[k]
<1> DEFINE q == Rendered(b, d)
           y == Body(b, d)
<1>1. q \in Seq(Seq(Tokens)) /\ Len(q) = Len(b.params)
      /\ \A n \in 1..Len(b.params) : q[n] = RenderParam(b.params[n], d)
  BY BodyIs
<1>2. Parts(y, 0, q, g) /\ j \in 1..g[Len(q)]
  BY <1>1
<1> HIDE DEF q, y
<1>3. PICK n, k : TokenOf(y, q, g, j, n, k)
  BY <1>1, <1>2, PartsCover
<1>4. n \in 1..Len(b.params) /\ k \in 1..Len(q[n]) /\ j = g[n - 1] + k /\ y[j] = q[n][k]
  BY <1>1, <1>3 DEF TokenOf
<1>5. k \in Nat
  BY <1>4
<1> QED
  BY <1>1, <1>4, <1>5 DEF y

LEMMA BodyMisses ==
  ASSUME NEW b \in Calls, NEW d \in Dialects, NEW tag, tag # Space,
         \A n \in 1..Len(b.params) : /\ tag # Open(b.params[n][1]) /\ tag # CloseOf(b.params[n][1], d.param)
                                     /\ tag \notin ToSet(b.params[n][2])
  PROVE  \A j \in 1..Len(Body(b, d)) : Body(b, d)[j] # tag
<1> SUFFICES ASSUME NEW j \in 1..Len(Body(b, d)) PROVE Body(b, d)[j] # tag
  OBVIOUS
<1>1. PICK g : Parts(Body(b, d), 0, Rendered(b, d), g) /\ g[Len(b.params)] = Len(Body(b, d))
  BY BodyParts
<1>3. PICK n \in 1..Len(b.params), k \in Nat :
        /\ k \in 1..Len(RenderParam(b.params[n], d)) /\ j = g[n - 1] + k
        /\ Body(b, d)[j] = RenderParam(b.params[n], d)[k]
  BY <1>1, BodyToken
<1>4. b.params[n] \in Params \X Seq(Tokens)
  BY CallIs
<1> DEFINE p == b.params[n]
           x == RenderParam(p, d)[k]
<1>5. /\ tag # Open(p[1]) /\ tag # CloseOf(p[1], d.param) /\ tag \notin ToSet(p[2])
      /\ p \in Params \X Seq(Tokens) /\ k \in 1..Len(RenderParam(p, d)) /\ Body(b, d)[j] = x
  BY <1>3, <1>4
<1> HIDE DEF p
<1>6. x = Open(p[1]) \/ x \in ToSet(p[2]) \/ x = CloseOf(p[1], d.param) \/ x = Space
  BY <1>5, ParamToken
<1> HIDE DEF x
<1> QED
  BY <1>5, <1>6

\* A closing tag that is not written in the texts and values of an answer, and
\* is not of its dialect, is nowhere in it.
LEMMA RenderMisses ==
  ASSUME NEW b \in Texts \cup Calls, NEW d \in Dialects, NEW n \in Tools \cup Params,
         Close(n) \notin Written(b), n \in Params => d.param # "own", n \in Tools => d.tool # "own"
  PROVE  \A k \in 1..Len(Render(b, d)) : Render(b, d)[k] # Close(n)
<1> SUFFICES ASSUME NEW k \in 1..Len(Render(b, d)) PROVE Render(b, d)[k] # Close(n)
  OBVIOUS
<1>1. CASE b \in Texts
  <2>1. b.kind = "text" /\ b.text \in Seq(Tokens)
    BY <1>1 DEF Texts
  <2>2. Render(b, d) = b.text /\ Written(b) = ToSet(b.text)
    BY <2>1 DEF Render, Written
  <2>3. DOMAIN b.text = 1..Len(b.text)
    BY <2>1, LenProperties
  <2> QED
    BY <2>2, <2>3 DEF ToSet
<1>2. CASE b \in Calls
  <2> DEFINE y == Body(b, d)
             x == Render(b, d)
  <2>1. /\ Len(x) = Len(y) + 2 /\ x[1] = Open(b.name) /\ At(x, 1, y)
        /\ x[Len(y) + 2] = CloseOf(b.name, d.tool)
    BY <1>2, RenderCallIs
  <2>2. Len(y) \in Nat /\ b.name \in Tools
    BY <1>2, BodyIs, CallIs
  <2>3. \A a \in {"own", "function", "parameter"} : a # "own" => a \notin Tools \cup Params
    BY NoNames
  <2>4. d.tool \in {"own", "function"} /\ d.param \in {"own", "parameter"}
    BY DEF Dialects
  <2>5. Open(b.name) # Close(n) /\ CloseOf(b.name, d.tool) # Close(n)
    <3>1. CASE d.tool = "own"
      <4>1. n # b.name
        BY <3>1, <2>2, NoNames
      <4> QED
        BY <3>1, <4>1 DEF Open, Close, CloseOf
    <3>2. CASE d.tool # "own"
      <4>1. n # d.tool
        BY <3>2, <2>3, <2>4
      <4> QED
        BY <3>2, <4>1 DEF Open, Close, CloseOf
    <3> QED
      BY <3>1, <3>2
  <2>6. \A j \in 1..Len(y) : y[j] # Close(n)
    <3>1. Close(n) # Space
      BY DEF Close, Space
    <3>2. ASSUME NEW j \in 1..Len(b.params)
          PROVE  /\ Close(n) # Open(b.params[j][1]) /\ Close(n) # CloseOf(b.params[j][1], d.param)
                 /\ Close(n) \notin ToSet(b.params[j][2])
      <4>1. b.params[j][1] \in Params /\ b.params[j] \in ToSet(b.params)
        BY <1>2, CallIs
      <4>2. Close(n) \notin ToSet(b.params[j][2])
        BY <4>1, <1>2, CallIs DEF Written
      <4>3. Close(n) # CloseOf(b.params[j][1], d.param)
        <5>1. CASE d.param = "own"
          <6>1. n # b.params[j][1]
            BY <5>1, <4>1, NoNames
          <6> QED
            BY <5>1, <6>1 DEF Close, CloseOf
        <5>2. CASE d.param # "own"
          <6>1. n # d.param
            BY <5>2, <2>3, <2>4
          <6> QED
            BY <5>2, <6>1 DEF Close, CloseOf
        <5> QED
          BY <5>1, <5>2
      <4> QED
        BY <4>2, <4>3 DEF Open, Close
    <3> QED
      BY <1>2, <3>1, <3>2, BodyMisses
  <2> HIDE DEF x, y
  <2>7. CASE k \in 2..Len(y) + 1
    <3>1. k - 1 \in 1..Len(y) /\ 1 + (k - 1) = k
      BY <2>2, <2>7
    <3>2. x[k] = y[k - 1]
      BY <2>1, <3>1 DEF At
    <3> QED
      BY <2>6, <3>1, <3>2 DEF x
  <2>8. k = 1 \/ k \in 2..Len(y) + 1 \/ k = Len(y) + 2
    BY <2>1, <2>2 DEF x
  <2> QED
    BY <2>1, <2>5, <2>7, <2>8 DEF x
<1> QED
  BY <1>1, <1>2

LEMMA AnswerMisses ==
  ASSUME intent \in Seq(Texts \cup Calls), dialect \in Dialects, NEW n \in Tools \cup Params,
         \A b \in ToSet(intent) : Close(n) \notin Written(b),
         n \in Params => dialect.param # "own", n \in Tools => dialect.tool # "own"
  PROVE  \A j \in 1..Len(Answer) : Answer[j] # Close(n)
<1> DEFINE q == [i \in DOMAIN intent |-> Render(intent[i], dialect)]
<1>1. /\ q \in Seq(Seq(Tokens)) /\ Len(q) = Len(intent) /\ Answer = FlattenSeq(q) /\ Len(Answer) \in Nat
      /\ \A i \in 1..Len(intent) : intent[i] \in Texts \cup Calls /\ q[i] = Render(intent[i], dialect)
  BY AnswerIs
<1> HIDE DEF q
<1>2. PICK g : Parts(Answer, 0, q, g) /\ g[Len(q)] = Len(Answer)
  BY <1>1, FlattenParts
<1>3. ASSUME NEW j \in 1..Len(Answer) PROVE Answer[j] # Close(n)
  <2>1. j \in 1..g[Len(q)]
    BY <1>2
  <2>2. PICK i, k : TokenOf(Answer, q, g, j, i, k)
    BY <2>1, <1>1, <1>2, PartsCover
  <2>3. i \in 1..Len(intent) /\ q[i] = Render(intent[i], dialect) /\ Answer[j] = q[i][k] /\ k \in 1..Len(q[i])
    BY <2>2, <1>1 DEF TokenOf
  <2>4. intent[i] \in Texts \cup Calls /\ intent[i] \in ToSet(intent)
    BY <2>3, <1>1, LenProperties DEF ToSet
  <2>5. \A e \in 1..Len(Render(intent[i], dialect)) : Render(intent[i], dialect)[e] # Close(n)
    BY <2>4, RenderMisses
  <2> QED
    BY <2>3, <2>5
<1> QED
  BY <1>3

\* In a clear answer the dialect is decided.
LEMMA ClearDecided ==
  ASSUME intent \in Seq(Texts \cup Calls), dialect \in Dialects, ClearAnswer(intent, dialect)
  PROVE  Decided(Answer, dialect)
<1>1. ASSUME dialect.param # "own", NEW p \in FreeText PROVE \A j \in 1..Len(Answer) : Answer[j] # Close(p)
  <2>1. p \in Params /\ p \notin Tools
    BY NamesAssumption, NoNames
  <2>2. \A b \in ToSet(intent) : Close(p) \notin Written(b)
    BY <1>1 DEF ClearAnswer
  <2> QED
    BY <2>1, <2>2, <1>1, AnswerMisses
<1>2. ASSUME dialect.tool # "own", NEW t \in Tools PROVE \A j \in 1..Len(Answer) : Answer[j] # Close(t)
  <2>1. t \notin Params
    BY NoNames
  <2>2. \A b \in ToSet(intent) : Close(t) \notin Written(b)
    BY <1>2 DEF ClearAnswer
  <2> QED
    BY <2>1, <2>2, <1>2, AnswerMisses
<1>3. dialect.param # "own" => dialect.tool = "own"
  BY DEF ClearAnswer
<1> QED
  BY <1>1, <1>2, <1>3 DEF Decided

-----------------------------------------------------------------------------
(* The parameters of a call. *)

\* P holds the first k parameters of ps, but perhaps not the whole of a value
\* that holds its own closing tag.
Gathered(P, ps, k) ==
    /\ P = [x \in DOMAIN P |-> P[x]]
    /\ DOMAIN P = {ps[j][1] : j \in 1..k}
    /\ \A j \in 1..k : Close(ps[j][1]) \notin ToSet(ps[j][2]) => P[ps[j][1]] = ps[j][2]

\* The parameters that are meant.
Named(b) ==
    [p \in {q[1] : q \in ToSet(b.params)} |-> (CHOOSE q \in ToSet(b.params) : q[1] = p)[2]]

Distinct(ps) == \A m, n \in DOMAIN ps : ps[m][1] = ps[n][1] => m = n

LEMMA GatheredNone == \A ps : Gathered(<<>>, ps, 0)
<1>1. <<>> = [x \in DOMAIN <<>> |-> <<>>[x]] /\ DOMAIN <<>> = {}
  OBVIOUS
<1> QED
  BY <1>1 DEF Gathered

LEMMA GatheredMore ==
  ASSUME NEW b \in Calls, Distinct(b.params), NEW k \in Nat, k + 1 \in 1..Len(b.params),
         NEW P, Gathered(P, b.params, k), NEW w,
         Close(b.params[k + 1][1]) \notin ToSet(b.params[k + 1][2]) => w = b.params[k + 1][2]
  PROVE  Gathered(Put(P, b.params[k + 1][1], w), b.params, k + 1)
<1> DEFINE ps == b.params
           a == ps[k + 1][1]
           Q == Put(P, a, w)
<1>1. /\ Q = [x \in DOMAIN Q |-> Q[x]] /\ DOMAIN Q = {a} \cup DOMAIN P
      /\ Q[a] = w /\ \A x \in DOMAIN P : x # a => Q[x] = P[x]
  <2> HIDE DEF a, ps
  <2> QED
    BY DEF Q, Put
<1>2. Len(ps) \in Nat /\ DOMAIN ps = 1..Len(ps)
  BY CallIs
<1>3. /\ DOMAIN P = {ps[j][1] : j \in 1..k}
      /\ \A j \in 1..k : Close(ps[j][1]) \notin ToSet(ps[j][2]) => P[ps[j][1]] = ps[j][2]
  BY DEF Gathered
<1>4. \A j \in 1..k : ps[j][1] # a
  BY <1>2 DEF Distinct
<1>5. \A j \in 1..k + 1 : j \in 1..k \/ j = k + 1
  OBVIOUS
<1>6. Close(a) \notin ToSet(ps[k + 1][2]) => w = ps[k + 1][2]
  OBVIOUS
<1> HIDE DEF ps, Q, a
<1>7. DOMAIN Q = {ps[j][1] : j \in 1..k + 1}
  <2>1. a = ps[k + 1][1] /\ 1..k + 1 = 1..k \cup {k + 1}
    BY DEF a
  <2> QED
    BY <2>1, <1>1, <1>3
<1>8. ASSUME NEW j \in 1..k + 1, Close(ps[j][1]) \notin ToSet(ps[j][2]) PROVE Q[ps[j][1]] = ps[j][2]
  <2>1. CASE j \in 1..k
    BY <2>1, <1>1, <1>3, <1>4, <1>8
  <2>2. CASE j = k + 1
    BY <2>2, <1>1, <1>6, <1>8 DEF a
  <2> QED
    BY <1>5, <2>1, <2>2
<1>9. Gathered(Q, ps, k + 1)
  BY <1>1, <1>7, <1>8 DEF Gathered
<1> QED
  BY <1>9 DEF Q, a, ps

LEMMA NamedIs ==
  ASSUME NEW b \in Calls, Distinct(b.params), NEW Q,
         Q = [x \in DOMAIN Q |-> Q[x]], DOMAIN Q = {b.params[j][1] : j \in 1..Len(b.params)},
         \A j \in 1..Len(b.params) : Q[b.params[j][1]] = b.params[j][2]
  PROVE  Q = Named(b)
<1> DEFINE ps == b.params
           R == Named(b)
           D == {q[1] : q \in ToSet(ps)}
<1>0. \A j \in 1..Len(ps) : Q[ps[j][1]] = ps[j][2]
  OBVIOUS
<1>1. DOMAIN ps = 1..Len(ps) /\ ToSet(ps) = {ps[j] : j \in 1..Len(ps)}
  BY CallIs DEF ToSet
<1>2. D = {ps[j][1] : j \in 1..Len(ps)}
  BY <1>1
<1>3. R = [x \in D |-> R[x]] /\ \A x \in D : R[x] = (CHOOSE q \in ToSet(ps) : q[1] = x)[2]
  BY DEF Named
<1>4. ASSUME NEW j \in 1..Len(ps) PROVE R[ps[j][1]] = ps[j][2]
  <2> DEFINE c == CHOOSE q \in ToSet(ps) : q[1] = ps[j][1]
  <2>1. ps[j] \in ToSet(ps) /\ ps[j][1] \in D
    BY <1>1
  <2>2. c \in ToSet(ps) /\ c[1] = ps[j][1]
    BY <2>1
  <2>3. R[ps[j][1]] = c[2]
    BY <2>1, <1>3
  <2> HIDE DEF c
  <2>4. PICK i \in 1..Len(ps) : c = ps[i]
    BY <2>2, <1>1
  <2>5. i = j
    BY <2>2, <2>4, <1>1 DEF Distinct
  <2> QED
    BY <2>3, <2>4, <2>5
<1> HIDE DEF R
<1>5. DOMAIN Q = D
  BY <1>2
<1>6. ASSUME NEW x \in D PROVE Q[x] = R[x]
  <2>1. PICK j \in 1..Len(ps) : x = ps[j][1]
    BY <1>2
  <2>2. Q[ps[j][1]] = ps[j][2] /\ R[ps[j][1]] = ps[j][2]
    BY <1>0, <1>4
  <2> QED
    BY <2>1, <2>2
<1>7. Q = [x \in D |-> Q[x]]
  BY <1>5
<1> HIDE DEF D
<1>8. Q = R
  BY <1>3, <1>6, <1>7
<1> QED
  BY <1>8 DEF R

LEMMA MinIs ==
  ASSUME NEW A, A \subseteq Nat, NEW a \in A, \A n \in A : a <= n
  PROVE  Min(A) = a
<1>1. Min(A) \in A /\ \A n \in A : Min(A) <= n
  BY DEF Min
<1>2. Min(A) \in Nat /\ a \in Nat /\ Min(A) <= a /\ a <= Min(A)
  BY <1>1
<1> QED
  BY <1>2

LEMMA MaxIs ==
  ASSUME NEW A, A \subseteq Nat, NEW a \in A, \A n \in A : n <= a
  PROVE  Max(A) = a
<1>1. Max(A) \in A /\ \A n \in A : Max(A) >= n
  BY DEF Max
<1>2. Max(A) \in Nat /\ a \in Nat /\ Max(A) <= a /\ Max(A) >= a
  BY <1>1
<1> QED
  BY <1>2

\* FinalParams leaves the parameters alone when the body has no content between
\* its tags, and between "<parameter>" and its closing tag there is none, or it
\* is not needed.
LEMMA FinalKept ==
  ASSUME NEW st, NEW y,
         st.tool = "write_to_file" =>
           /\ \/ \A n \in DOMAIN y : y[n] # Open("content")
              \/ \A n \in DOMAIN y : y[n] # Close("content")
           /\ \/ "content" \in DOMAIN st.params /\ st.params["content"] # <<>>
              \/ \A n \in DOMAIN y : y[n] # Open("parameter")
  PROVE  FinalParams(st, y) = st.params
<1> DEFINE Found(tag) == {n \in DOMAIN y : y[n] = tag}
           Spans(n) == /\ Found(Open(n)) # {} /\ Found(Close(n)) # {}
                       /\ Max(Found(Close(n))) > Min(Found(Open(n)))
           v(n) == Put(st.params, "content", Trim(SubSeq(y, Min(Found(Open(n))) + 1, Max(Found(Close(n))) - 1)))
           w(n) == Put(st.params, "content", Trim(<<Bracket>> \o SubSeq(y, Min(Found(Open(n))) + 1, Max(Found(Close(n))) - 1)))
           C == st.tool = "write_to_file" /\ Spans("content")
           D == /\ st.tool = "write_to_file" /\ ~Spans("content")
                /\ "content" \notin DOMAIN st.params \/ st.params["content"] = <<>>
                /\ Spans("parameter")
<1>1. FinalParams(st, y) = CASE C -> v("content") [] D -> w("parameter") [] OTHER -> st.params
  BY Zenon DEF FinalParams
<1>2. ~C
  OBVIOUS
<1>3. ~D
  OBVIOUS
<1> HIDE DEF C, D, v, w
<1> QED
  BY <1>1, <1>2, <1>3

\* A write's content is what stands between the first "<content>" and the last
\* "</content>".
LEMMA FinalContent ==
  ASSUME NEW st, st.tool = "write_to_file", NEW y \in Seq(Tokens), NEW a \in 1..Len(y), NEW e \in 1..Len(y), a < e,
         y[a] = Open("content"), y[e] = Close("content"),
         \A n \in 1..Len(y) : (y[n] = Open("content") => a <= n) /\ (y[n] = Close("content") => n <= e)
  PROVE  FinalParams(st, y) = Put(st.params, "content", Trim(SubSeq(y, a + 1, e - 1)))
<1> DEFINE Found(tag) == {n \in DOMAIN y : y[n] = tag}
           Spans(n) == /\ Found(Open(n)) # {} /\ Found(Close(n)) # {}
                       /\ Max(Found(Close(n))) > Min(Found(Open(n)))
           v(n) == Put(st.params, "content", Trim(SubSeq(y, Min(Found(Open(n))) + 1, Max(Found(Close(n))) - 1)))
           w(n) == Put(st.params, "content", Trim(<<Bracket>> \o SubSeq(y, Min(Found(Open(n))) + 1, Max(Found(Close(n))) - 1)))
           C == st.tool = "write_to_file" /\ Spans("content")
           D == /\ st.tool = "write_to_file" /\ ~Spans("content")
                /\ "content" \notin DOMAIN st.params \/ st.params["content"] = <<>>
                /\ Spans("parameter")
<1>1. FinalParams(st, y) = CASE C -> v("content") [] D -> w("parameter") [] OTHER -> st.params
  BY Zenon DEF FinalParams
<1>2. DOMAIN y = 1..Len(y) /\ Len(y) \in Nat
  BY LenProperties
<1>3. Min(Found(Open("content"))) = a
  <2> DEFINE A == Found(Open("content"))
  <2>1. A \subseteq Nat /\ a \in A /\ \A n \in A : a <= n
    BY <1>2
  <2> HIDE DEF A
  <2>2. Min(A) = a
    BY <2>1, MinIs
  <2> QED
    BY <2>2 DEF A
<1>4. Max(Found(Close("content"))) = e
  <2> DEFINE A == Found(Close("content"))
  <2>1. A \subseteq Nat /\ e \in A /\ \A n \in A : n <= e
    BY <1>2
  <2> HIDE DEF A
  <2>2. Max(A) = e
    BY <2>1, MaxIs
  <2> QED
    BY <2>2 DEF A
<1>5. a \in Found(Open("content")) /\ e \in Found(Close("content"))
  BY <1>2
<1> HIDE DEF Found
<1>6. C /\ ~D
  BY <1>3, <1>4, <1>5
<1>7. v("content") = Put(st.params, "content", Trim(SubSeq(y, a + 1, e - 1)))
  BY <1>3, <1>4
<1> HIDE DEF C, D, v, w
<1> QED
  BY <1>1, <1>6, <1>7

LEMMA GatheredExact ==
  ASSUME NEW b \in Calls, Distinct(b.params), NEW P, Gathered(P, b.params, Len(b.params)),
         \A j \in 1..Len(b.params) : Close(b.params[j][1]) \notin ToSet(b.params[j][2])
  PROVE  P = Named(b)
<1>1. /\ P = [x \in DOMAIN P |-> P[x]] /\ DOMAIN P = {b.params[j][1] : j \in 1..Len(b.params)}
      /\ \A j \in 1..Len(b.params) : P[b.params[j][1]] = b.params[j][2]
  BY DEF Gathered
<1> QED
  BY <1>1, NamedIs

\* The parameters a clear call ends with are those that are meant, also when the
\* content of a write holds its own closing tag.
LEMMA FinalParamsIs ==
  ASSUME NEW b \in Calls, NEW d \in Dialects, ClearCall(b, d),
         NEW st, st.tool = b.name, Gathered(st.params, b.params, Len(b.params)),
         d.param # "own" => \A j \in 1..Len(Body(b, d)) : Body(b, d)[j] # Close("content")
  PROVE  FinalParams(st, Body(b, d)) = Named(b)
<1> DEFINE ps == b.params
           y == Body(b, d)
           P == st.params
<1>1. /\ b.name \in Tools /\ Len(ps) \in Nat /\ DOMAIN ps = 1..Len(ps)
      /\ \A j \in 1..Len(ps) : /\ ps[j] \in Params \X Seq(Tokens) /\ ps[j] \in ToSet(ps)
                               /\ ps[j][1] \in Params /\ ps[j][2] \in Seq(Tokens)
      /\ ToSet(ps) = {ps[j] : j \in 1..Len(ps)}
  BY CallIs DEF ToSet
<1>2. y \in Seq(Tokens) /\ Len(y) \in Nat /\ DOMAIN y = 1..Len(y)
  BY BodyIs, LenProperties
<1>3. Distinct(ps)
  BY DEF ClearCall, Distinct
<1>4. ASSUME NEW j \in 1..Len(ps), Close(ps[j][1]) \in ToSet(ps[j][2])
      PROVE  b.name = "write_to_file" /\ ps[j][1] = "content" /\ d.param = "own"
  <2>1. ClearValue(ps[j], b, d)
    BY <1>1 DEF ClearCall
  <2> QED
    BY <2>1, <1>4 DEF ClearValue
<1>5. ASSUME NEW j \in 1..Len(ps) PROVE Trim(ps[j][2]) = ps[j][2]
  <2>1. ClearValue(ps[j], b, d)
    BY <1>1 DEF ClearCall
  <2> QED
    BY <2>1 DEF ClearValue
<1>6. /\ DOMAIN P = {ps[j][1] : j \in 1..Len(ps)} /\ P = [x \in DOMAIN P |-> P[x]]
      /\ \A j \in 1..Len(ps) : Close(ps[j][1]) \notin ToSet(ps[j][2]) => P[ps[j][1]] = ps[j][2]
  BY DEF Gathered
<1>7. b.name = "write_to_file" =>
        /\ \A j \in 1..Len(ps) : ps[j][1] # "content" =>
             Open("content") \notin ToSet(ps[j][2]) /\ Close("content") \notin ToSet(ps[j][2])
        /\ \/ \E j \in 1..Len(ps) : ps[j][1] = "content" /\ ps[j][2] # <<>>
           \/ \A j \in 1..Len(ps) : Open("parameter") \notin ToSet(ps[j][2])
  <2> SUFFICES ASSUME b.name = "write_to_file" PROVE <1>7!2
    OBVIOUS
  <2>1. /\ \A p \in ToSet(ps) : p[1] # "content" => ToSet(p[2]) \cap {Open("content"), Close("content")} = {}
        /\ \/ \E p \in ToSet(ps) : p[1] = "content" /\ p[2] # <<>>
           \/ Open("parameter") \notin Written(b)
    BY DEF ClearCall
  <2>2. Written(b) = UNION {ToSet(p[2]) : p \in ToSet(ps)}
    BY CallIs DEF Written
  <2> QED
    BY <1>1, <2>1, <2>2
<1> HIDE DEF P
\* No value holds its closing tag, and nothing is taken from the body.
<1>8. ASSUME \A j \in 1..Len(ps) : Close(ps[j][1]) \notin ToSet(ps[j][2]),
             b.name = "write_to_file" =>
               /\ \/ \A j \in 1..Len(y) : y[j] # Open("content")
                  \/ \A j \in 1..Len(y) : y[j] # Close("content")
               /\ \/ "content" \in DOMAIN P /\ P["content"] # <<>>
                  \/ \A j \in 1..Len(y) : y[j] # Open("parameter")
      PROVE  FinalParams(st, y) = Named(b)
  <2>1. FinalParams(st, y) = st.params
    BY <1>2, <1>8, FinalKept DEF P
  <2>2. st.params = Named(b)
    BY <1>3, <1>8, GatheredExact
  <2> QED
    BY <2>1, <2>2
<1>9. \A q : Open(q) # Space /\ \A r : Open(q) # Close(r) /\ (Open(q) = Open(r) => q = r)
  BY DEF Open, Close, Space
<1>10. "parameter" \notin Params /\ "content" \in Params
  BY NamesAssumption
<1>11. d.param \in {"own", "parameter"}
  BY DEF Dialects
\* Without a value that holds "<parameter>", the body holds none.
<1>12. ASSUME \A j \in 1..Len(ps) : Open("parameter") \notin ToSet(ps[j][2])
       PROVE  \A j \in 1..Len(y) : y[j] # Open("parameter")
  <2>1. \A j \in 1..Len(b.params) : /\ Open("parameter") # Open(b.params[j][1])
                                    /\ Open("parameter") # CloseOf(b.params[j][1], d.param)
                                    /\ Open("parameter") \notin ToSet(b.params[j][2])
    BY <1>1, <1>9, <1>10, <1>12 DEF CloseOf
  <2> QED
    BY <2>1, <1>9, BodyMisses
<1>13. CASE b.name # "write_to_file"
  BY <1>4, <1>8, <1>13
<1>14. CASE b.name = "write_to_file" /\ \A j \in 1..Len(ps) : ps[j][1] # "content"
  <2>1. \A j \in 1..Len(b.params) : /\ Open("content") # Open(b.params[j][1])
                                    /\ Open("content") # CloseOf(b.params[j][1], d.param)
                                    /\ Open("content") \notin ToSet(b.params[j][2])
    BY <1>7, <1>9, <1>14 DEF CloseOf
  <2>2. \A j \in 1..Len(y) : y[j] # Open("content")
    BY <2>1, <1>9, BodyMisses
  <2>3. \A j \in 1..Len(y) : y[j] # Open("parameter")
    BY <1>7, <1>12, <1>14
  <2> QED
    BY <1>4, <1>8, <1>14, <2>2, <2>3
<1>15. ASSUME b.name = "write_to_file", NEW c \in 1..Len(ps), ps[c][1] = "content", d.param # "own"
       PROVE  FinalParams(st, y) = Named(b)
  <2>1. \A j \in 1..Len(ps) : Close(ps[j][1]) \notin ToSet(ps[j][2])
    BY <1>4, <1>15
  <2>2. \A j \in 1..Len(y) : y[j] # Close("content")
    BY <1>15
  <2>3. P["content"] = ps[c][2] /\ "content" \in DOMAIN P
    BY <2>1, <1>6, <1>15
  <2>4. \/ P["content"] # <<>>
        \/ \A j \in 1..Len(y) : y[j] # Open("parameter")
    <3>1. CASE \E j \in 1..Len(ps) : ps[j][1] = "content" /\ ps[j][2] # <<>>
      BY <3>1, <2>1, <1>6
    <3>2. CASE \A j \in 1..Len(ps) : Open("parameter") \notin ToSet(ps[j][2])
      BY <3>2, <1>12
    <3> QED
      BY <3>1, <3>2, <1>7, <1>15
  <2> QED
    BY <1>8, <2>1, <2>2, <2>3, <2>4
<1>16. ASSUME b.name = "write_to_file", NEW c \in 1..Len(ps), ps[c][1] = "content", d.param = "own"
       PROVE  FinalParams(st, y) = Named(b)
  <2> DEFINE v == ps[c][2]
             V == Len(v)
  <2>1. PICK g : Parts(y, 0, Rendered(b, d), g) /\ g[Len(b.params)] = Len(y)
    BY BodyParts
  <2>2. /\ Len(Rendered(b, d)) = Len(ps) /\ Rendered(b, d)[c] = RenderParam(ps[c], d)
        /\ g \in [0..Len(ps) -> Nat] /\ At(y, g[c - 1], RenderParam(ps[c], d))
    <3>1. Len(Rendered(b, d)) = Len(ps) /\ Rendered(b, d)[c] = RenderParam(ps[c], d)
      BY BodyIs
    <3> QED
      BY <3>1, <2>1 DEF Parts
  <2>3. g[c - 1] \in Nat
    <3>1. c - 1 \in 0..Len(ps)
      BY <1>1
    <3> QED
      BY <3>1, <2>2
  <2> DEFINE o == g[c - 1]
             x == RenderParam(ps[c], d)
  <2>4. /\ x \in Seq(Tokens) /\ Len(x) = V + 3 /\ V \in Nat
        /\ x[1] = Open("content") /\ At(x, 1, v) /\ x[V + 2] = Close("content")
    <3> DEFINE p == ps[c]
    <3>1. p \in Params \X Seq(Tokens) /\ p[1] = "content" /\ d.param = "own"
      BY <1>1, <1>16
    <3> HIDE DEF p
    <3>2. /\ RenderParam(p, d) \in Seq(Tokens) /\ Len(RenderParam(p, d)) = Len(p[2]) + 3 /\ Len(p[2]) \in Nat
          /\ RenderParam(p, d)[1] = Open(p[1]) /\ At(RenderParam(p, d), 1, p[2])
          /\ RenderParam(p, d)[Len(p[2]) + 2] = CloseOf(p[1], d.param)
      BY <3>1, RenderParamIs
    <3>3. CloseOf(p[1], d.param) = Close("content")
      BY <3>1 DEF CloseOf
    <3> QED
      BY <3>1, <3>2, <3>3 DEF p
  <2>5. At(y, o, x) /\ o \in Nat /\ v \in Seq(Tokens)
    BY <2>2, <2>3, <1>1
  <2>6. ASSUME NEW j \in 1..Len(ps), ps[j][1] = "content" PROVE j = c
    <3>1. j \in DOMAIN ps /\ c \in DOMAIN ps /\ ps[j][1] = ps[c][1]
      BY <2>6, <1>1, <1>16
    <3> HIDE DEF ps
    <3> QED
      BY <3>1, <1>3 DEF Distinct
  <2>7. ASSUME NEW j \in 1..Len(y)
        PROVE  /\ y[j] = Open("content") => o + 1 <= j
               /\ y[j] = Close("content") => j <= o + (V + 2)
    <3>1. PICK n \in 1..Len(b.params), k \in Nat :
            /\ k \in 1..Len(RenderParam(b.params[n], d)) /\ j = g[n - 1] + k
            /\ Body(b, d)[j] = RenderParam(b.params[n], d)[k]
      BY <2>1, BodyToken
    <3>2. ps[n] \in Params \X Seq(Tokens)
      BY <1>1
    <3>3. \/ k = 1 /\ y[j] = Open(ps[n][1])
          \/ k \in 2..Len(ps[n][2]) + 1 /\ y[j] \in ToSet(ps[n][2])
          \/ k = Len(ps[n][2]) + 2 /\ y[j] = Close(ps[n][1])
          \/ k = Len(ps[n][2]) + 3 /\ y[j] = Space
      <4> DEFINE p == ps[n]
                 z == RenderParam(p, d)[k]
      <4>1. p \in Params \X Seq(Tokens) /\ k \in 1..Len(RenderParam(p, d)) /\ y[j] = z
        BY <3>1, <3>2
      <4> HIDE DEF p
      <4>2. \/ k = 1 /\ z = Open(p[1])
            \/ k \in 2..Len(p[2]) + 1 /\ z \in ToSet(p[2])
            \/ k = Len(p[2]) + 2 /\ z = CloseOf(p[1], d.param)
            \/ k = Len(p[2]) + 3 /\ z = Space
        BY <4>1, ParamToken
      <4> HIDE DEF z
      <4> QED
        BY <4>1, <4>2, <1>16 DEF CloseOf, p
    <3>4. CASE n = c
      <4>1. j = o + k /\ k \in Nat /\ k # 0
        BY <3>1, <3>4
      <4>2. y[j] = Close("content") => k <= V + 2
        <5>1. y[j] = Close("content") => y[j] # Open("content") /\ y[j] # Space
          BY DEF Open, Close, Space
        <5> QED
          BY <5>1, <3>3, <3>4, <2>4, <1>16
      <4>3. o \in Nat /\ V \in Nat
        BY <2>4, <2>5
      <4> HIDE DEF o, y, V
      <4> QED
        BY <4>1, <4>2, <4>3
    <3>5. CASE n # c
      <4>1. ps[n][1] # "content"
        BY <3>5, <2>6
      <4>2. Open("content") \notin ToSet(ps[n][2]) /\ Close("content") \notin ToSet(ps[n][2])
        BY <4>1, <1>7, <1>16
      <4>3. y[j] # Open("content") /\ y[j] # Close("content")
        BY <4>1, <4>2, <3>3 DEF Open, Close, Space
      <4> QED
        BY <4>3
    <3> QED
      BY <3>4, <3>5
  <2> HIDE DEF o, x, v, V
  <2>8. FinalParams(st, y) = Put(st.params, "content", Trim(SubSeq(y, (o + 1) + 1, (o + (V + 2)) - 1)))
    <3>1. o + (V + 3) <= Len(y) /\ \A k \in 1..V + 3 : y[o + k] = x[k]
      BY <2>4, <2>5 DEF At
    <3>2. /\ 1 \in 1..V + 3 /\ V + 2 \in 1..V + 3 /\ o + 1 \in 1..Len(y) /\ o + (V + 2) \in 1..Len(y)
          /\ o + 1 < o + (V + 2)
      BY <3>1, <2>4, <2>5, <1>2
    <3>3. y[o + 1] = Open("content") /\ y[o + (V + 2)] = Close("content")
      BY <3>1, <3>2, <2>4
    <3> DEFINE a == o + 1
               e == o + (V + 2)
    <3>4. \A n \in 1..Len(y) : (y[n] = Open("content") => a <= n) /\ (y[n] = Close("content") => n <= e)
      BY <2>7
    <3>5. a \in 1..Len(y) /\ e \in 1..Len(y) /\ a < e /\ y[a] = Open("content") /\ y[e] = Close("content")
      BY <3>2, <3>3
    <3>6. st.tool = "write_to_file" /\ y \in Seq(Tokens)
      BY <1>2, <1>16
    <3> HIDE DEF y, a, e
    <3>7. FinalParams(st, y) = Put(st.params, "content", Trim(SubSeq(y, a + 1, e - 1)))
      BY <3>4, <3>5, <3>6, FinalContent
    <3> QED
      BY <3>7 DEF a, e
  <2>9. SubSeq(y, (o + 1) + 1, (o + (V + 2)) - 1) = v
    <3>1. At(y, o + 1, v)
      BY <2>4, <2>5, <1>2, AtPart DEF V
    <3>4. v \in Seq(Tokens) /\ o + 1 \in Nat
      BY <2>5
    <3> HIDE DEF y
    <3>2. SubSeq(y, (o + 1) + 1, (o + 1) + Len(v)) = v
      BY <3>1, <3>4, AtSubSeq
    <3>3. (o + 1) + Len(v) = (o + (V + 2)) - 1
      BY <2>4, <2>5 DEF V
    <3> QED
      BY <3>2, <3>3
  <2>10. Trim(v) = v
    BY <1>5, <1>16 DEF v
  <2> DEFINE Q == Put(P, "content", v)
  <2>11. FinalParams(st, y) = Q
    BY <2>8, <2>9, <2>10 DEF P
  <2>12. /\ Q = [z \in DOMAIN Q |-> Q[z]] /\ DOMAIN Q = {"content"} \cup DOMAIN P
         /\ Q["content"] = v /\ \A z \in DOMAIN P : z # "content" => Q[z] = P[z]
    BY DEF Put
  <2> HIDE DEF Q
  <2>13. DOMAIN Q = {ps[j][1] : j \in 1..Len(ps)}
    BY <2>12, <1>6, <1>16
  <2>14. \A j \in 1..Len(ps) : Q[ps[j][1]] = ps[j][2]
    BY <2>6, <2>12, <1>4, <1>6 DEF v
  <2>15. Q = Named(b)
    <3>1. /\ Distinct(b.params) /\ Q = [z \in DOMAIN Q |-> Q[z]]
          /\ DOMAIN Q = {b.params[j][1] : j \in 1..Len(b.params)}
          /\ \A j \in 1..Len(b.params) : Q[b.params[j][1]] = b.params[j][2]
      BY <2>12, <2>13, <2>14, <1>3
    <3> HIDE DEF ps
    <3> QED
      BY <3>1, NamedIs
  <2> QED
    BY <2>11, <2>15
<1> QED
  BY <1>13, <1>14, <1>15, <1>16

-----------------------------------------------------------------------------
(* A call and a text are read. *)

LEMMA PartsGrow ==
  ASSUME NEW S, NEW q \in Seq(Seq(S)), NEW m, NEW o, NEW g, Parts(m, o, q, g)
  PROVE  \A n \in 0..Len(q) : g[n] \in Nat /\ g[n] <= g[Len(q)]
<1>1. Len(q) \in Nat /\ \A n \in 1..Len(q) : Len(q[n]) \in Nat
  BY ElementOfSeq, LenProperties
<1>2. /\ \A n \in 0..Len(q) : g[n] \in Nat
      /\ \A n \in 1..Len(q) : g[n] = g[n - 1] + Len(q[n])
  BY DEF Parts
<1> DEFINE T == {e \in 0..Len(q) : \A j \in 0..e : g[j] <= g[e]}
<1>3. 0 \in T
  BY <1>1, <1>2
<1>4. ASSUME NEW e \in 0..Len(q), e # Len(q), e \in T PROVE e + 1 \in T
  <2>1. e + 1 \in 1..Len(q) /\ (e + 1) - 1 = e /\ e + 1 \in 0..Len(q)
    BY <1>1, <1>4
  <2>2. g[e + 1] = g[e] + Len(q[e + 1]) /\ Len(q[e + 1]) \in Nat /\ g[e] \in Nat /\ g[e + 1] \in Nat
    BY <2>1, <1>1, <1>2
  <2>3. ASSUME NEW j \in 0..e + 1 PROVE g[j] <= g[e + 1]
    <3>1. CASE j = e + 1
      BY <3>1, <2>2
    <3>2. CASE j # e + 1
      <4>1. j \in 0..e /\ j \in 0..Len(q)
        BY <3>2, <1>1
      <4>2. g[j] <= g[e] /\ g[j] \in Nat
        BY <4>1, <1>2, <1>4
      <4> QED
        BY <4>2, <2>2
    <3> QED
      BY <3>1, <3>2
  <2> QED
    BY <2>1, <2>3
<1>5. 0..Len(q) \subseteq T
  <2> HIDE DEF T
  <2> QED
    BY <1>1, <1>3, <1>4, Upward
<1>6. Len(q) \in T
  <2> HIDE DEF T
  <2> QED
    BY <1>1, <1>5
<1> QED
  BY <1>2, <1>6

LEMMA CallRead ==
  ASSUME NEW m, Len(m) \in Nat, NEW o \in Nat, NEW b \in Calls, NEW d \in Dialects, Decided(m, d),
         ClearCall(b, d), At(m, o, Render(b, d)), NEW B, NEW a, Reading(Scan(m)[o], B, a)
  PROVE  Reading(Scan(m)[o + Len(Render(b, d))],
                 Append(WithText(Scan(m)[o], IF a = 0 THEN <<>> ELSE Trim(SubSeq(m, a, o)), FALSE),
                        ToolBlock(b.name, Named(b), FALSE)), 0)
<1> DEFINE S == Scan(m)
           t == b.name
           ps == b.params
           y == Body(b, d)
           L == Len(y)
           q == Rendered(b, d)
           C == WithText(S[o], IF a = 0 THEN <<>> ELSE Trim(SubSeq(m, a, o)), FALSE)
<1>1. t \in Tools /\ Len(ps) \in Nat /\ DOMAIN ps = 1..Len(ps)
      /\ \A n \in 1..Len(ps) : ps[n] \in Params \X Seq(Tokens) /\ ps[n] \in ToSet(ps)
  BY CallIs
<1>2. /\ q \in Seq(Seq(Tokens)) /\ Len(q) = Len(ps) /\ y \in Seq(Tokens) /\ L \in Nat
      /\ \A n \in 1..Len(ps) : q[n] = RenderParam(ps[n], d)
  BY BodyIs
<1>3. /\ Len(Render(b, d)) = L + 2 /\ Render(b, d)[1] = Open(t) /\ At(Render(b, d), 1, y)
      /\ Render(b, d)[L + 2] = CloseOf(t, d.tool)
  BY RenderCallIs
<1>4. At(m, o + 1, y)
  BY <1>2, <1>3, AtPart
<1>5. /\ o + (L + 2) <= Len(m) /\ o + 1 \in 1..Len(m) /\ o + (L + 2) \in 1..Len(m)
      /\ m[o + 1] = Open(t) /\ m[o + (L + 2)] = CloseOf(t, d.tool)
  <2>1. o + (L + 2) <= Len(m) /\ \A k \in 1..L + 2 : m[o + k] = Render(b, d)[k]
    BY <1>3 DEF At
  <2>2. 1 \in 1..L + 2 /\ L + 2 \in 1..L + 2
    BY <1>2
  <2> QED
    BY <1>2, <1>3, <2>1, <2>2
<1>6. \A i \in 1..Len(m) : S[i] = AtToken(m, S[i - 1], i)
  BY ScanIs
<1>7. d.tool = "own" => CloseOf(t, d.tool) = Close(t)
  BY DEF CloseOf
<1>8. Distinct(ps) /\ \A n \in 1..Len(ps) : ClearValue(ps[n], b, d)
  BY <1>1 DEF ClearCall, Distinct
<1>9. Reading(S[o], B, a)
  OBVIOUS
<1>10. \A j \in 1..L : m[(o + 1) + j] = y[j]
  BY <1>4 DEF At
<1> SUFFICES Reading(S[o + (L + 2)], Append(C, ToolBlock(t, Named(b), FALSE)), 0)
  BY <1>3
<1>11. PICK g : Parts(m, o + 1, q, g) /\ g[Len(q)] = (o + 1) + L
  <2>1. At(m, o + 1, FlattenSeq(q)) /\ y = FlattenSeq(q) /\ o + 1 \in Nat
    BY <1>4 DEF Body
  <2> HIDE DEF q, y
  <2>2. \E g : Parts(m, o + 1, q, g) /\ g[Len(q)] = (o + 1) + Len(FlattenSeq(q))
    BY <1>2, <2>1, PartsAt
  <2> QED
    BY <2>1, <2>2
<1> HIDE DEF S, q, C, L
<1>12. \A n \in 0..Len(ps) : g[n] \in Nat /\ g[n] <= (o + 1) + L
  BY <1>2, <1>11, PartsGrow
<1>13. Calling(S[o + 1], C, t, o + 2, <<>>)
  <2>1. S[o + 1] = AtToken(m, S[(o + 1) - 1], o + 1) /\ (o + 1) - 1 = o /\ (o + 1) + 1 = o + 2
    BY <1>5, <1>6
  <2>2. Calling(AtToken(m, S[o], o + 1),
                WithText(S[o], IF a = 0 THEN <<>> ELSE Trim(SubSeq(m, a, (o + 1) - 1)), FALSE), t, (o + 1) + 1, <<>>)
    BY <1>1, <1>5, <1>9, CallStarts
  <2> QED
    BY <2>1, <2>2 DEF C
<1> DEFINE T == {k \in 0..Len(ps) : \E P : Calling(S[g[k]], C, t, o + 2, P) /\ Gathered(P, ps, k)}
<1>14. 0 \in T
  <2>1. g[0] = o + 1 /\ 0 \in 0..Len(ps)
    BY <1>1, <1>11 DEF Parts
  <2> QED
    BY <2>1, <1>13, GatheredNone
<1>15. ASSUME NEW k \in 0..Len(ps), k # Len(ps), k \in T PROVE k + 1 \in T
  <2>1. k + 1 \in 1..Len(ps) /\ k + 1 \in 1..Len(q) /\ (k + 1) - 1 = k /\ k + 1 \in 0..Len(ps) /\ k \in Nat
    <3> HIDE DEF T
    <3> QED
      BY <1>1, <1>2, <1>15
  <2> DEFINE p == ps[k + 1]
             x == RenderParam(p, d)
             c == g[k]
  <2>2. p \in Params \X Seq(Tokens) /\ ClearValue(p, b, d) /\ q[k + 1] = x
    BY <2>1, <1>1, <1>2, <1>8
  <2>3. g[k + 1] = c + Len(x) /\ At(m, c, x)
    BY <2>1, <2>2, <1>11 DEF Parts
  <2>4. c \in Nat /\ g[k + 1] \in Nat /\ g[k + 1] <= (o + 1) + L
    BY <2>1, <1>12
  <2>5. PICK P : Calling(S[c], C, t, o + 2, P) /\ Gathered(P, ps, k)
    BY <1>15
  <2>6. d.tool = "own" => \E e \in c + Len(x) + 1..Len(m) : m[e] = Close(t)
    <3>1. o + (L + 2) \in c + Len(x) + 1..Len(m)
      BY <2>3, <2>4, <1>2, <1>5
    <3> QED
      BY <3>1, <1>5, <1>7
  <2> HIDE DEF p, x, c
  <2>7. \E w : /\ Calling(S[c + Len(x)], C, t, o + 2, Put(P, p[1], w))
               /\ Close(p[1]) \notin ToSet(p[2]) => w = p[2]
    <3> DEFINE n == o + 2
    <3>1. At(m, c, RenderParam(p, d)) /\ Calling(Scan(m)[c], C, b.name, n, P)
      BY <2>3, <2>5 DEF x, S
    <3>2. d.tool = "own" => Later(m, c + Len(RenderParam(p, d)), Close(b.name))
      BY <2>6 DEF x, Later
    <3>3. p \in Params \X Seq(Tokens) /\ ClearValue(p, b, d) /\ c \in Nat /\ Len(m) \in Nat /\ Decided(m, d)
      BY <2>2, <2>4
    <3> HIDE DEF n
    <3>4. ReadTo(Scan(m)[c + Len(RenderParam(p, d))], C, b.name, n, P, p)
      BY <3>1, <3>2, <3>3, ParamRead
    <3> QED
      BY <3>4 DEF ReadTo, x, S, n
  <2>8. PICK w : /\ Calling(S[c + Len(x)], C, t, o + 2, Put(P, p[1], w))
                 /\ Close(p[1]) \notin ToSet(p[2]) => w = p[2]
    BY <2>7
  <2>9. Gathered(Put(P, p[1], w), ps, k + 1)
    BY <2>1, <2>5, <2>8, <1>8, GatheredMore DEF p
  <2>10. \E Q : Calling(S[g[k + 1]], C, t, o + 2, Q) /\ Gathered(Q, ps, k + 1)
    BY <2>3, <2>8, <2>9
  <2> QED
    BY <2>1, <2>10
<1>16. Len(ps) \in T
  <2> HIDE DEF T
  <2>1. 0..Len(ps) \subseteq T
    BY <1>1, <1>14, <1>15, Upward
  <2> QED
    BY <2>1, <1>1
<1> DEFINE i == o + (L + 2)
<1>17. i \in 1..Len(m) /\ i - 1 = (o + 1) + L /\ g[Len(ps)] = i - 1 /\ \A e \in i + 1..Len(m) : e \in 1..Len(m)
  BY <1>2, <1>5, <1>11
<1>18. PICK P : Calling(S[i - 1], C, t, o + 2, P) /\ Gathered(P, ps, Len(ps))
  BY <1>16, <1>17
<1>19. S[i] = AtToken(m, S[i - 1], i)
  BY <1>6, <1>17
<1>20. m[i] \notin {Open(p) : p \in Params} /\ ClosesTool(m, t, i)
  <2>1. m[i] = CloseOf(t, d.tool) /\ d.tool \in {"own", "function"}
    BY <1>5 DEF Dialects
  <2>2. "function" \notin Params
    BY NamesAssumption
  <2>3. d.tool # "own" => ~Later(m, i, Close(t))
    BY <1>1, <1>17 DEF Later, Decided
  <2> HIDE DEF i
  <2>4. m[i] \notin {Open(p) : p \in Params}
    BY <2>1 DEF CloseOf, Open, Close
  <2>5. CASE d.tool = "own"
    BY <2>1, <2>4, <2>5 DEF CloseOf, ClosesTool
  <2>6. CASE d.tool # "own"
    <3>1. m[i] = Close("function")
      BY <2>1, <2>6 DEF CloseOf
    <3>2. m[i][1] = "close" /\ m[i][2] = "function"
      BY <3>1 DEF Close
    <3> QED
      BY <3>2, <2>2, <2>3, <2>4, <2>6 DEF ClosesTool
  <2> QED
    BY <2>4, <2>5, <2>6
<1>21. SubSeq(m, o + 2, i - 1) = y
  <2>1. o + 1 \in Nat /\ At(m, o + 1, y) /\ y \in Seq(Tokens)
    BY <1>2, <1>4
  <2> HIDE DEF y
  <2>2. SubSeq(m, (o + 1) + 1, (o + 1) + Len(y)) = y
    BY <2>1, AtSubSeq
  <2>3. (o + 1) + 1 = o + 2 /\ (o + 1) + Len(y) = i - 1
    BY <1>17 DEF L
  <2> QED
    BY <2>2, <2>3
<1>22. FinalParams(S[i - 1], y) = Named(b)
  <2>1. S[i - 1].tool = t /\ Gathered(S[i - 1].params, ps, Len(ps))
    BY <1>18 DEF Calling
  <2>2. ASSUME d.param # "own", NEW j \in 1..L PROVE y[j] # Close("content")
    <3>1. m[(o + 1) + j] = y[j] /\ (o + 1) + j \in 1..Len(m)
      BY <1>2, <1>5, <1>10
    <3>2. "content" \in FreeText
      BY NamesAssumption
    <3> QED
      BY <3>1, <3>2, <2>2 DEF Decided
  <2> DEFINE st == S[i - 1]
  <2>3. st.tool = b.name /\ Gathered(st.params, b.params, Len(b.params))
    BY <2>1
  <2>4. d.param # "own" => \A j \in 1..Len(Body(b, d)) : Body(b, d)[j] # Close("content")
    BY <2>2 DEF L
  <2> HIDE DEF st, ps, y, t
  <2>5. FinalParams(st, Body(b, d)) = Named(b)
    BY <2>3, <2>4, FinalParamsIs
  <2> QED
    BY <2>5 DEF st, y
<1> HIDE DEF i, y
<1>23. Reading(S[i], Append(C, ToolBlock(t, FinalParams(S[i - 1], SubSeq(m, o + 2, i - 1)), FALSE)), 0)
  <2>1. Calling(S[i - 1], C, t, o + 2, P)
    BY <1>18
  <2> DEFINE st == S[i - 1]
             n == o + 2
  <2>2. Calling(st, C, t, n, P) /\ t \in Tools
    BY <2>1, <1>1
  <2> HIDE DEF st, n, t
  <2>3. Reading(AtToken(m, st, i), Append(C, ToolBlock(t, FinalParams(st, SubSeq(m, n, i - 1)), FALSE)), 0)
    BY <2>2, <1>20, CallEnds, Zenon
  <2> QED
    BY <2>3, <1>19 DEF st, n
<1> QED
  BY <1>21, <1>22, <1>23 DEF i

LEMMA TextRead ==
  ASSUME NEW m, Len(m) \in Nat, NEW o \in Nat, NEW x \in Seq(Tokens), x # <<>>, At(m, o, x),
         \A k \in 1..Len(x) : x[k] \notin {Open(t) : t \in Tools},
         NEW B, Reading(Scan(m)[o], B, 0)
  PROVE  Reading(Scan(m)[o + Len(x)], B, o + 1)
<1> DEFINE S == Scan(m)
           L == Len(x)
           T == {k \in 0..L : Reading(S[o + k], B, IF k = 0 THEN 0 ELSE o + 1)}
<1>1. L \in Nat /\ L # 0
  BY LenProperties, EmptySeq
<1>2. \A i \in 1..Len(m) : S[i] = AtToken(m, S[i - 1], i)
  BY ScanIs
<1>3. Reading(S[o], B, 0) /\ o + L <= Len(m) /\ \A k \in 1..L : m[o + k] = x[k]
  BY DEF At
<1>4. \A k \in 1..L : x[k] \notin {Open(t) : t \in Tools}
  OBVIOUS
<1> HIDE DEF S, L
<1>5. 0 \in T
  <2>1. o + 0 = o /\ 0 \in 0..L
    BY <1>1
  <2> QED
    BY <2>1, <1>3
<1>6. ASSUME NEW k \in 0..L, k # L, k \in T PROVE k + 1 \in T
  <2> DEFINE i == o + (k + 1)
             a == IF k = 0 THEN 0 ELSE o + 1
  <2>1. i \in 1..Len(m) /\ i - 1 = o + k /\ k + 1 \in 1..L /\ k + 1 \in 0..L /\ k + 1 # 0
    <3> HIDE DEF T
    <3> QED
      BY <1>1, <1>3, <1>6
  <2>2. m[i] \notin {Open(t) : t \in Tools}
    BY <2>1, <1>3, <1>4
  <2>3. Reading(S[i - 1], B, a)
    BY <2>1, <1>6
  <2>4. S[i] = AtToken(m, S[i - 1], i)
    BY <2>1, <1>2
  <2>5. (IF a = 0 THEN i ELSE a) = o + 1
    BY <2>1, <1>1
  <2> HIDE DEF i, a
  <2>6. Reading(AtToken(m, S[i - 1], i), B, IF a = 0 THEN i ELSE a)
    BY <2>2, <2>3, TextKeeps
  <2>7. Reading(S[i], B, o + 1)
    BY <2>4, <2>5, <2>6
  <2> QED
    BY <2>1, <2>7 DEF i
<1>7. L \in T
  <2> HIDE DEF T
  <2>1. 0..L \subseteq T
    BY <1>1, <1>5, <1>6, Upward
  <2> QED
    BY <2>1, <1>1
<1>8. Reading(S[o + L], B, o + 1)
  BY <1>1, <1>7
<1> QED
  BY <1>8 DEF S, L

\* A block as it comes out when something follows it, and the first n of them.
Said(b) == IF b.kind = "text" THEN TextBlock(b.text, FALSE) ELSE ToolBlock(b.name, Named(b), FALSE)
Done(n) == [k \in 1..n |-> Said(intent[k])]

LEMMA DoneIs ==
  /\ Done(0) = <<>>
  /\ \A n \in Nat : Listed(Done(n)) /\ Len(Done(n)) = n /\ \A k \in 1..n : Done(n)[k] = Said(intent[k])
  /\ \A n \in Nat : Done(n + 1) = Append(Done(n), Said(intent[n + 1]))
<1>1. ASSUME NEW n \in Nat, NEW A, \A k \in 1..n : Said(intent[k]) \in A
      PROVE  /\ Done(n) \in Seq(A) /\ Len(Done(n)) = n
             /\ \A k \in 1..n : Done(n)[k] = Said(intent[k])
  BY <1>1 DEF Done
<1>2. Done(0) = <<>>
  <2>1. Done(0) \in Seq({}) /\ Len(Done(0)) = 0
    BY <1>1
  <2> QED
    BY <2>1, EmptySeq
<1>3. ASSUME NEW n \in Nat
      PROVE  Listed(Done(n)) /\ Len(Done(n)) = n /\ \A k \in 1..n : Done(n)[k] = Said(intent[k])
  <2> DEFINE A == {Said(intent[k]) : k \in 1..n}
  <2>1. \A k \in 1..n : Said(intent[k]) \in A
    OBVIOUS
  <2> HIDE DEF A
  <2>2. Done(n) \in Seq(A) /\ Len(Done(n)) = n /\ \A k \in 1..n : Done(n)[k] = Said(intent[k])
    BY <1>1, <2>1
  <2> QED
    BY <2>2 DEF Listed
<1>4. ASSUME NEW n \in Nat PROVE Done(n + 1) = Append(Done(n), Said(intent[n + 1]))
  <2> DEFINE r == Append(Done(n), Said(intent[n + 1]))
             q == Done(n + 1)
             A == {Said(intent[k]) : k \in 1..n + 1}
  <2>0. n \in Nat /\ n + 1 \in Nat /\ 1..n \subseteq 1..n + 1 /\ \A k \in 1..n + 1 : Said(intent[k]) \in A
    OBVIOUS
  <2> HIDE DEF A
  <2>1. q \in Seq(A) /\ Len(q) = n + 1 /\ \A k \in 1..n + 1 : q[k] = Said(intent[k])
    BY <2>0, <1>1
  <2>2. Done(n) \in Seq(A) /\ Said(intent[n + 1]) \in A /\ Len(Done(n)) = n
        /\ \A k \in 1..n : Done(n)[k] = Said(intent[k])
    <3>1. n + 1 \in 1..n + 1 /\ \A k \in 1..n : Said(intent[k]) \in A
      BY <2>0
    <3> QED
      BY <3>1, <2>0, <1>1
  <2>3. /\ r \in Seq(A) /\ Len(r) = n + 1 /\ r[n + 1] = Said(intent[n + 1])
        /\ \A k \in 1..n : r[k] = Done(n)[k]
    BY <2>2, AppendProperties
  <2> HIDE DEF r, q
  <2>4. \A k \in 1..n + 1 : k \in 1..n \/ k = n + 1
    OBVIOUS
  <2>5. \A k \in 1..n + 1 : q[k] = r[k]
    BY <2>1, <2>2, <2>3, <2>4
  <2>6. q = r
    BY <2>1, <2>3, <2>5, SeqEqual
  <2> QED
    BY <2>6 DEF q, r
<1> QED
  BY <1>2, <1>3, <1>4

\* Where the parser stands after block n of the answer, which ends at g[n].
After(g, n) ==
    IF n # 0 /\ intent[n].kind = "text" THEN Reading(Scan(Answer)[g[n]], Done(n - 1), g[n - 1] + 1)
    ELSE Reading(Scan(Answer)[g[n]], Done(n), 0)

LEMMA TextIs ==
  ASSUME NEW m, NEW x \in Seq(Tokens), NEW o \in Nat, At(m, o, x), NEW a, a = o + Len(x)
  PROVE  SubSeq(m, o + 1, a) = x
BY AtSubSeq

\* The open text is written down when a call follows.
LEMMA TextDone ==
  ASSUME NEW n \in Nat, n # 0, intent[n] \in Texts, Trim(intent[n].text) = intent[n].text, intent[n].text # <<>>
  PROVE  /\ Append(Done(n - 1), TextBlock(intent[n].text, FALSE)) = Done(n)
         /\ \A st : st.blocks = Done(n - 1) =>
              /\ WithText(st, Trim(intent[n].text), FALSE) = Done(n)
              /\ WithText(st, Trim(intent[n].text), TRUE) = Append(Done(n - 1), TextBlock(intent[n].text, TRUE))
<1>1. Said(intent[n]) = TextBlock(intent[n].text, FALSE)
  BY DEF Said, Texts
<1>2. Append(Done(n - 1), TextBlock(intent[n].text, FALSE)) = Done(n)
  <2>1. n - 1 \in Nat /\ (n - 1) + 1 = n
    OBVIOUS
  <2> QED
    BY <2>1, <1>1, DoneIs
<1> QED
  BY <1>2 DEF WithText

LEMMA BlocksRead ==
  ASSUME intent \in Seq(Texts \cup Calls), dialect \in Dialects, ClearAnswer(intent, dialect),
         NEW q, q = [n \in DOMAIN intent |-> Render(intent[n], dialect)],
         NEW g, Parts(Answer, 0, q, g)
  PROVE  After(g, Len(intent))
<1> DEFINE N == Len(intent)
           S == Scan(Answer)
<1>1. /\ q \in Seq(Seq(Tokens)) /\ Len(q) = N /\ N \in Nat
      /\ \A n \in 1..N : intent[n] \in Texts \cup Calls /\ q[n] = Render(intent[n], dialect)
      /\ Len(Answer) \in Nat
  BY AnswerIs
<1>2. Decided(Answer, dialect)
  BY ClearDecided
<1>3. \A n \in 1..N : IF intent[n].kind = "text" THEN ClearText(intent, n) ELSE ClearCall(intent[n], dialect)
  <2>1. DOMAIN intent = 1..N
    BY LenProperties
  <2> QED
    BY <2>1 DEF ClearAnswer
<1>4. /\ g[0] = 0 /\ \A n \in 0..N : g[n] \in Nat
      /\ \A n \in 1..N : g[n] = g[n - 1] + Len(q[n]) /\ At(Answer, g[n - 1], q[n])
  BY <1>1 DEF Parts
<1>5. ASSUME NEW n \in 1..N, intent[n].kind = "text"
      PROVE  /\ intent[n] \in Texts /\ q[n] = intent[n].text /\ intent[n].text \in Seq(Tokens)
             /\ Trim(intent[n].text) = intent[n].text /\ intent[n].text # <<>>
             /\ \A k \in 1..Len(intent[n].text) : intent[n].text[k] \notin {Open(t) : t \in Tools}
             /\ n > 1 => intent[n - 1].kind = "tool"
  <2>1. intent[n] \in Texts
    BY <1>1, <1>5 DEF Calls
  <2>2. q[n] = intent[n].text /\ intent[n].text \in Seq(Tokens)
    BY <1>1, <1>5, <2>1 DEF Render, Texts
  <2>3. ClearText(intent, n)
    BY <1>3, <1>5
  <2>4. \A k \in 1..Len(intent[n].text) : intent[n].text[k] \notin {Open(t) : t \in Tools}
    <3>1. DOMAIN intent[n].text = 1..Len(intent[n].text)
      BY <2>2, LenProperties
    <3> QED
      BY <3>1, <2>3 DEF ClearText, ToSet
  <2> QED
    BY <2>1, <2>2, <2>3, <2>4 DEF ClearText
<1>6. ASSUME NEW n \in 1..N, intent[n].kind # "text"
      PROVE  /\ intent[n] \in Calls /\ ClearCall(intent[n], dialect) /\ q[n] = Render(intent[n], dialect)
             /\ Said(intent[n]) = ToolBlock(intent[n].name, Named(intent[n]), FALSE)
  <2>1. intent[n] \in Calls
    BY <1>1, <1>6 DEF Texts
  <2> QED
    BY <2>1, <1>1, <1>3, <1>6 DEF Said
<1>7. \A n \in 1..N : intent[n].kind = "tool" => intent[n].kind # "text"
  OBVIOUS
<1> DEFINE T == {n \in 0..N : After(g, n)}
<1>8. 0 \in T
  <2>1. Reading(Start, <<>>, 0)
    BY DEF Reading, Start
  <2>2. Scan(Answer)[0] = Start
    BY <1>1, ScanIs
  <2>3. Done(0) = <<>>
    BY DoneIs
  <2>4. After(g, 0)
    BY <2>1, <2>2, <2>3, <1>4 DEF After
  <2> QED
    BY <2>4, <1>1
<1> HIDE DEF N, S
<1>9. ASSUME NEW n \in 0..N, n # N, After(g, n) PROVE After(g, n + 1)
  <2>1. n \in Nat /\ n + 1 \in 1..N /\ (n + 1) - 1 = n /\ n + 1 # 0 /\ (n # 0 => n \in 1..N /\ n - 1 \in 0..N /\ n + 1 > 1)
    BY <1>1, <1>9
  <2> DEFINE o == g[n]
  <2>2. o \in Nat /\ g[n + 1] = o + Len(q[n + 1]) /\ At(Answer, o, q[n + 1])
    BY <2>1, <1>4, <1>9
  <2>3. CASE intent[n + 1].kind = "text"
    <3> DEFINE x == intent[n + 1].text
    <3>1. /\ q[n + 1] = x /\ x \in Seq(Tokens) /\ x # <<>>
          /\ \A k \in 1..Len(x) : x[k] \notin {Open(t) : t \in Tools}
          /\ n # 0 => intent[n].kind # "text"
      BY <2>1, <2>3, <1>5, <1>7
    <3>2. Reading(S[o], Done(n), 0)
      BY <3>1, <1>9 DEF After, S
    <3>3. At(Answer, o, x) /\ g[n + 1] = o + Len(x)
      BY <2>2, <3>1
    <3> HIDE DEF x, o
    <3>4. Reading(S[o + Len(x)], Done(n), o + 1)
      BY <1>1, <2>2, <3>1, <3>2, <3>3, TextRead DEF S
    <3> QED
      BY <2>1, <2>3, <3>3, <3>4 DEF After, S, o
  <2>4. CASE intent[n + 1].kind # "text"
    <3> DEFINE b == intent[n + 1]
    <3>1. /\ b \in Calls /\ ClearCall(b, dialect) /\ q[n + 1] = Render(b, dialect)
          /\ Said(b) = ToolBlock(b.name, Named(b), FALSE)
      BY <2>1, <2>4, <1>6
    <3>2. At(Answer, o, Render(b, dialect)) /\ g[n + 1] = o + Len(Render(b, dialect))
      BY <2>2, <3>1
    <3>3. Done(n + 1) = Append(Done(n), ToolBlock(b.name, Named(b), FALSE))
      BY <2>1, <3>1, DoneIs
    <3>4. ASSUME NEW B, NEW a, Reading(S[o], B, a),
                 WithText(S[o], IF a = 0 THEN <<>> ELSE Trim(SubSeq(Answer, a, o)), FALSE) = Done(n)
          PROVE  Reading(S[g[n + 1]], Done(n + 1), 0)
      <4> DEFINE C == WithText(S[o], IF a = 0 THEN <<>> ELSE Trim(SubSeq(Answer, a, o)), FALSE)
      <4>1. Reading(Scan(Answer)[o], B, a)
        BY <3>4 DEF S
      <4> HIDE DEF b, o
      <4>2. Reading(Scan(Answer)[o + Len(Render(b, dialect))],
                 Append(WithText(Scan(Answer)[o], IF a = 0 THEN <<>> ELSE Trim(SubSeq(Answer, a, o)), FALSE),
                        ToolBlock(b.name, Named(b), FALSE)), 0)
        BY <4>1, <1>1, <1>2, <2>2, <3>1, <3>2, CallRead
      <4> QED
        BY <4>2, <3>2, <3>3, <3>4 DEF S
    <3>5. CASE n # 0 /\ intent[n].kind = "text"
      <4> DEFINE e == g[n - 1]
      <4>1. /\ intent[n] \in Texts /\ q[n] = intent[n].text
            /\ Trim(intent[n].text) = intent[n].text /\ intent[n].text # <<>>
        BY <2>1, <3>5, <1>5
      <4>2. e \in Nat /\ o = e + Len(intent[n].text) /\ At(Answer, e, intent[n].text)
        BY <2>1, <3>5, <4>1, <1>4
      <4>3. Reading(S[o], Done(n - 1), e + 1)
        BY <3>5, <1>9 DEF After, S
      <4>4. S[o].blocks = Done(n - 1)
        BY <4>3 DEF Reading
      <4> HIDE DEF o, e
      <4>5. WithText(S[o], Trim(SubSeq(Answer, e + 1, o)), FALSE) = Done(n)
        <5> DEFINE st == S[o]
        <5>1. n \in Nat /\ n # 0 /\ st.blocks = Done(n - 1)
          BY <2>1, <3>5, <4>4
        <5>4. intent[n].text \in Seq(Tokens)
          BY <4>1 DEF Texts
        <5> HIDE DEF st
        <5>2. WithText(st, Trim(intent[n].text), FALSE) = Done(n)
          BY <4>1, <5>1, TextDone
        <5>3. SubSeq(Answer, e + 1, o) = intent[n].text
          <6> DEFINE x == intent[n].text
          <6>1. x \in Seq(Tokens) /\ e \in Nat /\ At(Answer, e, x) /\ o = e + Len(x)
            BY <4>2, <5>4
          <6> HIDE DEF x
          <6>2. SubSeq(Answer, e + 1, o) = x
            BY <6>1, TextIs
          <6> QED
            BY <6>2 DEF x
        <5> QED
          BY <5>2, <5>3 DEF st
      <4> DEFINE a == e + 1
      <4>6. a # 0
        BY <4>2
      <4> HIDE DEF a
      <4>7. WithText(S[o], IF a = 0 THEN <<>> ELSE Trim(SubSeq(Answer, a, o)), FALSE) = Done(n)
        BY <4>5, <4>6 DEF a
      <4>8. Reading(S[g[n + 1]], Done(n + 1), 0)
        BY <4>3, <4>7, <3>4 DEF a
      <4> QED
        BY <4>8, <2>4 DEF After, S
    <3>6. CASE n = 0 \/ intent[n].kind # "text"
      <4>1. Reading(S[o], Done(n), 0)
        BY <3>6, <1>9 DEF After, S
      <4>2. WithText(S[o], IF 0 = 0 THEN <<>> ELSE Trim(SubSeq(Answer, 0, o)), FALSE) = Done(n)
        BY <4>1 DEF WithText, Reading
      <4>3. Reading(S[g[n + 1]], Done(n + 1), 0)
        BY <4>1, <4>2, <3>4
      <4> QED
        BY <4>3, <2>4 DEF After, S
    <3> QED
      BY <3>5, <3>6
  <2> QED
    BY <2>3, <2>4
<1>10. N \in T
  <2>1. \A n \in 0..N : n # N /\ n \in T => n + 1 \in T
    <3> SUFFICES ASSUME NEW n \in 0..N, n # N, n \in T PROVE n + 1 \in T
      OBVIOUS
    <3>1. n + 1 \in 0..N
      BY <1>1
    <3> QED
      BY <3>1, <1>9
  <2> HIDE DEF T
  <2>2. 0..N \subseteq T
    BY <1>1, <1>8, <2>1, Upward DEF N
  <2> QED
    BY <2>2, <1>1 DEF N
<1> QED
  BY <1>10 DEF N

LEMMA ListedEqual ==
  ASSUME NEW q, NEW r, Listed(q), Listed(r), Len(q) = Len(r), \A k \in 1..Len(q) : q[k] = r[k]
  PROVE  q = r
<1>1. PICK S, T : q \in Seq(S) /\ r \in Seq(T)
  BY DEF Listed
<1>2. q \in Seq(S \cup T) /\ r \in Seq(S \cup T)
  BY <1>1
<1> QED
  BY <1>2, SeqEqual

\* What is meant: the blocks as they are said, but a text at the end is partial.
LEMMA MeantIs ==
  ASSUME intent \in Seq(Texts \cup Calls)
  PROVE  /\ Listed(Meant) /\ Len(Meant) = Len(intent)
         /\ \A n \in 1..Len(intent) :
              Meant[n] = IF n = Len(intent) /\ intent[n].kind = "text" THEN TextBlock(intent[n].text, TRUE)
                         ELSE Said(intent[n])
<1> DEFINE N == Len(intent)
           e(n) == IF intent[n].kind = "text" THEN TextBlock(intent[n].text, n = N)
                   ELSE ToolBlock(intent[n].name, Named(intent[n]), FALSE)
<1>1. N \in Nat /\ DOMAIN intent = 1..N
  BY LenProperties
<1>2. Meant = [n \in 1..N |-> e(n)]
  BY <1>1, Zenon DEF Meant, Named
<1>3. ASSUME NEW n \in 1..N
      PROVE  e(n) = IF n = N /\ intent[n].kind = "text" THEN TextBlock(intent[n].text, TRUE) ELSE Said(intent[n])
  <2>1. CASE n = N
    <3>1. (n = N) = TRUE
      BY <2>1
    <3>2. TextBlock(intent[n].text, n = N) = TextBlock(intent[n].text, TRUE)
      BY <3>1 DEF TextBlock
    <3> QED
      BY <2>1, <3>2 DEF Said
  <2>2. CASE n # N
    <3>1. (n = N) = FALSE
      BY <2>2
    <3>2. TextBlock(intent[n].text, n = N) = TextBlock(intent[n].text, FALSE)
      BY <3>1 DEF TextBlock
    <3> QED
      BY <2>2, <3>2 DEF Said
  <2> QED
    BY <2>1, <2>2
<1> HIDE DEF e
<1>4. /\ Meant \in Seq({e(n) : n \in 1..N}) /\ Len(Meant) = N
      /\ \A n \in 1..N : Meant[n] = e(n)
  BY <1>1, <1>2
<1> QED
  BY <1>3, <1>4 DEF Listed

LEMMA AnswerRead ==
  ASSUME intent \in Seq(Texts \cup Calls), dialect \in Dialects, ClearAnswer(intent, dialect)
  PROVE  Parse(Answer) = Meant
<1> DEFINE N == Len(intent)
           M == Len(Answer)
           q == [n \in DOMAIN intent |-> Render(intent[n], dialect)]
           st == Scan(Answer)[M]
<1>1. /\ q \in Seq(Seq(Tokens)) /\ Len(q) = N /\ N \in Nat /\ Answer = FlattenSeq(q)
      /\ \A n \in 1..N : intent[n] \in Texts \cup Calls /\ q[n] = Render(intent[n], dialect)
      /\ M \in Nat
  BY AnswerIs
<1>2. PICK g : Parts(Answer, 0, q, g) /\ g[N] = M
  <2> HIDE DEF q
  <2> QED
    BY <1>1, FlattenParts
<1>3. After(g, N)
  BY <1>2, BlocksRead
<1>4. Parse(Answer) = AtEnd(Answer, st)
  BY DEF Parse
<1>5. Listed(Meant) /\ Len(Meant) = N
      /\ \A n \in 1..N : Meant[n] = IF n = N /\ intent[n].kind = "text" THEN TextBlock(intent[n].text, TRUE)
                                    ELSE Said(intent[n])
  BY MeantIs
<1> HIDE DEF q
<1>6. CASE N # 0 /\ intent[N].kind = "text"
  <2> DEFINE x == intent[N].text
             o == g[N - 1]
  <2>1. N \in 1..N /\ N - 1 \in 0..N /\ N - 1 \in Nat /\ (N - 1) + 1 = N
    BY <1>1, <1>6
  <2>2. intent[N] \in Texts
    BY <2>1, <1>1, <1>6 DEF Calls
  <2>3. ClearText(intent, N)
    <3>1. DOMAIN intent = 1..N
      BY LenProperties
    <3> QED
      BY <3>1, <2>1, <1>6 DEF ClearAnswer
  <2>4. q[N] = x /\ x \in Seq(Tokens) /\ Trim(x) = x /\ x # <<>>
    BY <2>1, <2>2, <2>3, <1>1, <1>6 DEF Render, Texts, ClearText
  <2>5. o \in Nat /\ M = o + Len(x) /\ At(Answer, o, x)
    BY <2>1, <2>4, <1>1, <1>2 DEF Parts
  <2>6. Reading(st, Done(N - 1), o + 1)
    BY <1>2, <1>3, <1>6 DEF After
  <2> HIDE DEF M, o
  <2>7. SubSeq(Answer, o + 1, M) = x
    <3> HIDE DEF x, N
    <3>1. x \in Seq(Tokens) /\ o \in Nat /\ At(Answer, o, x) /\ M = o + Len(x)
      BY <2>4, <2>5
    <3> QED
      BY <3>1, TextIs
  <2>8. st.tool = None /\ st.text = o + 1 /\ st.blocks = Done(N - 1) /\ o + 1 # 0
    BY <2>5, <2>6 DEF Reading
  <2> HIDE DEF st
  <2>9. AtEnd(Answer, st) = WithText(st, Trim(SubSeq(Answer, o + 1, M)), TRUE)
    BY <2>8 DEF AtEnd, M
  <2>10. AtEnd(Answer, st) = Append(Done(N - 1), TextBlock(x, TRUE))
    BY <2>4, <2>7, <2>8, <2>9 DEF WithText
  <2> DEFINE r == Append(Done(N - 1), TextBlock(x, TRUE))
  <2>11. Listed(Done(N - 1)) /\ Len(Done(N - 1)) = N - 1 /\ \A k \in 1..N - 1 : Done(N - 1)[k] = Said(intent[k])
    BY <2>1, DoneIs
  <2>12. /\ Listed(r) /\ Len(r) = (N - 1) + 1 /\ r[(N - 1) + 1] = TextBlock(x, TRUE)
         /\ \A k \in 1..N - 1 : r[k] = Done(N - 1)[k]
    <3> DEFINE d == Done(N - 1)
               c == TextBlock(x, TRUE)
    <3>1. Listed(d) /\ Len(d) = N - 1
      BY <2>11
    <3> HIDE DEF d, c
    <3>2. /\ Listed(Append(d, c)) /\ Len(Append(d, c)) = Len(d) + 1 /\ Append(d, c)[Len(d) + 1] = c
          /\ \A k \in 1..Len(d) : Append(d, c)[k] = d[k]
      BY <3>1, Appended
    <3>3. r = Append(d, c)
      BY DEF d, c
    <3> HIDE DEF r, N
    <3> QED
      BY <3>1, <3>2, <3>3 DEF d, c
  <2> HIDE DEF r, x
  <2>13. ASSUME NEW k \in 1..N PROVE Meant[k] = r[k]
    <3>1. CASE k = N
      BY <3>1, <2>1, <2>12, <1>5, <1>6 DEF x
    <3>2. CASE k # N
      <4>1. k \in 1..N - 1
        BY <3>2, <1>1
      <4> QED
        BY <4>1, <3>2, <2>11, <2>12, <1>5
    <3> QED
      BY <3>1, <3>2
  <2>14. Meant = r
    BY <2>1, <2>12, <2>13, <1>5, ListedEqual
  <2> QED
    BY <2>10, <2>14, <1>4 DEF r
<1>7. CASE N = 0 \/ intent[N].kind # "text"
  <2>1. Reading(st, Done(N), 0)
    BY <1>2, <1>3, <1>7 DEF After
  <2>2. AtEnd(Answer, st) = Done(N)
    BY <2>1 DEF AtEnd, Reading
  <2>3. Listed(Done(N)) /\ Len(Done(N)) = N /\ \A k \in 1..N : Done(N)[k] = Said(intent[k])
    BY <1>1, DoneIs
  <2>4. \A k \in 1..N : Meant[k] = Done(N)[k]
    <3> SUFFICES ASSUME NEW k \in 1..N PROVE Meant[k] = Done(N)[k]
      OBVIOUS
    <3>1. ~(k = N /\ intent[k].kind = "text")
      BY <1>1, <1>7
    <3> HIDE DEF N
    <3> QED
      BY <3>1, <2>3, <1>5
  <2>5. Meant = Done(N)
    <3> HIDE DEF N
    <3> QED
      BY <2>3, <2>4, <1>5, ListedEqual
  <2> QED
    BY <2>2, <2>5, <1>4
<1> QED
  BY <1>6, <1>7

-----------------------------------------------------------------------------
(* The form of the blocks. *)

\* Between two texts there is a call.
Parted(q) == \A n \in 1..Len(q) : /\ q[n].kind \in {"text", "tool"}
                                  /\ n > 1 => q[n - 1].kind = "tool" \/ q[n].kind = "tool"

\* Blocks that are complete, and those of a parsed text.
Whole(q) == Listed(q) /\ Parted(q) /\ \A n \in 1..Len(q) : q[n].partial = FALSE
Outcome(q) ==
    /\ Listed(q) /\ Parted(q)
    /\ \A n \in 1..Len(q) : /\ q[n].partial = FALSE \/ (q[n].partial = TRUE /\ n = Len(q))
                            /\ n = Len(q) /\ q[n].kind = "text" => q[n].partial = TRUE

\* The last block is a call, if there is one.
Ended(q) == Len(q) # 0 => q[Len(q)].kind = "tool"

\* Block c can come next.
Joins(q, c) == Whole(q) /\ c.kind \in {"text", "tool"} /\ (c.kind = "tool" \/ Ended(q))

LEMMA WholeAppend ==
  ASSUME NEW q, NEW c, Joins(q, c)
  PROVE  /\ c.partial = FALSE => Whole(Append(q, c))
         /\ c.partial = TRUE => Outcome(Append(q, c))
         /\ c.kind = "tool" => Ended(Append(q, c))
<1> DEFINE r == Append(q, c)
<1>0. Whole(q) /\ c.kind \in {"text", "tool"} /\ (c.kind = "tool" \/ Ended(q))
  BY DEF Joins
<1>1. /\ Listed(r) /\ Len(q) \in Nat /\ Len(r) = Len(q) + 1 /\ r[Len(q) + 1] = c
      /\ \A n \in 1..Len(q) : r[n] = q[n]
  BY <1>0, Appended DEF Whole
<1> HIDE DEF r
<1>2. \A n \in 1..Len(r) : n \in 1..Len(q) \/ (n = Len(q) + 1 /\ n = Len(r))
  BY <1>1
<1>3. ASSUME NEW n \in 1..Len(r)
      PROVE  r[n].kind \in {"text", "tool"} /\ (n > 1 => r[n - 1].kind = "tool" \/ r[n].kind = "tool")
  <2>1. CASE n \in 1..Len(q)
    <3>1. n > 1 => n - 1 \in 1..Len(q)
      BY <2>1, <1>1
    <3> QED
      BY <2>1, <3>1, <1>0, <1>1 DEF Whole, Parted
  <2>2. CASE n = Len(q) + 1
    <3>1. n > 1 => n - 1 = Len(q) /\ Len(q) # 0 /\ Len(q) \in 1..Len(q)
      BY <2>2, <1>1
    <3> QED
      BY <2>2, <3>1, <1>0, <1>1 DEF Ended
  <2> QED
    BY <1>2, <2>1, <2>2
<1>4. Parted(r)
  BY <1>3 DEF Parted
<1>5. ASSUME NEW n \in 1..Len(q) PROVE r[n].partial = FALSE /\ n # Len(r)
  BY <1>0, <1>1 DEF Whole
<1>6. r[Len(r)] = c
  BY <1>1
<1>7. c.partial = FALSE => Whole(r)
  <2> SUFFICES ASSUME c.partial = FALSE, NEW n \in 1..Len(r) PROVE r[n].partial = FALSE
    BY <1>1, <1>4 DEF Whole
  <2> QED
    BY <1>2, <1>5, <1>6
<1>8. c.partial = TRUE => Outcome(r)
  <2> SUFFICES ASSUME c.partial = TRUE, NEW n \in 1..Len(r)
               PROVE  /\ r[n].partial = FALSE \/ (r[n].partial = TRUE /\ n = Len(r))
                      /\ n = Len(r) /\ r[n].kind = "text" => r[n].partial = TRUE
    BY <1>1, <1>4 DEF Outcome
  <2> QED
    BY <1>2, <1>5, <1>6
<1>9. c.kind = "tool" => Ended(r)
  BY <1>6 DEF Ended
<1> QED
  BY <1>7, <1>8, <1>9 DEF r

LEMMA WholeOutcome ==
  ASSUME NEW q, Whole(q), Ended(q)
  PROVE  Outcome(q)
<1>1. Len(q) \in Nat
  BY ListedLen DEF Whole
<1>2. ASSUME NEW n \in 1..Len(q), n = Len(q) PROVE q[n].kind = "tool"
  BY <1>1, <1>2 DEF Ended
<1> QED
  BY <1>2 DEF Whole, Outcome

\* The blocks while a message is read: outside a call, none or a call is last.
LEMMA ScanWhole ==
  ASSUME NEW m, Len(m) \in Nat
  PROVE  \A i \in 0..Len(m) : Whole(Scan(m)[i].blocks) /\ (Scan(m)[i].tool = None => Ended(Scan(m)[i].blocks))
<1> DEFINE Good(st) == Whole(st.blocks) /\ (st.tool = None => Ended(st.blocks))
           T == {i \in 0..Len(m) : Good(Scan(m)[i])}
<1>1. 0 \in T
  <2>1. Start.blocks = <<>> /\ Len(<<>>) = 0 /\ Listed(<<>>)
    BY StartState DEF Start, State
  <2>2. Whole(<<>>) /\ Ended(<<>>)
    BY <2>1 DEF Whole, Ended, Parted
  <2>3. Scan(m)[0] = Start
    BY ScanIs
  <2> QED
    BY <2>1, <2>2, <2>3
<1>2. ASSUME NEW i \in 0..Len(m), i # Len(m), i \in T PROVE i + 1 \in T
  <2>1. i + 1 \in 1..Len(m) /\ (i + 1) - 1 = i /\ i + 1 \in Nat /\ i + 1 # 0 /\ i + 1 \in 0..Len(m)
    BY <1>2
  <2> DEFINE a == Scan(m)[i]
             b == Scan(m)[i + 1]
             e == i + 1
  <2> SUFFICES Good(b)
    BY <2>1
  <2>2. b = AtToken(m, a, e) /\ State(a, e - 1) /\ Good(a) /\ e \in Nat /\ e # 0
    BY <2>1, <1>2, ScanIs, ScanStates
  <2> HIDE DEF a, b, e
  <2>3. GoesOn(a, b) \/ Completes(a, b) \/ StaysText(a, b, e) \/ Opens(m, a, b, e)
    BY <2>2, TokenState
  <2>4. CASE GoesOn(a, b)
    BY <2>2, <2>4 DEF GoesOn
  <2>5. CASE Completes(a, b)
    <3>1. PICK c : c.kind = "tool" /\ c.partial = FALSE /\ b.blocks = Append(a.blocks, c)
      BY <2>5 DEF Completes
    <3>2. Joins(a.blocks, c)
      BY <2>2, <3>1 DEF Joins
    <3>3. Whole(Append(a.blocks, c)) /\ Ended(Append(a.blocks, c))
      BY <3>1, <3>2, WholeAppend
    <3> QED
      BY <3>1, <3>3
  <2>6. CASE StaysText(a, b, e)
    BY <2>2, <2>6 DEF StaysText
  <2>7. CASE Opens(m, a, b, e)
    <3> DEFINE v == IF a.text = 0 THEN <<>> ELSE Trim(SubSeq(m, a.text, e - 1))
               c == TextBlock(v, FALSE)
    <3>1. b.tool # None /\ Whole(a.blocks) /\ Ended(a.blocks) /\ b.blocks = WithText(a, v, FALSE)
      BY <2>2, <2>7 DEF Opens
    <3>2. c.kind = "text" /\ c.partial = FALSE
      BY DEF TextBlock
    <3> HIDE DEF v
    <3>3. b.blocks = a.blocks \/ b.blocks = Append(a.blocks, c)
      BY <3>1 DEF WithText
    <3> HIDE DEF c
    <3>5. Joins(a.blocks, c)
      BY <3>1, <3>2 DEF Joins
    <3>4. Whole(Append(a.blocks, c))
      BY <3>2, <3>5, WholeAppend
    <3> QED
      BY <3>1, <3>3, <3>4
  <2> QED
    BY <2>3, <2>4, <2>5, <2>6, <2>7
<1>3. 0..Len(m) \subseteq T
  <2> HIDE DEF T
  <2> QED
    BY <1>1, <1>2, Upward
<1> QED
  BY <1>3

LEMMA ParseOutcome ==
  ASSUME NEW m, Len(m) \in Nat
  PROVE  Outcome(Parse(m))
<1> DEFINE st == Scan(m)[Len(m)]
           v == Trim(SubSeq(m, st.text, Len(m)))
           P == IF st.param = None THEN st.params ELSE Put(st.params, st.param, Trim(SubSeq(m, st.value, Len(m))))
           c == ToolBlock(st.tool, P, TRUE)
           d == TextBlock(v, TRUE)
<1>1. Whole(st.blocks) /\ (st.tool = None => Ended(st.blocks))
  BY ScanWhole
<1>2. Parse(m) = IF st.tool # None THEN Append(st.blocks, c)
                 ELSE IF st.text = 0 THEN st.blocks
                 ELSE WithText(st, v, TRUE)
  BY DEF Parse, AtEnd
<1>3. c.kind = "tool" /\ c.partial = TRUE /\ d.kind = "text" /\ d.partial = TRUE
  BY DEF ToolBlock, TextBlock
<1>4. WithText(st, v, TRUE) = st.blocks \/ WithText(st, v, TRUE) = Append(st.blocks, d)
  BY DEF WithText
<1> HIDE DEF st, c, d
<1>5. CASE st.tool # None
  <2>1. Joins(st.blocks, c)
    BY <1>1, <1>3 DEF Joins
  <2>2. Outcome(Append(st.blocks, c))
    BY <1>3, <2>1, WholeAppend
  <2> QED
    BY <2>2, <1>2, <1>5
<1>6. CASE st.tool = None
  <2>1. Outcome(st.blocks)
    BY <1>1, <1>6, WholeOutcome
  <2>3. Joins(st.blocks, d)
    BY <1>1, <1>3, <1>6 DEF Joins
  <2>2. Outcome(Append(st.blocks, d))
    BY <1>3, <2>3, WholeAppend
  <2> QED
    BY <2>1, <2>2, <1>2, <1>4, <1>6
<1> QED
  BY <1>5, <1>6

\* Blocks q as TaskTurn sees them.
Seen(q) == [n \in DOMAIN q |-> [kind |-> q[n].kind, partial |-> q[n].partial, closed |-> ~q[n].partial]]

LEMMA SeenFits ==
  ASSUME NEW q, Outcome(q)
  PROVE  Seen(q) \in Seq(Block) /\ WellFormed(Seen(q))
<1> DEFINE s == Seen(q)
<1>1. Len(q) \in Nat /\ DOMAIN q = 1..Len(q)
  BY ListedLen DEF Outcome
<1>2. s = [n \in 1..Len(q) |-> [kind |-> q[n].kind, partial |-> q[n].partial, closed |-> ~q[n].partial]]
  BY <1>1 DEF Seen
<1>3. ASSUME NEW n \in 1..Len(q)
      PROVE  /\ s[n] \in Block /\ s[n].kind = q[n].kind
             /\ \/ q[n].partial = FALSE /\ s[n].partial = FALSE /\ s[n].closed = TRUE
                \/ q[n].partial = TRUE /\ s[n].partial = TRUE /\ s[n].closed = FALSE /\ n = Len(q)
  <2>1. s[n] = [kind |-> q[n].kind, partial |-> q[n].partial, closed |-> ~q[n].partial]
    BY <1>2
  <2>2. q[n].kind \in {"text", "tool"} /\ (q[n].partial = FALSE \/ (q[n].partial = TRUE /\ n = Len(q)))
    BY DEF Outcome, Parted
  <2>3. CASE q[n].partial = FALSE
    <3>1. s[n] = [kind |-> q[n].kind, partial |-> FALSE, closed |-> TRUE]
      BY <2>1, <2>3
    <3> QED
      BY <3>1, <2>2, <2>3 DEF Block
  <2>4. CASE q[n].partial = TRUE /\ n = Len(q)
    <3>1. s[n] = [kind |-> q[n].kind, partial |-> TRUE, closed |-> FALSE]
      BY <2>1, <2>4
    <3> QED
      BY <3>1, <2>2, <2>4 DEF Block
  <2> QED
    BY <2>2, <2>3, <2>4
<1>4. s = [n \in 1..Len(q) |-> s[n]]
  <2> DEFINE f(n) == [kind |-> q[n].kind, partial |-> q[n].partial, closed |-> ~q[n].partial]
  <2>1. s = [n \in 1..Len(q) |-> f(n)]
    BY <1>2
  <2> HIDE DEF f, s
  <2> QED
    BY <2>1
<1> HIDE DEF s
<1>5. s \in Seq(Block) /\ Len(s) = Len(q) /\ DOMAIN s = 1..Len(q)
  <2> DEFINE N == Len(q)
  <2>1. \A n \in 1..N : s[n] \in Block
    BY <1>3
  <2>2. N \in Nat /\ s = [n \in 1..N |-> s[n]]
    BY <1>1, <1>4
  <2> HIDE DEF N
  <2>3. s \in [1..N -> Block]
    BY <2>1, <2>2
  <2> QED
    BY <2>2, <2>3 DEF N
<1>6. ASSUME NEW n \in DOMAIN s
      PROVE  /\ s[n].closed = ~s[n].partial /\ (s[n].partial => n = Len(s))
             /\ n > 1 => "tool" \in {s[n - 1].kind, s[n].kind}
  <2>1. n \in 1..Len(q)
    BY <1>5
  <2>2. s[n].closed = ~s[n].partial /\ (s[n].partial => n = Len(s))
    BY <2>1, <1>3, <1>5
  <2>3. n > 1 => n - 1 \in 1..Len(q)
    BY <2>1, <1>1
  <2>4. n > 1 => q[n - 1].kind = "tool" \/ q[n].kind = "tool"
    BY <2>1 DEF Outcome, Parted
  <2>5. s[n].kind = q[n].kind /\ (n > 1 => s[n - 1].kind = q[n - 1].kind)
    BY <2>1, <2>3, <1>3
  <2> QED
    BY <2>2, <2>4, <2>5
<1>7. s # <<>> /\ s[Len(s)].kind = "text" => s[Len(s)].partial
  <2> SUFFICES ASSUME s # <<>>, s[Len(s)].kind = "text" PROVE s[Len(s)].partial
    OBVIOUS
  <2>1. Len(q) # 0 /\ Len(q) \in 1..Len(q)
    BY <1>1, <1>5, EmptySeq
  <2>2. q[Len(q)].partial = TRUE
    BY <2>1, <1>3, <1>5 DEF Outcome
  <2> QED
    BY <2>1, <2>2, <1>3, <1>5
<1>8. WellFormed(s)
  BY <1>6, <1>7 DEF WellFormed
<1> QED
  BY <1>5, <1>8 DEF s

LEMMA SeenExtends ==
  ASSUME NEW B, NEW C, Follows(B, C), Outcome(B), Outcome(C)
  PROVE  /\ Extends(Seen(B), Seen(C))
         /\ \A n \in DOMAIN B : B[n].partial \/ C[n] = B[n]
<1> DEFINE s == Seen(B)
           r == Seen(C)
<1>1. /\ DOMAIN B = 1..Len(B) /\ Len(B) \in Nat /\ Len(C) \in Nat /\ Len(B) <= Len(C)
      /\ \A n \in 1..Len(B) : C[n] = B[n] \/ (B[n].partial = TRUE /\ (B[n].kind = "tool" => C[n].kind = "tool"))
  BY DEF Follows
<1>2. DOMAIN C = 1..Len(C)
  BY ListedLen DEF Outcome
<1>3. Len(s) = Len(B) /\ Len(r) = Len(C) /\ DOMAIN s = 1..Len(B)
  <2>1. s \in Seq(Block) /\ r \in Seq(Block) /\ DOMAIN s = 1..Len(B) /\ DOMAIN r = 1..Len(C)
    BY <1>1, <1>2, SeenFits DEF Seen
  <2> HIDE DEF s, r
  <2>2. DOMAIN s = 1..Len(s) /\ DOMAIN r = 1..Len(r) /\ Len(s) \in Nat /\ Len(r) \in Nat
    BY <2>1, LenProperties
  <2> QED
    BY <2>1, <2>2, <1>1
<1>4. ASSUME NEW n \in 1..Len(B)
      PROVE  r[n] = s[n] \/ (s[n].partial /\ (s[n].kind = "tool" => r[n].kind = "tool"))
  <2>1. /\ s[n] = [kind |-> B[n].kind, partial |-> B[n].partial, closed |-> ~B[n].partial]
        /\ r[n] = [kind |-> C[n].kind, partial |-> C[n].partial, closed |-> ~C[n].partial]
    <3>1. n \in 1..Len(C)
      BY <1>1
    <3> QED
      BY <3>1, <1>1, <1>2 DEF Seen
  <2> HIDE DEF s, r
  <2>2. CASE C[n] = B[n]
    BY <2>1, <2>2
  <2>3. CASE B[n].partial = TRUE /\ (B[n].kind = "tool" => C[n].kind = "tool")
    BY <2>1, <2>3
  <2> QED
    BY <2>2, <2>3, <1>1
<1>5. Extends(s, r)
  <2> HIDE DEF s, r
  <2> QED
    BY <1>1, <1>3, <1>4 DEF Extends
<1>6. \A n \in DOMAIN B : B[n].partial \/ C[n] = B[n]
  BY <1>1
<1> QED
  BY <1>5, <1>6

-----------------------------------------------------------------------------
(* The theorems. *)

\* What has arrived is the beginning of an answer, and the blocks are its blocks.
PInv ==
    /\ intent \in Seq(Texts \cup Calls) /\ dialect \in Dialects
    /\ received \in 0..Len(Answer) /\ blocks = Parse(SubSeq(Answer, 1, received))

LEMMA InitParsed == Init => PInv
<1> SUFFICES ASSUME Init PROVE PInv
  OBVIOUS
<1>1. intent \in Seq(Texts \cup Calls) /\ dialect \in Dialects
  BY CasesAssumption DEF Init, Dialects
<1>2. Len(Answer) \in Nat
  BY <1>1, AnswerIs
<1>3. SubSeq(Answer, 1, 0) = <<>>
  BY SubSeqEmpty
<1>4. Parse(<<>>) = <<>>
  <2>1. Len(<<>>) = 0
    OBVIOUS
  <2>2. Scan(<<>>)[Len(<<>>)] = Start
    BY <2>1, ScanIs
  <2>3. Start.tool = None /\ Start.text = 0 /\ Start.blocks = <<>>
    BY DEF Start
  <2>4. AtEnd(<<>>, Start) = <<>>
    BY <2>3 DEF AtEnd
  <2> QED
    BY <2>2, <2>4 DEF Parse
<1>5. received = 0 /\ blocks = <<>>
  BY DEF Init
<1>6. received \in 0..Len(Answer)
  BY <1>2, <1>5
<1>7. blocks = Parse(SubSeq(Answer, 1, received))
  BY <1>3, <1>4, <1>5, Zenon
<1> QED
  BY <1>1, <1>6, <1>7 DEF PInv

LEMMA ChunkParsed == PInv /\ [Chunk]_vars => PInv'
<1> SUFFICES ASSUME PInv, [Chunk]_vars PROVE PInv'
  OBVIOUS
<1>1. intent' = intent /\ dialect' = dialect
  BY DEF Chunk, vars
<1>2. Answer' = Answer
  BY <1>1 DEF Answer
<1>3. CASE UNCHANGED vars
  BY <1>1, <1>2, <1>3 DEF PInv, vars
<1>4. CASE Chunk
  <2>1. Len(Answer) \in Nat
    BY AnswerIs DEF PInv
  <2>2. received' \in 0..Len(Answer) /\ blocks' = Parse(SubSeq(Answer, 1, received'))
    BY <2>1, <1>4 DEF Chunk, PInv
  <2> QED
    BY <2>2, <1>1, <1>2 DEF PInv
<1> QED
  BY <1>3, <1>4

\* Whatever a model means to say, and whichever closing tags it uses for it, the
\* whole answer is parsed into that, as long as it can be told apart.
THEOREM UnderstoodHolds == Spec => []Understood
<1>1. PInv => Understood
  <2> SUFFICES ASSUME PInv, ClearAnswer(intent, dialect), received = Len(Answer) PROVE blocks = Meant
    BY DEF Understood
  <2>1. Answer \in Seq(Tokens)
    BY AnswerIs DEF PInv
  <2>2. SubSeq(Answer, 1, Len(Answer)) = Answer
    BY <2>1, SubSeqFull
  <2>3. Parse(Answer) = Meant
    BY AnswerRead DEF PInv
  <2>4. blocks = Parse(SubSeq(Answer, 1, Len(Answer)))
    BY DEF PInv
  <2> QED
    BY <2>2, <2>3, <2>4
<1> QED
  BY <1>1, InitParsed, ChunkParsed, PTL DEF Spec

\* A call that is executed in the middle of an answer is the call of the whole
\* answer: parseAssistantMessageV2 never takes back a complete block when the
\* answer is not ambiguous.
THEOREM UnambiguousIsFinalHolds == Spec => []UnambiguousIsFinal
<1>1. PInv => UnambiguousIsFinal
  <2> SUFFICES ASSUME PInv, Unambiguous PROVE CompleteIsFinal
    BY DEF UnambiguousIsFinal
  <2>1. Leads(Outside, Answer, Outside)
    BY AnswerLeads DEF PInv
  <2>2. Answer \in Seq(Tokens) /\ Len(Answer) \in Nat
    BY <2>1, LenProperties DEF Leads
  <2>3. SubSeq(Answer, 1, Len(Answer)) = Answer
    BY <2>2, SubSeqFull
  <2>4. Follows(blocks, Parse(Answer))
    <3>1. received \in 0..Len(Answer) /\ Len(Answer) \in received..Len(Answer)
          /\ blocks = Parse(SubSeq(Answer, 1, received))
      BY <2>2 DEF PInv
    <3> QED
      BY <2>1, <2>3, <3>1, ParseGrows
  <2> QED
    BY <2>4 DEF CompleteIsFinal, Follows
<1> QED
  BY <1>1, InitParsed, ChunkParsed, PTL DEF Spec

\* What TaskTurn takes for granted about the blocks: their form, whatever the
\* model sends, and how they go on from one chunk to the next.
THEOREM FeedsTaskTurnHolds == Spec => FeedsTaskTurn
<1> DEFINE A == /\ Shown' \in Seq(Block) /\ WellFormed(Shown')
                /\ Unambiguous => /\ Extends(Shown, Shown')
                                  /\ \A n \in DOMAIN blocks : blocks[n].partial \/ blocks'[n] = blocks[n]
<1>1. ASSUME NEW k \in 0..Len(Answer), PInv PROVE Outcome(Parse(SubSeq(Answer, 1, k)))
  <2>1. Answer \in Seq(Tokens)
    BY <1>1, AnswerIs DEF PInv
  <2>2. Len(SubSeq(Answer, 1, k)) \in Nat
    BY <2>1, PrefixIs
  <2> QED
    BY <2>2, ParseOutcome
<1>2. PInv /\ [Chunk]_vars => [A]_blocks
  <2> SUFFICES ASSUME PInv, Chunk PROVE A
    BY DEF vars
  <2>1. Len(Answer) \in Nat
    BY AnswerIs DEF PInv
  <2>2. /\ received \in 0..Len(Answer) /\ received' \in received..Len(Answer) /\ received' \in 0..Len(Answer)
        /\ blocks = Parse(SubSeq(Answer, 1, received)) /\ blocks' = Parse(SubSeq(Answer, 1, received'))
    BY <2>1 DEF PInv, Chunk
  <2>3. Outcome(blocks) /\ Outcome(blocks')
    BY <1>1, <2>2
  <2>4. Shown = Seen(blocks) /\ Shown' = Seen(blocks')
    BY DEF Shown, Seen
  <2>5. Shown' \in Seq(Block) /\ WellFormed(Shown')
    BY <2>3, <2>4, SeenFits
  <2>6. ASSUME Unambiguous
        PROVE  /\ Extends(Shown, Shown')
               /\ \A n \in DOMAIN blocks : blocks[n].partial \/ blocks'[n] = blocks[n]
    <3>1. Leads(Outside, Answer, Outside)
      BY <2>6, AnswerLeads DEF PInv
    <3>2. Follows(blocks, blocks')
      BY <3>1, <2>2, ParseGrows
    <3> QED
      BY <3>2, <2>3, <2>4, SeenExtends
  <2> QED
    BY <2>5, <2>6
<1>3. FeedsTaskTurn <=> [][A]_blocks
  BY DEF FeedsTaskTurn
<1> HIDE DEF A
<1> QED
  BY <1>2, <1>3, InitParsed, ChunkParsed, PTL DEF Spec
=============================================================================
