--------------------------- MODULE SelectionProofs ---------------------------
(***************************************************************************)
(* What Filter returns, for every sequence and every set.  The library's   *)
(* induction theorems take an operator; the induction here is over a set   *)
(* of naturals, from the well-foundedness of their order.                  *)
(***************************************************************************)
EXTENDS Selection, SequenceTheorems, WellFoundedInduction, TLAPS

Below == {p \in Nat \X Nat : p[1] < p[2]}

LEMMA BelowIsWellFounded == IsWellFoundedOn(Below, Nat)
  BY NatLessThanWellFounded, Zenon DEF OpToRel, Below

(* Every set of naturals that is not empty has a least element.              *)
LEMMA LeastNatural ==
  ASSUME NEW T \in SUBSET Nat, T # {}
  PROVE  \E n \in T : \A m \in T : n <= m
<1>1. PICK n \in T : \A m \in T : <<m, n>> \notin Below
  BY BelowIsWellFounded, WFMin
<1>2. ASSUME NEW m \in T PROVE n <= m
  <2>1. ~(m < n)
    BY <1>1 DEF Below
  <2>2. QED
    BY <2>1
<1>3. QED
  BY <1>2

(* A set of naturals with 0 and every successor has them all.                *)
LEMMA SetInduction ==
  ASSUME NEW T \in SUBSET Nat, 0 \in T, \A n \in T : n + 1 \in T
  PROVE  T = Nat
<1>1. SUFFICES ASSUME Nat \ T # {} PROVE FALSE
  OBVIOUS
<1>2. PICK n \in Nat \ T : \A m \in Nat \ T : n <= m
  <2>1. Nat \ T \in SUBSET Nat
    OBVIOUS
  <2>2. QED
    BY <1>1, <2>1, LeastNatural
<1>3. n - 1 \in T
  BY <1>2
<1>4. QED
  BY <1>2, <1>3

-----------------------------------------------------------------------------
(* The n-th step of the filter, after the steps f.                          *)
Next1(s, S, f, n) ==
  IF n = 0 THEN <<>>
  ELSE IF s[n] \in S THEN Append(f[n - 1], s[n]) ELSE f[n - 1]

(* The recursion has a solution up to every bound.                           *)
LEMMA KeptExists ==
  ASSUME NEW s, NEW S
  PROVE  \A m \in Nat : \E f : f = [n \in 0 .. m |-> Next1(s, S, f, n)]
<1> DEFINE Solved == {m \in Nat : \E f : f = [n \in 0 .. m |-> Next1(s, S, f, n)]}
<1>1. 0 \in Solved
  <2> DEFINE g == [n \in 0 .. 0 |-> <<>>]
  <2>1. g = [n \in 0 .. 0 |-> Next1(s, S, g, n)]
    BY DEF Next1
  <2> HIDE DEF g
  <2>2. QED
    BY <2>1
<1>2. ASSUME NEW m \in Solved PROVE m + 1 \in Solved
  <2>1. PICK f : f = [n \in 0 .. m |-> Next1(s, S, f, n)]
    OBVIOUS
  <2> DEFINE g == [n \in 0 .. m + 1 |-> IF n = m + 1 THEN Next1(s, S, f, n) ELSE f[n]]
  <2>2. ASSUME NEW n \in 0 .. m + 1 PROVE g[n] = Next1(s, S, g, n)
    <3>1. n # 0 => g[n - 1] = f[n - 1]
      OBVIOUS
    <3>2. g[n] = Next1(s, S, f, n)
      <4>1. CASE n = m + 1
        BY <4>1
      <4>2. CASE n # m + 1
        <5>1. n \in 0 .. m /\ g[n] = f[n]
          BY <4>2
        <5> HIDE DEF g
        <5>2. QED
          BY <5>1, <2>1
      <4>3. QED
        BY <4>1, <4>2
    <3>3. QED
      BY <3>1, <3>2 DEF Next1
  <2>3. g = [n \in 0 .. m + 1 |-> g[n]]
    OBVIOUS
  <2> HIDE DEF g
  <2>4. g = [n \in 0 .. m + 1 |-> Next1(s, S, g, n)]
    BY <2>2, <2>3
  <2>5. QED
    BY <2>4
<1>3. QED
  <2> HIDE DEF Solved
  <2>1. Solved = Nat
    BY <1>1, <1>2, SetInduction DEF Solved
  <2>2. QED
    BY <2>1 DEF Solved

LEMMA KeptIsRecursive ==
  ASSUME NEW X, NEW s \in Seq(X), NEW S
  PROVE  Kept(s, S) = [n \in 0 .. Len(s) |-> Next1(s, S, Kept(s, S), n)]
<1>1. Len(s) \in Nat
  OBVIOUS
<1>2. \E f : f = [n \in 0 .. Len(s) |-> Next1(s, S, f, n)]
  BY <1>1, KeptExists, Zenon
<1>3. Kept(s, S) = CHOOSE f : f = [n \in 0 .. Len(s) |-> Next1(s, S, f, n)]
  BY DEF Kept, Next1
<1>4. QED
  BY <1>2, <1>3

(* What a sequence has once an element is appended, or its head is dropped.  *)
LEMMA AppendElements ==
  ASSUME NEW X, NEW s \in Seq(X), NEW e \in X
  PROVE  Append(s, e) \in Seq(X) /\ Elements(Append(s, e)) = Elements(s) \cup {e}
<1>1. /\ Append(s, e) \in Seq(X) /\ DOMAIN Append(s, e) = (DOMAIN s) \cup {Len(s) + 1}
      /\ \A x \in DOMAIN s : Append(s, e)[x] = s[x]
      /\ Append(s, e)[Len(s) + 1] = e
  BY AppendProperties
<1>2. QED
  BY <1>1 DEF Elements

LEMMA HeadElements ==
  ASSUME NEW X, NEW s \in Seq(X), s # <<>>
  PROVE  /\ Tail(s) \in Seq(X) /\ Head(s) \in X
         /\ Elements(s) = {Head(s)} \cup Elements(Tail(s))
<1>1. /\ Tail(s) \in Seq(X) /\ Head(s) = s[1] /\ Head(s) \in X
      /\ Len(s) \in Nat \ {0} /\ DOMAIN s = 1 .. Len(s)
      /\ DOMAIN Tail(s) = 1 .. Len(s) - 1
      /\ \A x \in 1 .. Len(s) - 1 : Tail(s)[x] = s[x + 1]
  BY HeadTailProperties, LenProperties, EmptySeq
<1>2. Elements(s) \subseteq {Head(s)} \cup Elements(Tail(s))
  <2>1. ASSUME NEW x \in 1 .. Len(s), x # 1 PROVE s[x] \in Elements(Tail(s))
    <3>1. x - 1 \in 1 .. Len(s) - 1 /\ Tail(s)[x - 1] = s[x]
      BY <1>1, <2>1
    <3>2. QED
      BY <1>1, <3>1 DEF Elements
  <2>2. QED
    BY <1>1, <2>1 DEF Elements
<1>3. Elements(Tail(s)) \subseteq Elements(s)
  <2>1. ASSUME NEW x \in 1 .. Len(s) - 1 PROVE x + 1 \in 1 .. Len(s)
    BY <1>1
  <2>2. QED
    BY <1>1, <2>1 DEF Elements
<1>4. Head(s) \in Elements(s)
  BY <1>1 DEF Elements
<1>5. QED
  BY <1>1, <1>2, <1>3, <1>4

-----------------------------------------------------------------------------
(* What is kept of a beginning of the sequence.                             *)
KeepsOf(X, s, S, k, n) == k \in Seq(X) /\ Elements(k) = {s[x] : x \in 1 .. n} \cap S

LEMMA KeepsNext ==
  ASSUME NEW X, NEW s \in Seq(X), NEW S, NEW n \in Nat, n + 1 \in 1 .. Len(s), NEW k,
         KeepsOf(X, s, S, k, n)
  PROVE  KeepsOf(X, s, S, IF s[n + 1] \in S THEN Append(k, s[n + 1]) ELSE k, n + 1)
<1>1. {s[x] : x \in 1 .. n + 1} = {s[x] : x \in 1 .. n} \cup {s[n + 1]}
  <2>1. 1 .. n + 1 = (1 .. n) \cup {n + 1}
    OBVIOUS
  <2>2. QED
    BY <2>1
<1>2. s[n + 1] \in X
  BY ElementOfSeq
<1>3. CASE s[n + 1] \in S
  BY <1>1, <1>2, <1>3, AppendElements DEF KeepsOf
<1>4. CASE s[n + 1] \notin S
  BY <1>1, <1>4 DEF KeepsOf
<1>5. QED
  BY <1>3, <1>4

LEMMA KeptElements ==
  ASSUME NEW X, NEW s \in Seq(X), NEW S
  PROVE  KeepsOf(X, s, S, Filter(s, S), Len(s))
<1>l. Len(s) \in Nat
  OBVIOUS
<1>1. PICK k : k = Kept(s, S)
  OBVIOUS
<1>2. ASSUME NEW n \in 0 .. Len(s) PROVE k[n] = Next1(s, S, k, n)
  <2>1. k = [m \in 0 .. Len(s) |-> Next1(s, S, k, m)]
    BY <1>1, KeptIsRecursive
  <2>2. QED
    BY <2>1
<1> DEFINE T == {n \in Nat : n <= Len(s) => KeepsOf(X, s, S, k[n], n)}
<1>3. 0 \in T
  <2>1. k[0] = <<>>
    BY <1>2, <1>l DEF Next1
  <2>2. KeepsOf(X, s, S, <<>>, 0)
    BY DEF KeepsOf, Elements
  <2>3. QED
    BY <2>1, <2>2
<1>4. ASSUME NEW n \in T PROVE n + 1 \in T
  <2>1. SUFFICES ASSUME n + 1 <= Len(s) PROVE KeepsOf(X, s, S, k[n + 1], n + 1)
    OBVIOUS
  <2>2. n \in Nat /\ n + 1 \in 1 .. Len(s) /\ n <= Len(s)
    BY <1>l, <2>1
  <2>3. k[n + 1] = IF s[n + 1] \in S THEN Append(k[n], s[n + 1]) ELSE k[n]
    <3>1. n + 1 \in 0 .. Len(s) /\ n + 1 # 0 /\ (n + 1) - 1 = n
      BY <2>2
    <3>2. k[n + 1] = Next1(s, S, k, n + 1)
      BY <1>2, <3>1
    <3>3. QED
      BY <3>1, <3>2 DEF Next1
  <2>4. KeepsOf(X, s, S, k[n], n)
    BY <2>2
  <2>5. QED
    BY <2>2, <2>3, <2>4, KeepsNext
<1>5. T = Nat
  <2>1. T \in SUBSET Nat
    OBVIOUS
  <2> HIDE DEF T
  <2>2. QED
    BY <1>3, <1>4, <2>1, SetInduction
<1>6. KeepsOf(X, s, S, k[Len(s)], Len(s))
  BY <1>5, <1>l
<1>7. QED
  BY <1>1, <1>6 DEF Filter

(* Filter keeps exactly the elements that are in the set.                    *)
THEOREM FilterElements ==
  ASSUME NEW X, NEW s \in Seq(X), NEW S
  PROVE  /\ Filter(s, S) \in Seq(X)
         /\ Elements(Filter(s, S)) = Elements(s) \cap S
<1>1. /\ Filter(s, S) \in Seq(X)
      /\ Elements(Filter(s, S)) = {s[x] : x \in 1 .. Len(s)} \cap S
  BY KeptElements DEF KeepsOf
<1>2. Elements(s) = {s[x] : x \in 1 .. Len(s)}
  BY LenProperties DEF Elements
<1>3. QED
  BY <1>1, <1>2

-----------------------------------------------------------------------------
(* A sequence without repetitions, such as a queue of jobs.                  *)
Distinct(s) == \A x, y \in DOMAIN s : s[x] = s[y] => x = y

(* Its head is nowhere in the rest.                                        *)
LEMMA TailDistinct ==
  ASSUME NEW X, NEW s \in Seq(X), s # <<>>, Distinct(s)
  PROVE  /\ Tail(s) \in Seq(X) /\ Distinct(Tail(s))
         /\ Head(s) \in Elements(s) /\ Elements(Tail(s)) = Elements(s) \ {Head(s)}
<1>1. /\ Tail(s) \in Seq(X) /\ Head(s) = s[1]
      /\ Len(s) \in Nat \ {0} /\ DOMAIN s = 1 .. Len(s)
      /\ DOMAIN Tail(s) = 1 .. Len(s) - 1
      /\ \A x \in 1 .. Len(s) - 1 : Tail(s)[x] = s[x + 1]
  BY HeadTailProperties, LenProperties, EmptySeq
<1>2. Elements(s) = {Head(s)} \cup Elements(Tail(s))
  BY HeadElements
<1>3. Distinct(Tail(s))
  <2>1. SUFFICES ASSUME NEW x \in 1 .. Len(s) - 1, NEW y \in 1 .. Len(s) - 1, Tail(s)[x] = Tail(s)[y]
                 PROVE  x = y
    BY <1>1 DEF Distinct
  <2>2. x + 1 \in DOMAIN s /\ y + 1 \in DOMAIN s /\ s[x + 1] = s[y + 1]
    BY <1>1, <2>1
  <2>3. x + 1 = y + 1
    BY <2>2 DEF Distinct
  <2>4. QED
    BY <2>3
<1>4. Head(s) \notin Elements(Tail(s))
  <2>1. SUFFICES ASSUME NEW x \in 1 .. Len(s) - 1, s[1] = Tail(s)[x] PROVE FALSE
    BY <1>1 DEF Elements
  <2>2. x + 1 \in DOMAIN s /\ 1 \in DOMAIN s /\ s[x + 1] = s[1] /\ x + 1 # 1
    BY <1>1, <2>1
  <2>3. QED
    BY <2>2 DEF Distinct
<1>5. QED
  BY <1>1, <1>2, <1>3, <1>4

(* Two queues with nothing in common make one.                              *)
LEMMA ConcatDistinct ==
  ASSUME NEW X, NEW s \in Seq(X), NEW t \in Seq(X), Distinct(s), Distinct(t),
         Elements(s) \cap Elements(t) = {}
  PROVE  s \o t \in Seq(X) /\ Distinct(s \o t) /\ Elements(s \o t) = Elements(s) \cup Elements(t)
<1>1. /\ Len(s) \in Nat /\ Len(t) \in Nat /\ DOMAIN s = 1 .. Len(s) /\ DOMAIN t = 1 .. Len(t)
      /\ s \o t \in Seq(X) /\ DOMAIN (s \o t) = 1 .. Len(s) + Len(t)
      /\ \A x \in 1 .. Len(s) + Len(t) : (s \o t)[x] = IF x <= Len(s) THEN s[x] ELSE t[x - Len(s)]
  BY ConcatProperties, LenProperties
<1>2. PICK u : u = s \o t
  OBVIOUS
<1>3. ASSUME NEW x \in 1 .. Len(s) + Len(t)
      PROVE  \/ x \in DOMAIN s /\ u[x] = s[x] /\ u[x] \in Elements(s)
             \/ x - Len(s) \in DOMAIN t /\ u[x] = t[x - Len(s)] /\ u[x] \in Elements(t) /\ x \notin DOMAIN s
  <2>1. CASE x <= Len(s)
    BY <1>1, <1>2, <2>1 DEF Elements
  <2>2. CASE ~(x <= Len(s))
    <3>1. x - Len(s) \in DOMAIN t /\ u[x] = t[x - Len(s)] /\ x \notin DOMAIN s
      BY <1>1, <1>2, <2>2
    <3>2. QED
      BY <3>1 DEF Elements
  <2>3. QED
    BY <2>1, <2>2
<1>4. Elements(s) \subseteq Elements(u)
  BY <1>1, <1>2 DEF Elements
<1>5. Elements(t) \subseteq Elements(u)
  <2>1. ASSUME NEW y \in DOMAIN t PROVE t[y] \in Elements(u)
    <3>1. y + Len(s) \in DOMAIN u /\ u[y + Len(s)] = t[y]
      BY <1>1, <1>2
    <3>2. QED
      BY <3>1 DEF Elements
  <2>2. QED
    BY <2>1 DEF Elements
<1>6. Elements(u) \subseteq Elements(s) \cup Elements(t)
  BY <1>1, <1>2, <1>3 DEF Elements
<1>7. Distinct(u)
  <2>1. SUFFICES ASSUME NEW x \in 1 .. Len(s) + Len(t), NEW y \in 1 .. Len(s) + Len(t), u[x] = u[y]
                 PROVE  x = y
    BY <1>1, <1>2 DEF Distinct
  <2>2. CASE x \in DOMAIN s /\ u[x] = s[x] /\ u[x] \in Elements(s)
    BY <1>3, <2>1, <2>2 DEF Distinct
  <2>3. CASE x - Len(s) \in DOMAIN t /\ u[x] = t[x - Len(s)] /\ u[x] \in Elements(t)
    <3>1. y - Len(s) \in DOMAIN t /\ u[y] = t[y - Len(s)]
      BY <1>3, <2>1, <2>3
    <3>2. x - Len(s) = y - Len(s)
      BY <2>1, <2>3, <3>1 DEF Distinct
    <3>3. QED
      BY <1>1, <3>2
  <2>4. QED
    BY <1>3, <2>2, <2>3
<1>8. QED
  BY <1>1, <1>2, <1>4, <1>5, <1>6, <1>7

LEMMA SingleDistinct ==
  ASSUME NEW X, NEW e \in X
  PROVE  <<e>> \in Seq(X) /\ Distinct(<<e>>) /\ Elements(<<e>>) = {e}
BY DEF Distinct, Elements

(* A new element, behind the others or before them.                          *)
LEMMA OneMoreBehind ==
  ASSUME NEW X, NEW s \in Seq(X), NEW e \in X, Distinct(s), e \notin Elements(s)
  PROVE  \E t \in Seq(X) : t = Append(s, e) /\ Distinct(t) /\ Elements(t) = Elements(s) \cup {e}
<1>1. PICK one : one = <<e>> /\ one \in Seq(X) /\ Distinct(one) /\ Elements(one) = {e}
  BY SingleDistinct
<1>2. Elements(s) \cap Elements(one) = {}
  BY <1>1
<1>3. one \in Seq(X) /\ Distinct(one)
  BY <1>1
<1>4. s \o one \in Seq(X) /\ Distinct(s \o one) /\ Elements(s \o one) = Elements(s) \cup Elements(one)
  BY <1>2, <1>3, ConcatDistinct
<1>5. s \o one = Append(s, e)
  BY <1>1, AppendIsConcat
<1>6. QED
  BY <1>1, <1>4, <1>5

LEMMA OneMoreBefore ==
  ASSUME NEW X, NEW s \in Seq(X), NEW e \in X, Distinct(s), e \notin Elements(s)
  PROVE  \E t \in Seq(X) : t = <<e>> \o s /\ Distinct(t) /\ Elements(t) = Elements(s) \cup {e}
<1>1. PICK one : one = <<e>> /\ one \in Seq(X) /\ Distinct(one) /\ Elements(one) = {e}
  BY SingleDistinct
<1>2. Elements(one) \cap Elements(s) = {}
  BY <1>1
<1>3. one \in Seq(X) /\ Distinct(one)
  BY <1>1
<1>4. one \o s \in Seq(X) /\ Distinct(one \o s) /\ Elements(one \o s) = Elements(one) \cup Elements(s)
  BY <1>2, <1>3, ConcatDistinct
<1>5. QED
  BY <1>1, <1>4
=============================================================================
