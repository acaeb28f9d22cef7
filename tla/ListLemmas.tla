----------------------------- MODULE ListLemmas -----------------------------
(***************************************************************************)
(* What the list operations of the models do to the elements and to the    *)
(* members of a list, for lists of anything: struct list_head of the code  *)
(* is a sequence in the models, list_add_tail is Append, list_add is       *)
(* <<x>> \o w, list_del RemoveAt, Tail or Without.                         *)
(***************************************************************************)
EXTENDS Integers, Sequences, FiniteSets, SequencesExt, Lists,
        SequenceTheorems, FiniteSetTheorems, TLAPS

-----------------------------------------------------------------------------
(* Elements by index. *)

LEMMA PrependList ==
    ASSUME NEW S, NEW w \in Seq(S), NEW m \in S
    PROVE  /\ <<m>> \o w \in Seq(S)
           /\ Len(<<m>> \o w) = Len(w) + 1
           /\ (<<m>> \o w)[1] = m
           /\ \A i \in 1 .. Len(w) : (<<m>> \o w)[i + 1] = w[i]
<1>1. <<m>> \in Seq(S) /\ Len(<<m>>) = 1 /\ <<m>>[1] = m
  OBVIOUS
<1>2. Len(w) \in Nat
  OBVIOUS
<1> QED BY <1>1, <1>2, ConcatProperties

LEMMA RemoveAtList ==
    ASSUME NEW S, NEW w \in Seq(S), NEW i \in 1 .. Len(w)
    PROVE  /\ RemoveAt(w, i) \in Seq(S)
           /\ Len(RemoveAt(w, i)) = Len(w) - 1
           /\ \A j \in 1 .. Len(w) - 1 :
                 RemoveAt(w, i)[j] = IF j < i THEN w[j] ELSE w[j + 1]
<1> DEFINE a == SubSeq(w, 1, i - 1)
           b == SubSeq(w, i + 1, Len(w))
<1>1. Len(w) \in Nat /\ \A j \in 1 .. Len(w) : w[j] \in S
  OBVIOUS
<1>2. /\ a \in Seq(S) /\ Len(a) = i - 1
      /\ \A j \in 1 .. i - 1 : a[j] = w[j]
  <2>1. \A j \in 1 .. i - 1 : w[j] \in S
    BY <1>1
  <2>2. /\ a \in Seq(S)
        /\ Len(a) = IF 1 <= i - 1 THEN i - 1 - 1 + 1 ELSE 0
        /\ \A j \in 1 .. i - 1 - 1 + 1 : a[j] = w[1 + j - 1]
    BY <2>1, SubSeqProperties, i - 1 \in Int
  <2> QED BY <2>2
<1>3. /\ b \in Seq(S) /\ Len(b) = Len(w) - i
      /\ \A j \in 1 .. Len(w) - i : b[j] = w[i + j]
  <2>1. \A j \in i + 1 .. Len(w) : w[j] \in S
    BY <1>1
  <2>2. /\ b \in Seq(S)
        /\ Len(b) = IF i + 1 <= Len(w) THEN Len(w) - (i + 1) + 1 ELSE 0
        /\ \A j \in 1 .. Len(w) - (i + 1) + 1 : b[j] = w[i + 1 + j - 1]
    BY <1>1, <2>1, SubSeqProperties, i + 1 \in Int
  <2> QED BY <1>1, <2>2
<1>4. RemoveAt(w, i) = a \o b
  BY DEF RemoveAt
<1> HIDE DEF a, b
<1>5. /\ a \o b \in Seq(S) /\ Len(a \o b) = Len(a) + Len(b)
      /\ \A j \in 1 .. Len(a) + Len(b) :
            (a \o b)[j] = IF j <= Len(a) THEN a[j] ELSE b[j - Len(a)]
  BY <1>2, <1>3, ConcatProperties
<1> QED BY <1>1, <1>2, <1>3, <1>4, <1>5

\* A set of indices that is not empty has a smallest member.
LEMMA SmallestIndex ==
    ASSUME NEW S, S \subseteq Nat, S # {}
    PROVE  \E i \in S : \A j \in S : i <= j
<1> DEFINE R == {ss \in Nat \X Nat : ss[1] < ss[2]}
<1>1. IsWellFoundedOn(R, Nat)
  BY NatLessThanWellFounded DEF OpToRel
<1> HIDE DEF R
<1>2. PICK i \in S : \A j \in S : ~ (<<j, i>> \in R)
  BY <1>1, WFMin
<1>3. ASSUME NEW j \in S PROVE i <= j
  <2>1. i \in Nat /\ j \in Nat
    OBVIOUS
  <2>2. ~ (<<j, i>> \in R)
    BY <1>2
  <2>3. ~ (j < i)
    BY <2>1, <2>2 DEF R
  <2> QED BY <2>1, <2>3
<1> QED BY <1>3

-----------------------------------------------------------------------------
(* Members. *)

LEMMA Members ==
    ASSUME NEW S, NEW w \in Seq(S)
    PROVE  /\ ToSet(w) \subseteq S
           /\ \A x : x \in ToSet(w) <=> \E i \in 1 .. Len(w) : w[i] = x
           /\ IsInjective(w) <=>
                 \A i, j \in 1 .. Len(w) : w[i] = w[j] => i = j
BY DEF ToSet, IsInjective

LEMMA EmptyMembers == ToSet(<<>>) = {} /\ IsInjective(<<>>)
<1>1. DOMAIN <<>> = {}
  OBVIOUS
<1> QED BY <1>1 DEF ToSet, IsInjective

LEMMA AppendMembers ==
    ASSUME NEW S, NEW w \in Seq(S), NEW c \in S
    PROVE  /\ Append(w, c) \in Seq(S)
           /\ Len(Append(w, c)) = Len(w) + 1
           /\ ToSet(Append(w, c)) = ToSet(w) \cup {c}
           /\ IsInjective(w) /\ c \notin ToSet(w) => IsInjective(Append(w, c))
<1> DEFINE u == Append(w, c)
<1>1. /\ u \in Seq(S) /\ Len(u) = Len(w) + 1
      /\ \A i \in 1 .. Len(w) : u[i] = w[i]
      /\ u[Len(w) + 1] = c
  BY AppendProperties
<1>2. Len(w) \in Nat
  OBVIOUS
<1> HIDE DEF u
<1>3. ASSUME NEW x
      PROVE  x \in ToSet(u) <=> x \in ToSet(w) \cup {c}
  <2>1. x \in ToSet(u) <=> \E i \in 1 .. Len(u) : u[i] = x
    BY <1>1, Members
  <2>2. x \in ToSet(w) <=> \E i \in 1 .. Len(w) : w[i] = x
    BY Members
  <2> QED BY <1>1, <1>2, <2>1, <2>2
<1>4. ASSUME IsInjective(w), c \notin ToSet(w)
      PROVE  IsInjective(u)
  <2>1. \A i, j \in 1 .. Len(w) : w[i] = w[j] => i = j
    BY <1>4, Members
  <2>2. \A i \in 1 .. Len(w) : w[i] # c
    BY <1>4, Members
  <2>3. \A i, j \in 1 .. Len(u) : u[i] = u[j] => i = j
    BY <1>1, <1>2, <2>1, <2>2
  <2> QED BY <1>1, <2>3, Members
<1> QED BY <1>1, <1>3, <1>4 DEF u

LEMMA TailMembers ==
    ASSUME NEW S, NEW w \in Seq(S), w # <<>>
    PROVE  /\ Head(w) \in S /\ Tail(w) \in Seq(S)
           /\ Len(w) \in Nat \ {0} /\ Len(Tail(w)) = Len(w) - 1
           /\ Head(w) \in ToSet(w)
           /\ ToSet(w) = ToSet(Tail(w)) \cup {Head(w)}
           /\ IsInjective(w) => /\ IsInjective(Tail(w))
                               /\ ToSet(Tail(w)) = ToSet(w) \ {Head(w)}
<1> DEFINE t == Tail(w)
           h == Head(w)
<1>1. /\ t \in Seq(S) /\ Len(t) = Len(w) - 1 /\ h \in S /\ h = w[1]
      /\ \A i \in 1 .. Len(t) : t[i] = w[i + 1]
  BY HeadTailProperties
<1>2. Len(w) \in Nat \ {0}
  BY EmptySeq
<1> HIDE DEF t, h
<1>3. \A i \in 1 .. Len(t) : i + 1 \in 1 .. Len(w) /\ i + 1 # 1
  BY <1>1, <1>2
<1>4. \A i \in 1 .. Len(w) : i # 1 => i - 1 \in 1 .. Len(t) /\ (i - 1) + 1 = i
  BY <1>1, <1>2
<1>5. h \in ToSet(w)
  BY <1>1, <1>2, Members
<1>6. ASSUME NEW x
      PROVE  x \in ToSet(w) <=> x \in ToSet(t) \cup {h}
  <2>1. x \in ToSet(t) <=> \E i \in 1 .. Len(t) : t[i] = x
    BY <1>1, Members
  <2>2. x \in ToSet(w) <=> \E i \in 1 .. Len(w) : w[i] = x
    BY Members
  <2>3. ASSUME NEW i \in 1 .. Len(w), w[i] = x, x # h
        PROVE  x \in ToSet(t)
    <3>1. i - 1 \in 1 .. Len(t) /\ (i - 1) + 1 = i
      BY <1>1, <1>4, <2>3
    <3>2. t[i - 1] = x
      BY <1>1, <2>3, <3>1
    <3> QED BY <2>1, <3>1, <3>2
  <2>4. ASSUME NEW i \in 1 .. Len(t), t[i] = x
        PROVE  x \in ToSet(w)
    BY <1>1, <1>3, <2>2, <2>4
  <2> QED BY <1>5, <2>1, <2>2, <2>3, <2>4
<1>7. ASSUME IsInjective(w)
      PROVE  IsInjective(t) /\ h \notin ToSet(t)
  <2>1. \A i, j \in 1 .. Len(w) : w[i] = w[j] => i = j
    BY <1>7, Members
  <2>2. \A i, j \in 1 .. Len(t) : t[i] = t[j] => i = j
    <3> SUFFICES ASSUME NEW i \in 1 .. Len(t), NEW j \in 1 .. Len(t), t[i] = t[j]
                 PROVE  i = j
      OBVIOUS
    <3>1. w[i + 1] = w[j + 1]
      BY <1>1
    <3>2. i + 1 = j + 1
      BY <1>3, <2>1, <3>1
    <3> QED BY <3>2
  <2>3. \A i \in 1 .. Len(t) : t[i] # h
    BY <1>1, <1>2, <1>3, <2>1
  <2> QED BY <1>1, <2>2, <2>3, Members
<1>8. ToSet(w) = ToSet(t) \cup {h}
  BY <1>6
<1> QED BY <1>1, <1>2, <1>5, <1>7, <1>8 DEF t, h

-----------------------------------------------------------------------------
(* Lists of which elements are deleted. *)

\* The elements of u are those of the first n of q that are not in R, in order.
IsRest(u, q, n, R) ==
    \E h \in [1 .. Len(u) -> 1 .. n] :
       /\ \A i, j \in 1 .. Len(u) : i < j => h[i] < h[j]
       /\ \A i \in 1 .. Len(u) : u[i] = q[h[i]] /\ q[h[i]] \notin R
       /\ \A j \in 1 .. n : q[j] \notin R => \E i \in 1 .. Len(u) : h[i] = j

RestStep(q, R, x, n) == IF q[n] \in R THEN x ELSE Append(x, q[n])

\* The definition of Rests is one: there is such a function.
LEMMA RestsStep ==
    ASSUME NEW S, NEW q \in Seq(S), NEW R, NEW f, f = Rests(q, R)
    PROVE  /\ f[0] = <<>>
           /\ \A n \in 1 .. Len(q) : f[n] = RestStep(q, R, f[n - 1], n)
<1> DEFINE F(g, n) == [i \in 0 .. n |-> IF i = 0 THEN <<>> ELSE RestStep(q, R, g[i - 1], i)]
           N == Len(q)
           Bad == {n \in Nat : ~ \E g : g = F(g, n)}
<1>1. N \in Nat
  OBVIOUS
<1>2. Bad = {}
  <2> SUFFICES ASSUME Bad # {} PROVE FALSE
    OBVIOUS
  <2>1. PICK n \in Bad : \A j \in Bad : n <= j
    <3>1. Bad \subseteq Nat
      OBVIOUS
    <3> HIDE DEF Bad
    <3> QED BY <3>1, SmallestIndex
  <2>2. n \in Nat /\ ~ \E g : g = F(g, n)
    BY <2>1
  <2>3. n # 0
    <3> SUFFICES ASSUME n = 0 PROVE FALSE
      OBVIOUS
    <3> DEFINE g == [i \in 0 .. 0 |-> <<>>]
    <3>1. g = F(g, 0)
      OBVIOUS
    <3> HIDE DEF g
    <3> QED BY <2>2, <3>1
  <2>4. n - 1 \in Nat /\ n - 1 \notin Bad
    BY <2>1, <2>2, <2>3
  <2>5. PICK g : g = F(g, n - 1)
    BY <2>4
  <2> DEFINE k == [i \in 0 .. n |-> IF i = 0 THEN <<>> ELSE RestStep(q, R, g[i - 1], i)]
  <2>6. \A i \in 0 .. n - 1 : k[i] = g[i]
    <3>1. \A i \in 0 .. n - 1 : i \in 0 .. n
      BY <2>2
    <3>2. \A i \in 0 .. n - 1 : g[i] = IF i = 0 THEN <<>> ELSE RestStep(q, R, g[i - 1], i)
      BY <2>5
    <3> QED BY <3>1, <3>2
  <2>7. k = F(k, n)
    <3>1. \A i \in 0 .. n : i # 0 => i - 1 \in 0 .. n - 1
      BY <2>2
    <3>2. \A i \in 0 .. n : (IF i = 0 THEN <<>> ELSE RestStep(q, R, g[i - 1], i))
                              = (IF i = 0 THEN <<>> ELSE RestStep(q, R, k[i - 1], i))
      BY <2>6, <3>1
    <3> QED BY <3>2
  <2> HIDE DEF k
  <2> QED BY <2>2, <2>7
<1>3. \E g : g = F(g, N)
  BY <1>1, <1>2
<1>4. f = CHOOSE g : g = F(g, N)
  <2>1. f = CHOOSE g : g = [n \in 0 .. Len(q) |->
                              IF n = 0 THEN <<>>
                              ELSE IF q[n] \in R THEN g[n - 1]
                                   ELSE Append(g[n - 1], q[n])]
    BY DEF Rests
  <2> QED BY <2>1 DEF RestStep
<1>5. f = F(f, N)
  <2> HIDE DEF F, N
  <2> QED BY <1>3, <1>4
<1>6. \A n \in 1 .. N : n \in 0 .. N /\ n # 0
  BY <1>1
<1>7. \A i \in 0 .. N : f[i] = IF i = 0 THEN <<>> ELSE RestStep(q, R, f[i - 1], i)
  BY <1>5
<1>8. 0 \in 0 .. N
  BY <1>1
<1>9. f[0] = <<>>
  BY <1>7, <1>8
<1>10. \A i \in 1 .. N : f[i] = RestStep(q, R, f[i - 1], i)
  BY <1>6, <1>7
<1> QED BY <1>9, <1>10
\* One element more: it is appended, or skipped.
LEMMA RestGrows ==
    ASSUME NEW S, NEW q \in Seq(S), NEW R, NEW n \in 1 .. Len(q),
           NEW u \in Seq(S), IsRest(u, q, n - 1, R)
    PROVE  /\ RestStep(q, R, u, n) \in Seq(S)
           /\ IsRest(RestStep(q, R, u, n), q, n, R)
<1>1. PICK h \in [1 .. Len(u) -> 1 .. n - 1] :
          /\ \A i, j \in 1 .. Len(u) : i < j => h[i] < h[j]
          /\ \A i \in 1 .. Len(u) : u[i] = q[h[i]] /\ q[h[i]] \notin R
          /\ \A j \in 1 .. n - 1 : q[j] \notin R => \E i \in 1 .. Len(u) : h[i] = j
  BY DEF IsRest
<1>2. n \in Nat \ {0} /\ Len(u) \in Nat /\ q[n] \in S /\ Len(q) \in Nat
  <2>1. Len(u) \in Nat /\ Len(q) \in Nat
    OBVIOUS
  <2>2. q[n] \in S
    OBVIOUS
  <2>3. n \in Nat \ {0}
    BY <2>1
  <2> QED BY <2>1, <2>2, <2>3
<1>3. \A j \in 1 .. n : j # n => j \in 1 .. n - 1
  BY <1>2
<1>4. \A i \in 1 .. Len(u) : h[i] \in 1 .. n - 1 /\ h[i] \in 1 .. n /\ h[i] < n
  <2>1. \A i \in 1 .. Len(u) : h[i] \in 1 .. n - 1
    OBVIOUS
  <2>2. \A k \in 1 .. n - 1 : k \in 1 .. n /\ k < n
    BY <1>2
  <2> QED BY <2>1, <2>2
<1>5. CASE q[n] \in R
  <2>1. h \in [1 .. Len(u) -> 1 .. n]
    BY <1>1, <1>2
  <2>2. \A j \in 1 .. n : q[j] \notin R => \E i \in 1 .. Len(u) : h[i] = j
    BY <1>1, <1>3, <1>5
  <2>3. IsRest(u, q, n, R)
    BY <1>1, <2>1, <2>2 DEF IsRest
  <2>4. RestStep(q, R, u, n) = u
    BY <1>5 DEF RestStep
  <2> QED BY <2>3, <2>4
<1>6. CASE q[n] \notin R
  <2>1. PICK v \in Seq(S) : v = Append(u, q[n])
    <3>1. Append(u, q[n]) \in Seq(S)
      BY <1>2, AppendProperties
    <3> QED BY <3>1
  <2>2. /\ Len(v) = Len(u) + 1
        /\ \A i \in 1 .. Len(u) : v[i] = u[i]
        /\ v[Len(u) + 1] = q[n]
    BY <1>2, <2>1, AppendProperties
  <2>3. PICK k : k = [i \in 1 .. Len(u) + 1 |-> IF i = Len(u) + 1 THEN n ELSE h[i]]
    OBVIOUS
  <2>4. \A i \in 1 .. Len(u) + 1 : i # Len(u) + 1 => i \in 1 .. Len(u)
    <3>1. PICK l \in Nat : l = Len(u)
      OBVIOUS
    <3>2. \A i \in 1 .. l + 1 : i # l + 1 => i \in 1 .. l
      OBVIOUS
    <3> QED BY <3>1, <3>2
  <2>5. /\ k[Len(u) + 1] = n
        /\ \A i \in 1 .. Len(u) : k[i] = h[i]
    BY <1>2, <2>3
  <2>6. k \in [1 .. Len(v) -> 1 .. n]
    BY <1>2, <1>4, <2>2, <2>3, <2>4
  <2>7. \A i, j \in 1 .. Len(v) : i < j => k[i] < k[j]
    <3> SUFFICES ASSUME NEW i \in 1 .. Len(v), NEW j \in 1 .. Len(v), i < j
                 PROVE  k[i] < k[j]
      OBVIOUS
    <3>1. i \in 1 .. Len(u)
      BY <1>2, <2>2
    <3>2. CASE j = Len(u) + 1
      BY <1>4, <2>5, <3>1, <3>2
    <3>3. CASE j # Len(u) + 1
      <4>1. j \in 1 .. Len(u)
        BY <2>2, <2>4, <3>3
      <4> QED BY <1>1, <2>5, <3>1, <4>1
    <3> QED BY <3>2, <3>3
  <2>8. \A i \in 1 .. Len(v) : v[i] = q[k[i]] /\ q[k[i]] \notin R
    <3> SUFFICES ASSUME NEW i \in 1 .. Len(v)
                 PROVE  v[i] = q[k[i]] /\ q[k[i]] \notin R
      OBVIOUS
    <3>1. CASE i = Len(u) + 1
      BY <1>6, <2>2, <2>5, <3>1
    <3>2. CASE i # Len(u) + 1
      <4>1. i \in 1 .. Len(u)
        BY <2>2, <2>4, <3>2
      <4> QED BY <1>1, <2>2, <2>5, <4>1
    <3> QED BY <3>1, <3>2
  <2>9. \A j \in 1 .. n : q[j] \notin R => \E i \in 1 .. Len(v) : k[i] = j
    <3> SUFFICES ASSUME NEW j \in 1 .. n, q[j] \notin R
                 PROVE  \E i \in 1 .. Len(v) : k[i] = j
      OBVIOUS
    <3>1. CASE j = n
      BY <1>2, <2>2, <2>5, <3>1
    <3>2. CASE j # n
      <4>1. PICK i \in 1 .. Len(u) : h[i] = j
        BY <1>1, <1>3, <3>2
      <4>2. i \in 1 .. Len(v)
        BY <1>2, <2>2
      <4> QED BY <2>5, <4>1, <4>2
    <3> QED BY <3>1, <3>2
  <2>10. IsRest(v, q, n, R)
    BY <2>6, <2>7, <2>8, <2>9 DEF IsRest
  <2>11. RestStep(q, R, u, n) = v
    BY <1>6, <2>1 DEF RestStep
  <2> QED BY <2>10, <2>11
<1> QED BY <1>5, <1>6

LEMMA WithoutList ==
    ASSUME NEW S, NEW q \in Seq(S), NEW R
    PROVE  /\ Without(q, R) \in Seq(S)
           /\ IsRest(Without(q, R), q, Len(q), R)
<1>1. PICK f : f = Rests(q, R)
  OBVIOUS
<1>2. /\ f[0] = <<>>
      /\ \A n \in 1 .. Len(q) : f[n] = RestStep(q, R, f[n - 1], n)
  BY <1>1, RestsStep
<1>3. PICK N \in Nat : N = Len(q)
  OBVIOUS
<1> DEFINE Bad == {n \in 0 .. N : ~ (f[n] \in Seq(S) /\ IsRest(f[n], q, n, R))}
<1>4. Bad = {}
  <2> SUFFICES ASSUME Bad # {} PROVE FALSE
    OBVIOUS
  <2>1. PICK n \in Bad : \A j \in Bad : n <= j
    <3>1. Bad \subseteq Nat
      BY <1>3
    <3> HIDE DEF Bad
    <3> QED BY <3>1, SmallestIndex
  <2>2. n \in 0 .. N /\ ~ (f[n] \in Seq(S) /\ IsRest(f[n], q, n, R))
    BY <2>1
  <2>3. n # 0
    <3> SUFFICES ASSUME n = 0 PROVE FALSE
      OBVIOUS
    <3>1. <<>> \in Seq(S) /\ Len(<<>>) = 0 /\ 1 .. 0 = {}
      OBVIOUS
    <3>2. IsRest(<<>>, q, 0, R)
      <4>1. PICK h : h = [i \in 1 .. 0 |-> 0]
        OBVIOUS
      <4>2. h \in [1 .. Len(<<>>) -> 1 .. 0]
        BY <4>1, <3>1
      <4> QED BY <4>2, <3>1 DEF IsRest
    <3> QED BY <2>2, <1>2, <3>1, <3>2
  <2>4. n \in 1 .. N /\ n - 1 \in 0 .. N /\ n - 1 \notin Bad
    BY <2>1, <2>2, <2>3, <1>3
  <2>5. f[n - 1] \in Seq(S) /\ IsRest(f[n - 1], q, n - 1, R)
    BY <2>4
  <2>6. f[n] = RestStep(q, R, f[n - 1], n)
    BY <1>2, <1>3, <2>4
  <2>7. PICK m \in 0 .. N, u \in Seq(S) : m = n - 1 /\ u = f[n - 1]
    BY <2>4, <2>5
  <2>8. f[n] \in Seq(S) /\ IsRest(f[n], q, n, R)
    BY <1>3, <2>4, <2>5, <2>6, <2>7, RestGrows
  <2> QED BY <2>2, <2>8
<1>5. f[N] \in Seq(S) /\ IsRest(f[N], q, N, R)
  BY <1>3, <1>4
<1>6. Without(q, R) = f[N]
  BY <1>1, <1>3 DEF Without
<1> QED BY <1>3, <1>5, <1>6

\* Some x stands before some y in q.
Precedes(q, x, y) == \E i, j \in 1 .. Len(q) : i < j /\ q[i] = x /\ q[j] = y

\* What list_del leaves: the other elements, in their order, none of them twice
\* if none was.
LEMMA WithoutMembers ==
    ASSUME NEW S, NEW q \in Seq(S), NEW R, NEW u, u = Without(q, R)
    PROVE  /\ u \in Seq(S)
           /\ ToSet(u) = ToSet(q) \ R
           /\ IsInjective(q) => IsInjective(u)
           /\ \A x, y : Precedes(u, x, y) =>
                 Precedes(q, x, y) /\ x \notin R /\ y \notin R
           /\ \A x, y : Precedes(q, x, y) /\ x \notin R /\ y \notin R =>
                 Precedes(u, x, y)
<1>1. u \in Seq(S) /\ IsRest(u, q, Len(q), R)
  BY WithoutList
<1>2. Len(u) \in Nat /\ Len(q) \in Nat
  BY <1>1
<1>3. PICK h \in [1 .. Len(u) -> 1 .. Len(q)] :
          /\ \A i, j \in 1 .. Len(u) : i < j => h[i] < h[j]
          /\ \A i \in 1 .. Len(u) : u[i] = q[h[i]] /\ q[h[i]] \notin R
          /\ \A j \in 1 .. Len(q) : q[j] \notin R => \E i \in 1 .. Len(u) : h[i] = j
  BY <1>1 DEF IsRest
<1>4. \A i \in 1 .. Len(u) : h[i] \in 1 .. Len(q)
  BY <1>3
<1>5. ToSet(u) = ToSet(q) \ R
  <2>1. ASSUME NEW x PROVE x \in ToSet(u) <=> x \in ToSet(q) \ R
    <3>1. x \in ToSet(u) <=> \E i \in 1 .. Len(u) : u[i] = x
      BY <1>1, Members
    <3>2. x \in ToSet(q) <=> \E i \in 1 .. Len(q) : q[i] = x
      BY Members
    <3>3. ASSUME NEW i \in 1 .. Len(u), u[i] = x
          PROVE  x \in ToSet(q) /\ x \notin R
      BY <3>2, <3>3, <1>3, <1>4
    <3>4. ASSUME NEW j \in 1 .. Len(q), q[j] = x, x \notin R
          PROVE  x \in ToSet(u)
      <4>1. PICK i \in 1 .. Len(u) : h[i] = j
        BY <1>3, <3>4
      <4> QED BY <1>3, <3>1, <3>4, <4>1
    <3> QED BY <3>1, <3>2, <3>3, <3>4
  <2> QED BY <2>1
<1>6. ASSUME IsInjective(q) PROVE IsInjective(u)
  <2>1. \A i, j \in 1 .. Len(q) : q[i] = q[j] => i = j
    BY <1>6, Members
  <2>2. \A i, j \in 1 .. Len(u) : u[i] = u[j] => i = j
    <3> SUFFICES ASSUME NEW i \in 1 .. Len(u), NEW j \in 1 .. Len(u), u[i] = u[j]
                 PROVE  i = j
      OBVIOUS
    <3>1. h[i] = h[j] /\ h[i] \in Nat
      BY <1>3, <1>4, <2>1
    <3>2. ~ (h[i] < h[j]) /\ ~ (h[j] < h[i])
      BY <3>1
    <3>3. ~ (i < j) /\ ~ (j < i)
      BY <1>3, <3>2
    <3> QED BY <3>3, <1>2
  <2> QED BY <1>1, <2>2, Members
<1>7. ASSUME NEW x, NEW y, Precedes(u, x, y)
      PROVE  Precedes(q, x, y) /\ x \notin R /\ y \notin R
  <2>1. PICK i \in 1 .. Len(u), j \in 1 .. Len(u) : i < j /\ u[i] = x /\ u[j] = y
    BY <1>7 DEF Precedes
  <2>2. /\ h[i] < h[j] /\ q[h[i]] = x /\ q[h[j]] = y
        /\ x \notin R /\ y \notin R
        /\ h[i] \in 1 .. Len(q) /\ h[j] \in 1 .. Len(q)
    BY <1>3, <1>4, <2>1
  <2> QED BY <2>2 DEF Precedes
<1>8. ASSUME NEW x, NEW y, Precedes(q, x, y), x \notin R, y \notin R
      PROVE  Precedes(u, x, y)
  <2>1. PICK a \in 1 .. Len(q), b \in 1 .. Len(q) : a < b /\ q[a] = x /\ q[b] = y
    BY <1>8 DEF Precedes
  <2>2. PICK i \in 1 .. Len(u), j \in 1 .. Len(u) : h[i] = a /\ h[j] = b
    <3>1. q[a] \notin R /\ q[b] \notin R
      BY <1>8, <2>1
    <3>2. \E i \in 1 .. Len(u) : h[i] = a
      BY <1>3, <3>1
    <3>3. \E i \in 1 .. Len(u) : h[i] = b
      BY <1>3, <3>1
    <3> QED BY <3>2, <3>3
  <2>3. u[i] = x /\ u[j] = y
    BY <1>3, <2>1, <2>2
  <2>4. i < j
    <3>1. i # j
      BY <2>1, <2>2
    <3>2. ~ (j < i)
      <4> SUFFICES ASSUME j < i PROVE FALSE
        OBVIOUS
      <4>1. b < a
        BY <1>3, <2>2
      <4> QED BY <2>1, <4>1, <1>2
    <3> QED BY <3>1, <3>2, <1>2
  <2> QED BY <2>3, <2>4 DEF Precedes
<1> QED BY <1>1, <1>5, <1>6, <1>7, <1>8

-----------------------------------------------------------------------------
(* Elements added at either end. *)

\* u is <<c>> \o w.
LEMMA InFrontMembers ==
    ASSUME NEW S, NEW w \in Seq(S), NEW c \in S, NEW u \in Seq(S),
           Len(u) = Len(w) + 1, u[1] = c, \A i \in 1 .. Len(w) : u[i + 1] = w[i]
    PROVE  /\ ToSet(u) = ToSet(w) \cup {c}
           /\ IsInjective(w) /\ c \notin ToSet(w) => IsInjective(u)
           /\ \A x, y : Precedes(u, x, y) <=>
                 Precedes(w, x, y) \/ (x = c /\ y \in ToSet(w))
<1>1. /\ u \in Seq(S) /\ Len(u) = Len(w) + 1
      /\ u[1] = c /\ \A i \in 1 .. Len(w) : u[i + 1] = w[i]
  OBVIOUS
<1>2. Len(w) \in Nat
  OBVIOUS
<1>3. \A i \in 1 .. Len(u) : i # 1 =>
         i - 1 \in 1 .. Len(w) /\ u[i] = w[i - 1]
  <2> SUFFICES ASSUME NEW i \in 1 .. Len(u), i # 1
               PROVE  i - 1 \in 1 .. Len(w) /\ u[i] = w[i - 1]
    OBVIOUS
  <2>1. i - 1 \in 1 .. Len(w) /\ (i - 1) + 1 = i
    BY <1>1, <1>2
  <2> QED BY <1>1, <2>1
<1>4. \A i \in 1 .. Len(w) : i + 1 \in 1 .. Len(u) /\ i + 1 # 1
  BY <1>1, <1>2
<1>5. 1 \in 1 .. Len(u)
  BY <1>1, <1>2
<1>6. \A x : x \in ToSet(w) <=> \E i \in 1 .. Len(w) : w[i] = x
  BY Members
<1>7. \A x : x \in ToSet(u) <=> \E i \in 1 .. Len(u) : u[i] = x
  BY <1>1, Members
<1>8. ToSet(u) = ToSet(w) \cup {c}
  <2>1. ASSUME NEW x \in ToSet(u) PROVE x \in ToSet(w) \cup {c}
    BY <1>1, <1>3, <1>6, <1>7, <2>1
  <2>2. ASSUME NEW x \in ToSet(w) PROVE x \in ToSet(u)
    BY <1>1, <1>4, <1>6, <1>7, <2>2
  <2>3. c \in ToSet(u)
    BY <1>1, <1>5, <1>7
  <2> QED BY <2>1, <2>2, <2>3
<1>9. ASSUME IsInjective(w), c \notin ToSet(w) PROVE IsInjective(u)
  <2>1. \A i, j \in 1 .. Len(w) : w[i] = w[j] => i = j
    BY <1>9, Members
  <2>2. \A i, j \in 1 .. Len(u) : u[i] = u[j] => i = j
    <3> SUFFICES ASSUME NEW i \in 1 .. Len(u), NEW j \in 1 .. Len(u), u[i] = u[j]
                 PROVE  i = j
      OBVIOUS
    <3>1. CASE i = 1 \/ j = 1
      BY <1>1, <1>3, <1>6, <1>9, <3>1
    <3>2. CASE i # 1 /\ j # 1
      <4>1. i - 1 = j - 1
        BY <1>3, <2>1, <3>2
      <4> QED BY <4>1
    <3> QED BY <3>1, <3>2
  <2> QED BY <1>1, <2>2, Members
<1>10. ASSUME NEW x, NEW y, Precedes(u, x, y)
       PROVE  Precedes(w, x, y) \/ (x = c /\ y \in ToSet(w))
  <2>1. PICK i \in 1 .. Len(u), j \in 1 .. Len(u) : i < j /\ u[i] = x /\ u[j] = y
    BY <1>10 DEF Precedes
  <2>2. j - 1 \in 1 .. Len(w) /\ w[j - 1] = y
    BY <1>3, <2>1
  <2>3. CASE i = 1
    BY <1>1, <1>6, <2>1, <2>2, <2>3
  <2>4. CASE i # 1
    <3>1. i - 1 \in 1 .. Len(w) /\ w[i - 1] = x /\ i - 1 < j - 1
      BY <1>3, <2>1, <2>4
    <3> QED BY <2>2, <3>1 DEF Precedes
  <2> QED BY <2>3, <2>4
<1>11. ASSUME NEW x, NEW y, Precedes(w, x, y)
       PROVE  Precedes(u, x, y)
  <2>1. PICK i \in 1 .. Len(w), j \in 1 .. Len(w) : i < j /\ w[i] = x /\ w[j] = y
    BY <1>11 DEF Precedes
  <2>2. /\ u[i + 1] = x /\ u[j + 1] = y /\ i + 1 < j + 1
        /\ i + 1 \in 1 .. Len(u) /\ j + 1 \in 1 .. Len(u)
    BY <1>1, <1>4, <2>1
  <2> QED BY <2>2 DEF Precedes
<1>12. ASSUME NEW y \in ToSet(w) PROVE Precedes(u, c, y)
  <2>1. PICK j \in 1 .. Len(w) : w[j] = y
    BY <1>6
  <2>2. u[j + 1] = y /\ 1 < j + 1 /\ j + 1 \in 1 .. Len(u)
    BY <1>1, <1>4, <2>1
  <2> QED BY <1>1, <1>5, <2>2 DEF Precedes
<1> QED BY <1>8, <1>9, <1>10, <1>11, <1>12

\* u is w with c at its head.
Prepended(w, c, u) == u = <<c>> \o w

LEMMA PrependedMembers ==
    ASSUME NEW S, NEW w \in Seq(S), NEW c \in S, NEW u, Prepended(w, c, u)
    PROVE  /\ u \in Seq(S) /\ Len(u) = Len(w) + 1
           /\ ToSet(u) = ToSet(w) \cup {c}
           /\ IsInjective(w) /\ c \notin ToSet(w) => IsInjective(u)
           /\ \A x, y : Precedes(u, x, y) <=>
                 Precedes(w, x, y) \/ (x = c /\ y \in ToSet(w))
<1>1. /\ u \in Seq(S) /\ Len(u) = Len(w) + 1
      /\ u[1] = c /\ \A i \in 1 .. Len(w) : u[i + 1] = w[i]
  BY PrependList DEF Prepended
<1> QED BY <1>1, InFrontMembers

LEMMA AppendOrder ==
    ASSUME NEW S, NEW w \in Seq(S), NEW c \in S, NEW u, u = Append(w, c)
    PROVE  \A x, y : Precedes(u, x, y) <=>
              Precedes(w, x, y) \/ (y = c /\ x \in ToSet(w))
<1>1. /\ u \in Seq(S) /\ Len(u) = Len(w) + 1
      /\ \A i \in 1 .. Len(w) : u[i] = w[i]
      /\ u[Len(w) + 1] = c
  BY AppendProperties
<1>2. Len(w) \in Nat
  OBVIOUS
<1>3. \A i \in 1 .. Len(u) : i # Len(w) + 1 => i \in 1 .. Len(w)
  BY <1>1, <1>2
<1>4. \A i \in 1 .. Len(w) : i \in 1 .. Len(u) /\ i < Len(w) + 1
  BY <1>1, <1>2
<1>5. Len(w) + 1 \in 1 .. Len(u)
  BY <1>1, <1>2
<1>6. \A x : x \in ToSet(w) <=> \E i \in 1 .. Len(w) : w[i] = x
  BY Members
<1>7. ASSUME NEW x, NEW y, Precedes(u, x, y)
      PROVE  Precedes(w, x, y) \/ (y = c /\ x \in ToSet(w))
  <2>1. PICK i \in 1 .. Len(u), j \in 1 .. Len(u) : i < j /\ u[i] = x /\ u[j] = y
    BY <1>7 DEF Precedes
  <2>2. i \in 1 .. Len(w) /\ w[i] = x
    BY <1>1, <1>2, <1>3, <2>1
  <2>3. CASE j = Len(w) + 1
    BY <1>1, <1>6, <2>1, <2>2, <2>3
  <2>4. CASE j # Len(w) + 1
    <3>1. j \in 1 .. Len(w) /\ w[j] = y
      BY <1>1, <1>3, <2>1, <2>4
    <3> QED BY <2>1, <2>2, <3>1 DEF Precedes
  <2> QED BY <2>3, <2>4
<1>8. ASSUME NEW x, NEW y, Precedes(w, x, y)
      PROVE  Precedes(u, x, y)
  BY <1>1, <1>4, <1>8 DEF Precedes
<1>9. ASSUME NEW x \in ToSet(w) PROVE Precedes(u, x, c)
  <2>1. PICK i \in 1 .. Len(w) : w[i] = x
    BY <1>6
  <2> QED BY <1>1, <1>4, <1>5, <2>1 DEF Precedes
<1> QED BY <1>7, <1>8, <1>9

\* u is w with c at its tail.
Appended(w, c, u) == u = Append(w, c)

LEMMA AppendedMembers ==
    ASSUME NEW S, NEW w \in Seq(S), NEW c \in S, NEW u, Appended(w, c, u)
    PROVE  /\ u \in Seq(S) /\ Len(u) = Len(w) + 1
           /\ \A i \in 1 .. Len(w) : u[i] = w[i]
           /\ u[Len(w) + 1] = c
           /\ ToSet(u) = ToSet(w) \cup {c}
           /\ IsInjective(w) /\ c \notin ToSet(w) => IsInjective(u)
           /\ \A x, y : Precedes(u, x, y) <=>
                 Precedes(w, x, y) \/ (y = c /\ x \in ToSet(w))
<1>1. u = Append(w, c)
  BY DEF Appended
<1>2. /\ u \in Seq(S) /\ Len(u) = Len(w) + 1
      /\ \A i \in 1 .. Len(w) : u[i] = w[i]
      /\ u[Len(w) + 1] = c
  BY <1>1, AppendProperties
<1>3. /\ ToSet(u) = ToSet(w) \cup {c}
      /\ IsInjective(w) /\ c \notin ToSet(w) => IsInjective(u)
  BY <1>1, AppendMembers
<1>4. \A x, y : Precedes(u, x, y) <=>
         Precedes(w, x, y) \/ (y = c /\ x \in ToSet(w))
  BY <1>1, AppendOrder
<1> QED BY <1>2, <1>3, <1>4

LEMMA PrecedesMembers ==
    ASSUME NEW S, NEW w \in Seq(S)
    PROVE  \A x, y : Precedes(w, x, y) => x \in ToSet(w) /\ y \in ToSet(w)
<1>1. \A x : x \in ToSet(w) <=> \E i \in 1 .. Len(w) : w[i] = x
  BY Members
<1> QED BY <1>1 DEF Precedes

\* With every element in the list once, nothing stands before itself.
LEMMA NoneBeforeItself ==
    ASSUME NEW S, NEW w \in Seq(S), IsInjective(w)
    PROVE  \A x : ~ Precedes(w, x, x)
<1>1. \A i, j \in 1 .. Len(w) : w[i] = w[j] => i = j
  BY Members
<1> QED BY <1>1 DEF Precedes

LEMMA RemoveAtMembers ==
    ASSUME NEW S, NEW w \in Seq(S), NEW i \in 1 .. Len(w), NEW u, u = RemoveAt(w, i)
    PROVE  /\ u \in Seq(S) /\ ToSet(u) \subseteq ToSet(w)
           /\ IsInjective(w) => IsInjective(u) /\ w[i] \notin ToSet(u)
<1>1. /\ u \in Seq(S) /\ Len(u) = Len(w) - 1
      /\ \A j \in 1 .. Len(w) - 1 : u[j] = IF j < i THEN w[j] ELSE w[j + 1]
  BY RemoveAtList
<1>2. Len(w) \in Nat
  OBVIOUS
<1>3. \A j \in 1 .. Len(u) : j \in 1 .. Len(w) /\ j + 1 \in 1 .. Len(w)
  BY <1>1, <1>2
<1>4. \A j \in 1 .. Len(u) : \E k \in 1 .. Len(w) : u[j] = w[k] /\ k # i
  <2> SUFFICES ASSUME NEW j \in 1 .. Len(u)
               PROVE  \E k \in 1 .. Len(w) : u[j] = w[k] /\ k # i
    OBVIOUS
  <2>1. CASE j < i
    BY <1>1, <1>3, <2>1
  <2>2. CASE ~ (j < i)
    <3>1. u[j] = w[j + 1] /\ j + 1 # i /\ j + 1 \in 1 .. Len(w)
      BY <1>1, <1>2, <1>3, <2>2
    <3> QED BY <3>1
  <2> QED BY <2>1, <2>2
<1>5. ToSet(u) \subseteq ToSet(w)
  <2>1. \A x : x \in ToSet(u) <=> \E j \in 1 .. Len(u) : u[j] = x
    BY <1>1, Members
  <2>2. \A x : x \in ToSet(w) <=> \E k \in 1 .. Len(w) : w[k] = x
    BY Members
  <2> QED BY <1>4, <2>1, <2>2
<1>6. ASSUME IsInjective(w) PROVE IsInjective(u) /\ w[i] \notin ToSet(u)
  <2>1. \A j, k \in 1 .. Len(w) : w[j] = w[k] => j = k
    BY <1>6, Members
  <2>2. \A j, k \in 1 .. Len(u) : u[j] = u[k] => j = k
    <3> SUFFICES ASSUME NEW j \in 1 .. Len(u), NEW k \in 1 .. Len(u), u[j] = u[k]
                 PROVE  j = k
      OBVIOUS
    <3>1. CASE j < i /\ k < i
      BY <1>1, <1>3, <2>1, <3>1
    <3>2. CASE ~ (j < i) /\ ~ (k < i)
      <4>1. w[j + 1] = w[k + 1]
        BY <1>1, <3>2
      <4>2. j + 1 = k + 1
        BY <1>3, <2>1, <4>1
      <4> QED BY <4>2
    <3>3. CASE j < i /\ ~ (k < i)
      <4>1. w[j] = w[k + 1]
        BY <1>1, <3>3
      <4>2. j = k + 1
        BY <1>3, <2>1, <4>1
      <4> QED BY <3>3, <4>2
    <3>4. CASE ~ (j < i) /\ k < i
      <4>1. w[j + 1] = w[k]
        BY <1>1, <3>4
      <4>2. j + 1 = k
        BY <1>3, <2>1, <4>1
      <4> QED BY <3>4, <4>2
    <3> QED BY <3>1, <3>2, <3>3, <3>4
  <2>3. \A j \in 1 .. Len(u) : u[j] # w[i]
    BY <1>4, <2>1
  <2>4. IsInjective(u)
    BY <1>1, <2>2, Members
  <2>5. w[i] \notin ToSet(u)
    BY <1>1, <2>3, Members
  <2> QED BY <2>4, <2>5
<1> QED BY <1>1, <1>5, <1>6

-----------------------------------------------------------------------------
(* Lists and members. *)

\* u is a list of m elements, then the n elements of w, which g finds in u.
Finds(g, u, w, m, n) ==
    /\ g \in [1 .. n -> 1 .. Len(u)]
    /\ \A i \in 1 .. n : u[g[i]] = w[i] /\ g[i] \notin 1 .. m
    /\ \A i, j \in 1 .. n : g[i] = g[j] => i = j
    /\ \A i \in 1 .. Len(u) : i \notin 1 .. m => \E j \in 1 .. n : g[j] = i

Joined(u, v, w) ==
    /\ \A i \in 1 .. Len(v) : i \in 1 .. Len(u) /\ u[i] = v[i]
    /\ \E g : Finds(g, u, w, Len(v), Len(w))

LEMMA ConcatJoins ==
    ASSUME NEW S, NEW v \in Seq(S), NEW w \in Seq(S), NEW u, u = v \o w
    PROVE  u \in Seq(S) /\ Joined(u, v, w)
<1>1. /\ u \in Seq(S) /\ Len(u) = Len(v) + Len(w)
      /\ \A i \in 1 .. Len(v) + Len(w) :
            u[i] = IF i <= Len(v) THEN v[i] ELSE w[i - Len(v)]
  BY ConcatProperties
<1>2. PICK m \in Nat, n \in Nat : m = Len(v) /\ n = Len(w)
  OBVIOUS
<1>3. \A i \in 1 .. m : i \in 1 .. Len(u) /\ u[i] = v[i]
  BY <1>1, <1>2
<1> DEFINE g == [i \in 1 .. n |-> i + m]
<1>4. g \in [1 .. n -> 1 .. Len(u)]
  BY <1>1, <1>2
<1>5. \A i \in 1 .. n : u[g[i]] = w[i] /\ g[i] \notin 1 .. m
  <2> SUFFICES ASSUME NEW i \in 1 .. n
               PROVE  u[g[i]] = w[i] /\ g[i] \notin 1 .. m
    OBVIOUS
  <2>1. /\ i + m \in 1 .. m + n /\ ~ (i + m <= m) /\ (i + m) - m = i
        /\ g[i] = i + m
    BY <1>2
  <2> QED BY <2>1, <1>1, <1>2
<1>6. \A i, j \in 1 .. n : g[i] = g[j] => i = j
  BY <1>2
<1>7. \A i \in 1 .. Len(u) : i \notin 1 .. m => \E j \in 1 .. n : g[j] = i
  <2> SUFFICES ASSUME NEW i \in 1 .. Len(u), i \notin 1 .. m
               PROVE  \E j \in 1 .. n : g[j] = i
    OBVIOUS
  <2>1. i - m \in 1 .. n /\ (i - m) + m = i
    BY <1>1, <1>2
  <2>2. g[i - m] = i
    BY <2>1
  <2> QED BY <2>1, <2>2
<1> HIDE DEF g
<1>8. Finds(g, u, w, m, n)
  BY <1>4, <1>5, <1>6, <1>7 DEF Finds
<1>9. \E f : Finds(f, u, w, Len(v), Len(w))
  BY <1>2, <1>8
<1>10. \A i \in 1 .. Len(v) : i \in 1 .. Len(u) /\ u[i] = v[i]
  BY <1>2, <1>3
<1> QED BY <1>1, <1>9, <1>10 DEF Joined

LEMMA JoinMembers ==
    ASSUME NEW S, NEW v \in Seq(S), NEW w \in Seq(S), NEW u \in Seq(S),
           Joined(u, v, w)
    PROVE  /\ ToSet(u) = ToSet(v) \cup ToSet(w)
           /\ IsInjective(u) <=> /\ IsInjective(v) /\ IsInjective(w)
                                 /\ ToSet(v) \cap ToSet(w) = {}
<1>1. \A i \in 1 .. Len(v) : i \in 1 .. Len(u) /\ u[i] = v[i]
  BY DEF Joined
<1>2. PICK g :
          /\ g \in [1 .. Len(w) -> 1 .. Len(u)]
          /\ \A i \in 1 .. Len(w) : u[g[i]] = w[i] /\ g[i] \notin 1 .. Len(v)
          /\ \A i, j \in 1 .. Len(w) : g[i] = g[j] => i = j
          /\ \A i \in 1 .. Len(u) : i \notin 1 .. Len(v) =>
                \E j \in 1 .. Len(w) : g[j] = i
  BY DEF Joined, Finds
<1>3. \A i \in 1 .. Len(w) : g[i] \in 1 .. Len(u)
  BY <1>2
<1>4. /\ \A x : x \in ToSet(u) <=> \E i \in 1 .. Len(u) : u[i] = x
      /\ IsInjective(u) <=> \A i, j \in 1 .. Len(u) : u[i] = u[j] => i = j
  BY Members
<1>5. /\ \A x : x \in ToSet(v) <=> \E i \in 1 .. Len(v) : v[i] = x
      /\ IsInjective(v) <=> \A i, j \in 1 .. Len(v) : v[i] = v[j] => i = j
  BY Members
<1>6. /\ \A x : x \in ToSet(w) <=> \E i \in 1 .. Len(w) : w[i] = x
      /\ IsInjective(w) <=> \A i, j \in 1 .. Len(w) : w[i] = w[j] => i = j
  BY Members
<1>7. ToSet(u) = ToSet(v) \cup ToSet(w)
  <2>1. \A x \in ToSet(v) : x \in ToSet(u)
    BY <1>1, <1>4, <1>5
  <2>2. \A x \in ToSet(w) : x \in ToSet(u)
    <3> SUFFICES ASSUME NEW i \in 1 .. Len(w)
                 PROVE  w[i] \in ToSet(u)
      BY <1>6
    <3>1. g[i] \in 1 .. Len(u) /\ u[g[i]] = w[i]
      BY <1>2, <1>3
    <3> QED BY <3>1, <1>4
  <2>3. \A x \in ToSet(u) : x \in ToSet(v) \/ x \in ToSet(w)
    <3> SUFFICES ASSUME NEW i \in 1 .. Len(u)
                 PROVE  u[i] \in ToSet(v) \/ u[i] \in ToSet(w)
      BY <1>4
    <3>1. CASE i \in 1 .. Len(v)
      BY <3>1, <1>1, <1>5
    <3>2. CASE i \notin 1 .. Len(v)
      BY <3>2, <1>2, <1>6
    <3> QED BY <3>1, <3>2
  <2> QED BY <2>1, <2>2, <2>3
<1>8. ASSUME IsInjective(u)
      PROVE  IsInjective(v) /\ IsInjective(w) /\ ToSet(v) \cap ToSet(w) = {}
  <2>1. IsInjective(v)
    BY <1>1, <1>4, <1>5, <1>8
  <2>2. IsInjective(w)
    BY <1>2, <1>3, <1>4, <1>6, <1>8
  <2>3. ToSet(v) \cap ToSet(w) = {}
    <3> SUFFICES ASSUME NEW i \in 1 .. Len(v), NEW j \in 1 .. Len(w), v[i] = w[j]
                 PROVE  FALSE
      BY <1>5, <1>6
    <3>1. i = g[j]
      BY <1>1, <1>2, <1>3, <1>4, <1>8
    <3> QED BY <3>1, <1>2
  <2> QED BY <2>1, <2>2, <2>3
<1>9. ASSUME IsInjective(v), IsInjective(w), ToSet(v) \cap ToSet(w) = {}
      PROVE  IsInjective(u)
  <2> SUFFICES ASSUME NEW i \in 1 .. Len(u), NEW j \in 1 .. Len(u), u[i] = u[j]
               PROVE  i = j
    BY <1>4
  <2>1. \A k \in 1 .. Len(v) : u[k] \in ToSet(v)
    BY <1>1, <1>5
  <2>2. \A k \in 1 .. Len(u) : k \notin 1 .. Len(v) => u[k] \in ToSet(w)
    BY <1>2, <1>6
  <2>3. CASE i \in 1 .. Len(v)
    <3>1. j \in 1 .. Len(v)
      BY <2>1, <2>2, <2>3, <1>9
    <3> QED BY <2>3, <3>1, <1>1, <1>5, <1>9
  <2>4. CASE i \notin 1 .. Len(v)
    <3>1. j \notin 1 .. Len(v)
      BY <2>1, <2>2, <2>4, <1>9
    <3> QED BY <2>4, <3>1, <1>2, <1>6, <1>9
  <2> QED BY <2>3, <2>4
<1> QED BY <1>7, <1>8, <1>9

\* Two lists one after the other.
Concats(u, v, w) == u = v \o w

LEMMA JoinedMembers ==
    ASSUME NEW S, NEW v \in Seq(S), NEW w \in Seq(S), NEW u, Concats(u, v, w)
    PROVE  /\ u \in Seq(S)
           /\ ToSet(u) = ToSet(v) \cup ToSet(w)
           /\ IsInjective(u) <=> /\ IsInjective(v) /\ IsInjective(w)
                                 /\ ToSet(v) \cap ToSet(w) = {}
<1>1. u \in Seq(S) /\ Joined(u, v, w)
  BY ConcatJoins DEF Concats
<1> QED BY <1>1, JoinMembers

=============================================================================
