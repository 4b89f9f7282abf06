-------------------------- MODULE SequenceLemmas --------------------------
(***************************************************************************)
(* What Only and FlattenSeq return, by induction over positions: the least *)
(* number that a claim fails for is a contradiction (LeastNumber).         *)
(***************************************************************************)
EXTENDS Subsequences, SequencesExt, FiniteSetsExt, FiniteSetTheorems, SequenceTheorems,
        WellFoundedInduction, TLAPS

\* A set of numbers that is not empty has a least one.
LEMMA LeastNumber ==
  ASSUME NEW T \in SUBSET Nat, T # {}
  PROVE  \E m \in T : \A k \in T : m <= k
<1> DEFINE Less == {p \in Nat \X Nat : p[1] < p[2]}
<1>1. IsWellFoundedOn(Less, Nat)
  BY NatLessThanWellFounded, Zenon DEF OpToRel
<1>2. T \subseteq Nat
  OBVIOUS
<1>3. PICK m \in T : \A k \in T : <<k, m>> \notin Less
  <2> HIDE DEF Less
  <2> QED BY <1>1, <1>2, WFMin, Zenon
<1>4. m \in Nat /\ \A k \in T : k \in Nat /\ ~(k < m)
  BY <1>2, <1>3
<1>5. \A k \in T : m <= k
  BY <1>4
<1> QED
  BY <1>5

\* Induction over the numbers, in terms of a set: its complement has no least
\* element.
LEMMA Induction ==
  ASSUME NEW T, 0 \in T, \A n \in Nat : n \in T => n + 1 \in T
  PROVE  \A n \in Nat : n \in T
<1>1. SUFFICES ASSUME Nat \ T # {}
               PROVE  FALSE
  OBVIOUS
<1>2. PICK m \in Nat \ T : \A k \in Nat \ T : m <= k
  BY <1>1, LeastNumber
<1>3. m # 0 /\ m - 1 \in Nat
  BY <1>2
<1>4. m - 1 \in T
  BY <1>2, <1>3
<1>5. (m - 1) + 1 \in T
  BY <1>3, <1>4
<1> QED
  BY <1>2, <1>3, <1>5

\* f begins with a and goes on by step.
Follows(f, a, step, n) ==
  f[0] = a /\ \A i \in 1..n : f[i] = step[<<i, f[i - 1]>>]

\* A function on 0..n that is defined by recursion exists.
LEMMA Recursion ==
  ASSUME NEW A, NEW a \in A, NEW step \in [Nat \X A -> A], NEW n \in Nat
  PROVE  \E f \in [0..n -> A] : Follows(f, a, step, n)
<1> DEFINE Ok(m, f) == Follows(f, a, step, m)
           T == {m \in Nat : \E f \in [0..m -> A] : Ok(m, f)}
<1>1. 0 \in T
  <2>1. [i \in 0..0 |-> a] \in [0..0 -> A] /\ Ok(0, [i \in 0..0 |-> a])
    BY DEF Follows
  <2> QED BY <2>1
<1>2. ASSUME NEW m \in Nat, m \in T
      PROVE  m + 1 \in T
  <2>1. PICK f \in [0..m -> A] : Ok(m, f)
    BY <1>2
  <2>2. m \in 0..m /\ f[m] \in A /\ step[<<m + 1, f[m]>>] \in A
    OBVIOUS
  <2> DEFINE g == [i \in 0..(m+1) |-> IF i = m + 1 THEN step[<<m + 1, f[m]>>] ELSE f[i]]
  <2>3. g \in [0..(m+1) -> A]
    BY <2>2
  <2>4. \A i \in 1..(m+1) : g[i] = step[<<i, g[i - 1]>>]
    <3> SUFFICES ASSUME NEW i \in 1..(m+1)
                 PROVE  g[i] = step[<<i, g[i - 1]>>]
      OBVIOUS
    <3>1. CASE i = m + 1
      <4>1. g[i] = step[<<m + 1, f[m]>>] /\ i # 0 /\ i - 1 = m
        BY <3>1
      <4>2. g[m] = f[m]
        OBVIOUS
      <4> QED BY <4>1, <4>2
    <3>2. CASE i # m + 1
      <4>1. i \in 1..m /\ i \in 0..m /\ i - 1 \in 0..m
        BY <3>2
      <4>2. g[i] = f[i] /\ g[i - 1] = f[i - 1]
        BY <4>1
      <4>3. f[i] = step[<<i, f[i - 1]>>]
        BY <2>1, <4>1 DEF Follows
      <4> QED BY <4>2, <4>3
    <3> QED BY <3>1, <3>2
  <2>5. Ok(m + 1, g)
    <3>1. g[0] = a
      BY <2>1 DEF Follows
    <3> HIDE DEF g
    <3> QED BY <2>4, <3>1 DEF Follows
  <2>6. m + 1 \in Nat
    OBVIOUS
  <2> HIDE DEF Ok, g
  <2> QED BY <2>3, <2>5, <2>6
<1>3. n \in T
  <2> HIDE DEF T
  <2> QED BY <1>1, <1>2, Induction
<1> QED BY <1>3

\* f picks positions of P, each once and in their order.
Enumerates(e, P) ==
  /\ e \in Seq(P)
  /\ \A j, k \in DOMAIN e : j < k => e[j] < e[k]
  /\ \A i \in P : \E k \in DOMAIN e : e[k] = i

\* Only is what its recursion computes.
LEMMA OnlyDef ==
  ASSUME NEW S, NEW s \in Seq(S), NEW P
  PROVE  \E f : /\ Only(s, P) = f[Len(s)]
                /\ f[0] = << >>
                /\ \A i \in 1..Len(s) :
                     f[i] = IF i \in P THEN Append(f[i - 1], s[i]) ELSE f[i - 1]
<1> DEFINE n == Len(s)
           Is(f) == f = [i \in 0..n |->
                          IF i = 0 THEN << >>
                          ELSE IF i \in P THEN Append(f[i - 1], s[i]) ELSE f[i - 1]]
           step == [p \in Nat \X Seq(S) |->
                      IF p[1] \in P /\ p[1] \in 1..n THEN Append(p[2], s[p[1]]) ELSE p[2]]
<1>1. n \in Nat /\ step \in [Nat \X Seq(S) -> Seq(S)] /\ << >> \in Seq(S)
  OBVIOUS
<1>2. PICK f \in [0..n -> Seq(S)] : Follows(f, << >>, step, n)
  <2> HIDE DEF n, step, Is
  <2> QED BY <1>1, Recursion
<1>3. Is(f)
  <2>1. ASSUME NEW i \in 1..n
        PROVE  step[<<i, f[i - 1]>>]
                 = IF i \in P THEN Append(f[i - 1], s[i]) ELSE f[i - 1]
    <3>1. i \in 1..n /\ i \in Nat /\ i - 1 \in 0..n
      <4> HIDE DEF step, n
      <4> QED BY <1>1, <2>1
    <3>2. f[i - 1] \in Seq(S)
      <4> HIDE DEF step, n
      <4> QED BY <1>2, <3>1
    <3>3. step[<<i, f[i - 1]>>] = IF i \in P /\ i \in 1..n THEN Append(f[i - 1], s[i])
                                 ELSE f[i - 1]
      <4> HIDE DEF n
      <4> QED BY <3>1, <3>2
    <3> QED BY <3>1, <3>3
  <2>2. \A i \in 0..n : i = 0 \/ i \in 1..n
    BY <1>1
  <2> HIDE DEF step, n
  <2> QED BY <1>2, <2>1, <2>2 DEF Follows
<1>4. Is(CHOOSE g : Is(g))
  <2> HIDE DEF Is
  <2> QED BY <1>3
<1>5. Only(s, P) = (CHOOSE g : Is(g))[n]
  BY DEF Only
<1> DEFINE h == CHOOSE g : Is(g)
<1>6. /\ h[0] = << >>
      /\ \A i \in 1..n : h[i] = IF i \in P THEN Append(h[i - 1], s[i]) ELSE h[i - 1]
  <2> HIDE DEF h
  <2>1. h = [i \in 0..n |-> IF i = 0 THEN << >>
                          ELSE IF i \in P THEN Append(h[i - 1], s[i]) ELSE h[i - 1]]
    BY <1>4 DEF h
  <2>2. 0 \in 0..n /\ \A i \in 1..n : i \in 0..n /\ i # 0
    BY <1>1
  <2> HIDE DEF n, Is, step
  <2> QED BY <2>1, <2>2
<1> QED BY <1>5, <1>6

\* One more position behind all the others.
LEMMA EnumerateMore ==
  ASSUME NEW e, NEW P, Enumerates(e, P), NEW m \in Nat, \A i \in P : i \in Nat /\ i < m
  PROVE  Enumerates(Append(e, m), P \cup {m})
<1> DEFINE d == Append(e, m)
           Q == P \cup {m}
<1>1. e \in Seq(P) /\ e \in Seq(Q) /\ m \in Q /\ Len(e) \in Nat
  BY DEF Enumerates
<1>2. /\ d \in Seq(Q) /\ Len(d) = Len(e) + 1 /\ d[Len(e) + 1] = m
      /\ \A k \in 1..Len(e) : d[k] = e[k] /\ e[k] \in P
  <2> HIDE DEF Q
  <2> QED BY <1>1
<1> HIDE DEF d, Q
<1>3. \A j, k \in DOMAIN d : j < k => d[j] < d[k]
  <2> SUFFICES ASSUME NEW j \in DOMAIN d, NEW k \in DOMAIN d, j < k
               PROVE  d[j] < d[k]
    OBVIOUS
  <2>1. j \in 1..Len(e) /\ (k \in 1..Len(e) \/ k = Len(e) + 1)
    BY <1>1, <1>2
  <2>2. CASE k \in 1..Len(e)
    BY <2>1, <2>2, <1>1, <1>2 DEF Enumerates
  <2>3. CASE k = Len(e) + 1
    BY <2>1, <2>3, <1>2
  <2> QED BY <2>1, <2>2, <2>3
<1>4. \A i \in Q : \E k \in DOMAIN d : d[k] = i
  <2>1. \A k \in 1..Len(e) : k \in DOMAIN d
    BY <1>1, <1>2
  <2>2. Len(e) + 1 \in DOMAIN d
    BY <1>1, <1>2
  <2>3. DOMAIN e = 1..Len(e)
    BY <1>1
  <2> QED BY <1>2, <2>1, <2>2, <2>3 DEF Enumerates, Q
<1> QED BY <1>2, <1>3, <1>4 DEF Enumerates, d, Q

\* What Only keeps, position by position.
LEMMA OnlyEnumerates ==
  ASSUME NEW S, NEW s \in Seq(S), NEW P \in SUBSET (1..Len(s))
  PROVE  \E e : Enumerates(e, P) /\ Only(s, P) = [k \in DOMAIN e |-> s[e[k]]]
<1> DEFINE n == Len(s)
<1>0. n \in Nat
  OBVIOUS
<1>1. PICK f : /\ Only(s, P) = f[n] /\ f[0] = << >>
               /\ \A i \in 1..n :
                    f[i] = IF i \in P THEN Append(f[i - 1], s[i]) ELSE f[i - 1]
  BY OnlyDef
<1> DEFINE Shown(m, e) == /\ Enumerates(e, P \cap 1..m)
                          /\ f[m] = [k \in DOMAIN e |-> s[e[k]]]
           T == {m \in Nat : m <= n => \E e : Shown(m, e)}
<1> HIDE DEF Shown
<1>2. \A m \in Nat : m \in T <=> (m <= n => \E e : Shown(m, e))
  OBVIOUS
<1> HIDE DEF T
<1>3. 0 \in T
  <2>1. P \cap 1..0 = {}
    OBVIOUS
  <2>2. Enumerates(<< >>, {})
    BY DEF Enumerates
  <2>3. f[0] = [k \in DOMAIN << >> |-> s[<< >>[k]]]
    BY <1>1
  <2>4. Shown(0, << >>)
    BY <2>1, <2>2, <2>3 DEF Shown
  <2> QED BY <1>2, <2>4
<1>4. ASSUME NEW m \in Nat, m \in T
      PROVE  m + 1 \in T
  <2> SUFFICES ASSUME m + 1 <= n
               PROVE  \E e : Shown(m + 1, e)
    BY <1>2
  <2>1. PICK e : Shown(m, e)
    BY <1>0, <1>2, <1>4
  <2>2. m + 1 \in 1..n /\ (m + 1) - 1 = m
    BY <1>0
  <2>3. f[m + 1] = IF m + 1 \in P THEN Append(f[m], s[m + 1]) ELSE f[m]
    BY <1>1, <2>2
  <2>4. CASE m + 1 \notin P
    <3>1. P \cap 1..(m+1) = P \cap 1..m
      BY <2>4
    <3> QED BY <2>1, <2>3, <2>4, <3>1 DEF Shown
  <2>5. CASE m + 1 \in P
    <3> DEFINE d == Append(e, m + 1)
    <3>1. P \cap 1..(m+1) = (P \cap 1..m) \cup {m + 1}
      BY <2>5
    <3>2. Enumerates(d, (P \cap 1..m) \cup {m + 1})
      BY <2>1, EnumerateMore DEF Shown
    <3>3. f[m] = [k \in DOMAIN e |-> s[e[k]]] /\ e \in Seq(P \cap 1..m)
      BY <2>1 DEF Enumerates, Shown
    <3>4. \A k \in DOMAIN e : e[k] \in 1..n
      BY <3>3
    <3>5. f[m] \in Seq(S) /\ Len(f[m]) = Len(e)
      <4>1. DOMAIN e = 1..Len(e) /\ Len(e) \in Nat
        BY <3>3
      <4>2. \A k \in 1..Len(e) : s[e[k]] \in S
        BY <3>4, <4>1
      <4>3. f[m] = [k \in 1..Len(e) |-> s[e[k]]]
        BY <3>3, <4>1
      <4> QED BY <4>1, <4>2, <4>3
    <3>6. Append(f[m], s[m + 1]) = [k \in DOMAIN d |-> s[d[k]]]
      BY <3>3, <3>5, <2>2
    <3> QED BY <2>3, <2>5, <3>1, <3>2, <3>6 DEF Shown
  <2> QED BY <2>4, <2>5
<1>5. n \in T
  BY <1>0, <1>3, <1>4, Induction
<1>6. PICK e : Shown(n, e)
  BY <1>0, <1>2, <1>5
<1>7. P \cap 1..n = P
  OBVIOUS
<1>8. Enumerates(e, P) /\ f[n] = [k \in DOMAIN e |-> s[e[k]]]
  BY <1>6, <1>7 DEF Shown
<1> QED BY <1>1, <1>8

\* What Only keeps of a sequence is a sequence.
LEMMA OnlyType ==
  ASSUME NEW S, NEW s \in Seq(S), NEW P \in SUBSET (1..Len(s))
  PROVE  /\ Only(s, P) \in Seq(S)
         /\ \A k \in DOMAIN Only(s, P) : \E i \in P : Only(s, P)[k] = s[i]
<1>1. PICK e : Enumerates(e, P) /\ Only(s, P) = [k \in DOMAIN e |-> s[e[k]]]
  BY OnlyEnumerates
<1>2. e \in Seq(P) /\ Len(e) \in Nat /\ DOMAIN e = 1..Len(e)
  BY <1>1 DEF Enumerates
<1>3. \A k \in 1..Len(e) : e[k] \in P /\ e[k] \in 1..Len(s) /\ s[e[k]] \in S
  <2>1. \A i \in P : i \in 1..Len(s) /\ s[i] \in S
    OBVIOUS
  <2>2. \A k \in 1..Len(e) : e[k] \in P
    BY <1>2
  <2> QED BY <2>1, <2>2
<1>4. Only(s, P) = [k \in 1..Len(e) |-> s[e[k]]]
  BY <1>1, <1>2
<1> HIDE DEF Only
<1> QED BY <1>2, <1>3, <1>4

\* All sequences together, one behind the other.
LEMMA FlattenType ==
  ASSUME NEW S, NEW s \in Seq(Seq(S))
  PROVE  FlattenSeq(s) \in Seq(S)
<1> DEFINE n == Len(s)
           Is(f) == f = [i \in 1..n |-> IF i = 1 THEN s[i] ELSE f[i - 1] \o s[i]]
<1>0. n \in Nat /\ \A i \in 1..n : s[i] \in Seq(S)
  OBVIOUS
<1>1. CASE n = 0
  <2>1. s = << >>
    BY <1>1
  <2>2. FlattenSeq(s) = << >>
    BY <2>1 DEF FlattenSeq
  <2> QED BY <2>2
<1>2. CASE n # 0
  <2> DEFINE step == [p \in Nat \X Seq(S) |->
                        IF p[1] + 1 \in 1..n THEN p[2] \o s[p[1] + 1] ELSE p[2]]
  <2>0. n - 1 \in Nat /\ 1 \in 1..n /\ s[1] \in Seq(S)
    BY <1>0, <1>2
  <2>1. step \in [Nat \X Seq(S) -> Seq(S)]
    <3> HIDE DEF n
    <3> QED BY <1>0
  <2>2. PICK f \in [0..(n-1) -> Seq(S)] : Follows(f, s[1], step, n - 1)
    <3> HIDE DEF n, step
    <3> QED BY <2>0, <2>1, Recursion
  <2> DEFINE g == [i \in 1..n |-> f[i - 1]]
  <2>3. \A i \in 1..n : i # 1 => /\ i - 1 \in 1..(n-1) /\ i - 1 \in Nat /\ i - 1 \in 1..n
                                 /\ (i - 1) + 1 = i /\ (i - 1) - 1 \in 0..(n-1)
    <3> HIDE DEF n
    <3> QED BY <1>0
  <2>4. ASSUME NEW i \in 1..n
        PROVE  g[i] = IF i = 1 THEN s[i] ELSE g[i - 1] \o s[i]
    <3>1. CASE i = 1
      <4>1. g[i] = f[0]
        BY <3>1
      <4> QED BY <4>1, <3>1, <2>2 DEF Follows
    <3>2. CASE i # 1
      <4>1. g[i] = f[i - 1] /\ g[i - 1] = f[(i - 1) - 1]
        BY <3>2, <2>3
      <4>2. f[i - 1] = step[<<i - 1, f[(i - 1) - 1]>>]
        <5> HIDE DEF step, g, n
        <5> QED BY <3>2, <2>2, <2>3 DEF Follows
      <4>3. f[(i - 1) - 1] \in Seq(S)
        <5> HIDE DEF step, g, n
        <5> QED BY <3>2, <2>2, <2>3
      <4>4. step[<<i - 1, f[(i - 1) - 1]>>] = f[(i - 1) - 1] \o s[i]
        <5> HIDE DEF g, n
        <5> QED BY <3>2, <2>3, <4>3
      <4> HIDE DEF step, g, n
      <4> QED BY <3>2, <4>1, <4>2, <4>4
    <3> QED BY <3>1, <3>2
  <2>5. Is(g)
    <3>1. g = [i \in 1..n |-> g[i]]
      OBVIOUS
    <3> HIDE DEF g, n
    <3> QED BY <2>4, <3>1
  <2> DEFINE h == CHOOSE x : Is(x)
  <2>6. Is(h)
    <3> HIDE DEF Is
    <3> QED BY <2>5
  <2>7. FlattenSeq(s) = h[n]
    BY <1>2 DEF FlattenSeq
  <2>8. \A i \in 1..n : h[i] = IF i = 1 THEN s[i] ELSE h[i - 1] \o s[i]
    <3> HIDE DEF h, n
    <3> QED BY <2>6
  <2> DEFINE T == {m \in Nat : m + 1 \in 1..n => h[m + 1] \in Seq(S)}
  <2> HIDE DEF h, n, step, g
  <2>9. \A m \in Nat : m \in T <=> (m + 1 \in 1..n => h[m + 1] \in Seq(S))
    OBVIOUS
  <2> HIDE DEF T
  <2>10. 0 \in T
    <3>1. h[1] = s[1]
      BY <2>0, <2>8
    <3> QED BY <2>0, <2>9, <3>1
  <2>11. ASSUME NEW m \in Nat, m \in T
         PROVE  m + 1 \in T
    <3> SUFFICES ASSUME (m + 1) + 1 \in 1..n
                 PROVE  h[(m + 1) + 1] \in Seq(S)
      BY <2>9
    <3>1. /\ m + 1 \in 1..n /\ (m + 1) + 1 # 1 /\ ((m + 1) + 1) - 1 = m + 1
      BY <1>0
    <3>2. h[m + 1] \in Seq(S)
      BY <2>9, <2>11, <3>1
    <3>3. h[(m + 1) + 1] = h[m + 1] \o s[(m + 1) + 1]
      BY <2>8, <3>1
    <3> QED BY <1>0, <3>2, <3>3
  <2>12. n - 1 \in T
    BY <2>0, <2>10, <2>11, Induction
  <2>13. (n - 1) + 1 = n /\ n \in 1..n
    BY <1>0, <1>2
  <2> QED BY <2>0, <2>7, <2>9, <2>12, <2>13
<1> QED BY <1>1, <1>2

\* As many positions lead to Q as Q has elements.
LEMMA EnumerationCounts ==
  ASSUME NEW e, NEW P \in SUBSET Nat, Enumerates(e, P),
         NEW Q \in SUBSET P, IsFiniteSet(Q)
  PROVE  /\ IsFiniteSet({k \in DOMAIN e : e[k] \in Q})
         /\ Cardinality({k \in DOMAIN e : e[k] \in Q}) = Cardinality(Q)
<1> DEFINE D == {k \in DOMAIN e : e[k] \in Q}
           f == [k \in D |-> e[k]]
<1>1. DOMAIN e = 1..Len(e) /\ Len(e) \in Nat /\ \A k \in DOMAIN e : e[k] \in Nat
  <2>1. e \in Seq(P)
    BY DEF Enumerates
  <2>2. \A k \in DOMAIN e : e[k] \in P
    BY <2>1
  <2>3. DOMAIN e = 1..Len(e) /\ Len(e) \in Nat
    BY <2>1
  <2>4. \A i \in P : i \in Nat
    OBVIOUS
  <2> QED BY <2>2, <2>3, <2>4, Zenon
<1>2. f \in Injection(D, Q)
  <2>1. f \in [D -> Q]
    OBVIOUS
  <2>2. ASSUME NEW j \in D, NEW k \in D, f[j] = f[k]
        PROVE  j = k
    <3>1. e[j] = e[k] /\ e[j] \in Nat /\ j \in Nat /\ k \in Nat
      BY <1>1, <2>2
    <3>2. ~(j < k) /\ ~(k < j)
      BY <3>1 DEF Enumerates
    <3> QED BY <3>1, <3>2
  <2> HIDE DEF f, D
  <2> QED BY <2>1, <2>2 DEF Injection, IsInjective
<1>3. f \in Surjection(D, Q)
  <2>1. \A i \in Q : \E k \in D : f[k] = i
    BY DEF Enumerates
  <2>2. f \in [D -> Q]
    OBVIOUS
  <2> HIDE DEF f, D
  <2> QED BY <2>1, <2>2 DEF Surjection
<1> HIDE DEF f
<1>4. IsFiniteSet(D) /\ Cardinality(D) = Cardinality(Q)
  BY <1>2, <1>3, FS_Injection
<1> QED BY <1>4

----------------------------------------------------------------------------
(* What is left of a sequence at some positions, and what is put into one. *)

\* Among numbers up to n there is a greatest one.
LEMMA GreatestNumber ==
  ASSUME NEW n, NEW T, n \in Nat, T \in SUBSET (0..n), T # {}
  PROVE  \E m \in T : \A k \in T : k <= m
<1> DEFINE D == {n - k : k \in T}
<1>1. D \in SUBSET Nat /\ D # {}
  <2>1. \A k \in T : k \in Nat /\ n - k \in Nat
    OBVIOUS
  <2> QED BY <2>1
<1>2. PICK d \in D : \A k \in D : d <= k
  <2> HIDE DEF D
  <2> QED BY <1>1, LeastNumber
<1>3. PICK m \in T : d = n - m
  BY <1>2
<1>4. ASSUME NEW k \in T
      PROVE  k <= m
  <2>1. n - k \in D
    OBVIOUS
  <2>2. n - m <= n - k
    BY <1>2, <1>3, <2>1
  <2>3. n \in Int /\ m \in Int /\ k \in Int
    OBVIOUS
  <2> HIDE DEF D
  <2> QED BY ONLY <2>2, <2>3
<1> QED BY <1>4

\* r is what is left of s at the positions in P.
Thins(S, r, s, P) ==
  /\ s \in Seq(S) /\ P \in SUBSET (1..Len(s))
  /\ \E e : Enumerates(e, P) /\ r = [k \in DOMAIN e |-> s[e[k]]]

\* An enumeration's positions.
LEMMA EnumeratesType ==
  ASSUME NEW e, NEW P, P \in SUBSET Nat, Enumerates(e, P)
  PROVE  /\ e \in Seq(P) /\ Len(e) \in Nat /\ DOMAIN e = 1..Len(e)
         /\ \A k \in DOMAIN e : k \in Nat /\ e[k] \in P /\ e[k] \in Nat
         /\ \A j, k \in DOMAIN e : j < k => e[j] < e[k]
         /\ \A i \in P : \E k \in DOMAIN e : e[k] = i
<1>1. e \in Seq(P) /\ Len(e) \in Nat /\ DOMAIN e = 1..Len(e)
  BY DEF Enumerates
<1>2. \A k \in 1..Len(e) : k \in Nat /\ e[k] \in P
  BY <1>1
<1>3. \A i \in P : i \in Nat
  OBVIOUS
<1> QED BY <1>1, <1>2, <1>3 DEF Enumerates

\* Where two enumerations agree up to k, the second is not behind the first.
LEMMA NotBehind ==
  ASSUME NEW e, NEW d, NEW P, NEW k, P \in SUBSET Nat, Enumerates(e, P),
         Enumerates(d, P), k \in DOMAIN e,
         \A j \in DOMAIN d : j < k => j \in DOMAIN e /\ d[j] = e[j]
  PROVE  k \in DOMAIN d /\ d[k] <= e[k]
<1>1. /\ DOMAIN e = 1..Len(e) /\ DOMAIN d = 1..Len(d)
      /\ Len(e) \in Nat /\ Len(d) \in Nat
      /\ \A j \in DOMAIN e : j \in Nat /\ e[j] \in P /\ e[j] \in Nat
      /\ \A j \in DOMAIN d : j \in Nat /\ d[j] \in Nat
  BY EnumeratesType
<1>2. e[k] \in P /\ k \in Nat /\ k >= 1
  BY <1>1
<1>3. PICK j \in DOMAIN d : d[j] = e[k]
  BY <1>2 DEF Enumerates
<1>4. j \in Nat /\ ~(j < k)
  <2>1. j \in Nat
    BY <1>1
  <2>2. j < k => j \in DOMAIN e /\ e[j] = e[k]
    BY <1>3
  <2>3. j < k => e[j] < e[k]
    BY <2>2 DEF Enumerates
  <2> QED BY <1>1, <1>2, <2>1, <2>2, <2>3
<1>5. k \in DOMAIN d
  BY <1>1, <1>2, <1>4
<1>6. k < j => d[k] < d[j]
  BY <1>5 DEF Enumerates
<1>7. d[k] \in Nat /\ e[k] \in Nat
  BY <1>1, <1>2, <1>5
<1> QED BY <1>2, <1>3, <1>4, <1>5, <1>6, <1>7

\* A set of positions has one enumeration.
LEMMA EnumeratesSame ==
  ASSUME NEW e, NEW d, NEW P, P \in SUBSET Nat, Enumerates(e, P),
         Enumerates(d, P)
  PROVE  e = d
<1>1. /\ DOMAIN e = 1..Len(e) /\ DOMAIN d = 1..Len(d)
      /\ Len(e) \in Nat /\ Len(d) \in Nat
      /\ \A j \in DOMAIN e : j \in Nat /\ e[j] \in P /\ e[j] \in Nat
      /\ \A j \in DOMAIN d : j \in Nat /\ d[j] \in Nat
  BY EnumeratesType
<1> DEFINE Agree(k) == (k \in DOMAIN e \/ k \in DOMAIN d) =>
                         k \in DOMAIN e /\ k \in DOMAIN d /\ d[k] = e[k]
           T == {k \in Nat : ~Agree(k)}
<1>2. T = {}
  <2>1. SUFFICES ASSUME T # {}
                 PROVE  FALSE
    OBVIOUS
  <2>2. PICK k \in T : \A j \in T : k <= j
    <3>1. T \in SUBSET Nat
      OBVIOUS
    <3> HIDE DEF T
    <3> QED BY <2>1, <3>1, LeastNumber
  <2>3. k \in Nat /\ ~Agree(k)
    OBVIOUS
  <2>4. \A j \in Nat : j < k => Agree(j)
    BY <2>2
  <2>5. \A j \in DOMAIN d : j < k => j \in DOMAIN e /\ d[j] = e[j]
    BY <1>1, <2>4
  <2>6. \A j \in DOMAIN e : j < k => j \in DOMAIN d /\ e[j] = d[j]
    BY <1>1, <2>4
  <2>7. k \in DOMAIN e => k \in DOMAIN d /\ d[k] <= e[k]
    BY <2>5, NotBehind
  <2>8. k \in DOMAIN d => k \in DOMAIN e /\ e[k] <= d[k]
    BY <2>6, NotBehind
  <2>9. k \in DOMAIN e /\ k \in DOMAIN d => e[k] \in Nat /\ d[k] \in Nat
    BY <1>1
  <2>10. k \in DOMAIN e /\ k \in DOMAIN d => e[k] = d[k]
    BY <2>7, <2>8, <2>9
  <2> QED BY <2>3, <2>7, <2>8, <2>10
<1>3. \A k \in Nat : Agree(k)
  BY <1>2
<1>4. DOMAIN e = DOMAIN d
  <2>1. \A k \in DOMAIN e : k \in DOMAIN d
    BY <1>1, <1>3
  <2>2. \A k \in DOMAIN d : k \in DOMAIN e
    BY <1>1, <1>3
  <2> QED BY <2>1, <2>2
<1>5. \A k \in DOMAIN e : e[k] = d[k]
  BY <1>1, <1>3
<1>6. e = [k \in DOMAIN e |-> e[k]] /\ d = [k \in DOMAIN d |-> d[k]]
  BY DEF Enumerates
<1> QED BY <1>4, <1>5, <1>6

\* Positions of P next to each other stay next to each other.
LEMMA NextStays ==
  ASSUME NEW e, NEW P, NEW k, P \in SUBSET Nat, Enumerates(e, P),
         k \in DOMAIN e
  PROVE  /\ e[k] + 1 \in P => k + 1 \in DOMAIN e /\ e[k + 1] = e[k] + 1
         /\ e[k] - 1 \in P => k - 1 \in DOMAIN e /\ e[k - 1] = e[k] - 1
<1>1. /\ DOMAIN e = 1..Len(e) /\ Len(e) \in Nat
      /\ \A i, j \in DOMAIN e : i < j => e[i] < e[j]
      /\ \A i \in P : \E j \in DOMAIN e : e[j] = i
  BY EnumeratesType
<1>2. \A j \in DOMAIN e : e[j] \in P /\ e[j] \in Nat /\ j \in Nat
  BY EnumeratesType
<1>3. ASSUME NEW i \in DOMAIN e, e[i] + 1 \in P
      PROVE  i + 1 \in DOMAIN e /\ e[i + 1] = e[i] + 1
  <2>1. PICK j \in DOMAIN e : e[j] = e[i] + 1
    BY <1>1, <1>3
  <2>2. j > i
    <3>1. j < i => e[j] < e[i]
      BY <1>1
    <3> QED BY <1>2, <2>1, <3>1
  <2>3. i + 1 \in DOMAIN e
    BY <1>1, <2>2
  <2>4. e[i] < e[i + 1]
    BY <1>1, <1>2, <2>3
  <2>5. i + 1 < j => e[i + 1] < e[j]
    BY <1>1, <2>3
  <2>6. j = i + 1
    BY <1>2, <2>1, <2>2, <2>3, <2>4, <2>5
  <2> QED BY <2>1, <2>3, <2>6
<1>4. ASSUME e[k] - 1 \in P
      PROVE  k - 1 \in DOMAIN e /\ e[k - 1] = e[k] - 1
  <2>1. PICK j \in DOMAIN e : e[j] = e[k] - 1
    BY <1>1, <1>4
  <2>2. e[j] + 1 = e[k] /\ e[k] \in P
    BY <1>1, <1>2, <2>1
  <2>3. j + 1 \in DOMAIN e /\ e[j + 1] = e[k]
    BY <1>3, <2>2
  <2>4. j + 1 = k
    <3>1. j + 1 < k => e[j + 1] < e[k]
      BY <1>1, <2>3
    <3>2. k < j + 1 => e[k] < e[j + 1]
      BY <1>1, <2>3
    <3> QED BY <1>2, <2>3, <3>1, <3>2
  <2>5. j = k - 1
    BY <1>2, <2>4
  <2> QED BY <2>1, <2>5
<1> QED BY <1>3, <1>4

\* The positions where s has a member of K.
Where(s, K) == {i \in DOMAIN s : s[i] \in K}

\* What is kept of a kind is the same before and after, if all of that kind
\* stays.
LEMMA ThinsKeeps ==
  ASSUME NEW S, NEW r, NEW s, NEW P, NEW K, Thins(S, r, s, P),
         Where(s, K) \subseteq P
  PROVE  Only(r, Where(r, K)) = Only(s, Where(s, K))
<1>1. PICK e : Enumerates(e, P) /\ r = [k \in DOMAIN e |-> s[e[k]]]
  BY DEF Thins
<1>13. s \in Seq(S) /\ P \in SUBSET (1..Len(s))
  BY DEF Thins
<1>0. P \in SUBSET Nat /\ \A i \in P : s[i] \in S
  BY <1>13
<1>2. /\ DOMAIN e = 1..Len(e) /\ Len(e) \in Nat
      /\ \A i, j \in DOMAIN e : i < j => e[i] < e[j]
      /\ \A i \in P : \E j \in DOMAIN e : e[j] = i
  BY <1>0, <1>1, EnumeratesType
<1>3. /\ \A k \in DOMAIN e : e[k] \in P /\ e[k] \in Nat /\ s[e[k]] \in S
      /\ DOMAIN s = 1..Len(s)
  <2>1. \A k \in DOMAIN e : e[k] \in P /\ e[k] \in Nat
    BY <1>0, <1>1, EnumeratesType
  <2>2. DOMAIN s = 1..Len(s)
    BY <1>13
  <2> QED BY <1>0, <2>1, <2>2
<1>4. /\ r \in Seq(S) /\ Len(r) = Len(e) /\ DOMAIN r = DOMAIN e
      /\ \A k \in DOMAIN e : r[k] = s[e[k]]
  BY <1>1, <1>2, <1>3
<1>5. /\ Where(r, K) \in SUBSET (1..Len(r)) /\ Where(s, K) \in SUBSET (1..Len(s))
      /\ Where(s, K) \in SUBSET Nat
  BY <1>2, <1>3, <1>4 DEF Where
<1>6. PICK g : Enumerates(g, Where(r, K)) /\ Only(r, Where(r, K)) = [k \in DOMAIN g |-> r[g[k]]]
  BY <1>4, <1>5, OnlyEnumerates
<1>7. PICK d : Enumerates(d, Where(s, K)) /\ Only(s, Where(s, K)) = [k \in DOMAIN d |-> s[d[k]]]
  BY <1>13, <1>5, OnlyEnumerates
<1>8. /\ g \in Seq(Where(r, K)) /\ DOMAIN g = 1..Len(g) /\ Len(g) \in Nat
      /\ \A i, j \in DOMAIN g : i < j => g[i] < g[j]
      /\ \A i \in Where(r, K) : \E j \in DOMAIN g : g[j] = i
  BY <1>6 DEF Enumerates
<1>9. \A k \in DOMAIN g : g[k] \in Where(r, K) /\ g[k] \in DOMAIN e /\ r[g[k]] = s[e[g[k]]]
  <2>1. \A k \in DOMAIN g : g[k] \in Where(r, K)
    BY <1>8
  <2>2. \A i \in Where(r, K) : i \in DOMAIN e
    BY <1>4 DEF Where
  <2> QED BY <1>4, <2>1, <2>2
<1> DEFINE h == [k \in 1..Len(g) |-> e[g[k]]]
<1>10. Enumerates(h, Where(s, K))
  <2>1. ASSUME NEW k \in 1..Len(g)
        PROVE  e[g[k]] \in Where(s, K)
    <3>1. g[k] \in Where(r, K) /\ g[k] \in DOMAIN e /\ r[g[k]] = s[e[g[k]]]
      BY <1>8, <1>9
    <3>2. r[g[k]] \in K
      BY <3>1 DEF Where
    <3>3. e[g[k]] \in P
      BY <1>3, <3>1
    <3>4. e[g[k]] \in DOMAIN s
      BY <1>3, <1>13, <3>3
    <3> QED BY <3>1, <3>2, <3>4 DEF Where
  <2>2. h \in Seq(Where(s, K)) /\ DOMAIN h = 1..Len(g)
    BY <1>8, <2>1
  <2>3. \A i, j \in DOMAIN h : i < j => h[i] < h[j]
    BY <1>2, <1>8, <1>9
  <2>4. ASSUME NEW i \in Where(s, K)
        PROVE  \E m \in DOMAIN h : h[m] = i
    <3>1. i \in P /\ s[i] \in K
      BY DEF Where
    <3>2. PICK k \in DOMAIN e : e[k] = i
      BY <1>2, <3>1
    <3>3. k \in Where(r, K)
      BY <1>4, <3>1, <3>2 DEF Where
    <3>4. PICK m \in DOMAIN g : g[m] = k
      BY <1>8, <3>3
    <3>5. m \in DOMAIN h /\ h[m] = i
      BY <1>8, <3>2, <3>4
    <3> QED BY <3>5
  <2> HIDE DEF h
  <2> QED BY <2>2, <2>3, <2>4 DEF Enumerates
<1>11. h = d
  <2> HIDE DEF h
  <2> QED BY <1>5, <1>7, <1>10, EnumeratesSame
<1>12. DOMAIN d = DOMAIN g /\ \A k \in DOMAIN g : s[d[k]] = r[g[k]]
  BY <1>8, <1>9, <1>11
<1> QED BY <1>6, <1>7, <1>12

\* Only thins.
LEMMA OnlyThins ==
  ASSUME NEW S, NEW s, NEW P, s \in Seq(S), P \in SUBSET (1..Len(s))
  PROVE  Thins(S, Only(s, P), s, P)
BY OnlyEnumerates DEF Thins

\* The first m elements are what is left of a sequence up to m.
LEMMA PrefixThins ==
  ASSUME NEW S, NEW s, NEW m, s \in Seq(S), m \in 0..Len(s)
  PROVE  Thins(S, SubSeq(s, 1, m), s, 1..m)
<1> DEFINE e == [k \in 1..m |-> k]
<1>1. Enumerates(e, 1..m)
  <2>1. e \in Seq(1..m) /\ DOMAIN e = 1..m
    OBVIOUS
  <2> QED BY <2>1 DEF Enumerates
<1>2. SubSeq(s, 1, m) = [k \in DOMAIN e |-> s[e[k]]]
  BY SMT
<1> HIDE DEF e
<1> QED BY <1>1, <1>2 DEF Thins

\* r is s with t in front of position p.
Splices(S, r, s, p, t) ==
  /\ r \in Seq(S) /\ s \in Seq(S) /\ t \in Seq(S) /\ p \in 1..(Len(s) + 1)
  /\ Len(r) = Len(s) + Len(t)
  /\ \A j \in 1..(p - 1) : r[j] = s[j]
  /\ \A j \in 1..Len(t) : r[(p - 1) + j] = t[j]
  /\ \A j \in p..Len(s) : r[j + Len(t)] = s[j]

\* Without what was put in, a splice is what it was.
LEMMA SplicesThins ==
  ASSUME NEW S, NEW r, NEW s, NEW t, NEW p, Splices(S, r, s, p, t)
  PROVE  Thins(S, s, r, (1..Len(r)) \ (p..(p + Len(t) - 1)))
<1> DEFINE n == Len(t)
           P == (1..Len(r)) \ (p..(p + n - 1))
           e == [j \in 1..Len(s) |-> IF j < p THEN j ELSE j + n]
<1>0. r \in Seq(S) /\ s \in Seq(S) /\ t \in Seq(S) /\ p \in 1..(Len(s) + 1)
  BY DEF Splices
<1>1. n \in Nat /\ Len(s) \in Nat /\ Len(r) = Len(s) + n /\ p \in Nat /\ p >= 1
      /\ p <= Len(s) + 1
  BY <1>0 DEF Splices
<1> HIDE DEF n
<1>2. Enumerates(e, P)
  <2>1. \A j \in 1..Len(s) : e[j] \in P
    BY <1>1
  <2>2. e \in Seq(P) /\ DOMAIN e = 1..Len(s)
    BY <1>1, <2>1
  <2>3. \A i, j \in DOMAIN e : i < j => e[i] < e[j]
    BY <1>1
  <2>4. ASSUME NEW i \in P
        PROVE  \E j \in DOMAIN e : e[j] = i
    <3>1. CASE i < p
      <4>1. i \in 1..Len(s) /\ e[i] = i
        BY <1>1, <3>1
      <4> QED BY <4>1
    <3>2. CASE ~(i < p)
      <4>1. i - n \in 1..Len(s) /\ ~(i - n < p)
        BY <1>1, <3>2
      <4>2. e[i - n] = i
        BY <1>1, <4>1
      <4> QED BY <4>1, <4>2
    <3> QED BY <3>1, <3>2
  <2> HIDE DEF e, P
  <2> QED BY <2>2, <2>3, <2>4 DEF Enumerates
<1>3. s = [k \in DOMAIN e |-> r[e[k]]]
  <2>1. \A k \in 1..Len(s) : s[k] = r[e[k]]
    BY <1>1 DEF Splices, n
  <2>2. s = [k \in 1..Len(s) |-> s[k]]
    BY <1>0
  <2>3. DOMAIN e = 1..Len(s)
    OBVIOUS
  <2> HIDE DEF e
  <2> QED BY <2>1, <2>2, <2>3
<1>4. Thins(S, s, r, P)
  <2> HIDE DEF e, P
  <2>1. P \in SUBSET (1..Len(r))
    BY DEF P
  <2> QED BY <1>0, <1>2, <1>3, <2>1 DEF Thins
<1> QED BY <1>4 DEF n

\* Min and Max of sets of numbers that are not empty.
LEMMA MinFound ==
  ASSUME NEW T, T \in SUBSET Nat, T # {}
  PROVE  Min(T) \in T /\ \A k \in T : Min(T) <= k
<1>1. \E m \in T : \A k \in T : m <= k
  BY LeastNumber
<1> QED BY <1>1 DEF Min

LEMMA MaxFound ==
  ASSUME NEW n, NEW T, n \in Nat, T \in SUBSET (0..n), T # {}
  PROVE  Max(T) \in T /\ \A k \in T : k <= Max(T)
<1>1. PICK m \in T : \A k \in T : k <= m
  BY GreatestNumber
<1>2. \A x, y \in T : x >= y <=> y <= x
  OBVIOUS
<1>3. \E x \in T : \A y \in T : x >= y
  BY <1>1, <1>2
<1>4. Max(T) \in T /\ \A y \in T : Max(T) >= y
  BY <1>3 DEF Max
<1> QED BY <1>2, <1>4

\* The members of short tuples.
LEMMA Range2 ==
  ASSUME NEW a, NEW b
  PROVE  Range(<<a, b>>) = {a, b}
<1> DEFINE t == <<a, b>>
<1>1. \A i : i \in 1..2 <=> i = 1 \/ i = 2
  OBVIOUS
<1>2. DOMAIN t = 1..2 /\ t[1] = a /\ t[2] = b
  OBVIOUS
<1> HIDE DEF t
<1> QED BY <1>1, <1>2 DEF Range, t

LEMMA Range3 ==
  ASSUME NEW a, NEW b, NEW c
  PROVE  Range(<<a, b, c>>) = {a, b, c}
<1> DEFINE t == <<a, b, c>>
<1>1. \A i : i \in 1..3 <=> i = 1 \/ i = 2 \/ i = 3
  OBVIOUS
<1>2. DOMAIN t = 1..3 /\ t[1] = a /\ t[2] = b /\ t[3] = c
  OBVIOUS
<1> HIDE DEF t
<1> QED BY <1>1, <1>2 DEF Range, t

LEMMA Range4 ==
  ASSUME NEW a, NEW b, NEW c, NEW d
  PROVE  Range(<<a, b, c, d>>) = {a, b, c, d}
<1> DEFINE t == <<a, b, c, d>>
<1>1. \A i : i \in 1..4 <=> i = 1 \/ i = 2 \/ i = 3 \/ i = 4
  OBVIOUS
<1>2. DOMAIN t = 1..4 /\ t[1] = a /\ t[2] = b /\ t[3] = c /\ t[4] = d
  OBVIOUS
<1> HIDE DEF t
<1> QED BY <1>1, <1>2 DEF Range, t

LEMMA Range5 ==
  ASSUME NEW a, NEW b, NEW c, NEW d, NEW e
  PROVE  Range(<<a, b, c, d, e>>) = {a, b, c, d, e}
<1> DEFINE t == <<a, b, c, d, e>>
<1>1. \A i : i \in 1..5 <=> i = 1 \/ i = 2 \/ i = 3 \/ i = 4 \/ i = 5
  OBVIOUS
<1>2. DOMAIN t = 1..5 /\ t[1] = a /\ t[2] = b /\ t[3] = c /\ t[4] = d /\ t[5] = e
  OBVIOUS
<1> HIDE DEF t
<1> QED BY <1>1, <1>2 DEF Range, t

\* What is appended is put in front of the position behind the end.
LEMMA JoinSplices ==
  ASSUME NEW S, NEW s, NEW t, s \in Seq(S), t \in Seq(S)
  PROVE  Splices(S, s \o t, s, Len(s) + 1, t)
<1>1. /\ s \o t \in Seq(S) /\ Len(s \o t) = Len(s) + Len(t)
      /\ \A i \in 1..(Len(s) + Len(t)) :
           (s \o t)[i] = IF i <= Len(s) THEN s[i] ELSE t[i - Len(s)]
  BY ConcatProperties
<1>2. Len(s) \in Nat /\ Len(t) \in Nat
  OBVIOUS
<1>3. \A j \in 1..((Len(s) + 1) - 1) : (s \o t)[j] = s[j]
  BY <1>1, <1>2
<1>4. ASSUME NEW j \in 1..Len(t)
      PROVE  (s \o t)[((Len(s) + 1) - 1) + j] = t[j]
  <2>1. /\ ((Len(s) + 1) - 1) + j = Len(s) + j /\ Len(s) + j \in 1..(Len(s) + Len(t))
        /\ ~(Len(s) + j <= Len(s)) /\ (Len(s) + j) - Len(s) = j
    BY <1>2
  <2> QED BY <1>1, <2>1
<1>5. \A j \in (Len(s) + 1)..Len(s) : FALSE
  BY <1>2
<1>6. Len(s) + 1 \in 1..(Len(s) + 1)
  BY <1>2
<1> QED BY <1>1, <1>3, <1>4, <1>5, <1>6 DEF Splices

\* What is put where is all there is to a splice.
LEMMA SplicesSame ==
  ASSUME NEW S, NEW r, NEW q, NEW s, NEW t, NEW p, Splices(S, r, s, p, t),
         Splices(S, q, s, p, t)
  PROVE  r = q
<1>1. /\ r \in Seq(S) /\ q \in Seq(S) /\ Len(r) = Len(q) /\ Len(r) = Len(s) + Len(t)
      /\ Len(s) \in Nat /\ Len(t) \in Nat /\ p \in Nat /\ p >= 1 /\ p <= Len(s) + 1
  BY DEF Splices
<1>2. ASSUME NEW j \in 1..Len(r)
      PROVE  r[j] = q[j]
  <2>1. CASE j < p
    <3>1. j \in 1..(p - 1)
      BY <1>1, <2>1
    <3> QED BY <3>1 DEF Splices
  <2>2. CASE p <= j /\ j < p + Len(t)
    <3>1. j - (p - 1) \in 1..Len(t) /\ (p - 1) + (j - (p - 1)) = j
      BY <1>1, <2>2
    <3>2. r[(p - 1) + (j - (p - 1))] = t[j - (p - 1)]
          /\ q[(p - 1) + (j - (p - 1))] = t[j - (p - 1)]
      BY <3>1 DEF Splices
    <3> QED BY <3>1, <3>2
  <2>3. CASE p + Len(t) <= j
    <3>1. j - Len(t) \in p..Len(s) /\ (j - Len(t)) + Len(t) = j
      BY <1>1, <2>3
    <3>2. r[(j - Len(t)) + Len(t)] = s[j - Len(t)] /\ q[(j - Len(t)) + Len(t)] = s[j - Len(t)]
      BY <3>1 DEF Splices
    <3> QED BY <3>1, <3>2
  <2> QED BY <1>1, <2>1, <2>2, <2>3
<1> QED BY <1>1, <1>2, SeqEqual

\* Where all positions stay nothing is left out.
LEMMA ThinsAll ==
  ASSUME NEW S, NEW r, NEW s, Thins(S, r, s, 1..Len(s))
  PROVE  r = s
<1> DEFINE P == 1..Len(s)
           d == [k \in 1..Len(s) |-> k]
<1>1. s \in Seq(S) /\ DOMAIN s = 1..Len(s) /\ Len(s) \in Nat
  BY DEF Thins
<1>2. PICK e : Enumerates(e, P) /\ r = [k \in DOMAIN e |-> s[e[k]]]
  BY DEF Thins
<1>3. Enumerates(d, P)
  <2>1. d \in Seq(P) /\ DOMAIN d = P /\ \A k \in P : d[k] = k
    BY <1>1
  <2> HIDE DEF d, P
  <2> QED BY <2>1 DEF Enumerates
<1>4. P \in SUBSET Nat
  OBVIOUS
<1> HIDE DEF P, d
<1>5. e = d
  BY <1>2, <1>3, <1>4, EnumeratesSame
<1>6. DOMAIN e = 1..Len(s) /\ \A k \in 1..Len(s) : e[k] = k
  BY <1>5 DEF d
<1>7. r = [k \in 1..Len(s) |-> s[k]]
  BY <1>2, <1>6
<1> QED BY <1>1, <1>7

\* And where nothing is left out all positions stay.
LEMMA OnlyAll ==
  ASSUME NEW S, NEW s, NEW P, s \in Seq(S), P \in SUBSET (1..Len(s))
  PROVE  Only(s, P) = s <=> P = 1..Len(s)
<1>1. DOMAIN s = 1..Len(s) /\ Len(s) \in Nat
  OBVIOUS
<1>2. ASSUME P = 1..Len(s)
      PROVE  Only(s, P) = s
  <2>1. Thins(S, Only(s, P), s, P)
    BY OnlyThins
  <2>2. Thins(S, Only(s, P), s, 1..Len(s))
    BY <1>2, <2>1
  <2> QED BY <2>2, ThinsAll
<1>3. ASSUME Only(s, P) = s
      PROVE  P = 1..Len(s)
  <2>1. PICK e : Enumerates(e, P) /\ Only(s, P) = [k \in DOMAIN e |-> s[e[k]]]
    BY OnlyEnumerates
  <2>2. DOMAIN e = 1..Len(s)
    BY <1>1, <1>3, <2>1
  <2>3. IsFiniteSet(1..Len(s)) /\ Cardinality(1..Len(s)) = Len(s)
    <3>1. /\ IsFiniteSet(1..Len(s))
          /\ Cardinality(1..Len(s)) = IF 1 > Len(s) THEN 0 ELSE (Len(s) - 1) + 1
      BY <1>1, 1 \in Int, Len(s) \in Int, FS_Interval
    <3> QED BY <1>1, <3>1
  <2>4. IsFiniteSet(P) /\ P \in SUBSET Nat
    <3>1. IsFiniteSet(P)
      BY <2>3, FS_Subset
    <3> QED BY <1>1, <3>1
  <2>5. Cardinality({k \in DOMAIN e : e[k] \in P}) = Cardinality(P)
    <3>1. P \in SUBSET P
      OBVIOUS
    <3>2. Enumerates(e, P) /\ IsFiniteSet(P) /\ P \in SUBSET Nat
      BY <2>1, <2>4
    <3> QED BY ONLY <3>1, <3>2, EnumerationCounts
  <2>6. {k \in DOMAIN e : e[k] \in P} = 1..Len(s)
    <3>1. \A k \in DOMAIN e : e[k] \in P
      BY <2>1, <2>4, EnumeratesType
    <3> QED BY <2>2, <3>1
  <2>7. Cardinality(P) = Cardinality(1..Len(s))
    BY <2>5, <2>6
  <2> QED BY <2>3, <2>7, FS_Subset
<1> QED BY <1>2, <1>3

\* The first positions stay where they are if none of them goes.
LEMMA PrefixStays ==
  ASSUME NEW e, NEW P, NEW n, P \in SUBSET (Nat \ {0}), Enumerates(e, P), n \in Nat,
         1..n \subseteq P
  PROVE  /\ \A k \in 1..n : k \in DOMAIN e /\ e[k] = k
         /\ \A k \in DOMAIN e : k > n => e[k] > n
<1> DEFINE T == {m \in Nat : m \in 1..n => m \in DOMAIN e /\ e[m] = m}
<1>1. /\ Len(e) \in Nat /\ DOMAIN e = 1..Len(e)
      /\ \A k \in DOMAIN e : k \in Nat /\ e[k] \in P /\ e[k] \in Nat
      /\ \A j, k \in DOMAIN e : j < k => e[j] < e[k]
      /\ \A i \in P : \E k \in DOMAIN e : e[k] = i
  BY EnumeratesType
<1>2. 0 \in T
  OBVIOUS
<1>3. ASSUME NEW m \in Nat, m \in T
      PROVE  m + 1 \in T
  <2> SUFFICES ASSUME m + 1 \in 1..n
               PROVE  m + 1 \in DOMAIN e /\ e[m + 1] = m + 1
    OBVIOUS
  <2>1. m + 1 \in P
    OBVIOUS
  <2>2. CASE m = 0
    <3>1. PICK k \in DOMAIN e : e[k] = 1
      BY <1>1, <2>1, <2>2
    <3>2. k = 1
      <4>1. 1 \in DOMAIN e /\ k \in Nat /\ k >= 1
        BY <1>1
      <4>2. e[1] \in P /\ e[1] \in Nat /\ e[1] # 0
        BY <1>1, <4>1
      <4>3. 1 < k => e[1] < e[k]
        BY <1>1, <4>1
      <4> QED BY <3>1, <4>1, <4>2, <4>3
    <3> QED BY <2>2, <3>1, <3>2
  <2>3. CASE m # 0
    <3>1. m \in DOMAIN e /\ e[m] = m
      BY <1>3, <2>3
    <3>2. P \in SUBSET Nat /\ e[m] + 1 \in P
      BY <2>1, <3>1
    <3>3. m + 1 \in DOMAIN e /\ e[m + 1] = e[m] + 1
      BY <3>1, <3>2, NextStays
    <3> QED BY <3>1, <3>3
  <2> QED BY <2>2, <2>3
<1>4. \A m \in Nat : m \in T
  <2> HIDE DEF T
  <2> QED BY <1>2, <1>3, Induction
<1>5. \A k \in 1..n : k \in DOMAIN e /\ e[k] = k
  BY <1>4
<1>6. ASSUME NEW k \in DOMAIN e, k > n
      PROVE  e[k] > n
  <2>1. CASE n = 0
    BY <1>1, <2>1
  <2>2. CASE n # 0
    <3>1. n \in DOMAIN e /\ e[n] = n
      BY <1>5, <2>2
    <3> QED BY <1>1, <1>6, <3>1
  <2> QED BY <2>1, <2>2
<1> QED BY <1>5, <1>6
===========================================================================
