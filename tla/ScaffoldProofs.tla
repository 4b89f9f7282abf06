-------------------------- MODULE ScaffoldProofs --------------------------
(***************************************************************************)
(* The properties of Scaffold for every value of its constants.            *)
(*                                                                         *)
(* The units' blocks: a block that is in a file lies there once and whole, *)
(* the user's lines around it stay, and a hook lies below its key          *)
(* (InstalledThere, NothingLeft, HooksPlaced, UserLinesKept, TypeOK).  The *)
(* first part proves what the functions of MarkerBlocks do to such a file; *)
(* the next, that the commands call them in an order that a crash, a retry *)
(* and the other units cannot upset.                                       *)
(*                                                                         *)
(* The round trip: once no unit is left a file is line by line what it     *)
(* was before the first one came (RoundTrip).  Its lemmas come last.       *)
(*                                                                         *)
(* SpecKit's state: a branch of the user's is never deleted, and           *)
(* feature.json never names a directory that is gone.  These are about the *)
(* order of the steps alone; lines play no part in them.                   *)
(***************************************************************************)
EXTENDS Scaffold, SequenceLemmas

----------------------------------------------------------------------------
(* Lines, blocks and what is left of both. *)

\* What a line is, by its role.
LEMMA Roles ==
  /\ \A b : Begin(b)[1] = "begin" /\ Body(b)[1] = "body" /\ End(b)[1] = "end"
  /\ \A t : Text(t)[1] = "text" /\ Item(t)[1] = "item" /\ KeyLine(t)[1] = "key"
  /\ Blank[1] = "blank" /\ Hooks[1] = "hooks" /\ Broken[1] = "broken"
  /\ Garbled[1] = "garbled"
BY DEF Begin, Body, End, Text, Item, KeyLine, Blank, Hooks, Broken, Garbled

\* A marker names its block, and a key line its key.
LEMMA SameName ==
  ASSUME NEW a, NEW b
  PROVE  /\ Begin(a) = Begin(b) => a = b
         /\ Body(a) = Body(b) => a = b
         /\ End(a) = End(b) => a = b
         /\ KeyLine(a) = KeyLine(b) => a = b
BY DEF Begin, Body, End, KeyLine

\* Three lines of three roles.
LEMMA Apart3 ==
  ASSUME NEW a, NEW b
  PROVE  Begin(a) # Body(b) /\ Begin(a) # End(b) /\ Body(a) # End(b)
<1>1. Begin(a)[1] = "begin" /\ Body(b)[1] = "body" /\ End(b)[1] = "end" /\ Body(a)[1] = "body"
  BY Roles
<1> QED BY <1>1

\* Is block b in s?
Has(s, b) == \E i \in DOMAIN s : s[i] = Begin(b)

\* Is l a line of a block of B?
OfBlock(l, B) == \E b \in B : l \in {Begin(b), Body(b), End(b)}

\* The marked lines of s are those of blocks of B.
Declared(s, B) == \A i \in DOMAIN s : IsMarked(s[i]) => OfBlock(s[i], B)

\* Each block of B that is in s lies there at once.
Opened(s, B) ==
  \A b \in B : \A i \in DOMAIN s : s[i] = Begin(b) =>
    i + 2 \in DOMAIN s /\ s[i + 1] = Body(b) /\ s[i + 2] = End(b)

Closed(s, B) ==
  \A b \in B : \A i \in DOMAIN s :
    /\ s[i] = Body(b) => i - 1 \in DOMAIN s /\ s[i - 1] = Begin(b)
    /\ s[i] = End(b) => i - 2 \in DOMAIN s /\ s[i - 2] = Begin(b)

Once(s, B) ==
  \A b \in B : \A i, j \in DOMAIN s : s[i] = Begin(b) /\ s[j] = Begin(b) => i = j

Whole(s, B) == Opened(s, B) /\ Closed(s, B) /\ Once(s, B)

\* No block of s is cut by a line put in front of position p.
Between(s, B, p) ==
  \A b \in B : \A q \in DOMAIN s : s[q] = Begin(b) => p <= q \/ q + 2 < p

\* The blocks of s are in P with all lines or with none.
Together(s, B, P) ==
  \A b \in B : \A i \in DOMAIN s : s[i] = Begin(b) =>
    /\ i \in P => i + 1 \in P /\ i + 2 \in P
    /\ i + 1 \in P \/ i + 2 \in P => i \in P

\* No block is in both.
Strangers(s, t, B) == \A b \in B : ~(Has(s, b) /\ Has(t, b))

\* Where a line of a splice comes from.
From(r, s, p, t, j) ==
  \/ j < p /\ j \in DOMAIN s /\ r[j] = s[j]
  \/ \E k \in DOMAIN t : j = (p - 1) + k /\ r[j] = t[k]
  \/ \E k \in DOMAIN s : p <= k /\ j = k + Len(t) /\ r[j] = s[k]

\* And where a line goes.
Goes(r, s, p, t) ==
  /\ \A j \in DOMAIN s : j < p => j \in DOMAIN r /\ r[j] = s[j]
  /\ \A j \in DOMAIN s : p <= j => j + Len(t) \in DOMAIN r /\ r[j + Len(t)] = s[j]
  /\ \A j \in DOMAIN t : (p - 1) + j \in DOMAIN r /\ r[(p - 1) + j] = t[j]

\* Each line of a splice comes from s or from t.
LEMMA SpliceFrom ==
  ASSUME NEW S, NEW r, NEW s, NEW t, NEW p, NEW j, Splices(S, r, s, p, t),
         j \in DOMAIN r
  PROVE  From(r, s, p, t, j)
<1>0. r \in Seq(S) /\ s \in Seq(S) /\ t \in Seq(S) /\ p \in 1..(Len(s) + 1)
  BY DEF Splices
<1>1. /\ Len(t) \in Nat /\ Len(s) \in Nat /\ Len(r) = Len(s) + Len(t)
      /\ DOMAIN r = 1..Len(r) /\ DOMAIN s = 1..Len(s) /\ DOMAIN t = 1..Len(t)
      /\ p \in Nat /\ j \in Nat /\ p >= 1 /\ j >= 1 /\ j <= Len(r) /\ p <= Len(s) + 1
  BY <1>0 DEF Splices
<1>2. CASE j < p
  <2>1. j \in 1..(p - 1) /\ j \in DOMAIN s
    BY <1>1, <1>2
  <2> QED BY <1>2, <2>1 DEF Splices, From
<1>3. CASE p <= j /\ j < p + Len(t)
  <2>1. j - p + 1 \in 1..Len(t) /\ j = (p - 1) + (j - p + 1)
    BY <1>1, <1>3
  <2>2. r[(p - 1) + (j - p + 1)] = t[j - p + 1]
    BY <2>1 DEF Splices
  <2> QED BY <1>1, <2>1, <2>2 DEF From
<1>4. CASE p + Len(t) <= j
  <2>1. j - Len(t) \in p..Len(s) /\ j - Len(t) \in DOMAIN s /\ p <= j - Len(t)
        /\ j = (j - Len(t)) + Len(t)
    BY <1>1, <1>4
  <2>2. r[(j - Len(t)) + Len(t)] = s[j - Len(t)]
    BY <2>1 DEF Splices
  <2> QED BY <2>1, <2>2 DEF From
<1> QED BY <1>1, <1>2, <1>3, <1>4

\* Each line of s and of t is in the splice.
LEMMA SpliceTo ==
  ASSUME NEW S, NEW r, NEW s, NEW t, NEW p, Splices(S, r, s, p, t)
  PROVE  Goes(r, s, p, t)
<1>0. r \in Seq(S) /\ s \in Seq(S) /\ t \in Seq(S) /\ p \in 1..(Len(s) + 1)
  BY DEF Splices
<1>1. /\ Len(t) \in Nat /\ Len(s) \in Nat /\ Len(r) = Len(s) + Len(t)
      /\ DOMAIN r = 1..Len(r) /\ DOMAIN s = 1..Len(s) /\ DOMAIN t = 1..Len(t)
      /\ p \in Nat /\ p >= 1 /\ p <= Len(s) + 1
  BY <1>0 DEF Splices
<1>2. \A j \in DOMAIN s : j < p => j \in DOMAIN r /\ j \in 1..(p - 1)
  BY <1>1
<1>3. \A j \in DOMAIN s : p <= j => j + Len(t) \in DOMAIN r /\ j \in p..Len(s)
  BY <1>1
<1>4. \A j \in DOMAIN t : (p - 1) + j \in DOMAIN r /\ j \in 1..Len(t)
  BY <1>1
<1> QED BY <1>1, <1>2, <1>3, <1>4 DEF Splices, Goes

\* Whole blocks put between whole blocks.
LEMMA WholeSplice ==
  ASSUME NEW S, NEW r, NEW s, NEW t, NEW B, NEW p, Splices(S, r, s, p, t),
         Whole(s, B), Whole(t, B), Between(s, B, p), Strangers(s, t, B)
  PROVE  /\ Whole(r, B)
         /\ \A b \in B : Has(r, b) <=> Has(s, b) \/ Has(t, b)
<1> DEFINE n == Len(t)
<1>1. /\ \A j \in DOMAIN s : j < p => j \in DOMAIN r /\ r[j] = s[j]
      /\ \A j \in DOMAIN s : p <= j => j + n \in DOMAIN r /\ r[j + n] = s[j]
      /\ \A j \in DOMAIN t : (p - 1) + j \in DOMAIN r /\ r[(p - 1) + j] = t[j]
  BY SpliceTo DEF Goes
<1>2. ASSUME NEW j \in DOMAIN r
      PROVE  \/ j < p /\ j \in DOMAIN s /\ r[j] = s[j]
             \/ \E k \in DOMAIN t : j = (p - 1) + k /\ r[j] = t[k]
             \/ \E k \in DOMAIN s : p <= k /\ j = k + n /\ r[j] = s[k]
  BY SpliceFrom DEF From
<1>3. /\ n \in Nat /\ p \in Int
      /\ \A j \in DOMAIN s : j \in Int
      /\ \A j \in DOMAIN t : j \in Int
      /\ \A j \in DOMAIN r : j \in Int
      /\ \A j \in DOMAIN s : j + 2 \in DOMAIN s => j + 1 \in DOMAIN s
      /\ \A j \in DOMAIN t : j + 2 \in DOMAIN t => j + 1 \in DOMAIN t
  <2>1. DOMAIN s = 1..Len(s) /\ DOMAIN t = 1..Len(t) /\ DOMAIN r = 1..Len(r)
        /\ Len(t) \in Nat /\ p \in Int
    BY DEF Splices
  <2> QED BY <2>1
<1> HIDE DEF n
<1>5. Opened(r, B)
  <2> SUFFICES ASSUME NEW b \in B, NEW j \in DOMAIN r, r[j] = Begin(b)
               PROVE  j + 2 \in DOMAIN r /\ r[j + 1] = Body(b) /\ r[j + 2] = End(b)
    BY DEF Opened
  <2>1. CASE j < p /\ j \in DOMAIN s /\ r[j] = s[j]
    <3>0. j \in DOMAIN s /\ s[j] = Begin(b)
      BY <2>1
    <3>1. j + 2 \in DOMAIN s /\ s[j + 1] = Body(b) /\ s[j + 2] = End(b) /\ j + 2 < p
      <4>1. j + 2 \in DOMAIN s /\ s[j + 1] = Body(b) /\ s[j + 2] = End(b)
        BY <3>0 DEF Whole, Opened
      <4>2. p <= j \/ j + 2 < p
        BY <3>0 DEF Between
      <4> QED BY <1>3, <2>1, <4>1, <4>2
    <3>2. j + 1 \in DOMAIN s /\ j + 1 < p
      BY <1>3, <2>1, <3>1
    <3> QED BY <1>1, <3>1, <3>2
  <2>2. ASSUME NEW k \in DOMAIN t, j = (p - 1) + k, r[j] = t[k]
        PROVE  j + 2 \in DOMAIN r /\ r[j + 1] = Body(b) /\ r[j + 2] = End(b)
    <3>1. k + 2 \in DOMAIN t /\ t[k + 1] = Body(b) /\ t[k + 2] = End(b)
      BY <2>2 DEF Whole, Opened
    <3>2. k + 1 \in DOMAIN t /\ k \in Int
      BY <1>3, <2>2, <3>1
    <3>3. j + 1 = (p - 1) + (k + 1) /\ j + 2 = (p - 1) + (k + 2)
      <4>1. \A x, y \in Int : ((x - 1) + y) + 1 = (x - 1) + (y + 1)
                              /\ ((x - 1) + y) + 2 = (x - 1) + (y + 2)
        OBVIOUS
      <4>2. p \in Int /\ k \in Int /\ j = (p - 1) + k
        BY <1>3, <2>2, <3>2
      <4> QED BY ONLY <4>1, <4>2
    <3> QED BY <1>1, <3>1, <3>2, <3>3
  <2>3. ASSUME NEW k \in DOMAIN s, p <= k, j = k + n, r[j] = s[k]
        PROVE  j + 2 \in DOMAIN r /\ r[j + 1] = Body(b) /\ r[j + 2] = End(b)
    <3>1. k + 2 \in DOMAIN s /\ s[k + 1] = Body(b) /\ s[k + 2] = End(b)
      BY <2>3 DEF Whole, Opened
    <3>2. k + 1 \in DOMAIN s /\ j + 1 = (k + 1) + n /\ j + 2 = (k + 2) + n
          /\ p <= k + 1 /\ p <= k + 2
      BY <1>3, <2>3, <3>1
    <3> QED BY <1>1, <3>1, <3>2
  <2> QED BY <1>2, <2>1, <2>2, <2>3
<1>6. Closed(r, B)
  <2> SUFFICES ASSUME NEW b \in B, NEW j \in DOMAIN r
               PROVE  /\ r[j] = Body(b) => j - 1 \in DOMAIN r /\ r[j - 1] = Begin(b)
                      /\ r[j] = End(b) => j - 2 \in DOMAIN r /\ r[j - 2] = Begin(b)
    BY DEF Closed
  <2>1. CASE j < p /\ j \in DOMAIN s /\ r[j] = s[j]
    <3>1. /\ s[j] = Body(b) => j - 1 \in DOMAIN s /\ s[j - 1] = Begin(b)
          /\ s[j] = End(b) => j - 2 \in DOMAIN s /\ s[j - 2] = Begin(b)
      BY <2>1 DEF Whole, Closed
    <3>2. j - 1 < p /\ j - 2 < p
      BY <1>3, <2>1
    <3> QED BY <1>1, <2>1, <3>1, <3>2
  <2>2. ASSUME NEW k \in DOMAIN t, j = (p - 1) + k, r[j] = t[k]
        PROVE  /\ r[j] = Body(b) => j - 1 \in DOMAIN r /\ r[j - 1] = Begin(b)
               /\ r[j] = End(b) => j - 2 \in DOMAIN r /\ r[j - 2] = Begin(b)
    <3>1. /\ t[k] = Body(b) => k - 1 \in DOMAIN t /\ t[k - 1] = Begin(b)
          /\ t[k] = End(b) => k - 2 \in DOMAIN t /\ t[k - 2] = Begin(b)
      BY DEF Whole, Closed
    <3>2. j - 1 = (p - 1) + (k - 1) /\ j - 2 = (p - 1) + (k - 2)
      BY <1>3, <2>2
    <3> QED BY <1>1, <2>2, <3>1, <3>2
  <2>3. ASSUME NEW k \in DOMAIN s, p <= k, j = k + n, r[j] = s[k]
        PROVE  /\ r[j] = Body(b) => j - 1 \in DOMAIN r /\ r[j - 1] = Begin(b)
               /\ r[j] = End(b) => j - 2 \in DOMAIN r /\ r[j - 2] = Begin(b)
    <3>1. /\ s[k] = Body(b) => k - 1 \in DOMAIN s /\ s[k - 1] = Begin(b)
          /\ s[k] = End(b) => k - 2 \in DOMAIN s /\ s[k - 2] = Begin(b)
      BY DEF Whole, Closed
    <3>2. /\ k - 1 \in DOMAIN s /\ s[k - 1] = Begin(b) => p <= k - 1
          /\ k - 2 \in DOMAIN s /\ s[k - 2] = Begin(b) => p <= k - 2
      BY <1>3, <2>3 DEF Between
    <3>3. j - 1 = (k - 1) + n /\ j - 2 = (k - 2) + n
      BY <1>3, <2>3
    <3> QED BY <1>1, <2>3, <3>1, <3>2, <3>3
  <2> QED BY <1>2, <2>1, <2>2, <2>3
<1>7. Once(r, B)
  <2> SUFFICES ASSUME NEW b \in B, NEW i \in DOMAIN r, NEW j \in DOMAIN r,
                      r[i] = Begin(b), r[j] = Begin(b)
               PROVE  i = j
    BY DEF Once
  <2>1. /\ \A k, m \in DOMAIN s : s[k] = Begin(b) /\ s[m] = Begin(b) => k = m
        /\ \A k, m \in DOMAIN t : t[k] = Begin(b) /\ t[m] = Begin(b) => k = m
        /\ \A k \in DOMAIN s : \A m \in DOMAIN t : ~(s[k] = Begin(b) /\ t[m] = Begin(b))
    BY DEF Whole, Once, Has, Strangers
  <2>2. \/ j < p /\ j \in DOMAIN s /\ r[j] = s[j]
        \/ \E k \in DOMAIN t : j = (p - 1) + k /\ r[j] = t[k]
        \/ \E k \in DOMAIN s : p <= k /\ j = k + n /\ r[j] = s[k]
    BY <1>2
  <2>3. \/ i < p /\ i \in DOMAIN s /\ r[i] = s[i]
        \/ \E k \in DOMAIN t : i = (p - 1) + k /\ r[i] = t[k]
        \/ \E k \in DOMAIN s : p <= k /\ i = k + n /\ r[i] = s[k]
    BY <1>2
  <2> QED BY <1>3, <2>1, <2>2, <2>3
<1>8. ASSUME NEW b \in B
      PROVE  Has(r, b) <=> Has(s, b) \/ Has(t, b)
  <2>1. ASSUME NEW j \in DOMAIN r, r[j] = Begin(b)
        PROVE  Has(s, b) \/ Has(t, b)
    BY <1>2, <2>1 DEF Has
  <2>2. ASSUME NEW j \in DOMAIN s, s[j] = Begin(b)
        PROVE  Has(r, b)
    <3>1. j < p \/ p <= j
      BY <1>3
    <3> QED BY <1>1, <2>2, <3>1 DEF Has
  <2>3. ASSUME NEW j \in DOMAIN t, t[j] = Begin(b)
        PROVE  Has(r, b)
    BY <1>1, <2>3 DEF Has
  <2> QED BY <2>1, <2>2, <2>3 DEF Has
<1> QED BY <1>5, <1>6, <1>7, <1>8 DEF Whole

\* Whole blocks with others taken out.
LEMMA WholeThins ==
  ASSUME NEW S, NEW r, NEW s, NEW B, NEW P, Thins(S, r, s, P), Whole(s, B),
         Together(s, B, P)
  PROVE  /\ Whole(r, B)
         /\ \A b \in B : Has(r, b) <=> \E i \in P : s[i] = Begin(b)
<1>1. PICK e : Enumerates(e, P) /\ r = [k \in DOMAIN e |-> s[e[k]]]
  BY DEF Thins
<1>2. P \in SUBSET Nat /\ \A i \in P : i \in DOMAIN s
  BY DEF Thins
<1>3. /\ Len(e) \in Nat /\ DOMAIN e = 1..Len(e)
      /\ \A k \in DOMAIN e : k \in Nat /\ e[k] \in P /\ e[k] \in Nat
      /\ \A j, k \in DOMAIN e : j < k => e[j] < e[k]
      /\ \A i \in P : \E k \in DOMAIN e : e[k] = i
  BY <1>1, <1>2, EnumeratesType
<1>4. /\ \A k \in DOMAIN e : e[k] + 1 \in P => k + 1 \in DOMAIN e /\ e[k + 1] = e[k] + 1
      /\ \A k \in DOMAIN e : e[k] - 1 \in P => k - 1 \in DOMAIN e /\ e[k - 1] = e[k] - 1
  BY <1>1, <1>2, NextStays
<1>5. DOMAIN r = DOMAIN e /\ \A k \in DOMAIN e : r[k] = s[e[k]] /\ e[k] \in DOMAIN s
  BY <1>1, <1>2, <1>3
<1>7. Opened(r, B)
  <2> SUFFICES ASSUME NEW b \in B, NEW k \in DOMAIN r, r[k] = Begin(b)
               PROVE  k + 2 \in DOMAIN r /\ r[k + 1] = Body(b) /\ r[k + 2] = End(b)
    BY DEF Opened
  <2>1. k \in DOMAIN e /\ s[e[k]] = Begin(b) /\ e[k] \in DOMAIN s /\ e[k] \in P
    BY <1>3, <1>5
  <2>2. s[e[k] + 1] = Body(b) /\ s[e[k] + 2] = End(b)
    BY <2>1 DEF Whole, Opened
  <2>3. e[k] + 1 \in P /\ e[k] + 2 \in P
    BY <2>1 DEF Together
  <2>4. k + 1 \in DOMAIN e /\ e[k + 1] = e[k] + 1
    BY <1>4, <2>1, <2>3
  <2>5. (e[k] + 1) + 1 = e[k] + 2 /\ (k + 1) + 1 = k + 2
    BY <1>3, <2>1
  <2>6. k + 2 \in DOMAIN e /\ e[k + 2] = e[k] + 2
    BY <1>4, <2>3, <2>4, <2>5
  <2> QED BY <1>5, <2>2, <2>4, <2>6
<1>8. Closed(r, B)
  <2> SUFFICES ASSUME NEW b \in B, NEW k \in DOMAIN r
               PROVE  /\ r[k] = Body(b) => k - 1 \in DOMAIN r /\ r[k - 1] = Begin(b)
                      /\ r[k] = End(b) => k - 2 \in DOMAIN r /\ r[k - 2] = Begin(b)
    BY DEF Closed
  <2>1. k \in DOMAIN e /\ e[k] \in DOMAIN s /\ e[k] \in P /\ r[k] = s[e[k]] /\ e[k] \in Nat
        /\ k \in Nat
    BY <1>3, <1>5
  <2>2. ASSUME r[k] = Body(b)
        PROVE  k - 1 \in DOMAIN r /\ r[k - 1] = Begin(b)
    <3>1. e[k] - 1 \in DOMAIN s /\ s[e[k] - 1] = Begin(b)
      BY <2>1, <2>2 DEF Whole, Closed
    <3>2. (e[k] - 1) + 1 = e[k]
      BY <2>1
    <3>3. e[k] - 1 \in P
      BY <2>1, <3>1, <3>2 DEF Together
    <3> QED BY <1>4, <1>5, <2>1, <3>1, <3>3
  <2>3. ASSUME r[k] = End(b)
        PROVE  k - 2 \in DOMAIN r /\ r[k - 2] = Begin(b)
    <3>1. e[k] - 2 \in DOMAIN s /\ s[e[k] - 2] = Begin(b)
      BY <2>1, <2>3 DEF Whole, Closed
    <3>2. (e[k] - 2) + 2 = e[k] /\ (e[k] - 2) + 1 = e[k] - 1 /\ (e[k] - 1) - 1 = e[k] - 2
          /\ (k - 1) - 1 = k - 2
      BY <2>1
    <3>3. e[k] - 2 \in P /\ e[k] - 1 \in P
      BY <2>1, <3>1, <3>2 DEF Together
    <3>4. k - 1 \in DOMAIN e /\ e[k - 1] = e[k] - 1
      BY <1>4, <2>1, <3>3
    <3>5. k - 2 \in DOMAIN e /\ e[k - 2] = e[k] - 2
      BY <1>4, <3>2, <3>3, <3>4
    <3> QED BY <1>5, <3>1, <3>5
  <2> QED BY <2>2, <2>3
<1>9. Once(r, B)
  <2> SUFFICES ASSUME NEW b \in B, NEW i \in DOMAIN r, NEW j \in DOMAIN r,
                      r[i] = Begin(b), r[j] = Begin(b)
               PROVE  i = j
    BY DEF Once
  <2>1. e[i] = e[j]
    BY <1>5 DEF Whole, Once
  <2>2. ~(i < j) /\ ~(j < i)
    <3>1. i < j => e[i] < e[j]
      BY <1>3, <1>5
    <3>2. j < i => e[j] < e[i]
      BY <1>3, <1>5
    <3>3. e[i] \in Nat
      BY <1>3, <1>5
    <3> QED BY <2>1, <3>1, <3>2, <3>3
  <2>3. i \in Nat /\ j \in Nat
    BY <1>3, <1>5
  <2> QED BY <2>2, <2>3
<1>10. ASSUME NEW b \in B
       PROVE  Has(r, b) <=> \E i \in P : s[i] = Begin(b)
  BY <1>3, <1>5 DEF Has
<1> QED BY <1>7, <1>8, <1>9, <1>10 DEF Whole

----------------------------------------------------------------------------
(* The lines that are not of the blocks, and hooks below their keys. *)

\* Is line l of a kind that the functions on blocks neither put nor take?
IsForeign(l) == l[1] \in {"text", "item", "broken", "garbled"}

\* Is line l of such a kind, or of a block that is not among those of B?
IsRest(l, B) == IsForeign(l) \/ (IsMarked(l) /\ ~OfBlock(l, B))

\* The lines that the functions on the blocks of B leave as they are.
Rest(s, B) == Only(s, {i \in DOMAIN s : IsRest(s[i], B)})

NoRest(t, B) == \A i \in DOMAIN t : ~IsRest(t[i], B)

RestIn(s, B, P) == \A i \in DOMAIN s : IsRest(s[i], B) => i \in P

\* Blank lines, keys and lines of the blocks are not among them.
LEMMA NotRest ==
  ASSUME NEW B
  PROVE  /\ \A l : ~IsMarked(l) /\ ~IsForeign(l) => ~IsRest(l, B)
         /\ \A b \in B : /\ ~IsRest(Begin(b), B) /\ ~IsRest(Body(b), B)
                        /\ ~IsRest(End(b), B)
<1>1. \A b : ~IsForeign(Begin(b)) /\ ~IsForeign(Body(b)) /\ ~IsForeign(End(b))
  BY Roles DEF IsForeign
<1>2. \A b \in B : /\ OfBlock(Begin(b), B) /\ OfBlock(Body(b), B)
                /\ OfBlock(End(b), B)
  BY DEF OfBlock
<1> QED BY <1>1, <1>2 DEF IsRest

\* What is left is a sequence of lines of s.
LEMMA ThinsType ==
  ASSUME NEW S, NEW r, NEW s, NEW P, Thins(S, r, s, P)
  PROVE  /\ r \in Seq(S)
         /\ \A k \in DOMAIN r : \E i \in P : r[k] = s[i]
         /\ \A i \in P : \E k \in DOMAIN r : r[k] = s[i]
<1>1. PICK e : Enumerates(e, P) /\ r = [k \in DOMAIN e |-> s[e[k]]]
  BY DEF Thins
<1>2. P \in SUBSET Nat /\ \A i \in P : s[i] \in S
  BY DEF Thins
<1>3. /\ Len(e) \in Nat /\ DOMAIN e = 1..Len(e)
      /\ \A k \in DOMAIN e : e[k] \in P
      /\ \A i \in P : \E k \in DOMAIN e : e[k] = i
  BY <1>1, <1>2, EnumeratesType
<1>4. r = [k \in 1..Len(e) |-> s[e[k]]] /\ \A k \in 1..Len(e) : s[e[k]] \in S
  BY <1>1, <1>2, <1>3
<1>5. r \in Seq(S)
  BY <1>3, <1>4
<1> QED BY <1>1, <1>3, <1>5

\* These lines stay where all of them stay.
LEMMA RestThins ==
  ASSUME NEW S, NEW r, NEW s, NEW P, NEW B, Thins(S, r, s, P), RestIn(s, B, P)
  PROVE  Rest(r, B) = Rest(s, B)
<1> DEFINE K == {l \in S : IsRest(l, B)}
<1>1. r \in Seq(S) /\ s \in Seq(S)
  BY ThinsType DEF Thins
<1>2. ASSUME NEW q \in Seq(S)
      PROVE  Rest(q, B) = Only(q, Where(q, K))
  <2>1. \A i \in DOMAIN q : q[i] \in S
    OBVIOUS
  <2>2. {i \in DOMAIN q : IsRest(q[i], B)} = Where(q, K)
    BY <2>1 DEF Where
  <2> QED BY <2>2 DEF Rest
<1>3. Where(s, K) \subseteq P
  BY DEF Where, RestIn
<1> HIDE DEF K
<1>4. Only(r, Where(r, K)) = Only(s, Where(s, K))
  BY <1>3, ThinsKeeps
<1> QED BY <1>1, <1>2, <1>4

\* Other lines come between them.
LEMMA RestSplice ==
  ASSUME NEW S, NEW r, NEW s, NEW t, NEW p, NEW B, Splices(S, r, s, p, t), NoRest(t, B)
  PROVE  Rest(r, B) = Rest(s, B)
<1> DEFINE P == (1..Len(r)) \ (p..(p + Len(t) - 1))
<1>1. Thins(S, s, r, P)
  BY SplicesThins
<1>2. ASSUME NEW j \in DOMAIN r, IsRest(r[j], B)
      PROVE  j \in P
  <2>1. j \in 1..Len(r) /\ Len(t) \in Nat /\ p \in Nat /\ DOMAIN t = 1..Len(t)
    BY DEF Splices
  <2>2. SUFFICES ASSUME j \in p..(p + Len(t) - 1)
                 PROVE  FALSE
    BY <2>1
  <2>3. j - p + 1 \in 1..Len(t) /\ (p - 1) + (j - p + 1) = j
    BY <2>1, <2>2
  <2>4. r[j] = t[j - p + 1]
    BY <2>3 DEF Splices
  <2>5. j - p + 1 \in DOMAIN t
    BY <2>1, <2>3
  <2> QED BY <1>2, <2>4, <2>5 DEF NoRest
<1> HIDE DEF P
<1>3. RestIn(r, B, P)
  BY <1>2 DEF RestIn
<1> QED BY <1>1, <1>3, RestThins

\* Does line l begin a list, or end the one above it?
Owns(l) == l[1] \in {"key", "hooks", "text"}

\* Position i of s is in the list of key k.
Under(s, i, k) ==
  \E o \in 1..(i - 1) : s[o] = KeyLine(k) /\ \A j \in (o + 1)..(i - 1) : ~Owns(s[j])

\* The hook of block b lies in the list of key k.
Placed(s, b, k) == \A i \in DOMAIN s : s[i] = Body(b) => Under(s, i, k)

\* The lines of key k are in P.
KeyIn(s, k, P) == \A i \in DOMAIN s : s[i] = KeyLine(k) => i \in P

\* Line l is not in t.
Lacks(t, l) == \A j \in DOMAIN t : t[j] # l

\* Lines t, put in front of position p, come between no hook and its key.
Aside(s, p, t) ==
  \/ \A j \in DOMAIN t : ~Owns(t[j])
  \/ p = Len(s) + 1
  \/ p - 1 \in DOMAIN s /\ s[p - 1] = Hooks

\* A hook keeps its key when nothing comes between them.
LEMMA PlacedSplice ==
  ASSUME NEW S, NEW r, NEW s, NEW t, NEW b, NEW k, NEW p,
         Splices(S, r, s, p, t), Placed(s, b, k), Lacks(t, Body(b)),
         Aside(s, p, t)
  PROVE  Placed(r, b, k)
<1> DEFINE n == Len(t)
<1>1. /\ \A j \in DOMAIN s : j < p => j \in DOMAIN r /\ r[j] = s[j]
      /\ \A j \in DOMAIN s : p <= j => j + n \in DOMAIN r /\ r[j + n] = s[j]
      /\ \A j \in DOMAIN t : (p - 1) + j \in DOMAIN r /\ r[(p - 1) + j] = t[j]
  BY SpliceTo DEF Goes
<1>2. ASSUME NEW j \in DOMAIN r
      PROVE  \/ j < p /\ j \in DOMAIN s /\ r[j] = s[j]
             \/ \E m \in DOMAIN t : j = (p - 1) + m /\ r[j] = t[m]
             \/ \E m \in DOMAIN s : p <= m /\ j = m + n /\ r[j] = s[m]
  BY SpliceFrom DEF From
<1>3. /\ n \in Nat /\ p \in Int /\ p >= 1 /\ Len(s) \in Nat /\ Len(r) = Len(s) + n
      /\ DOMAIN s = 1..Len(s) /\ DOMAIN r = 1..Len(r) /\ DOMAIN t = 1..n
  BY DEF Splices
<1> HIDE DEF n
<1> SUFFICES ASSUME NEW i \in DOMAIN r, r[i] = Body(b)
             PROVE  Under(r, i, k)
  BY DEF Placed
<1>4. CASE i < p /\ i \in DOMAIN s /\ r[i] = s[i]
  <2>1. PICK o \in 1..(i - 1) : s[o] = KeyLine(k) /\ \A j \in (o + 1)..(i - 1) : ~Owns(s[j])
    BY <1>4 DEF Placed, Under
  <2>2. \A j \in 1..(i - 1) : j \in DOMAIN s /\ j < p
    BY <1>3, <1>4
  <2>3. r[o] = KeyLine(k)
    BY <1>1, <2>1, <2>2
  <2>4. \A j \in (o + 1)..(i - 1) : j \in 1..(i - 1)
    BY <1>3, <1>4
  <2>5. \A j \in (o + 1)..(i - 1) : r[j] = s[j]
    BY <1>1, <2>2, <2>4
  <2> QED BY <2>1, <2>3, <2>5 DEF Under
<1>5. ASSUME NEW m \in DOMAIN s, p <= m, i = m + n, r[i] = s[m]
      PROVE  Under(r, i, k)
  <2>1. PICK o \in 1..(m - 1) : s[o] = KeyLine(k) /\ \A j \in (o + 1)..(m - 1) : ~Owns(s[j])
    BY <1>5 DEF Placed, Under
  <2>2. o \in DOMAIN s /\ o \in Int /\ m \in Int /\ o < m /\ m <= Len(s) /\ o >= 1
    BY <1>3, <1>5
  <2>3. CASE o < p
    <3>1. \A j \in DOMAIN t : ~Owns(t[j])
      <4>1. p # Len(s) + 1
        BY <1>3, <1>5, <2>2
      <4>2. ASSUME p - 1 \in DOMAIN s, s[p - 1] = Hooks
            PROVE  FALSE
        <5>1. Owns(Hooks)
          BY DEF Owns, Hooks
        <5>2. KeyLine(k) # Hooks
          BY DEF KeyLine, Hooks
        <5>3. p - 1 # o
          BY <2>1, <4>2, <5>2
        <5>4. p - 1 \in (o + 1)..(m - 1)
          <6>1. p \in Int /\ o \in Int /\ m \in Int /\ o < p /\ p <= m
            BY <1>3, <1>5, <2>2, <2>3
          <6> QED BY ONLY <5>3, <6>1
        <5> QED BY <2>1, <4>2, <5>1, <5>4
      <4> QED BY <4>1, <4>2 DEF Aside
    <3>2. o \in 1..(i - 1) /\ r[o] = KeyLine(k)
      BY <1>1, <1>3, <1>5, <2>1, <2>2, <2>3
    <3>3. ASSUME NEW j \in (o + 1)..(i - 1)
          PROVE  ~Owns(r[j])
      <4>1. j \in DOMAIN r /\ j \in Int
        BY <1>3, <2>2
      <4>2. CASE j < p /\ j \in DOMAIN s /\ r[j] = s[j]
        <5>1. j \in (o + 1)..(m - 1)
          BY <1>3, <1>5, <2>2, <4>1, <4>2
        <5> QED BY <2>1, <4>2, <5>1
      <4>3. ASSUME NEW x \in DOMAIN t, r[j] = t[x]
            PROVE  ~Owns(r[j])
        BY <3>1, <4>3
      <4>4. ASSUME NEW x \in DOMAIN s, p <= x, j = x + n, r[j] = s[x]
            PROVE  ~Owns(r[j])
        <5>1. x \in (o + 1)..(m - 1)
          BY <1>3, <1>5, <2>2, <2>3, <4>1, <4>4
        <5> QED BY <2>1, <4>4, <5>1
      <4> QED BY <1>2, <4>1, <4>2, <4>3, <4>4
    <3> QED BY <3>2, <3>3 DEF Under
  <2>4. CASE p <= o
    <3>1. o + n \in 1..(i - 1) /\ r[o + n] = KeyLine(k)
      BY <1>1, <1>3, <1>5, <2>1, <2>2, <2>4
    <3>2. ASSUME NEW j \in ((o + n) + 1)..(i - 1)
          PROVE  ~Owns(r[j])
      <4>1. j \in Int /\ j - n \in (o + 1)..(m - 1) /\ j - n \in DOMAIN s /\ p <= j - n
            /\ (j - n) + n = j
        BY <1>3, <1>5, <2>2, <2>4
      <4>2. r[j] = s[j - n]
        BY <1>1, <4>1
      <4> QED BY <2>1, <4>1, <4>2
    <3> QED BY <3>1, <3>2 DEF Under
  <2> QED BY <1>3, <2>2, <2>3, <2>4
<1> QED BY <1>2, <1>4, <1>5 DEF Lacks

\* A hook keeps its key when the lines of that key stay.
LEMMA PlacedThins ==
  ASSUME NEW S, NEW r, NEW s, NEW P, NEW b, NEW k, Thins(S, r, s, P),
         Placed(s, b, k), KeyIn(s, k, P)
  PROVE  Placed(r, b, k)
<1>1. PICK e : Enumerates(e, P) /\ r = [j \in DOMAIN e |-> s[e[j]]]
  BY DEF Thins
<1>2. P \in SUBSET Nat /\ DOMAIN s = 1..Len(s) /\ \A i \in P : i \in DOMAIN s
  BY DEF Thins
<1>3. /\ Len(e) \in Nat /\ DOMAIN e = 1..Len(e)
      /\ \A j \in DOMAIN e : j \in Nat /\ e[j] \in P /\ e[j] \in Nat
      /\ \A i, j \in DOMAIN e : i < j => e[i] < e[j]
      /\ \A i \in P : \E j \in DOMAIN e : e[j] = i
  BY <1>1, <1>2, EnumeratesType
<1>4. DOMAIN r = DOMAIN e /\ \A j \in DOMAIN e : r[j] = s[e[j]]
  BY <1>1
<1> SUFFICES ASSUME NEW i \in DOMAIN r, r[i] = Body(b)
             PROVE  Under(r, i, k)
  BY DEF Placed
<1>5. i \in DOMAIN e /\ e[i] \in DOMAIN s /\ s[e[i]] = Body(b) /\ e[i] \in Nat
  BY <1>2, <1>3, <1>4
<1>6. PICK o \in 1..(e[i] - 1) : s[o] = KeyLine(k) /\ \A j \in (o + 1)..(e[i] - 1) : ~Owns(s[j])
  BY <1>5 DEF Placed, Under
<1>7. o \in DOMAIN s /\ o \in P /\ o < e[i]
  BY <1>2, <1>5, <1>6 DEF KeyIn
<1>8. PICK m \in DOMAIN e : e[m] = o
  BY <1>3, <1>7
<1>9. m \in 1..(i - 1)
  <2>1. i < m => e[i] < e[m]
    BY <1>3, <1>5, <1>8
  <2>2. i # m /\ ~(i < m)
    BY <1>3, <1>5, <1>7, <1>8, <2>1
  <2> QED BY <1>3, <1>5, <1>8, <2>2
<1>10. r[m] = KeyLine(k)
  BY <1>4, <1>6, <1>8
<1>11. ASSUME NEW j \in (m + 1)..(i - 1)
       PROVE  ~Owns(r[j])
  <2>1. j \in DOMAIN e /\ m < j /\ j < i
    BY <1>3, <1>5, <1>8
  <2>2. e[m] < e[j] /\ e[j] < e[i]
    BY <1>3, <1>5, <1>8, <2>1
  <2>3. e[j] \in (o + 1)..(e[i] - 1)
    BY <1>3, <1>5, <1>8, <2>1, <2>2
  <2> QED BY <1>4, <1>6, <2>1, <2>3
<1> QED BY <1>9, <1>10, <1>11 DEF Under

\* A unit's lines, and the blank and key lines it puts around them.
Speaks(S, B) ==
  /\ Blank \in S /\ Hooks \in S
  /\ \A b \in B : Begin(b) \in S /\ Body(b) \in S /\ End(b) \in S

\* No line of u is in a block or the user's.
Quiet(u) == \A i \in DOMAIN u : ~IsMarked(u[i]) /\ ~IsForeign(u[i])

\* Lines u and block b behind them.
LEMMA Fenced ==
  ASSUME NEW S, NEW B, NEW b, NEW u, b \in B, u \in Seq(S), Speaks(S, B),
         Quiet(u)
  PROVE  /\ u \o Block(b) \in Seq(S)
         /\ Len(u \o Block(b)) = Len(u) + 3
         /\ \A i \in DOMAIN u : (u \o Block(b))[i] = u[i]
         /\ (u \o Block(b))[Len(u) + 1] = Begin(b)
         /\ (u \o Block(b))[Len(u) + 2] = Body(b)
         /\ (u \o Block(b))[Len(u) + 3] = End(b)
<1>1. Block(b) \in Seq(S) /\ Len(Block(b)) = 3
      /\ Block(b)[1] = Begin(b) /\ Block(b)[2] = Body(b) /\ Block(b)[3] = End(b)
  <2>1. Begin(b) \in S /\ Body(b) \in S /\ End(b) \in S
    BY DEF Speaks
  <2> QED BY <2>1 DEF Block
<1> DEFINE c == Block(b)
<1> HIDE DEF c
<1>2. c \in Seq(S) /\ Len(c) = 3 /\ c[1] = Begin(b) /\ c[2] = Body(b) /\ c[3] = End(b)
  BY <1>1 DEF c
<1>3. /\ u \o c \in Seq(S) /\ Len(u \o c) = Len(u) + 3 /\ Len(u) \in Nat
      /\ \A i \in DOMAIN u : (u \o c)[i] = u[i]
  <2>1. DOMAIN u = 1..Len(u) /\ Len(u) \in Nat
    OBVIOUS
  <2>2. u \o c \in Seq(S) /\ Len(u \o c) = Len(u) + Len(c)
    <3>1. c \in Seq(S)
      BY <1>2
    <3> QED BY ONLY u \in Seq(S), <3>1, ConcatProperties
  <2>3. \A i \in 1..Len(u) : (u \o c)[i] = u[i]
    BY <1>2
  <2> QED BY <1>2, <2>1, <2>2, <2>3
<1>4. /\ (u \o c)[Len(u) + 1] = c[1] /\ (u \o c)[Len(u) + 2] = c[2]
      /\ (u \o c)[Len(u) + 3] = c[3]
  BY <1>2, <1>3
<1> QED BY <1>2, <1>3, <1>4 DEF c

\* Put puts t in front of position p.
LEMMA PutSplices ==
  ASSUME NEW S, NEW s, NEW t, NEW p, s \in Seq(S), t \in Seq(S),
         p \in 1..(Len(s) + 1)
  PROVE  Splices(S, Put(s, p, t), s, p, t)
<1> DEFINE a == SubSeq(s, 1, p - 1)
           c == SubSeq(s, p, Len(s))
           n == Len(t)
<1>1. Len(s) \in Nat /\ n \in Nat /\ p \in Nat /\ p >= 1 /\ p <= Len(s) + 1
  OBVIOUS
<1>2. a \in Seq(S) /\ Len(a) = p - 1 /\ \A j \in 1..(p - 1) : a[j] = s[j]
  BY <1>1
<1>3. /\ c \in Seq(S) /\ Len(c) = Len(s) + 1 - p
      /\ \A j \in 1..(Len(s) + 1 - p) : c[j] = s[(p - 1) + j]
  BY <1>1
<1> HIDE DEF a, c, n
<1>4. /\ a \o t \in Seq(S) /\ Len(a \o t) = (p - 1) + n
      /\ \A i \in 1..((p - 1) + n) : (a \o t)[i] = IF i <= p - 1 THEN a[i] ELSE t[i - (p - 1)]
  <2>1. /\ a \o t \in Seq(S) /\ Len(a \o t) = Len(a) + Len(t)
        /\ \A i \in 1..(Len(a) + Len(t)) :
             (a \o t)[i] = IF i <= Len(a) THEN a[i] ELSE t[i - Len(a)]
    <3>1. a \in Seq(S)
      BY <1>2
    <3> QED BY ONLY <3>1, t \in Seq(S), ConcatProperties
  <2>2. Len(a) = p - 1 /\ Len(t) = n
    BY <1>2 DEF n
  <2> QED BY ONLY <2>1, <2>2
<1> DEFINE b == a \o t
           r == b \o c
<1>5. /\ r \in Seq(S) /\ Len(r) = Len(b) + Len(c)
      /\ \A i \in 1..(Len(b) + Len(c)) : r[i] = IF i <= Len(b) THEN b[i] ELSE c[i - Len(b)]
  <2>1. b \in Seq(S)
    BY <1>4
  <2>2. c \in Seq(S)
    BY <1>3
  <2> HIDE DEF b
  <2> QED BY ONLY <2>1, <2>2, ConcatProperties
<1>6. Put(s, p, t) = r
  BY DEF Put, a, c
<1>7. /\ Len(b) = (p - 1) + n /\ b \in Seq(S)
      /\ \A i \in 1..((p - 1) + n) : b[i] = IF i <= p - 1 THEN a[i] ELSE t[i - (p - 1)]
  BY <1>4
<1> HIDE DEF b, r
<1>8. Len(r) = Len(s) + n
  <2>1. Len(r) = ((p - 1) + n) + ((Len(s) + 1) - p)
    BY <1>3, <1>5, <1>7
  <2> QED BY ONLY <1>1, <2>1
<1>9. ASSUME NEW j \in 1..(p - 1)
      PROVE  r[j] = s[j]
  <2>1. j \in 1..(Len(b) + Len(c)) /\ j <= Len(b) /\ j \in 1..((p - 1) + n) /\ j <= p - 1
    BY <1>1, <1>3, <1>7
  <2> QED BY <1>2, <1>5, <1>7, <2>1
<1>10. ASSUME NEW j \in 1..n
       PROVE  r[(p - 1) + j] = t[j]
  <2>1. /\ (p - 1) + j \in 1..(Len(b) + Len(c)) /\ (p - 1) + j <= Len(b)
        /\ (p - 1) + j \in 1..((p - 1) + n) /\ ~((p - 1) + j <= p - 1)
        /\ ((p - 1) + j) - (p - 1) = j
    BY <1>1, <1>3, <1>7
  <2> QED BY <1>5, <1>7, <2>1
<1>11. ASSUME NEW j \in p..Len(s)
       PROVE  r[j + n] = s[j]
  <2>1. /\ j + n \in 1..(Len(b) + Len(c)) /\ ~(j + n <= Len(b))
        /\ (j + n) - Len(b) \in 1..(Len(s) + 1 - p) /\ (p - 1) + ((j + n) - Len(b)) = j
    BY <1>1, <1>3, <1>7
  <2>2. r[j + n] = c[(j + n) - Len(b)]
    BY <1>5, <2>1
  <2> QED BY <1>3, <2>1, <2>2
<1> QED BY <1>5, <1>6, <1>8, <1>9, <1>10, <1>11 DEF Splices, n

\* What Cut takes out, put back, gives s.
LEMMA CutSplices ==
  ASSUME NEW S, NEW s, NEW i, NEW j, s \in Seq(S), i \in 1..Len(s),
         j \in i..Len(s)
  PROVE  /\ Splices(S, s, Cut(s, i, j), i, SubSeq(s, i, j))
         /\ Len(SubSeq(s, i, j)) = (j + 1) - i
         /\ \A k \in 1..((j + 1) - i) : SubSeq(s, i, j)[k] = s[(i - 1) + k]
<1> DEFINE a == SubSeq(s, 1, i - 1)
           c == SubSeq(s, j + 1, Len(s))
           t == SubSeq(s, i, j)
           n == (j + 1) - i
           r == a \o c
<1>1. Len(s) \in Nat /\ i \in Nat /\ j \in Nat /\ 1 <= i /\ i <= j /\ j <= Len(s) /\ n \in Nat
  OBVIOUS
<1>2. a \in Seq(S) /\ Len(a) = i - 1 /\ \A k \in 1..(i - 1) : a[k] = s[k]
  BY <1>1
<1>3. c \in Seq(S) /\ Len(c) = Len(s) - j /\ \A k \in 1..(Len(s) - j) : c[k] = s[j + k]
  BY <1>1
<1>4. t \in Seq(S) /\ Len(t) = n /\ \A k \in 1..n : t[k] = s[(i - 1) + k]
  BY <1>1
<1> HIDE DEF a, c, t
<1>5. /\ r \in Seq(S) /\ Len(r) = (i - 1) + (Len(s) - j)
      /\ \A k \in 1..((i - 1) + (Len(s) - j)) :
           r[k] = IF k <= i - 1 THEN a[k] ELSE c[k - (i - 1)]
  <2>1. /\ r \in Seq(S) /\ Len(r) = Len(a) + Len(c)
        /\ \A k \in 1..(Len(a) + Len(c)) :
             r[k] = IF k <= Len(a) THEN a[k] ELSE c[k - Len(a)]
    <3>1. a \in Seq(S) /\ c \in Seq(S)
      BY <1>2, <1>3
    <3> QED BY ONLY <3>1, ConcatProperties
  <2>2. Len(a) = i - 1 /\ Len(c) = Len(s) - j
    BY <1>2, <1>3
  <2> HIDE DEF r
  <2> QED BY ONLY <2>1, <2>2
<1> HIDE DEF r
<1>6. Splices(S, s, r, i, t)
  <2>1. Len(s) = Len(r) + Len(t)
    <3>1. Len(r) = (i - 1) + (Len(s) - j) /\ Len(t) = n
      BY <1>4, <1>5
    <3> QED BY ONLY <1>1, <3>1
  <2>2. ASSUME NEW k \in 1..(i - 1)
        PROVE  s[k] = r[k]
    <3>1. k \in 1..((i - 1) + (Len(s) - j)) /\ k <= i - 1
      BY ONLY <1>1, k \in 1..(i - 1)
    <3>2. r[k] = a[k]
      BY ONLY <1>5, <3>1
    <3> QED BY <1>2, <3>2
  <2>3. ASSUME NEW k \in i..Len(r)
        PROVE  s[k + Len(t)] = r[k]
    <3>1. /\ k \in 1..((i - 1) + (Len(s) - j)) /\ ~(k <= i - 1)
          /\ k - (i - 1) \in 1..(Len(s) - j) /\ j + (k - (i - 1)) = k + n
      BY <1>1, <1>5
    <3>2. r[k] = c[k - (i - 1)]
      BY <1>5, <3>1
    <3>3. c[k - (i - 1)] = s[j + (k - (i - 1))]
      BY <1>3, <3>1
    <3> HIDE DEF n
    <3> QED BY <1>4, <3>1, <3>2, <3>3
  <2> HIDE DEF n
  <2>4. i \in 1..(Len(r) + 1)
    BY <1>1, <1>5
  <2> QED BY <1>4, <1>5, <2>1, <2>2, <2>3, <2>4 DEF Splices
<1>7. Cut(s, i, j) = r
  BY DEF Cut, a, c, r
<1> QED BY <1>4, <1>6, <1>7 DEF t

\* Cut leaves the positions outside i..j.
LEMMA CutThins ==
  ASSUME NEW S, NEW s, NEW i, NEW j, s \in Seq(S), i \in 1..Len(s),
         j \in i..Len(s)
  PROVE  Thins(S, Cut(s, i, j), s, (1..Len(s)) \ (i..j))
<1> DEFINE t == SubSeq(s, i, j)
           r == Cut(s, i, j)
<1>1. Splices(S, s, r, i, t) /\ Len(t) = (j + 1) - i
  BY CutSplices
<1>2. i \in Nat /\ j \in Nat
  OBVIOUS
<1> HIDE DEF t, r
<1>3. i + Len(t) - 1 = j
  BY <1>1, <1>2
<1>4. Thins(S, r, s, (1..Len(s)) \ (i..(i + Len(t) - 1)))
  BY <1>1, SplicesThins
<1> QED BY <1>3, <1>4 DEF r

\* A block is whole by itself.
LEMMA FencedWhole ==
  ASSUME NEW S, NEW B, NEW b, NEW u, b \in B, u \in Seq(S), Speaks(S, B),
         Quiet(u)
  PROVE  /\ Whole(u \o Block(b), B)
         /\ \A c \in B : Has(u \o Block(b), c) <=> c = b
         /\ NoRest(u \o Block(b), B)
<1> DEFINE t == u \o Block(b)
           m == Len(u)
<1>1. /\ t \in Seq(S) /\ Len(t) = m + 3
      /\ \A i \in DOMAIN u : t[i] = u[i]
      /\ t[m + 1] = Begin(b) /\ t[m + 2] = Body(b) /\ t[m + 3] = End(b)
  BY Fenced
<1>2. m \in Nat /\ DOMAIN u = 1..m
  OBVIOUS
<1> HIDE DEF t, m
<1>3. \A c : IsMarked(Begin(c)) /\ IsMarked(Body(c)) /\ IsMarked(End(c))
  BY Roles DEF IsMarked
<1>4. \A i \in 1..m : ~IsMarked(t[i]) /\ ~IsForeign(t[i])
  BY <1>1, <1>2 DEF Quiet
<1>5. DOMAIN t = 1..(m + 3)
  BY <1>1
<1>6. ASSUME NEW i \in DOMAIN t
      PROVE  i \in 1..m \/ i = m + 1 \/ i = m + 2 \/ i = m + 3
  BY <1>2, <1>5
<1>7. ASSUME NEW c, NEW i \in DOMAIN t
      PROVE  /\ t[i] = Begin(c) => i = m + 1 /\ c = b
             /\ t[i] = Body(c) => i = m + 2 /\ c = b
             /\ t[i] = End(c) => i = m + 3 /\ c = b
  <2>1. CASE i \in 1..m
    <3>1. ~IsMarked(t[i])
      BY <1>4, <2>1
    <3> QED BY <1>3, <3>1
  <2>2. CASE i = m + 1
    BY <1>1, <2>2, SameName, Apart3
  <2>3. CASE i = m + 2
    BY <1>1, <2>3, SameName, Apart3
  <2>4. CASE i = m + 3
    BY <1>1, <2>4, SameName, Apart3
  <2> QED BY <1>6, <2>1, <2>2, <2>3, <2>4
<1>9. Opened(t, B)
  <2>1. (m + 1) + 2 \in DOMAIN t /\ (m + 1) + 1 = m + 2 /\ (m + 1) + 2 = m + 3
    BY <1>2, <1>5
  <2> QED BY <1>1, <1>7, <2>1 DEF Opened
<1>10. Closed(t, B)
  <2>1. m + 1 \in DOMAIN t /\ (m + 2) - 1 = m + 1 /\ (m + 3) - 2 = m + 1
    BY <1>2, <1>5
  <2> SUFFICES ASSUME NEW c \in B, NEW i \in DOMAIN t
               PROVE  /\ t[i] = Body(c) => i - 1 \in DOMAIN t /\ t[i - 1] = Begin(c)
                      /\ t[i] = End(c) => i - 2 \in DOMAIN t /\ t[i - 2] = Begin(c)
    BY DEF Closed
  <2>2. /\ t[i] = Body(c) => i = m + 2 /\ c = b
        /\ t[i] = End(c) => i = m + 3 /\ c = b
    BY <1>7
  <2>3. ASSUME t[i] = Body(c)
        PROVE  i - 1 \in DOMAIN t /\ t[i - 1] = Begin(c)
    <3>1. i - 1 = m + 1 /\ c = b
      BY <2>1, <2>2, <2>3
    <3> QED BY <1>1, <2>1, <3>1
  <2>4. ASSUME t[i] = End(c)
        PROVE  i - 2 \in DOMAIN t /\ t[i - 2] = Begin(c)
    <3>1. i - 2 = m + 1 /\ c = b
      BY <2>1, <2>2, <2>4
    <3> QED BY <1>1, <2>1, <3>1
  <2> QED BY <2>3, <2>4
<1>11. Once(t, B)
  BY <1>7 DEF Once
<1>12. ASSUME NEW c \in B
       PROVE  Has(t, c) <=> c = b
  <2>1. m + 1 \in DOMAIN t
    BY <1>2, <1>5
  <2> QED BY <1>1, <1>7, <2>1 DEF Has
<1>13. NoRest(t, B)
  <2>1. ASSUME NEW i \in DOMAIN t
        PROVE  ~IsRest(t[i], B)
    BY <1>1, <1>4, <1>6, NotRest
  <2> QED BY <2>1 DEF NoRest
<1> QED BY <1>9, <1>10, <1>11, <1>12, <1>13 DEF Whole, t

----------------------------------------------------------------------------
(* What a function on a file leaves: one block more, or one less. *)

\* r is d with block b as well, and with the same of the user's lines.
Gains(r, d, S, B, b) ==
  /\ r \in Docs(S) /\ r.lines # << >>
  /\ Whole(r.lines, B)
  /\ Rest(r.lines, B) = Rest(d.lines, B)
  /\ \A c \in B : Has(r.lines, c) <=> Has(d.lines, c) \/ c = b

\* r is d without block b, and with the same of the user's lines.
Loses(r, d, S, B, b) ==
  /\ r \in Docs(S)
  /\ Whole(r.lines, B)
  /\ Rest(r.lines, B) = Rest(d.lines, B)
  /\ \A c \in B : Has(r.lines, c) <=> Has(d.lines, c) /\ c # b

\* A block with lines before it, put where no block is cut.
LEMMA Fence ==
  ASSUME NEW S, NEW B, NEW d, NEW b, NEW u, NEW p, NEW r, NEW e, d \in Docs(S),
         b \in B, u \in Seq(S), Splices(S, r, d.lines, p, u \o Block(b)), Speaks(S, B), Quiet(u),
         Whole(d.lines, B), ~Has(d.lines, b), Between(d.lines, B, p),
         e = TRUE \/ e = d.ended
  PROVE  Gains(Doc(r, e), d, S, B, b)
<1> DEFINE s == d.lines
           t == u \o Block(b)
<1>1. /\ s \in Seq(S) /\ d.ended \in BOOLEAN
      /\ s # << >> /\ ~d.ended => s[Len(s)] # Blank
  BY DEF Docs, IsDoc
<1>2. /\ t \in Seq(S) /\ Len(t) = Len(u) + 3 /\ t[Len(u) + 3] = End(b)
  BY Fenced
<1>3. /\ Whole(t, B) /\ \A c \in B : Has(t, c) <=> c = b
      /\ NoRest(t, B)
  BY FencedWhole DEF NoRest
<1>4. Splices(S, r, s, p, t) /\ Whole(s, B) /\ Between(s, B, p)
      /\ ~Has(s, b)
  OBVIOUS
<1> HIDE DEF s, t
<1>5. Whole(r, B) /\ \A c \in B : Has(r, c) <=> Has(s, c) \/ Has(t, c)
  <2>1. Strangers(s, t, B)
    BY <1>3, <1>4 DEF Strangers
  <2> QED BY ONLY <1>3, <1>4, <2>1, WholeSplice
<1>6. Rest(r, B) = Rest(s, B)
  BY ONLY <1>3, <1>4, RestSplice
<1>7. Len(u) \in Nat /\ Len(s) \in Nat /\ Len(r) = Len(s) + Len(t) /\ p \in Nat /\ p >= 1
  <2>1. Len(r) = Len(s) + Len(t) /\ p \in 1..(Len(s) + 1)
    BY <1>4 DEF Splices
  <2>2. Len(s) \in Nat /\ Len(u) \in Nat
    BY <1>1
  <2> QED BY <2>1, <2>2
<1>8. r # << >>
  BY <1>2, <1>7
<1>9. ~d.ended => r[Len(r)] # Blank
  <2>1. CASE p = Len(s) + 1
    <3>1. Len(t) \in 1..Len(t) /\ (p - 1) + Len(t) = Len(r)
      BY <1>2, <1>7, <2>1
    <3>2. r[(p - 1) + Len(t)] = t[Len(t)]
      BY <1>4, <3>1 DEF Splices
    <3>3. r[Len(r)] = End(b)
      BY <1>2, <3>1, <3>2
    <3>4. End(b)[1] # Blank[1]
      BY Roles
    <3> QED BY <3>3, <3>4
  <2>2. CASE p # Len(s) + 1
    <3>1. Len(s) \in p..Len(s) /\ Len(s) # 0
      <4>1. p \in 1..(Len(s) + 1)
        BY <1>4 DEF Splices
      <4> QED BY <1>7, <2>2, <4>1
    <3>2. r[Len(s) + Len(t)] = s[Len(s)]
      BY <1>4, <3>1 DEF Splices
    <3>3. s # << >>
      BY <3>1
    <3>4. r[Len(r)] = s[Len(s)]
      BY <1>7, <3>2
    <3>5. SUFFICES ASSUME ~d.ended
                   PROVE  s[Len(s)] # Blank
      BY <3>4
    <3> QED BY <1>1, <3>3, <3>5
  <2> QED BY <2>1, <2>2
<1>10. Doc(r, e) \in Docs(S) /\ Doc(r, e).lines = r
  <2>1. r \in Seq(S)
    BY <1>4 DEF Splices
  <2>2. CASE e = TRUE
    BY <1>8, <2>1, <2>2 DEF Doc, Docs, IsDoc
  <2>3. CASE e = d.ended
    BY <1>1, <1>8, <1>9, <2>1, <2>3 DEF Doc, Docs, IsDoc
  <2> QED BY <2>2, <2>3
<1> QED BY <1>3, <1>5, <1>6, <1>8, <1>10 DEF Gains, s

\* The hook of a new block lies below its key: the key is in u, or above p with
\* only entries and blank lines between them.  The other hooks stay where they are.
Heads(s, p, u, k) ==
  \/ u # << >> /\ u[Len(u)] = KeyLine(k)
  \/ u = << >> /\ Under(s, p, k)

\* So does a new block with its own key, or one in its list.
LEMMA FencePlaced ==
  ASSUME NEW S, NEW B, NEW b, NEW u, NEW k, NEW s, NEW r, NEW p, b \in B,
         u \in Seq(S), Splices(S, r, s, p, u \o Block(b)), Speaks(S, B), Quiet(u),
         Whole(s, B), ~Has(s, b), Heads(s, p, u, k)
  PROVE  Placed(r, b, k)
<1> DEFINE t == u \o Block(b)
           m == Len(u)
<1>1. /\ t \in Seq(S) /\ Len(t) = m + 3
      /\ \A i \in DOMAIN u : t[i] = u[i]
      /\ t[m + 1] = Begin(b) /\ t[m + 2] = Body(b) /\ t[m + 3] = End(b)
  BY Fenced
<1>2. m \in Nat /\ DOMAIN u = 1..m /\ p \in Nat /\ p >= 1 /\ p <= Len(s) + 1
      /\ Len(s) \in Nat /\ DOMAIN s = 1..Len(s)
  BY DEF Splices
<1>3. u # << >> => m # 0
  OBVIOUS
<1>4. Splices(S, r, s, p, t)
  OBVIOUS
<1> HIDE DEF t, m
<1>5. /\ \A j \in DOMAIN s : j < p => j \in DOMAIN r /\ r[j] = s[j]
      /\ \A j \in DOMAIN t : (p - 1) + j \in DOMAIN r /\ r[(p - 1) + j] = t[j]
  BY <1>4, SpliceTo DEF Goes
<1>6. \A j \in DOMAIN s : s[j] # Body(b)
  BY DEF Whole, Closed, Has
<1> SUFFICES ASSUME NEW i \in DOMAIN r, r[i] = Body(b)
             PROVE  Under(r, i, k)
  BY DEF Placed
<1>7. \/ i < p /\ i \in DOMAIN s /\ r[i] = s[i]
      \/ \E x \in DOMAIN t : i = (p - 1) + x /\ r[i] = t[x]
      \/ \E x \in DOMAIN s : p <= x /\ i = x + Len(t) /\ r[i] = s[x]
  BY <1>4, SpliceFrom DEF From
<1>8. PICK x \in DOMAIN t : i = (p - 1) + x /\ t[x] = Body(b)
  BY <1>6, <1>7
<1>9. DOMAIN t = 1..(m + 3)
  BY <1>1
<1>10. x = m + 2
  <2>1. x \in 1..m \/ x = m + 1 \/ x = m + 2 \/ x = m + 3
    <3>1. x \in 1..(m + 3) /\ m \in Nat
      BY <1>2, <1>9
    <3> QED BY ONLY <3>1
  <2>2. CASE x \in 1..m
    <3>1. ~IsMarked(t[x])
      BY <1>1, <1>2, <2>2 DEF Quiet
    <3>2. IsMarked(Body(b))
      BY Roles DEF IsMarked
    <3> QED BY <1>8, <3>1, <3>2
  <2>3. CASE x = m + 1
    BY <1>1, <1>8, <2>3, Apart3
  <2>4. CASE x = m + 3
    BY <1>1, <1>8, <2>4, Apart3
  <2> QED BY <2>1, <2>2, <2>3, <2>4
<1>11. \A y \in Nat : p <= y /\ y < i => y - (p - 1) \in DOMAIN t /\ r[y] = t[y - (p - 1)]
  <2> SUFFICES ASSUME NEW y \in Nat, p <= y, y < i
               PROVE  y - (p - 1) \in DOMAIN t /\ r[y] = t[y - (p - 1)]
    OBVIOUS
  <2>1. y - (p - 1) \in DOMAIN t /\ (p - 1) + (y - (p - 1)) = y
    BY <1>2, <1>8, <1>9, <1>10
  <2> QED BY <1>5, <2>1
<1>12. ~Owns(Begin(b))
  BY Roles DEF Owns
<1>13. i = (p - 1) + (m + 2) /\ i \in Nat
  BY <1>2, <1>8, <1>10
<1>14. CASE u # << >> /\ u[m] = KeyLine(k)
  <2>1. m >= 1 /\ m \in DOMAIN u
    BY <1>2, <1>3, <1>14
  <2>2. (p - 1) + m \in 1..(i - 1) /\ ((p - 1) + m) - (p - 1) = m /\ p <= (p - 1) + m
    BY <1>2, <1>13, <2>1
  <2>3. r[(p - 1) + m] = KeyLine(k)
    <3>1. m \in DOMAIN t /\ t[m] = KeyLine(k)
      BY <1>1, <1>2, <1>9, <1>14, <2>1
    <3> QED BY <1>5, <3>1
  <2>4. ASSUME NEW j \in (((p - 1) + m) + 1)..(i - 1)
        PROVE  ~Owns(r[j])
    <3>1. j = (p - 1) + (m + 1)
      BY <1>2, <1>13
    <3>2. m + 1 \in DOMAIN t
      BY <1>2, <1>9
    <3> QED BY <1>1, <1>5, <1>12, <3>1, <3>2
  <2> QED BY <2>2, <2>3, <2>4 DEF Under
<1>15. CASE u = << >> /\ Under(s, p, k)
  <2>1. m = 0
    BY <1>15 DEF m
  <2>2. PICK o \in 1..(p - 1) : s[o] = KeyLine(k) /\ \A j \in (o + 1)..(p - 1) : ~Owns(s[j])
    BY <1>15 DEF Under
  <2>3. o \in DOMAIN s /\ o < p /\ o \in 1..(i - 1)
    BY <1>2, <1>13, <2>1
  <2>4. r[o] = KeyLine(k)
    BY <1>5, <2>2, <2>3
  <2>5. ASSUME NEW j \in (o + 1)..(i - 1)
        PROVE  ~Owns(r[j])
    <3>1. CASE j < p
      <4>1. j \in DOMAIN s /\ j \in (o + 1)..(p - 1)
        BY <1>2, <2>3, <3>1
      <4> QED BY <1>5, <2>2, <3>1, <4>1
    <3>2. CASE ~(j < p)
      <4>1. j = (p - 1) + 1
        BY <1>2, <1>13, <2>1, <2>3, <3>2
      <4>2. 1 \in DOMAIN t /\ t[1] = Begin(b)
        BY <1>1, <1>9, <2>1
      <4> QED BY <1>5, <1>12, <4>1, <4>2
    <3> QED BY <3>1, <3>2
  <2> QED BY <2>3, <2>4, <2>5 DEF Under
<1> QED BY <1>14, <1>15 DEF m, Heads

\* The lines of a block that is there.
FoundAt(d, b, i) ==
  /\ i + 2 \in DOMAIN d.lines
  /\ At(d, Begin(b)) = {i}
  /\ {j \in At(d, End(b)) : j > i} = {i + 2}
  /\ Min({i}) = i /\ Min({i + 2}) = i + 2
  /\ d.lines[i] = Begin(b) /\ d.lines[i + 1] = Body(b) /\ d.lines[i + 2] = End(b)

\* A block that is there is found by its markers.
LEMMA Found ==
  ASSUME NEW S, NEW B, NEW d, NEW b, d \in Docs(S), b \in B, Whole(d.lines, B),
         Has(d.lines, b)
  PROVE  \E i \in DOMAIN d.lines : FoundAt(d, b, i)
<1> DEFINE s == d.lines
<1>1. s \in Seq(S) /\ DOMAIN s = 1..Len(s) /\ Len(s) \in Nat
  BY DEF Docs, IsDoc
<1>2. PICK i \in DOMAIN s : s[i] = Begin(b)
  BY DEF Has
<1>3. i + 2 \in DOMAIN s /\ s[i + 1] = Body(b) /\ s[i + 2] = End(b)
  BY <1>2 DEF Whole, Opened
<1>4. \A j \in DOMAIN s : s[j] = Begin(b) => j = i
  BY <1>2 DEF Whole, Once
<1>5. ASSUME NEW j \in DOMAIN s, s[j] = End(b)
      PROVE  j = i + 2
  <2>1. j - 2 \in DOMAIN s /\ s[j - 2] = Begin(b)
    BY <1>5 DEF Whole, Closed
  <2>2. j - 2 = i
    BY <1>4, <2>1
  <2> QED BY <1>1, <2>2
<1>6. At(d, Begin(b)) = {i}
  BY <1>2, <1>4 DEF At
<1>7. i + 2 > i /\ i \in Int
  BY <1>1, <1>2
<1>8. {j \in At(d, End(b)) : j > i} = {i + 2}
  BY <1>3, <1>5, <1>7 DEF At
<1>9. Min({i}) = i /\ Min({i + 2}) = i + 2
  BY <1>7 DEF Min
<1> QED BY <1>2, <1>3, <1>6, <1>8, <1>9 DEF FoundAt

\* The functions look for the begin marker.
LEMMA HoldsHas ==
  ASSUME NEW d, NEW b
  PROVE  Holds(d, Begin(b)) <=> Has(d.lines, b)
BY DEF Holds, At, Has

\* At the end of a sequence no block is cut.
LEMMA BetweenEnd ==
  ASSUME NEW S, NEW B, NEW s, s \in Seq(S), Whole(s, B)
  PROVE  Between(s, B, Len(s) + 1)
<1>1. DOMAIN s = 1..Len(s) /\ Len(s) \in Nat
  OBVIOUS
<1>2. \A b \in B : \A q \in DOMAIN s : s[q] = Begin(b) => q + 2 \in DOMAIN s
  BY DEF Whole, Opened
<1>3. \A q : q + 2 \in 1..Len(s) /\ q \in 1..Len(s) => q + 2 < Len(s) + 1
  BY <1>1
<1> QED BY <1>1, <1>2, <1>3 DEF Between

\* What is put in front of a block at the end of file d.
Gap(d) == IF d = Nothing THEN << >> ELSE <<Blank>>

\* The gap is no more than a blank line.
LEMMA GapQuiet ==
  ASSUME NEW S, NEW d, Blank \in S
  PROVE  Gap(d) \in Seq(S) /\ Quiet(Gap(d))
<1>1. ~IsMarked(Blank) /\ ~IsForeign(Blank)
  BY Roles DEF IsMarked, IsForeign
<1> QED BY <1>1 DEF Gap, Quiet

\* A block that is appended lies behind the gap.
LEMMA AppendGap ==
  ASSUME NEW S, NEW B, NEW d, NEW b, d \in Docs(S), b \in B, Speaks(S, B)
  PROVE  AppendBlock(d, b) = Doc(d.lines \o (Gap(d) \o Block(b)), TRUE)
<1> DEFINE u == Gap(d)
           s == d.lines
           c == Block(b)
<1>1. u \in Seq(S)
  BY GapQuiet DEF Speaks
<1>2. s \in Seq(S) /\ c \in Seq(S)
  BY DEF Docs, IsDoc, Block, Speaks
<1>3. AppendBlock(d, b) = Doc((s \o u) \o c, TRUE)
  BY DEF AppendBlock, Gap
<1> HIDE DEF u, s, c
<1>4. (s \o u) \o c = s \o (u \o c)
  BY <1>1, <1>2, ConcatAssociative
<1> QED BY <1>3, <1>4 DEF u, s, c

\* AppendBlock leaves one block more.
LEMMA AppendGains ==
  ASSUME NEW S, NEW B, NEW d, NEW b, d \in Docs(S), b \in B, Speaks(S, B),
         Whole(d.lines, B), ~Has(d.lines, b)
  PROVE  Gains(AppendBlock(d, b), d, S, B, b)
<1> DEFINE u == Gap(d)
<1>1. /\ u \in Seq(S) /\ Quiet(u)
      /\ AppendBlock(d, b) = Doc(d.lines \o (u \o Block(b)), TRUE)
  <2>1. Blank \in S
    BY DEF Speaks
  <2>2. Gap(d) \in Seq(S) /\ Quiet(Gap(d))
    BY <2>1, GapQuiet
  <2>3. AppendBlock(d, b) = Doc(d.lines \o (Gap(d) \o Block(b)), TRUE)
    BY AppendGap
  <2> QED BY <2>2, <2>3
<1> HIDE DEF u
<1>2. d.lines \in Seq(S) /\ u \o Block(b) \in Seq(S)
  BY <1>1, Fenced DEF Docs, IsDoc
<1>3. Splices(S, d.lines \o (u \o Block(b)), d.lines, Len(d.lines) + 1, u \o Block(b))
  BY <1>2, JoinSplices
<1>4. Between(d.lines, B, Len(d.lines) + 1)
  BY <1>2, BetweenEnd
<1> DEFINE r == d.lines \o (u \o Block(b))
           p == Len(d.lines) + 1
<1>5. Splices(S, r, d.lines, p, u \o Block(b)) /\ Between(d.lines, B, p)
  BY <1>3, <1>4
<1>6. AppendBlock(d, b) = Doc(r, TRUE)
  BY <1>1
<1> HIDE DEF r, p
<1>7. Gains(Doc(r, TRUE), d, S, B, b)
  BY <1>1, <1>5, Fence
<1> QED BY <1>6, <1>7

\* Nothing is gained where the block is there.
LEMMA GainsSame ==
  ASSUME NEW S, NEW B, NEW d, NEW b, d \in Docs(S), b \in B,
         Whole(d.lines, B), Has(d.lines, b)
  PROVE  Gains(d, d, S, B, b)
<1>1. d.lines # << >>
  BY DEF Has
<1> QED BY <1>1 DEF Gains

\* text_block_fence::add leaves one block more, unless it is there.
LEMMA TextAddGains ==
  ASSUME NEW S, NEW B, NEW d, NEW b, d \in Docs(S), b \in B, Speaks(S, B),
         Whole(d.lines, B)
  PROVE  Gains(TextAdd(d, b), d, S, B, b)
<1>1. CASE Has(d.lines, b)
  BY <1>1, HoldsHas, GainsSame DEF TextAdd
<1>2. CASE ~Has(d.lines, b)
  BY <1>2, HoldsHas, AppendGains DEF TextAdd
<1> QED BY <1>1, <1>2

\* upsert_block puts a block in the place of one that is there.
LEMMA UpsertSame ==
  ASSUME NEW S, NEW B, NEW d, NEW b, d \in Docs(S), b \in B, Speaks(S, B),
         Whole(d.lines, B), Has(d.lines, b)
  PROVE  Upsert(d, b) = d
<1> DEFINE s == d.lines
<1>0. PICK i \in DOMAIN s : FoundAt(d, b, i)
  BY Found
<1>1. /\ i + 2 \in DOMAIN s
      /\ At(d, Begin(b)) = {i}
      /\ {j \in At(d, End(b)) : j > i} = {i + 2}
      /\ Min({i}) = i /\ Min({i + 2}) = i + 2
      /\ s[i] = Begin(b) /\ s[i + 1] = Body(b) /\ s[i + 2] = End(b)
  BY <1>0 DEF FoundAt
<1>2. s \in Seq(S) /\ DOMAIN s = 1..Len(s) /\ Len(s) \in Nat /\ d = Doc(s, d.ended)
  BY DEF Docs, IsDoc, Doc
<1>3. Cardinality({i}) = 1
  BY FS_Singleton
<1>4. Upsert(d, b) = Doc(Put(Cut(s, i, i + 2), i, Block(b)), d.ended)
  <2>1. ~(1 > 1) /\ {i} # {} /\ {i + 2} # {}
    OBVIOUS
  <2> HIDE DEF s
  <2> QED BY <1>1, <1>3, <2>1 DEF Upsert, s
<1> DEFINE t == SubSeq(s, i, i + 2)
           c == Cut(s, i, i + 2)
<1>5. i \in 1..Len(s) /\ i + 2 \in i..Len(s)
  BY <1>1, <1>2
<1> HIDE DEF s
<1>6. /\ Splices(S, s, c, i, t) /\ Len(t) = ((i + 2) + 1) - i
      /\ \A k \in 1..(((i + 2) + 1) - i) : t[k] = s[(i - 1) + k]
  BY <1>2, <1>5, CutSplices
<1> HIDE DEF t, c
<1>7. t = Block(b)
  <2>1. i \in Nat /\ ((i + 2) + 1) - i = 3 /\ (i - 1) + 1 = i /\ (i - 1) + 2 = i + 1
        /\ (i - 1) + 3 = i + 2
    BY <1>5
  <2>2. Len(t) = 3 /\ t[1] = s[i] /\ t[2] = s[i + 1] /\ t[3] = s[i + 2]
    BY <1>6, <2>1
  <2>3. t \in Seq(S) /\ Block(b) \in Seq(S) /\ Len(Block(b)) = 3
    BY <1>6 DEF Splices, Block, Speaks
  <2>4. \A j \in 1..3 : t[j] = Block(b)[j]
    <3>1. Block(b)[1] = Begin(b) /\ Block(b)[2] = Body(b) /\ Block(b)[3] = End(b)
      BY DEF Block
    <3>2. t[1] = Begin(b) /\ t[2] = Body(b) /\ t[3] = End(b)
      BY <1>1, <2>2
    <3>3. \A j \in 1..3 : j = 1 \/ j = 2 \/ j = 3
      OBVIOUS
    <3> QED BY <3>1, <3>2, <3>3
  <2> QED BY <2>2, <2>3, <2>4, SeqEqual
<1>8. Splices(S, Put(c, i, Block(b)), c, i, Block(b))
  <2>1. c \in Seq(S) /\ t \in Seq(S) /\ i \in 1..(Len(c) + 1)
    BY <1>6 DEF Splices
  <2> QED BY <1>7, <2>1, PutSplices
<1>9. Put(c, i, Block(b)) = s
  BY <1>6, <1>7, <1>8, SplicesSame
<1> QED BY <1>2, <1>4, <1>9 DEF c

\* upsert_block leaves one block more, unless it is there.
LEMMA UpsertGains ==
  ASSUME NEW S, NEW B, NEW d, NEW b, d \in Docs(S), b \in B, Speaks(S, B),
         Whole(d.lines, B)
  PROVE  Gains(Upsert(d, b), d, S, B, b)
<1>1. CASE Has(d.lines, b)
  BY <1>1, UpsertSame, GainsSame
<1>2. CASE ~Has(d.lines, b)
  <2>1. At(d, Begin(b)) = {}
    BY <1>2, HoldsHas DEF Holds
  <2>2. ~(Cardinality({}) > 1)
    BY FS_EmptySet
  <2>3. Upsert(d, b) = AppendBlock(d, b)
    BY <2>1, <2>2 DEF Upsert
  <2> QED BY <1>2, <2>3, AppendGains
<1> QED BY <1>1, <1>2

----------------------------------------------------------------------------
(* yaml_block_fence::add. *)

\* Nothing between v and p - 1 begins a list.
Listed(s, v, p) ==
  /\ p \in (v + 1)..(Len(s) + 1)
  /\ \A j \in (v + 1)..(p - 1) : ~Owns(s[j])

\* The list of the key at v ends in front of `stop`, with p in front of its blank end.
ListStops(s, v, p, stop) ==
  /\ stop \in (v + 1)..(Len(s) + 1) /\ p \in (v + 1)..stop
  /\ \A j \in (v + 1)..(stop - 1) : IsChild(s[j]) \/ s[j] = Blank
  /\ stop \in DOMAIN s => ~IsChild(s[stop]) /\ s[stop] # Blank
  /\ p - 1 = v \/ s[p - 1] # Blank
  /\ \A j \in p..(stop - 1) : s[j] = Blank

\* ListEnd lies behind the last entry of the list.
LEMMA ListEndStops ==
  ASSUME NEW S, NEW s, NEW v, s \in Seq(S), v \in DOMAIN s
  PROVE  \E stop : ListStops(s, v, ListEnd(s, v), stop)
<1> DEFINE stops == {i \in (v + 1)..Len(s) : ~IsChild(s[i]) /\ s[i] # Blank}
           stop == IF stops = {} THEN Len(s) + 1 ELSE Min(stops)
           full == {v} \cup {i \in (v + 1)..(stop - 1) : s[i] # Blank}
           p == ListEnd(s, v)
<1>1. DOMAIN s = 1..Len(s) /\ Len(s) \in Nat /\ v \in Nat /\ v >= 1 /\ v <= Len(s)
  OBVIOUS
<1>2. p = 1 + Max(full)
  BY DEF ListEnd
<1>3. stop \in (v + 1)..(Len(s) + 1) /\ (\A i \in stops : stop <= i)
      /\ (stop \in stops \/ stop = Len(s) + 1)
  <2>1. CASE stops = {}
    BY <1>1, <2>1
  <2>2. CASE stops # {}
    <3>1. stops \in SUBSET Nat
      BY <1>1
    <3>2. Min(stops) \in stops /\ \A i \in stops : Min(stops) <= i
      <4> HIDE DEF stops
      <4> QED BY <2>2, <3>1, MinFound
    <3> QED BY <1>1, <2>2, <3>2
  <2> QED BY <2>1, <2>2
<1>4. \A j \in (v + 1)..(stop - 1) : IsChild(s[j]) \/ s[j] = Blank
  <2> SUFFICES ASSUME NEW j \in (v + 1)..(stop - 1), ~IsChild(s[j]), s[j] # Blank
               PROVE  FALSE
    OBVIOUS
  <2>1. j \in (v + 1)..Len(s)
    <3> HIDE DEF stop
    <3> QED BY <1>1, <1>3
  <2>2. j \in stops
    BY <2>1
  <2>3. stop <= j
    BY <1>3, <2>2
  <2> HIDE DEF stop
  <2> QED BY <1>1, <1>3, <2>3
<1>5. \A j \in stops : j \in (v + 1)..Len(s) /\ ~IsChild(s[j]) /\ s[j] # Blank
  OBVIOUS
<1> HIDE DEF stops, stop
<1>6. stop \in DOMAIN s => ~IsChild(s[stop]) /\ s[stop] # Blank
  BY <1>1, <1>3, <1>5
<1>7. Max(full) \in full /\ (\A j \in full : j <= Max(full)) /\ \A j \in full : j \in v..(stop - 1)
  <2>1. full \in SUBSET (0..(stop - 1)) /\ full # {} /\ stop - 1 \in Nat
    BY <1>1, <1>3
  <2>2. \A j \in full : j \in v..(stop - 1)
    BY <1>1, <1>3
  <2> HIDE DEF full
  <2> QED BY <2>1, <2>2, MaxFound
<1>8. \A j : j \in full <=> j = v \/ (j \in (v + 1)..(stop - 1) /\ s[j] # Blank)
  OBVIOUS
<1> DEFINE m == Max(full)
<1>9. /\ m \in v..(stop - 1) /\ p = 1 + m
      /\ m = v \/ s[m] # Blank
      /\ \A j \in (v + 1)..(stop - 1) : s[j] # Blank => j <= m
  <2> HIDE DEF full, p
  <2> QED BY <1>2, <1>7, <1>8
<1> HIDE DEF full, p, m
<1>10. m \in Nat /\ v <= m /\ m <= stop - 1 /\ stop \in Nat
  BY <1>1, <1>3, <1>9
<1>11. p \in (v + 1)..stop /\ p - 1 = m
  BY <1>1, <1>9, <1>10
<1>12. \A j \in p..(stop - 1) : s[j] = Blank
  <2> SUFFICES ASSUME NEW j \in p..(stop - 1), s[j] # Blank
               PROVE  FALSE
    OBVIOUS
  <2>1. j \in (v + 1)..(stop - 1)
    BY <1>1, <1>9, <1>10
  <2>2. j <= m
    BY <1>9, <2>1
  <2> QED BY <1>9, <1>10, <2>2
<1> QED BY <1>3, <1>4, <1>6, <1>9, <1>11, <1>12 DEF ListStops, p

\* ListEnd lies in the list of the key at v, and cuts no block.
LEMMA ListEndIs ==
  ASSUME NEW S, NEW B, NEW s, NEW v, NEW k, s \in Seq(S), v \in DOMAIN s,
         s[v] = KeyLine(k), Whole(s, B)
  PROVE  Listed(s, v, ListEnd(s, v)) /\ Between(s, B, ListEnd(s, v))
<1> DEFINE p == ListEnd(s, v)
<1>1. DOMAIN s = 1..Len(s) /\ Len(s) \in Nat /\ v \in Nat /\ v >= 1 /\ v <= Len(s)
  OBVIOUS
<1>2. PICK stop : ListStops(s, v, p, stop)
  BY ListEndStops
<1> HIDE DEF p
<1>3. /\ stop \in (v + 1)..(Len(s) + 1) /\ p \in (v + 1)..stop
      /\ \A j \in (v + 1)..(stop - 1) : IsChild(s[j]) \/ s[j] = Blank
  BY <1>2 DEF ListStops
<1>4. p \in Nat /\ stop \in Nat /\ v < p /\ p <= stop /\ stop <= Len(s) + 1
  BY <1>1, <1>3
<1>5. Listed(s, v, p)
  <2>1. p \in (v + 1)..(Len(s) + 1)
    BY <1>1, <1>4
  <2>2. ASSUME NEW j \in (v + 1)..(p - 1)
        PROVE  ~Owns(s[j])
    <3>1. j \in (v + 1)..(stop - 1)
      BY <1>1, <1>4
    <3>2. IsChild(s[j]) \/ s[j] = Blank
      BY <1>3, <3>1
    <3>3. ~Owns(Blank)
      BY Roles DEF Owns
    <3>4. IsChild(s[j]) => ~Owns(s[j])
      BY DEF IsChild, Owns
    <3> QED BY <3>2, <3>3, <3>4
  <2> QED BY <2>1, <2>2 DEF Listed
<1>6. Between(s, B, p)
  <2> SUFFICES ASSUME NEW b \in B, NEW q \in DOMAIN s, s[q] = Begin(b)
               PROVE  p <= q \/ q + 2 < p
    BY DEF Between
  <2>1. q + 2 \in DOMAIN s /\ s[q + 1] = Body(b) /\ s[q + 2] = End(b)
    BY DEF Whole, Opened
  <2>2. KeyLine(k) # Begin(b) /\ KeyLine(k) # Body(b) /\ KeyLine(k) # End(b)
    <3>1. KeyLine(k)[1] # Begin(b)[1] /\ KeyLine(k)[1] # Body(b)[1] /\ KeyLine(k)[1] # End(b)[1]
      BY Roles
    <3> QED BY <3>1
  <2>3. v # q /\ v # q + 1 /\ v # q + 2
    BY <2>1, <2>2
  <2>4. CASE q < v
    BY <1>1, <1>4, <2>3, <2>4
  <2>5. CASE v < q
    <3>1. ~IsChild(s[q])
      BY Roles DEF IsChild
    <3>2. s[q] # Blank
      <4>1. Begin(b)[1] # Blank[1]
        BY Roles
      <4> QED BY <4>1
    <3>3. ~(q \in (v + 1)..(stop - 1))
      BY <1>3, <3>1, <3>2
    <3> QED BY <1>1, <1>4, <2>5, <3>3
  <2> QED BY <1>1, <2>3, <2>4, <2>5
<1> QED BY <1>5, <1>6 DEF p

\* Block b lies in q, behind lines u, at position p of d, below its key.
Fences(q, d, S, B, b, k, u, p) ==
  /\ q = Doc(q.lines, d.ended)
  /\ u \in Seq(S) /\ Quiet(u)
  /\ Splices(S, q.lines, d.lines, p, u \o Block(b))
  /\ Between(d.lines, B, p)
  /\ Heads(d.lines, p, u, k)
  /\ Aside(d.lines, p, u \o Block(b))

\* No line of a block begins a list.
LEMMA BlockOwnsNone ==
  ASSUME NEW b
  PROVE  \A j \in DOMAIN Block(b) : ~Owns(Block(b)[j])
<1>1. Block(b) = <<Begin(b), Body(b), End(b)>>
  BY DEF Block
<1>2. ~Owns(Begin(b)) /\ ~Owns(Body(b)) /\ ~Owns(End(b))
  BY Roles DEF Owns
<1>3. \A j \in 1..3 : j = 1 \/ j = 2 \/ j = 3
  OBVIOUS
<1>4. DOMAIN Block(b) = 1..3 /\ Block(b)[1] = Begin(b) /\ Block(b)[2] = Body(b)
      /\ Block(b)[3] = End(b)
  BY <1>1
<1> QED BY <1>2, <1>3, <1>4

\* add finds the key: the block goes to the end of its list.
LEMMA AddBelow ==
  ASSUME NEW S, NEW B, NEW d, NEW b, NEW k, d \in Docs(S), b \in B,
         Speaks(S, B), KeyLine(k) \in S, Whole(d.lines, B), ~Has(d.lines, b),
         Holds(d, KeyLine(k))
  PROVE  \E u, p : Fences(YamlAdd(d, b, k), d, S, B, b, k, u, p)
<1> DEFINE s == d.lines
           v == Min(At(d, KeyLine(k)))
           p == ListEnd(s, v)
           c == Block(b)
           e == << >>
<1>1. s \in Seq(S) /\ DOMAIN s = 1..Len(s) /\ Len(s) \in Nat
  BY DEF Docs, IsDoc
<1>2. v \in DOMAIN s /\ s[v] = KeyLine(k)
  <2> DEFINE T == At(d, KeyLine(k))
  <2>1. T \in SUBSET Nat /\ T # {} /\ \A i \in T : i \in DOMAIN s /\ s[i] = KeyLine(k)
    BY <1>1 DEF Holds, At
  <2> HIDE DEF T
  <2>2. Min(T) \in T
    BY <2>1, MinFound
  <2> QED BY <2>1, <2>2 DEF T
<1>3. c \in Seq(S)
  BY DEF Block, Speaks
<1>4. YamlAdd(d, b, k) = Doc(Put(s, p, c), d.ended)
  BY HoldsHas DEF YamlAdd
<1>5. Whole(s, B)
  OBVIOUS
<1> HIDE DEF v, s
<1>6. Listed(s, v, p) /\ Between(s, B, p)
  BY <1>1, <1>2, <1>5, ListEndIs
<1> HIDE DEF p
<1>7. p \in 1..(Len(s) + 1) /\ v \in 1..(p - 1)
  BY <1>1, <1>2, <1>6 DEF Listed
<1> DEFINE r == Put(s, p, c)
<1>8. \A j \in DOMAIN c : ~Owns(c[j])
  BY BlockOwnsNone
<1> HIDE DEF c
<1>9. Splices(S, r, s, p, c)
  BY <1>1, <1>3, <1>7, PutSplices
<1>10. e \o c = c
  BY <1>3, ConcatEmptySeq
<1>11. Heads(s, p, e, k)
  BY <1>2, <1>6, <1>7 DEF Heads, Under, Listed
<1>12. Aside(s, p, c)
  BY <1>8 DEF Aside
<1>13. e \in Seq(S) /\ Quiet(e)
  BY DEF Quiet
<1> HIDE DEF r, e
<1>14. YamlAdd(d, b, k) = Doc(r, d.ended) /\ YamlAdd(d, b, k).lines = r
  BY <1>4 DEF r, Doc
<1>15. Fences(YamlAdd(d, b, k), d, S, B, b, k, e, p)
  BY <1>6, <1>9, <1>10, <1>11, <1>12, <1>13, <1>14 DEF Fences, s, c
<1> QED BY <1>15

\* add finds `hooks:` but not the key: the key goes right below, with the block.
LEMMA AddKey ==
  ASSUME NEW S, NEW B, NEW d, NEW b, NEW k, d \in Docs(S), b \in B,
         Speaks(S, B), KeyLine(k) \in S, Whole(d.lines, B), ~Has(d.lines, b),
         ~Holds(d, KeyLine(k)), Holds(d, Hooks)
  PROVE  \E u, p : Fences(YamlAdd(d, b, k), d, S, B, b, k, u, p)
<1> DEFINE s == d.lines
           v == Min(At(d, Hooks))
           p == v + 1
           u == <<KeyLine(k)>>
           t == u \o Block(b)
<1>1. s \in Seq(S) /\ DOMAIN s = 1..Len(s) /\ Len(s) \in Nat
  BY DEF Docs, IsDoc
<1>2. v \in DOMAIN s /\ s[v] = Hooks
  <2> DEFINE T == At(d, Hooks)
  <2>1. T \in SUBSET Nat /\ T # {} /\ \A i \in T : i \in DOMAIN s /\ s[i] = Hooks
    BY <1>1 DEF Holds, At
  <2> HIDE DEF T
  <2>2. Min(T) \in T
    BY <2>1, MinFound
  <2> QED BY <2>1, <2>2 DEF T
<1>3. u \in Seq(S) /\ u # << >> /\ Len(u) = 1 /\ u[1] = KeyLine(k) /\ DOMAIN u = {1}
  OBVIOUS
<1>4. Quiet(u)
  <2>1. ~IsMarked(KeyLine(k)) /\ ~IsForeign(KeyLine(k))
    BY Roles DEF IsMarked, IsForeign
  <2> HIDE DEF u
  <2> QED BY <1>3, <2>1 DEF Quiet
<1>5. YamlAdd(d, b, k) = Doc(Put(s, p, t), d.ended)
  BY HoldsHas DEF YamlAdd
<1>6. Whole(s, B)
  OBVIOUS
<1> HIDE DEF v, s, u
<1>7. t \in Seq(S)
  BY <1>3, <1>4, Fenced
<1>8. p \in 1..(Len(s) + 1) /\ p - 1 = v /\ v \in Nat
  BY <1>1, <1>2
<1>9. Between(s, B, p)
  <2> SUFFICES ASSUME NEW c \in B, NEW q \in DOMAIN s, s[q] = Begin(c)
               PROVE  p <= q \/ q + 2 < p
    BY DEF Between
  <2>1. q + 2 \in DOMAIN s /\ s[q + 1] = Body(c) /\ s[q + 2] = End(c)
    BY <1>6 DEF Whole, Opened
  <2>2. Hooks # Begin(c) /\ Hooks # Body(c) /\ Hooks # End(c)
    <3>1. Hooks[1] # Begin(c)[1] /\ Hooks[1] # Body(c)[1] /\ Hooks[1] # End(c)[1]
      BY Roles
    <3> QED BY <3>1
  <2>3. v # q /\ v # q + 1 /\ v # q + 2
    BY <1>2, <2>1, <2>2
  <2> QED BY <1>1, <1>8, <2>3
<1> HIDE DEF p, t
<1> DEFINE r == Put(s, p, t)
<1>10. Splices(S, r, s, p, t)
  BY <1>1, <1>7, <1>8, PutSplices
<1>11. Heads(s, p, u, k)
  BY <1>3 DEF Heads
<1>12. Aside(s, p, t)
  BY <1>2, <1>8 DEF Aside
<1> HIDE DEF r
<1>13. YamlAdd(d, b, k) = Doc(r, d.ended) /\ YamlAdd(d, b, k).lines = r
  BY <1>5 DEF r, Doc
<1>14. Fences(YamlAdd(d, b, k), d, S, B, b, k, u, p)
  BY <1>3, <1>4, <1>9, <1>10, <1>11, <1>12, <1>13 DEF Fences, s, t
<1> QED BY <1>14

\* add finds neither: both go to the end, with the block.
LEMMA AddHooks ==
  ASSUME NEW S, NEW B, NEW d, NEW b, NEW k, d \in Docs(S), b \in B,
         Speaks(S, B), KeyLine(k) \in S, Whole(d.lines, B), ~Has(d.lines, b),
         ~Holds(d, KeyLine(k)), ~Holds(d, Hooks)
  PROVE  \E u, p : Fences(YamlAdd(d, b, k), d, S, B, b, k, u, p)
<1> DEFINE s == d.lines
           p == Len(s) + 1
           c == Block(b)
           h == <<Hooks, KeyLine(k)>>
           g == IF d = Nothing THEN <<Blank>> ELSE << >>
           u == g \o h
           t == u \o c
           r == s \o t
<1>1. /\ s \in Seq(S) /\ Len(s) \in Nat /\ Whole(s, B)
      /\ h \in Seq(S) /\ g \in Seq(S) /\ c \in Seq(S)
  <2>1. Blank \in S /\ Hooks \in S /\ c \in Seq(S)
    BY DEF Speaks, Block
  <2> QED BY <2>1 DEF Docs, IsDoc
<1>2. YamlAdd(d, b, k) = Doc(r, d.ended)
  <2>1. YamlAdd(d, b, k) = Doc(((IF d = Nothing THEN <<Blank>> ELSE s) \o h) \o c, d.ended)
    BY HoldsHas DEF YamlAdd
  <2>2. (IF d = Nothing THEN <<Blank>> ELSE s) = s \o g
    <3>1. CASE d = Nothing
      <4>1. s = << >>
        BY <3>1 DEF Nothing, Doc
      <4>2. g = <<Blank>>
        BY <3>1
      <4> HIDE DEF g, s
      <4>3. << >> \o g = g
        BY <1>1, ConcatEmptySeq
      <4> QED BY <3>1, <4>1, <4>2, <4>3
    <3>2. CASE d # Nothing
      <4>1. g = << >>
        BY <3>2
      <4> HIDE DEF g, s
      <4>2. s \o << >> = s
        BY <1>1, ConcatEmptySeq
      <4> QED BY <3>2, <4>1, <4>2
    <3> QED BY <3>1, <3>2
  <2> HIDE DEF s, g, h, c
  <2>3. u \in Seq(S)
    BY <1>1, ConcatProperties
  <2>4. ((s \o g) \o h) \o c = (s \o (g \o h)) \o c
    <3>1. (s \o g) \o h = s \o (g \o h)
      BY <1>1, ConcatAssociative
    <3> QED BY <3>1
  <2>5. (s \o u) \o c = s \o (u \o c)
    <3>1. s \in Seq(S) /\ c \in Seq(S)
      BY <1>1
    <3> HIDE DEF u
    <3> QED BY ONLY <2>3, <3>1, ConcatAssociative
  <2> QED BY <2>1, <2>2, <2>4, <2>5
<1>3. /\ u \in Seq(S) /\ u # << >> /\ u[Len(u)] = KeyLine(k)
      /\ Quiet(u)
  <2>1. CASE d = Nothing
    <3>1. /\ Len(u) = 3 /\ u \in Seq(S) /\ u[1] = Blank /\ u[2] = Hooks
          /\ u[3] = KeyLine(k)
      <4>1. Len(g) = 1 /\ g[1] = Blank /\ Len(h) = 2 /\ h[1] = Hooks /\ h[2] = KeyLine(k)
        BY <2>1
      <4> HIDE DEF g, h
      <4>2. /\ u \in Seq(S) /\ Len(u) = Len(g) + Len(h)
            /\ \A i \in 1..(Len(g) + Len(h)) : u[i] = IF i <= Len(g) THEN g[i] ELSE h[i - Len(g)]
        BY <1>1, ConcatProperties
      <4> HIDE DEF u
      <4>3. Len(g) + Len(h) = 3
        BY <4>1
      <4>4. u[1] = g[1] /\ u[2] = h[2 - 1] /\ u[3] = h[3 - 1]
        BY <4>1, <4>2, <4>3
      <4> QED BY <4>1, <4>2, <4>3, <4>4
    <3>2. /\ ~IsMarked(KeyLine(k)) /\ ~IsForeign(KeyLine(k))
          /\ ~IsMarked(Hooks) /\ ~IsForeign(Hooks)
          /\ ~IsMarked(Blank) /\ ~IsForeign(Blank)
      BY Roles DEF IsMarked, IsForeign
    <3> HIDE DEF u
    <3>4. DOMAIN u = 1..3 /\ u # << >>
      <4>1. DOMAIN u = 1..Len(u)
        BY ONLY <3>1
      <4>2. u # << >>
        <5>1. Len(u) = 3
          BY ONLY <3>1
        <5> QED BY ONLY <5>1
      <4> QED BY ONLY <3>1, <4>1, <4>2
    <3>5. \A j \in 1..3 : j = 1 \/ j = 2 \/ j = 3
      OBVIOUS
    <3>6. Quiet(u)
      BY <3>1, <3>2, <3>4, <3>5 DEF Quiet
    <3> QED BY <3>1, <3>4, <3>6
  <2>2. CASE d # Nothing
    <3>1. u = h
      <4>1. g = << >>
        BY <2>2
      <4> HIDE DEF g, h
      <4>2. << >> \o h = h
        BY <1>1, ConcatEmptySeq
      <4> QED BY <4>1, <4>2
    <3>2. /\ ~IsMarked(KeyLine(k)) /\ ~IsForeign(KeyLine(k))
          /\ ~IsMarked(Hooks) /\ ~IsForeign(Hooks)
      BY Roles DEF IsMarked, IsForeign
    <3> HIDE DEF u
    <3>3. /\ u \in Seq(S) /\ Len(u) = 2 /\ DOMAIN u = 1..2 /\ u[1] = Hooks
          /\ u[2] = KeyLine(k)
      BY <1>1, <3>1
    <3>4. \A j \in 1..2 : j = 1 \/ j = 2
      OBVIOUS
    <3>5. Quiet(u)
      BY <3>2, <3>3, <3>4 DEF Quiet
    <3> QED BY <3>3, <3>5
  <2> QED BY <2>1, <2>2
<1> HIDE DEF s, u, c, g, h
<1>4. t \in Seq(S)
  BY <1>1, <1>3, ConcatProperties
<1> HIDE DEF t
<1>5. Splices(S, r, s, p, t)
  BY <1>1, <1>4, JoinSplices
<1>6. Between(s, B, p)
  BY <1>1, BetweenEnd
<1>7. Heads(s, p, u, k)
  BY <1>3 DEF Heads
<1>8. Aside(s, p, t)
  BY DEF Aside
<1> HIDE DEF r, p
<1>9. YamlAdd(d, b, k).lines = r
  BY <1>2 DEF Doc
<1>10. Fences(YamlAdd(d, b, k), d, S, B, b, k, u, p)
  BY <1>2, <1>3, <1>5, <1>6, <1>7, <1>8, <1>9 DEF Fences, s, t, c
<1> QED BY <1>10

\* In each of the three cases the block lies below its key.
LEMMA YamlAddFences ==
  ASSUME NEW S, NEW B, NEW d, NEW b, NEW k, d \in Docs(S), b \in B,
         Speaks(S, B), KeyLine(k) \in S, Whole(d.lines, B), ~Has(d.lines, b)
  PROVE  \E u, p : Fences(YamlAdd(d, b, k), d, S, B, b, k, u, p)
BY AddBelow, AddKey, AddHooks

\* yaml_block_fence::add leaves one block more, unless it is there.
LEMMA YamlAddGains ==
  ASSUME NEW S, NEW B, NEW d, NEW b, NEW k, d \in Docs(S), b \in B,
         Speaks(S, B), KeyLine(k) \in S, Whole(d.lines, B)
  PROVE  Gains(YamlAdd(d, b, k), d, S, B, b)
<1>1. CASE Has(d.lines, b)
  BY <1>1, HoldsHas, GainsSame DEF YamlAdd
<1>2. CASE ~Has(d.lines, b)
  <2> DEFINE q == YamlAdd(d, b, k)
             r == q.lines
  <2>1. PICK u, p : Fences(q, d, S, B, b, k, u, p)
    BY <1>2, YamlAddFences
  <2> HIDE DEF q
  <2>2. /\ q = Doc(r, d.ended) /\ u \in Seq(S) /\ Quiet(u)
        /\ Splices(S, r, d.lines, p, u \o Block(b)) /\ Between(d.lines, B, p)
    BY <2>1 DEF Fences
  <2> HIDE DEF r
  <2>3. Gains(Doc(r, d.ended), d, S, B, b)
    BY <1>2, <2>2, Fence
  <2> QED BY <2>2, <2>3 DEF q
<1> QED BY <1>1, <1>2

\* A new hook lies below its key, and no other is parted from its own.
LEMMA YamlAddPlaced ==
  ASSUME NEW S, NEW B, NEW d, NEW b, NEW k, NEW c, NEW h, d \in Docs(S), b \in B,
         Speaks(S, B), KeyLine(k) \in S, Whole(d.lines, B),
         Placed(d.lines, c, h), c = b => h = k
  PROVE  Placed(YamlAdd(d, b, k).lines, c, h)
<1>1. CASE Has(d.lines, b)
  BY <1>1, HoldsHas DEF YamlAdd
<1>2. CASE ~Has(d.lines, b)
  <2> DEFINE q == YamlAdd(d, b, k)
             r == q.lines
  <2>1. PICK u, p : Fences(q, d, S, B, b, k, u, p)
    BY <1>2, YamlAddFences
  <2> HIDE DEF q
  <2>2. /\ u \in Seq(S) /\ Quiet(u) /\ Splices(S, r, d.lines, p, u \o Block(b))
        /\ Heads(d.lines, p, u, k) /\ Aside(d.lines, p, u \o Block(b))
    BY <2>1 DEF Fences
  <2> HIDE DEF r
  <2>3. CASE c = b
    BY <1>2, <2>2, <2>3, FencePlaced DEF r, q
  <2>4. CASE c # b
    <3> DEFINE t == u \o Block(b)
    <3>1. Lacks(t, Body(c))
      <4>1. /\ t \in Seq(S) /\ Len(t) = Len(u) + 3
            /\ \A i \in DOMAIN u : t[i] = u[i]
            /\ t[Len(u) + 1] = Begin(b) /\ t[Len(u) + 2] = Body(b) /\ t[Len(u) + 3] = End(b)
        BY <2>2, Fenced
      <4> HIDE DEF t
      <4>2. Body(c) # Begin(b) /\ Body(c) # End(b) /\ Body(c) # Body(b)
        BY <2>4, Apart3, SameName
      <4> SUFFICES ASSUME NEW j \in DOMAIN t, t[j] = Body(c)
                   PROVE  FALSE
        BY DEF Lacks
      <4>3. j \in 1..(Len(u) + 3) /\ Len(u) \in Nat /\ DOMAIN u = 1..Len(u)
        BY <2>2, <4>1
      <4>4. j \in DOMAIN u \/ j = Len(u) + 1 \/ j = Len(u) + 2 \/ j = Len(u) + 3
        BY <4>3
      <4>5. j \in DOMAIN u => ~IsMarked(t[j])
        BY <2>2, <4>1 DEF Quiet
      <4>6. IsMarked(Body(c))
        BY Roles DEF IsMarked
      <4> QED BY <4>1, <4>2, <4>4, <4>5, <4>6
    <3> HIDE DEF t
    <3>2. Splices(S, r, d.lines, p, t) /\ Aside(d.lines, p, t)
      BY <2>2 DEF t
    <3>3. Placed(r, c, h)
      BY <3>1, <3>2, PlacedSplice
    <3> QED BY <3>3 DEF r, q
  <2> QED BY <2>3, <2>4
<1> QED BY <1>1, <1>2

----------------------------------------------------------------------------
(* remove and strip_block. *)

\* r has the blocks, the user's lines and the hooks that s has.
Same(r, s, S, B) ==
  /\ r \in Seq(S) /\ Whole(r, B)
  /\ Rest(r, B) = Rest(s, B)
  /\ \A c \in B : Has(r, c) <=> Has(s, c)
  /\ \A c, k : Placed(s, c, k) => Placed(r, c, k)

\* r is s without block b.
Drops(r, s, S, B, b) ==
  /\ r \in Seq(S) /\ Whole(r, B)
  /\ Rest(r, B) = Rest(s, B)
  /\ \A c \in B : Has(r, c) <=> Has(s, c) /\ c # b
  /\ \A c, k : Placed(s, c, k) => Placed(r, c, k)

\* Where blank lines go, the others stay as they are.
LEMMA BlanksThin ==
  ASSUME NEW S, NEW B, NEW r, NEW s, NEW P, Thins(S, r, s, P), Whole(s, B),
         \A i \in DOMAIN s : i \in P \/ s[i] = Blank
  PROVE  Same(r, s, S, B)
<1>1. /\ ~IsRest(Blank, B)
      /\ \A b : Blank # Begin(b) /\ Blank # Body(b) /\ Blank # End(b)
      /\ \A k : Blank # KeyLine(k)
  <2>1. /\ ~IsMarked(Blank) /\ ~IsForeign(Blank)
    BY Roles DEF IsMarked, IsForeign
  <2>2. \A b : IsMarked(Begin(b)) /\ IsMarked(Body(b)) /\ IsMarked(End(b))
    BY Roles DEF IsMarked
  <2>3. \A k : KeyLine(k)[1] # Blank[1]
    BY Roles
  <2> QED BY <2>1, <2>2, <2>3, NotRest
<1>2. r \in Seq(S)
  BY ThinsType
<1>3. Together(s, B, P)
  <2> SUFFICES ASSUME NEW b \in B, NEW i \in DOMAIN s, s[i] = Begin(b)
               PROVE  i \in P /\ i + 1 \in P /\ i + 2 \in P
    BY DEF Together
  <2>1. i + 2 \in DOMAIN s /\ s[i + 1] = Body(b) /\ s[i + 2] = End(b)
    BY DEF Whole, Opened
  <2>2. i + 1 \in DOMAIN s
    <3>1. s \in Seq(S)
      BY DEF Thins
    <3>2. DOMAIN s = 1..Len(s) /\ Len(s) \in Nat
      BY <3>1
    <3> QED BY <2>1, <3>2
  <2> QED BY <1>1, <2>1, <2>2
<1>4. /\ Whole(r, B)
      /\ \A b \in B : Has(r, b) <=> \E i \in P : s[i] = Begin(b)
  BY <1>3, WholeThins
<1>5. ASSUME NEW b \in B
      PROVE  Has(r, b) <=> Has(s, b)
  <2>1. \A i \in P : i \in DOMAIN s
    BY DEF Thins
  <2> QED BY <1>1, <1>4, <2>1 DEF Has
<1>6. RestIn(s, B, P)
  BY <1>1 DEF RestIn
<1>7. Rest(r, B) = Rest(s, B)
  BY <1>6, RestThins
<1>8. ASSUME NEW c, NEW k, Placed(s, c, k)
      PROVE  Placed(r, c, k)
  <2>1. KeyIn(s, k, P)
    BY <1>1 DEF KeyIn
  <2> QED BY <1>8, <2>1, PlacedThins
<1> QED BY <1>2, <1>4, <1>5, <1>7, <1>8 DEF Same

\* Where blank lines are merged nothing else changes.
LEMMA CollapseSame ==
  ASSUME NEW S, NEW B, NEW s, s \in Seq(S), Whole(s, B)
  PROVE  Same(Collapse(s), s, S, B)
<1> DEFINE P == {i \in DOMAIN s : ~(s[i] = Blank /\ i > 1 /\ s[i-1] = Blank)}
<1>1. P \in SUBSET (1..Len(s))
  OBVIOUS
<1>2. \A i \in DOMAIN s : i \in P \/ s[i] = Blank
  OBVIOUS
<1>3. Collapse(s) = Only(s, P)
  BY DEF Collapse
<1> HIDE DEF P
<1>4. Thins(S, Only(s, P), s, P)
  BY <1>1, OnlyThins
<1>5. Same(Only(s, P), s, S, B)
  BY <1>2, <1>4, BlanksThin
<1> QED BY <1>3, <1>5

\* A sequence does not end with a blank line.
Trimmed(r) == r # << >> => r[Len(r)] # Blank

\* TrimEnd keeps all up to the last line that is not blank.
LEMMA TrimEndIs ==
  ASSUME NEW S, NEW s, s \in Seq(S)
  PROVE  \E m \in 0..Len(s) :
           /\ TrimEnd(s) = SubSeq(s, 1, m)
           /\ Len(TrimEnd(s)) = m
           /\ Trimmed(TrimEnd(s))
           /\ \A i \in DOMAIN s : s[i] # Blank => i <= m
<1> DEFINE full == {i \in DOMAIN s : s[i] # Blank}
<1>0. DOMAIN s = 1..Len(s) /\ Len(s) \in Nat
  OBVIOUS
<1>1. full \in SUBSET (0..Len(s)) /\ \A i \in full : i \in 1..Len(s) /\ s[i] # Blank
  BY <1>0
<1>2. \A i \in DOMAIN s : s[i] # Blank => i \in full
  OBVIOUS
<1>3. TrimEnd(s) = IF full = {} THEN << >> ELSE SubSeq(s, 1, Max(full))
  BY DEF TrimEnd
<1> HIDE DEF full
<1>4. CASE full = {}
  <2>1. SubSeq(s, 1, 0) = << >>
    BY SubSeqEmpty
  <2>2. TrimEnd(s) = << >> /\ 0 \in 0..Len(s) /\ Len(<< >>) = 0
    BY <1>0, <1>3, <1>4
  <2> QED BY <1>2, <1>4, <2>1, <2>2 DEF Trimmed
<1>5. CASE full # {}
  <2> DEFINE m == Max(full)
  <2>1. m \in full /\ \A i \in full : i <= m
    BY <1>0, <1>1, <1>5, MaxFound
  <2>2. TrimEnd(s) = SubSeq(s, 1, m)
    BY <1>3, <1>5
  <2> HIDE DEF m
  <2>3. m \in 1..Len(s) /\ m \in 0..Len(s) /\ s[m] # Blank
    BY <1>1, <2>1
  <2>4. Len(SubSeq(s, 1, m)) = m /\ SubSeq(s, 1, m)[m] = s[m]
    BY <1>0, <2>3
  <2>5. Trimmed(SubSeq(s, 1, m))
    BY <2>3, <2>4 DEF Trimmed
  <2> QED BY <1>2, <2>1, <2>2, <2>3, <2>4, <2>5
<1> QED BY <1>4, <1>5

\* Where the blank lines at the end go nothing else changes.
LEMMA TrimEndSame ==
  ASSUME NEW S, NEW B, NEW s, s \in Seq(S), Whole(s, B)
  PROVE  Same(TrimEnd(s), s, S, B) /\ Trimmed(TrimEnd(s))
<1>1. PICK m \in 0..Len(s) :
           /\ TrimEnd(s) = SubSeq(s, 1, m)
           /\ Trimmed(TrimEnd(s))
           /\ \A i \in DOMAIN s : s[i] # Blank => i <= m
  BY TrimEndIs
<1>2. Thins(S, SubSeq(s, 1, m), s, 1..m)
  BY PrefixThins
<1>3. \A i \in DOMAIN s : i \in 1..m \/ s[i] = Blank
  BY <1>1
<1>4. Same(SubSeq(s, 1, m), s, S, B)
  BY <1>2, <1>3, BlanksThin
<1> QED BY <1>1, <1>4

\* Where the three lines of a block are cut out that block is gone.
LEMMA CutDrops ==
  ASSUME NEW S, NEW B, NEW d, NEW b, NEW i, d \in Docs(S), b \in B,
         Whole(d.lines, B), i \in DOMAIN d.lines, FoundAt(d, b, i)
  PROVE  Drops(Cut(d.lines, i, i + 2), d.lines, S, B, b)
<1> DEFINE s == d.lines
           P == (1..Len(s)) \ (i..(i + 2))
           r == Cut(s, i, i + 2)
<1>1. s \in Seq(S) /\ DOMAIN s = 1..Len(s) /\ Len(s) \in Nat /\ Whole(s, B)
  BY DEF Docs, IsDoc
<1>2. /\ i \in DOMAIN s /\ i + 2 \in DOMAIN s
      /\ s[i] = Begin(b) /\ s[i + 1] = Body(b) /\ s[i + 2] = End(b)
  BY DEF FoundAt
<1> HIDE DEF s
<1>3. i \in 1..Len(s) /\ i + 2 \in i..Len(s) /\ i \in Nat
  BY <1>1, <1>2
<1>4. Thins(S, r, s, P)
  BY <1>1, <1>3, CutThins
<1>5. \A j \in DOMAIN s : j \in P \/ j = i \/ j = i + 1 \/ j = i + 2
  BY <1>1, <1>3
<1>6. i \notin P /\ i + 1 \notin P /\ i + 2 \notin P /\ \A j \in P : j \in DOMAIN s
  BY <1>1, <1>3
<1> HIDE DEF P, r
<1>7. r \in Seq(S)
  BY <1>4, ThinsType
<1>8. /\ \A c : Begin(c) # Body(b) /\ Begin(c) # End(b) /\ (Begin(c) = Begin(b) => c = b)
      /\ \A c : Body(c) # Begin(b) /\ Body(c) # End(b) /\ (Body(c) = Body(b) => c = b)
      /\ \A c : End(c) # Begin(b) /\ End(c) # Body(b) /\ (End(c) = End(b) => c = b)
  BY SameName, Apart3
<1>9. /\ \A k : KeyLine(k) # Begin(b) /\ KeyLine(k) # Body(b) /\ KeyLine(k) # End(b)
      /\ ~IsRest(Begin(b), B) /\ ~IsRest(Body(b), B) /\ ~IsRest(End(b), B)
  <2>1. ~IsRest(Begin(b), B) /\ ~IsRest(Body(b), B) /\ ~IsRest(End(b), B)
    BY NotRest
  <2>2. \A k : KeyLine(k)[1] # Begin(b)[1] /\ KeyLine(k)[1] # Body(b)[1]
               /\ KeyLine(k)[1] # End(b)[1]
    BY Roles
  <2> QED BY <2>1, <2>2
<1>10. Together(s, B, P)
  <2> SUFFICES ASSUME NEW c \in B, NEW j \in DOMAIN s, s[j] = Begin(c)
               PROVE  /\ j \in P => j + 1 \in P /\ j + 2 \in P
                      /\ j + 1 \in P \/ j + 2 \in P => j \in P
    BY DEF Together
  <2>1. j + 2 \in DOMAIN s /\ s[j + 1] = Body(c) /\ s[j + 2] = End(c)
    BY <1>1 DEF Whole, Opened
  <2>2. j + 1 \in DOMAIN s
    BY <1>1, <2>1
  <2>3. CASE j = i
    BY <1>6, <2>3
  <2>4. CASE j # i
    <3>1. c # b
      BY <1>1, <1>2, <2>4 DEF Whole, Once
    <3>2. j \in P
      BY <1>2, <1>5, <1>8, <3>1
    <3>3. j + 1 \in P
      BY <1>2, <1>5, <1>8, <2>1, <2>2, <3>1
    <3>4. j + 2 \in P
      BY <1>2, <1>5, <1>8, <2>1, <3>1
    <3> QED BY <3>2, <3>3, <3>4
  <2> QED BY <2>3, <2>4
<1>11. /\ Whole(r, B)
       /\ \A c \in B : Has(r, c) <=> \E j \in P : s[j] = Begin(c)
  BY <1>1, <1>4, <1>10, WholeThins
<1>12. ASSUME NEW c \in B
       PROVE  Has(r, c) <=> Has(s, c) /\ c # b
  <2>1. ASSUME NEW j \in P, s[j] = Begin(c)
        PROVE  Has(s, c) /\ c # b
    <3>1. j \in DOMAIN s /\ j # i
      BY <1>6
    <3>2. c # b
      BY <1>1, <1>2, <2>1, <3>1 DEF Whole, Once
    <3> QED BY <2>1, <3>1, <3>2 DEF Has
  <2>2. ASSUME NEW j \in DOMAIN s, s[j] = Begin(c), c # b
        PROVE  j \in P
    BY <1>2, <1>5, <1>8, <2>2
  <2> QED BY <1>11, <2>1, <2>2 DEF Has
<1>13. RestIn(s, B, P)
  BY <1>2, <1>5, <1>9 DEF RestIn
<1>14. Rest(r, B) = Rest(s, B)
  BY <1>4, <1>13, RestThins
<1>15. ASSUME NEW c, NEW k, Placed(s, c, k)
       PROVE  Placed(r, c, k)
  <2>1. KeyIn(s, k, P)
    BY <1>2, <1>5, <1>9 DEF KeyIn
  <2> QED BY <1>4, <1>15, <2>1, PlacedThins
<1>16. Drops(r, s, S, B, b)
  BY <1>7, <1>11, <1>12, <1>14, <1>15 DEF Drops
<1> QED BY <1>16 DEF r, s

\* A file without the block may lose blank lines as well.
LEMMA DropsSame ==
  ASSUME NEW S, NEW B, NEW q, NEW r, NEW s, NEW b, Drops(r, s, S, B, b),
         Same(q, r, S, B)
  PROVE  Drops(q, s, S, B, b)
BY DEF Drops, Same

\* The hooks of r lie below their keys if those of d do.
Steady(r, d) == \A c, k : Placed(d.lines, c, k) => Placed(r.lines, c, k)

\* A file whose end is tidied.
LEMMA TidyLoses ==
  ASSUME NEW S, NEW B, NEW d, NEW b, NEW r, NEW e, d \in Docs(S), b \in B,
         Drops(r, d.lines, S, B, b), Trimmed(r), 
         e \in BOOLEAN, r = << >> => e = FALSE
  PROVE  Loses(Doc(r, e), d, S, B, b) /\ Steady(Doc(r, e), d)
<1>1. Doc(r, e).lines = r /\ Doc(r, e).ended = e
  BY DEF Doc
<1>2. r \in Seq(S)
  BY DEF Drops
<1>3. Doc(r, e) \in Docs(S)
  <2>1. Doc(r, e) \in [lines : Seq(S), ended : BOOLEAN]
    BY <1>2 DEF Doc
  <2>2. CASE r = << >>
    BY <1>1, <2>1, <2>2 DEF Docs, IsDoc
  <2>3. CASE r # << >>
    BY <1>1, <2>1, <2>3 DEF Docs, IsDoc, Trimmed
  <2> QED BY <2>2, <2>3
<1>4. Loses(Doc(r, e), d, S, B, b)
  BY <1>1, <1>3 DEF Loses, Drops
<1>5. Steady(Doc(r, e), d)
  BY <1>1 DEF Steady, Drops
<1> QED BY <1>4, <1>5

\* Nothing is lost where the block is not there.
LEMMA LosesSame ==
  ASSUME NEW S, NEW B, NEW d, NEW b, d \in Docs(S), Whole(d.lines, B),
         ~Has(d.lines, b)
  PROVE  Loses(d, d, S, B, b) /\ Steady(d, d)
BY DEF Loses, Steady

\* remove of a block that is there.
LEMMA RemoveBlockIs ==
  ASSUME NEW d, NEW b, NEW i, FoundAt(d, b, i), Has(d.lines, b)
  PROVE  LET left == TrimEnd(Collapse(Cut(d.lines, i, i + 2)))
         IN  RemoveBlock(d, b) = Doc(left, d.ended /\ left # << >>)
<1>1. /\ At(d, Begin(b)) = {i} /\ {j \in At(d, End(b)) : j > i} = {i + 2}
      /\ Min({i}) = i /\ Min({i + 2}) = i + 2
  BY DEF FoundAt
<1>2. Holds(d, Begin(b)) /\ {i + 2} # {}
  BY HoldsHas
<1> QED BY <1>1, <1>2 DEF RemoveBlock

\* strip_block of a block that is there.
LEMMA StripIs ==
  ASSUME NEW d, NEW b, NEW i, FoundAt(d, b, i), Has(d.lines, b)
  PROVE  LET left == TrimEnd(Cut(d.lines, i, i + 2))
         IN  Strip(d, b) = Doc(left, left # << >>)
<1>1. /\ At(d, Begin(b)) = {i} /\ {j \in At(d, End(b)) : j > i} = {i + 2}
      /\ Min({i}) = i /\ Min({i + 2}) = i + 2
  BY DEF FoundAt
<1>2. Holds(d, Begin(b)) /\ {i + 2} # {}
  BY HoldsHas
<1> QED BY <1>1, <1>2 DEF Strip

\* remove takes the block out, if it is there, and nothing else.
LEMMA RemoveLoses ==
  ASSUME NEW S, NEW B, NEW d, NEW b, d \in Docs(S), b \in B, Whole(d.lines, B)
  PROVE  Loses(RemoveBlock(d, b), d, S, B, b) /\ Steady(RemoveBlock(d, b), d)
<1>1. CASE ~Has(d.lines, b)
  BY <1>1, HoldsHas, LosesSame DEF RemoveBlock
<1>2. CASE Has(d.lines, b)
  <2> DEFINE s == d.lines
  <2>1. PICK i \in DOMAIN s : FoundAt(d, b, i)
    BY <1>2, Found
  <2> DEFINE c == Cut(s, i, i + 2)
             k == Collapse(c)
             left == TrimEnd(k)
             e == d.ended /\ left # << >>
  <2>2. Drops(c, s, S, B, b)
    BY <2>1, CutDrops
  <2>3. RemoveBlock(d, b) = Doc(left, e)
    BY <1>2, <2>1, RemoveBlockIs
  <2> HIDE DEF c
  <2>4. Same(k, c, S, B)
    BY <2>2, CollapseSame DEF Drops
  <2> HIDE DEF k
  <2>5. Same(left, k, S, B) /\ Trimmed(left)
    BY <2>4, TrimEndSame DEF Same
  <2> HIDE DEF left
  <2>6. Drops(left, s, S, B, b)
    BY <2>2, <2>4, <2>5, DropsSame
  <2>7. e \in BOOLEAN /\ (left = << >> => e = FALSE)
    OBVIOUS
  <2> HIDE DEF e
  <2>8. Loses(Doc(left, e), d, S, B, b) /\ Steady(Doc(left, e), d)
    BY <2>5, <2>6, <2>7, TidyLoses
  <2> QED BY <2>3, <2>8
<1> QED BY <1>1, <1>2

\* strip_block takes the block out, if it is there, and nothing else.
LEMMA StripLoses ==
  ASSUME NEW S, NEW B, NEW d, NEW b, d \in Docs(S), b \in B, Whole(d.lines, B)
  PROVE  Loses(Strip(d, b), d, S, B, b)
<1>1. CASE ~Has(d.lines, b)
  BY <1>1, HoldsHas, LosesSame DEF Strip
<1>2. CASE Has(d.lines, b)
  <2> DEFINE s == d.lines
  <2>1. PICK i \in DOMAIN s : FoundAt(d, b, i)
    BY <1>2, Found
  <2> DEFINE c == Cut(s, i, i + 2)
             left == TrimEnd(c)
             e == left # << >>
  <2>2. Drops(c, s, S, B, b)
    BY <2>1, CutDrops
  <2>3. Strip(d, b) = Doc(left, e)
    BY <1>2, <2>1, StripIs
  <2> HIDE DEF c
  <2>5. Same(left, c, S, B) /\ Trimmed(left)
    BY <2>2, TrimEndSame DEF Drops
  <2> HIDE DEF left
  <2>6. Drops(left, s, S, B, b)
    BY <2>2, <2>5, DropsSame
  <2>7. e \in BOOLEAN /\ (left = << >> => e = FALSE)
    OBVIOUS
  <2> HIDE DEF e
  <2>8. Loses(Doc(left, e), d, S, B, b)
    BY <2>5, <2>6, <2>7, TidyLoses
  <2> QED BY <2>3, <2>8
<1> QED BY <1>1, <1>2

----------------------------------------------------------------------------
(* The commands' steps, SpecKit's directories and the branch. *)

StepName == {"ignore", "hook", "hooks", "spans", "rules", "init", "branch",
             "specify", "specs", "agent", "save", "feature", "pointer", "runs"}

Jobs == [unit : Unit \cup {"none", "doctor"},
         verb : {"none", "add", "remove", "clean"},
         todo : Seq(StepName), ours : BOOLEAN]

Kits == [own : BOOLEAN, feature : {"none", "template", "filled"},
         pointer : BOOLEAN, runs : BOOLEAN]

\* SpecKit's directories: specs/ goes right after .specify.
InOrder(steps) ==
  \A i \in 2..Len(steps) : steps[i] = "specs" => steps[i-1] = "specify"

CleanLeft == {<<"feature", "pointer", "runs">>, <<"pointer", "runs">>, <<"runs">>}

\* A command on a unit ends with the manifest.
Saves(steps) == steps[Len(steps)] = "save"

\* What runs is nothing, a clean-up, or a command on a unit with steps to go.
JobOK ==
  /\ job \in Jobs
  /\ job.verb = "none" => job = NoJob
  /\ job.verb # "none" => job.todo # << >>
  /\ (job.unit = "doctor") <=> (job.verb = "clean")
  /\ job.verb = "clean" => job.todo \in CleanLeft
  /\ job.verb \in {"add", "remove"} => Saves(job.todo)
  /\ InOrder(job.todo)

\* SpecKit's directory of features is there if something names it.
Named == kit.pointer \/ kit.runs => kit.feature # "none"

\* Only a clean-up takes the directory before what names it.
PointerOK ==
  /\ kit \in Kits
  /\ ("doctor" \notin late /\ job.verb # "clean") => Named
  /\ (job.verb = "clean" /\ job.todo = <<"runs">>) => ~kit.pointer
  /\ (job.verb = "remove" /\ Head(job.todo) = "specs") => ~kit.pointer /\ ~kit.runs

\* What the manifest claims, and what it is about to, is not the user's.
ClaimOK == (claim \/ job.ours) => branch # "user"

IInv == JobOK /\ PointerOK /\ ClaimOK

----------------------------------------------------------------------------

\* The job that is left when a command is over has no steps and no verb.
LEMMA NoJobOK ==
  /\ NoJob \in Jobs
  /\ NoJob.verb = "none" /\ NoJob.unit = "none" /\ NoJob.todo = << >>
  /\ NoJob.ours = FALSE
  /\ InOrder(NoJob.todo)
BY DEF NoJob, Jobs, InOrder

\* A tail of steps that is in order is in order, and its first step is specs/
\* only behind .specify.
LEMMA TailInOrder ==
  ASSUME NEW s \in Seq(StepName), InOrder(s), s # << >>, Len(s) # 1
  PROVE  /\ Tail(s) \in Seq(StepName) /\ Tail(s) # << >>
         /\ InOrder(Tail(s))
         /\ Head(Tail(s)) = "specs" => Head(s) = "specify"
         /\ Saves(s) => Saves(Tail(s))
<1>1. Len(s) \in Nat /\ Len(s) >= 2
  <2>1. Len(s) \in Nat \ {0}
    BY EmptySeq
  <2>2. \A n \in Nat \ {0} : n # 1 => n \in Nat /\ n >= 2
    OBVIOUS
  <2> QED
    BY <2>1, <2>2, Zenon
<1>2. /\ Tail(s) \in Seq(StepName) /\ Len(Tail(s)) = Len(s) - 1
      /\ \A i \in 1..(Len(s) - 1) : Tail(s)[i] = s[i + 1]
  BY <1>1, HeadTailProperties
<1>3. Tail(s) # << >>
  BY <1>1, <1>2, EmptySeq
<1>4. InOrder(Tail(s))
  <2>1. SUFFICES ASSUME NEW i \in 2..Len(Tail(s)), Tail(s)[i] = "specs"
                 PROVE  Tail(s)[i-1] = "specify"
    BY DEF InOrder
  <2>2. i + 1 \in 2..Len(s) /\ s[i + 1] = "specs"
    BY <1>1, <1>2, <2>1
  <2>3. s[(i + 1) - 1] = "specify"
    BY <2>2 DEF InOrder
  <2>4. Tail(s)[i-1] = s[i]
    BY <1>1, <1>2, <2>1
  <2> QED
    BY <2>1, <2>3, <2>4
<1>5. Head(Tail(s)) = "specs" => Head(s) = "specify"
  <2>1. Head(Tail(s)) = s[2] /\ Head(s) = s[1]
    BY <1>1, <1>2, <1>3
  <2>2. 2 \in 2..Len(s) /\ 2 - 1 = 1
    BY <1>1
  <2>3. s[2] = "specs" => s[2 - 1] = "specify"
    BY <2>2 DEF InOrder
  <2> QED
    BY <2>1, <2>2, <2>3
<1>6. Tail(s)[Len(Tail(s))] = s[Len(s)]
  BY <1>1, <1>2
<1> QED
  BY <1>2, <1>3, <1>4, <1>5, <1>6 DEF Saves

\* The steps of every command are in order.
LEMMA StepsInOrder ==
  ASSUME NEW u \in Unit
  PROVE  /\ AddSteps[u] \in Seq(StepName) /\ AddSteps[u] # << >>
         /\ InOrder(AddSteps[u]) /\ Saves(AddSteps[u])
         /\ Head(AddSteps[u]) # "specs"
         /\ \A s \in RemoveSteps[u] :
              /\ s \in Seq(StepName) /\ s # << >> /\ InOrder(s) /\ Saves(s)
              /\ Head(s) # "specs"
<1>1. CASE u = "filter-state"
  <2>1. /\ AddSteps[u] = <<"ignore", "save">>
        /\ RemoveSteps[u] = {<<"ignore", "save">>}
    BY <1>1 DEF AddSteps, RemoveSteps, Unit
  <2>2. /\ <<"ignore", "save">> \in Seq(StepName)
        /\ InOrder(<<"ignore", "save">>)
    BY DEF StepName, InOrder
  <2> QED
    BY <2>1, <2>2 DEF Saves
<1>2. CASE u = "claude-code-deploy"
  <2>1. /\ AddSteps[u] = <<"ignore", "hook", "spans", "rules", "save">>
        /\ RemoveSteps[u] = {<<"ignore", "rules", "hooks", "save">>}
    BY <1>2 DEF AddSteps, RemoveSteps, Unit
  <2>2. /\ <<"ignore", "hook", "spans", "rules", "save">> \in Seq(StepName)
        /\ InOrder(<<"ignore", "hook", "spans", "rules", "save">>)
    BY DEF StepName, InOrder
  <2>3. /\ <<"ignore", "rules", "hooks", "save">> \in Seq(StepName)
        /\ InOrder(<<"ignore", "rules", "hooks", "save">>)
    BY DEF StepName, InOrder
  <2> QED
    BY <2>1, <2>2, <2>3 DEF Saves
<1>3. CASE u = "ears-linter"
  <2>1. /\ AddSteps[u] = <<"hook", "save">>
        /\ RemoveSteps[u] = {<<"hooks", "save">>}
    BY <1>3 DEF AddSteps, RemoveSteps, Unit
  <2>2. /\ <<"hook", "save">> \in Seq(StepName)
        /\ InOrder(<<"hook", "save">>)
    BY DEF StepName, InOrder
  <2>3. /\ <<"hooks", "save">> \in Seq(StepName)
        /\ InOrder(<<"hooks", "save">>)
    BY DEF StepName, InOrder
  <2> QED
    BY <2>1, <2>2, <2>3 DEF Saves
<1>4. CASE u = "speckit"
  <2>1. /\ AddSteps[u] = <<"init", "branch", "save">>
        /\ RemoveSteps[u] = {<<"specify", "specs", "agent", "save">>,
                             <<"specify", "specs", "agent", "branch", "save">>}
    BY <1>4 DEF AddSteps, RemoveSteps, Unit
  <2>2. /\ <<"init", "branch", "save">> \in Seq(StepName)
        /\ InOrder(<<"init", "branch", "save">>)
    BY DEF StepName, InOrder
  <2>3. /\ <<"specify", "specs", "agent", "save">> \in Seq(StepName)
        /\ InOrder(<<"specify", "specs", "agent", "save">>)
    BY DEF StepName, InOrder
  <2>4. /\ <<"specify", "specs", "agent", "branch", "save">> \in Seq(StepName)
        /\ InOrder(<<"specify", "specs", "agent", "branch", "save">>)
    BY DEF StepName, InOrder
  <2> QED
    BY <2>1, <2>2, <2>3, <2>4 DEF Saves
<1> QED
  BY <1>1, <1>2, <1>3, <1>4 DEF Unit

\* A command that ends early leaves what it has done, and is late.
LEMMA GiveUpKeeps ==
  ASSUME IInv, ~Idle, GiveUp, UNCHANGED kit,
         claim' => branch' # "user"
  PROVE  IInv'
<1>1. JobOK'
  BY NoJobOK DEF GiveUp, JobOK, InOrder
<1>2. PointerOK'
  <2>1. job' = NoJob /\ late' = late \cup {job.unit} /\ kit' = kit
    BY DEF GiveUp
  <2>2. ("doctor" \notin late') => Named'
    BY <2>1 DEF IInv, PointerOK, JobOK, Named
  <2> QED
    BY <2>1, <2>2, NoJobOK DEF IInv, PointerOK
<1>3. ClaimOK'
  BY NoJobOK DEF GiveUp, ClaimOK
<1> QED
  BY <1>1, <1>2, <1>3 DEF IInv

\* A step of a command on a unit, done: the next one is specs/ only if this one
\* was .specify.
LEMMA AdvanceJob ==
  ASSUME JobOK, ~Idle, job.verb # "clean", Advance
  PROVE  /\ JobOK'
         /\ job'.verb # "clean"
         /\ job'.ours => job.ours
         /\ (job'.verb = "remove" /\ Head(job'.todo) = "specs") =>
              job.verb = "remove" /\ Head(job.todo) = "specify"
         /\ ("doctor" \notin late') => "doctor" \notin late
<1>1. job \in Jobs /\ job.verb # "none" /\ job.todo # << >> /\ InOrder(job.todo)
        /\ job.unit # "doctor"
  BY DEF JobOK, Idle
<1>2. CASE Len(job.todo) = 1
  BY <1>1, <1>2, NoJobOK DEF Advance, JobOK
<1>3. CASE Len(job.todo) # 1
  <2>1. job' = [job EXCEPT !.todo = Tail(@)] /\ late' = late
    BY <1>3 DEF Advance
  <2>2. job.todo \in Seq(StepName)
    BY <1>1 DEF Jobs
  <2>3. /\ Tail(job.todo) \in Seq(StepName) /\ Tail(job.todo) # << >>
        /\ InOrder(Tail(job.todo))
        /\ Head(Tail(job.todo)) = "specs" => Head(job.todo) = "specify"
        /\ Saves(job.todo) => Saves(Tail(job.todo))
    BY <1>1, <1>3, <2>2, TailInOrder
  <2>4. /\ job' \in Jobs
        /\ job'.unit = job.unit /\ job'.verb = job.verb /\ job'.ours = job.ours
        /\ job'.todo = Tail(job.todo)
    BY <1>1, <2>1, <2>3 DEF Jobs
  <2>5. JobOK'
    BY <1>1, <2>3, <2>4 DEF JobOK
  <2> QED
    BY <1>1, <2>1, <2>3, <2>4, <2>5
<1> QED
  BY <1>2, <1>3

\* A step that leaves SpecKit's state and the claims alone, done or failed.
LEMMA QuietStep ==
  ASSUME IInv, ~Idle, job.verb # "clean", Advance \/ GiveUp,
         ~(job.verb = "remove" /\ Head(job.todo) = "specify"),
         UNCHANGED <<kit, branch, claim>>
  PROVE  IInv'
<1>1. CASE GiveUp
  BY <1>1, GiveUpKeeps DEF IInv, ClaimOK
<1>2. CASE Advance
  <2>1. /\ JobOK' /\ job'.verb # "clean" /\ (job'.ours => job.ours)
        /\ ~(job'.verb = "remove" /\ Head(job'.todo) = "specs")
        /\ "doctor" \notin late' => "doctor" \notin late
    BY <1>2, AdvanceJob DEF IInv
  <2>2. PointerOK'
    BY <2>1 DEF IInv, PointerOK, Named
  <2>3. ClaimOK'
    BY <2>1 DEF IInv, ClaimOK
  <2> QED
    BY <2>1, <2>2, <2>3 DEF IInv
<1> QED
  BY <1>1, <1>2

LEMMA InitInv ==
  ASSUME Init
  PROVE  IInv
<1>1. job = NoJob /\ claim = FALSE /\ kit = NoKit
  BY DEF Init
<1>2. kit \in Kits /\ Named
  BY <1>1 DEF NoKit, Kits, Named
<1>3. JobOK
  BY <1>1, NoJobOK DEF JobOK
<1>4. PointerOK
  BY <1>1, <1>2, NoJobOK DEF PointerOK
<1>5. ClaimOK
  BY <1>1, NoJobOK DEF ClaimOK
<1> QED
  BY <1>3, <1>4, <1>5 DEF IInv

\* The first steps of a command are in order, and it claims nothing yet.
LEMMA StartKeeps ==
  ASSUME IInv, NEW u \in Unit, NEW verb \in {"add", "remove"},
         NEW steps \in Seq(StepName), steps # << >>, InOrder(steps),
         Saves(steps), Head(steps) # "specs", Start(u, verb, steps)
  PROVE  IInv'
<1>1. /\ job' = [unit |-> u, verb |-> verb, todo |-> steps, ours |-> FALSE]
      /\ job = NoJob
      /\ UNCHANGED <<kit, branch, claim, late>>
  BY DEF Start, Idle
<1>2. u # "doctor"
  BY DEF Unit
<1>3. JobOK'
  BY <1>1, <1>2 DEF JobOK, Jobs
<1>4. PointerOK'
  BY <1>1, NoJobOK DEF IInv, PointerOK, Named
<1>5. ClaimOK'
  BY <1>1 DEF IInv, ClaimOK
<1> QED
  BY <1>3, <1>4, <1>5 DEF IInv

\* A step of the clean-up: the directory goes, then the pointer, then the runs.
LEMMA CleanKeeps ==
  ASSUME IInv, CleanStep
  PROVE  IInv'
<1>1. /\ job \in Jobs /\ kit \in Kits /\ job.verb = "clean"
      /\ job.unit = "doctor" /\ job.todo \in CleanLeft
      /\ job.todo = <<"runs">> => ~kit.pointer
      /\ UNCHANGED <<branch, claim>> /\ Advance
  BY DEF IInv, JobOK, PointerOK, CleanStep
<1>2. CASE job.todo = <<"feature", "pointer", "runs">>
  <2>1. /\ job' = [job EXCEPT !.todo = <<"pointer", "runs">>] /\ late' = late
        /\ kit' = [kit EXCEPT !.feature = "none"]
    BY <1>1, <1>2 DEF Advance, CleanStep
  <2>2. <<"pointer", "runs">> \in Seq(StepName)
    BY DEF StepName
  <2>3. /\ job' \in Jobs /\ job'.unit = "doctor" /\ job'.verb = "clean"
        /\ job'.todo = <<"pointer", "runs">> /\ job'.ours = job.ours
        /\ kit' \in Kits
    BY <1>1, <2>1, <2>2 DEF Jobs, Kits
  <2>4. InOrder(job'.todo)
    BY <2>3 DEF InOrder
  <2>5. JobOK'
    BY <2>3, <2>4 DEF JobOK, CleanLeft
  <2>6. job'.todo # <<"runs">>
    BY <2>3
  <2>7. PointerOK'
    BY <2>3, <2>6 DEF PointerOK
  <2>8. ClaimOK'
    BY <1>1, <2>3 DEF IInv, ClaimOK
  <2> QED
    BY <2>5, <2>7, <2>8 DEF IInv
<1>3. CASE job.todo = <<"pointer", "runs">>
  <2>1. /\ job' = [job EXCEPT !.todo = <<"runs">>] /\ late' = late
        /\ kit' = [kit EXCEPT !.pointer = FALSE]
    BY <1>1, <1>3 DEF Advance, CleanStep
  <2>2. <<"runs">> \in Seq(StepName)
    BY DEF StepName
  <2>3. /\ job' \in Jobs /\ job'.unit = "doctor" /\ job'.verb = "clean"
        /\ job'.todo = <<"runs">> /\ job'.ours = job.ours
        /\ kit' \in Kits /\ kit'.pointer = FALSE
    BY <1>1, <2>1, <2>2 DEF Jobs, Kits
  <2>4. InOrder(job'.todo)
    BY <2>3 DEF InOrder
  <2>5. JobOK'
    BY <2>3, <2>4 DEF JobOK, CleanLeft
  <2>6. PointerOK'
    BY <2>3 DEF PointerOK
  <2>7. ClaimOK'
    BY <1>1, <2>3 DEF IInv, ClaimOK
  <2> QED
    BY <2>5, <2>6, <2>7 DEF IInv
<1>4. CASE job.todo = <<"runs">>
  <2>1. /\ job' = NoJob /\ kit' = [kit EXCEPT !.runs = FALSE] /\ ~kit.pointer
    BY <1>1, <1>4 DEF Advance, CleanStep
  <2>2. kit' \in Kits /\ Named'
    BY <1>1, <2>1 DEF Kits, Named
  <2>3. JobOK'
    BY <2>1, NoJobOK DEF JobOK
  <2>4. PointerOK' /\ ClaimOK'
    BY <1>1, <2>1, <2>2, NoJobOK DEF PointerOK, IInv, ClaimOK
  <2> QED
    BY <2>3, <2>4 DEF IInv
<1> QED
  BY <1>1, <1>2, <1>3, <1>4 DEF CleanLeft

\* SpecKit's directories: once .specify is gone nothing names a feature, so
\* specs/ may go too.
LEMMA WipeKeeps ==
  ASSUME IInv, WipeSpecify \/ WipeSpecs
  PROVE  IInv'
<1>1. /\ ~Idle /\ job.verb = "remove" /\ kit \in Kits /\ Advance
      /\ UNCHANGED <<branch, claim>>
  BY NoJobOK DEF WipeSpecify, WipeSpecs, Doing, Idle, IInv, PointerOK
<1>2. /\ JobOK' /\ job'.verb # "clean" /\ (job'.ours => job.ours)
      /\ (job'.verb = "remove" /\ Head(job'.todo) = "specs") =>
           Head(job.todo) = "specify"
  BY <1>1, AdvanceJob DEF IInv
<1>3. kit' \in Kits /\ kit'.pointer = FALSE /\ kit'.runs = FALSE
  <2>1. CASE WipeSpecify
    <3>1. kit' = [kit EXCEPT !.own = FALSE, !.pointer = FALSE, !.runs = FALSE]
      BY <2>1 DEF WipeSpecify
    <3> QED
      BY <1>1, <3>1 DEF Kits
  <2>2. CASE WipeSpecs
    <3>1. kit' = [kit EXCEPT !.feature = "none"] /\ ~kit.pointer /\ ~kit.runs
      BY <2>2 DEF WipeSpecs, Doing, IInv, PointerOK
    <3> QED
      BY <1>1, <3>1 DEF Kits
  <2> QED
    BY <2>1, <2>2
<1>4. PointerOK'
  BY <1>2, <1>3 DEF PointerOK, Named
<1>5. ClaimOK'
  BY <1>1, <1>2 DEF IInv, ClaimOK
<1> QED
  BY <1>2, <1>4, <1>5 DEF IInv

LEMMA NextInv ==
  ASSUME IInv, [Next]_vars
  PROVE  IInv'
<1>1. CASE UserEdits
  <2>1. UNCHANGED <<kit, branch, claim, job, late>>
    BY <1>1 DEF UserEdits
  <2> QED
    BY <2>1 DEF IInv, JobOK, PointerOK, ClaimOK, Named
<1>2. CASE UserSpecifies
  <2>1. UNCHANGED <<branch, claim, job, late>> /\ job = NoJob
    BY <1>2 DEF UserSpecifies, Idle
  <2>2. \/ kit' = [kit EXCEPT !.feature = "template",
                             !.pointer = TRUE, !.runs = TRUE]
        \/ kit' = [kit EXCEPT !.feature = "filled"]
    BY <1>2 DEF UserSpecifies
  <2>3. kit' \in Kits /\ kit'.feature # "none"
    BY <2>2 DEF IInv, PointerOK, Kits
  <2>4. JobOK' /\ ClaimOK'
    BY <2>1 DEF IInv, JobOK, ClaimOK
  <2>5. PointerOK'
    BY <2>1, <2>3, NoJobOK DEF PointerOK, Named
  <2> QED
    BY <2>4, <2>5 DEF IInv
<1>3. ASSUME NEW u \in Unit, AddUnit(u)
      PROVE  IInv'
  <2>1. Start(u, "add", AddSteps[u])
    BY <1>3 DEF AddUnit
  <2> QED
    BY <2>1, StepsInOrder, StartKeeps
<1>4. ASSUME NEW u \in Unit, RemoveUnit(u)
      PROVE  IInv'
  <2>1. PICK steps \in RemoveSteps[u] : Start(u, "remove", steps)
    BY <1>4 DEF RemoveUnit
  <2>2. /\ steps \in Seq(StepName) /\ steps # << >> /\ InOrder(steps)
        /\ Saves(steps) /\ Head(steps) # "specs"
    BY StepsInOrder
  <2> QED
    BY <2>1, <2>2, StartKeeps
<1>5. CASE CleanOrphans
  <2>1. /\ job' = [unit |-> "doctor", verb |-> "clean",
                   todo |-> <<"feature", "pointer", "runs">>, ours |-> FALSE]
        /\ UNCHANGED <<kit, branch, claim, late>>
    BY <1>5 DEF CleanOrphans, Start
  <2>2. <<"feature", "pointer", "runs">> \in Seq(StepName)
    BY DEF StepName
  <2>3. InOrder(<<"feature", "pointer", "runs">>)
    BY DEF InOrder
  <2>4. <<"feature", "pointer", "runs">> # <<"runs">>
    OBVIOUS
  <2>5. JobOK'
    BY <2>1, <2>2, <2>3 DEF JobOK, Jobs, CleanLeft
  <2>6. PointerOK'
    BY <2>1, <2>4 DEF IInv, PointerOK
  <2>7. ClaimOK'
    BY <2>1 DEF IInv, ClaimOK
  <2> QED
    BY <2>5, <2>6, <2>7 DEF IInv
<1>6. CASE Step
  <2>1. ASSUME \/ AddIgnore \/ AddHook \/ AddSpans \/ AddRules
               \/ RemoveIgnore \/ RemoveRules \/ RemoveHooks \/ WipeAgent
        PROVE  IInv'
    <3>1. /\ job.verb \in {"add", "remove"} /\ (Advance \/ GiveUp)
          /\ Head(job.todo) # "specify"
          /\ UNCHANGED <<kit, branch, claim>>
      BY <2>1 DEF AddIgnore, AddHook, AddSpans, AddRules, RemoveIgnore,
                  RemoveRules, RemoveHooks, WipeAgent, Doing, Write, CutShort, Leave
    <3>2. ~Idle
      BY <3>1, NoJobOK DEF Idle
    <3> QED
      BY <3>1, <3>2, QuietStep
  <2>2. CASE SpecifyInit
    <3>1. /\ job.verb = "add" /\ Advance /\ ~Idle
          /\ kit' = [kit EXCEPT !.own = TRUE] /\ UNCHANGED <<branch, claim>>
      BY <2>2, NoJobOK DEF SpecifyInit, Doing, Idle
    <3>2. /\ JobOK' /\ job'.verb # "clean" /\ (job'.ours => job.ours)
          /\ ~(job'.verb = "remove" /\ Head(job'.todo) = "specs")
          /\ "doctor" \notin late' => "doctor" \notin late
      BY <3>1, AdvanceJob DEF IInv
    <3>3. /\ kit' \in Kits /\ kit'.pointer = kit.pointer /\ kit'.runs = kit.runs
          /\ kit'.feature = kit.feature
      BY <3>1 DEF IInv, PointerOK, Kits
    <3>4. PointerOK'
      BY <3>1, <3>2, <3>3 DEF IInv, PointerOK, Named
    <3>5. ClaimOK'
      BY <3>1, <3>2 DEF IInv, ClaimOK
    <3> QED
      BY <3>2, <3>4, <3>5 DEF IInv
  <2>3. CASE TakeBranch
    <3>1. /\ job \in Jobs /\ job.verb = "add" /\ job.todo \in Seq(StepName)
          /\ job.todo # << >> /\ Head(job.todo) = "branch"
          /\ InOrder(job.todo) /\ Saves(job.todo) /\ job.unit # "doctor"
      BY <2>3 DEF TakeBranch, Doing, IInv, JobOK, Jobs
    <3>2. Len(job.todo) # 1
      BY <3>1 DEF Saves
    <3>3. /\ Tail(job.todo) \in Seq(StepName) /\ Tail(job.todo) # << >>
          /\ InOrder(Tail(job.todo)) /\ Saves(Tail(job.todo))
      BY <3>1, <3>2, TailInOrder
    <3>4. /\ job' = [job EXCEPT !.todo = Tail(@), !.ours = (branch = "none")]
          /\ branch' = IF branch = "none" THEN "specere" ELSE branch
          /\ UNCHANGED <<kit, claim, late>>
      BY <2>3 DEF TakeBranch, history
    <3>5. /\ job' \in Jobs /\ job'.unit = job.unit /\ job'.verb = "add"
          /\ job'.todo = Tail(job.todo)
      BY <3>1, <3>3, <3>4 DEF Jobs
    <3>6. JobOK'
      BY <3>1, <3>3, <3>5 DEF JobOK
    <3>7. PointerOK'
      BY <3>1, <3>4, <3>5 DEF IInv, PointerOK, Named
    <3>8. job'.ours => branch = "none"
      BY <3>1, <3>4 DEF Jobs
    <3>9. ClaimOK'
      BY <3>4, <3>8 DEF IInv, ClaimOK
    <3> QED
      BY <3>6, <3>7, <3>9 DEF IInv
  <2>4. CASE WipeSpecify \/ WipeSpecs
    BY <2>4, WipeKeeps
  <2>5. CASE DropBranch
    <3>1. /\ job.verb = "remove" /\ ~Idle /\ Head(job.todo) = "branch"
          /\ UNCHANGED <<kit, claim>>
      BY <2>5, NoJobOK DEF DropBranch, Doing, Idle
    <3>2. CASE claim
      <4>1. branch' = "none" /\ Advance
        BY <2>5, <3>2 DEF DropBranch
      <4>2. /\ JobOK' /\ job'.verb # "clean"
            /\ ~(job'.verb = "remove" /\ Head(job'.todo) = "specs")
            /\ "doctor" \notin late' => "doctor" \notin late
        BY <3>1, <4>1, AdvanceJob DEF IInv
      <4>3. PointerOK' /\ ClaimOK'
        BY <3>1, <4>1, <4>2 DEF IInv, PointerOK, Named, ClaimOK
      <4> QED
        BY <4>2, <4>3 DEF IInv
    <3>3. CASE ~claim
      BY <2>5, <3>1, <3>3, GiveUpKeeps DEF DropBranch
    <3> QED
      BY <3>2, <3>3
  <2>6. CASE CleanStep
    BY <2>6, CleanKeeps
  <2>7. CASE Save
    <3>1. /\ ~Idle /\ Head(job.todo) = "save" /\ Advance
          /\ claim' => claim \/ job.ours
          /\ UNCHANGED <<kit, branch>>
      BY <2>7 DEF Save
    <3>2. job.verb # "clean"
      <4>1. Head(<<"feature", "pointer", "runs">>) # "save"
        OBVIOUS
      <4>2. Head(<<"pointer", "runs">>) # "save" /\ Head(<<"runs">>) # "save"
        OBVIOUS
      <4> QED
        BY <3>1, <4>1, <4>2 DEF IInv, JobOK, CleanLeft
    <3>3. /\ JobOK' /\ job'.verb # "clean" /\ (job'.ours => job.ours)
          /\ ~(job'.verb = "remove" /\ Head(job'.todo) = "specs")
          /\ "doctor" \notin late' => "doctor" \notin late
      BY <3>1, <3>2, AdvanceJob DEF IInv
    <3>4. PointerOK'
      BY <3>1, <3>2, <3>3 DEF IInv, PointerOK, Named
    <3>5. ClaimOK'
      BY <3>1, <3>3 DEF IInv, ClaimOK
    <3> QED
      BY <3>3, <3>4, <3>5 DEF IInv
  <2>8. CASE Crash
    <3>1. ~Idle /\ GiveUp /\ UNCHANGED <<kit, branch, claim>>
      BY <2>8 DEF Crash
    <3> QED
      BY <3>1, GiveUpKeeps DEF IInv, ClaimOK
  <2> QED
    BY <1>6, <2>1, <2>2, <2>3, <2>4, <2>5, <2>6, <2>7, <2>8 DEF Step
<1>7. CASE UNCHANGED vars
  BY <1>7 DEF vars, history, IInv, JobOK, PointerOK, ClaimOK, Named
<1> QED
  BY <1>1, <1>2, <1>3, <1>4, <1>5, <1>6, <1>7 DEF Next

----------------------------------------------------------------------------

\* The inductive invariant holds in every reachable state.
THEOREM Invariant == Spec => []IInv
<1>1. Init => IInv
  BY InitInv
<1>2. IInv /\ [Next]_vars => IInv'
  BY NextInv
<1> QED
  BY <1>1, <1>2, PTL DEF Spec

\* A branch of the user's is never deleted: --delete-branch goes by the claim in
\* the manifest, which is only ever made for a branch that an add created.
THEOREM BranchStays == Spec => BranchesKept
<1>1. ASSUME IInv, [Next]_vars
      PROVE  branch = "user" => branch' = "user"
  <2>1. SUFFICES ASSUME branch = "user"
                 PROVE  branch' = "user"
    OBVIOUS
  <2>2. ~claim
    BY <1>1, <2>1 DEF IInv, ClaimOK
  <2>3. CASE TakeBranch
    BY <2>1, <2>3 DEF TakeBranch
  <2>4. CASE DropBranch
    BY <2>1, <2>2, <2>4 DEF DropBranch
  <2>5. ASSUME \/ AddIgnore \/ AddHook \/ AddSpans \/ AddRules
               \/ RemoveIgnore \/ RemoveRules \/ RemoveHooks
        PROVE  UNCHANGED branch
    BY <2>5 DEF AddIgnore, AddHook, AddSpans, AddRules, RemoveIgnore,
                RemoveRules, RemoveHooks, Write, Leave
  <2>6. ASSUME \/ SpecifyInit \/ WipeSpecify \/ WipeSpecs \/ WipeAgent
               \/ CleanStep \/ Save \/ Crash
        PROVE  UNCHANGED branch
    BY <2>6 DEF SpecifyInit, WipeSpecify, WipeSpecs, WipeAgent, CleanStep, Save,
                Crash
  <2>7. ASSUME \/ UserEdits \/ UserSpecifies \/ CleanOrphans \/ UNCHANGED vars
               \/ \E u \in Unit : AddUnit(u) \/ RemoveUnit(u)
        PROVE  UNCHANGED branch
    BY <2>7 DEF UserEdits, UserSpecifies, CleanOrphans, AddUnit, RemoveUnit, Start,
                vars
  <2> QED
    BY <1>1, <2>1, <2>3, <2>4, <2>5, <2>6, <2>7 DEF Next, Step
<1> QED
  BY <1>1, Invariant, PTL DEF Spec, BranchesKept

\* feature.json never names a directory that is gone, and no run stays without
\* it, unless a clean-up or a removal was cut short.
THEOREM PointerNames == Spec => []NoDanglingPointer
<1>1. IInv => NoDanglingPointer
  BY NoJobOK DEF IInv, PointerOK, Named, NoDanglingPointer, Idle
<1> QED
  BY <1>1, Invariant, PTL

----------------------------------------------------------------------------
(* Blocks that a write has left in pieces. *)

\* A line of block b lies behind its begin marker.
Led(s, b) ==
  \A i \in DOMAIN s : s[i] \in {Body(b), End(b)} =>
    \E j \in DOMAIN s : j < i /\ s[j] = Begin(b)

\* Block b has lost its end marker: the functions leave it as it is, or fail.
Torn(s, b) == Has(s, b) /\ Lacks(s, End(b))

\* The blocks of B that are not torn.
Sound(s, B) == {b \in B : ~Torn(s, b)}

\* The blocks of B are all there are; they are whole or torn, and each starts
\* with its begin marker.
Sane(s, B) == Declared(s, B) /\ Whole(s, Sound(s, B)) /\ \A b \in B : Led(s, b)

\* A torn block is taken for one that is there, and cannot be replaced or removed.
LEMMA TornFails ==
  ASSUME NEW d, NEW b, NEW k, Torn(d.lines, b)
  PROVE  /\ TextAdd(d, b) = d /\ YamlAdd(d, b, k) = d
         /\ Upsert(d, b) = Refused /\ RemoveBlock(d, b) = Refused /\ Strip(d, b) = Refused
<1>1. Holds(d, Begin(b)) /\ At(d, Begin(b)) # {}
  BY HoldsHas DEF Torn, Holds
<1>2. At(d, End(b)) = {}
  BY DEF Torn, Lacks, At
<1>3. TextAdd(d, b) = d /\ YamlAdd(d, b, k) = d
  BY <1>1 DEF TextAdd, YamlAdd
<1>4. Upsert(d, b) = Refused
  BY <1>1, <1>2 DEF Upsert
<1>5. RemoveBlock(d, b) = Refused /\ Strip(d, b) = Refused
  BY <1>1, <1>2 DEF RemoveBlock, Strip
<1> QED BY <1>3, <1>4, <1>5

\* The lines of other blocks are left as they are.
LEMMA OthersRest ==
  ASSUME NEW B, NEW c, c \notin B
  PROVE  IsRest(Begin(c), B) /\ IsRest(Body(c), B) /\ IsRest(End(c), B)
<1>1. \A b : /\ Begin(c) # Body(b) /\ Begin(c) # End(b) /\ (Begin(c) = Begin(b) => c = b)
             /\ Body(c) # Begin(b) /\ Body(c) # End(b) /\ (Body(c) = Body(b) => c = b)
             /\ End(c) # Begin(b) /\ End(c) # Body(b) /\ (End(c) = End(b) => c = b)
  BY SameName, Apart3
<1>2. IsMarked(Begin(c)) /\ IsMarked(Body(c)) /\ IsMarked(End(c))
  BY Roles DEF IsMarked
<1>3. ~OfBlock(Begin(c), B) /\ ~OfBlock(Body(c), B) /\ ~OfBlock(End(c), B)
  BY <1>1 DEF OfBlock
<1> QED BY <1>2, <1>3 DEF IsRest

\* What is left of s has its lines of each kind that is left, in their order.
LEMMA RestHolds ==
  ASSUME NEW S, NEW B, NEW s, s \in Seq(S)
  PROVE  /\ Users(Rest(s, B)) = Users(s)
         /\ \A l : IsRest(l, B) => (Lacks(Rest(s, B), l) <=> Lacks(s, l))
         /\ \A c : c \notin B => (Led(Rest(s, B), c) <=> Led(s, c))
<1> DEFINE P == {i \in DOMAIN s : IsRest(s[i], B)}
           q == Only(s, P)
<1>1. P \in SUBSET (1..Len(s)) /\ P \in SUBSET Nat /\ \A i \in P : i \in DOMAIN s
  OBVIOUS
<1>2. \A i \in DOMAIN s : IsRest(s[i], B) => i \in P
  OBVIOUS
<1>3. Rest(s, B) = q
  BY DEF Rest
<1> HIDE DEF P
<1>4. Thins(S, q, s, P)
  BY <1>1, OnlyThins
<1>5. PICK e : Enumerates(e, P) /\ q = [k \in DOMAIN e |-> s[e[k]]]
  BY <1>4 DEF Thins
<1>6. /\ Len(e) \in Nat /\ DOMAIN e = 1..Len(e)
      /\ \A k \in DOMAIN e : k \in Nat /\ e[k] \in P /\ e[k] \in Nat
      /\ \A j, k \in DOMAIN e : j < k => e[j] < e[k]
      /\ \A i \in P : \E k \in DOMAIN e : e[k] = i
  BY <1>1, <1>5, EnumeratesType
<1>7. DOMAIN q = DOMAIN e /\ \A k \in DOMAIN e : q[k] = s[e[k]]
  BY <1>5
<1>8. q \in Seq(S)
  BY <1>4, ThinsType
<1> HIDE DEF q
<1>9. Users(q) = Users(s)
  <2> DEFINE K == {l \in S : l[1] \in {"text", "item", "broken"}}
  <2>1. ASSUME NEW t \in Seq(S)
        PROVE  Users(t) = Only(t, Where(t, K))
    <3>1. \A i \in DOMAIN t : t[i] \in S
      OBVIOUS
    <3>2. {i \in DOMAIN t : t[i][1] \in {"text", "item", "broken"}} = Where(t, K)
      BY <3>1 DEF Where
    <3> QED BY <3>2 DEF Users
  <2>2. Where(s, K) \subseteq P
    BY <1>2 DEF Where, IsRest, IsForeign
  <2> HIDE DEF K
  <2>3. Only(q, Where(q, K)) = Only(s, Where(s, K))
    BY <1>4, <2>2, ThinsKeeps
  <2> QED BY <1>8, <2>1, <2>3
<1>10. ASSUME NEW l, IsRest(l, B)
       PROVE  Lacks(q, l) <=> Lacks(s, l)
  <2>1. ASSUME NEW i \in DOMAIN s, s[i] = l
        PROVE  \E k \in DOMAIN q : q[k] = l
    BY <1>2, <1>6, <1>7, <1>10, <2>1
  <2>2. ASSUME NEW k \in DOMAIN q, q[k] = l
        PROVE  \E i \in DOMAIN s : s[i] = l
    BY <1>1, <1>6, <1>7, <2>2
  <2> QED BY <2>1, <2>2 DEF Lacks
<1>11. ASSUME NEW c, c \notin B
       PROVE  Led(q, c) <=> Led(s, c)
  <2>0. IsRest(Begin(c), B) /\ IsRest(Body(c), B) /\ IsRest(End(c), B)
    BY <1>11, OthersRest
  <2>1. ASSUME Led(s, c), NEW k \in DOMAIN q, q[k] \in {Body(c), End(c)}
        PROVE  \E j \in DOMAIN q : j < k /\ q[j] = Begin(c)
    <3>1. e[k] \in DOMAIN s /\ s[e[k]] \in {Body(c), End(c)} /\ k \in DOMAIN e
      BY <1>1, <1>6, <1>7, <2>1
    <3>2. PICK i \in DOMAIN s : i < e[k] /\ s[i] = Begin(c)
      BY <2>1, <3>1 DEF Led
    <3>3. PICK j \in DOMAIN e : e[j] = i
      BY <1>2, <1>6, <2>0, <3>2
    <3>4. j < k
      <4>1. k < j => e[k] < e[j]
        BY <1>6, <3>1, <3>3
      <4>2. k # j /\ ~(k < j)
        BY <1>6, <3>1, <3>2, <3>3, <4>1
      <4> QED BY <1>6, <3>1, <3>3, <4>2
    <3> QED BY <1>7, <3>2, <3>3, <3>4
  <2>2. ASSUME Led(q, c), NEW i \in DOMAIN s, s[i] \in {Body(c), End(c)}
        PROVE  \E j \in DOMAIN s : j < i /\ s[j] = Begin(c)
    <3>1. i \in P
      BY <1>2, <2>0, <2>2
    <3>2. PICK k \in DOMAIN e : e[k] = i
      BY <1>6, <3>1
    <3>3. q[k] \in {Body(c), End(c)} /\ k \in DOMAIN q
      BY <1>7, <2>2, <3>2
    <3>4. PICK j \in DOMAIN q : j < k /\ q[j] = Begin(c)
      BY <2>2, <3>3 DEF Led
    <3>5. e[j] < i /\ e[j] \in DOMAIN s /\ s[e[j]] = Begin(c)
      BY <1>1, <1>6, <1>7, <3>2, <3>4
    <3> QED BY <3>5
  <2> QED BY <2>1, <2>2 DEF Led
<1> QED BY <1>3, <1>9, <1>10, <1>11

\* So do two sequences of which the same is left.
LEMMA RestSame ==
  ASSUME NEW S, NEW B, NEW r, NEW s, r \in Seq(S), s \in Seq(S), Rest(r, B) = Rest(s, B)
  PROVE  /\ Users(r) = Users(s)
         /\ \A l : IsRest(l, B) => (Lacks(r, l) <=> Lacks(s, l))
         /\ \A c : c \notin B => (Led(r, c) <=> Led(s, c)) /\ (Has(r, c) <=> Has(s, c))
<1>1. /\ Users(Rest(s, B)) = Users(s)
      /\ \A l : IsRest(l, B) => (Lacks(Rest(s, B), l) <=> Lacks(s, l))
      /\ \A c : c \notin B => (Led(Rest(s, B), c) <=> Led(s, c))
  BY RestHolds
<1>2. /\ Users(Rest(r, B)) = Users(r)
      /\ \A l : IsRest(l, B) => (Lacks(Rest(r, B), l) <=> Lacks(r, l))
      /\ \A c : c \notin B => (Led(Rest(r, B), c) <=> Led(r, c))
  BY RestHolds
<1>3. \A l : IsRest(l, B) => (Lacks(r, l) <=> Lacks(s, l))
  BY <1>1, <1>2
<1>4. ASSUME NEW c, c \notin B
      PROVE  Has(r, c) <=> Has(s, c)
  BY <1>3, <1>4, OthersRest DEF Has, Lacks
<1> QED BY <1>1, <1>2, <1>3, <1>4

\* A step on the blocks that are not torn leaves the torn ones as they are.
LEMMA SaneKept ==
  ASSUME NEW S, NEW B, NEW r, NEW s, r \in Seq(S), s \in Seq(S), Sane(s, B),
         Whole(r, Sound(s, B)), Rest(r, Sound(s, B)) = Rest(s, Sound(s, B))
  PROVE  /\ Sane(r, B)
         /\ Users(r) = Users(s)
         /\ \A c \in B : Torn(r, c) <=> Torn(s, c)
         /\ Lacks(s, Garbled) => Lacks(r, Garbled)
<1> DEFINE A == Sound(s, B)
<1>0. A \subseteq B /\ \A c \in B : c \notin A <=> Torn(s, c)
  BY DEF Sound
<1>1. Declared(s, B) /\ Whole(r, A) /\ Rest(r, A) = Rest(s, A) /\ \A b \in B : Led(s, b)
  BY DEF Sane
<1> HIDE DEF A
<1>2. /\ Users(r) = Users(s)
      /\ \A l : IsRest(l, A) => (Lacks(r, l) <=> Lacks(s, l))
      /\ \A c : c \notin A => (Led(r, c) <=> Led(s, c)) /\ (Has(r, c) <=> Has(s, c))
  BY <1>1, RestSame
<1>3. ASSUME NEW c \in B
      PROVE  (Torn(r, c) <=> Torn(s, c)) /\ Led(r, c)
  <2>1. CASE c \in A
    <3>1. ~Torn(s, c)
      BY <1>0, <2>1
    <3>2. Has(r, c) => ~Lacks(r, End(c))
      BY <1>1, <2>1 DEF Has, Whole, Opened, Lacks
    <3>3. Led(r, c)
      <4>1. \A i \in DOMAIN r : i - 1 < i /\ i - 2 < i
        OBVIOUS
      <4> QED BY <1>1, <2>1, <4>1 DEF Led, Whole, Closed
    <3> QED BY <3>1, <3>2, <3>3 DEF Torn
  <2>2. CASE c \notin A
    <3>1. IsRest(End(c), A)
      BY <2>2, OthersRest
    <3> QED BY <1>1, <1>2, <2>2, <3>1 DEF Torn
  <2> QED BY <2>1, <2>2
<1>4. Declared(r, B)
  <2> SUFFICES ASSUME NEW i \in DOMAIN r, IsMarked(r[i]), ~OfBlock(r[i], B)
               PROVE  FALSE
    BY DEF Declared
  <2>1. ~OfBlock(r[i], A)
    BY <1>0 DEF OfBlock
  <2>2. IsRest(r[i], A) /\ ~Lacks(r, r[i])
    BY <2>1 DEF IsRest, Lacks
  <2>3. PICK j \in DOMAIN s : s[j] = r[i]
    BY <1>2, <2>2 DEF Lacks
  <2> QED BY <1>1, <2>3 DEF Declared
<1>5. Sound(r, B) = A
  BY <1>0, <1>3 DEF Sound
<1>6. IsRest(Garbled, A)
  BY Roles DEF IsRest, IsForeign
<1> QED BY <1>1, <1>2, <1>3, <1>4, <1>5, <1>6 DEF Sane

\* A sequence without a marked line has no block.
LEMMA Unmarked ==
  ASSUME NEW B, NEW s, \A i \in DOMAIN s : ~IsMarked(s[i])
  PROVE  /\ Sane(s, B) /\ Whole(s, B) /\ Sound(s, B) = B
         /\ \A b : ~Has(s, b) /\ ~Torn(s, b)
         /\ \A b, k : Placed(s, b, k)
<1>1. \A b : IsMarked(Begin(b)) /\ IsMarked(Body(b)) /\ IsMarked(End(b))
  BY Roles DEF IsMarked
<1>2. /\ \A b \in B : Led(s, b)
      /\ \A C : Whole(s, C)
      /\ \A b : ~Has(s, b)
      /\ \A b, k : Placed(s, b, k)
      /\ Declared(s, B)
  BY <1>1 DEF Led, Whole, Opened, Closed, Once, Has, Placed, Declared
<1> QED BY <1>2 DEF Sane, Torn, Sound

\* Lines that are not marked and cut no block leave the blocks as they are.
LEMMA SpliceSane ==
  ASSUME NEW S, NEW B, NEW r, NEW s, NEW t, NEW p, Splices(S, r, s, p, t), Sane(s, B),
         \A i \in DOMAIN t : ~IsMarked(t[i]), Between(s, Sound(s, B), p)
  PROVE  /\ Sane(r, B)
         /\ \A c : (Has(r, c) <=> Has(s, c)) /\ (Torn(r, c) <=> Torn(s, c))
<1> DEFINE A == Sound(s, B)
           n == Len(t)
<1>0. Between(s, A, p) /\ Whole(s, A) /\ Declared(s, B) /\ \A b \in B : Led(s, b)
  BY DEF Sane
<1>1. /\ \A j \in DOMAIN s : j < p => j \in DOMAIN r /\ r[j] = s[j]
      /\ \A j \in DOMAIN s : p <= j => j + n \in DOMAIN r /\ r[j + n] = s[j]
  BY SpliceTo DEF Goes
<1>2. ASSUME NEW j \in DOMAIN r
      PROVE  \/ j < p /\ j \in DOMAIN s /\ r[j] = s[j]
             \/ \E k \in DOMAIN t : j = (p - 1) + k /\ r[j] = t[k]
             \/ \E k \in DOMAIN s : p <= k /\ j = k + n /\ r[j] = s[k]
  BY SpliceFrom DEF From
<1>3. /\ n \in Nat /\ p \in Int
      /\ \A j \in DOMAIN s : j \in Int
      /\ \A j \in DOMAIN r : j \in Int
  <2>1. DOMAIN s = 1..Len(s) /\ DOMAIN r = 1..Len(r) /\ Len(t) \in Nat /\ p \in Int
    BY DEF Splices
  <2> QED BY <2>1
<1> HIDE DEF n, A
<1>4. ASSUME NEW j \in DOMAIN r, IsMarked(r[j])
      PROVE  \E k \in DOMAIN s :
               r[j] = s[k] /\ ((j < p /\ j = k) \/ (p <= k /\ j = k + n))
  BY <1>2, <1>4
<1>5. \A b : IsMarked(Begin(b)) /\ IsMarked(Body(b)) /\ IsMarked(End(b))
  BY Roles DEF IsMarked
<1>6. ASSUME NEW l, IsMarked(l)
      PROVE  Lacks(r, l) <=> Lacks(s, l)
  <2>1. ASSUME NEW j \in DOMAIN r, r[j] = l
        PROVE  \E k \in DOMAIN s : s[k] = l
    BY <1>4, <1>6, <2>1
  <2>2. ASSUME NEW k \in DOMAIN s, s[k] = l
        PROVE  \E j \in DOMAIN r : r[j] = l
    <3>1. k < p \/ p <= k
      BY <1>3
    <3> QED BY <1>1, <2>2, <3>1
  <2> QED BY <2>1, <2>2 DEF Lacks
<1>7. ASSUME NEW c
      PROVE  (Has(r, c) <=> Has(s, c)) /\ (Torn(r, c) <=> Torn(s, c))
  BY <1>5, <1>6 DEF Has, Torn, Lacks
<1>8. Whole(r, A)
  <2>1. \A b : ~Has(t, b) /\ Whole(t, A)
    BY Unmarked
  <2>2. Strangers(s, t, A)
    BY <2>1 DEF Strangers
  <2> QED BY <1>0, <2>1, <2>2, WholeSplice
<1>9. ASSUME NEW b \in B
      PROVE  Led(r, b)
  <2> SUFFICES ASSUME NEW i \in DOMAIN r, r[i] \in {Body(b), End(b)}
               PROVE  \E j \in DOMAIN r : j < i /\ r[j] = Begin(b)
    BY DEF Led
  <2>1. PICK k \in DOMAIN s :
          r[i] = s[k] /\ ((i < p /\ i = k) \/ (p <= k /\ i = k + n))
    BY <1>4, <1>5
  <2>2. PICK j \in DOMAIN s : j < k /\ s[j] = Begin(b)
    BY <1>0, <2>1 DEF Led
  <2>3. CASE j < p
    BY <1>1, <1>3, <2>1, <2>2, <2>3
  <2>4. CASE p <= j
    BY <1>1, <1>3, <2>1, <2>2, <2>4
  <2> QED BY <1>3, <2>3, <2>4
<1>10. Declared(r, B)
  BY <1>0, <1>4 DEF Declared
<1>11. Sound(r, B) = A
  BY <1>7 DEF Sound, A
<1> QED BY <1>7, <1>8, <1>9, <1>10, <1>11 DEF Sane

\* So does one more line at the end.
LEMMA AppendSane ==
  ASSUME NEW S, NEW B, NEW s, NEW l, s \in Seq(S), l \in S, Sane(s, B), ~IsMarked(l)
  PROVE  /\ Append(s, l) \in Seq(S) /\ Append(s, l) # << >>
         /\ Sane(Append(s, l), B)
         /\ \A c : (Has(Append(s, l), c) <=> Has(s, c)) /\ (Torn(Append(s, l), c) <=> Torn(s, c))
         /\ \A c, k : Placed(s, c, k) => Placed(Append(s, l), c, k)
<1> DEFINE t == <<l>>
           p == Len(s) + 1
           r == s \o t
<1>1. t \in Seq(S) /\ Append(s, l) = r /\ \A i \in DOMAIN t : t[i] = l
  OBVIOUS
<1>2. Append(s, l) \in Seq(S) /\ Append(s, l) # << >>
  BY AppendProperties
<1> HIDE DEF t
<1>3. Splices(S, r, s, p, t)
  BY <1>1, JoinSplices
<1>4. Between(s, Sound(s, B), p)
  BY BetweenEnd DEF Sane
<1> HIDE DEF r
<1>5. /\ Sane(r, B)
      /\ \A c : (Has(r, c) <=> Has(s, c)) /\ (Torn(r, c) <=> Torn(s, c))
  <2> HIDE DEF p
  <2> QED BY <1>1, <1>3, <1>4, SpliceSane
<1>6. ASSUME NEW c, NEW k, Placed(s, c, k)
      PROVE  Placed(r, c, k)
  <2>1. Aside(s, p, t)
    BY DEF Aside
  <2>2. IsMarked(Body(c))
    BY Roles DEF IsMarked
  <2>3. Lacks(t, Body(c))
    BY <1>1, <2>2 DEF Lacks
  <2> HIDE DEF p
  <2> QED BY <1>3, <1>6, <2>1, <2>3, PlacedSplice
<1> QED BY <1>1, <1>2, <1>5, <1>6

\* The first lines of s: its last block may be torn.
LEMMA PrefixSane ==
  ASSUME NEW S, NEW B, NEW s, NEW n, s \in Seq(S), n \in 0..Len(s), Sane(s, B)
  PROVE  /\ SubSeq(s, 1, n) \in Seq(S)
         /\ Sane(SubSeq(s, 1, n), B)
         /\ \A c : Has(SubSeq(s, 1, n), c) => Has(s, c)
         /\ \A c, k : Placed(s, c, k) => Placed(SubSeq(s, 1, n), c, k)
<1> DEFINE q == SubSeq(s, 1, n)
           A == Sound(s, B)
           C == Sound(q, B)
<1>0. Whole(s, A) /\ Declared(s, B) /\ \A b \in B : Led(s, b)
  BY DEF Sane
<1>1. /\ q \in Seq(S) /\ DOMAIN q = 1..n /\ \A i \in 1..n : q[i] = s[i]
      /\ DOMAIN s = 1..Len(s) /\ Len(s) \in Nat /\ n \in Nat /\ n <= Len(s)
      /\ \A i \in 1..n : i \in DOMAIN s
  OBVIOUS
<1>2. /\ \A b \in A : b \in B /\ ~Torn(s, b)
      /\ \A b \in C : b \in B /\ ~Torn(q, b)
      /\ \A b \in B : b \notin A => Torn(s, b)
  BY DEF Sound
<1> HIDE DEF q, A, C
<1>3. ASSUME NEW b \in B
      PROVE  Led(q, b)
  BY <1>0, <1>1 DEF Led
<1>4. \A c : Has(q, c) => Has(s, c)
  BY <1>1 DEF Has
<1>5. Declared(q, B)
  BY <1>0, <1>1 DEF Declared
<1>6. ASSUME NEW b \in C, Has(q, b)
      PROVE  b \in A /\ \E k \in DOMAIN q : q[k] = End(b)
  <2>1. PICK k \in DOMAIN q : q[k] = End(b)
    BY <1>2, <1>6 DEF Torn, Lacks
  <2>2. ~Lacks(s, End(b))
    BY <1>1, <2>1 DEF Lacks
  <2> QED BY <1>2, <2>1, <2>2 DEF Torn
<1>7. ASSUME NEW b \in C, NEW i \in DOMAIN q, q[i] \in {Begin(b), Body(b), End(b)}
      PROVE  Has(q, b)
  BY <1>2, <1>3, <1>7 DEF Led, Has
<1>8. Opened(q, C)
  <2> SUFFICES ASSUME NEW b \in C, NEW i \in DOMAIN q, q[i] = Begin(b)
               PROVE  i + 2 \in DOMAIN q /\ q[i + 1] = Body(b) /\ q[i + 2] = End(b)
    BY DEF Opened
  <2>1. Has(q, b)
    BY DEF Has
  <2>2. b \in A /\ \E k \in DOMAIN q : q[k] = End(b)
    BY <1>6, <2>1
  <2>3. PICK k \in DOMAIN q : q[k] = End(b)
    BY <2>2
  <2>4. i \in DOMAIN s /\ s[i] = Begin(b) /\ k \in DOMAIN s /\ s[k] = End(b)
    BY <1>1, <2>3
  <2>5. i + 2 \in DOMAIN s /\ s[i + 1] = Body(b) /\ s[i + 2] = End(b)
    BY <1>0, <2>2, <2>4 DEF Whole, Opened
  <2>6. k - 2 \in DOMAIN s /\ s[k - 2] = Begin(b)
    BY <1>0, <2>2, <2>4 DEF Whole, Closed
  <2>7. k - 2 = i
    BY <1>0, <2>2, <2>4, <2>6 DEF Whole, Once
  <2>8. i + 2 \in 1..n /\ i + 1 \in 1..n
    BY <1>1, <2>3, <2>7
  <2> QED BY <1>1, <2>5, <2>8
<1>9. Closed(q, C)
  <2> SUFFICES ASSUME NEW b \in C, NEW i \in DOMAIN q
               PROVE  /\ q[i] = Body(b) => i - 1 \in DOMAIN q /\ q[i - 1] = Begin(b)
                      /\ q[i] = End(b) => i - 2 \in DOMAIN q /\ q[i - 2] = Begin(b)
    BY DEF Closed
  <2>1. q[i] \in {Body(b), End(b)} => b \in A
    BY <1>6, <1>7
  <2>2. i \in DOMAIN s /\ s[i] = q[i] /\ i \in 1..n
    BY <1>1
  <2>3. /\ q[i] = Body(b) => i - 1 \in DOMAIN s /\ s[i - 1] = Begin(b)
        /\ q[i] = End(b) => i - 2 \in DOMAIN s /\ s[i - 2] = Begin(b)
    BY <1>0, <2>1, <2>2 DEF Whole, Closed
  <2>4. /\ i - 1 \in DOMAIN s => i - 1 \in 1..n
        /\ i - 2 \in DOMAIN s => i - 2 \in 1..n
    BY <1>1, <2>2
  <2> QED BY <1>1, <2>3, <2>4
<1>10. Once(q, C)
  <2> SUFFICES ASSUME NEW b \in C, NEW i \in DOMAIN q, NEW j \in DOMAIN q,
                      q[i] = Begin(b), q[j] = Begin(b)
               PROVE  i = j
    BY DEF Once
  <2>1. b \in A
    BY <1>6, <1>7
  <2> QED BY <1>0, <1>1, <2>1 DEF Whole, Once
<1>11. ASSUME NEW c, NEW k, Placed(s, c, k)
       PROVE  Placed(q, c, k)
  <2> SUFFICES ASSUME NEW i \in DOMAIN q, q[i] = Body(c)
               PROVE  Under(q, i, k)
    BY DEF Placed
  <2>1. i \in 1..n /\ Under(s, i, k)
    BY <1>1, <1>11 DEF Placed
  <2>2. \A o \in 1..(i - 1) : o \in 1..n /\ q[o] = s[o]
    BY <1>1, <2>1
  <2>3. PICK o \in 1..(i - 1) : s[o] = KeyLine(k) /\ \A j \in (o + 1)..(i - 1) : ~Owns(s[j])
    BY <2>1 DEF Under
  <2>4. \A j \in (o + 1)..(i - 1) : j \in 1..(i - 1)
    BY <1>1, <2>1, <2>3
  <2> QED BY <2>2, <2>3, <2>4 DEF Under
<1>12. Sane(q, B)
  BY <1>3, <1>5, <1>8, <1>9, <1>10 DEF Sane, Whole, C
<1> QED BY <1>1, <1>4, <1>11, <1>12 DEF q

\* What there may be of a file when its writing is cut short.
LEMMA PiecesSane ==
  ASSUME NEW S, NEW B, NEW d, NEW p, NEW scraps, d \in Docs(S), Sane(d.lines, B),
         p \in Pieces(d, scraps), scraps \subseteq S, \A l \in scraps : ~IsMarked(l)
  PROVE  /\ p \in Docs(S)
         /\ Sane(p.lines, B)
         /\ \A c : Has(p.lines, c) => Has(d.lines, c)
         /\ \A c, k : Placed(d.lines, c, k) => Placed(p.lines, c, k)
<1> DEFINE s == d.lines
           q(n) == SubSeq(s, 1, n)
<1>1. s \in Seq(S) /\ Len(s) \in Nat
  BY DEF Docs
<1>2. /\ IsDoc(p)
      /\ \/ \E n \in 0..Len(s) : \E e \in BOOLEAN : p = Doc(q(n), e)
         \/ \E n \in 0..(Len(s) - 1) : \E l \in scraps : p = Doc(Append(q(n), l), FALSE)
  <2> DEFINE X == {Doc(q(n), e) : n \in 0..Len(s), e \in BOOLEAN}
             Y == {Doc(Append(q(n), l), FALSE) : n \in 0..(Len(s) - 1), l \in scraps}
  <2>1. IsDoc(p) /\ p \in X \cup Y
    <3>1. Pieces(d, scraps) = {x \in X \cup Y : IsDoc(x) /\ x # d}
      BY DEF Pieces
    <3> HIDE DEF X, Y
    <3> QED BY <3>1
  <2> HIDE DEF q
  <2>2. p \in X => \E n \in 0..Len(s) : \E e \in BOOLEAN : p = Doc(q(n), e)
    OBVIOUS
  <2>3. p \in Y =>
          \E n \in 0..(Len(s) - 1) : \E l \in scraps : p = Doc(Append(q(n), l), FALSE)
    <3> DEFINE N == 0..(Len(s) - 1)
               R(n, l) == Doc(Append(q(n), l), FALSE)
    <3>1. Y = {R(n, l) : n \in N, l \in scraps}
      OBVIOUS
    <3> HIDE DEF Y, N, R
    <3>2. p \in Y => \E n \in N : \E l \in scraps : p = R(n, l)
      BY <3>1
    <3> QED BY <3>2 DEF N, R
  <2> HIDE DEF X, Y
  <2> QED BY <2>1, <2>2, <2>3
<1>3. ASSUME NEW n \in 0..Len(s)
      PROVE  /\ q(n) \in Seq(S) /\ Sane(q(n), B)
             /\ \A c : Has(q(n), c) => Has(s, c)
             /\ \A c, k : Placed(s, c, k) => Placed(q(n), c, k)
  BY <1>1, PrefixSane
<1> HIDE DEF q
<1>4. CASE \E n \in 0..Len(s) : \E e \in BOOLEAN : p = Doc(q(n), e)
  <2>1. PICK n \in 0..Len(s), e \in BOOLEAN : p = Doc(q(n), e)
    BY <1>4
  <2>2. p.lines = q(n) /\ p \in Docs(S)
    BY <1>2, <1>3, <2>1 DEF Docs, Doc
  <2> QED BY <1>3, <2>2
<1>5. CASE \E n \in 0..(Len(s) - 1) : \E l \in scraps : p = Doc(Append(q(n), l), FALSE)
  <2>1. PICK n \in 0..(Len(s) - 1), l \in scraps : p = Doc(Append(q(n), l), FALSE)
    BY <1>5
  <2>2. n \in 0..Len(s) /\ l \in S /\ ~IsMarked(l)
    BY <1>1
  <2> DEFINE r == Append(q(n), l)
  <2>3. /\ r \in Seq(S) /\ Sane(r, B)
        /\ \A c : Has(r, c) <=> Has(q(n), c)
        /\ \A c, k : Placed(q(n), c, k) => Placed(r, c, k)
    BY <1>3, <2>2, AppendSane
  <2> HIDE DEF r
  <2>4. p.lines = r /\ p \in Docs(S)
    BY <1>2, <2>1, <2>3 DEF Docs, Doc, r
  <2> QED BY <1>3, <2>2, <2>3, <2>4
<1> QED BY <1>2, <1>4, <1>5

----------------------------------------------------------------------------
(* Hooks that are added or removed one by one. *)

\* r has the blocks and the user's lines that d has.
Alike(r, d, S, B) ==
  /\ r \in Docs(S) /\ Whole(r.lines, B)
  /\ Rest(r.lines, B) = Rest(d.lines, B)
  /\ \A c \in B : Has(r.lines, c) <=> Has(d.lines, c)

\* Where only keys go, blocks and user's lines stay.
LEMMA KeysThin ==
  ASSUME NEW S, NEW B, NEW r, NEW s, NEW P, Thins(S, r, s, P), Whole(s, B),
         \A i \in DOMAIN s : i \in P \/ IsKey(s[i])
  PROVE  /\ r \in Seq(S) /\ Whole(r, B) /\ Rest(r, B) = Rest(s, B)
         /\ \A c \in B : Has(r, c) <=> Has(s, c)
<1>1. /\ \A b : ~IsKey(Begin(b)) /\ ~IsKey(Body(b)) /\ ~IsKey(End(b))
      /\ \A l : IsRest(l, B) => ~IsKey(l)
  <2>1. \A b : ~IsKey(Begin(b)) /\ ~IsKey(Body(b)) /\ ~IsKey(End(b))
    BY Roles DEF IsKey
  <2>2. \A l : IsRest(l, B) => ~IsKey(l)
    BY DEF IsRest, IsForeign, IsMarked, IsKey
  <2> QED BY <2>1, <2>2
<1>2. r \in Seq(S)
  BY ThinsType
<1>3. Together(s, B, P)
  <2> SUFFICES ASSUME NEW b \in B, NEW i \in DOMAIN s, s[i] = Begin(b)
               PROVE  i \in P /\ i + 1 \in P /\ i + 2 \in P
    BY DEF Together
  <2>1. i + 2 \in DOMAIN s /\ s[i + 1] = Body(b) /\ s[i + 2] = End(b)
    BY DEF Whole, Opened
  <2>2. i + 1 \in DOMAIN s
    <3>1. s \in Seq(S)
      BY DEF Thins
    <3>2. DOMAIN s = 1..Len(s) /\ Len(s) \in Nat
      BY <3>1
    <3> QED BY <2>1, <3>2
  <2> QED BY <1>1, <2>1, <2>2
<1>4. /\ Whole(r, B)
      /\ \A b \in B : Has(r, b) <=> \E i \in P : s[i] = Begin(b)
  BY <1>3, WholeThins
<1>5. ASSUME NEW b \in B
      PROVE  Has(r, b) <=> Has(s, b)
  <2>1. \A i \in P : i \in DOMAIN s
    BY DEF Thins
  <2> QED BY <1>1, <1>4, <2>1 DEF Has
<1>6. RestIn(s, B, P)
  BY <1>1 DEF RestIn
<1>7. Rest(r, B) = Rest(s, B)
  BY <1>6, RestThins
<1> QED BY <1>2, <1>4, <1>5, <1>7

\* strip_empty_verb_keys leaves blocks and user's lines as they are.
LEMMA SweepAlike ==
  ASSUME NEW S, NEW B, NEW d, d \in Docs(S), Whole(d.lines, B), Blank \in S
  PROVE  Alike(SweepKeys(d), d, S, B)
<1> DEFINE s == d.lines
           empty(i) == IsKey(s[i])
                         /\ (NextFull(s, i) = 0 \/ ~IsChild(s[NextFull(s, i)]))
           P == {i \in DOMAIN s : ~empty(i)}
           left == Only(s, P)
           m == Len(left) - 1
<1>1. s \in Seq(S) /\ DOMAIN s = 1..Len(s) /\ Whole(s, B) /\ d.ended \in BOOLEAN
  BY DEF Docs, IsDoc
<1>2. /\ d.ended => SweepKeys(d) = Doc(IF left = << >> THEN <<Blank>> ELSE left, TRUE)
      /\ ~d.ended /\ left # << >> /\ left[Len(left)] = Blank =>
           SweepKeys(d) = Doc(Front(left), Len(left) > 1)
      /\ ~d.ended /\ ~(left # << >> /\ left[Len(left)] = Blank) =>
           SweepKeys(d) = Doc(left, FALSE)
  BY DEF SweepKeys
<1>3. P \in SUBSET (1..Len(s)) /\ \A i \in DOMAIN s : i \in P \/ IsKey(s[i])
  BY <1>1
<1> HIDE DEF s, P
<1>4. Thins(S, left, s, P)
  BY <1>1, <1>3, OnlyThins
<1>5. /\ left \in Seq(S) /\ Whole(left, B) /\ Rest(left, B) = Rest(s, B)
      /\ \A c \in B : Has(left, c) <=> Has(s, c)
  BY <1>1, <1>3, <1>4, KeysThin
<1> HIDE DEF left
<1>6. CASE d.ended /\ left # << >>
  <2>1. SweepKeys(d) = Doc(left, TRUE)
    BY <1>2, <1>6
  <2>2. Doc(left, TRUE).lines = left /\ Doc(left, TRUE) \in Docs(S)
    BY <1>5, <1>6 DEF Doc, Docs, IsDoc
  <2> QED BY <1>5, <2>1, <2>2 DEF Alike, s
<1>7. CASE d.ended /\ left = << >>
  <2> DEFINE w == <<Blank>>
  <2>1. SweepKeys(d) = Doc(w, TRUE)
    BY <1>2, <1>7
  <2>2. w \in Seq(S) /\ Len(w) = 1 /\ DOMAIN w = {1} /\ w[1] = Blank
    OBVIOUS
  <2>3. w # << >>
    OBVIOUS
  <2> HIDE DEF w
  <2>4. /\ \A b : ~IsMarked(Blank) /\ Blank # Begin(b) /\ Blank # Body(b) /\ Blank # End(b)
        /\ ~IsRest(Blank, B)
    <3>1. ~IsMarked(Blank) /\ ~IsForeign(Blank)
      BY Roles DEF IsMarked, IsForeign
    <3>2. \A b : IsMarked(Begin(b)) /\ IsMarked(Body(b)) /\ IsMarked(End(b))
      BY Roles DEF IsMarked
    <3> QED BY <3>1, <3>2, NotRest
  <2>5. Whole(w, B) /\ \A b \in B : ~Has(w, b)
    BY <2>2, <2>4 DEF Whole, Opened, Closed, Once, Has
  <2>6. Rest(w, B) = Rest(left, B)
    <3>1. SubSeq(w, 1, 0) = << >>
      BY SubSeqEmpty
    <3>2. 0 \in 0..Len(w)
      BY <2>2
    <3>3. Thins(S, SubSeq(w, 1, 0), w, 1..0)
      BY <2>2, <3>2, PrefixThins
    <3>4. RestIn(w, B, 1..0)
      BY <2>2, <2>4 DEF RestIn
    <3>5. Rest(SubSeq(w, 1, 0), B) = Rest(w, B)
      BY <3>3, <3>4, RestThins
    <3> QED BY <1>7, <3>1, <3>5
  <2>7. \A c \in B : ~Has(left, c)
    BY <1>7 DEF Has
  <2>8. Doc(w, TRUE).lines = w /\ Doc(w, TRUE) \in Docs(S)
    BY <2>2, <2>3 DEF Doc, Docs, IsDoc
  <2> QED BY <1>5, <2>1, <2>5, <2>6, <2>7, <2>8 DEF Alike, s
<1>8. CASE ~d.ended /\ left # << >> /\ left[Len(left)] = Blank
  <2>0. Len(left) \in Nat /\ Len(left) # 0 /\ DOMAIN left = 1..Len(left)
    BY <1>5, <1>8
  <2>1. m \in 0..Len(left) /\ m \in Nat
    BY <2>0
  <2> DEFINE r == SubSeq(left, 1, m)
  <2>2. SweepKeys(d) = Doc(r, Len(left) > 1)
    BY <1>2, <1>8 DEF Front
  <2>3. Len(r) = m /\ r \in Seq(S)
    BY <1>5, <2>0, <2>1
  <2>4. Thins(S, r, left, 1..m)
    BY <1>5, <2>1, PrefixThins
  <2>5. \A i \in DOMAIN left : i \in 1..m \/ left[i] = Blank
    BY <1>8, <2>0
  <2> HIDE DEF r, m
  <2>6. Same(r, left, S, B)
    BY <1>5, <2>4, <2>5, BlanksThin
  <2>7. Doc(r, Len(left) > 1).lines = r /\ Doc(r, Len(left) > 1) \in Docs(S)
    <3>1. CASE Len(left) > 1
      <4>1. Len(r) # 0
        BY <2>0, <2>3, <3>1 DEF m
      <4>2. r # << >>
        BY <4>1
      <4>3. (Len(left) > 1) = TRUE
        BY <3>1
      <4>4. Doc(r, TRUE).lines = r /\ Doc(r, TRUE) \in Docs(S)
        BY <2>3, <4>2 DEF Doc, Docs, IsDoc
      <4> QED BY <4>3, <4>4
    <3>2. CASE ~(Len(left) > 1)
      <4>1. Len(r) = 0
        BY <2>0, <2>3, <3>2 DEF m
      <4>2. r = << >>
        BY <2>3, <4>1
      <4>3. (Len(left) > 1) = FALSE
        BY <3>2
      <4>4. Doc(r, FALSE).lines = r /\ Doc(r, FALSE) \in Docs(S)
        BY <2>3, <4>2 DEF Doc, Docs, IsDoc
      <4> QED BY <4>3, <4>4
    <3> QED BY <3>1, <3>2
  <2> QED BY <1>5, <2>2, <2>6, <2>7 DEF Alike, Same, s
<1>9. CASE ~d.ended /\ ~(left # << >> /\ left[Len(left)] = Blank)
  <2>1. SweepKeys(d) = Doc(left, FALSE)
    BY <1>2, <1>9
  <2>2. Doc(left, FALSE).lines = left /\ Doc(left, FALSE) \in Docs(S)
    BY <1>5, <1>9 DEF Doc, Docs, IsDoc
  <2> QED BY <1>5, <2>1, <2>2 DEF Alike, s
<1> QED BY <1>1, <1>6, <1>7, <1>8, <1>9

\* r is d with the first i of blocks bs as well.
Grown(r, d, S, B, bs, i) ==
  /\ r \in Docs(S) /\ Whole(r.lines, B)
  /\ Rest(r.lines, B) = Rest(d.lines, B)
  /\ \A c \in B : Has(r.lines, c) <=> Has(d.lines, c) \/ \E j \in 1..i : c = bs[j]

\* The hooks of r lie below the keys that K gives them if those of d do.
Held(r, d, B, K) ==
  \A c \in B : Placed(d.lines, c, K[c]) => Placed(r.lines, c, K[c])

\* K gives the spans their keys.
SpanKeys(S, B, K) ==
  \A i \in 1..Len(Spans) :
    Span(Spans[i]) \in B /\ K[Span(Spans[i])] = Spans[i] /\ KeyLine(Spans[i]) \in S

\* The blocks of C that are not in B are in d, torn or not.
Pieced(d, B, C) == \A c \in C : c \in B \/ Has(d.lines, c)

\* yaml_block_fence::add takes a torn block for one that is there.
LEMMA YamlAddStays ==
  ASSUME NEW S, NEW B, NEW C, NEW d, NEW x, NEW c, NEW k, d \in Docs(S), x \in Docs(S),
         Rest(x.lines, B) = Rest(d.lines, B), Pieced(d, B, C), c \in C, c \notin B
  PROVE  YamlAdd(x, c, k) = x
<1>1. x.lines \in Seq(S) /\ d.lines \in Seq(S)
  BY DEF Docs
<1>2. Has(x.lines, c) <=> Has(d.lines, c)
  BY <1>1, RestSame
<1>3. Holds(x, Begin(c))
  BY <1>2, HoldsHas DEF Pieced
<1> QED BY <1>3 DEF YamlAdd

\* WithSpans, one step at a time.
LEMMA WithSpansDef ==
  ASSUME NEW S, NEW B, NEW C, NEW K, NEW d, d \in Docs(S), Whole(d.lines, B), Speaks(S, B),
         SpanKeys(S, C, K), Pieced(d, B, C)
  PROVE  \E h : /\ WithSpans(d) = h[Len(Spans)]
                /\ h[0] = d
                /\ \A i \in 1..Len(Spans) :
                     h[i] = YamlAdd(h[i - 1], Span(Spans[i]), Spans[i])
<1> DEFINE n == Len(Spans)
           A == {x \in Docs(S) : Whole(x.lines, B) /\ Rest(x.lines, B) = Rest(d.lines, B)}
           G(i, x) == YamlAdd(x, Span(Spans[i]), Spans[i])
           Is(f) == f = [i \in 0..n |-> IF i = 0 THEN d ELSE G(i, f[i - 1])]
           step == [p \in Nat \X A |-> IF p[1] \in 1..n THEN G(p[1], p[2]) ELSE p[2]]
<1>1. n \in Nat /\ d \in A
  BY ScaffoldAssumption
<1>2. ASSUME NEW i \in 1..n, NEW x \in A
      PROVE  G(i, x) \in A
  <2>1. /\ Span(Spans[i]) \in C /\ KeyLine(Spans[i]) \in S /\ x \in Docs(S)
        /\ Whole(x.lines, B) /\ Rest(x.lines, B) = Rest(d.lines, B)
    BY DEF SpanKeys
  <2>2. CASE Span(Spans[i]) \in B
    <3>1. Gains(YamlAdd(x, Span(Spans[i]), Spans[i]), x, S, B, Span(Spans[i]))
      BY <2>1, <2>2, YamlAddGains
    <3> QED BY <2>1, <3>1 DEF Gains
  <2>3. CASE Span(Spans[i]) \notin B
    <3>1. G(i, x) = x
      BY <2>1, <2>3, YamlAddStays
    <3> QED BY <3>1
  <2> QED BY <2>2, <2>3
<1> HIDE DEF n, A, G
<1>3. step \in [Nat \X A -> A]
  BY <1>2
<1>4. PICK f \in [0..n -> A] : Follows(f, d, step, n)
  <2> HIDE DEF step, Is
  <2> QED BY <1>1, <1>3, Recursion
<1>5. Is(f)
  <2>1. ASSUME NEW i \in 1..n
        PROVE  step[<<i, f[i - 1]>>] = G(i, f[i - 1])
    <3>1. i \in Nat /\ i - 1 \in 0..n
      BY <1>1
    <3>2. f[i - 1] \in A
      BY <1>4, <3>1
    <3> QED BY <3>1, <3>2
  <2>2. \A i \in 0..n : i = 0 \/ i \in 1..n
    BY <1>1
  <2> HIDE DEF step
  <2> QED BY <1>4, <2>1, <2>2 DEF Follows
<1>6. Is(CHOOSE g : Is(g))
  <2> HIDE DEF Is
  <2> QED BY <1>5
<1> DEFINE h == CHOOSE g : Is(g)
<1>7. WithSpans(d) = h[n]
  BY DEF WithSpans, G, n
<1>8. h[0] = d /\ \A i \in 1..n : h[i] = G(i, h[i - 1])
  <2> HIDE DEF h
  <2>1. h = [i \in 0..n |-> IF i = 0 THEN d ELSE G(i, h[i - 1])]
    BY <1>6 DEF h
  <2>2. 0 \in 0..n /\ \A i \in 1..n : i \in 0..n /\ i # 0
    BY <1>1
  <2> HIDE DEF step, Is
  <2> QED BY <2>1, <2>2
<1> HIDE DEF h
<1> QED BY <1>7, <1>8 DEF G, n

\* The spans' hooks are added one by one.
LEMMA WithSpansGrows ==
  ASSUME NEW S, NEW B, NEW C, NEW K, NEW d, d \in Docs(S), Whole(d.lines, B), Speaks(S, B),
         SpanKeys(S, C, K), Pieced(d, B, C)
  PROVE  Grown(WithSpans(d), d, S, B, SpanBlocks, Len(Spans)) /\ Held(WithSpans(d), d, C, K)
<1> DEFINE n == Len(Spans)
<1>0. PICK h : /\ WithSpans(d) = h[n]
               /\ h[0] = d
               /\ \A i \in 1..n : h[i] = YamlAdd(h[i - 1], Span(Spans[i]), Spans[i])
  BY WithSpansDef
<1>1. n \in Nat
  BY ScaffoldAssumption
<1>2. \A i \in 1..n : SpanBlocks[i] = Span(Spans[i])
  BY ScaffoldAssumption DEF SpanBlocks
<1> HIDE DEF n
<1> DEFINE T == {i \in Nat : i <= n => Grown(h[i], d, S, B, SpanBlocks, i) /\ Held(h[i], d, C, K)}
<1>3. 0 \in T
  BY <1>0 DEF Grown, Held
<1>4. ASSUME NEW i \in Nat, i \in T
      PROVE  i + 1 \in T
  <2> SUFFICES ASSUME i + 1 <= n
               PROVE  Grown(h[i + 1], d, S, B, SpanBlocks, i + 1) /\ Held(h[i + 1], d, C, K)
    OBVIOUS
  <2>1. i + 1 \in 1..n /\ (i + 1) - 1 = i /\ i <= n
    BY <1>1
  <2>9. Grown(h[i], d, S, B, SpanBlocks, i) /\ Held(h[i], d, C, K)
    BY <1>4, <2>1
  <2> DEFINE b == Span(Spans[i + 1])
             k == Spans[i + 1]
             x == h[i]
  <2>2. b \in C /\ K[b] = k /\ KeyLine(k) \in S /\ b = SpanBlocks[i + 1]
    BY <1>2, <2>1 DEF SpanKeys, n
  <2>3. h[i + 1] = YamlAdd(x, b, k)
    BY <1>0, <2>1
  <2>4. Grown(x, d, S, B, SpanBlocks, i) /\ Held(x, d, C, K)
    BY <2>9
  <2> HIDE DEF b, k, x
  <2>5. x \in Docs(S) /\ Whole(x.lines, B) /\ Rest(x.lines, B) = Rest(d.lines, B)
    BY <2>4 DEF Grown
  <2>6. \/ b \in B /\ Gains(h[i + 1], x, S, B, b)
        \/ b \notin B /\ h[i + 1] = x
    <3>1. CASE b \in B
      BY <2>2, <2>3, <2>5, <3>1, YamlAddGains
    <3>2. CASE b \notin B
      BY <2>2, <2>3, <2>5, <3>2, YamlAddStays
    <3> QED BY <3>1, <3>2
  <2>7. Grown(h[i + 1], d, S, B, SpanBlocks, i + 1)
    <3>1. ASSUME NEW c \in B
          PROVE  Has(h[i + 1].lines, c) <=>
                   Has(d.lines, c) \/ \E j \in 1..(i + 1) : c = SpanBlocks[j]
      <4>1. Has(h[i + 1].lines, c) <=> Has(x.lines, c) \/ c = b
        BY <2>6, <3>1 DEF Gains
      <4>2. Has(x.lines, c) <=> Has(d.lines, c) \/ \E j \in 1..i : c = SpanBlocks[j]
        BY <2>4 DEF Grown
      <4>3. \A j : j \in 1..(i + 1) <=> j \in 1..i \/ j = i + 1
        OBVIOUS
      <4> QED BY <2>2, <4>1, <4>2, <4>3
    <3> QED BY <2>4, <2>6, <3>1 DEF Grown, Gains
  <2>8. Held(h[i + 1], d, C, K)
    <3> SUFFICES ASSUME NEW c \in C, Placed(d.lines, c, K[c])
                 PROVE  Placed(h[i + 1].lines, c, K[c])
      BY DEF Held
    <3>1. Placed(x.lines, c, K[c])
      BY <2>4 DEF Held
    <3>2. c = b => K[c] = k
      BY <2>2
    <3>3. CASE b \in B
      BY <2>2, <2>3, <2>5, <3>1, <3>2, <3>3, YamlAddPlaced
    <3>4. CASE b \notin B
      BY <2>6, <3>1, <3>4
    <3> QED BY <3>3, <3>4
  <2> QED BY <2>7, <2>8
<1>5. n \in T
  <2> HIDE DEF T
  <2> QED BY <1>1, <1>3, <1>4, Induction
<1> QED BY <1>0, <1>1, <1>5 DEF n

\* r is d without the first i of blocks bs.
Shrunk(r, d, S, B, bs, i) ==
  /\ r \in Docs(S) /\ Whole(r.lines, B)
  /\ Rest(r.lines, B) = Rest(d.lines, B)
  /\ \A c \in B : Has(r.lines, c) <=> Has(d.lines, c) /\ \A j \in 1..i : c # bs[j]

\* The blocks of C that are not in B are torn.
TornIn(d, B, C) == \A c \in C : c \in B \/ Torn(d.lines, c)

\* They stay torn, and cannot be removed.
LEMMA RemoveFails ==
  ASSUME NEW S, NEW B, NEW C, NEW d, NEW x, NEW c, d \in Docs(S), x \in Docs(S),
         Rest(x.lines, B) = Rest(d.lines, B), TornIn(d, B, C), c \in C, c \notin B
  PROVE  RemoveBlock(x, c) = Refused
<1>1. x.lines \in Seq(S) /\ d.lines \in Seq(S)
  BY DEF Docs
<1>2. IsRest(End(c), B)
  BY OthersRest
<1>3. (Has(x.lines, c) <=> Has(d.lines, c)) /\ (Lacks(x.lines, End(c)) <=> Lacks(d.lines, End(c)))
  BY <1>1, <1>2, RestSame
<1>4. Torn(x.lines, c)
  BY <1>3 DEF TornIn, Torn
<1> QED BY <1>4, TornFails

\* Without, one step at a time.
LEMMA WithoutDef ==
  ASSUME NEW S, NEW B, NEW C, NEW d, NEW bs, d \in Docs(S), Whole(d.lines, B),
         bs \in Seq(C), Refused \notin Docs(S), TornIn(d, B, C)
  PROVE  \E h : /\ Without(d, bs) = h[Len(bs)]
                /\ h[0] = d
                /\ \A i \in 1..Len(bs) :
                     h[i] = IF h[i - 1] = Refused THEN Refused ELSE RemoveBlock(h[i - 1], bs[i])
<1> DEFINE n == Len(bs)
           A == {Refused} \cup
                  {x \in Docs(S) : Whole(x.lines, B) /\ Rest(x.lines, B) = Rest(d.lines, B)}
           G(i, x) == IF x = Refused THEN Refused ELSE RemoveBlock(x, bs[i])
           Is(f) == f = [i \in 0..n |-> IF i = 0 THEN d ELSE G(i, f[i - 1])]
           step == [p \in Nat \X A |-> IF p[1] \in 1..n THEN G(p[1], p[2]) ELSE p[2]]
<1>1. n \in Nat /\ d \in A
  OBVIOUS
<1>2. ASSUME NEW i \in 1..n, NEW x \in A
      PROVE  G(i, x) \in A
  <2>1. bs[i] \in C
    OBVIOUS
  <2>2. CASE x = Refused
    BY <2>2
  <2>3. CASE x # Refused /\ bs[i] \in B
    <3>1. x \in Docs(S) /\ Whole(x.lines, B) /\ Rest(x.lines, B) = Rest(d.lines, B)
      BY <2>3
    <3>2. Loses(RemoveBlock(x, bs[i]), x, S, B, bs[i])
      BY <2>3, <3>1, RemoveLoses
    <3>3. RemoveBlock(x, bs[i]) \in A
      BY <3>1, <3>2 DEF Loses
    <3> HIDE DEF A
    <3> QED BY <2>3, <3>3
  <2>4. CASE x # Refused /\ bs[i] \notin B
    <3>1. x \in Docs(S) /\ Rest(x.lines, B) = Rest(d.lines, B)
      BY <2>4
    <3>2. RemoveBlock(x, bs[i]) = Refused
      BY <2>1, <2>4, <3>1, RemoveFails
    <3> QED BY <2>4, <3>2
  <2> QED BY <2>2, <2>3, <2>4
<1> HIDE DEF n, A, G
<1>3. step \in [Nat \X A -> A]
  BY <1>2
<1>4. PICK f \in [0..n -> A] : Follows(f, d, step, n)
  <2> HIDE DEF step, Is
  <2> QED BY <1>1, <1>3, Recursion
<1>5. Is(f)
  <2>1. ASSUME NEW i \in 1..n
        PROVE  step[<<i, f[i - 1]>>] = G(i, f[i - 1])
    <3>1. i \in Nat /\ i - 1 \in 0..n
      BY <1>1
    <3>2. f[i - 1] \in A
      BY <1>4, <3>1
    <3> QED BY <3>1, <3>2
  <2>2. \A i \in 0..n : i = 0 \/ i \in 1..n
    BY <1>1
  <2> HIDE DEF step
  <2> QED BY <1>4, <2>1, <2>2 DEF Follows
<1>6. Is(CHOOSE g : Is(g))
  <2> HIDE DEF Is
  <2> QED BY <1>5
<1> DEFINE h == CHOOSE g : Is(g)
<1>7. Without(d, bs) = h[n]
  BY DEF Without, G, n
<1>8. h[0] = d /\ \A i \in 1..n : h[i] = G(i, h[i - 1])
  <2> HIDE DEF h
  <2>1. h = [i \in 0..n |-> IF i = 0 THEN d ELSE G(i, h[i - 1])]
    BY <1>6 DEF h
  <2>2. 0 \in 0..n /\ \A i \in 1..n : i \in 0..n /\ i # 0
    BY <1>1
  <2> HIDE DEF step, Is
  <2> QED BY <2>1, <2>2
<1> HIDE DEF h
<1> QED BY <1>7, <1>8 DEF G, n

\* Only blocks of B can be removed, and the hooks of the others stay where they are.
Less(r, d, S, B, bs, i) ==
  /\ Shrunk(r, d, S, B, bs, i) /\ Steady(r, d)
  /\ \A j \in 1..i : bs[j] \in B

\* A unit's hooks are removed one by one, unless one of them is torn.
LEMMA WithoutShrinks ==
  ASSUME NEW S, NEW B, NEW C, NEW d, NEW bs, d \in Docs(S), Whole(d.lines, B),
         bs \in Seq(C), Refused \notin Docs(S), TornIn(d, B, C)
  PROVE  \/ Without(d, bs) = Refused
         \/ Less(Without(d, bs), d, S, B, bs, Len(bs))
<1> DEFINE n == Len(bs)
<1>0. PICK h : /\ Without(d, bs) = h[n]
               /\ h[0] = d
               /\ \A i \in 1..n :
                    h[i] = IF h[i - 1] = Refused THEN Refused ELSE RemoveBlock(h[i - 1], bs[i])
  BY WithoutDef
<1>1. n \in Nat /\ \A i \in 1..n : bs[i] \in C
  OBVIOUS
<1> HIDE DEF n
<1> DEFINE T == {i \in Nat : i <= n => h[i] = Refused \/ Less(h[i], d, S, B, bs, i)}
<1>3. 0 \in T
  BY <1>0 DEF Less, Shrunk, Steady
<1>4. ASSUME NEW i \in Nat, i \in T
      PROVE  i + 1 \in T
  <2> SUFFICES ASSUME i + 1 <= n
               PROVE  h[i + 1] = Refused \/ Less(h[i + 1], d, S, B, bs, i + 1)
    OBVIOUS
  <2>1. i + 1 \in 1..n /\ (i + 1) - 1 = i /\ i <= n
    BY <1>1
  <2>2. h[i] = Refused \/ Less(h[i], d, S, B, bs, i)
    BY <1>4, <2>1
  <2> DEFINE b == bs[i + 1]
             x == h[i]
  <2>3. b \in C
    BY <1>1, <2>1
  <2>4. CASE x = Refused
    BY <1>0, <2>1, <2>4
  <2>5. CASE x # Refused
    <3>1. h[i + 1] = RemoveBlock(x, b)
      BY <1>0, <2>1, <2>5
    <3>2. Shrunk(x, d, S, B, bs, i) /\ Steady(x, d) /\ \A j \in 1..i : bs[j] \in B
      BY <2>2, <2>5 DEF Less
    <3> HIDE DEF b, x
    <3>3. x \in Docs(S) /\ Whole(x.lines, B) /\ Rest(x.lines, B) = Rest(d.lines, B)
      BY <3>2 DEF Shrunk
    <3>4. CASE b \notin B
      <4>1. h[i + 1] = Refused
        BY <2>3, <3>1, <3>3, <3>4, RemoveFails
      <4> QED BY <4>1
    <3>5. CASE b \in B
      <4>1. Loses(h[i + 1], x, S, B, b) /\ Steady(h[i + 1], x)
        BY <3>1, <3>3, <3>5, RemoveLoses
      <4>2. Shrunk(h[i + 1], d, S, B, bs, i + 1)
        <5>1. ASSUME NEW c \in B
              PROVE  Has(h[i + 1].lines, c) <=> Has(d.lines, c) /\ \A j \in 1..(i + 1) : c # bs[j]
          <6>1. Has(h[i + 1].lines, c) <=> Has(x.lines, c) /\ c # b
            BY <4>1 DEF Loses
          <6>2. Has(x.lines, c) <=> Has(d.lines, c) /\ \A j \in 1..i : c # bs[j]
            BY <3>2 DEF Shrunk
          <6>3. \A j : j \in 1..(i + 1) <=> j \in 1..i \/ j = i + 1
            OBVIOUS
          <6> QED BY <6>1, <6>2, <6>3 DEF b
        <5> QED BY <3>2, <4>1, <5>1 DEF Shrunk, Loses
      <4>3. Steady(h[i + 1], d)
        BY <3>2, <4>1 DEF Steady
      <4>4. \A j \in 1..(i + 1) : bs[j] \in B
        <5>1. \A j : j \in 1..(i + 1) <=> j \in 1..i \/ j = i + 1
          OBVIOUS
        <5> QED BY <3>2, <3>5, <5>1 DEF b
      <4> QED BY <4>2, <4>3, <4>4 DEF Less
    <3> QED BY <3>4, <3>5
  <2> QED BY <2>4, <2>5
<1>5. n \in T
  <2> HIDE DEF T
  <2> QED BY <1>1, <1>3, <1>4, Induction
<1> QED BY <1>0, <1>1, <1>5 DEF n

----------------------------------------------------------------------------
(* The blocks of the units. *)

\* The blocks of each unit.
LEMMA BlocksAre ==
  ASSUME NEW u \in Unit
  PROVE  /\ Range(BlocksOf(u, "ignore"))
              = (IF u \in {"filter-state", "claude-code-deploy"} THEN {<<u>>} ELSE {})
         /\ Range(BlocksOf(u, "rules"))
              = (IF u = "claude-code-deploy" THEN {<<"rules">>} ELSE {})
         /\ u = "ears-linter" => Range(BlocksOf(u, "hooks")) = {<<u>>}
         /\ u = "claude-code-deploy" =>
              Range(BlocksOf(u, "hooks")) = {Span(Spans[i]) : i \in DOMAIN Spans} \cup {<<u>>}
         /\ u \in {"filter-state", "speckit"} => Range(BlocksOf(u, "hooks")) = {}
<1>1. \A f \in File : BlocksOf(u, f) =
        CASE f = "ignore" /\ u \in {"filter-state", "claude-code-deploy"} -> <<<<u>>>>
          [] f = "hooks" /\ u = "ears-linter" -> <<<<u>>>>
          [] f = "hooks" /\ u = "claude-code-deploy" -> Append(SpanBlocks, <<u>>)
          [] f = "rules" /\ u = "claude-code-deploy" -> <<<<"rules">>>>
          [] OTHER -> << >>
  BY DEF BlocksOf
<1>2. "ignore" \in File /\ "hooks" \in File /\ "rules" \in File
  BY DEF File
<1>3. Range(<< >>) = {} /\ \A x : Range(<<x>>) = {x}
  BY DEF Range
<1>4. Range(BlocksOf(u, "ignore"))
              = (IF u \in {"filter-state", "claude-code-deploy"} THEN {<<u>>} ELSE {})
  BY <1>1, <1>2, <1>3
<1>5. Range(BlocksOf(u, "rules"))
              = (IF u = "claude-code-deploy" THEN {<<"rules">>} ELSE {})
  BY <1>1, <1>2, <1>3
<1>6. u = "ears-linter" => Range(BlocksOf(u, "hooks")) = {<<u>>}
  BY <1>1, <1>2, <1>3
<1>7. u \in {"filter-state", "speckit"} => Range(BlocksOf(u, "hooks")) = {}
  BY <1>1, <1>2, <1>3
<1>8. ASSUME u = "claude-code-deploy"
      PROVE  Range(BlocksOf(u, "hooks")) = {Span(Spans[i]) : i \in DOMAIN Spans} \cup {<<u>>}
  <2>1. BlocksOf(u, "hooks") = Append(SpanBlocks, <<u>>)
    BY <1>1, <1>2, <1>8
  <2> DEFINE s == SpanBlocks
             x == <<u>>
  <2>2. /\ DOMAIN s = DOMAIN Spans /\ \A i \in DOMAIN s : s[i] = Span(Spans[i])
        /\ Spans \in Seq(STRING)
    BY ScaffoldAssumption DEF SpanBlocks
  <2>3. s \in Seq(Range(s))
    <3>1. s = [i \in 1..Len(Spans) |-> Span(Spans[i])] /\ Len(Spans) \in Nat
      BY <2>2 DEF SpanBlocks
    <3>2. \A i \in 1..Len(Spans) : Span(Spans[i]) \in Range(s)
      BY <2>2 DEF Range
    <3> HIDE DEF s
    <3> QED BY <3>1, <3>2
  <2> HIDE DEF s, x
  <2>4. Range(Append(s, x)) = Range(s) \cup {x}
    <3>1. /\ DOMAIN Append(s, x) = 1..(Len(s) + 1) /\ Len(s) \in Nat /\ DOMAIN s = 1..Len(s)
          /\ Append(s, x)[Len(s) + 1] = x
          /\ \A i \in 1..Len(s) : Append(s, x)[i] = s[i]
      BY <2>3
    <3>2. \A i \in 1..(Len(s) + 1) : i \in 1..Len(s) \/ i = Len(s) + 1
      BY <3>1
    <3> DEFINE a == Append(s, x)
    <3> HIDE DEF a
    <3>3. \A i \in DOMAIN a : a[i] \in Range(s) \cup {x}
      BY <3>1, <3>2 DEF Range, a
    <3>4. \A y \in Range(s) : \E i \in DOMAIN a : a[i] = y
      BY <3>1 DEF Range, a
    <3>5. Len(s) + 1 \in DOMAIN a /\ a[Len(s) + 1] = x
      BY <3>1 DEF a
    <3> QED BY <3>3, <3>4, <3>5 DEF Range, a
  <2>5. Range(s) = {Span(Spans[i]) : i \in DOMAIN Spans}
    BY <2>2 DEF Range
  <2> QED BY <2>1, <2>4, <2>5 DEF s, x
<1> QED BY <1>4, <1>5, <1>6, <1>7, <1>8

\* No block has two units.
LEMMA BlocksApart ==
  ASSUME NEW u \in Unit, NEW v \in Unit, NEW f \in File, u # v
  PROVE  Range(BlocksOf(u, f)) \cap Range(BlocksOf(v, f)) = {}
<1>1. /\ <<"filter-state">> # <<"claude-code-deploy">>
      /\ <<"ears-linter">> # <<"claude-code-deploy">>
      /\ \A k : Span(k) # <<"ears-linter">>
  <2>1. \A k : Len(Span(k)) = 2
    BY DEF Span
  <2>2. Len(<<"ears-linter">>) = 1
    OBVIOUS
  <2>3. <<"filter-state">>[1] = "filter-state" /\ <<"claude-code-deploy">>[1] = "claude-code-deploy"
        /\ <<"ears-linter">>[1] = "ears-linter"
    OBVIOUS
  <2> QED BY <2>1, <2>2, <2>3
<1>2. CASE f = "ignore"
  BY <1>1, <1>2, BlocksAre DEF Unit
<1>3. CASE f = "hooks"
  BY <1>1, <1>3, BlocksAre DEF Unit
<1>4. CASE f = "rules"
  BY <1>1, <1>4, BlocksAre DEF Unit
<1> QED BY <1>2, <1>3, <1>4 DEF File

\* A unit's blocks are blocks of the file.
LEMMA InBlocks ==
  ASSUME NEW u \in Unit, NEW f \in File
  PROVE  Range(BlocksOf(u, f)) \subseteq Blocks(f)
BY DEF Blocks

\* Each block of a file is a unit's.
LEMMA OfUnit ==
  ASSUME NEW f \in File, NEW b \in Blocks(f)
  PROVE  \E u \in Unit : b \in Range(BlocksOf(u, f))
BY DEF Blocks

\* All the lines that units write are lines of Line.
LEMMA LineSpeaks ==
  ASSUME NEW f \in File
  PROVE  Speaks(Line, Blocks(f))
<1>1. Blank \in Line /\ Hooks \in Line
  BY DEF Line
<1>2. ASSUME NEW b \in Blocks(f)
      PROVE  Begin(b) \in Line /\ Body(b) \in Line /\ End(b) \in Line
  <2> DEFINE U == UNION {Blocks(g) : g \in File}
             W == UNION {Range(Block(c)) : c \in U}
  <2>1. b \in U
    OBVIOUS
  <2>2. Range(Block(b)) \subseteq W
    BY <2>1
  <2>3. Begin(b) \in Range(Block(b)) /\ Body(b) \in Range(Block(b)) /\ End(b) \in Range(Block(b))
    <3>1. /\ 1 \in DOMAIN Block(b) /\ 2 \in DOMAIN Block(b) /\ 3 \in DOMAIN Block(b)
          /\ Block(b)[1] = Begin(b) /\ Block(b)[2] = Body(b) /\ Block(b)[3] = End(b)
      BY DEF Block
    <3> QED BY <3>1 DEF Range
  <2>4. W \subseteq Line
    BY DEF Line
  <2> QED BY <2>2, <2>3, <2>4
<1> QED BY <1>1, <1>2 DEF Speaks

\* And so are those of the user and the keys.
LEMMA OtherLines ==
  /\ Text("settings") \in Line /\ Text("mine") \in Line /\ Item("mine") \in Line
  /\ Broken \in Line /\ Blank \in Line /\ Hooks \in Line
  /\ \A k \in Range(Spans) \cup Range(KeyOf) : KeyLine(k) \in Line
<1>1. "hooks" \in File /\ Broken \in Scraps("hooks")
  BY DEF File, Scraps
<1>2. Broken \in UNION {Scraps(f) : f \in File}
  BY <1>1
<1> QED BY <1>2 DEF Line

\* The key of each hook.
HookKey == [b \in Blocks("hooks") |->
              IF b \in {<<u>> : u \in DOMAIN KeyOf} THEN KeyOf[b[1]] ELSE b[2]]

\* HookKey gives each hook the key that it is added below.
LEMMA HookKeyIs ==
  /\ \A u \in DOMAIN KeyOf :
       /\ <<u>> \in Blocks("hooks") /\ HookKey[<<u>>] = KeyOf[u]
       /\ KeyLine(KeyOf[u]) \in Line
  /\ SpanKeys(Line, Blocks("hooks"), HookKey)
<1>1. ASSUME NEW u \in DOMAIN KeyOf
      PROVE  /\ <<u>> \in Blocks("hooks") /\ HookKey[<<u>>] = KeyOf[u]
             /\ KeyLine(KeyOf[u]) \in Line
  <2>1. u \in Unit /\ u \in {"ears-linter", "claude-code-deploy"} /\ "hooks" \in File
    BY DEF KeyOf, Unit, File
  <2>2. <<u>> \in Range(BlocksOf(u, "hooks"))
    BY <2>1, BlocksAre
  <2>3. <<u>> \in Blocks("hooks")
    BY <2>1, <2>2, InBlocks
  <2>4. HookKey[<<u>>] = KeyOf[u]
    <3>1. <<u>>[1] = u
      OBVIOUS
    <3> DEFINE b == <<u>>
    <3>2. b \in {<<v>> : v \in DOMAIN KeyOf}
      OBVIOUS
    <3> HIDE DEF b
    <3>3. HookKey[b] = KeyOf[b[1]]
      BY <2>3, <3>2 DEF HookKey, b
    <3> QED BY <3>1, <3>3 DEF b
  <2>5. KeyOf[u] \in Range(KeyOf)
    BY DEF Range
  <2> QED BY <2>3, <2>4, <2>5, OtherLines
<1>2. ASSUME NEW i \in 1..Len(Spans)
      PROVE  /\ Span(Spans[i]) \in Blocks("hooks") /\ HookKey[Span(Spans[i])] = Spans[i]
             /\ KeyLine(Spans[i]) \in Line
  <2>1. i \in DOMAIN Spans
    BY ScaffoldAssumption
  <2>2. "claude-code-deploy" \in Unit /\ "hooks" \in File
    BY DEF Unit, File
  <2>3. Span(Spans[i]) \in Range(BlocksOf("claude-code-deploy", "hooks"))
    BY <2>1, <2>2, BlocksAre
  <2>4. Span(Spans[i]) \in Blocks("hooks")
    BY <2>2, <2>3, InBlocks
  <2>5. HookKey[Span(Spans[i])] = Spans[i]
    <3>1. Span(Spans[i])[2] = Spans[i] /\ Len(Span(Spans[i])) = 2
      BY DEF Span
    <3>2. \A u \in DOMAIN KeyOf : Len(<<u>>) = 1
      OBVIOUS
    <3>3. Span(Spans[i]) \notin {<<u>> : u \in DOMAIN KeyOf}
      BY <3>1, <3>2
    <3> QED BY <2>4, <3>1, <3>3 DEF HookKey
  <2>6. Spans[i] \in Range(Spans)
    BY <2>1 DEF Range
  <2> QED BY <2>4, <2>5, <2>6, OtherLines
<1> QED BY <1>1, <1>2 DEF SpanKeys

\* The lines of a file that is there, or none.
LinesIn(d) == IF d # Absent THEN d.lines ELSE << >>

\* A file that no unit has written has no block.
LEMMA PlainNone ==
  ASSUME NEW B, NEW d, d \in Plain \cup {Absent}
  PROVE  /\ d \in Docs(Line) \cup {Absent}
         /\ Sane(LinesIn(d), B) /\ Whole(LinesIn(d), B)
         /\ \A b : ~Has(LinesIn(d), b) /\ ~Torn(LinesIn(d), b)
         /\ \A b, k : Placed(LinesIn(d), b, k)
         /\ Lacks(LinesIn(d), Garbled)
<1> DEFINE s == LinesIn(d)
<1>1. d \in Docs(Line) \cup {Absent}
  BY DEF Plain
<1>2. \A i \in DOMAIN s : ~IsMarked(s[i]) /\ s[i] # Garbled
  <2>1. CASE d = Absent
    BY <2>1 DEF LinesIn
  <2>2. CASE d # Absent
    BY <2>2 DEF LinesIn, Plain
  <2> QED BY <2>1, <2>2
<1> HIDE DEF s
<1>3. /\ Sane(s, B) /\ Whole(s, B)
      /\ \A b : ~Has(s, b) /\ ~Torn(s, b)
      /\ \A b, k : Placed(s, b, k)
  BY <1>2, Unmarked
<1> QED BY <1>1, <1>2, <1>3 DEF s, Lacks

\* What an add reads has the blocks of the file that is there and can be read.
LEMMA ReadIs ==
  ASSUME NEW f \in File, file[f] \in Docs(Line) \cup {Absent},
         Sane(Lines(f), Blocks(f))
  PROVE  /\ Read(f) \in Docs(Line)
         /\ Sane(Read(f).lines, Blocks(f))
         /\ Lacks(Read(f).lines, Garbled)
         /\ \A b : Has(Read(f).lines, b) => Has(Lines(f), b)
         /\ Lacks(Lines(f), Garbled) => \A b : /\ Has(Read(f).lines, b) <=> Has(Lines(f), b)
                                               /\ Torn(Read(f).lines, b) => Torn(Lines(f), b)
         /\ \A b, k : Placed(Lines(f), b, k) => Placed(Read(f).lines, b, k)
         /\ Readable(f) => Read(f).lines = Lines(f)
<1>1. CASE Readable(f)
  <2>1. Lacks(file[f].lines, Garbled)
    BY <1>1 DEF Readable, Holds, At, Lacks
  <2> QED BY <1>1, <2>1 DEF Readable, Read, Lines, Present
<1>2. CASE ~Readable(f)
  <2> DEFINE s == Read(f).lines
  <2>1. Lacks(Lines(f), Garbled) => Lines(f) = << >>
    BY <1>2 DEF Readable, Holds, At, Lacks, Lines, Present
  <2>2. Read(f) \in Docs(Line)
    <3>1. Nothing \in Docs(Line)
      BY DEF Nothing, Doc, Docs, IsDoc
    <3>2. Bootstrap \in Docs(Line)
      <4> DEFINE w == <<Text("settings"), Hooks>>
      <4>1. w \in Seq(Line) /\ w # << >>
        BY OtherLines
      <4> HIDE DEF w
      <4>2. Doc(w, TRUE) \in Docs(Line)
        BY <4>1 DEF Doc, Docs, IsDoc
      <4> QED BY <4>2 DEF Bootstrap, w
    <3> QED BY <1>2, <3>1, <3>2 DEF Read
  <2>3. \A i \in DOMAIN s : s[i] \in {Text("settings"), Hooks}
    <3>1. CASE f = "hooks"
      <4> DEFINE w == <<Text("settings"), Hooks>>
      <4>1. s = w
        BY <1>2, <3>1 DEF Read, Bootstrap, Doc
      <4>2. DOMAIN w = 1..2 /\ w[1] = Text("settings") /\ w[2] = Hooks
        OBVIOUS
      <4>3. \A i \in 1..2 : i = 1 \/ i = 2
        OBVIOUS
      <4> HIDE DEF w, s
      <4> QED BY <4>1, <4>2, <4>3
    <3>2. CASE f # "hooks"
      BY <1>2, <3>2 DEF Read, Nothing, Doc
    <3> QED BY <3>1, <3>2
  <2> HIDE DEF s
  <2>4. \A i \in DOMAIN s : ~IsMarked(s[i]) /\ s[i] # Garbled
    <3>1. ~IsMarked(Text("settings")) /\ ~IsMarked(Hooks)
      BY Roles DEF IsMarked
    <3>2. Text("settings") # Garbled /\ Hooks # Garbled
      BY Roles
    <3> QED BY <2>3, <3>1, <3>2
  <2>5. /\ Sane(s, Blocks(f))
        /\ \A b : ~Has(s, b) /\ ~Torn(s, b)
        /\ \A b, k : Placed(s, b, k)
    BY <2>4, Unmarked
  <2>6. Lacks(s, Garbled)
    BY <2>4 DEF Lacks
  <2>7. Lines(f) = << >> => \A b : ~Has(Lines(f), b)
    BY DEF Has
  <2> QED BY <1>2, <2>1, <2>2, <2>5, <2>6, <2>7 DEF s
<1> QED BY <1>1, <1>2

----------------------------------------------------------------------------
(* The invariant of the files, and what it says. *)

\* Is block b in file f?
InFile(f, b) == Has(Lines(f), b)

\* The step of an add that puts block b of unit u into file f.
StepFor(u, f, b) ==
  IF f # "hooks" THEN f ELSE IF b = <<u>> THEN "hook" ELSE "spans"

\* No write has left a piece of s, and no line makes it unreadable.
Unhurt(s, B) == (\A b \in B : ~Torn(s, b)) /\ Lacks(s, Garbled)

\* The files that are there hold blocks that are whole or torn, and torn ones only
\* if a write was cut short; those from git hold none.
FilesOK ==
  /\ file \in [File -> Docs(Line) \cup {Absent}]
  /\ original \in [File -> Plain \cup {Absent}]
  /\ \A f \in File : Sane(Lines(f), Blocks(f))
  /\ \A f \in File \ touched : Unhurt(Lines(f), Blocks(f))

\* Hooks lie below their keys, but for what a sweep of the keys may do.
PlaceOK ==
  \A b \in Blocks("hooks") :
    (swept => b # <<"ears-linter">>) => Placed(Lines("hooks"), b, HookKey[b])

\* Nothing comes after the manifest.
SaveLast(steps) == \A i \in DOMAIN steps : steps[i] = "save" => i = Len(steps)

\* The steps to go are steps of the command, and the manifest is the last one.
StepsOK ==
  /\ branch \in {"none", "user", "specere"}
  /\ installed \subseteq Unit
  /\ claim => "speckit" \in installed
  /\ job.ours => job.unit = "speckit" /\ job.verb = "add"
  /\ job.verb = "add" =>
       job.unit \in Unit /\ Range(job.todo) \subseteq Range(AddSteps[job.unit])
  /\ job.verb = "remove" =>
       /\ job.unit \in Unit
       /\ \E steps \in RemoveSteps[job.unit] : Range(job.todo) \subseteq Range(steps)
  /\ job.verb = "remove" /\ job.unit = "claude-code-deploy" => swept
  /\ SaveLast(job.todo)

\* What an add has not put is still to come, but in files left in pieces.
AddOK ==
  (job.verb = "add" /\ "file" \notin touched) =>
    /\ job.unit = "speckit" => kit.own \/ "init" \in Range(job.todo)
    /\ \A f \in File \ touched : \A b \in Range(BlocksOf(job.unit, f)) :
         InFile(f, b) \/ StepFor(job.unit, f, b) \in Range(job.todo)

\* What a remove has not taken is still to go.
RemoveOK ==
  job.verb = "remove" =>
    \A f \in File : \A b \in Range(BlocksOf(job.unit, f)) :
      ~InFile(f, b) \/ f \in Range(job.todo)

\* The units at rest are there as the manifest says.
InstallOK ==
  "file" \notin touched =>
    \A u \in installed \ (late \cup {job.unit}) :
      /\ u = "speckit" => kit.own
      /\ \A f \in File \ touched : \A b \in Range(BlocksOf(u, f)) : InFile(f, b)

\* The units that are not in the manifest, and not late, have no block.
AbsentOK ==
  \A u \in Unit \ (installed \cup late \cup {job.unit}) :
    \A f \in File : \A b \in Range(BlocksOf(u, f)) : ~InFile(f, b)

\* The invariant of the files.
FInv ==
  FilesOK /\ PlaceOK /\ StepsOK /\ AddOK /\ RemoveOK /\ InstallOK /\ AbsentOK

----------------------------------------------------------------------------

\* The lines of a file that may not be there.
LEMMA LinesAre ==
  ASSUME NEW f
  PROVE  Lines(f) = LinesIn(file[f]) /\ Lines(f)' = LinesIn(file'[f])
BY DEF Lines, LinesIn, Present

\* The lines of every file are lines of Line.
LEMMA LinesType ==
  ASSUME FilesOK, NEW f \in File
  PROVE  Lines(f) \in Seq(Line)
BY DEF FilesOK, Lines, Present, Docs, IsDoc

\* The lines of a block of s.
LinesAt(s, b) == {i \in DOMAIN s : s[i] \in Range(Block(b))}

\* The lines of a block.
LEMMA RangeBlock ==
  ASSUME NEW b
  PROVE  Range(Block(b)) = {Begin(b), Body(b), End(b)}
<1>1. /\ DOMAIN Block(b) = 1..3
      /\ Block(b)[1] = Begin(b) /\ Block(b)[2] = Body(b) /\ Block(b)[3] = End(b)
  BY DEF Block
<1>2. \A i \in 1..3 : i = 1 \/ i = 2 \/ i = 3
  OBVIOUS
<1>3. 1 \in 1..3 /\ 2 \in 1..3 /\ 3 \in 1..3
  OBVIOUS
<1> DEFINE t == Block(b)
<1> HIDE DEF t
<1> QED BY <1>1, <1>2, <1>3 DEF Range, t

\* A block without its begin marker has no lines.
LEMMA NoLines ==
  ASSUME NEW S, NEW b, NEW s, s \in Seq(S), Led(s, b), ~Has(s, b)
  PROVE  LinesAt(s, b) = {}
<1>1. ASSUME NEW i \in DOMAIN s, s[i] \in {Begin(b), Body(b), End(b)}
      PROVE  FALSE
  <2>1. CASE s[i] = Begin(b)
    BY <2>1 DEF Has
  <2>2. CASE s[i] = Body(b)
    BY <2>2 DEF Has, Led
  <2>3. CASE s[i] = End(b)
    BY <2>3 DEF Has, Led
  <2> QED BY <1>1, <2>1, <2>2, <2>3
<1> QED BY <1>1, RangeBlock DEF LinesAt

\* A whole block that is there lies there once, with its lines together.
LEMMA AllLines ==
  ASSUME NEW S, NEW B, NEW b, NEW s, s \in Seq(S), b \in B, Whole(s, B), Has(s, b)
  PROVE  /\ LinesAt(s, b) # {}
         /\ LinesAt(s, b) = Min(LinesAt(s, b))..(Min(LinesAt(s, b)) + 2)
         /\ SubSeq(s, Min(LinesAt(s, b)), Min(LinesAt(s, b)) + 2) = Block(b)
<1> DEFINE P == LinesAt(s, b)
<1>1. PICK q \in DOMAIN s : s[q] = Begin(b)
  BY DEF Has
<1>2. /\ q + 2 \in DOMAIN s /\ s[q + 1] = Body(b) /\ s[q + 2] = End(b)
  BY <1>1 DEF Whole, Opened
<1>3. \A j \in DOMAIN s : s[j] = Begin(b) => j = q
  BY <1>1 DEF Whole, Once
<1>4. DOMAIN s = 1..Len(s) /\ Len(s) \in Nat /\ q \in Nat
  BY <1>1
<1>5. P = q..(q + 2)
  <2>1. ASSUME NEW i \in P PROVE i \in q..(q + 2)
    <3>1. i \in DOMAIN s /\ s[i] \in {Begin(b), Body(b), End(b)}
      BY <2>1, RangeBlock DEF LinesAt
    <3>2. CASE s[i] = Begin(b)
      BY <1>3, <1>4, <3>1, <3>2
    <3>3. CASE s[i] = Body(b)
      <4>1. i - 1 = q
        BY <1>3, <3>1, <3>3 DEF Whole, Closed
      <4> QED BY <1>4, <3>1, <4>1
    <3>4. CASE s[i] = End(b)
      <4>1. i - 2 = q
        BY <1>3, <3>1, <3>4 DEF Whole, Closed
      <4> QED BY <1>4, <3>1, <4>1
    <3> QED BY <3>1, <3>2, <3>3, <3>4
  <2>2. ASSUME NEW i \in q..(q + 2) PROVE i \in P
    <3>1. i = q \/ i = q + 1 \/ i = q + 2
      BY <1>4
    <3>2. i \in DOMAIN s
      BY <1>2, <1>4
    <3> QED BY <1>1, <1>2, <3>1, <3>2, RangeBlock DEF LinesAt
  <2> QED BY <2>1, <2>2
<1> HIDE DEF P
<1>6. Min(P) = q
  <2>1. P \in SUBSET Nat /\ q \in P
    BY <1>4, <1>5
  <2>2. Min(P) \in P /\ \A k \in P : Min(P) <= k
    BY <2>1, MinFound
  <2> QED BY <1>4, <1>5, <2>1, <2>2
<1>7. SubSeq(s, q, q + 2) = Block(b)
  <2>1. q \in 1..Len(s) /\ q + 2 \in q..Len(s)
    BY <1>2, <1>4
  <2>2. /\ Splices(S, s, Cut(s, q, q + 2), q, SubSeq(s, q, q + 2))
        /\ Len(SubSeq(s, q, q + 2)) = ((q + 2) + 1) - q
        /\ \A k \in 1..(((q + 2) + 1) - q) : SubSeq(s, q, q + 2)[k] = s[(q - 1) + k]
    BY ONLY <2>1, s \in Seq(S), CutSplices
  <2> DEFINE t == SubSeq(s, q, q + 2)
             W == S \cup {Begin(b), Body(b), End(b)}
  <2>3. t \in Seq(W) /\ Block(b) \in Seq(W) /\ Len(Block(b)) = 3
    <3>1. t \in Seq(S)
      BY <2>2 DEF Splices
    <3>2. Block(b) \in Seq(W) /\ Len(Block(b)) = 3
      BY DEF Block
    <3> QED BY <3>1, <3>2
  <2> HIDE DEF t, W
  <2>4. Len(t) = 3 /\ t[1] = Begin(b) /\ t[2] = Body(b) /\ t[3] = End(b)
    <3>1. ((q + 2) + 1) - q = 3 /\ (q - 1) + 1 = q /\ (q - 1) + 2 = q + 1
          /\ (q - 1) + 3 = q + 2
      BY <1>4
    <3>2. Len(t) = 3 /\ \A k \in 1..3 : t[k] = s[(q - 1) + k]
      BY <2>2, <3>1 DEF t
    <3>3. t[1] = s[(q - 1) + 1] /\ t[2] = s[(q - 1) + 2] /\ t[3] = s[(q - 1) + 3]
      BY <3>2
    <3> QED BY <1>1, <1>2, <3>1, <3>2, <3>3
  <2>5. Block(b)[1] = Begin(b) /\ Block(b)[2] = Body(b) /\ Block(b)[3] = End(b)
    BY DEF Block
  <2>6. \A k \in 1..Len(t) : t[k] = Block(b)[k]
    <3>1. \A k \in 1..3 : k = 1 \/ k = 2 \/ k = 3
      OBVIOUS
    <3> QED BY <2>4, <2>5, <3>1
  <2> DEFINE u == Block(b)
  <2>7. u \in Seq(W) /\ Len(t) = Len(u) /\ \A k \in 1..Len(t) : t[k] = u[k]
    BY <2>3, <2>4, <2>6
  <2> HIDE DEF u
  <2>8. t = u
    BY <2>3, <2>7, SeqEqual
  <2> QED BY <2>8 DEF t, u
<1> QED BY <1>4, <1>5, <1>6, <1>7 DEF P

\* Where no block is torn they are whole.
LEMMA UnhurtWhole ==
  ASSUME NEW s, NEW B, Sane(s, B), Unhurt(s, B)
  PROVE  Sound(s, B) = B /\ Whole(s, B)
BY DEF Sane, Unhurt, Sound

\* A block that is in a file is there as InstalledThere has it.
LEMMA WholeThere ==
  ASSUME FilesOK, NEW f \in File, NEW b \in Blocks(f), InFile(f, b), f \notin touched
  PROVE  WholeIn(f, b)
<1>1. Lines(f) \in Seq(Line) /\ Whole(Lines(f), Blocks(f)) /\ Has(Lines(f), b)
  BY LinesType, UnhurtWhole DEF FilesOK, InFile
<1>2. LinesOf(f, b) = LinesAt(Lines(f), b)
  BY DEF LinesOf, LinesAt
<1> DEFINE s == Lines(f)
<1> HIDE DEF s
<1>3. /\ LinesAt(s, b) # {}
      /\ LinesAt(s, b) = Min(LinesAt(s, b))..(Min(LinesAt(s, b)) + 2)
      /\ SubSeq(s, Min(LinesAt(s, b)), Min(LinesAt(s, b)) + 2) = Block(b)
  BY <1>1, AllLines DEF s
<1> QED BY <1>2, <1>3 DEF WholeIn, s

\* A block that is not in a file has no lines there.
LEMMA NoneThere ==
  ASSUME FilesOK, NEW f \in File, NEW b \in Blocks(f), ~InFile(f, b)
  PROVE  LinesOf(f, b) = {}
<1>1. Lines(f) \in Seq(Line) /\ Led(Lines(f), b) /\ ~Has(Lines(f), b)
  BY LinesType DEF FilesOK, InFile, Sane
<1>2. LinesOf(f, b) = LinesAt(Lines(f), b)
  BY DEF LinesOf, LinesAt
<1> QED BY <1>1, <1>2, NoLines

\* A line below a key has that key's line as its owner.
LEMMA UnderOwner ==
  ASSUME NEW S, NEW s, NEW i, NEW k, s \in Seq(S), i \in DOMAIN s, Under(s, i, k)
  PROVE  OwnerOf(s, i) # 0 /\ s[OwnerOf(s, i)] = KeyLine(k)
<1>1. PICK o \in 1..(i - 1) : s[o] = KeyLine(k) /\ \A j \in (o + 1)..(i - 1) : ~Owns(s[j])
  BY DEF Under
<1> DEFINE above == {j \in 1..(i - 1) : s[j][1] \in {"key", "hooks", "text"}}
<1>2. o \in above
  BY <1>1, Roles
<1>3. OwnerOf(s, i) = Max(above)
  BY <1>2 DEF OwnerOf
<1>4. i \in Nat /\ i > 0
  OBVIOUS
<1>5. i - 1 \in Nat /\ above \in SUBSET (0..(i - 1))
  BY <1>4
<1>6. \A j \in above : Owns(s[j]) /\ j \in 1..(i - 1)
  BY DEF Owns
<1> HIDE DEF above
<1>7. Max(above) \in above /\ \A j \in above : j <= Max(above)
  BY <1>2, <1>5, MaxFound
<1>8. Max(above) = o
  <2>1. Max(above) \in 1..(i - 1) /\ o <= Max(above)
    BY <1>2, <1>6, <1>7
  <2>2. Max(above) \notin (o + 1)..(i - 1)
    BY <1>1, <1>6, <1>7
  <2> QED BY <1>1, <1>4, <2>1, <2>2
<1> QED BY <1>1, <1>3, <1>8

\* A hook in the list of its key is there as HooksPlaced has it.
LEMMA PlacedIs ==
  ASSUME FilesOK, NEW b, NEW k, Placed(Lines("hooks"), b, k)
  PROVE  PlacedUnder(b, k)
<1>1. Lines("hooks") \in Seq(Line)
  BY LinesType DEF File
<1> DEFINE s == Lines("hooks")
<1> HIDE DEF s
<1>2. ASSUME NEW i \in DOMAIN s, s[i] = Body(b)
      PROVE  OwnerOf(s, i) # 0 /\ s[OwnerOf(s, i)] = KeyLine(k)
  BY <1>1, <1>2, UnderOwner DEF s, Placed
<1> QED BY <1>2 DEF s, PlacedUnder

\* The invariant implies what the runs check.
LEMMA FilesShow ==
  ASSUME IInv, FInv
  PROVE  TypeOK /\ InstalledThere /\ NothingLeft /\ HooksPlaced
<1>1. TypeOK
  <2>1. job \in Jobs /\ (job.verb = "none" => job = NoJob)
        /\ (job.verb # "none" => job.todo # << >>)
        /\ (job.verb = "clean" => job.unit = "doctor")
    BY DEF IInv, JobOK
  <2>2. ~Idle => job.unit \in Unit \cup {"doctor"} /\ job.todo # << >>
    BY <2>1 DEF Idle, Jobs, FInv, StepsOK
  <2>3. kit \in [own : BOOLEAN, feature : {"none", "template", "filled"},
              pointer : BOOLEAN, runs : BOOLEAN]
    BY DEF IInv, PointerOK, Kits
  <2> QED BY <2>2, <2>3 DEF TypeOK, FInv, FilesOK, StepsOK
<1>2. InstalledThere
  <2> SUFFICES ASSUME "file" \notin touched,
                      NEW u \in installed \ (late \cup {job.unit})
               PROVE  /\ u = "speckit" => kit.own
                      /\ \A f \in File \ touched :
                           \A b \in Range(BlocksOf(u, f)) : WholeIn(f, b)
    BY DEF InstalledThere
  <2>1. /\ u = "speckit" => kit.own
        /\ \A f \in File \ touched : \A b \in Range(BlocksOf(u, f)) : InFile(f, b)
    BY DEF FInv, InstallOK
  <2>2. u \in Unit
    BY DEF FInv, StepsOK
  <2>3. ASSUME NEW f \in File \ touched, NEW b \in Range(BlocksOf(u, f))
        PROVE  WholeIn(f, b)
    BY <2>1, <2>2, InBlocks, WholeThere DEF FInv
  <2> QED BY <2>1, <2>3
<1>3. NothingLeft
  <2> SUFFICES ASSUME NEW u \in Unit \ (installed \cup late \cup {job.unit}),
                      NEW f \in File, NEW b \in Range(BlocksOf(u, f))
               PROVE  LinesOf(f, b) = {}
    BY DEF NothingLeft
  <2>1. ~InFile(f, b) /\ b \in Blocks(f)
    BY InBlocks DEF FInv, AbsentOK
  <2> QED BY <2>1, NoneThere DEF FInv
<1>4. HooksPlaced
  <2>1. ASSUME NEW i \in DOMAIN Spans
        PROVE  PlacedUnder(Span(Spans[i]), Spans[i])
    <3>1. i \in 1..Len(Spans)
      BY ScaffoldAssumption
    <3>2. Span(Spans[i]) \in Blocks("hooks") /\ HookKey[Span(Spans[i])] = Spans[i]
      BY <3>1, HookKeyIs DEF SpanKeys
    <3>3. Span(Spans[i]) # <<"ears-linter">>
      BY DEF Span
    <3>4. Placed(Lines("hooks"), Span(Spans[i]), Spans[i])
      BY <3>2, <3>3 DEF FInv, PlaceOK
    <3> QED BY <3>4, PlacedIs DEF FInv
  <2>2. ASSUME NEW u \in DOMAIN KeyOf, u = "ears-linter" => ~swept
        PROVE  PlacedUnder(<<u>>, KeyOf[u])
    <3>1. <<u>> \in Blocks("hooks") /\ HookKey[<<u>>] = KeyOf[u]
      BY HookKeyIs
    <3>2. swept => <<u>> # <<"ears-linter">>
      <4>1. u # "ears-linter" => <<u>> # <<"ears-linter">>
        OBVIOUS
      <4> QED BY <2>2, <4>1
    <3>3. Placed(Lines("hooks"), <<u>>, KeyOf[u])
      BY <3>1, <3>2 DEF FInv, PlaceOK
    <3> QED BY <3>3, PlacedIs DEF FInv
  <2> QED BY <2>1, <2>2 DEF HooksPlaced
<1> QED BY <1>1, <1>2, <1>3, <1>4

----------------------------------------------------------------------------
(* What the steps that write leave. *)

\* A command puts blocks on into file f and takes blocks off out of it.  What was
\* in pieces, or could not be read, may lose more.
Moves(new, f, on, off) ==
  /\ new \in Docs(Line) \cup {Absent}
  /\ Sane(LinesIn(new), Blocks(f))
  /\ Readable(f) => Users(LinesIn(new)) = Users(Lines(f))
  /\ \A c \in Blocks(f) :
       Has(LinesIn(new), c) => c \in on \/ (Has(Lines(f), c) /\ c \notin off)
  /\ f \notin touched =>
       /\ \A c \in Blocks(f) :
            c \in on \/ (Has(Lines(f), c) /\ c \notin off) => Has(LinesIn(new), c)
       /\ Unhurt(LinesIn(new), Blocks(f))
  /\ f = "hooks" =>
       \A c \in Blocks("hooks") :
         (swept => c # <<"ears-linter">>) =>
           (Placed(Lines("hooks"), c, HookKey[c]) => Placed(LinesIn(new), c, HookKey[c]))

\* A step leaves file f with blocks on, and without blocks off.
Wrote(f, on, off) ==
  /\ \E new : Moves(new, f, on, off) /\ Advance /\ file' = [file EXCEPT ![f] = new]
  /\ UNCHANGED <<touched, trouble>>

\* A step fails before it writes.
Wrong == GiveUp /\ UNCHANGED <<file, touched, trouble>>

\* A step is cut short while it writes.
InPieces(f, on, off) ==
  \E new : Moves(new, f, on, off) /\ new # Absent /\ CutShort(f, new)

\* A step writes file f, or tries to.
Tried(f, on, off) == Wrong \/ Wrote(f, on, off) \/ InPieces(f, on, off)

\* What a write can do.
LEMMA WriteTried ==
  ASSUME NEW f, NEW on, NEW off, NEW new, Write(f, new), new # Refused => Moves(new, f, on, off)
  PROVE  Tried(f, on, off)
<1>1. CASE new = Refused
  <2>1. GiveUp /\ UNCHANGED <<file, touched, trouble>>
    BY <1>1 DEF Write
  <2> QED BY <2>1 DEF Tried, Wrong
<1>2. CASE new # Refused
  <2>1. Moves(new, f, on, off)
    BY <1>2
  <2>2. CASE Advance /\ file' = [file EXCEPT ![f] = new] /\ UNCHANGED <<touched, trouble>>
    BY <2>1, <2>2 DEF Tried, Wrote
  <2>3. CASE new # Absent /\ CutShort(f, new)
    BY <2>1, <2>3 DEF Tried, InPieces
  <2> QED BY <1>2, <2>2, <2>3 DEF Write
<1> QED BY <1>1, <1>2

\* A file that is there is neither Absent nor Refused.
LEMMA InDocs ==
  ASSUME NEW d, d \in Docs(Line)
  PROVE  d # Absent /\ d # Refused /\ LinesIn(d) = d.lines /\ d \in Docs(Line) \cup {Absent}
BY ScaffoldAssumption DEF LinesIn

\* The blocks of what a command reads of file f that it can take for whole.
Usable(f) == Sound(Read(f).lines, Blocks(f))

\* r is what a command has read of file f, with blocks on and without blocks off.
Made(r, f, on, off) ==
  /\ r \in Docs(Line) /\ Whole(r.lines, Usable(f))
  /\ Rest(r.lines, Usable(f)) = Rest(Read(f).lines, Usable(f))
  /\ \A c \in Usable(f) :
       Has(r.lines, c) <=> c \in on \/ (Has(Read(f).lines, c) /\ c \notin off)
  /\ off \subseteq Usable(f)

\* Where a hook lay below its key it still does.
StillHeld(r, d) ==
  \A c \in Blocks("hooks") :
    (swept => c # <<"ears-linter">>) =>
      (Placed(d.lines, c, HookKey[c]) => Placed(r.lines, c, HookKey[c]))

\* A file that is read.
LEMMA ReadOK ==
  ASSUME FilesOK, NEW f, f \in File
  PROVE  /\ Read(f) \in Docs(Line) /\ Sane(Read(f).lines, Blocks(f))
         /\ Whole(Read(f).lines, Usable(f)) /\ Speaks(Line, Usable(f))
         /\ Usable(f) \subseteq Blocks(f)
         /\ \A b \in Blocks(f) : b \in Usable(f) \/ Torn(Read(f).lines, b)
         /\ Readable(f) => Read(f) = file[f] /\ Present(f) /\ file[f].lines = Lines(f)
<1>1. file[f] \in Docs(Line) \cup {Absent} /\ Sane(Lines(f), Blocks(f))
  BY DEF FilesOK
<1>2. Read(f) \in Docs(Line) /\ Sane(Read(f).lines, Blocks(f))
  BY <1>1, ReadIs
<1>3. /\ Usable(f) \subseteq Blocks(f)
      /\ \A b \in Blocks(f) : b \in Usable(f) \/ Torn(Read(f).lines, b)
  BY DEF Usable, Sound
<1>4. Speaks(Line, Usable(f))
  BY <1>3, LineSpeaks DEF Speaks
<1>5. Readable(f) => Read(f) = file[f] /\ Present(f) /\ file[f].lines = Lines(f)
  BY DEF Readable, Read, Lines
<1> QED BY <1>2, <1>3, <1>4, <1>5 DEF Usable, Sane

\* What a command makes of what it read is right for what is there.
LEMMA MadeMoves ==
  ASSUME NEW f, NEW on, NEW off, NEW r, FilesOK, f \in File, Made(r, f, on, off),
         f = "hooks" => StillHeld(r, Read(f))
  PROVE  r # Refused /\ Moves(r, f, on, off)
<1> DEFINE d == Read(f)
           A == Usable(f)
<1>1. /\ LinesIn(r) = r.lines /\ r \in Docs(Line) \cup {Absent} /\ r # Refused
      /\ r.lines \in Seq(Line)
  BY InDocs DEF Made, Docs
<1>2. file[f] \in Docs(Line) \cup {Absent} /\ Sane(Lines(f), Blocks(f))
      /\ (f \notin touched => Unhurt(Lines(f), Blocks(f)))
  BY DEF FilesOK
<1>3. /\ Lacks(d.lines, Garbled)
      /\ \A b : Has(d.lines, b) => Has(Lines(f), b)
      /\ Lacks(Lines(f), Garbled) => \A b : /\ Has(d.lines, b) <=> Has(Lines(f), b)
                                            /\ Torn(d.lines, b) => Torn(Lines(f), b)
      /\ \A b, k : Placed(Lines(f), b, k) => Placed(d.lines, b, k)
      /\ Readable(f) => d.lines = Lines(f)
  BY <1>2, ReadIs
<1>4. /\ d.lines \in Seq(Line) /\ Sane(d.lines, Blocks(f)) /\ A = Sound(d.lines, Blocks(f))
      /\ A \subseteq Blocks(f) /\ \A b \in Blocks(f) : b \in A \/ Torn(d.lines, b)
  BY ReadOK DEF Docs, Usable
<1>5. /\ Whole(r.lines, A) /\ Rest(r.lines, A) = Rest(d.lines, A) /\ off \subseteq A
      /\ \A c \in A : Has(r.lines, c) <=> c \in on \/ (Has(d.lines, c) /\ c \notin off)
  BY DEF Made
<1> HIDE DEF d, A
<1>6. /\ Sane(r.lines, Blocks(f)) /\ Users(r.lines) = Users(d.lines)
      /\ \A c \in Blocks(f) : Torn(r.lines, c) <=> Torn(d.lines, c)
      /\ Lacks(r.lines, Garbled)
  BY <1>1, <1>3, <1>4, <1>5, SaneKept
<1>7. \A c : c \notin A => (Has(r.lines, c) <=> Has(d.lines, c))
  BY <1>1, <1>4, <1>5, RestSame
<1>8. \A c \in Blocks(f) :
        Has(r.lines, c) => c \in on \/ (Has(Lines(f), c) /\ c \notin off)
  BY <1>3, <1>5, <1>7
<1>9. ASSUME f \notin touched
      PROVE  /\ \A c \in Blocks(f) :
                  c \in on \/ (Has(Lines(f), c) /\ c \notin off) => Has(r.lines, c)
             /\ Unhurt(r.lines, Blocks(f))
  <2>1. Lacks(Lines(f), Garbled) /\ \A b \in Blocks(f) : ~Torn(Lines(f), b)
    BY <1>2, <1>9 DEF Unhurt
  <2>2. \A b \in Blocks(f) : ~Torn(d.lines, b) /\ b \in A
    BY <1>3, <1>4, <2>1
  <2> QED BY <1>3, <1>5, <1>6, <2>1, <2>2 DEF Unhurt
<1>10. f = "hooks" =>
       \A c \in Blocks("hooks") :
         (swept => c # <<"ears-linter">>) =>
           (Placed(Lines("hooks"), c, HookKey[c]) => Placed(r.lines, c, HookKey[c]))
  BY <1>3 DEF StillHeld, d
<1> QED BY <1>1, <1>3, <1>6, <1>8, <1>9, <1>10 DEF Moves

\* A file that becomes empty may as well go.
LEMMA EmptyMoves ==
  ASSUME NEW f, NEW on, NEW off, NEW r, r \in Docs(Line), r.lines = << >>, Moves(r, f, on, off)
  PROVE  Moves(Absent, f, on, off)
<1>1. LinesIn(Absent) = LinesIn(r)
  BY InDocs DEF LinesIn
<1> QED BY <1>1 DEF Moves

\* The add of one block.
LEMMA GainsMoves ==
  ASSUME NEW f, NEW b, NEW r, FilesOK, f \in File, b \in Usable(f),
         Gains(r, Read(f), Line, Usable(f), b),
         f = "hooks" => StillHeld(r, Read(f))
  PROVE  r # Refused /\ Moves(r, f, {b}, {})
<1>1. Made(r, f, {b}, {})
  BY DEF Gains, Made
<1> QED BY <1>1, MadeMoves

\* A file that is left as it was read, because the block is torn.
LEMMA StaysMoves ==
  ASSUME NEW f, NEW b, FilesOK, f \in File, b \notin Usable(f)
  PROVE  Read(f) # Refused /\ Moves(Read(f), f, {b}, {})
<1>1. Read(f) \in Docs(Line) /\ Whole(Read(f).lines, Usable(f))
  BY ReadOK
<1>2. Made(Read(f), f, {b}, {})
  BY <1>1 DEF Made
<1>3. StillHeld(Read(f), Read(f))
  BY DEF StillHeld
<1> QED BY <1>2, <1>3, MadeMoves

\* A remove of a file that is not there leaves it so.
LEMMA AbsentMoves ==
  ASSUME NEW f, NEW off, FilesOK, f \in File, ~Present(f)
  PROVE  Moves(Absent, f, {}, off) /\ Absent # Refused
<1> DEFINE s == << >>
<1>1. Lines(f) = s /\ LinesIn(Absent) = s
  BY DEF Lines, LinesIn
<1>2. \A i \in DOMAIN s : ~IsMarked(s[i])
  OBVIOUS
<1>3. Lacks(s, Garbled)
  BY DEF Lacks
<1> HIDE DEF s
<1>4. Sane(s, Blocks(f)) /\ (\A b : ~Has(s, b) /\ ~Torn(s, b)) /\ \A b, k : Placed(s, b, k)
  BY <1>2, Unmarked
<1> QED BY <1>1, <1>3, <1>4, ScaffoldAssumption DEF Moves, Unhurt

\* The remove of one block of a file that can be read.
LEMMA LosesMoves ==
  ASSUME NEW f, NEW b, NEW r, FilesOK, f \in File, f # "hooks", b \in Usable(f),
         Loses(r, Read(f), Line, Usable(f), b)
  PROVE  /\ r # Refused
         /\ r.lines = << >> => Moves(Absent, f, {}, {b})
         /\ Moves(r, f, {}, {b})
<1>1. Made(r, f, {}, {b})
  BY DEF Loses, Made
<1>2. r # Refused /\ Moves(r, f, {}, {b})
  BY <1>1, MadeMoves
<1>3. r \in Docs(Line)
  BY <1>1 DEF Made
<1> QED BY <1>2, <1>3, EmptyMoves

\* The step "ignore" of an add.
LEMMA AddIgnoreWrites ==
  ASSUME FilesOK, AddIgnore, job.unit \in {"filter-state", "claude-code-deploy"}
  PROVE  Tried("ignore", {<<job.unit>>}, {})
<1> DEFINE f == "ignore"
           b == <<job.unit>>
           r == TextAdd(Read("ignore"), <<job.unit>>)
<1>1. f \in File /\ b \in Blocks(f) /\ f # "hooks"
  BY BlocksAre, InBlocks DEF Unit, File
<1>2. Write(f, r) /\ r = TextAdd(Read(f), b)
  BY DEF AddIgnore
<1> HIDE DEF f, b, r
<1>3. CASE b \in Usable(f)
  <2>1. Gains(r, Read(f), Line, Usable(f), b)
    BY <1>1, <1>2, <1>3, ReadOK, TextAddGains
  <2> QED BY <1>1, <1>2, <1>3, <2>1, GainsMoves, WriteTried DEF f, b
<1>4. CASE b \notin Usable(f)
  <2>1. r = Read(f)
    BY <1>1, <1>2, <1>4, ReadOK, TornFails
  <2> QED BY <1>1, <1>2, <1>4, <2>1, StaysMoves, WriteTried DEF f, b
<1> QED BY <1>3, <1>4

\* The step "rules" of an add; it fails if the block is torn.
LEMMA AddRulesWrites ==
  ASSUME FilesOK, AddRules
  PROVE  Tried("rules", {<<"rules">>}, {})
<1> DEFINE f == "rules"
           b == <<"rules">>
           r == Upsert(Read("rules"), <<"rules">>)
<1>1. f \in File /\ b \in Blocks(f) /\ f # "hooks"
  <2>1. "claude-code-deploy" \in Unit /\ "rules" \in File
    BY DEF Unit, File
  <2> QED BY <2>1, BlocksAre, InBlocks
<1>2. Write(f, r) /\ r = Upsert(Read(f), b)
  BY DEF AddRules
<1> HIDE DEF f, b, r
<1>3. CASE b \in Usable(f)
  <2>1. Gains(r, Read(f), Line, Usable(f), b)
    BY <1>1, <1>2, <1>3, ReadOK, UpsertGains
  <2> QED BY <1>1, <1>2, <1>3, <2>1, GainsMoves, WriteTried DEF f, b
<1>4. CASE b \notin Usable(f)
  <2>1. r = Refused
    BY <1>1, <1>2, <1>4, ReadOK, TornFails
  <2> QED BY <1>2, <2>1, WriteTried DEF f, b
<1> QED BY <1>3, <1>4

\* The step "hook" of an add; it fails if the file is not YAML.
LEMMA AddHookWrites ==
  ASSUME FilesOK, AddHook, job.unit \in {"ears-linter", "claude-code-deploy"}
  PROVE  Tried("hooks", {<<job.unit>>}, {})
<1> DEFINE f == "hooks"
           b == <<job.unit>>
           k == KeyOf[job.unit]
           d == Read("hooks")
           r == YamlAdd(d, b, k)
<1>1. f \in File /\ b \in Blocks(f) /\ HookKey[b] = k /\ KeyLine(k) \in Line
  <2>1. job.unit \in DOMAIN KeyOf
    BY DEF KeyOf
  <2> QED BY <2>1, HookKeyIs DEF File
<1>2. d \in Docs(Line) /\ Whole(d.lines, Usable(f)) /\ Speaks(Line, Usable(f))
      /\ (b \in Usable(f) \/ Torn(d.lines, b)) /\ d = Read(f)
  BY <1>1, ReadOK
<1>3. r # Refused /\ Moves(r, f, {b}, {})
  <2>1. CASE b \in Usable(f)
    <3>1. Gains(r, d, Line, Usable(f), b)
      <4> HIDE DEF f, b, k, d
      <4> QED BY <1>1, <1>2, <2>1, YamlAddGains
    <3>2. StillHeld(r, d)
      <4>1. ASSUME NEW c \in Blocks(f), Placed(d.lines, c, HookKey[c])
            PROVE  Placed(r.lines, c, HookKey[c])
        <5> DEFINE h == HookKey[c]
        <5>1. c = b => h = k
          BY <1>1
        <5>2. Placed(d.lines, c, h)
          BY <4>1
        <5> HIDE DEF f, b, k, d, h
        <5>3. Placed(YamlAdd(d, b, k).lines, c, h)
          BY ONLY <1>1, <1>2, <2>1, <5>1, <5>2, YamlAddPlaced
        <5> QED BY <5>3 DEF h
      <4> QED BY <4>1 DEF StillHeld
    <3> HIDE DEF r, b, f, d
    <3> QED BY <1>1, <1>2, <2>1, <3>1, <3>2, GainsMoves
  <2>2. CASE b \notin Usable(f)
    <3> HIDE DEF b, f, d, k
    <3>1. r = d
      BY <1>2, <2>2, TornFails
    <3> HIDE DEF r
    <3> QED BY <1>1, <1>2, <2>2, <3>1, StaysMoves
  <2> QED BY <2>1, <2>2
<1> HIDE DEF r
<1>6. Write("hooks", IF ~ValidYaml(Read("hooks")) THEN Refused ELSE r)
  BY DEF AddHook, r
<1>7. CASE (ValidYaml(Read("hooks"))) = TRUE
  <2>1. Write("hooks", r)
    BY <1>6, <1>7
  <2> QED BY <1>3, <2>1, WriteTried
<1>8. CASE (ValidYaml(Read("hooks"))) # TRUE
  <2>1. Write("hooks", Refused)
    BY <1>6, <1>8
  <2> QED BY <2>1, WriteTried
<1> QED BY <1>7, <1>8

\* The step "spans" of an add.
LEMMA AddSpansWrites ==
  ASSUME FilesOK, AddSpans
  PROVE  Tried("hooks", Range(SpanBlocks), {})
<1> DEFINE f == "hooks"
           d == Read("hooks")
           r == WithSpans(d)
           on == Range(SpanBlocks)
           A == Usable(f)
<1>1. f \in File /\ d = Read(f)
  BY DEF File
<1>2. /\ d \in Docs(Line) /\ Whole(d.lines, A) /\ Speaks(Line, A)
      /\ \A b \in Blocks(f) : b \in A \/ Torn(d.lines, b)
      /\ A \subseteq Blocks(f)
  BY <1>1, ReadOK
<1>3. SpanKeys(Line, Blocks(f), HookKey) /\ Pieced(d, A, Blocks(f))
  BY <1>2, HookKeyIs DEF Pieced, Torn
<1>4. Grown(r, d, Line, A, SpanBlocks, Len(Spans)) /\ Held(r, d, Blocks(f), HookKey)
  <2> HIDE DEF f, d, A
  <2> QED BY <1>2, <1>3, WithSpansGrows
<1>5. \A c : c \in on <=> \E j \in 1..Len(Spans) : c = SpanBlocks[j]
  <2>1. DOMAIN SpanBlocks = 1..Len(Spans)
    BY ScaffoldAssumption DEF SpanBlocks
  <2> QED BY <2>1 DEF Range
<1>6. Made(r, f, on, {})
  <2> HIDE DEF r, on
  <2> QED BY <1>4, <1>5 DEF Grown, Made
<1>7. StillHeld(r, Read(f))
  BY <1>4 DEF Held, StillHeld
<1>8. r # Refused /\ Moves(r, f, on, {})
  <2> HIDE DEF r, on, d, f
  <2> QED BY <1>1, <1>6, <1>7, MadeMoves
<1> HIDE DEF r, on
<1>9. Write("hooks", r)
  BY DEF AddSpans, r
<1> QED BY <1>8, <1>9, WriteTried DEF on

\* What Leave writes.
LEMMA LeaveWrites ==
  ASSUME NEW f, NEW off, NEW new, FilesOK, f \in File, Leave(f, new),
         Readable(f) => \/ new = Refused
                        \/ /\ new.lines = << >> => Moves(Absent, f, {}, off)
                           /\ Moves(new, f, {}, off)
  PROVE  Tried(f, {}, off)
<1>1. CASE ~Present(f)
  <2>1. Write(f, Absent)
    BY <1>1 DEF Leave
  <2> QED BY <1>1, <2>1, AbsentMoves, WriteTried
<1>2. CASE Present(f) /\ ~Readable(f)
  <2>1. Write(f, Refused)
    BY <1>2 DEF Leave
  <2> QED BY <2>1, WriteTried
<1>3. CASE Readable(f)
  <2>1. Write(f, IF new # Refused /\ new.lines = << >> THEN Absent ELSE new)
    BY <1>3 DEF Leave, Readable
  <2>2. CASE new # Refused /\ new.lines = << >>
    <3>1. Write(f, Absent)
      BY <2>1, <2>2
    <3> QED BY <1>3, <2>2, <3>1, WriteTried
  <2>3. CASE ~(new # Refused /\ new.lines = << >>)
    <3>1. Write(f, new)
      BY <2>1, <2>3
    <3> QED BY <1>3, <3>1, WriteTried
  <2> QED BY <2>2, <2>3
<1> QED BY <1>1, <1>2, <1>3 DEF Readable

\* The step "ignore" of a remove; it fails if the block is torn.
LEMMA RemoveIgnoreWrites ==
  ASSUME FilesOK, RemoveIgnore, job.unit \in {"filter-state", "claude-code-deploy"}
  PROVE  Tried("ignore", {}, {<<job.unit>>})
<1> DEFINE f == "ignore"
           b == <<job.unit>>
           r == RemoveBlock(file["ignore"], <<job.unit>>)
<1>1. f \in File /\ b \in Blocks(f) /\ f # "hooks"
  BY BlocksAre, InBlocks DEF Unit, File
<1>2. Leave(f, r) /\ r = RemoveBlock(file[f], b)
  BY DEF RemoveIgnore
<1> HIDE DEF f, b, r
<1>3. ASSUME Readable(f)
      PROVE  \/ r = Refused
             \/ /\ r.lines = << >> => Moves(Absent, f, {}, {b})
                /\ Moves(r, f, {}, {b})
  <2>1. r = RemoveBlock(Read(f), b)
    BY <1>1, <1>2, <1>3, ReadOK
  <2>2. CASE b \in Usable(f)
    <3>1. Loses(r, Read(f), Line, Usable(f), b)
      BY <1>1, <2>1, <2>2, ReadOK, RemoveLoses
    <3> QED BY <1>1, <2>2, <3>1, LosesMoves
  <2>3. CASE b \notin Usable(f)
    BY <1>1, <2>1, <2>3, ReadOK, TornFails
  <2> QED BY <2>2, <2>3
<1>4. Tried(f, {}, {b})
  BY <1>1, <1>2, <1>3, LeaveWrites
<1> QED BY <1>4 DEF f, b

\* The step "rules" of a remove; it fails if the block is torn.
LEMMA RemoveRulesWrites ==
  ASSUME FilesOK, RemoveRules
  PROVE  Tried("rules", {}, {<<"rules">>})
<1> DEFINE f == "rules"
           b == <<"rules">>
           r == Strip(file["rules"], <<"rules">>)
<1>1. f \in File /\ b \in Blocks(f) /\ f # "hooks"
  <2>1. "claude-code-deploy" \in Unit /\ "rules" \in File
    BY DEF Unit, File
  <2> QED BY <2>1, BlocksAre, InBlocks
<1>2. Leave(f, r) /\ r = Strip(file[f], b)
  BY DEF RemoveRules
<1> HIDE DEF f, b, r
<1>3. ASSUME Readable(f)
      PROVE  \/ r = Refused
             \/ /\ r.lines = << >> => Moves(Absent, f, {}, {b})
                /\ Moves(r, f, {}, {b})
  <2>1. r = Strip(Read(f), b)
    BY <1>1, <1>2, <1>3, ReadOK
  <2>2. CASE b \in Usable(f)
    <3>1. Loses(r, Read(f), Line, Usable(f), b)
      BY <1>1, <2>1, <2>2, ReadOK, StripLoses
    <3> QED BY <1>1, <2>2, <3>1, LosesMoves
  <2>3. CASE b \notin Usable(f)
    BY <1>1, <2>1, <2>3, ReadOK, TornFails
  <2> QED BY <2>2, <2>3
<1>4. Tried(f, {}, {b})
  BY <1>1, <1>2, <1>3, LeaveWrites
<1> QED BY <1>4 DEF f, b

\* A block that is not there has no hook.
LEMMA GonePlaced ==
  ASSUME NEW s, NEW B, NEW b, NEW k, Sane(s, B), b \in B, ~Has(s, b)
  PROVE  Placed(s, b, k)
BY DEF Sane, Led, Has, Placed

\* The blocks of a unit, as a sequence.
LEMMA HookBlocksType ==
  ASSUME job.unit \in {"ears-linter", "claude-code-deploy"}
  PROVE  BlocksOf(job.unit, "hooks") \in Seq(Blocks("hooks"))
<1> DEFINE bs == BlocksOf(job.unit, "hooks")
           off == Range(bs)
<1>1. off \subseteq Blocks("hooks")
  BY InBlocks DEF File, Unit
<1>2. bs \in Seq(off)
  <2>1. CASE job.unit = "ears-linter"
    <3> DEFINE x == <<"ears-linter">>
               a == <<x>>
    <3>1. bs = a
      BY <2>1 DEF BlocksOf
    <3> HIDE DEF x
    <3>2. a \in Seq({x})
      OBVIOUS
    <3> HIDE DEF a, bs
    <3>3. a \in Seq(Range(a))
      BY <3>2 DEF Range
    <3> QED BY <3>1, <3>3
  <2>2. CASE job.unit = "claude-code-deploy"
    <3> DEFINE x == <<"claude-code-deploy">>
               s == SpanBlocks
    <3>1. bs = Append(s, x)
      BY <2>2 DEF BlocksOf
    <3>2. s = [i \in 1..Len(Spans) |-> Span(Spans[i])] /\ Len(Spans) \in Nat
      BY ScaffoldAssumption DEF SpanBlocks
    <3>3. s \in Seq(Range(s))
      <4>1. \A i \in 1..Len(Spans) : Span(Spans[i]) \in Range(s)
        BY <3>2 DEF Range
      <4> HIDE DEF s
      <4> QED BY <3>2, <4>1
    <3> HIDE DEF x, s
    <3> DEFINE W == Range(s) \cup {x}
               a == Append(s, x)
    <3>4. a \in Seq(W)
      BY <3>3
    <3> HIDE DEF W, a
    <3>5. a \in Seq(Range(a))
      BY <3>4 DEF Range
    <3> QED BY <3>1, <3>5 DEF a
  <2> QED BY <2>1, <2>2
<1> HIDE DEF bs, off
<1> QED BY <1>1, <1>2 DEF bs

\* The step "hooks" of a remove: claude-code-deploy sweeps the keys, too, and that
\* can only part the hook of ears-linter from its key.  It fails if a block is torn.
LEMMA RemoveHooksWrites ==
  ASSUME FilesOK, StepsOK, RemoveHooks, job.unit \in {"ears-linter", "claude-code-deploy"}
  PROVE  Tried("hooks", {}, Range(BlocksOf(job.unit, "hooks")))
<1> DEFINE f == "hooks"
           d == file["hooks"]
           bs == BlocksOf(job.unit, "hooks")
           q == Without(d, bs)
           r == IF job.unit = "claude-code-deploy" THEN SweepKeys(q) ELSE q
           off == Range(bs)
           A == Usable(f)
<1>1. f \in File /\ job.unit \in Unit /\ off \subseteq Blocks(f) /\ "hooks" \in File
  BY InBlocks DEF File, Unit
<1>2. bs \in Seq(Blocks(f))
  BY HookBlocksType
<1>3. CASE ~Present(f)
  <2>1. Write("hooks", Absent)
    BY <1>3 DEF RemoveHooks
  <2>2. Absent # Refused /\ Moves(Absent, f, {}, off)
    BY <1>1, <1>3, AbsentMoves
  <2> HIDE DEF off
  <2>3. Tried("hooks", {}, off)
    BY <2>1, <2>2, WriteTried
  <2> QED BY <2>3 DEF off
<1>4. CASE Present(f) /\ (~Readable(f) \/ ~ValidYaml(d) \/ q = Refused)
  <2>1. Write("hooks", Refused)
    BY <1>4 DEF RemoveHooks
  <2> HIDE DEF off
  <2>2. Tried("hooks", {}, off)
    BY <2>1, WriteTried
  <2> QED BY <2>2 DEF off
<1>5. CASE Readable(f) /\ q # Refused /\ (ValidYaml(d)) = TRUE
  <2>1. /\ d \in Docs(Line) /\ Whole(d.lines, A) /\ d = Read(f) /\ Present(f)
        /\ A \subseteq Blocks(f) /\ TornIn(d, A, Blocks(f))
    BY <1>1, <1>5, ReadOK DEF TornIn
  <2>2. Less(q, d, Line, A, bs, Len(bs))
    <3>1. Refused \notin Docs(Line)
      BY ScaffoldAssumption
    <3> HIDE DEF d, bs, f, A
    <3>2. Without(d, bs) = Refused \/ Less(Without(d, bs), d, Line, A, bs, Len(bs))
      BY <1>2, <2>1, <3>1, WithoutShrinks
    <3> QED BY <1>5, <3>2
  <2>3. \A c : c \in off <=> \E j \in 1..Len(bs) : c = bs[j]
    <3> HIDE DEF bs, f
    <3>1. DOMAIN bs = 1..Len(bs)
      BY <1>2
    <3> QED BY <3>1 DEF Range
  <2>4. /\ Made(q, f, {}, off)
        /\ \A c, k : Placed(d.lines, c, k) => Placed(q.lines, c, k)
    <3>1. q \in Docs(Line) /\ Whole(q.lines, A) /\ Rest(q.lines, A) = Rest(d.lines, A)
      BY <2>2 DEF Less, Shrunk
    <3>2. \A c \in A : Has(q.lines, c) <=> Has(d.lines, c) /\ c \notin off
      <4> HIDE DEF q, off, d, bs, A
      <4> QED BY <2>2, <2>3 DEF Less, Shrunk
    <3>3. off \subseteq A
      <4> HIDE DEF q, off, d, bs, A
      <4> QED BY <2>2, <2>3 DEF Less
    <3>4. \A c, k : Placed(d.lines, c, k) => Placed(q.lines, c, k)
      <4> HIDE DEF q, off, d, bs, A
      <4> QED BY <2>2 DEF Less, Steady
    <3> HIDE DEF q, off, d, bs, A, f
    <3>5. /\ q \in Docs(Line) /\ Whole(q.lines, Usable(f))
          /\ Rest(q.lines, Usable(f)) = Rest(Read(f).lines, Usable(f))
          /\ off \subseteq Usable(f)
      BY <2>1, <3>1, <3>3 DEF A
    <3>6. \A c \in Usable(f) :
            Has(q.lines, c) <=> c \in {} \/ (Has(Read(f).lines, c) /\ c \notin off)
      BY <2>1, <3>2 DEF A
    <3> QED BY <3>4, <3>5, <3>6 DEF Made
  <2>5. r # Refused /\ Moves(r, f, {}, off)
    <3>1. CASE job.unit = "ears-linter"
      <4>1. r = q
        BY <3>1
      <4>2. f = "hooks"
        BY DEF f
      <4> HIDE DEF q, off, r, d, f
      <4>3. StillHeld(q, Read(f))
        BY <2>1, <2>4, <4>2 DEF StillHeld
      <4> QED BY <1>1, <2>4, <4>1, <4>3, MadeMoves
    <3>2. CASE job.unit = "claude-code-deploy"
      <4>1. r = SweepKeys(q)
        BY <3>2
      <4>2. swept
        <5>1. job.verb = "remove"
          BY DEF RemoveHooks, Doing
        <5> QED BY <3>2, <5>1 DEF StepsOK
      <4>3. off \cup {<<"ears-linter">>} = Blocks(f)
        <5>1. off = Range(BlocksOf("claude-code-deploy", "hooks"))
          BY <3>2
        <5>2. /\ Range(BlocksOf("ears-linter", "hooks")) = {<<"ears-linter">>}
              /\ Range(BlocksOf("filter-state", "hooks")) = {}
              /\ Range(BlocksOf("speckit", "hooks")) = {}
          BY BlocksAre DEF Unit
        <5> QED BY <5>1, <5>2 DEF Blocks, Unit
      <4>4. f = "hooks"
        BY DEF f
      <4> HIDE DEF q, off, r, f, d
      <4>5. Alike(r, q, Line, A)
        <5>1. q \in Docs(Line) /\ Whole(q.lines, A)
          BY <2>4 DEF Made
        <5> HIDE DEF A
        <5> QED BY <4>1, <5>1, SweepAlike, OtherLines
      <4>6. Made(r, f, {}, off)
        BY <2>4, <4>5 DEF Alike, Made
      <4>7. Sane(r.lines, Blocks(f))
        <5>1. r.lines \in Seq(Line) /\ Read(f).lines \in Seq(Line)
              /\ Sane(Read(f).lines, Blocks(f))
          BY <1>1, <4>6, ReadOK DEF Made, Docs
        <5> QED BY <4>6, <5>1, SaneKept DEF Made, Usable
      <4>8. \A c \in Blocks(f) : c # <<"ears-linter">> => ~Has(r.lines, c)
        <5>1. \A c \in off : ~Has(r.lines, c)
          BY <4>6 DEF Made
        <5> QED BY <4>3, <5>1
      <4>9. StillHeld(r, Read(f))
        BY <4>2, <4>4, <4>7, <4>8, GonePlaced DEF StillHeld
      <4> QED BY <1>1, <4>6, <4>9, MadeMoves
    <3> QED BY <3>1, <3>2
  <2>6. Write("hooks", r)
    BY <1>5, <2>1 DEF RemoveHooks
  <2> HIDE DEF r, q, off, d
  <2>7. Tried("hooks", {}, off)
    BY <2>5, <2>6, WriteTried
  <2> QED BY <2>7 DEF off
<1>6. Present(f) => Readable(f) \/ ~Readable(f)
  OBVIOUS
<1> QED BY <1>3, <1>4, <1>5

----------------------------------------------------------------------------
(* What the steps do for the units. *)

\* The steps to go are the first one and the rest.
LEMMA TailRange ==
  ASSUME NEW S, NEW s, s \in Seq(S), s # << >>
  PROVE  /\ Range(s) = {Head(s)} \cup Range(Tail(s))
         /\ SaveLast(s) => SaveLast(Tail(s))
<1>1. /\ Len(s) \in Nat /\ Len(s) > 0 /\ DOMAIN s = 1..Len(s)
      /\ Head(s) = s[1]
      /\ DOMAIN Tail(s) = 1..(Len(s) - 1) /\ Len(Tail(s)) = Len(s) - 1
      /\ \A i \in 1..(Len(s) - 1) : Tail(s)[i] = s[i + 1]
  BY HeadTailProperties, EmptySeq
<1>2. \A i \in DOMAIN Tail(s) : i + 1 \in DOMAIN s /\ Tail(s)[i] = s[i + 1]
  BY <1>1
<1>3. \A i \in DOMAIN s : i = 1 \/ (i - 1 \in DOMAIN Tail(s) /\ Tail(s)[i - 1] = s[i])
  BY <1>1
<1>4. 1 \in DOMAIN s
  BY <1>1
<1>5. Range(s) = {Head(s)} \cup Range(Tail(s))
  BY <1>1, <1>2, <1>3, <1>4 DEF Range
<1>6. SaveLast(s) => SaveLast(Tail(s))
  <2> SUFFICES ASSUME SaveLast(s), NEW i \in DOMAIN Tail(s), Tail(s)[i] = "save"
               PROVE  i = Len(Tail(s))
    BY DEF SaveLast
  <2>1. i + 1 = Len(s)
    BY <1>2 DEF SaveLast
  <2> QED BY <1>1, <2>1
<1> QED BY <1>5, <1>6

\* The steps of each command.
LEMMA AddsAre ==
  ASSUME NEW u \in Unit
  PROVE  /\ u = "filter-state" => Range(AddSteps[u]) = {"ignore", "save"}
         /\ u = "claude-code-deploy" =>
              Range(AddSteps[u]) = {"ignore", "hook", "spans", "rules", "save"}
         /\ u = "ears-linter" => Range(AddSteps[u]) = {"hook", "save"}
         /\ u = "speckit" => Range(AddSteps[u]) = {"init", "branch", "save"}
         /\ SaveLast(AddSteps[u])
<1>1. CASE u = "filter-state"
  <2>1. AddSteps[u] = <<"ignore", "save">>
    BY <1>1 DEF AddSteps
  <2>2. SaveLast(<<"ignore", "save">>)
    BY DEF SaveLast
  <2>3. Range(<<"ignore", "save">>) = {"ignore", "save"}
    BY Range2
  <2> QED BY <1>1, <2>1, <2>2, <2>3
<1>2. CASE u = "claude-code-deploy"
  <2>1. AddSteps[u] = <<"ignore", "hook", "spans", "rules", "save">>
    BY <1>2 DEF AddSteps
  <2>2. SaveLast(<<"ignore", "hook", "spans", "rules", "save">>)
    BY DEF SaveLast
  <2>3. Range(<<"ignore", "hook", "spans", "rules", "save">>)
        = {"ignore", "hook", "spans", "rules", "save"}
    BY Range5
  <2> QED BY <1>2, <2>1, <2>2, <2>3
<1>3. CASE u = "ears-linter"
  <2>1. AddSteps[u] = <<"hook", "save">>
    BY <1>3 DEF AddSteps
  <2>2. SaveLast(<<"hook", "save">>)
    BY DEF SaveLast
  <2>3. Range(<<"hook", "save">>) = {"hook", "save"}
    BY Range2
  <2> QED BY <1>3, <2>1, <2>2, <2>3
<1>4. CASE u = "speckit"
  <2>1. AddSteps[u] = <<"init", "branch", "save">>
    BY <1>4 DEF AddSteps
  <2>2. SaveLast(<<"init", "branch", "save">>)
    BY DEF SaveLast
  <2>3. Range(<<"init", "branch", "save">>) = {"init", "branch", "save"}
    BY Range3
  <2> QED BY <1>4, <2>1, <2>2, <2>3
<1> QED BY <1>1, <1>2, <1>3, <1>4 DEF Unit

LEMMA RemovesAre ==
  ASSUME NEW u \in Unit, NEW s \in RemoveSteps[u]
  PROVE  /\ u = "filter-state" => Range(s) = {"ignore", "save"}
         /\ u = "claude-code-deploy" => Range(s) = {"ignore", "rules", "hooks", "save"}
         /\ u = "ears-linter" => Range(s) = {"hooks", "save"}
         /\ u = "speckit" => Range(s) \subseteq {"specify", "specs", "agent", "branch", "save"}
         /\ SaveLast(s)
<1>1. CASE u = "filter-state"
  <2>1. s = <<"ignore", "save">>
    BY <1>1 DEF RemoveSteps
  <2>2. SaveLast(<<"ignore", "save">>)
    BY DEF SaveLast
  <2>3. Range(<<"ignore", "save">>) = {"ignore", "save"}
    BY Range2
  <2> QED BY <1>1, <2>1, <2>2, <2>3
<1>2. CASE u = "claude-code-deploy"
  <2>1. s = <<"ignore", "rules", "hooks", "save">>
    BY <1>2 DEF RemoveSteps
  <2>2. SaveLast(<<"ignore", "rules", "hooks", "save">>)
    BY DEF SaveLast
  <2>3. Range(<<"ignore", "rules", "hooks", "save">>) = {"ignore", "rules", "hooks", "save"}
    BY Range4
  <2> QED BY <1>2, <2>1, <2>2, <2>3
<1>3. CASE u = "ears-linter"
  <2>1. s = <<"hooks", "save">>
    BY <1>3 DEF RemoveSteps
  <2>2. SaveLast(<<"hooks", "save">>)
    BY DEF SaveLast
  <2>3. Range(<<"hooks", "save">>) = {"hooks", "save"}
    BY Range2
  <2> QED BY <1>3, <2>1, <2>2, <2>3
<1>4. CASE u = "speckit"
  <2>1. s \in {<<"specify", "specs", "agent", "save">>,
               <<"specify", "specs", "agent", "branch", "save">>}
    BY <1>4 DEF RemoveSteps
  <2>2. /\ SaveLast(<<"specify", "specs", "agent", "save">>)
        /\ SaveLast(<<"specify", "specs", "agent", "branch", "save">>)
    BY DEF SaveLast
  <2>3. Range(<<"specify", "specs", "agent", "save">>) = {"specify", "specs", "agent", "save"}
    BY Range4
  <2>4. Range(<<"specify", "specs", "agent", "branch", "save">>)
          = {"specify", "specs", "agent", "branch", "save"}
    BY Range5
  <2> QED BY <1>4, <2>1, <2>2, <2>3, <2>4
<1> QED BY <1>1, <1>2, <1>3, <1>4 DEF Unit

\* The add of a unit puts each of its blocks, and the remove takes each.
LEMMA StepsCover ==
  ASSUME NEW u \in Unit, NEW f \in File, NEW b \in Range(BlocksOf(u, f))
  PROVE  /\ StepFor(u, f, b) \in Range(AddSteps[u])
         /\ \A s \in RemoveSteps[u] : f \in Range(s)
<1>1. CASE f = "ignore"
  <2>1. u \in {"filter-state", "claude-code-deploy"}
    BY <1>1, BlocksAre
  <2> QED BY <1>1, <2>1, AddsAre, RemovesAre DEF StepFor
<1>2. CASE f = "rules"
  <2>1. u = "claude-code-deploy"
    BY <1>2, BlocksAre
  <2> QED BY <1>2, <2>1, AddsAre, RemovesAre DEF StepFor
<1>3. CASE f = "hooks"
  <2>1. u \in {"ears-linter", "claude-code-deploy"}
    BY <1>3, BlocksAre DEF Unit
  <2>2. u = "ears-linter" => b = <<u>>
    BY <1>3, BlocksAre
  <2> QED BY <1>3, <2>1, <2>2, AddsAre, RemovesAre DEF StepFor
<1> QED BY <1>1, <1>2, <1>3 DEF File

\* Who does a step.
LEMMA Who ==
  ASSUME JobOK, StepsOK, job.verb \in {"add", "remove"}
  PROVE  /\ job.unit \in Unit /\ ~Idle
         /\ job.todo \in Seq(StepName) /\ job.todo # << >>
         /\ Head(job.todo) \in Range(job.todo)
         /\ job.verb = "add" =>
              /\ Head(job.todo) = "ignore" => job.unit \in {"filter-state", "claude-code-deploy"}
              /\ Head(job.todo) = "hook" => job.unit \in {"ears-linter", "claude-code-deploy"}
              /\ Head(job.todo) \in {"spans", "rules"} => job.unit = "claude-code-deploy"
              /\ Head(job.todo) \in {"init", "branch"} => job.unit = "speckit"
         /\ job.verb = "remove" =>
              /\ Head(job.todo) = "ignore" => job.unit \in {"filter-state", "claude-code-deploy"}
              /\ Head(job.todo) = "hooks" => job.unit \in {"ears-linter", "claude-code-deploy"}
              /\ Head(job.todo) = "rules" => job.unit = "claude-code-deploy"
              /\ Head(job.todo) \in {"specify", "specs", "agent", "branch"} => job.unit = "speckit"
<1>1. /\ job.unit \in Unit /\ ~Idle
      /\ job.todo \in Seq(StepName) /\ job.todo # << >>
  BY NoJobOK DEF JobOK, Jobs, StepsOK, Idle
<1>2. Head(job.todo) \in Range(job.todo)
  BY <1>1, TailRange
<1>3. CASE job.verb = "add"
  <2>1. Head(job.todo) \in Range(AddSteps[job.unit])
    BY <1>2, <1>3 DEF StepsOK
  <2> DEFINE u == job.unit
             h == Head(job.todo)
  <2> HIDE DEF u, h
  <2>2. u \in Unit /\ h \in Range(AddSteps[u])
    BY <1>1, <2>1 DEF u, h
  <2>3. /\ h = "ignore" => u \in {"filter-state", "claude-code-deploy"}
        /\ h = "hook" => u \in {"ears-linter", "claude-code-deploy"}
        /\ h \in {"spans", "rules"} => u = "claude-code-deploy"
        /\ h \in {"init", "branch"} => u = "speckit"
    BY <2>2, AddsAre DEF Unit
  <2> QED BY <1>1, <1>2, <1>3, <2>3 DEF u, h
<1>4. CASE job.verb = "remove"
  <2>1. PICK s \in RemoveSteps[job.unit] : Range(job.todo) \subseteq Range(s)
    BY <1>4 DEF StepsOK
  <2> DEFINE u == job.unit
             h == Head(job.todo)
  <2> HIDE DEF u, h
  <2>2. u \in Unit /\ h \in Range(s) /\ s \in RemoveSteps[u]
    BY <1>1, <1>2, <2>1 DEF u, h
  <2>3. /\ h = "ignore" => u \in {"filter-state", "claude-code-deploy"}
        /\ h = "hooks" => u \in {"ears-linter", "claude-code-deploy"}
        /\ h = "rules" => u = "claude-code-deploy"
        /\ h \in {"specify", "specs", "agent", "branch"} => u = "speckit"
    BY <2>2, RemovesAre DEF Unit
  <2> QED BY <1>1, <1>2, <1>4, <2>3 DEF u, h
<1> QED BY <1>3, <1>4

\* What a command may do to the blocks of units other than its own.
Others ==
  /\ touched \subseteq touched'
  /\ \A u \in Unit : u # job.unit =>
       /\ u = "speckit" => kit'.own = kit.own
       /\ \A f \in File : \A b \in Range(BlocksOf(u, f)) :
            /\ "file" \notin touched' /\ f \notin touched' => (InFile(f, b) => InFile(f, b)')
            /\ InFile(f, b)' => InFile(f, b)

\* What a step does for its own unit.
Own ==
  /\ (job.verb = "add" /\ "file" \notin touched') =>
       /\ job.unit = "speckit" => (kit.own \/ Head(job.todo) = "init" => kit'.own)
       /\ \A f \in File \ touched' : \A b \in Range(BlocksOf(job.unit, f)) :
            InFile(f, b) \/ StepFor(job.unit, f, b) = Head(job.todo) => InFile(f, b)'
  /\ job.verb = "remove" =>
       \A f \in File : \A b \in Range(BlocksOf(job.unit, f)) :
         InFile(f, b)' => InFile(f, b) /\ f # Head(job.todo)

\* The units that are not exempt now were not before.
Exempt ==
  \A u \in Unit : u \in late \/ u = job.unit => u \in late' \/ u = job'.unit

\* A step leaves the units at rest as they are.
LEMMA RestKeeps ==
  ASSUME InstallOK, AbsentOK, installed \subseteq Unit, Others, Exempt,
         installed' = installed
  PROVE  InstallOK' /\ AbsentOK'
<1>1. ASSUME "file" \notin touched', NEW u \in installed' \ (late' \cup {job'.unit})
      PROVE  /\ u = "speckit" => kit'.own
             /\ \A f \in File \ touched' : \A b \in Range(BlocksOf(u, f)) : InFile(f, b)'
  <2>1. u \in installed \ (late \cup {job.unit}) /\ u \in Unit /\ u # job.unit
        /\ touched \subseteq touched' /\ "file" \notin touched
    BY <1>1 DEF Exempt, Others
  <2>2. /\ u = "speckit" => kit.own
        /\ \A f \in File \ touched : \A b \in Range(BlocksOf(u, f)) : InFile(f, b)
    BY <2>1 DEF InstallOK
  <2>3. /\ u = "speckit" => kit'.own = kit.own
        /\ \A f \in File : \A b \in Range(BlocksOf(u, f)) :
             "file" \notin touched' /\ f \notin touched' => (InFile(f, b) => InFile(f, b)')
    BY <2>1 DEF Others
  <2>4. \A f \in File \ touched' : f \in File \ touched /\ f \notin touched'
    BY <2>1
  <2> QED BY <1>1, <2>2, <2>3, <2>4
<1>2. ASSUME NEW u \in Unit \ (installed' \cup late' \cup {job'.unit}),
             NEW f \in File, NEW b \in Range(BlocksOf(u, f))
      PROVE  ~InFile(f, b)'
  <2>1. u \in Unit \ (installed \cup late \cup {job.unit}) /\ u # job.unit
    BY <1>2 DEF Exempt
  <2>2. ~InFile(f, b)
    BY <2>1 DEF AbsentOK
  <2>3. InFile(f, b)' => InFile(f, b)
    BY <2>1 DEF Others
  <2> QED BY <2>2, <2>3
<1>3. InstallOK'
  BY <1>1 DEF InstallOK
<1>4. AbsentOK'
  BY <1>2 DEF AbsentOK
<1> QED BY <1>3, <1>4

\* Nothing runs that adds or removes.
LEMMA NothingToDo ==
  ASSUME job'.verb \notin {"add", "remove"}
  PROVE  AddOK' /\ RemoveOK'
BY DEF AddOK, RemoveOK

\* The rest of the command's steps.
Onward ==
  /\ job'.unit = job.unit /\ job'.verb = job.verb
  /\ job'.todo = Tail(job.todo)
  /\ late' = late
  /\ job'.ours => job.ours \/ (job.unit = "speckit" /\ job.verb = "add")

\* A step that is done and is not the last leaves the rest.
LEMMA Continues ==
  ASSUME JobOK, StepsOK, job.verb \in {"add", "remove"}, Head(job.todo) # "save", Advance
  PROVE  Onward
<1>1. job.todo \in Seq(StepName) /\ job.todo # << >> /\ job \in Jobs /\ Saves(job.todo)
  BY Who DEF JobOK
<1>2. Len(job.todo) # 1
  BY <1>1 DEF Saves
<1>3. job' = [job EXCEPT !.todo = Tail(@)] /\ late' = late
  BY <1>2 DEF Advance
<1> QED BY <1>1, <1>3 DEF Onward, Jobs

\* A step that is done and is not the last keeps what the invariant says of jobs.
LEMMA StepKeeps ==
  ASSUME JobOK, StepsOK, AddOK, RemoveOK, InstallOK, AbsentOK,
         job.verb \in {"add", "remove"}, Head(job.todo) # "save", Onward, Others, Own,
         UNCHANGED <<installed, claim, swept>>, branch' \in {"none", "user", "specere"}
  PROVE  StepsOK' /\ AddOK' /\ RemoveOK' /\ InstallOK' /\ AbsentOK'
<1>1. job.unit \in Unit /\ job.todo \in Seq(StepName) /\ job.todo # << >>
  BY Who
<1>2. /\ Range(job.todo) = {Head(job.todo)} \cup Range(job'.todo)
      /\ SaveLast(job'.todo)
  BY <1>1, TailRange DEF Onward, StepsOK
<1>3. StepsOK'
  BY <1>2 DEF Onward, StepsOK
<1>4. AddOK'
  <2> SUFFICES ASSUME job'.verb = "add", "file" \notin touched'
               PROVE  /\ job'.unit = "speckit" => kit'.own \/ "init" \in Range(job'.todo)
                      /\ \A f \in File \ touched' : \A b \in Range(BlocksOf(job'.unit, f)) :
                           InFile(f, b)' \/ StepFor(job'.unit, f, b) \in Range(job'.todo)
    BY DEF AddOK
  <2>1. /\ job.verb = "add" /\ "file" \notin touched /\ job'.unit = job.unit
        /\ touched \subseteq touched'
    BY DEF Onward, Others
  <2>2. /\ job.unit = "speckit" => kit.own \/ "init" \in Range(job.todo)
        /\ \A f \in File \ touched : \A b \in Range(BlocksOf(job.unit, f)) :
             InFile(f, b) \/ StepFor(job.unit, f, b) \in Range(job.todo)
    BY <2>1 DEF AddOK
  <2>3. /\ job.unit = "speckit" => (kit.own \/ Head(job.todo) = "init" => kit'.own)
        /\ \A f \in File \ touched' : \A b \in Range(BlocksOf(job.unit, f)) :
             InFile(f, b) \/ StepFor(job.unit, f, b) = Head(job.todo) => InFile(f, b)'
    BY <2>1 DEF Own
  <2> QED BY <1>2, <2>1, <2>2, <2>3
<1>5. RemoveOK'
  <2> SUFFICES ASSUME job'.verb = "remove", NEW f \in File,
                      NEW b \in Range(BlocksOf(job'.unit, f)), InFile(f, b)'
               PROVE  f \in Range(job'.todo)
    BY DEF RemoveOK
  <2>1. job.verb = "remove" /\ job'.unit = job.unit
    BY DEF Onward
  <2>2. InFile(f, b) /\ f # Head(job.todo)
    BY <2>1 DEF Own
  <2>3. f \in Range(job.todo)
    BY <2>1, <2>2 DEF RemoveOK
  <2> QED BY <1>2, <2>2, <2>3
<1>6. Exempt
  BY DEF Exempt, Onward
<1>7. InstallOK' /\ AbsentOK'
  BY <1>6, RestKeeps DEF StepsOK
<1> QED BY <1>3, <1>4, <1>5, <1>7

\* A command that is cut short leaves its unit late.
LEMMA QuitKeeps ==
  ASSUME StepsOK, InstallOK, AbsentOK, GiveUp, Others,
         UNCHANGED <<installed, claim, swept>>, branch' \in {"none", "user", "specere"}
  PROVE  StepsOK' /\ AddOK' /\ RemoveOK' /\ InstallOK' /\ AbsentOK'
<1>1. job' = NoJob /\ late' = late \cup {job.unit}
  BY DEF GiveUp
<1>2. StepsOK'
  <2>1. SaveLast(NoJob.todo)
    BY NoJobOK DEF SaveLast
  <2> QED BY <1>1, <2>1, NoJobOK DEF StepsOK
<1>3. AddOK' /\ RemoveOK'
  BY <1>1, NoJobOK, NothingToDo
<1>4. Exempt
  BY <1>1 DEF Exempt
<1>5. InstallOK' /\ AbsentOK'
  BY <1>4, RestKeeps DEF StepsOK
<1> QED BY <1>2, <1>3, <1>5

\* The manifest is the last step of a command on a unit.
LEMMA SaveIs ==
  ASSUME JobOK, StepsOK, Save
  PROVE  /\ job.verb \in {"add", "remove"} /\ job.unit \in Unit
         /\ Len(job.todo) = 1 /\ Range(job.todo) = {"save"}
<1>1. job.verb \in {"add", "remove"}
  <2>1. Head(<<"feature", "pointer", "runs">>) # "save"
    OBVIOUS
  <2>2. Head(<<"pointer", "runs">>) # "save" /\ Head(<<"runs">>) # "save"
    OBVIOUS
  <2>3. job.verb # "clean"
    BY <2>1, <2>2 DEF Save, JobOK, CleanLeft
  <2>4. job.verb # "none"
    BY DEF Save, JobOK, Idle
  <2> QED BY <2>3, <2>4 DEF JobOK, Jobs
<1>2. job.unit \in Unit /\ job.todo \in Seq(StepName) /\ job.todo # << >>
  BY <1>1, Who
<1>3. Len(job.todo) = 1 /\ Range(job.todo) = {"save"}
  <2>1. Head(job.todo) = "save" /\ SaveLast(job.todo)
    BY DEF Save, StepsOK
  <2> DEFINE s == job.todo
  <2> HIDE DEF s
  <2>2. s \in Seq(StepName) /\ s # << >> /\ Head(s) = "save" /\ SaveLast(s)
    BY <1>2, <2>1 DEF s
  <2>3. DOMAIN s = 1..Len(s) /\ Len(s) \in Nat /\ Len(s) > 0 /\ s[1] = "save"
    BY <2>2, EmptySeq
  <2>4. 1 \in DOMAIN s
    BY <2>3
  <2>5. 1 = Len(s)
    BY <2>2, <2>3, <2>4 DEF SaveLast
  <2>6. \A i \in DOMAIN s : s[i] = "save"
    <3>1. \A i \in 1..1 : i = 1
      OBVIOUS
    <3> QED BY <2>3, <2>5, <3>1
  <2>7. Range(s) = {"save"}
    BY <2>3, <2>4, <2>6 DEF Range
  <2> QED BY <2>5, <2>7 DEF s
<1> QED BY <1>1, <1>2, <1>3

\* The command is over, and the manifest says so.
LEMMA SaveKeeps ==
  ASSUME JobOK, StepsOK, AddOK, RemoveOK, InstallOK, AbsentOK, Save
  PROVE  StepsOK' /\ AddOK' /\ RemoveOK' /\ InstallOK' /\ AbsentOK'
<1>1. /\ job.verb \in {"add", "remove"} /\ job.unit \in Unit
      /\ Len(job.todo) = 1 /\ Range(job.todo) = {"save"}
  BY SaveIs
<1>4. /\ job' = NoJob /\ late' = late \ {job.unit}
      /\ UNCHANGED <<file, kit, touched, swept, branch>>
      /\ installed' = IF job.verb = "add" THEN installed \cup {job.unit}
                      ELSE installed \ {job.unit}
      /\ claim' = IF job.unit = "speckit" THEN job.ours ELSE claim
  BY <1>1 DEF Save, Advance
<1>5. StepsOK'
  <2>1. SaveLast(NoJob.todo)
    BY NoJobOK DEF SaveLast
  <2>2. installed' \subseteq Unit /\ (claim' => "speckit" \in installed')
    BY <1>1, <1>4 DEF StepsOK
  <2> QED BY <1>4, <2>1, <2>2, NoJobOK DEF StepsOK
<1>6. AddOK' /\ RemoveOK'
  BY <1>4, NoJobOK, NothingToDo
<1>7. \A f, b : InFile(f, b)' <=> InFile(f, b)
  BY <1>4 DEF InFile, Lines, Present
<1>8. NoJob.unit = "none" /\ "none" \notin Unit
  BY NoJobOK DEF Unit
<1>9. InstallOK'
  <2> SUFFICES ASSUME "file" \notin touched', NEW u \in installed' \ (late' \cup {job'.unit})
               PROVE  /\ u = "speckit" => kit'.own
                      /\ \A f \in File \ touched' : \A b \in Range(BlocksOf(u, f)) : InFile(f, b)'
    BY DEF InstallOK
  <2>1. CASE u = job.unit
    <3>1. job.verb = "add"
      BY <1>1, <1>4, <2>1
    <3>2. \A f \in File : \A b \in Range(BlocksOf(u, f)) :
            StepFor(u, f, b) # "save"
      BY DEF StepFor, File
    <3>3. /\ u = "speckit" => kit.own
          /\ \A f \in File \ touched : \A b \in Range(BlocksOf(u, f)) : InFile(f, b)
      BY <1>1, <1>4, <2>1, <3>1, <3>2 DEF AddOK
    <3> QED BY <1>4, <1>7, <3>3
  <2>2. CASE u # job.unit
    <3>1. u \in installed \ (late \cup {job.unit})
      BY <1>4, <2>2
    <3>2. /\ u = "speckit" => kit.own
          /\ \A f \in File \ touched : \A b \in Range(BlocksOf(u, f)) : InFile(f, b)
      BY <1>4, <3>1 DEF InstallOK
    <3> QED BY <1>4, <1>7, <3>2
  <2> QED BY <2>1, <2>2
<1>10. AbsentOK'
  <2> SUFFICES ASSUME NEW u \in Unit \ (installed' \cup late' \cup {job'.unit}),
                      NEW f \in File, NEW b \in Range(BlocksOf(u, f))
               PROVE  ~InFile(f, b)'
    BY DEF AbsentOK
  <2>1. CASE u = job.unit
    <3>1. job.verb = "remove"
      BY <1>1, <1>4, <2>1
    <3>2. f # "save"
      BY DEF File
    <3>3. ~InFile(f, b)
      BY <1>1, <2>1, <3>1, <3>2 DEF RemoveOK
    <3> QED BY <1>7, <3>3
  <2>2. CASE u # job.unit
    <3>1. u \in Unit \ (installed \cup late \cup {job.unit})
      BY <1>1, <1>4, <2>2
    <3> QED BY <1>7, <3>1 DEF AbsentOK
  <2> QED BY <2>1, <2>2
<1> QED BY <1>5, <1>6, <1>9, <1>10

----------------------------------------------------------------------------
(* Every step keeps the invariant. *)

\* The user's lines stay, in the files that can be read, if the write is not cut short.
Safe ==
  trouble \in Nat =>
    \A f \in File :
      Readable(f) /\ file'[f] # file[f] /\ trouble' = trouble => Mine(f)' = Mine(f)

\* The blocks of other files stay, and of file f those off go and those on come.
Effect(f, on, off) ==
  /\ touched' = touched
  /\ \A g \in File : g # f => \A b : InFile(g, b)' <=> InFile(g, b)
  /\ \A b \in Blocks(f) : InFile(f, b)' => b \in on \/ (InFile(f, b) /\ b \notin off)
  /\ f \notin touched =>
       \A b \in Blocks(f) : b \in on \/ (InFile(f, b) /\ b \notin off) => InFile(f, b)'

\* Where no file changes the invariant of the files stays.
LEMMA FilesSame ==
  ASSUME FilesOK, PlaceOK, UNCHANGED <<file, original>>, swept => swept',
         touched \subseteq touched'
  PROVE  FilesOK' /\ PlaceOK' /\ Safe /\ \A f, b : InFile(f, b)' <=> InFile(f, b)
<1>1. \A f : Lines(f)' = Lines(f)
  BY DEF Lines, Present
<1>2. FilesOK'
  BY <1>1 DEF FilesOK
<1>3. PlaceOK'
  BY <1>1 DEF PlaceOK
<1>4. Safe
  BY DEF Safe
<1>5. \A f, b : InFile(f, b)' <=> InFile(f, b)
  BY <1>1 DEF InFile
<1> QED BY <1>2, <1>3, <1>4, <1>5

\* One file changes: what the invariant says of it, it says of the others still.
LEMMA OneFile ==
  ASSUME NEW f, NEW d, FilesOK, PlaceOK, f \in File, file' = [file EXCEPT ![f] = d],
         d \in Docs(Line) \cup {Absent}, Sane(LinesIn(d), Blocks(f)),
         touched \subseteq touched', f \notin touched' => Unhurt(LinesIn(d), Blocks(f)),
         f = "hooks" =>
           \A c \in Blocks("hooks") :
             (swept => c # <<"ears-linter">>) =>
               (Placed(Lines("hooks"), c, HookKey[c]) => Placed(LinesIn(d), c, HookKey[c])),
         UNCHANGED <<swept, original>>
  PROVE  /\ FilesOK' /\ PlaceOK'
         /\ file'[f] = d /\ Lines(f)' = LinesIn(d)
         /\ \A g \in File : g # f => file'[g] = file[g] /\ Lines(g)' = Lines(g)
<1>1. /\ file \in [File -> Docs(Line) \cup {Absent}]
      /\ \A g \in File : Sane(Lines(g), Blocks(g))
      /\ \A g \in File \ touched : Unhurt(Lines(g), Blocks(g))
  BY DEF FilesOK
<1>2. /\ file' \in [File -> Docs(Line) \cup {Absent}]
      /\ file'[f] = d
      /\ \A g \in File : g # f => file'[g] = file[g]
  BY <1>1
<1>3. /\ Lines(f)' = LinesIn(d)
      /\ \A g \in File : g # f => Lines(g)' = Lines(g)
  BY <1>2, LinesAre
<1>4. FilesOK'
  BY <1>1, <1>2, <1>3 DEF FilesOK
<1>5. PlaceOK'
  <2>1. CASE f = "hooks"
    <3>1. Lines("hooks")' = LinesIn(d)
      BY <1>3, <2>1
    <3> QED BY <2>1, <3>1 DEF PlaceOK
  <2>2. CASE f # "hooks"
    <3>1. Lines("hooks")' = Lines("hooks")
      BY <1>3, <2>2 DEF File
    <3> QED BY <3>1 DEF PlaceOK
  <2> QED BY <2>1, <2>2
<1> QED BY <1>2, <1>3, <1>4, <1>5

\* Where blocks come and go in one file, that file and the others are in order.
LEMMA WroteFiles ==
  ASSUME NEW f, NEW on, NEW off, FilesOK, PlaceOK, f \in File, Wrote(f, on, off),
         UNCHANGED <<swept, original>>
  PROVE  FilesOK' /\ PlaceOK' /\ Safe /\ Effect(f, on, off)
<1>1. PICK new : Moves(new, f, on, off) /\ file' = [file EXCEPT ![f] = new]
  BY DEF Wrote
<1>2. touched' = touched
  BY DEF Wrote
<1>3. /\ new \in Docs(Line) \cup {Absent}
      /\ Sane(LinesIn(new), Blocks(f))
      /\ Readable(f) => Users(LinesIn(new)) = Users(Lines(f))
      /\ \A c \in Blocks(f) :
           Has(LinesIn(new), c) => c \in on \/ (Has(Lines(f), c) /\ c \notin off)
      /\ f \notin touched =>
           /\ \A c \in Blocks(f) :
                c \in on \/ (Has(Lines(f), c) /\ c \notin off) => Has(LinesIn(new), c)
           /\ Unhurt(LinesIn(new), Blocks(f))
      /\ f = "hooks" =>
           \A c \in Blocks("hooks") :
             (swept => c # <<"ears-linter">>) =>
               (Placed(Lines("hooks"), c, HookKey[c]) => Placed(LinesIn(new), c, HookKey[c]))
  BY <1>1 DEF Moves
<1>4. /\ FilesOK' /\ PlaceOK'
      /\ file'[f] = new /\ Lines(f)' = LinesIn(new)
      /\ \A g \in File : g # f => file'[g] = file[g] /\ Lines(g)' = Lines(g)
  BY <1>1, <1>2, <1>3, OneFile
<1>5. Safe
  BY <1>3, <1>4 DEF Safe, Mine
<1>6. Effect(f, on, off)
  BY <1>2, <1>3, <1>4 DEF Effect, InFile
<1> QED BY <1>4, <1>5, <1>6

\* A scrap of a line is in no block.
LEMMA ScrapsLoose ==
  ASSUME NEW f \in File
  PROVE  Scraps(f) \subseteq Line /\ \A l \in Scraps(f) : ~IsMarked(l)
<1>1. Scraps(f) \subseteq Line
  BY DEF Line
<1>2. \A l \in Scraps(f) : ~IsMarked(l)
  BY Roles DEF Scraps, IsMarked
<1> QED BY <1>1, <1>2

\* A write that is cut short leaves a piece of one file, without blocks that were not
\* there, and the others as they are.
LEMMA PiecesFiles ==
  ASSUME NEW f, NEW on, NEW off, FilesOK, PlaceOK, f \in File, InPieces(f, on, off),
         job.unit \in Unit, on \subseteq Range(BlocksOf(job.unit, f)),
         UNCHANGED <<kit, swept, original>>
  PROVE  FilesOK' /\ PlaceOK' /\ Safe /\ Others /\ GiveUp
<1>1. PICK new : Moves(new, f, on, off) /\ new # Absent /\ CutShort(f, new)
  BY DEF InPieces
<1>2. PICK d \in Pieces(new, Scraps(f)) : file' = [file EXCEPT ![f] = d]
  BY <1>1 DEF CutShort
<1>3. touched' = touched \cup {f} /\ trouble' = trouble + 1 /\ GiveUp
  BY <1>1 DEF CutShort
<1>4. /\ new \in Docs(Line) /\ LinesIn(new) = new.lines /\ Sane(new.lines, Blocks(f))
      /\ \A c \in Blocks(f) : Has(new.lines, c) => c \in on \/ (Has(Lines(f), c) /\ c \notin off)
      /\ f = "hooks" =>
           \A c \in Blocks("hooks") :
             (swept => c # <<"ears-linter">>) =>
               (Placed(Lines("hooks"), c, HookKey[c]) => Placed(new.lines, c, HookKey[c]))
  BY <1>1 DEF Moves, LinesIn
<1>5. /\ d \in Docs(Line)
      /\ Sane(d.lines, Blocks(f))
      /\ \A c : Has(d.lines, c) => Has(new.lines, c)
      /\ \A c, k : Placed(new.lines, c, k) => Placed(d.lines, c, k)
  <2> DEFINE B == Blocks(f)
             scraps == Scraps(f)
  <2>1. scraps \subseteq Line /\ \A l \in scraps : ~IsMarked(l)
    BY ScrapsLoose
  <2>2. new \in Docs(Line) /\ Sane(new.lines, B) /\ d \in Pieces(new, scraps)
    BY <1>2, <1>4
  <2> HIDE DEF B, scraps
  <2>3. /\ d \in Docs(Line)
        /\ Sane(d.lines, B)
        /\ \A c : Has(d.lines, c) => Has(new.lines, c)
        /\ \A c, k : Placed(new.lines, c, k) => Placed(d.lines, c, k)
    BY ONLY <2>1, <2>2, PiecesSane
  <2> QED BY <2>3 DEF B
<1>6. d \in Docs(Line) \cup {Absent} /\ LinesIn(d) = d.lines
  BY <1>5, InDocs
<1>7. /\ FilesOK' /\ PlaceOK'
      /\ Lines(f)' = LinesIn(d)
      /\ \A g \in File : g # f => Lines(g)' = Lines(g)
  <2>1. touched \subseteq touched' /\ f \in touched'
    BY <1>3
  <2>2. f = "hooks" =>
          \A c \in Blocks("hooks") :
            (swept => c # <<"ears-linter">>) =>
              (Placed(Lines("hooks"), c, HookKey[c]) => Placed(LinesIn(d), c, HookKey[c]))
    BY <1>4, <1>5, <1>6
  <2> QED BY <1>2, <1>5, <1>6, <2>1, <2>2, OneFile
<1>8. Safe
  BY <1>3 DEF Safe
<1>9. Others
  <2>1. ASSUME NEW u \in Unit, u # job.unit, NEW g \in File, NEW b \in Range(BlocksOf(u, g))
        PROVE  /\ g \notin touched' => (InFile(g, b) => InFile(g, b)')
               /\ InFile(g, b)' => InFile(g, b)
    <3>1. CASE g # f
      BY <1>7, <3>1 DEF InFile
    <3>2. CASE g = f
      <4>1. b \in Blocks(f) /\ b \notin Range(BlocksOf(job.unit, f))
        BY <2>1, <3>2, InBlocks, BlocksApart
      <4>2. InFile(f, b)' => InFile(f, b)
        BY <1>4, <1>5, <1>6, <1>7, <4>1 DEF InFile
      <4> QED BY <1>3, <3>2, <4>2
    <3> QED BY <3>1, <3>2
  <2> QED BY <1>3, <2>1 DEF Others
<1> QED BY <1>3, <1>7, <1>8, <1>9

\* A step that moves only blocks of its own unit leaves the others alone.
LEMMA EffectOthers ==
  ASSUME NEW f, NEW on, NEW off, f \in File, job.unit \in Unit, Effect(f, on, off),
         on \cup off \subseteq Range(BlocksOf(job.unit, f)), UNCHANGED kit
  PROVE  Others
<1>1. ASSUME NEW u \in Unit, u # job.unit, NEW g \in File, NEW b \in Range(BlocksOf(u, g))
      PROVE  /\ g \notin touched => (InFile(g, b) => InFile(g, b)')
             /\ InFile(g, b)' => InFile(g, b)
  <2>1. CASE g # f
    BY <2>1 DEF Effect
  <2>2. CASE g = f
    <3>1. b \in Blocks(f) /\ b \notin Range(BlocksOf(job.unit, f))
      BY <1>1, <2>2, InBlocks, BlocksApart
    <3> QED BY <2>2, <3>1 DEF Effect
  <2> QED BY <2>1, <2>2
<1> QED BY <1>1 DEF Others, Effect

\* A step of an add puts the blocks that are its own.
LEMMA AddOwn ==
  ASSUME NEW f, NEW on, f \in File, job.unit \in Unit, job.verb = "add",
         Effect(f, on, {}), UNCHANGED kit, Head(job.todo) # "init",
         \A g \in File : \A b \in Range(BlocksOf(job.unit, g)) :
           StepFor(job.unit, g, b) = Head(job.todo) => g = f /\ b \in on
  PROVE  Own
<1>1. ASSUME NEW g \in File \ touched', NEW b \in Range(BlocksOf(job.unit, g)),
             InFile(g, b) \/ StepFor(job.unit, g, b) = Head(job.todo)
      PROVE  InFile(g, b)'
  <2>1. CASE g # f
    BY <1>1, <2>1 DEF Effect
  <2>2. CASE g = f
    <3>1. b \in Blocks(f)
      BY <2>2, InBlocks
    <3> QED BY <1>1, <2>2, <3>1 DEF Effect
  <2> QED BY <2>1, <2>2
<1> QED BY <1>1 DEF Own

\* A step of a remove takes the blocks of its file.
LEMMA RemoveOwn ==
  ASSUME NEW f, f \in File, job.unit \in Unit, job.verb = "remove",
         Effect(f, {}, Range(BlocksOf(job.unit, f))), Head(job.todo) = f
  PROVE  Own
<1>1. ASSUME NEW g \in File, NEW b \in Range(BlocksOf(job.unit, g)), InFile(g, b)'
      PROVE  InFile(g, b) /\ g # Head(job.todo)
  <2>1. CASE g # f
    BY <1>1, <2>1 DEF Effect
  <2>2. CASE g = f
    <3>1. b \in Blocks(f)
      BY <2>2, InBlocks
    <3> QED BY <1>1, <2>2, <3>1 DEF Effect
  <2> QED BY <2>1, <2>2
<1> QED BY <1>1 DEF Own

\* A step that writes into a file goes on or is cut short.
Writes(f, on, off) ==
  /\ Tried(f, on, off)
  /\ UNCHANGED <<kit, branch, installed, claim, swept, original>>

\* Steps that write keep the invariant, whether they succeed or fail.
LEMMA WritesKeep ==
  ASSUME NEW f, NEW on, NEW off, IInv, FInv, f \in File, Writes(f, on, off),
         job.verb \in {"add", "remove"}, Head(job.todo) # "save",
         on \cup off \subseteq Range(BlocksOf(job.unit, f)),
         job.verb = "add" =>
           /\ off = {} /\ Head(job.todo) # "init"
           /\ \A g \in File : \A b \in Range(BlocksOf(job.unit, g)) :
                StepFor(job.unit, g, b) = Head(job.todo) => g = f /\ b \in on,
         job.verb = "remove" =>
           on = {} /\ off = Range(BlocksOf(job.unit, f)) /\ Head(job.todo) = f
  PROVE  FInv' /\ Safe
<1>1. /\ JobOK /\ FilesOK /\ PlaceOK /\ StepsOK /\ AddOK /\ RemoveOK /\ InstallOK /\ AbsentOK
      /\ UNCHANGED <<kit, branch, installed, claim, swept, original>>
      /\ branch' \in {"none", "user", "specere"}
  BY DEF IInv, FInv, Writes, StepsOK
<1>2. job.unit \in Unit
  BY <1>1, Who
<1>3. CASE Wrong
  <2>1. GiveUp /\ UNCHANGED <<file, touched>>
    BY <1>3 DEF Wrong
  <2>2. FilesOK' /\ PlaceOK' /\ Safe /\ \A g, b : InFile(g, b)' <=> InFile(g, b)
    BY <1>1, <2>1, FilesSame
  <2>3. Others
    BY <1>1, <2>1, <2>2 DEF Others
  <2>4. StepsOK' /\ AddOK' /\ RemoveOK' /\ InstallOK' /\ AbsentOK'
    BY <1>1, <2>1, <2>3, QuitKeeps
  <2> QED BY <2>2, <2>4 DEF FInv
<1>5. CASE InPieces(f, on, off)
  <2>1. FilesOK' /\ PlaceOK' /\ Safe /\ Others /\ GiveUp
    BY <1>1, <1>2, <1>5, PiecesFiles
  <2>2. StepsOK' /\ AddOK' /\ RemoveOK' /\ InstallOK' /\ AbsentOK'
    BY <1>1, <2>1, QuitKeeps
  <2> QED BY <2>1, <2>2 DEF FInv
<1>4. CASE Wrote(f, on, off)
  <2>1. FilesOK' /\ PlaceOK' /\ Safe /\ Effect(f, on, off)
    BY <1>1, <1>4, WroteFiles
  <2>2. Others
    BY <1>1, <1>2, <2>1, EffectOthers
  <2>3. Own
    <3>1. CASE job.verb = "add"
      BY <1>1, <1>2, <2>1, <3>1, AddOwn
    <3>2. CASE job.verb = "remove"
      BY <1>2, <2>1, <3>2, RemoveOwn
    <3> QED BY <3>1, <3>2
  <2>4. Onward
    BY <1>1, <1>4, Continues DEF Wrote
  <2>5. StepsOK' /\ AddOK' /\ RemoveOK' /\ InstallOK' /\ AbsentOK'
    BY <1>1, <2>2, <2>3, <2>4, StepKeeps
  <2> QED BY <2>1, <2>5 DEF FInv
<1> QED BY <1>3, <1>4, <1>5 DEF Writes, Tried

\* The steps of the adds.
LEMMA AddsKeep ==
  ASSUME IInv, FInv, AddIgnore \/ AddHook \/ AddSpans \/ AddRules
  PROVE  FInv' /\ Safe
<1>1. /\ JobOK /\ StepsOK /\ FilesOK /\ job.verb = "add"
      /\ UNCHANGED <<kit, branch, installed, claim, swept, original>>
  BY DEF IInv, FInv, AddIgnore, AddHook, AddSpans, AddRules, Doing, Write
<1>2. /\ job.unit \in Unit
      /\ Head(job.todo) = "ignore" => job.unit \in {"filter-state", "claude-code-deploy"}
      /\ Head(job.todo) = "hook" => job.unit \in {"ears-linter", "claude-code-deploy"}
      /\ Head(job.todo) \in {"spans", "rules"} => job.unit = "claude-code-deploy"
  BY <1>1, Who
<1>3. CASE AddIgnore
  <2>1. Head(job.todo) = "ignore" /\ job.unit \in {"filter-state", "claude-code-deploy"}
    BY <1>2, <1>3 DEF AddIgnore, Doing
  <2>2. Tried("ignore", {<<job.unit>>}, {})
    BY <1>1, <1>3, <2>1, AddIgnoreWrites
  <2>3. "ignore" \in File /\ Range(BlocksOf(job.unit, "ignore")) = {<<job.unit>>}
    BY <1>2, <2>1, BlocksAre DEF File
  <2>4. \A g \in File : \A b \in Range(BlocksOf(job.unit, g)) :
          StepFor(job.unit, g, b) = "ignore" => g = "ignore" /\ b \in {<<job.unit>>}
    BY <2>3 DEF StepFor
  <2>5. Writes("ignore", {<<job.unit>>}, {})
    BY <1>1, <2>2 DEF Writes
  <2> QED BY <1>1, <2>1, <2>3, <2>4, <2>5, WritesKeep
<1>4. CASE AddHook
  <2>1. Head(job.todo) = "hook" /\ job.unit \in {"ears-linter", "claude-code-deploy"}
    BY <1>2, <1>4 DEF AddHook, Doing
  <2>2. Tried("hooks", {<<job.unit>>}, {})
    BY <1>1, <1>4, <2>1, AddHookWrites
  <2>3. "hooks" \in File /\ {<<job.unit>>} \subseteq Range(BlocksOf(job.unit, "hooks"))
    BY <1>2, <2>1, BlocksAre DEF File
  <2>4. \A g \in File : \A b \in Range(BlocksOf(job.unit, g)) :
          StepFor(job.unit, g, b) = "hook" => g = "hooks" /\ b \in {<<job.unit>>}
    BY DEF StepFor, File
  <2>5. Writes("hooks", {<<job.unit>>}, {})
    BY <1>1, <2>2 DEF Writes
  <2> QED BY <1>1, <2>1, <2>3, <2>4, <2>5, WritesKeep
<1>5. CASE AddSpans
  <2>1. Head(job.todo) = "spans" /\ job.unit = "claude-code-deploy"
    BY <1>2, <1>5 DEF AddSpans, Doing
  <2>2. Tried("hooks", Range(SpanBlocks), {})
    BY <1>1, <1>5, AddSpansWrites
  <2>3. "hooks" \in File
        /\ Range(BlocksOf(job.unit, "hooks")) = Range(SpanBlocks) \cup {<<job.unit>>}
    <3>1. Range(SpanBlocks) = {Span(Spans[i]) : i \in DOMAIN Spans}
      BY DEF Range, SpanBlocks
    <3> QED BY <1>2, <2>1, <3>1, BlocksAre DEF File
  <2>4. \A g \in File : \A b \in Range(BlocksOf(job.unit, g)) :
          StepFor(job.unit, g, b) = "spans" => g = "hooks" /\ b \in Range(SpanBlocks)
    <3> SUFFICES ASSUME NEW g \in File, NEW b \in Range(BlocksOf(job.unit, g)),
                        StepFor(job.unit, g, b) = "spans"
                 PROVE  g = "hooks" /\ b \in Range(SpanBlocks)
      OBVIOUS
    <3>1. g = "hooks" /\ b # <<job.unit>>
      BY DEF StepFor, File
    <3> QED BY <2>3, <3>1
  <2>5. Writes("hooks", Range(SpanBlocks), {})
    BY <1>1, <2>2 DEF Writes
  <2> DEFINE on == Range(SpanBlocks)
  <2> HIDE DEF on
  <2>6. on \cup {} \subseteq Range(BlocksOf(job.unit, "hooks"))
    BY <2>3 DEF on
  <2> QED BY <1>1, <2>1, <2>3, <2>4, <2>5, <2>6, WritesKeep DEF on
<1>6. CASE AddRules
  <2>1. Head(job.todo) = "rules" /\ job.unit = "claude-code-deploy"
    BY <1>2, <1>6 DEF AddRules, Doing
  <2>2. Tried("rules", {<<"rules">>}, {})
    BY <1>1, <1>6, AddRulesWrites
  <2>3. "rules" \in File /\ Range(BlocksOf(job.unit, "rules")) = {<<"rules">>}
    BY <1>2, <2>1, BlocksAre DEF File
  <2>4. \A g \in File : \A b \in Range(BlocksOf(job.unit, g)) :
          StepFor(job.unit, g, b) = "rules" => g = "rules" /\ b \in {<<"rules">>}
    BY <2>3 DEF StepFor
  <2>5. Writes("rules", {<<"rules">>}, {})
    BY <1>1, <2>2 DEF Writes
  <2> QED BY <1>1, <2>1, <2>3, <2>4, <2>5, WritesKeep
<1> QED BY <1>3, <1>4, <1>5, <1>6

\* The steps of the removes.
LEMMA RemovesKeep ==
  ASSUME IInv, FInv, RemoveIgnore \/ RemoveRules \/ RemoveHooks
  PROVE  FInv' /\ Safe
<1>1. /\ JobOK /\ StepsOK /\ FilesOK /\ job.verb = "remove"
      /\ UNCHANGED <<kit, branch, installed, claim, swept, original>>
  BY DEF IInv, FInv, RemoveIgnore, RemoveRules, RemoveHooks, Doing, Leave, Write
<1>2. /\ job.unit \in Unit
      /\ Head(job.todo) = "ignore" => job.unit \in {"filter-state", "claude-code-deploy"}
      /\ Head(job.todo) = "hooks" => job.unit \in {"ears-linter", "claude-code-deploy"}
      /\ Head(job.todo) = "rules" => job.unit = "claude-code-deploy"
  BY <1>1, Who
<1>3. CASE RemoveIgnore
  <2>1. Head(job.todo) = "ignore" /\ job.unit \in {"filter-state", "claude-code-deploy"}
    BY <1>2, <1>3 DEF RemoveIgnore, Doing
  <2>2. Tried("ignore", {}, {<<job.unit>>})
    BY <1>1, <1>3, <2>1, RemoveIgnoreWrites
  <2>3. "ignore" \in File /\ Range(BlocksOf(job.unit, "ignore")) = {<<job.unit>>}
    BY <1>2, <2>1, BlocksAre DEF File
  <2>4. Writes("ignore", {}, {<<job.unit>>})
    BY <1>1, <2>2 DEF Writes
  <2> QED BY <1>1, <2>1, <2>3, <2>4, WritesKeep
<1>4. CASE RemoveRules
  <2>1. Head(job.todo) = "rules" /\ job.unit = "claude-code-deploy"
    BY <1>2, <1>4 DEF RemoveRules, Doing
  <2>2. Tried("rules", {}, {<<"rules">>})
    BY <1>1, <1>4, RemoveRulesWrites
  <2>3. "rules" \in File /\ Range(BlocksOf(job.unit, "rules")) = {<<"rules">>}
    BY <1>2, <2>1, BlocksAre DEF File
  <2>4. Writes("rules", {}, {<<"rules">>})
    BY <1>1, <2>2 DEF Writes
  <2> QED BY <1>1, <2>1, <2>3, <2>4, WritesKeep
<1>5. CASE RemoveHooks
  <2>1. Head(job.todo) = "hooks" /\ job.unit \in {"ears-linter", "claude-code-deploy"}
    BY <1>2, <1>5 DEF RemoveHooks, Doing
  <2> DEFINE off == Range(BlocksOf(job.unit, "hooks"))
  <2>2. Tried("hooks", {}, off)
    BY <1>1, <1>5, <2>1, RemoveHooksWrites
  <2>3. "hooks" \in File
    BY DEF File
  <2>4. Writes("hooks", {}, off)
    BY <1>1, <2>2 DEF Writes
  <2> QED BY <1>1, <2>1, <2>3, <2>4, WritesKeep
<1> QED BY <1>3, <1>4, <1>5

\* Whole files are replaced by ones that no unit has written.
Replaced ==
  /\ touched \subseteq touched'
  /\ file' \in [File -> Docs(Line) \cup {Absent}]
  /\ \A f \in File : file'[f] = file[f] \/ file'[f] \in Plain \cup {Absent}
  /\ file' = file \/ "file" \in touched'

\* Where whole files are replaced no block comes, and none goes unseen.
LEMMA ReplacedFiles ==
  ASSUME FilesOK, PlaceOK, Replaced, UNCHANGED <<original, swept>>
  PROVE  /\ FilesOK' /\ PlaceOK'
         /\ \A f \in File : \A b : InFile(f, b)' => InFile(f, b)
         /\ "file" \notin touched' => \A f \in File : \A b : InFile(f, b)' <=> InFile(f, b)
<1>1. ASSUME NEW f \in File
      PROVE  \/ Lines(f)' = Lines(f)
             \/ /\ Sane(Lines(f)', Blocks(f)) /\ Unhurt(Lines(f)', Blocks(f))
                /\ \A b : ~Has(Lines(f)', b)
                /\ \A b, k : Placed(Lines(f)', b, k)
  <2>1. CASE file'[f] = file[f]
    BY <2>1 DEF Lines, Present
  <2>2. CASE file'[f] \in Plain \cup {Absent}
    <3> DEFINE d == file'[f]
               B == Blocks(f)
    <3>1. Lines(f)' = LinesIn(d) /\ d \in Plain \cup {Absent}
      BY <2>2, LinesAre
    <3> HIDE DEF d, B
    <3>2. /\ Sane(LinesIn(d), B) /\ Unhurt(LinesIn(d), B) /\ \A b : ~Has(LinesIn(d), b)
          /\ \A b, k : Placed(LinesIn(d), b, k)
      BY <3>1, PlainNone DEF Unhurt
    <3> QED BY <3>1, <3>2 DEF B
  <2> QED BY <2>1, <2>2 DEF Replaced
<1>2. /\ \A f \in File : Sane(Lines(f), Blocks(f))
      /\ \A f \in File \ touched : Unhurt(Lines(f), Blocks(f))
  BY DEF FilesOK
<1>3. /\ \A f \in File : Sane(Lines(f)', Blocks(f))
      /\ \A f \in File \ touched' : Unhurt(Lines(f)', Blocks(f))
  BY <1>1, <1>2 DEF Replaced
<1>4. FilesOK'
  BY <1>3 DEF FilesOK, Replaced
<1>5. PlaceOK'
  <2>1. "hooks" \in File
    BY DEF File
  <2>2. ASSUME NEW b \in Blocks("hooks"), swept' => b # <<"ears-linter">>
        PROVE  Placed(Lines("hooks")', b, HookKey[b])
    <3>1. CASE Lines("hooks")' = Lines("hooks")
      BY <2>2, <3>1 DEF PlaceOK
    <3>2. CASE \A c, k : Placed(Lines("hooks")', c, k)
      BY <3>2
    <3> QED BY <1>1, <2>1, <3>1, <3>2
  <2> QED BY <2>2 DEF PlaceOK
<1>6. \A f \in File : \A b : InFile(f, b)' => InFile(f, b)
  BY <1>1 DEF InFile
<1>7. ASSUME "file" \notin touched', NEW f \in File, NEW b
      PROVE  InFile(f, b)' <=> InFile(f, b)
  <2>1. file' = file
    BY <1>7 DEF Replaced
  <2> QED BY <2>1 DEF InFile, Lines, Present
<1> QED BY <1>4, <1>5, <1>6, <1>7

----------------------------------------------------------------------------

\* A line of the user's parts no hook from its key, if the file stays valid.
LEMMA PlacedLine ==
  ASSUME NEW S, NEW r, NEW s, NEW b, NEW k, NEW p, NEW x,
         Splices(S, r, s, p, <<Text(x)>>), Placed(s, b, k), ValidYaml(Doc(r, TRUE))
  PROVE  Placed(r, b, k)
<1> DEFINE t == <<Text(x)>>
<1>1. DOMAIN t = 1..1 /\ Len(t) = 1 /\ t[1] = Text(x)
  OBVIOUS
<1>2. \A j \in DOMAIN t : j = 1 /\ t[j] = Text(x)
  BY <1>1
<1> HIDE DEF t
<1>3. Splices(S, r, s, p, t)
  BY DEF t
<1>4. /\ r \in Seq(S) /\ s \in Seq(S) /\ p \in 1..(Len(s) + 1) /\ Len(r) = Len(s) + 1
  BY <1>1, <1>3 DEF Splices
<1>5. /\ Len(s) \in Nat /\ DOMAIN s = 1..Len(s) /\ DOMAIN r = 1..Len(r)
  BY <1>4
<1>6. Goes(r, s, p, t)
  BY <1>3, SpliceTo
<1>7. r[p] = Text(x)
  <2>1. (p - 1) + 1 = p /\ 1 \in DOMAIN t
    BY <1>1, <1>4
  <2> QED BY <1>1, <1>6, <2>1 DEF Goes
<1>8. /\ \A j \in DOMAIN s : j < p => r[j] = s[j]
      /\ \A j \in DOMAIN s : p <= j => r[j + 1] = s[j]
  BY <1>1, <1>6 DEF Goes
<1>9. ASSUME NEW i \in DOMAIN r, r[i] = Body(b)
      PROVE  Under(r, i, k)
  <2>1. From(r, s, p, t, i)
    BY <1>3, SpliceFrom
  <2>2. CASE i < p /\ i \in DOMAIN s /\ r[i] = s[i]
    <3>1. Under(s, i, k)
      BY <1>9, <2>2 DEF Placed
    <3>2. PICK o \in 1..(i - 1) : s[o] = KeyLine(k) /\ \A j \in (o + 1)..(i - 1) : ~Owns(s[j])
      BY <3>1 DEF Under
    <3>3. \A j \in 1..(i - 1) : j \in DOMAIN s /\ j < p
      BY <1>4, <1>5, <2>2
    <3>4. \A j \in 1..(i - 1) : r[j] = s[j]
      BY <1>8, <3>3
    <3>5. \A j \in (o + 1)..(i - 1) : j \in 1..(i - 1)
      BY <1>5, <2>2, <3>2
    <3> QED BY <3>2, <3>4, <3>5 DEF Under
  <2>3. CASE \E m \in DOMAIN t : i = (p - 1) + m /\ r[i] = t[m]
    BY <1>2, <1>9, <2>3, Roles
  <2>4. CASE \E m \in DOMAIN s : p <= m /\ i = m + Len(t) /\ r[i] = s[m]
    <3>1. PICK m \in DOMAIN s : p <= m /\ i = m + 1 /\ r[i] = s[m]
      BY <1>1, <2>4
    <3>2. Under(s, m, k)
      BY <1>9, <3>1 DEF Placed
    <3>3. PICK o \in 1..(m - 1) : s[o] = KeyLine(k) /\ \A j \in (o + 1)..(m - 1) : ~Owns(s[j])
      BY <3>2 DEF Under
    <3>4. CASE p <= o
      <4>1. o + 1 \in 1..(i - 1) /\ o \in DOMAIN s
        BY <1>4, <1>5, <3>1, <3>3
      <4>2. r[o + 1] = KeyLine(k)
        BY <1>8, <3>3, <3>4, <4>1
      <4>3. ASSUME NEW j \in ((o + 1) + 1)..(i - 1)
            PROVE  ~Owns(r[j])
        <5>1. j - 1 \in (o + 1)..(m - 1) /\ j - 1 \in DOMAIN s /\ p <= j - 1 /\ (j - 1) + 1 = j
          BY <1>4, <1>5, <3>1, <3>3, <3>4
        <5>2. r[(j - 1) + 1] = s[j - 1]
          BY <1>8, <5>1
        <5> QED BY <3>3, <5>1, <5>2
      <4> QED BY <4>1, <4>2, <4>3 DEF Under
    <3>5. CASE o < p
      <4> DEFINE above == {j \in 1..(i - 1) : r[j][1] \in {"key", "hooks", "text"}}
      <4>1. p \in 1..(i - 1)
        BY <1>4, <1>5, <3>1
      <4>2. p \in above
        BY <1>7, <4>1, Roles
      <4>3. \A j \in above : j <= p
        <5> SUFFICES ASSUME NEW j \in 1..(i - 1), p < j
                     PROVE  ~Owns(r[j])
          BY <1>4, <4>1 DEF Owns
        <5>1. j - 1 \in (o + 1)..(m - 1) /\ j - 1 \in DOMAIN s /\ p <= j - 1 /\ (j - 1) + 1 = j
          BY <1>4, <1>5, <3>1, <3>3, <3>5
        <5>2. r[(j - 1) + 1] = s[j - 1]
          BY <1>8, <5>1
        <5> QED BY <3>3, <5>1, <5>2
      <4>4. OwnerOf(r, i) = Max(above)
        BY <4>2 DEF OwnerOf
      <4>5. i - 1 \in Nat /\ above \in SUBSET (0..(i - 1)) /\ above \in SUBSET (1..(i - 1))
        BY <1>5, <3>1
      <4> HIDE DEF above
      <4>6. Max(above) \in above /\ \A j \in above : j <= Max(above)
        BY <4>2, <4>5, MaxFound
      <4>7. Max(above) = p
        <5>1. Max(above) \in 1..(i - 1) /\ Max(above) <= p /\ p <= Max(above)
          BY <4>2, <4>3, <4>5, <4>6
        <5> QED BY <4>1, <5>1
      <4>8. ~IsKey(r[p]) /\ r[p] # Hooks
        BY <1>7, Roles DEF IsKey
      <4>9. IsChild(r[i])
        BY <1>9, Roles DEF IsChild
      <4>10. IsKey(r[OwnerOf(r, i)]) \/ r[OwnerOf(r, i)] = Hooks
        BY <4>9 DEF ValidYaml, Doc
      <4> QED BY <4>4, <4>7, <4>8, <4>10
    <3> QED BY <1>4, <1>5, <3>3, <3>4, <3>5
  <2> QED BY <2>1, <2>2, <2>3, <2>4 DEF From
<1> QED BY <1>9 DEF Placed

\* The user's line goes between whole blocks, or to torn ones.
LEMMA LineKeeps ==
  ASSUME FilesOK, PlaceOK, UNCHANGED <<original, swept>>, NEW f \in File, AddLine(f)
  PROVE  /\ FilesOK' /\ PlaceOK'
         /\ \A g \in File : \A b \in Blocks(g) : InFile(g, b)' <=> InFile(g, b)
<1>1. PICK l \in {Text("mine"), Item("mine"), Broken}, i \in 1..(Len(file[f].lines) + 1) :
        /\ f # "hooks" => l = Text("mine")
        /\ Outside(f, i)
        /\ LET new == Doc(Put(file[f].lines, i, <<l>>), TRUE)
           IN  /\ f = "hooks" /\ l # Broken => ValidYaml(new)
               /\ file' = [file EXCEPT ![f] = new]
  BY DEF AddLine
<1> DEFINE s == file[f].lines
           r == Put(s, i, <<l>>)
           t == <<l>>
           B == Blocks(f)
           A == Sound(s, B)
<1>2. /\ Present(f) /\ file[f] \in Docs(Line) /\ s \in Seq(Line) /\ s = Lines(f)
      /\ Sane(s, B) /\ (f \notin touched => Unhurt(s, B))
  BY DEF FilesOK, AddLine, Present, Lines, Docs, IsDoc
<1>3. l \in Line /\ t \in Seq(Line)
  BY OtherLines
<1>4. t # << >> /\ Len(t) = 1 /\ DOMAIN t = 1..1 /\ \A j \in DOMAIN t : t[j] = l
  OBVIOUS
<1>5. l[1] \in {"text", "item", "broken"} /\ l # Garbled
  BY Roles
<1>6. ~IsMarked(l) /\ \A b : l # Begin(b) /\ l # Body(b) /\ l # End(b)
  BY <1>5, Roles DEF IsMarked
<1>7. \A b : Lacks(t, Body(b))
  BY <1>4, <1>6 DEF Lacks
<1>8. Splices(Line, r, s, i, t)
  <2>1. i \in 1..(Len(s) + 1)
    OBVIOUS
  <2> HIDE DEF s, t
  <2>2. Splices(Line, Put(s, i, t), s, i, t)
    BY ONLY <1>2, <1>3, <2>1, PutSplices
  <2> QED BY <2>2 DEF t
<1>9. Between(s, A, i)
  <2> SUFFICES ASSUME NEW b \in A, NEW q \in DOMAIN s, s[q] = Begin(b), q < i, i <= q + 2
               PROVE  FALSE
    <3>1. i \in Int /\ \A q \in DOMAIN s : q \in Int
      BY <1>2
    <3> QED BY <3>1 DEF Between
  <2>1. q + 2 \in DOMAIN s /\ s[q + 2] = End(b) /\ b \in B
    BY <1>2 DEF Sane, Whole, Opened, Sound
  <2> QED BY <1>1, <2>1 DEF Outside
<1>10. Sane(r, B) /\ \A b : (Has(r, b) <=> Has(s, b)) /\ (Torn(r, b) <=> Torn(s, b))
  <2>1. \A j \in DOMAIN t : ~IsMarked(t[j])
    BY <1>4, <1>6
  <2> HIDE DEF s, t, r, B
  <2> QED BY <1>2, <1>8, <1>9, <2>1, SpliceSane DEF A
<1>11. r \in Seq(Line) /\ r # << >>
  <2> HIDE DEF s, t, r
  <2>1. r \in Seq(Line) /\ Len(r) = Len(s) + 1 /\ s \in Seq(Line)
    BY <1>4, <1>8 DEF Splices
  <2> QED BY <2>1
<1>12. Doc(r, TRUE) \in Docs(Line) /\ LinesIn(Doc(r, TRUE)) = r
  <2> HIDE DEF r
  <2>1. Doc(r, TRUE) \in Docs(Line)
    BY <1>11 DEF Docs, IsDoc, Doc
  <2>2. Doc(r, TRUE).lines = r
    BY DEF Doc
  <2> QED BY <2>1, <2>2, InDocs
<1>13. /\ file' = [file EXCEPT ![f] = Doc(r, TRUE)]
       /\ f = "hooks" /\ l # Broken => ValidYaml(Doc(r, TRUE))
       /\ touched \subseteq touched'
  BY <1>1 DEF AddLine
<1> HIDE DEF r, t, B, A
<1>14. f \notin touched' => Unhurt(r, B)
  <2> SUFFICES ASSUME f \notin touched
               PROVE  Unhurt(r, B)
    BY <1>13
  <2>1. (\A b \in B : ~Torn(s, b)) /\ Lacks(s, Garbled)
    BY <1>2 DEF Unhurt
  <2> HIDE DEF s
  <2>2. ASSUME NEW j \in DOMAIN r
        PROVE  r[j] # Garbled
    <3>1. From(r, s, i, t, j)
      BY <1>8, SpliceFrom
    <3> QED BY <1>4, <1>5, <2>1, <3>1 DEF From, Lacks
  <2>3. Lacks(r, Garbled)
    BY <2>2 DEF Lacks
  <2> QED BY <1>10, <2>1, <2>3 DEF Unhurt
<1>15. ASSUME f = "hooks", NEW b, NEW k, Placed(s, b, k)
       PROVE  Placed(r, b, k)
  <2>1. CASE l = Text("mine")
    <3>1. l # Broken
      BY <2>1, Roles
    <3>2. ValidYaml(Doc(r, TRUE))
      BY <1>13, <1>15, <3>1
    <3>3. Splices(Line, r, s, i, <<Text("mine")>>)
      BY <1>8, <2>1 DEF t
    <3> HIDE DEF s
    <3> QED BY ONLY <1>15, <3>2, <3>3, PlacedLine
  <2>2. CASE l # Text("mine")
    <3>1. ~Owns(l)
      BY <2>2, Roles DEF Owns
    <3>2. Aside(s, i, t)
      BY <1>4, <3>1 DEF Aside
    <3> HIDE DEF s
    <3>3. Lacks(t, Body(b))
      BY <1>7
    <3> QED BY ONLY <1>8, <1>15, <3>2, <3>3, PlacedSplice
  <2> QED BY <2>1, <2>2
<1>16. /\ FilesOK' /\ PlaceOK' /\ Lines(f)' = r
       /\ \A g \in File : g # f => Lines(g)' = Lines(g)
  <2> DEFINE d == Doc(r, TRUE)
  <2>1. /\ d \in Docs(Line) \cup {Absent} /\ LinesIn(d) = r
        /\ file' = [file EXCEPT ![f] = d]
    BY <1>12, <1>13
  <2>2. f = "hooks" =>
          \A c \in Blocks("hooks") :
            (swept => c # <<"ears-linter">>) =>
              (Placed(Lines("hooks"), c, HookKey[c]) => Placed(LinesIn(d), c, HookKey[c]))
    <3> HIDE DEF d, s
    <3> QED BY <1>2, <1>15, <2>1
  <2>3. Sane(LinesIn(d), Blocks(f)) /\ (f \notin touched' => Unhurt(LinesIn(d), Blocks(f)))
    BY <1>10, <1>14, <2>1 DEF B
  <2> HIDE DEF d
  <2>4. /\ FilesOK' /\ PlaceOK' /\ Lines(f)' = LinesIn(d)
        /\ \A g \in File : g # f => Lines(g)' = Lines(g)
    BY <1>13, <2>1, <2>2, <2>3, OneFile
  <2> QED BY <2>1, <2>4
<1>17. \A g \in File : \A b \in Blocks(g) : InFile(g, b)' <=> InFile(g, b)
  BY <1>2, <1>10, <1>16 DEF InFile
<1> QED BY <1>16, <1>17

\* The line that makes a file unreadable goes behind its blocks.
LEMMA GarbleKeeps ==
  ASSUME FilesOK, PlaceOK, UNCHANGED <<original, swept>>, NEW f \in File, Garble(f)
  PROVE  /\ FilesOK' /\ PlaceOK'
         /\ \A g \in File : \A b \in Blocks(g) : InFile(g, b)' <=> InFile(g, b)
<1> DEFINE s == file[f].lines
           r == Append(s, Garbled)
           d == Doc(r, TRUE)
           B == Blocks(f)
<1>1. /\ s \in Seq(Line) /\ s = Lines(f) /\ Sane(s, B)
  BY DEF FilesOK, Garble, Readable, Present, Lines, Docs
<1>2. Garbled \in Line /\ ~IsMarked(Garbled)
  BY Roles DEF Line, IsMarked
<1>3. /\ touched \subseteq touched' /\ f \in touched'
      /\ file' = [file EXCEPT ![f] = d]
  BY DEF Garble, FilesOK
<1>4. /\ r \in Seq(Line) /\ r # << >> /\ Sane(r, B)
      /\ \A c : Has(r, c) <=> Has(s, c)
      /\ \A c, k : Placed(s, c, k) => Placed(r, c, k)
  <2> HIDE DEF s, B
  <2> QED BY <1>1, <1>2, AppendSane
<1>5. d \in Docs(Line) /\ d.lines = r
  <2> HIDE DEF r
  <2> QED BY <1>4 DEF Docs, IsDoc, Doc
<1>6. d \in Docs(Line) \cup {Absent} /\ LinesIn(d) = r
  <2> HIDE DEF d, r
  <2> QED BY <1>5, InDocs
<1> HIDE DEF d, r
<1>7. f = "hooks" =>
        \A c \in Blocks("hooks") :
          (swept => c # <<"ears-linter">>) =>
            (Placed(Lines("hooks"), c, HookKey[c]) => Placed(LinesIn(d), c, HookKey[c]))
  BY <1>1, <1>4, <1>6
<1>8. /\ FilesOK' /\ PlaceOK' /\ Lines(f)' = LinesIn(d)
      /\ \A g \in File : g # f => Lines(g)' = Lines(g)
  BY <1>3, <1>4, <1>6, <1>7, OneFile
<1>9. \A g \in File : \A b \in Blocks(g) : InFile(g, b)' <=> InFile(g, b)
  BY <1>1, <1>4, <1>6, <1>8 DEF InFile
<1> QED BY <1>8, <1>9

\* SpecKit has no blocks.
LEMMA SpeckitNone ==
  ASSUME NEW f \in File
  PROVE  Range(BlocksOf("speckit", f)) = {}
<1>1. CASE f = "ignore"
  BY <1>1, BlocksAre DEF Unit
<1>2. CASE f = "rules"
  BY <1>2, BlocksAre DEF Unit
<1>3. CASE f = "hooks"
  BY <1>3, BlocksAre DEF Unit
<1> QED BY <1>1, <1>2, <1>3 DEF File

\* A step of SpecKit's own: what it does to files, it does to whole ones.
LEMMA SpeckitKeeps ==
  ASSUME IInv, FInv, job.verb \in {"add", "remove"}, job.unit = "speckit",
         Head(job.todo) # "save", Onward, Replaced, touched \subseteq touched',
         (job.verb = "add" /\ Head(job.todo) # "init") => kit'.own = kit.own,
         Head(job.todo) = "init" => kit'.own,
         UNCHANGED <<installed, claim, swept, original>>,
         branch' \in {"none", "user", "specere"}
  PROVE  FInv'
<1>1. JobOK /\ FilesOK /\ PlaceOK /\ StepsOK /\ AddOK /\ RemoveOK /\ InstallOK /\ AbsentOK
  BY DEF IInv, FInv
<1>2. /\ FilesOK' /\ PlaceOK'
      /\ \A f \in File : \A b : InFile(f, b)' => InFile(f, b)
      /\ "file" \notin touched' => \A f \in File : \A b : InFile(f, b)' <=> InFile(f, b)
  BY <1>1, ReplacedFiles
<1>3. Others
  BY <1>2 DEF Others
<1>4. Own
  BY SpeckitNone DEF Own
<1>5. StepsOK' /\ AddOK' /\ RemoveOK' /\ InstallOK' /\ AbsentOK'
  BY <1>1, <1>3, <1>4, StepKeeps
<1> QED BY <1>2, <1>5 DEF FInv

\* SpecKit's steps, one by one.
LEMMA SpeckitStepsKeep ==
  ASSUME IInv, FInv,
         \/ SpecifyInit \/ TakeBranch
         \/ WipeSpecify \/ WipeSpecs \/ WipeAgent \/ (DropBranch /\ claim)
  PROVE  FInv' /\ job.unit = "speckit"
<1>1. JobOK /\ StepsOK /\ FilesOK /\ kit \in Kits
  BY DEF IInv, FInv, PointerOK
<1>2. /\ job.verb \in {"add", "remove"}
      /\ \/ job.verb = "add" /\ Head(job.todo) \in {"init", "branch"}
         \/ job.verb = "remove" /\ Head(job.todo) \in {"specify", "specs", "agent", "branch"}
  BY DEF SpecifyInit, TakeBranch, WipeSpecify, WipeSpecs, WipeAgent, DropBranch, Doing
<1>3. job.unit = "speckit" /\ Head(job.todo) # "save"
  BY <1>1, <1>2, Who
<1>4. file \in [File -> Docs(Line) \cup {Absent}] /\ file = [f \in File |-> file[f]]
  BY <1>1 DEF FilesOK
<1>5. \A d \in Plain \cup {Absent} : d \in Docs(Line) \cup {Absent}
  BY DEF Plain
<1>6. branch \in {"none", "user", "specere"}
  BY <1>1 DEF StepsOK
<1>7. CASE SpecifyInit
  <2>1. Onward
    BY <1>1, <1>2, <1>3, <1>7, Continues DEF SpecifyInit
  <2>2. Replaced /\ touched \subseteq touched'
    <3>1. PICK over \in BOOLEAN :
            /\ file' = [f \in File |->
                          IF ~Present(f) \/ (f = "hooks" /\ over)
                            THEN SpeckitFile[f] ELSE file[f]]
            /\ touched' = IF file' = file THEN touched ELSE touched \cup {"file"}
      BY <1>7 DEF SpecifyInit
    <3>2. \A f \in File : SpeckitFile[f] \in Plain \cup {Absent}
      BY ScaffoldAssumption
    <3>3. \A f \in File : file'[f] = file[f] \/ file'[f] \in Plain \cup {Absent}
      BY <3>1, <3>2
    <3>4. file' \in [File -> Docs(Line) \cup {Absent}]
      BY <1>4, <1>5, <3>1, <3>2
    <3> QED BY <3>1, <3>3, <3>4 DEF Replaced
  <2>3. kit'.own = TRUE /\ Head(job.todo) = "init"
    BY <1>1, <1>7 DEF SpecifyInit, Kits, Doing
  <2>4. UNCHANGED <<installed, claim, swept, original, branch>>
    BY <1>7 DEF SpecifyInit
  <2> QED BY <1>2, <1>3, <1>6, <2>1, <2>2, <2>3, <2>4, SpeckitKeeps
<1>8. CASE TakeBranch
  <2>1. /\ job' = [job EXCEPT !.todo = Tail(@), !.ours = (branch = "none")]
        /\ job.verb = "add" /\ Head(job.todo) = "branch"
        /\ UNCHANGED <<file, kit, installed, claim, late, touched, swept, original>>
        /\ branch' = IF branch = "none" THEN "specere" ELSE branch
    BY <1>8 DEF TakeBranch, Doing, history
  <2>2. Onward
    <3>1. job \in Jobs
      BY <1>1 DEF JobOK
    <3> QED BY <1>3, <2>1, <3>1 DEF Onward, Jobs
  <2>3. Replaced /\ branch' \in {"none", "user", "specere"} /\ touched \subseteq touched'
    BY <1>4, <1>6, <2>1 DEF Replaced
  <2> QED BY <1>2, <1>3, <2>1, <2>2, <2>3, SpeckitKeeps
<1>9. CASE WipeSpecify
  <2>1. Onward
    BY <1>1, <1>2, <1>3, <1>9, Continues DEF WipeSpecify
  <2>2. /\ file' = [file EXCEPT !["hooks"] = Absent]
        /\ touched' = IF Present("hooks") THEN touched \cup {"file"} ELSE touched
        /\ UNCHANGED <<installed, claim, swept, original, branch>>
        /\ job.verb = "remove" /\ Head(job.todo) = "specify"
    BY <1>9 DEF WipeSpecify, Doing
  <2>3. Replaced /\ touched \subseteq touched'
    <3>1. file' \in [File -> Docs(Line) \cup {Absent}]
      BY <1>4, <2>2
    <3>2. \A f \in File : file'[f] = file[f] \/ file'[f] \in Plain \cup {Absent}
      BY <1>4, <2>2
    <3>3. file' = file \/ "file" \in touched'
      <4>1. CASE Present("hooks")
        BY <2>2, <4>1
      <4>2. CASE ~Present("hooks")
        <5>1. \A f \in File : file'[f] = file[f]
          BY <1>4, <2>2, <4>2 DEF Present
        <5> QED BY <1>4, <3>1, <5>1
      <4> QED BY <4>1, <4>2
    <3> QED BY <2>2, <3>1, <3>2, <3>3 DEF Replaced
  <2> QED BY <1>2, <1>3, <1>6, <2>1, <2>2, <2>3, SpeckitKeeps
<1>10. CASE WipeSpecs
  <2>1. Onward
    BY <1>1, <1>2, <1>3, <1>10, Continues DEF WipeSpecs
  <2>2. /\ UNCHANGED <<file, installed, claim, swept, original, branch, touched>>
        /\ job.verb = "remove" /\ Head(job.todo) = "specs"
    BY <1>10 DEF WipeSpecs, Doing
  <2>3. Replaced /\ touched \subseteq touched'
    BY <1>4, <2>2 DEF Replaced
  <2> QED BY <1>2, <1>3, <1>6, <2>1, <2>2, <2>3, SpeckitKeeps
<1>11. CASE WipeAgent
  <2>1. Onward
    BY <1>1, <1>2, <1>3, <1>11, Continues DEF WipeAgent
  <2>2. /\ UNCHANGED <<installed, claim, swept, original, branch, kit>>
        /\ job.verb = "remove" /\ Head(job.todo) = "agent"
        /\ \/ file' = [file EXCEPT !["rules"] = Absent] /\ touched' = touched \cup {"file"}
           \/ UNCHANGED <<file, touched>>
    BY <1>11 DEF WipeAgent, Doing
  <2>3. Replaced /\ touched \subseteq touched'
    BY <1>4, <2>2 DEF Replaced
  <2> QED BY <1>2, <1>3, <1>6, <2>1, <2>2, <2>3, SpeckitKeeps
<1>12. CASE DropBranch /\ claim
  <2>1. Onward
    BY <1>1, <1>2, <1>3, <1>12, Continues DEF DropBranch
  <2>2. /\ UNCHANGED <<file, installed, claim, swept, original, kit, touched>>
        /\ job.verb = "remove" /\ Head(job.todo) = "branch" /\ branch' = "none"
    BY <1>12 DEF DropBranch, Doing
  <2>3. Replaced /\ touched \subseteq touched'
    BY <1>4, <2>2 DEF Replaced
  <2> QED BY <1>2, <1>3, <2>1, <2>2, <2>3, SpeckitKeeps
<1> QED BY <1>3, <1>7, <1>8, <1>9, <1>10, <1>11, <1>12

\* A command that is cut short, or refused.
LEMMA CutShortKeeps ==
  ASSUME FInv, GiveUp,
         UNCHANGED <<file, kit, installed, claim, swept, original, touched, branch>>
  PROVE  FInv'
<1>1. FilesOK /\ PlaceOK /\ StepsOK /\ InstallOK /\ AbsentOK
  BY DEF FInv
<1>2. FilesOK' /\ PlaceOK' /\ \A f, b : InFile(f, b)' <=> InFile(f, b)
  BY <1>1, FilesSame
<1>3. Others
  BY <1>2 DEF Others
<1>4. branch' \in {"none", "user", "specere"}
  BY <1>1 DEF StepsOK
<1>5. StepsOK' /\ AddOK' /\ RemoveOK' /\ InstallOK' /\ AbsentOK'
  BY <1>1, <1>3, <1>4, QuitKeeps
<1> QED BY <1>2, <1>5 DEF FInv

\* Where neither an add nor a remove runs, before or after.
LEMMA IdleKeeps ==
  ASSUME FInv, FilesOK', PlaceOK', Others, Exempt, StepsOK',
         job'.verb \notin {"add", "remove"}, installed' = installed
  PROVE  FInv'
<1>1. AddOK' /\ RemoveOK'
  BY NothingToDo
<1>2. InstallOK' /\ AbsentOK'
  BY RestKeeps DEF FInv, StepsOK
<1> QED BY <1>1, <1>2 DEF FInv

\* The steps of a clean-up.
LEMMA CleanStepKeeps ==
  ASSUME IInv, FInv, CleanStep
  PROVE  FInv'
<1>1. /\ job \in Jobs /\ kit \in Kits /\ job.verb = "clean"
      /\ job.unit = "doctor" /\ job.todo \in CleanLeft
      /\ Advance
      /\ UNCHANGED <<file, branch, installed, claim, touched, swept, original>>
  BY DEF IInv, JobOK, PointerOK, CleanStep
<1>2. kit'.own = kit.own
  <2>1. Head(<<"feature", "pointer", "runs">>) = "feature"
    OBVIOUS
  <2>2. Head(<<"pointer", "runs">>) = "pointer" /\ Head(<<"runs">>) = "runs"
    OBVIOUS
  <2>3. Head(job.todo) = "feature" \/ Head(job.todo) = "pointer" \/ Head(job.todo) = "runs"
    BY <1>1, <2>1, <2>2 DEF CleanLeft
  <2>4. CASE Head(job.todo) = "feature"
    <3>1. kit' = [kit EXCEPT !.feature = "none"]
      BY <2>4 DEF CleanStep
    <3> QED BY <1>1, <3>1 DEF Kits
  <2>5. CASE Head(job.todo) = "pointer"
    <3>1. kit' = [kit EXCEPT !.pointer = FALSE]
      BY <2>5 DEF CleanStep
    <3> QED BY <1>1, <3>1 DEF Kits
  <2>6. CASE Head(job.todo) = "runs"
    <3>1. kit' = [kit EXCEPT !.runs = FALSE]
      BY <2>6 DEF CleanStep
    <3> QED BY <1>1, <3>1 DEF Kits
  <2> QED BY <2>3, <2>4, <2>5, <2>6
<1>3. FilesOK' /\ PlaceOK' /\ \A f, b : InFile(f, b)' <=> InFile(f, b)
  BY <1>1, FilesSame DEF FInv
<1>4. Others
  BY <1>1, <1>2, <1>3 DEF Others
<1>5. "doctor" \notin Unit
  BY DEF Unit
<1>6. CASE Len(job.todo) = 1
  <2>1. job' = NoJob /\ late' = late \ {"doctor"}
    BY <1>1, <1>6 DEF Advance
  <2>2. Exempt
    BY <1>1, <1>5, <2>1 DEF Exempt
  <2>3. StepsOK'
    <3>1. SaveLast(NoJob.todo)
      BY NoJobOK DEF SaveLast
    <3> QED BY <1>1, <2>1, <3>1, NoJobOK DEF StepsOK, FInv
  <2>4. job'.verb = "none"
    BY <2>1, NoJobOK
  <2> QED BY <1>1, <1>3, <1>4, <2>2, <2>3, <2>4, IdleKeeps
<1>7. CASE Len(job.todo) # 1
  <2>1. job' = [job EXCEPT !.todo = Tail(@)] /\ late' = late
    BY <1>1, <1>7 DEF Advance
  <2>2. /\ job'.unit = job.unit /\ job'.verb = job.verb /\ job'.ours = job.ours
        /\ job'.todo = Tail(job.todo)
    BY <1>1, <2>1 DEF Jobs
  <2>3. Exempt
    BY <2>1, <2>2 DEF Exempt
  <2>4. SaveLast(job'.todo)
    <3>1. job.todo \in Seq(StepName) /\ job.todo # << >> /\ SaveLast(job.todo)
      BY <1>1 DEF Jobs, FInv, StepsOK, IInv, JobOK
    <3> QED BY <2>2, <3>1, TailRange
  <2>5. StepsOK'
    BY <1>1, <2>2, <2>4 DEF StepsOK, FInv
  <2> QED BY <1>1, <1>3, <1>4, <2>2, <2>3, <2>5, IdleKeeps
<1> QED BY <1>6, <1>7

\* What the user does between commands.
LEMMA UserKeeps ==
  ASSUME IInv, FInv, UserEdits \/ UserSpecifies
  PROVE  FInv'
<1>1. /\ job = NoJob
      /\ UNCHANGED <<branch, installed, claim, job, late, swept, original>>
  BY DEF UserEdits, UserSpecifies, Idle
<1>2. /\ FilesOK' /\ PlaceOK' /\ Others
  <2>1. CASE UserSpecifies
    <3>1. UNCHANGED <<file, touched>> /\ kit \in Kits
      BY <2>1 DEF UserSpecifies, IInv, PointerOK
    <3>2. kit'.own = kit.own
      <4>1. \/ kit' = [kit EXCEPT !.feature = "template", !.pointer = TRUE, !.runs = TRUE]
            \/ kit' = [kit EXCEPT !.feature = "filled"]
        BY <2>1 DEF UserSpecifies
      <4> QED BY <3>1, <4>1 DEF Kits
    <3>3. FilesOK' /\ PlaceOK' /\ \A f, b : InFile(f, b)' <=> InFile(f, b)
      BY <1>1, <3>1, FilesSame DEF FInv
    <3> QED BY <3>1, <3>2, <3>3 DEF Others
  <2>2. ASSUME UserEdits, NEW f \in File, AddLine(f)
        PROVE  FilesOK' /\ PlaceOK' /\ Others
    <3>1. kit' = kit /\ touched' = touched \cup {"line"}
      BY <2>2 DEF UserEdits, AddLine
    <3>2. /\ FilesOK' /\ PlaceOK'
          /\ \A g \in File : \A b \in Blocks(g) : InFile(g, b)' <=> InFile(g, b)
      BY <1>1, <2>2, LineKeeps DEF FInv
    <3> QED BY <3>1, <3>2, InBlocks DEF Others
  <2>4. ASSUME UserEdits, NEW f \in File, Garble(f)
        PROVE  FilesOK' /\ PlaceOK' /\ Others
    <3>1. kit' = kit /\ touched' = touched \cup {"line", f}
      BY <2>4 DEF UserEdits, Garble
    <3>2. /\ FilesOK' /\ PlaceOK'
          /\ \A g \in File : \A b \in Blocks(g) : InFile(g, b)' <=> InFile(g, b)
      BY <1>1, <2>4, GarbleKeeps DEF FInv
    <3> QED BY <3>1, <3>2, InBlocks DEF Others
  <2>3. ASSUME UserEdits, NEW f \in File, Revert(f)
        PROVE  FilesOK' /\ PlaceOK' /\ Others
    <3>1. /\ kit' = kit /\ touched' = touched \cup {"file"}
          /\ file' = [file EXCEPT ![f] = original[f]]
      BY <2>3 DEF UserEdits, Revert
    <3>2. Replaced
      <4>1. original[f] \in Plain \cup {Absent}
            /\ file \in [File -> Docs(Line) \cup {Absent}]
        BY DEF FInv, FilesOK
      <4>2. original[f] \in Docs(Line) \cup {Absent}
        BY <4>1 DEF Plain
      <4> QED BY <3>1, <4>1, <4>2 DEF Replaced
    <3>3. FilesOK' /\ PlaceOK' /\ \A g \in File : \A b : InFile(g, b)' => InFile(g, b)
      BY <1>1, <3>2, ReplacedFiles DEF FInv
    <3> QED BY <3>1, <3>3 DEF Others
  <2> QED BY <2>1, <2>2, <2>3, <2>4 DEF UserEdits
<1>3. Exempt
  BY <1>1 DEF Exempt
<1>4. StepsOK' /\ job'.verb = "none"
  BY <1>1, NoJobOK DEF StepsOK, FInv
<1> QED BY <1>1, <1>2, <1>3, <1>4, IdleKeeps

\* A command begins with all of its steps to go.
LEMMA StartsKeep ==
  ASSUME FInv, NEW u \in Unit,
         AddUnit(u) \/ RemoveUnit(u)
  PROVE  FInv'
<1>1. PICK verb, steps :
        /\ verb \in {"add", "remove"}
        /\ Start(u, verb, steps)
        /\ verb = "add" => steps = AddSteps[u]
        /\ verb = "remove" => steps \in RemoveSteps[u]
  BY DEF AddUnit, RemoveUnit
<1>2. /\ job = NoJob
      /\ job' = [unit |-> u, verb |-> verb, todo |-> steps, ours |-> FALSE]
      /\ swept' = (swept \/ (u = "claude-code-deploy" /\ verb = "remove"))
      /\ UNCHANGED <<file, kit, branch, installed, claim, late, touched, original>>
  BY <1>1 DEF Start, Idle
<1>3. job'.unit = u /\ job'.verb = verb /\ job'.todo = steps /\ job'.ours = FALSE
  BY <1>2
<1>4. FilesOK' /\ PlaceOK' /\ \A f, b : InFile(f, b)' <=> InFile(f, b)
  BY <1>2, FilesSame DEF FInv
<1>5. SaveLast(steps)
  BY <1>1, AddsAre, RemovesAre
<1>6. StepsOK'
  BY <1>1, <1>2, <1>3, <1>5 DEF FInv, StepsOK
<1>7. Others
  BY <1>2, <1>4 DEF Others
<1>8. Exempt
  BY <1>2, NoJobOK DEF Exempt, Unit
<1>9. InstallOK' /\ AbsentOK'
  BY <1>2, <1>7, <1>8, RestKeeps DEF FInv, StepsOK
<1>10. AddOK'
  <2>1. verb = "add" => \A f \in File : \A b \in Range(BlocksOf(u, f)) :
                          StepFor(u, f, b) \in Range(steps)
    BY <1>1, StepsCover
  <2>2. verb = "add" /\ u = "speckit" => "init" \in Range(steps)
    BY <1>1, AddsAre
  <2> QED BY <1>3, <2>1, <2>2 DEF AddOK
<1>11. RemoveOK'
  <2>1. verb = "remove" => \A f \in File : \A b \in Range(BlocksOf(u, f)) : f \in Range(steps)
    BY <1>1, StepsCover
  <2> QED BY <1>3, <2>1 DEF RemoveOK
<1> QED BY <1>4, <1>6, <1>9, <1>10, <1>11 DEF FInv

\* A clean-up begins.
LEMMA CleanOrphansKeeps ==
  ASSUME FInv, CleanOrphans
  PROVE  FInv'
<1>1. /\ job = NoJob
      /\ job' = [unit |-> "doctor", verb |-> "clean",
                 todo |-> <<"feature", "pointer", "runs">>, ours |-> FALSE]
      /\ UNCHANGED <<file, kit, branch, installed, claim, late, touched, original>>
      /\ swept => swept'
  BY DEF CleanOrphans, Start, Idle
<1>2. FilesOK' /\ PlaceOK' /\ \A f, b : InFile(f, b)' <=> InFile(f, b)
  BY <1>1, FilesSame DEF FInv
<1>3. Others
  BY <1>1, <1>2 DEF Others
<1>4. Exempt
  BY <1>1, NoJobOK DEF Exempt, Unit
<1>5. StepsOK'
  <2>1. SaveLast(<<"feature", "pointer", "runs">>)
    BY DEF SaveLast
  <2> QED BY <1>1, <2>1 DEF StepsOK, FInv
<1> QED BY <1>1, <1>2, <1>3, <1>4, <1>5, IdleKeeps

\* Nothing is installed, and no file has a block.
LEMMA FilesInit ==
  ASSUME Init
  PROVE  FInv
<1>1. /\ file \in Originals /\ original = file /\ kit = NoKit
      /\ branch \in {"none", "user"} /\ installed = {} /\ claim = FALSE
      /\ job = NoJob /\ late = {} /\ touched = {} /\ swept = FALSE
  BY DEF Init
<1>2. file \in [File -> Plain \cup {Absent}]
  BY <1>1, ScaffoldAssumption
<1>3. ASSUME NEW f \in File
      PROVE  /\ file[f] \in Docs(Line) \cup {Absent}
             /\ Sane(Lines(f), Blocks(f)) /\ Unhurt(Lines(f), Blocks(f))
             /\ \A b : ~Has(Lines(f), b)
             /\ \A b, k : Placed(Lines(f), b, k)
  <2> DEFINE d == file[f]
             B == Blocks(f)
  <2>1. Lines(f) = LinesIn(d) /\ d \in Plain \cup {Absent}
    BY <1>2, LinesAre
  <2> HIDE DEF d, B
  <2>2. /\ d \in Docs(Line) \cup {Absent}
        /\ Sane(LinesIn(d), B) /\ Unhurt(LinesIn(d), B) /\ \A b : ~Has(LinesIn(d), b)
        /\ \A b, k : Placed(LinesIn(d), b, k)
    BY <2>1, PlainNone DEF Unhurt
  <2> QED BY <2>1, <2>2 DEF d, B
<1>4. FilesOK
  BY <1>1, <1>2, <1>3 DEF FilesOK
<1>5. PlaceOK
  BY <1>3 DEF PlaceOK, File
<1>6. StepsOK
  <2>1. SaveLast(NoJob.todo)
    BY NoJobOK DEF SaveLast
  <2> QED BY <1>1, <2>1, NoJobOK DEF StepsOK
<1>7. AddOK /\ RemoveOK
  BY <1>1, NoJobOK DEF AddOK, RemoveOK
<1>8. InstallOK
  BY <1>1 DEF InstallOK
<1>9. AbsentOK
  BY <1>3 DEF AbsentOK, InFile
<1> QED BY <1>4, <1>5, <1>6, <1>7, <1>8, <1>9 DEF FInv

\* Every step keeps the invariant of the files.
LEMMA FilesNext ==
  ASSUME IInv, FInv, [Next]_vars
  PROVE  FInv'
<1>1. CASE UserEdits \/ UserSpecifies
  BY <1>1, UserKeeps
<1>2. ASSUME NEW u \in Unit, AddUnit(u) \/ RemoveUnit(u)
      PROVE  FInv'
  BY <1>2, StartsKeep
<1>3. CASE CleanOrphans
  BY <1>3, CleanOrphansKeeps
<1>4. CASE AddIgnore \/ AddHook \/ AddSpans \/ AddRules
  BY <1>4, AddsKeep
<1>5. CASE RemoveIgnore \/ RemoveRules \/ RemoveHooks
  BY <1>5, RemovesKeep
<1>6. CASE \/ SpecifyInit \/ TakeBranch
           \/ WipeSpecify \/ WipeSpecs \/ WipeAgent \/ (DropBranch /\ claim)
  BY <1>6, SpeckitStepsKeep
<1>7. CASE (DropBranch /\ ~claim) \/ Crash
  <2>1. GiveUp /\ UNCHANGED <<file, kit, installed, claim, swept, original, touched, branch>>
    BY <1>7 DEF DropBranch, Crash
  <2> QED BY <2>1, CutShortKeeps
<1>8. CASE CleanStep
  BY <1>8, CleanStepKeeps
<1>9. CASE Save
  <2>1. JobOK /\ StepsOK /\ AddOK /\ RemoveOK /\ InstallOK /\ AbsentOK /\ FilesOK /\ PlaceOK
    BY DEF IInv, FInv
  <2>2. StepsOK' /\ AddOK' /\ RemoveOK' /\ InstallOK' /\ AbsentOK'
    BY <1>9, <2>1, SaveKeeps
  <2>3. UNCHANGED <<file, swept, original, touched>>
    BY <1>9 DEF Save
  <2>4. FilesOK' /\ PlaceOK'
    BY <2>1, <2>3, FilesSame
  <2> QED BY <2>2, <2>4 DEF FInv
<1>10. CASE UNCHANGED vars
  BY <1>10 DEF vars, history, FInv, FilesOK, PlaceOK, StepsOK, AddOK, RemoveOK,
               InstallOK, AbsentOK, InFile, Lines, Present
<1> QED
  BY <1>1, <1>2, <1>3, <1>4, <1>5, <1>6, <1>7, <1>8, <1>9, <1>10 DEF Next, Step

----------------------------------------------------------------------------

\* The invariant of the files is inductive, given that of the jobs.
THEOREM FilesInvariant == Spec => [](IInv /\ FInv)
<1>1. Init => IInv /\ FInv
  BY InitInv, FilesInit
<1>2. (IInv /\ FInv) /\ [Next]_vars => (IInv /\ FInv)'
  BY NextInv, FilesNext
<1> QED
  BY <1>1, <1>2, PTL DEF Spec

\* The files are lines that the program knows, and the manifest's claims and the
\* job are of their types.
THEOREM TypesHold == Spec => []TypeOK
<1>1. IInv /\ FInv => TypeOK
  BY FilesShow
<1> QED
  BY <1>1, FilesInvariant, PTL

\* A unit that is in the manifest, and at rest, has every one of its blocks once and
\* whole, or SpecKit's files: after any number of adds and removes of it and of the
\* others, each of them killed anywhere and repeated, and wherever the user added lines;
\* in every file that no write, of whatever unit, was cut short in, and that could
\* always be read.
THEOREM InstalledBlocks == Spec => []InstalledThere
<1>1. IInv /\ FInv => InstalledThere
  BY FilesShow
<1> QED
  BY <1>1, FilesInvariant, PTL

\* A unit that is not in the manifest, and at rest, has left no line of a block.
THEOREM RemovedBlocks == Spec => []NothingLeft
<1>1. IInv /\ FInv => NothingLeft
  BY FilesShow
<1> QED
  BY <1>1, FilesInvariant, PTL

\* Every hook lies below the key that it was added for, whatever came and went around
\* it; that of ears-linter until claude-code-deploy sweeps the keys.
THEOREM HooksStay == Spec => []HooksPlaced
<1>1. IInv /\ FInv => HooksPlaced
  BY FilesShow
<1> QED
  BY <1>1, FilesInvariant, PTL

\* The user's troubles are counted.
LEMMA TroubleNext ==
  ASSUME trouble \in Nat, [Next]_vars
  PROVE  trouble' \in Nat
<1>1. ASSUME \/ UserEdits \/ UserSpecifies \/ CleanOrphans \/ Crash \/ UNCHANGED vars
             \/ \E u \in Unit : AddUnit(u) \/ RemoveUnit(u)
      PROVE  trouble' \in {trouble, trouble + 1}
  BY <1>1 DEF UserEdits, UserSpecifies, CleanOrphans, AddUnit, RemoveUnit, Start, Crash,
              vars, history
<1>2. ASSUME \/ AddIgnore \/ AddHook \/ AddSpans \/ AddRules
             \/ RemoveIgnore \/ RemoveRules \/ RemoveHooks
      PROVE  trouble' \in {trouble, trouble + 1}
  BY <1>2 DEF AddIgnore, AddHook, AddSpans, AddRules, RemoveIgnore, RemoveRules,
              RemoveHooks, Leave, Write, CutShort
<1>3. ASSUME \/ SpecifyInit \/ TakeBranch \/ WipeSpecify \/ WipeSpecs \/ WipeAgent
             \/ DropBranch \/ CleanStep \/ Save
      PROVE  trouble' \in {trouble, trouble + 1}
  BY <1>3 DEF SpecifyInit, TakeBranch, WipeSpecify, WipeSpecs, WipeAgent, DropBranch,
              CleanStep, Save, history
<1>4. trouble' \in {trouble, trouble + 1}
  BY <1>1, <1>2, <1>3 DEF Next, Step
<1> QED BY <1>4

\* No step of a command but SpecKit's own drops, doubles or reorders a line of the
\* user's, and none deletes a file that holds one: in every file that can be read,
\* but for the write that is cut short.
THEOREM UsersKeepLines == Spec => UserLinesKept
<1> DEFINE Kept == \A f \in File :
       (/\ ~Idle /\ job.unit # "speckit"
        /\ Readable(f) /\ file'[f] # file[f] /\ trouble' = trouble) =>
         Mine(f)' = Mine(f)
<1>1. ASSUME IInv, FInv, trouble \in Nat, [Next]_vars
      PROVE  Kept
  <2>1. CASE UNCHANGED file
    BY <2>1
  <2>2. CASE UserEdits
    BY <2>2 DEF UserEdits
  <2>3. CASE AddIgnore \/ AddHook \/ AddSpans \/ AddRules
    BY <1>1, <2>3, AddsKeep DEF Safe
  <2>4. CASE RemoveIgnore \/ RemoveRules \/ RemoveHooks
    BY <1>1, <2>4, RemovesKeep DEF Safe
  <2>5. CASE SpecifyInit \/ WipeSpecify \/ WipeAgent
    BY <1>1, <2>5, SpeckitStepsKeep
  <2>6. ASSUME \/ UserSpecifies \/ CleanOrphans
               \/ \E u \in Unit : AddUnit(u) \/ RemoveUnit(u)
               \/ UNCHANGED vars
        PROVE  UNCHANGED file
    BY <2>6 DEF UserSpecifies, CleanOrphans, AddUnit, RemoveUnit, Start, vars
  <2>7. ASSUME TakeBranch \/ WipeSpecs \/ DropBranch \/ CleanStep \/ Save \/ Crash
        PROVE  UNCHANGED file
    BY <2>7 DEF TakeBranch, WipeSpecs, DropBranch, CleanStep, Save, Crash
  <2> QED
    BY <1>1, <2>1, <2>2, <2>3, <2>4, <2>5, <2>6, <2>7 DEF Next, Step
<1>2. [][Kept]_vars => UserLinesKept
  BY PTL DEF UserLinesKept
<1>3. Init => trouble \in Nat
  BY DEF Init
<1>4. trouble \in Nat /\ [Next]_vars => (trouble \in Nat)'
  BY TroubleNext
<1>5. Spec => [](trouble \in Nat)
  BY <1>3, <1>4, PTL DEF Spec
<1> QED
  BY <1>1, <1>2, <1>5, FilesInvariant, PTL DEF Spec, UserLinesKept

----------------------------------------------------------------------------
(* Blank lines, once more: the files that units leave alone. *)

\* TrimEnd leaves a sequence alone just if it does not end with a blank line.
LEMMA TrimmedSame ==
  ASSUME NEW S, NEW s, s \in Seq(S)
  PROVE  TrimEnd(s) = s <=> Trimmed(s)
<1>1. PICK m \in 0..Len(s) :
           /\ TrimEnd(s) = SubSeq(s, 1, m)
           /\ Trimmed(TrimEnd(s))
           /\ \A i \in DOMAIN s : s[i] # Blank => i <= m
  BY TrimEndIs
<1>2. ASSUME Trimmed(s)
      PROVE  TrimEnd(s) = s
  <2>0. Len(s) \in Nat /\ DOMAIN s = 1..Len(s)
    OBVIOUS
  <2>1. m = Len(s)
    <3>1. CASE s = << >>
      BY <1>1, <3>1
    <3>2. CASE s # << >>
      <4>1. Len(s) \in DOMAIN s /\ s[Len(s)] # Blank
        BY <1>2, <3>2 DEF Trimmed
      <4>2. Len(s) <= m
        BY <1>1, <4>1
      <4>3. Len(s) \in Nat /\ m \in 0..Len(s)
        BY <2>0
      <4> QED BY ONLY <4>2, <4>3
    <3> QED BY <3>1, <3>2
  <2>2. SubSeq(s, 1, Len(s)) = s
    OBVIOUS
  <2> QED BY <1>1, <2>1, <2>2
<1> QED BY <1>1, <1>2

\* No two blank lines follow each other.
Collapsed(s) == \A i \in DOMAIN s : i > 1 => ~(s[i] = Blank /\ s[i - 1] = Blank)

\* Collapse leaves just those sequences alone.
LEMMA CollapsedSame ==
  ASSUME NEW S, NEW s, s \in Seq(S)
  PROVE  Collapse(s) = s <=> Collapsed(s)
<1> DEFINE P == {i \in DOMAIN s : ~(s[i] = Blank /\ i > 1 /\ s[i-1] = Blank)}
<1>1. P \in SUBSET (1..Len(s)) /\ DOMAIN s = 1..Len(s)
  OBVIOUS
<1>2. Collapse(s) = Only(s, P)
  BY DEF Collapse
<1>3. P = DOMAIN s <=> Collapsed(s)
  BY DEF Collapsed
<1> HIDE DEF P
<1>4. \A Q : Q \in SUBSET (1..Len(s)) => (Only(s, Q) = s <=> Q = 1..Len(s))
  <2> TAKE Q
  <2> HAVE Q \in SUBSET (1..Len(s))
  <2> QED BY OnlyAll
<1> QED BY <1>1, <1>2, <1>3, <1>4

----------------------------------------------------------------------------
(* Files of text: units append, and what they append goes. *)

\* l is s, and blank lines and blocks behind it.
Extends(l, s) ==
  /\ Len(s) <= Len(l)
  /\ \A i \in DOMAIN s : l[i] = s[i]
  /\ \A i \in DOMAIN l : i > Len(s) => l[i] = Blank \/ IsMarked(l[i])

\* s has nothing that could be taken for a block, or be tidied at its end.
Clean(s) == Trimmed(s) /\ \A i \in DOMAIN s : ~IsMarked(s[i])

\* What is put behind stays behind.
LEMMA ExtendsJoin ==
  ASSUME NEW S, NEW l, NEW s, NEW t, l \in Seq(S), s \in Seq(S), t \in Seq(S), Extends(l, s),
         \A i \in DOMAIN t : t[i] = Blank \/ IsMarked(t[i])
  PROVE  Extends(l \o t, s)
<1> DEFINE r == l \o t
<1>1. /\ Len(l) \in Nat /\ DOMAIN l = 1..Len(l) /\ Len(s) \in Nat /\ DOMAIN s = 1..Len(s)
      /\ Len(t) \in Nat /\ DOMAIN t = 1..Len(t)
      /\ Len(r) = Len(l) + Len(t) /\ DOMAIN r = 1..Len(r)
      /\ \A i \in 1..Len(l) : r[i] = l[i]
      /\ \A i \in 1..Len(r) : i > Len(l) => r[i] = t[i - Len(l)]
  OBVIOUS
<1>2. Len(s) <= Len(l) /\ \A i \in 1..Len(s) : l[i] = s[i]
  BY <1>1 DEF Extends
<1>3. \A i \in 1..Len(l) : i > Len(s) => l[i] = Blank \/ IsMarked(l[i])
  BY <1>1 DEF Extends
<1> HIDE DEF r
<1>4. Len(s) <= Len(r) /\ \A i \in DOMAIN s : r[i] = s[i]
  <2>1. \A i \in 1..Len(s) : i \in 1..Len(l)
    BY <1>1, <1>2
  <2> QED BY <1>1, <1>2, <2>1
<1>5. ASSUME NEW i \in DOMAIN r, i > Len(s)
      PROVE  r[i] = Blank \/ IsMarked(r[i])
  <2>1. CASE i <= Len(l)
    BY <1>1, <1>3, <1>5, <2>1
  <2>2. CASE i > Len(l)
    <3>1. i - Len(l) \in DOMAIN t
      BY <1>1, <2>2
    <3> QED BY <1>1, <2>2, <3>1
  <2> QED BY <1>1, <2>1, <2>2
<1> QED BY <1>4, <1>5 DEF Extends, r

\* What is in front stays where nothing of it goes.
LEMMA ExtendsThins ==
  ASSUME NEW S, NEW r, NEW l, NEW s, NEW P, Thins(S, r, l, P), s \in Seq(S), Extends(l, s),
         1..Len(s) \subseteq P
  PROVE  Extends(r, s)
<1>1. /\ Len(l) \in Nat /\ DOMAIN l = 1..Len(l) /\ Len(s) \in Nat /\ DOMAIN s = 1..Len(s)
      /\ P \in SUBSET (1..Len(l))
  BY DEF Thins
<1>2. PICK e : Enumerates(e, P) /\ r = [k \in DOMAIN e |-> l[e[k]]]
  BY DEF Thins
<1>3. P \in SUBSET (Nat \ {0}) /\ P \in SUBSET Nat
  BY <1>1
<1>4. /\ \A k \in 1..Len(s) : k \in DOMAIN e /\ e[k] = k
      /\ \A k \in DOMAIN e : k > Len(s) => e[k] > Len(s)
  BY ONLY <1>1, <1>2, <1>3, 1..Len(s) \subseteq P, PrefixStays
<1>5. /\ Len(e) \in Nat /\ DOMAIN e = 1..Len(e)
      /\ \A k \in DOMAIN e : k \in Nat /\ e[k] \in P /\ e[k] \in Nat
  BY <1>2, <1>3, EnumeratesType
<1>6. Len(r) = Len(e) /\ DOMAIN r = DOMAIN e /\ \A k \in DOMAIN e : r[k] = l[e[k]]
  BY <1>2, <1>5
<1>7. Len(s) <= Len(r)
  <2>1. CASE Len(s) = 0
    BY <1>5, <1>6, <2>1
  <2>2. CASE Len(s) # 0
    <3>1. Len(s) \in DOMAIN e
      BY <1>1, <1>4, <2>2
    <3> QED BY <1>5, <1>6, <3>1
  <2> QED BY <2>1, <2>2
<1>8. \A i \in DOMAIN s : r[i] = s[i]
  <2> TAKE i \in DOMAIN s
  <2>1. i \in DOMAIN e /\ e[i] = i /\ l[i] = s[i]
    BY <1>1, <1>4 DEF Extends
  <2> QED BY <1>6, <2>1
<1>9. \A i \in DOMAIN r : i > Len(s) => r[i] = Blank \/ IsMarked(r[i])
  <2> TAKE i \in DOMAIN r
  <2> HAVE i > Len(s)
  <2>1. e[i] > Len(s) /\ e[i] \in DOMAIN l /\ r[i] = l[e[i]]
    BY <1>1, <1>4, <1>5, <1>6
  <2> QED BY <2>1 DEF Extends
<1> QED BY <1>7, <1>8, <1>9 DEF Extends

\* A sequence extends itself.
LEMMA ExtendsSelf ==
  ASSUME NEW S, NEW s, s \in Seq(S)
  PROVE  Extends(s, s)
<1>1. Len(s) \in Nat /\ DOMAIN s = 1..Len(s)
  OBVIOUS
<1> QED BY <1>1 DEF Extends

\* A new block lies behind all that was there.
LEMMA AppendExtends ==
  ASSUME NEW S, NEW B, NEW d, NEW b, NEW s, d \in Docs(S), b \in B, Speaks(S, B), s \in Seq(S),
         Extends(d.lines, s)
  PROVE  LET r == AppendBlock(d, b)
         IN  r.ended /\ r.lines # << >> /\ Trimmed(r.lines) /\ Extends(r.lines, s)
<1> DEFINE t == Gap(d) \o Block(b)
           l == d.lines \o t
<1>1. AppendBlock(d, b) = Doc(l, TRUE)
  BY AppendGap
<1>2. d.lines \in Seq(S) /\ Gap(d) \in Seq(S) /\ Quiet(Gap(d))
  BY GapQuiet DEF Docs, IsDoc, Speaks
<1>3. /\ t \in Seq(S) /\ Len(t) = Len(Gap(d)) + 3
      /\ \A i \in DOMAIN Gap(d) : t[i] = Gap(d)[i]
      /\ t[Len(Gap(d)) + 1] = Begin(b)
      /\ t[Len(Gap(d)) + 2] = Body(b)
      /\ t[Len(Gap(d)) + 3] = End(b)
  BY <1>2, Fenced
<1>4. /\ Len(Gap(d)) \in Nat /\ DOMAIN Gap(d) = 1..Len(Gap(d))
      /\ \A i \in DOMAIN Gap(d) : Gap(d)[i] = Blank
  <2>1. CASE d = Nothing
    <3>1. Gap(d) = << >>
      BY <2>1 DEF Gap
    <3> QED BY <3>1
  <2>2. CASE d # Nothing
    <3>1. Gap(d) = <<Blank>>
      BY <2>2 DEF Gap
    <3> QED BY <3>1
  <2> QED BY <2>1, <2>2
<1>5. IsMarked(Begin(b)) /\ IsMarked(Body(b)) /\ IsMarked(End(b)) /\ End(b) # Blank
  <2>1. End(b)[1] # Blank[1]
    BY Roles
  <2> QED BY <2>1, Roles DEF IsMarked
<1> DEFINE g == Gap(d)
<1> HIDE DEF t, g
<1>6. \A i \in DOMAIN t : t[i] = Blank \/ IsMarked(t[i])
  <2> TAKE i \in DOMAIN t
  <2>0. DOMAIN t = 1..(Len(g) + 3) /\ Len(g) \in Nat
    BY <1>3, <1>4 DEF g
  <2>1. i \in 1..Len(g) \/ i = Len(g) + 1 \/ i = Len(g) + 2 \/ i = Len(g) + 3
    BY <2>0
  <2> QED BY <1>3, <1>4, <1>5, <2>1 DEF g
<1>7. Extends(l, s)
  BY <1>2, <1>3, <1>6, ExtendsJoin
<1>8. l # << >> /\ l[Len(l)] = End(b)
  <2> DEFINE a == d.lines
  <2>0. a \in Seq(S) /\ t \in Seq(S)
    BY <1>2, <1>3
  <2> HIDE DEF a
  <2>1. /\ Len(a \o t) = Len(a) + Len(t) /\ Len(a) \in Nat /\ Len(t) \in Nat
        /\ \A i \in 1..Len(t) : (a \o t)[Len(a) + i] = t[i]
    BY <2>0
  <2>2. Len(t) \in 1..Len(t) /\ t[Len(t)] = End(b)
    BY ONLY <1>3, <1>4, <2>1 DEF g
  <2>3. l = a \o t
    BY DEF a
  <2> HIDE DEF l
  <2>4. Len(l) # 0 /\ l[Len(l)] = End(b)
    BY ONLY <2>1, <2>2, <2>3
  <2> QED BY <2>4
<1> HIDE DEF l
<1> QED BY <1>1, <1>5, <1>7, <1>8 DEF Doc, Trimmed

\* A block is not among the lines that are not a unit's.
LEMMA BlockBehind ==
  ASSUME NEW S, NEW d, NEW b, NEW i, NEW s, d \in Docs(S), s \in Seq(S), Extends(d.lines, s),
         Clean(s), i \in DOMAIN d.lines, FoundAt(d, b, i)
  PROVE  1..Len(s) \subseteq (1..Len(d.lines)) \ (i..(i + 2))
<1>1. /\ d.lines \in Seq(S) /\ Len(d.lines) \in Nat /\ DOMAIN d.lines = 1..Len(d.lines)
      /\ Len(s) \in Nat /\ DOMAIN s = 1..Len(s)
  BY DEF Docs, IsDoc
<1>2. d.lines[i] = Begin(b)
  BY DEF FoundAt
<1>3. IsMarked(d.lines[i])
  BY <1>2, Roles DEF IsMarked
<1>4. ~(i <= Len(s))
  <2> SUFFICES ASSUME i <= Len(s)
               PROVE  FALSE
    OBVIOUS
  <2>1. i \in DOMAIN s
    BY <1>1
  <2> QED BY <1>3, <2>1 DEF Clean, Extends
<1>5. Len(s) <= Len(d.lines)
  BY DEF Extends
<1>6. i \in Nat
  BY <1>1
<1> QED BY ONLY <1>1, <1>4, <1>5, <1>6

\* What TrimEnd takes lies behind.
LEMMA TrimExtends ==
  ASSUME NEW S, NEW l, NEW s, l \in Seq(S), s \in Seq(S), Extends(l, s), Trimmed(s)
  PROVE  Extends(TrimEnd(l), s) /\ TrimEnd(l) \in Seq(S) /\ Trimmed(TrimEnd(l))
<1>1. PICK m \in 0..Len(l) :
           /\ TrimEnd(l) = SubSeq(l, 1, m)
           /\ Trimmed(TrimEnd(l))
           /\ \A i \in DOMAIN l : l[i] # Blank => i <= m
  BY TrimEndIs
<1>2. /\ Len(l) \in Nat /\ DOMAIN l = 1..Len(l) /\ Len(s) \in Nat /\ DOMAIN s = 1..Len(s)
      /\ m \in Nat /\ Len(s) <= Len(l)
  BY DEF Extends
<1>3. 1..Len(s) \subseteq 1..m
  <2>1. CASE s = << >>
    BY <2>1
  <2>2. CASE s # << >>
    <3>1. Len(s) \in DOMAIN s /\ s[Len(s)] # Blank
      BY <2>2 DEF Trimmed
    <3>2. l[Len(s)] # Blank /\ Len(s) \in DOMAIN l
      BY <1>2, <3>1 DEF Extends
    <3>3. Len(s) <= m
      BY <1>1, <3>2
    <3> QED BY <1>2, <3>3
  <2> QED BY <2>1, <2>2
<1>4. Thins(S, SubSeq(l, 1, m), l, 1..m)
  BY PrefixThins
<1>5. Extends(SubSeq(l, 1, m), s)
  BY <1>3, <1>4, ExtendsThins
<1> QED BY <1>1, <1>4, <1>5, ThinsType

\* And what Collapse takes, if no two blank lines follow each other in front.
LEMMA CollapseExtends ==
  ASSUME NEW S, NEW l, NEW s, l \in Seq(S), s \in Seq(S), Extends(l, s), Collapsed(s)
  PROVE  Extends(Collapse(l), s) /\ Collapse(l) \in Seq(S)
<1> DEFINE P == {i \in DOMAIN l : ~(l[i] = Blank /\ i > 1 /\ l[i-1] = Blank)}
<1>1. /\ Len(l) \in Nat /\ DOMAIN l = 1..Len(l) /\ Len(s) \in Nat /\ DOMAIN s = 1..Len(s)
      /\ Len(s) <= Len(l)
  BY DEF Extends
<1>2. P \in SUBSET (1..Len(l))
  BY <1>1
<1>3. 1..Len(s) \subseteq P
  <2> SUFFICES ASSUME NEW i \in 1..Len(s), l[i] = Blank, i > 1, l[i - 1] = Blank
               PROVE  FALSE
    BY <1>1
  <2>1. i \in DOMAIN s /\ i - 1 \in DOMAIN s
    BY <1>1
  <2>2. s[i] = Blank /\ s[i - 1] = Blank
    BY <2>1 DEF Extends
  <2> QED BY <2>1, <2>2 DEF Collapsed
<1>4. Collapse(l) = Only(l, P)
  BY DEF Collapse
<1> HIDE DEF P
<1>5. Thins(S, Only(l, P), l, P)
  BY <1>2, OnlyThins
<1>6. Extends(Only(l, P), s)
  BY <1>3, <1>5, ExtendsThins
<1> QED BY <1>4, <1>5, <1>6, ThinsType

\* A block that goes leaves what was in front of all blocks.
LEMMA RemoveExtends ==
  ASSUME NEW S, NEW B, NEW d, NEW b, NEW s, d \in Docs(S), b \in B, Whole(d.lines, B),
         Has(d.lines, b), s \in Seq(S), Extends(d.lines, s), Clean(s)
  PROVE  /\ LET r == Strip(d, b)
            IN  /\ Extends(r.lines, s) /\ Trimmed(r.lines)
                /\ r.lines # << >> => r.ended
         /\ Collapsed(s) =>
              LET r == RemoveBlock(d, b)
              IN  /\ Extends(r.lines, s) /\ Trimmed(r.lines)
                  /\ r.lines # << >> /\ d.ended => r.ended
<1>1. PICK i \in DOMAIN d.lines : FoundAt(d, b, i)
  BY Found
<1> DEFINE c == Cut(d.lines, i, i + 2)
<1>2. d.lines \in Seq(S) /\ i \in 1..Len(d.lines) /\ i + 2 \in i..Len(d.lines)
  <2>1. d.lines \in Seq(S) /\ i + 2 \in DOMAIN d.lines
    BY <1>1 DEF Docs, IsDoc, FoundAt
  <2> QED BY <2>1
<1>3. Thins(S, c, d.lines, (1..Len(d.lines)) \ (i..(i + 2)))
  BY <1>2, CutThins
<1>4. 1..Len(s) \subseteq (1..Len(d.lines)) \ (i..(i + 2))
  BY <1>1, BlockBehind
<1>5. Extends(c, s) /\ c \in Seq(S)
  BY <1>3, <1>4, ExtendsThins, ThinsType
<1> HIDE DEF c
<1>6. Trimmed(s)
  BY DEF Clean
<1>7. Strip(d, b) = Doc(TrimEnd(c), TrimEnd(c) # << >>)
  BY <1>1, StripIs DEF c
<1>8. Extends(TrimEnd(c), s) /\ Trimmed(TrimEnd(c))
  BY <1>5, <1>6, TrimExtends
<1>9. \A q, e : Doc(q, e).lines = q /\ Doc(q, e).ended = e
  BY DEF Doc
<1>10. ASSUME Collapsed(s)
       PROVE  LET r == RemoveBlock(d, b)
              IN  /\ Extends(r.lines, s) /\ Trimmed(r.lines)
                  /\ r.lines # << >> /\ d.ended => r.ended
  <2> DEFINE q == TrimEnd(Collapse(c))
  <2>1. RemoveBlock(d, b) = Doc(q, d.ended /\ q # << >>)
    BY <1>1, RemoveBlockIs DEF c
  <2>2. Extends(Collapse(c), s) /\ Collapse(c) \in Seq(S)
    BY <1>5, <1>10, CollapseExtends
  <2>3. Extends(q, s) /\ Trimmed(q)
    BY <1>6, <2>2, TrimExtends
  <2> HIDE DEF q
  <2>4. RemoveBlock(d, b).lines = q
    BY <1>9, <2>1
  <2>5. ASSUME q # << >>, d.ended
        PROVE  RemoveBlock(d, b).ended
    <3>1. RemoveBlock(d, b) = Doc(q, TRUE)
      BY <2>1, <2>5
    <3> QED BY <1>9, <3>1
  <2> QED BY <2>3, <2>4, <2>5
<1>11. LET r == Strip(d, b)
       IN  /\ Extends(r.lines, s) /\ Trimmed(r.lines)
           /\ r.lines # << >> => r.ended
  <2> DEFINE q == TrimEnd(c)
  <2> HIDE DEF q
  <2>1. Strip(d, b).lines = q
    BY <1>7, <1>9 DEF q
  <2>2. ASSUME q # << >>
        PROVE  Strip(d, b).ended
    <3>1. Strip(d, b) = Doc(q, TRUE)
      BY <1>7, <2>2 DEF q
    <3> QED BY <1>9, <3>1
  <2> QED BY <1>8, <2>1, <2>2 DEF q
<1> QED BY <1>10, <1>11

\* Where no line of a unit's is left, and none is blank at the end, nothing is behind.
LEMMA ExtendsDone ==
  ASSUME NEW S, NEW l, NEW s, l \in Seq(S), s \in Seq(S), Extends(l, s), Trimmed(l),
         \A i \in DOMAIN l : ~IsMarked(l[i])
  PROVE  l = s
<1>1. /\ Len(l) \in Nat /\ DOMAIN l = 1..Len(l) /\ Len(s) \in Nat /\ DOMAIN s = 1..Len(s)
      /\ Len(s) <= Len(l)
  BY DEF Extends
<1>2. ~(Len(s) < Len(l))
  <2> SUFFICES ASSUME Len(s) < Len(l)
               PROVE  FALSE
    OBVIOUS
  <2>1. Len(l) \in DOMAIN l /\ Len(l) > Len(s) /\ l # << >>
    BY <1>1
  <2>2. l[Len(l)] # Blank /\ ~IsMarked(l[Len(l)])
    BY <2>1 DEF Trimmed
  <2> QED BY <2>1, <2>2 DEF Extends
<1>3. Len(l) = Len(s)
  <2>1. Len(l) \in Nat /\ Len(s) \in Nat /\ Len(s) <= Len(l)
    BY <1>1
  <2> DEFINE m == Len(l)
             n == Len(s)
  <2>2. m \in Nat /\ n \in Nat /\ n <= m /\ ~(n < m)
    BY <2>1, <1>2
  <2> HIDE DEF m, n
  <2>3. m = n
    BY ONLY <2>2
  <2> QED BY <2>3 DEF m, n
<1>4. \A i \in DOMAIN s : l[i] = s[i]
  BY DEF Extends
<1> QED BY <1>1, <1>3, <1>4

\* d is o, or what units have made of it by what they put behind.
Grew(d, o) ==
  \/ d = o
  \/ /\ d # Absent /\ d.ended /\ d.lines # << >> /\ Trimmed(d.lines)
     /\ Extends(d.lines, LinesIn(o))

\* A neat file to which units only append.
TailOK(f) == Neat(f) => Grew(file[f], original[f])

\* Neat speaks of the original only.
LEMMA NeatSame ==
  ASSUME UNCHANGED original
  PROVE  \A f : Neat(f)' <=> Neat(f)
BY DEF Neat

\* A neat file of text.
LEMMA NeatText ==
  ASSUME NEW f, FilesOK, f \in File, f # "hooks", Neat(f)
  PROVE  /\ LinesIn(original[f]) \in Seq(Line)
         /\ Clean(LinesIn(original[f]))
         /\ f # "rules" => Collapsed(LinesIn(original[f]))
         /\ original[f] # Absent => original[f].lines # << >>
         /\ \A b : ~Has(LinesIn(original[f]), b)
<1> DEFINE o == original[f]
<1>1. o \in Plain \cup {Absent}
  BY DEF FilesOK
<1>2. \A b : ~Has(LinesIn(o), b)
  BY <1>1, PlainNone
<1>3. CASE o = Absent
  <2>1. LinesIn(o) = << >>
    BY <1>3 DEF LinesIn
  <2>2. << >> \in Seq(Line) /\ Clean(<< >>) /\ Collapsed(<< >>)
    BY DEF Clean, Collapsed, Trimmed
  <2> HIDE DEF o
  <2>3. LinesIn(o) \in Seq(Line) /\ Clean(LinesIn(o)) /\ Collapsed(LinesIn(o))
    BY <2>1, <2>2
  <2> QED BY <1>2, <1>3, <2>3 DEF o
<1>4. CASE o # Absent
  <2>1. LinesIn(o) = o.lines /\ o \in Plain
    BY <1>1, <1>4 DEF LinesIn
  <2>2. /\ o.lines # << >> /\ o.lines = TrimEnd(o.lines)
        /\ f # "rules" => o.lines = Collapse(o.lines)
    BY <1>4 DEF Neat
  <2>3. o.lines \in Seq(Line) /\ \A i \in DOMAIN o.lines : ~IsMarked(o.lines[i])
    BY <2>1 DEF Plain, Docs, IsDoc
  <2> HIDE DEF o
  <2>4. Trimmed(o.lines) /\ (f # "rules" => Collapsed(o.lines))
    BY <2>2, <2>3, TrimmedSame, CollapsedSame
  <2>5. Clean(o.lines)
    BY <2>3, <2>4 DEF Clean
  <2> QED BY <1>2, <2>1, <2>2, <2>3, <2>4, <2>5 DEF o
<1> QED BY <1>3, <1>4

\* While nobody else has touched the files, every block that is there is whole, and
\* what is there can be read.
LEMMA Untouched ==
  ASSUME FilesOK, touched = {}, NEW f, f \in File
  PROVE  /\ Whole(Lines(f), Blocks(f)) /\ Declared(Lines(f), Blocks(f))
         /\ Read(f) \in Docs(Line) /\ Whole(Read(f).lines, Blocks(f))
         /\ Readable(f) <=> Present(f)
         /\ Present(f) => Read(f) = file[f] /\ Lines(f) = file[f].lines
         /\ ~Present(f) /\ f # "hooks" => Read(f) = Nothing
<1>1. /\ file[f] \in Docs(Line) \cup {Absent}
      /\ Sane(Lines(f), Blocks(f)) /\ Unhurt(Lines(f), Blocks(f))
  BY DEF FilesOK
<1>2. Whole(Lines(f), Blocks(f)) /\ Declared(Lines(f), Blocks(f))
  BY <1>1, UnhurtWhole DEF Sane
<1>3. Readable(f) <=> Present(f)
  BY <1>1 DEF Unhurt, Lacks, Readable, Present, Holds, At, Lines
<1>4. Read(f) \in Docs(Line) /\ Whole(Read(f).lines, Usable(f))
  BY ReadOK
<1>5. Usable(f) = Blocks(f)
  <2>1. \A b : Torn(Read(f).lines, b) => Torn(Lines(f), b)
    BY <1>1, ReadIs DEF Unhurt
  <2> QED BY <1>1, <2>1 DEF Usable, Sound, Unhurt
<1>6. Present(f) => Read(f) = file[f] /\ Lines(f) = file[f].lines
  BY <1>3 DEF Read, Lines
<1>7. ~Present(f) /\ f # "hooks" => Read(f) = Nothing
  BY <1>3 DEF Read
<1> QED BY <1>2, <1>3, <1>4, <1>5, <1>6, <1>7

\* A write that is not cut short.
LEMMA NotCut ==
  ASSUME NEW f, NEW new, Write(f, new), touched' = {}
  PROVE  /\ \/ new = Refused /\ GiveUp /\ file' = file
            \/ new # Refused /\ Advance /\ file' = [file EXCEPT ![f] = new]
         /\ original' = original
<1>1. touched' # touched \cup {f}
  OBVIOUS
<1> QED BY <1>1 DEF Write, CutShort

\* An add appends a block, or finds it there.
LEMMA AddGrew ==
  ASSUME NEW f, NEW b, NEW r, FilesOK, touched = {}, f \in File, f # "hooks", Neat(f), TailOK(f),
         b \in Blocks(f), r \in {TextAdd(Read(f), b), Upsert(Read(f), b)}
  PROVE  Grew(r, original[f])
<1> DEFINE d == Read(f)
           o == original[f]
           B == Blocks(f)
           s == LinesIn(o)
<1>1. d \in Docs(Line) /\ Whole(d.lines, B) /\ Speaks(Line, B)
  BY Untouched, LineSpeaks
<1>2. s \in Seq(Line) /\ Clean(s) /\ \A c : ~Has(s, c)
  BY NeatText
<1>3. Grew(file[f], o)
  BY DEF TailOK
<1>4. (~Present(f) /\ d = Nothing) \/ (Present(f) /\ d = file[f])
  BY Untouched
<1>5. CASE Has(d.lines, b)
  <2>1. r = d
    <3>1. TextAdd(d, b) = d
      BY <1>5, HoldsHas DEF TextAdd
    <3>2. Upsert(d, b) = d
      <4> HIDE DEF d, B
      <4> QED BY <1>1, <1>5, UpsertSame, b \in B DEF B
    <3> QED BY <3>1, <3>2
  <2>2. d # Nothing
    <3>1. ~Has(Nothing.lines, b)
      BY DEF Nothing, Doc, Has
    <3> QED BY <1>5, <3>1
  <2>3. d = file[f]
    BY <1>4, <2>2
  <2> QED BY <1>3, <2>1, <2>3
<1>6. CASE ~Has(d.lines, b)
  <2>1. r = AppendBlock(d, b)
    <3>1. TextAdd(d, b) = AppendBlock(d, b)
      BY <1>6, HoldsHas DEF TextAdd
    <3>2. Upsert(d, b) = AppendBlock(d, b)
      <4>1. At(d, Begin(b)) = {}
        BY <1>6, HoldsHas DEF Holds
      <4>2. Cardinality({}) = 0
        BY FS_EmptySet
      <4> QED BY <4>1, <4>2 DEF Upsert
    <3> QED BY <3>1, <3>2
  <2>2. Extends(d.lines, s)
    <3>1. CASE file[f] = o
      <4>1. d.lines = s
        BY <1>4, <3>1 DEF LinesIn, Present, Nothing, Doc
      <4> HIDE DEF d, s
      <4> QED BY <1>2, <4>1, ExtendsSelf
    <3>2. CASE file[f] # o
      <4>1. file[f] # Absent /\ Extends(file[f].lines, s)
        BY <1>3, <3>2 DEF Grew
      <4> QED BY <1>4, <4>1 DEF Present
    <3> QED BY <3>1, <3>2
  <2> HIDE DEF d, B, s
  <2>3. LET q == AppendBlock(d, b)
        IN  q.ended /\ q.lines # << >> /\ Trimmed(q.lines) /\ Extends(q.lines, s)
    BY <1>1, <1>2, <2>2, AppendExtends DEF B
  <2>4. r.ended /\ r.lines # << >> /\ Trimmed(r.lines) /\ Extends(r.lines, s)
    BY <2>1, <2>3
  <2>5. r \in Docs(Line)
    <3>1. Gains(AppendBlock(d, b), d, Line, B, b)
      BY <1>1, <1>6, AppendGains DEF B
    <3> QED BY <2>1, <3>1 DEF Gains
  <2>6. r # Absent
    BY <2>5, InDocs
  <2> QED BY <2>4, <2>6 DEF Grew, s
<1> QED BY <1>5, <1>6

\* A remove takes a block and tidies up behind the original's lines.
LEMMA RemoveGrew ==
  ASSUME NEW f, NEW b, NEW r, FilesOK, touched = {}, f \in File, f # "hooks", Neat(f), TailOK(f),
         b \in Blocks(f), Present(f),
         (f # "rules" /\ r = RemoveBlock(file[f], b)) \/ r = Strip(file[f], b)
  PROVE  /\ r.lines = << >> => original[f] = Absent
         /\ r.lines # << >> => Grew(r, original[f])
<1> DEFINE d == file[f]
           o == original[f]
           B == Blocks(f)
           s == LinesIn(o)
<1>1. d \in Docs(Line) /\ Whole(d.lines, B)
  BY Untouched DEF FilesOK, Present
<1>2. /\ s \in Seq(Line) /\ Clean(s) /\ (f # "rules" => Collapsed(s))
      /\ (o # Absent => o.lines # << >>)
      /\ \A c : ~Has(s, c)
  BY NeatText
<1>3. Grew(d, o)
  BY DEF TailOK
<1>4. d # Absent
  BY DEF Present
<1>5. CASE ~Has(d.lines, b)
  <2>1. r = d
    BY <1>5, HoldsHas DEF RemoveBlock, Strip
  <2>2. d.lines # << >>
    BY <1>2, <1>3, <1>4 DEF Grew
  <2> QED BY <1>3, <2>1, <2>2
<1>6. CASE Has(d.lines, b)
  <2>1. d # o
    <3>1. o # Absent => s = o.lines
      BY DEF LinesIn
    <3> QED BY <1>2, <1>4, <1>6, <3>1
  <2>2. d.ended /\ Extends(d.lines, s) /\ d.ended \in BOOLEAN
    BY <1>1, <1>3, <2>1 DEF Grew, Docs, IsDoc
  <2> HIDE DEF d, B, s, o
  <2>3. /\ LET q == Strip(d, b)
           IN  /\ Extends(q.lines, s) /\ Trimmed(q.lines)
               /\ q.lines # << >> => q.ended
        /\ Collapsed(s) =>
             LET q == RemoveBlock(d, b)
             IN  /\ Extends(q.lines, s) /\ Trimmed(q.lines)
                 /\ q.lines # << >> /\ d.ended => q.ended
    BY <1>1, <1>2, <1>6, <2>2, RemoveExtends DEF B
  <2>4. /\ Extends(r.lines, s) /\ Trimmed(r.lines)
        /\ r.lines # << >> => r.ended
    BY <1>2, <2>2, <2>3 DEF d
  <2>5. r \in Docs(Line)
    <3>1. Loses(Strip(d, b), d, Line, B, b) /\ Loses(RemoveBlock(d, b), d, Line, B, b)
      BY <1>1, StripLoses, RemoveLoses DEF B
    <3> QED BY <3>1 DEF d, Loses
  <2>6. r # Absent
    BY <2>5, InDocs
  <2>7. r.lines = << >> => o = Absent
    <3> SUFFICES ASSUME r.lines = << >>, o # Absent
                 PROVE  FALSE
      OBVIOUS
    <3>1. s # << >> /\ s \in Seq(Line)
      BY <1>2 DEF s, LinesIn
    <3>2. Len(s) <= Len(<< >>)
      BY <2>4 DEF Extends
    <3> QED BY <3>1, <3>2
  <2> QED BY <2>4, <2>6, <2>7 DEF Grew, s, o
<1> QED BY <1>5, <1>6

\* The steps on a file of text.
LEMMA TextStepsGrew ==
  ASSUME FilesOK, touched = {}, touched' = {}, TailOK("ignore"), TailOK("rules"),
         job.verb \in {"add", "remove"} /\ Head(job.todo) = "ignore" =>
           job.unit \in {"filter-state", "claude-code-deploy"},
         AddIgnore \/ AddRules \/ RemoveIgnore \/ RemoveRules
  PROVE  TailOK("ignore")' /\ TailOK("rules")'
<1>0. "ignore" \in File /\ "rules" \in File
  BY DEF File
<1>1. PICK f \in {"ignore", "rules"} : \E b \in Blocks(f) :
        \/ \E r \in {TextAdd(Read(f), b), Upsert(Read(f), b)} : Write(f, r)
        \/ \E r : /\ (f # "rules" /\ r = RemoveBlock(file[f], b)) \/ r = Strip(file[f], b)
                  /\ Leave(f, r)
  <2>1. ASSUME Head(job.todo) = "ignore", job.verb \in {"add", "remove"}
        PROVE  <<job.unit>> \in Blocks("ignore")
    <3>1. job.unit \in {"filter-state", "claude-code-deploy"}
      BY <2>1
    <3> QED BY <1>0, <3>1, BlocksAre, InBlocks DEF Unit
  <2>2. <<"rules">> \in Blocks("rules")
    <3>1. "claude-code-deploy" \in Unit
      BY DEF Unit
    <3> QED BY <1>0, <3>1, BlocksAre, InBlocks
  <2>3. CASE AddIgnore
    BY <2>1, <2>3 DEF AddIgnore, Doing
  <2>4. CASE AddRules
    BY <2>2, <2>4 DEF AddRules
  <2>5. CASE RemoveIgnore
    BY <2>1, <2>5 DEF RemoveIgnore, Doing
  <2>6. CASE RemoveRules
    BY <2>2, <2>6 DEF RemoveRules
  <2> QED BY <2>3, <2>4, <2>5, <2>6
<1>2. f \in File /\ f # "hooks"
  BY <1>0
<1>3. PICK b \in Blocks(f) :
        \/ \E r \in {TextAdd(Read(f), b), Upsert(Read(f), b)} : Write(f, r)
        \/ \E r : /\ (f # "rules" /\ r = RemoveBlock(file[f], b)) \/ r = Strip(file[f], b)
                  /\ Leave(f, r)
  BY <1>1
<1>4. PICK new : Write(f, new) /\ (Neat(f) => new = Refused \/ Grew(new, original[f]))
  <2>1. CASE \E r \in {TextAdd(Read(f), b), Upsert(Read(f), b)} : Write(f, r)
    <3>1. PICK r \in {TextAdd(Read(f), b), Upsert(Read(f), b)} : Write(f, r)
      BY <2>1
    <3>2. Neat(f) => Grew(r, original[f])
      BY <1>2, AddGrew, TailOK(f)
    <3> QED BY <3>1, <3>2
  <2>2. CASE \E r : /\ (f # "rules" /\ r = RemoveBlock(file[f], b)) \/ r = Strip(file[f], b)
                    /\ Leave(f, r)
    <3>1. PICK r : /\ (f # "rules" /\ r = RemoveBlock(file[f], b)) \/ r = Strip(file[f], b)
                   /\ Leave(f, r)
      BY <2>2
    <3>2. CASE ~Present(f)
      <4>1. Write(f, Absent)
        BY <3>1, <3>2 DEF Leave
      <4>2. Neat(f) => Grew(Absent, original[f])
        BY <1>1, <3>2 DEF TailOK, Present
      <4> QED BY <4>1, <4>2
    <3>3. CASE Present(f)
      <4>1. Neat(f) => /\ r.lines = << >> => original[f] = Absent
                       /\ r.lines # << >> => Grew(r, original[f])
        BY <1>1, <1>2, <3>1, <3>3, RemoveGrew
      <4>0. Readable(f)
        BY <1>2, <3>3, Untouched
      <4>2. Write(f, IF r # Refused /\ r.lines = << >> THEN Absent ELSE r)
        BY <3>1, <3>3, <4>0 DEF Leave
      <4>3. CASE r # Refused /\ r.lines = << >>
        <5>1. Write(f, Absent)
          BY <4>2, <4>3
        <5>2. Neat(f) => Grew(Absent, original[f])
          BY <4>1, <4>3 DEF Grew
        <5> QED BY <5>1, <5>2
      <4>4. CASE ~(r # Refused /\ r.lines = << >>)
        <5>1. Write(f, r)
          BY <4>2, <4>4
        <5> QED BY <4>1, <4>4, <5>1
      <4> QED BY <4>3, <4>4
    <3> QED BY <3>2, <3>3
  <2> QED BY <1>3, <2>1, <2>2
<1>8. /\ original' = original
      /\ \/ new = Refused /\ file' = file
         \/ new # Refused /\ file' = [file EXCEPT ![f] = new]
  BY <1>4, NotCut
<1>5. \A g : Neat(g)' <=> Neat(g)
  BY <1>8, NeatSame
<1>6. \A g \in File : g # f => file'[g] = file[g]
  BY <1>8 DEF FilesOK
<1>7. Neat(f) => Grew(file'[f], original[f])
  <2>1. CASE new = Refused
    BY <1>1, <1>8, <2>1 DEF TailOK
  <2>2. CASE new # Refused
    BY <1>2, <1>4, <1>8, <2>2 DEF FilesOK
  <2> QED BY <2>1, <2>2
<1>9. \A g \in {"ignore", "rules"} : Neat(g) => Grew(file'[g], original[g])
  BY <1>0, <1>6, <1>7 DEF TailOK
<1> QED BY <1>5, <1>8, <1>9 DEF TailOK

----------------------------------------------------------------------------
(* extensions.yml: the user's lines stay in their order, and the keys of units
   find no entry of the user's. *)

\* K has the lines of S that are not a unit's, but for keys.
Covers(K, S) ==
  /\ Blank \in K /\ Hooks \in K
  /\ \A l \in S : /\ IsMarked(l) => l \notin K
                  /\ ~IsMarked(l) /\ ~IsKey(l) => l \in K

\* The key at position i has an entry of the user's below it.
FedAt(r, i) ==
  \E j \in DOMAIN r : i < j /\ r[j][1] = "item" /\ \A m \in (i + 1)..(j - 1) : r[m] = Blank

\* Between positions i and j there is a line of K that is not blank.
Barred(r, K, i, j) == \E m \in (i + 1)..(j - 1) : r[m] \in K /\ r[m] # Blank

\* Do entries of the user's right below position i fall to another owner?
Hungry(r, K, i) == r[i] = Hooks \/ (IsKey(r[i]) /\ r[i] \notin K)

Fed(r, K) == \A i \in DOMAIN r : IsKey(r[i]) /\ r[i] \in K => FedAt(r, i)

Shut(r, K) ==
  \A i, j \in DOMAIN r : i < j /\ Hungry(r, K, i) /\ r[j][1] = "item" => Barred(r, K, i, j)

\* Of the lines of K r has what s has; each key of K has an entry of the user's, and
\* no other key, nor `hooks:`, has one.
Tame(r, s, K) ==
  /\ Only(r, Where(r, K)) = s
  /\ Fed(r, K)
  /\ Shut(r, K)

\* What is put in front of position p comes between no key and its entry.
Snug(r, p) == p - 1 \in DOMAIN r /\ r[p - 1] # Blank /\ (IsKey(r[p - 1]) => ~FedAt(r, p - 1))

\* Nothing of t is the user's, and its keys go right below `hooks:`.
Guest(t, r, p, K) ==
  \A k \in DOMAIN t :
    /\ t[k] \notin K /\ t[k][1] # "item"
    /\ IsKey(t[k]) => r[p - 1] = Hooks

\* Where the line at position i goes.
Shift(i, p, n) == IF i < p THEN i ELSE i + n

\* The lines of a splice are those of s, moved, and those of t.
LEMMA SpliceShift ==
  ASSUME NEW S, NEW q, NEW r, NEW t, NEW p, Splices(S, q, r, p, t)
  PROVE  /\ \A i \in DOMAIN r : /\ Shift(i, p, Len(t)) \in DOMAIN q
                                /\ q[Shift(i, p, Len(t))] = r[i]
         /\ \A i, j \in DOMAIN r : i < j <=> Shift(i, p, Len(t)) < Shift(j, p, Len(t))
         /\ \A i \in DOMAIN q :
              \/ \E j \in DOMAIN r : i = Shift(j, p, Len(t)) /\ q[i] = r[j]
              \/ \E k \in DOMAIN t : i = (p - 1) + k /\ q[i] = t[k]
<1>1. /\ Len(r) \in Nat /\ DOMAIN r = 1..Len(r) /\ Len(t) \in Nat /\ DOMAIN t = 1..Len(t)
      /\ p \in 1..(Len(r) + 1) /\ DOMAIN q = 1..Len(q) /\ Len(q) = Len(r) + Len(t)
  BY DEF Splices
<1>2. \A i \in DOMAIN r : /\ Shift(i, p, Len(t)) \in DOMAIN q
                          /\ q[Shift(i, p, Len(t))] = r[i]
  <2> TAKE i \in DOMAIN r
  <2>1. Goes(q, r, p, t)
    BY SpliceTo
  <2> QED BY <1>1, <2>1 DEF Goes, Shift
<1>3. \A i, j \in DOMAIN r : i < j <=> Shift(i, p, Len(t)) < Shift(j, p, Len(t))
  BY <1>1 DEF Shift
<1>4. \A i \in DOMAIN q :
        \/ \E j \in DOMAIN r : i = Shift(j, p, Len(t)) /\ q[i] = r[j]
        \/ \E k \in DOMAIN t : i = (p - 1) + k /\ q[i] = t[k]
  <2> TAKE i \in DOMAIN q
  <2>1. From(q, r, p, t, i)
    BY SpliceFrom
  <2> QED BY <1>1, <2>1 DEF From, Shift
<1> QED BY <1>2, <1>3, <1>4

\* A guest leaves a tame file tame.
LEMMA TameSplice ==
  ASSUME NEW S, NEW q, NEW r, NEW s, NEW t, NEW p, NEW K, Splices(S, q, r, p, t), Tame(r, s, K),
         Covers(K, S), Snug(r, p), Guest(t, r, p, K)
  PROVE  Tame(q, s, K)
<1> DEFINE n == Len(t)
           to(i) == Shift(i, p, n)
<1>1. /\ Len(r) \in Nat /\ DOMAIN r = 1..Len(r) /\ n \in Nat /\ DOMAIN t = 1..n
      /\ p \in 1..(Len(r) + 1) /\ DOMAIN q = 1..Len(q) /\ Len(q) = Len(r) + n
      /\ r \in Seq(S) /\ t \in Seq(S) /\ q \in Seq(S)
  BY DEF Splices
<1>2. /\ \A i \in DOMAIN r : to(i) \in DOMAIN q /\ q[to(i)] = r[i]
      /\ \A i, j \in DOMAIN r : i < j <=> to(i) < to(j)
      /\ \A i \in DOMAIN q :
           \/ \E j \in DOMAIN r : i = to(j) /\ q[i] = r[j]
           \/ \E k \in DOMAIN t : i = (p - 1) + k /\ q[i] = t[k]
  BY SpliceShift
<1>3. \A i \in DOMAIN r : to(i) \in Nat /\ (i < p => to(i) = i) /\ (p <= i => to(i) = i + n)
  BY <1>1 DEF Shift
<1> HIDE DEF n, to
<1>4. Only(q, Where(q, K)) = s
  <2> DEFINE P == (1..Len(q)) \ (p..(p + n - 1))
  <2>1. Thins(S, r, q, P)
    BY SplicesThins DEF n
  <2>2. Where(q, K) \subseteq P
    <3> SUFFICES ASSUME NEW i \in DOMAIN q, q[i] \in K, i \in p..(p + n - 1)
                 PROVE  FALSE
      BY <1>1 DEF Where
    <3>1. ~\E k \in DOMAIN t : q[i] = t[k]
      BY DEF Guest
    <3>2. PICK j \in DOMAIN r : i = to(j)
      BY <1>2, <3>1
    <3> QED BY <1>1, <1>3, <3>2
  <2> HIDE DEF P
  <2>3. Only(r, Where(r, K)) = Only(q, Where(q, K))
    BY <2>1, <2>2, ThinsKeeps
  <2> QED BY <2>3 DEF Tame
<1>5. \A k \in DOMAIN t : t[k] \notin K /\ t[k] # Hooks /\ t[k][1] # "item"
  BY DEF Guest, Covers
<1>6. ASSUME NEW i \in DOMAIN q, IsKey(q[i]), q[i] \in K
      PROVE  FedAt(q, i)
  <2>1. PICK a \in DOMAIN r : i = to(a) /\ q[i] = r[a]
    BY <1>2, <1>5, <1>6
  <2>2. FedAt(r, a)
    BY <1>6, <2>1 DEF Tame, Fed
  <2>3. PICK j \in DOMAIN r : /\ a < j /\ r[j][1] = "item"
                              /\ \A m \in (a + 1)..(j - 1) : r[m] = Blank
    BY <2>2 DEF FedAt
  <2>4. p <= a \/ j < p
    <3> SUFFICES ASSUME a < p, p <= j
                 PROVE  FALSE
      BY <1>1
    <3>1. CASE a = p - 1
      BY <1>6, <2>1, <2>2, <3>1 DEF Snug
    <3>2. CASE a # p - 1
      <4>1. p - 1 \in (a + 1)..(j - 1)
        BY <1>1, <3>2
      <4> QED BY <2>3, <4>1 DEF Snug
    <3> QED BY <3>1, <3>2
  <2>5. to(j) \in DOMAIN q /\ i < to(j) /\ q[to(j)] = r[j]
    BY <1>2, <2>1, <2>3
  <2>6. ASSUME NEW m \in (i + 1)..(to(j) - 1)
        PROVE  q[m] = Blank
    <3>1. m \in DOMAIN q
      BY <1>1, <2>5
    <3>2. ~\E k \in DOMAIN t : m = (p - 1) + k
      <4> SUFFICES ASSUME NEW k \in DOMAIN t, m = (p - 1) + k
                   PROVE  FALSE
        OBVIOUS
      <4>1. /\ a \in Nat /\ j \in Nat /\ p \in Nat /\ n \in Nat
            /\ k \in Nat /\ 1 <= k /\ k <= n
        BY <1>1
      <4>2. i = to(a) /\ i < m /\ m < to(j) /\ i \in Nat /\ to(j) \in Nat
        BY <1>1, <1>3, <2>1
      <4>3. CASE p <= a
        <5>1. i = a + n
          BY <1>3, <2>1, <4>3
        <5> QED BY ONLY <4>1, <4>2, <4>3, <5>1, m = (p - 1) + k
      <4>4. CASE j < p
        <5>1. to(j) = j
          BY <1>3, <4>4
        <5> QED BY ONLY <4>1, <4>2, <4>4, <5>1, m = (p - 1) + k
      <4> QED BY <2>4, <4>3, <4>4
    <3>3. PICK x \in DOMAIN r : m = to(x) /\ q[m] = r[x]
      BY <1>2, <3>1, <3>2
    <3>4. i \in Nat /\ m \in Nat /\ to(j) \in Nat /\ i < m /\ m < to(j)
      BY <1>1, <1>3, <2>1
    <3>5. a < x /\ x < j
      BY <1>2, <2>1, <3>3, <3>4
    <3>6. x \in (a + 1)..(j - 1)
      BY <1>1, <3>5
    <3> QED BY <2>3, <3>3, <3>6
  <2> QED BY <2>3, <2>5, <2>6 DEF FedAt
<1>7. ASSUME NEW i \in DOMAIN q, NEW j \in DOMAIN q, i < j, Hungry(q, K, i), q[j][1] = "item"
      PROVE  Barred(q, K, i, j)
  <2>1. PICK c \in DOMAIN r : j = to(c) /\ q[j] = r[c]
    BY <1>2, <1>5, <1>7
  <2>2. \E a \in DOMAIN r : /\ Hungry(r, K, a) /\ a < c
                             /\ \A m \in DOMAIN r : a < m => i < to(m)
    <3>1. CASE \E a \in DOMAIN r : i = to(a) /\ q[i] = r[a]
      <4>1. PICK a \in DOMAIN r : i = to(a) /\ q[i] = r[a]
        BY <3>1
      <4>2. Hungry(r, K, a)
        BY <1>7, <4>1 DEF Hungry
      <4> QED BY <1>1, <1>2, <1>3, <1>7, <2>1, <4>1, <4>2
    <3>2. CASE \E k \in DOMAIN t : i = (p - 1) + k /\ q[i] = t[k]
      <4>1. PICK k \in DOMAIN t : i = (p - 1) + k /\ q[i] = t[k]
        BY <3>2
      <4>2. IsKey(t[k])
        BY <1>5, <1>7, <4>1 DEF Hungry
      <4>3. p - 1 \in DOMAIN r /\ r[p - 1] = Hooks
        BY <4>2 DEF Guest, Snug
      <4>4. Hungry(r, K, p - 1)
        BY <4>3 DEF Hungry
      <4>5. p <= c
        <5>1. p \in Nat /\ k \in Nat /\ 1 <= k /\ c \in Nat
          BY <1>1
        <5>2. i = (p - 1) + k /\ i < to(c)
          BY <1>7, <2>1, <4>1
        <5>3. c < p => to(c) = c
          BY <1>3
        <5> HIDE DEF to
        <5> QED BY ONLY <5>1, <5>2, <5>3
      <4>6. \A m \in DOMAIN r : p - 1 < m => i < to(m)
        <5> TAKE m \in DOMAIN r
        <5> HAVE p - 1 < m
        <5>1. /\ m \in Nat /\ p \in Nat /\ k \in Nat /\ n \in Nat /\ k <= n
              /\ i = (p - 1) + k /\ p - 1 < m
          BY <1>1, <4>1
        <5>2. p <= m
          BY ONLY <5>1
        <5>3. to(m) = m + n
          BY <1>3, <5>2
        <5> QED BY ONLY <5>1, <5>2, <5>3
      <4>7. p - 1 < c
        BY <1>1, <4>5
      <4> QED BY <4>3, <4>4, <4>6, <4>7
    <3> QED BY <1>2, <3>1, <3>2
  <2>3. PICK a \in DOMAIN r : /\ Hungry(r, K, a) /\ a < c
                              /\ \A m \in DOMAIN r : a < m => i < to(m)
    BY <2>2
  <2>4. Barred(r, K, a, c)
    BY <1>7, <2>1, <2>3 DEF Tame, Shut
  <2>5. PICK m \in (a + 1)..(c - 1) : r[m] \in K /\ r[m] # Blank
    BY <2>4 DEF Barred
  <2>6. m \in DOMAIN r /\ a < m /\ m < c
    BY <1>1
  <2>7. i < to(m) /\ to(m) < j /\ q[to(m)] = r[m] /\ to(m) \in Nat
    BY <1>2, <1>3, <2>1, <2>3, <2>6
  <2>8. to(m) \in (i + 1)..(j - 1)
    BY <1>1, <2>7
  <2> QED BY <2>5, <2>7, <2>8 DEF Barred
<1> QED BY <1>4, <1>6, <1>7 DEF Tame, Fed, Shut

\* So does it if what goes is not of K.
LEMMA TameThins ==
  ASSUME NEW S, NEW q, NEW r, NEW s, NEW P, NEW K, Thins(S, q, r, P), Tame(r, s, K),
         Covers(K, S), Where(r, K) \subseteq P
  PROVE  Tame(q, s, K)
<1>1. PICK e : Enumerates(e, P) /\ q = [k \in DOMAIN e |-> r[e[k]]]
  BY DEF Thins
<1>2. /\ r \in Seq(S) /\ P \in SUBSET (1..Len(r)) /\ P \in SUBSET Nat
      /\ Len(r) \in Nat /\ DOMAIN r = 1..Len(r)
  BY DEF Thins
<1>3. /\ Len(e) \in Nat /\ DOMAIN e = 1..Len(e)
      /\ \A k \in DOMAIN e : k \in Nat /\ e[k] \in P /\ e[k] \in Nat
      /\ \A j, k \in DOMAIN e : j < k => e[j] < e[k]
      /\ \A i \in P : \E k \in DOMAIN e : e[k] = i
  BY <1>1, <1>2, EnumeratesType
<1>4. DOMAIN q = DOMAIN e /\ \A k \in DOMAIN e : q[k] = r[e[k]] /\ e[k] \in DOMAIN r
  BY <1>1, <1>2, <1>3
<1>5. \A j, k \in DOMAIN e : e[j] < e[k] => j < k
  <2> TAKE j, k \in DOMAIN e
  <2> HAVE e[j] < e[k]
  <2>1. j \in Nat /\ k \in Nat /\ e[j] \in Nat /\ e[k] \in Nat
    BY <1>3
  <2>2. j = k => e[j] = e[k]
    OBVIOUS
  <2>3. k < j => e[k] < e[j]
    BY <1>3
  <2> QED BY <2>1, <2>2, <2>3
<1>6. Only(q, Where(q, K)) = s
  BY ThinsKeeps DEF Tame
<1>7. ASSUME NEW i \in DOMAIN q, IsKey(q[i]), q[i] \in K
      PROVE  FedAt(q, i)
  <2>1. i \in DOMAIN e /\ q[i] = r[e[i]] /\ e[i] \in DOMAIN r
    BY <1>4
  <2>2. FedAt(r, e[i])
    BY <1>7, <2>1 DEF Tame, Fed
  <2>3. PICK j \in DOMAIN r : /\ e[i] < j /\ r[j][1] = "item"
                              /\ \A m \in (e[i] + 1)..(j - 1) : r[m] = Blank
    BY <2>2 DEF FedAt
  <2>4. j \in P
    <3>1. r[j] \in S /\ ~IsMarked(r[j]) /\ ~IsKey(r[j])
      BY <1>2, <2>3 DEF IsMarked, IsKey
    <3>2. r[j] \in K
      BY <3>1 DEF Covers
    <3> QED BY <3>2 DEF Where
  <2>5. PICK c \in DOMAIN e : e[c] = j
    BY <1>3, <2>4
  <2>6. i < c /\ q[c][1] = "item" /\ c \in DOMAIN q
    BY <1>4, <1>5, <2>1, <2>3, <2>5
  <2>7. ASSUME NEW m \in (i + 1)..(c - 1)
        PROVE  q[m] = Blank
    <3>1. m \in DOMAIN e /\ i < m /\ m < c
      BY <1>3, <2>1, <2>5
    <3>2. e[i] < e[m] /\ e[m] < j /\ e[m] \in Nat /\ e[i] \in Nat /\ j \in Nat
      BY <1>2, <1>3, <2>1, <2>5, <3>1
    <3>3. e[m] \in (e[i] + 1)..(j - 1)
      BY ONLY <3>2
    <3> QED BY <1>4, <2>3, <3>1, <3>3
  <2> QED BY <2>6, <2>7 DEF FedAt
<1>8. ASSUME NEW i \in DOMAIN q, NEW j \in DOMAIN q, i < j, Hungry(q, K, i), q[j][1] = "item"
      PROVE  Barred(q, K, i, j)
  <2>1. /\ i \in DOMAIN e /\ q[i] = r[e[i]] /\ e[i] \in DOMAIN r
        /\ j \in DOMAIN e /\ q[j] = r[e[j]] /\ e[j] \in DOMAIN r
        /\ e[i] < e[j]
    BY <1>3, <1>4, <1>8
  <2>2. Hungry(r, K, e[i]) /\ r[e[j]][1] = "item"
    BY <1>8, <2>1 DEF Hungry
  <2>3. Barred(r, K, e[i], e[j])
    BY <2>1, <2>2 DEF Tame, Shut
  <2>4. PICK m \in (e[i] + 1)..(e[j] - 1) : r[m] \in K /\ r[m] # Blank
    BY <2>3 DEF Barred
  <2>5. m \in DOMAIN r /\ e[i] < m /\ m < e[j]
    BY <1>2, <2>1
  <2>6. PICK x \in DOMAIN e : e[x] = m
    BY <1>3, <2>4, <2>5 DEF Where
  <2>7. i < x /\ x < j /\ q[x] = r[m]
    BY <1>4, <1>5, <2>1, <2>5, <2>6
  <2>8. x \in (i + 1)..(j - 1)
    BY <1>3, <2>1, <2>6, <2>7
  <2> QED BY <2>4, <2>7, <2>8 DEF Barred
<1> QED BY <1>6, <1>7, <1>8 DEF Tame, Fed, Shut

\* And the key has no entry right below it that would come behind.
LEMMA ListEndSnug ==
  ASSUME NEW S, NEW s, NEW v, s \in Seq(S), v \in DOMAIN s, IsKey(s[v])
  PROVE  Snug(s, ListEnd(s, v))
<1> DEFINE p == ListEnd(s, v)
<1>1. DOMAIN s = 1..Len(s) /\ Len(s) \in Nat /\ v \in Nat /\ v >= 1 /\ v <= Len(s)
  OBVIOUS
<1>2. PICK stop : ListStops(s, v, p, stop)
  BY ListEndStops
<1> HIDE DEF p
<1>3. stop \in Nat /\ p \in Nat /\ v < p /\ p <= stop /\ stop <= Len(s) + 1
  BY <1>1, <1>2 DEF ListStops
<1>4. p - 1 \in DOMAIN s
  BY <1>1, <1>3
<1>5. s[v] # Blank
  BY Roles DEF IsKey
<1>6. s[p - 1] # Blank
  BY <1>2, <1>5 DEF ListStops
<1>7. ASSUME IsKey(s[p - 1]), FedAt(s, p - 1)
      PROVE  FALSE
  <2>1. p - 1 = v
    <3> SUFFICES ASSUME p - 1 # v
                 PROVE  FALSE
      OBVIOUS
    <3>1. p - 1 \in (v + 1)..(stop - 1)
      BY <1>1, <1>3
    <3>2. IsChild(s[p - 1])
      BY <1>2, <1>6, <3>1 DEF ListStops
    <3> QED BY <1>7, <3>2 DEF IsKey, IsChild
  <2>2. PICK j \in DOMAIN s : /\ v < j /\ s[j][1] = "item"
                              /\ \A m \in (v + 1)..(j - 1) : s[m] = Blank
    BY <1>7, <2>1 DEF FedAt
  <2>3. IsChild(s[j]) /\ s[j] # Blank
    BY <2>2, Roles DEF IsChild
  <2>4. ~(stop <= j)
    <3> SUFFICES ASSUME stop <= j
                 PROVE  FALSE
      OBVIOUS
    <3>1. stop \in DOMAIN s /\ ~IsChild(s[stop]) /\ s[stop] # Blank
      BY <1>1, <1>2, <1>3 DEF ListStops
    <3>2. stop \in (v + 1)..(j - 1)
      <4>1. stop # j
        BY <2>3, <3>1
      <4> QED BY <1>1, <1>3, <4>1
    <3> QED BY <2>2, <3>1, <3>2
  <2>5. j \in p..(stop - 1)
    BY <1>1, <1>3, <2>1, <2>2, <2>4
  <2> QED BY <1>2, <2>3, <2>5 DEF ListStops
<1> QED BY <1>4, <1>6, <1>7 DEF Snug, p

\* s is what a user may have in extensions.yml, and K its lines.
Base(s, K, S) ==
  /\ Covers(K, S)
  /\ s # << >> /\ Collapsed(s) /\ Trimmed(s)
  /\ \E i \in DOMAIN s : s[i] = Hooks
  /\ \A k : KeyLine(k) \in K => \E i \in DOMAIN s : s[i] = KeyLine(k)

\* extensions.yml with what units have put into it.
Bent(d, S, B, s, K) == d \in Docs(S) /\ Whole(d.lines, B) /\ d.ended /\ Tame(d.lines, s, K)

\* The keys of r are keys of d.
KeysFrom(r, d) ==
  \A i \in DOMAIN r.lines : IsKey(r.lines[i]) => \E j \in DOMAIN d.lines : d.lines[j] = r.lines[i]

\* The lines of s are there.
LEMMA TameHas ==
  ASSUME NEW S, NEW r, NEW s, NEW K, r \in Seq(S), Tame(r, s, K)
  PROVE  \A i \in DOMAIN s : \E j \in DOMAIN r : r[j] = s[i]
<1>1. Where(r, K) \in SUBSET (1..Len(r)) /\ Where(r, K) \in SUBSET DOMAIN r
  BY DEF Where
<1>2. \A i \in DOMAIN Only(r, Where(r, K)) : \E j \in Where(r, K) : Only(r, Where(r, K))[i] = r[j]
  BY <1>1, OnlyType
<1>3. Only(r, Where(r, K)) = s
  BY DEF Tame
<1> QED BY <1>1, <1>2, <1>3

\* A block is a guest.
LEMMA BlockGuest ==
  ASSUME NEW S, NEW B, NEW K, NEW b, NEW r, NEW p, Covers(K, S), Speaks(S, B), b \in B
  PROVE  Guest(Block(b), r, p, K) /\ \A j \in DOMAIN Block(b) : ~IsKey(Block(b)[j])
<1>1. Block(b) = <<Begin(b), Body(b), End(b)>>
  BY DEF Block
<1>2. \A l \in {Begin(b), Body(b), End(b)} : ~IsKey(l) /\ l \notin K /\ l[1] # "item"
  <2> TAKE l \in {Begin(b), Body(b), End(b)}
  <2>1. IsMarked(l) /\ l \in S
    BY Roles DEF IsMarked, Speaks
  <2> QED BY <2>1 DEF IsMarked, IsKey, Covers
<1>3. \A j \in 1..3 : j = 1 \/ j = 2 \/ j = 3
  OBVIOUS
<1>4. DOMAIN Block(b) = 1..3 /\ \A j \in 1..3 : Block(b)[j] \in {Begin(b), Body(b), End(b)}
  BY <1>1
<1> QED BY <1>2, <1>4 DEF Guest

\* add leaves extensions.yml tame, and brings no key that the user has had.
LEMMA YamlAddTame ==
  ASSUME NEW S, NEW B, NEW d, NEW b, NEW k, NEW s, NEW K, Bent(d, S, B, s, K), Base(s, K, S),
         Speaks(S, B), b \in B, KeyLine(k) \in S
  PROVE  /\ Bent(YamlAdd(d, b, k), S, B, s, K)
         /\ KeyLine(k) \in K => KeysFrom(YamlAdd(d, b, k), d)
<1> DEFINE r == d.lines
           c == Block(b)
           q == YamlAdd(d, b, k)
<1>1. /\ r \in Seq(S) /\ DOMAIN r = 1..Len(r) /\ Len(r) \in Nat
      /\ d \in Docs(S) /\ Whole(r, B) /\ d.ended /\ Tame(r, s, K)
  BY DEF Bent, Docs, IsDoc
<1>2. Gains(q, d, S, B, b)
  BY <1>1, YamlAddGains
<1>3. q \in Docs(S) /\ Whole(q.lines, B)
  BY <1>2 DEF Gains
<1>4. Covers(K, S)
  BY DEF Base
<1>5. \A x, e : Doc(x, e).lines = x /\ Doc(x, e).ended = e
  BY DEF Doc
<1>6. CASE Has(r, b)
  <2>1. q = d
    BY <1>6, HoldsHas DEF YamlAdd
  <2> QED BY <2>1 DEF KeysFrom
<1>7. CASE ~Has(r, b) /\ Holds(d, KeyLine(k))
  <2> DEFINE v == Min(At(d, KeyLine(k)))
             p == ListEnd(r, v)
  <2>1. v \in DOMAIN r /\ r[v] = KeyLine(k)
    <3> DEFINE T == At(d, KeyLine(k))
    <3>1. T \in SUBSET Nat /\ T # {} /\ \A i \in T : i \in DOMAIN r /\ r[i] = KeyLine(k)
      BY <1>1, <1>7 DEF Holds, At
    <3> HIDE DEF T
    <3>2. Min(T) \in T
      BY <3>1, MinFound
    <3> QED BY <3>1, <3>2 DEF T
  <2>2. q = Doc(Put(r, p, c), d.ended)
    BY <1>7, HoldsHas DEF YamlAdd
  <2> HIDE DEF v, r, q
  <2>3. IsKey(r[v])
    BY <2>1, Roles DEF IsKey
  <2>4. Snug(r, p)
    BY <1>1, <2>1, <2>3, ListEndSnug
  <2> HIDE DEF p
  <2>5. p \in 1..(Len(r) + 1)
    <3>1. p - 1 \in 1..Len(r)
      BY <1>1, <2>4 DEF Snug
    <3>2. p \in Int
      <4>1. Listed(r, v, ListEnd(r, v))
        BY <1>1, <2>1, ListEndIs
      <4> QED BY <4>1 DEF Listed, p
    <3> QED BY <1>1, <3>1, <3>2
  <2>6. c \in Seq(S)
    BY DEF Block, Speaks
  <2>7. Guest(c, r, p, K) /\ \A j \in DOMAIN c : ~IsKey(c[j])
    BY <1>4, BlockGuest
  <2> HIDE DEF c
  <2> DEFINE w == Put(r, p, c)
  <2>8. Splices(S, w, r, p, c)
    BY <1>1, <2>5, <2>6, PutSplices
  <2> HIDE DEF w
  <2>9. Tame(w, s, K)
    BY <1>1, <1>4, <2>4, <2>7, <2>8, TameSplice
  <2>10. q.lines = w /\ q.ended = d.ended
    BY <1>5, <2>2 DEF w
  <2>11. \A i \in DOMAIN w : IsKey(w[i]) => \E j \in DOMAIN r : r[j] = w[i]
    BY <2>7, <2>8, SpliceShift
  <2> QED BY <1>1, <1>3, <2>9, <2>10, <2>11 DEF Bent, KeysFrom, r, q
<1>8. CASE ~Has(r, b) /\ ~Holds(d, KeyLine(k))
  <2> DEFINE v == Min(At(d, Hooks))
             p == v + 1
             u == <<KeyLine(k)>>
             t == u \o c
  <2>0. Holds(d, Hooks)
    <3>1. PICK i \in DOMAIN s : s[i] = Hooks
      BY DEF Base
    <3>2. PICK j \in DOMAIN r : r[j] = Hooks
      <4> HIDE DEF r
      <4> QED BY <1>1, <3>1, TameHas
    <3> QED BY <3>2 DEF Holds, At
  <2>1. KeyLine(k) \notin K
    <3> SUFFICES ASSUME KeyLine(k) \in K
                 PROVE  FALSE
      OBVIOUS
    <3>1. PICK i \in DOMAIN s : s[i] = KeyLine(k)
      BY DEF Base
    <3>2. PICK j \in DOMAIN r : r[j] = KeyLine(k)
      <4> HIDE DEF r
      <4> QED BY <1>1, <3>1, TameHas
    <3> QED BY <1>8, <3>2 DEF Holds, At
  <2>2. v \in DOMAIN r /\ r[v] = Hooks
    <3> DEFINE T == At(d, Hooks)
    <3>1. T \in SUBSET Nat /\ T # {} /\ \A i \in T : i \in DOMAIN r /\ r[i] = Hooks
      BY <1>1, <2>0 DEF Holds, At
    <3> HIDE DEF T
    <3>2. Min(T) \in T
      BY <3>1, MinFound
    <3> QED BY <3>1, <3>2 DEF T
  <2>3. q = Doc(Put(r, p, t), d.ended)
    BY <1>8, <2>0, HoldsHas DEF YamlAdd
  <2>4. u \in Seq(S) /\ Len(u) = 1 /\ u[1] = KeyLine(k) /\ DOMAIN u = {1}
    OBVIOUS
  <2>5. Quiet(u)
    <3>1. ~IsMarked(KeyLine(k)) /\ ~IsForeign(KeyLine(k))
      BY Roles DEF IsMarked, IsForeign
    <3> HIDE DEF u
    <3> QED BY <2>4, <3>1 DEF Quiet
  <2> HIDE DEF v, r, q, u
  <2>6. /\ t \in Seq(S) /\ Len(t) = 4
        /\ t[1] = KeyLine(k) /\ t[2] = Begin(b) /\ t[3] = Body(b) /\ t[4] = End(b)
    <3>1. /\ t \in Seq(S) /\ Len(t) = Len(u) + 3
          /\ \A i \in DOMAIN u : t[i] = u[i]
          /\ t[Len(u) + 1] = Begin(b) /\ t[Len(u) + 2] = Body(b) /\ t[Len(u) + 3] = End(b)
      BY <2>4, <2>5, Fenced
    <3> HIDE DEF t, c
    <3> QED BY <2>4, <3>1
  <2>7. p \in 1..(Len(r) + 1) /\ p - 1 = v /\ v \in Nat
    BY <1>1, <2>2
  <2>8. Snug(r, p)
    <3>1. Hooks # Blank /\ ~IsKey(Hooks)
      BY Roles DEF IsKey
    <3> QED BY <2>2, <2>7, <3>1 DEF Snug
  <2> HIDE DEF p, t, c
  <2>9. Guest(t, r, p, K)
    <3>1. \A l \in {Begin(b), Body(b), End(b)} : ~IsKey(l) /\ l \notin K /\ l[1] # "item"
      <4> TAKE l \in {Begin(b), Body(b), End(b)}
      <4>1. IsMarked(l) /\ l \in S
        BY Roles DEF IsMarked, Speaks
      <4> QED BY <1>4, <4>1 DEF IsMarked, IsKey, Covers
    <3>2. KeyLine(k)[1] # "item"
      BY Roles
    <3>3. \A j \in DOMAIN t : j = 1 \/ j = 2 \/ j = 3 \/ j = 4
      BY <2>6
    <3>4. r[p - 1] = Hooks
      BY <2>2, <2>7
    <3> QED BY <2>1, <2>6, <3>1, <3>2, <3>3, <3>4 DEF Guest
  <2> DEFINE w == Put(r, p, t)
  <2>10. Splices(S, w, r, p, t)
    BY <1>1, <2>6, <2>7, PutSplices
  <2> HIDE DEF w
  <2>11. Tame(w, s, K)
    BY <1>1, <1>4, <2>8, <2>9, <2>10, TameSplice
  <2>12. q.lines = w /\ q.ended = d.ended
    BY <1>5, <2>3 DEF w
  <2> QED BY <1>1, <1>3, <2>1, <2>11, <2>12 DEF Bent, q
<1> QED BY <1>6, <1>7, <1>8

\* So do all the spans.
LEMMA SpansTame ==
  ASSUME NEW S, NEW B, NEW K, NEW H, NEW d, NEW s, Bent(d, S, B, s, K), Base(s, K, S),
         Speaks(S, B), SpanKeys(S, B, H)
  PROVE  Bent(WithSpans(d), S, B, s, K)
<1> DEFINE n == Len(Spans)
<1>0. d \in Docs(S) /\ Whole(d.lines, B) /\ Pieced(d, B, B)
  BY DEF Bent, Pieced
<1>1. PICK h : /\ WithSpans(d) = h[n]
               /\ h[0] = d
               /\ \A i \in 1..n : h[i] = YamlAdd(h[i - 1], Span(Spans[i]), Spans[i])
  BY <1>0, WithSpansDef
<1>2. n \in Nat
  BY ScaffoldAssumption
<1> HIDE DEF n
<1> DEFINE T == {i \in Nat : i <= n => Bent(h[i], S, B, s, K)}
<1>3. 0 \in T
  BY <1>1
<1>4. ASSUME NEW i \in Nat, i \in T
      PROVE  i + 1 \in T
  <2> SUFFICES ASSUME i + 1 <= n
               PROVE  Bent(h[i + 1], S, B, s, K)
    OBVIOUS
  <2>1. i + 1 \in 1..n /\ (i + 1) - 1 = i /\ i <= n
    BY <1>2
  <2>2. Bent(h[i], S, B, s, K)
    BY <1>4, <2>1
  <2>3. Span(Spans[i + 1]) \in B /\ KeyLine(Spans[i + 1]) \in S
    BY <2>1 DEF SpanKeys, n
  <2>4. Bent(YamlAdd(h[i], Span(Spans[i + 1]), Spans[i + 1]), S, B, s, K)
    BY <2>2, <2>3, YamlAddTame
  <2> QED BY <1>1, <2>1, <2>4
<1>5. n \in T
  <2> HIDE DEF T
  <2> QED BY <1>2, <1>3, <1>4, Induction
<1> QED BY <1>1, <1>2, <1>5

\* A tame file is as tidy as what it was.
LEMMA TameTidy ==
  ASSUME NEW S, NEW r, NEW s, NEW K, r \in Seq(S), Tame(r, s, K), Base(s, K, S)
  PROVE  r # << >> /\ Collapsed(r) /\ Trimmed(r)
<1> DEFINE P == Where(r, K)
<1>1. Len(r) \in Nat /\ DOMAIN r = 1..Len(r) /\ P \in SUBSET (1..Len(r)) /\ P \in SUBSET Nat
  BY DEF Where
<1>2. PICK e : Enumerates(e, P) /\ Only(r, P) = [k \in DOMAIN e |-> r[e[k]]]
  <2> HIDE DEF P
  <2> QED BY <1>1, OnlyEnumerates
<1>3. /\ Len(e) \in Nat /\ DOMAIN e = 1..Len(e)
      /\ \A k \in DOMAIN e : k \in Nat /\ e[k] \in P /\ e[k] \in Nat
      /\ \A j, k \in DOMAIN e : j < k => e[j] < e[k]
      /\ \A i \in P : \E k \in DOMAIN e : e[k] = i
  <2> HIDE DEF P
  <2> QED BY <1>1, <1>2, EnumeratesType
<1>4. s = [k \in DOMAIN e |-> r[e[k]]] /\ DOMAIN s = DOMAIN e /\ \A k \in DOMAIN e : s[k] = r[e[k]]
  BY <1>2 DEF Tame
<1>5. Len(s) = Len(e)
  BY <1>3, <1>4
<1>6. \A i \in DOMAIN r : r[i] = Blank => i \in P
  BY DEF Where, Base, Covers
<1> HIDE DEF P
<1>7. r # << >>
  <2>1. PICK i \in DOMAIN s : s[i] = Hooks
    BY DEF Base
  <2>2. e[i] \in 1..Len(r)
    BY <1>1, <1>3, <1>4, <2>1
  <2> QED BY <2>2
<1>8. Collapsed(r)
  <2> SUFFICES ASSUME NEW i \in DOMAIN r, i > 1, r[i] = Blank, r[i - 1] = Blank
               PROVE  FALSE
    BY DEF Collapsed
  <2>1. i - 1 \in DOMAIN r /\ i \in Nat
    BY <1>1
  <2>2. i \in P /\ i - 1 \in P
    BY <1>6, <2>1
  <2>3. PICK k \in DOMAIN e : e[k] = i
    BY <1>3, <2>2
  <2>4. k - 1 \in DOMAIN e /\ e[k - 1] = i - 1
    <3>1. P \in SUBSET Nat /\ Enumerates(e, P) /\ k \in DOMAIN e
      BY <1>1, <1>2
    <3>2. e[k] - 1 \in P => k - 1 \in DOMAIN e /\ e[k - 1] = e[k] - 1
      BY ONLY <3>1, NextStays
    <3> QED BY <2>2, <2>3, <3>2
  <2>5. s[k] = Blank /\ s[k - 1] = Blank /\ k \in DOMAIN s
    BY <1>4, <2>3, <2>4
  <2>6. k > 1
    BY <1>3, <2>3, <2>4
  <2> QED BY <2>5, <2>6 DEF Base, Collapsed
<1>9. r[Len(r)] # Blank
  <2> SUFFICES ASSUME r[Len(r)] = Blank
               PROVE  FALSE
    OBVIOUS
  <2>1. Len(r) \in DOMAIN r
    BY <1>1, <1>7
  <2>2. PICK k \in DOMAIN e : e[k] = Len(r)
    BY <1>3, <1>6, <2>1
  <2>3. k = Len(e)
    <3> SUFFICES ASSUME k # Len(e)
                 PROVE  FALSE
      OBVIOUS
    <3>1. k < Len(e) /\ Len(e) \in DOMAIN e
      BY <1>3
    <3>2. e[k] < e[Len(e)] /\ e[Len(e)] \in 1..Len(r)
      BY <1>1, <1>3, <3>1
    <3> QED BY <1>1, <2>2, <3>2
  <2>4. s[Len(s)] = Blank
    BY <1>4, <1>5, <2>2, <2>3
  <2> QED BY <2>4 DEF Base, Trimmed
<1> QED BY <1>7, <1>8, <1>9 DEF Trimmed

\* remove leaves extensions.yml tame: only the block goes.
LEMMA RemoveTame ==
  ASSUME NEW S, NEW B, NEW d, NEW b, NEW s, NEW K, Bent(d, S, B, s, K), Base(s, K, S), b \in B
  PROVE  Bent(RemoveBlock(d, b), S, B, s, K) /\ KeysFrom(RemoveBlock(d, b), d)
<1> DEFINE q == RemoveBlock(d, b)
<1>1. /\ d.lines \in Seq(S) /\ d \in Docs(S) /\ Whole(d.lines, B) /\ d.ended
      /\ Tame(d.lines, s, K) /\ Covers(K, S)
  BY DEF Bent, Docs, IsDoc, Base
<1>2. Loses(q, d, S, B, b)
  BY <1>1, RemoveLoses
<1>3. q \in Docs(S) /\ Whole(q.lines, B)
  BY <1>2 DEF Loses
<1>4. CASE ~Has(d.lines, b)
  <2>1. q = d
    BY <1>4, HoldsHas DEF RemoveBlock
  <2> QED BY <2>1 DEF KeysFrom
<1>5. CASE Has(d.lines, b)
  <2>1. PICK i \in DOMAIN d.lines : FoundAt(d, b, i)
    BY <1>1, <1>5, Found
  <2> DEFINE r == d.lines
             c == Cut(r, i, i + 2)
             P == (1..Len(r)) \ (i..(i + 2))
  <2>2. /\ i \in 1..Len(r) /\ i + 2 \in i..Len(r) /\ Len(r) \in Nat /\ DOMAIN r = 1..Len(r)
        /\ r[i] = Begin(b) /\ r[i + 1] = Body(b) /\ r[i + 2] = End(b)
    <3>1. i + 2 \in DOMAIN r
      BY <2>1 DEF FoundAt
    <3> QED BY <1>1, <2>1, <3>1 DEF FoundAt
  <2>3. q = Doc(TrimEnd(Collapse(c)), d.ended /\ TrimEnd(Collapse(c)) # << >>)
    BY <1>5, <2>1, RemoveBlockIs
  <2> HIDE DEF r, q
  <2>4. Thins(S, c, r, P)
    BY <1>1, <2>2, CutThins DEF r
  <2>5. Where(r, K) \subseteq P
    <3> SUFFICES ASSUME NEW j \in DOMAIN r, r[j] \in K, j \in i..(i + 2)
                 PROVE  FALSE
      BY <2>2 DEF Where
    <3>1. j = i \/ j = i + 1 \/ j = i + 2
      BY <2>2
    <3>2. IsMarked(r[j])
      BY <2>2, <3>1, Roles DEF IsMarked
    <3>3. r[j] \in S
      BY <1>1 DEF r
    <3> QED BY <1>1, <3>2, <3>3 DEF Covers
  <2> HIDE DEF c, P
  <2>6. Tame(c, s, K) /\ c \in Seq(S)
    BY <1>1, <2>4, <2>5, TameThins, ThinsType DEF r
  <2>7. c # << >> /\ Collapsed(c) /\ Trimmed(c)
    BY <2>6, TameTidy
  <2>8. Collapse(c) = c
    BY <2>6, <2>7, CollapsedSame
  <2>9. TrimEnd(c) = c
    BY <2>6, <2>7, TrimmedSame
  <2>10. q = Doc(c, TRUE)
    <3>1. (d.ended /\ c # << >>) = TRUE
      BY <1>1, <2>7
    <3> QED BY <2>3, <2>8, <2>9, <3>1
  <2>11. q.lines = c /\ q.ended
    BY <2>10 DEF Doc
  <2>12. \A j \in DOMAIN c : \E m \in DOMAIN r : r[m] = c[j]
    <3>1. \A j \in DOMAIN c : \E m \in P : c[j] = r[m]
      BY <2>4, ThinsType
    <3> QED BY <2>2, <3>1 DEF P
  <2> QED BY <1>3, <2>6, <2>11, <2>12 DEF Bent, KeysFrom, q, r
<1> QED BY <1>4, <1>5

\* So does the removal of all blocks of a unit.
LEMMA WithoutTame ==
  ASSUME NEW S, NEW B, NEW d, NEW bs, NEW s, NEW K, Bent(d, S, B, s, K), Base(s, K, S),
         bs \in Seq(B), Refused \notin Docs(S)
  PROVE  Bent(Without(d, bs), S, B, s, K) /\ KeysFrom(Without(d, bs), d)
<1> DEFINE n == Len(bs)
<1>0. d \in Docs(S) /\ Whole(d.lines, B) /\ TornIn(d, B, B)
  BY DEF Bent, TornIn
<1>1. PICK h : /\ Without(d, bs) = h[n]
               /\ h[0] = d
               /\ \A i \in 1..n :
                    h[i] = IF h[i - 1] = Refused THEN Refused ELSE RemoveBlock(h[i - 1], bs[i])
  BY <1>0, WithoutDef
<1>2. n \in Nat /\ \A i \in 1..n : bs[i] \in B
  OBVIOUS
<1> HIDE DEF n
<1> DEFINE T == {i \in Nat : i <= n => Bent(h[i], S, B, s, K) /\ KeysFrom(h[i], d)}
<1>3. 0 \in T
  BY <1>1 DEF KeysFrom
<1>4. ASSUME NEW i \in Nat, i \in T
      PROVE  i + 1 \in T
  <2> SUFFICES ASSUME i + 1 <= n
               PROVE  Bent(h[i + 1], S, B, s, K) /\ KeysFrom(h[i + 1], d)
    OBVIOUS
  <2>1. i + 1 \in 1..n /\ (i + 1) - 1 = i /\ i <= n
    BY <1>2
  <2>2. Bent(h[i], S, B, s, K) /\ KeysFrom(h[i], d)
    BY <1>4, <2>1
  <2>3. bs[i + 1] \in B /\ h[i] # Refused
    BY <1>2, <2>1, <2>2 DEF Bent
  <2>4. h[i + 1] = RemoveBlock(h[i], bs[i + 1])
    BY <1>1, <2>1, <2>3
  <2>5. Bent(h[i + 1], S, B, s, K) /\ KeysFrom(h[i + 1], h[i])
    BY <2>2, <2>3, <2>4, RemoveTame
  <2>6. KeysFrom(h[i + 1], d)
    BY <2>2, <2>5 DEF KeysFrom
  <2> QED BY <2>5, <2>6
<1>5. n \in T
  <2> HIDE DEF T
  <2> QED BY <1>2, <1>3, <1>4, Induction
<1> QED BY <1>1, <1>2, <1>5

\* The first line behind position i that is not blank.
LEMMA NextFullIs ==
  ASSUME NEW S, NEW s, NEW i, s \in Seq(S), i \in DOMAIN s
  PROVE  LET j == NextFull(s, i)
         IN  \/ j = 0 /\ \A m \in (i + 1)..Len(s) : s[m] = Blank
             \/ /\ j \in (i + 1)..Len(s) /\ s[j] # Blank
                /\ \A m \in (i + 1)..(j - 1) : s[m] = Blank
<1> DEFINE full == {j \in (i + 1)..Len(s) : s[j] # Blank}
<1>1. Len(s) \in Nat /\ i \in Nat /\ full \in SUBSET Nat
  OBVIOUS
<1>2. NextFull(s, i) = IF full = {} THEN 0 ELSE Min(full)
  BY DEF NextFull
<1>3. CASE full = {}
  BY <1>2, <1>3
<1>4. CASE full # {}
  <2>1. Min(full) \in full /\ \A j \in full : Min(full) <= j
    <3> HIDE DEF full
    <3> QED BY <1>1, <1>4, MinFound
  <2> DEFINE j == Min(full)
  <2>2. j \in (i + 1)..Len(s) /\ s[j] # Blank /\ \A m \in full : j <= m
    <3> HIDE DEF j
    <3> QED BY <2>1 DEF j
  <2> HIDE DEF j
  <2>3. \A m \in (i + 1)..(j - 1) : s[m] = Blank
    <3> SUFFICES ASSUME NEW m \in (i + 1)..(j - 1), s[m] # Blank
                 PROVE  FALSE
      OBVIOUS
    <3>1. m \in full
      BY <1>1, <2>2
    <3>2. j <= m
      BY <2>2, <3>1
    <3> QED BY <1>1, <2>2, <3>2
  <2>4. NextFull(s, i) = j
    BY <1>2, <1>4 DEF j
  <2> QED BY <2>2, <2>3, <2>4
<1> QED BY <1>3, <1>4

\* Is the key at position i one that the sweep takes?
Empty(s, i) ==
  IsKey(s[i]) /\ (NextFull(s, i) = 0 \/ ~IsChild(s[NextFull(s, i)]))

\* Where the same is left, no other marked line has come.
LEMMA DeclaredKept ==
  ASSUME NEW S, NEW B, NEW r, NEW s, r \in Seq(S), s \in Seq(S), Rest(r, B) = Rest(s, B),
         Declared(s, B)
  PROVE  Declared(r, B)
<1>1. \A l : IsRest(l, B) => (Lacks(r, l) <=> Lacks(s, l))
  BY RestSame
<1> SUFFICES ASSUME NEW i \in DOMAIN r, IsMarked(r[i]), ~OfBlock(r[i], B)
             PROVE  FALSE
  BY DEF Declared
<1>2. IsRest(r[i], B) /\ ~Lacks(r, r[i])
  BY DEF IsRest, Lacks
<1>3. PICK j \in DOMAIN s : s[j] = r[i]
  BY <1>1, <1>2 DEF Lacks
<1> QED BY <1>3 DEF Declared

\* Of a tame file the sweep takes just the keys that the user has not had.
LEMMA EmptyKeys ==
  ASSUME NEW S, NEW B, NEW d, NEW s, NEW K, NEW i, Bent(d, S, B, s, K), Base(s, K, S),
         Declared(d.lines, B), i \in DOMAIN d.lines
  PROVE  Empty(d.lines, i) <=> IsKey(d.lines[i]) /\ d.lines[i] \notin K
<1> DEFINE r == d.lines
           j == NextFull(r, i)
<1>1. /\ r \in Seq(S) /\ Len(r) \in Nat /\ DOMAIN r = 1..Len(r)
      /\ Whole(r, B) /\ Tame(r, s, K) /\ Covers(K, S)
  BY DEF Bent, Docs, IsDoc, Base
<1>2. \/ j = 0 /\ \A m \in (i + 1)..Len(r) : r[m] = Blank
      \/ /\ j \in (i + 1)..Len(r) /\ r[j] # Blank
         /\ \A m \in (i + 1)..(j - 1) : r[m] = Blank
  BY <1>1, NextFullIs
<1> HIDE DEF r, j
<1>3. ASSUME IsKey(r[i]), r[i] \in K
      PROVE  j # 0 /\ IsChild(r[j])
  <2>1. FedAt(r, i)
    BY <1>1, <1>3 DEF Tame, Fed, r
  <2>2. PICK c \in DOMAIN r : /\ i < c /\ r[c][1] = "item"
                              /\ \A m \in (i + 1)..(c - 1) : r[m] = Blank
    BY <2>1 DEF FedAt
  <2>3. r[c] # Blank /\ IsChild(r[c])
    BY <2>2, Roles DEF IsChild
  <2>4. i \in Nat /\ c \in Nat /\ c <= Len(r) /\ i < c
    BY <1>1, <2>2 DEF r
  <2>5. j \in (i + 1)..Len(r) /\ r[j] # Blank /\ \A m \in (i + 1)..(j - 1) : r[m] = Blank
    <3>1. c \in (i + 1)..Len(r)
      BY <1>1, <2>4
    <3> QED BY <1>2, <2>3, <3>1
  <2>6. ~(c < j)
    <3> SUFFICES ASSUME c < j
                 PROVE  FALSE
      OBVIOUS
    <3>1. c \in (i + 1)..(j - 1)
      BY <1>1, <2>4, <2>5
    <3> QED BY <2>3, <2>5, <3>1
  <2>7. ~(j < c)
    <3> SUFFICES ASSUME j < c
                 PROVE  FALSE
      OBVIOUS
    <3>1. j \in (i + 1)..(c - 1)
      BY <1>1, <2>4, <2>5
    <3> QED BY <2>2, <2>5, <3>1
  <2>8. j = c
    BY <1>1, <2>4, <2>5, <2>6, <2>7
  <2>9. j # 0
    BY <2>4, <2>8
  <2> QED BY <2>3, <2>8, <2>9
<1>4. ASSUME IsKey(r[i]), r[i] \notin K, j # 0, IsChild(r[j])
      PROVE  FALSE
  <2>1. /\ j \in (i + 1)..Len(r) /\ r[j] # Blank
        /\ \A m \in (i + 1)..(j - 1) : r[m] = Blank
    BY <1>2, <1>4
  <2>2. j \in DOMAIN r /\ i < j /\ i \in DOMAIN r /\ i \in Nat /\ j \in Nat
    BY <1>1, <2>1 DEF r
  <2>3. CASE r[j][1] = "item"
    <3>1. Barred(r, K, i, j)
      BY <1>1, <1>4, <2>2, <2>3 DEF Tame, Shut, Hungry, r
    <3> QED BY <2>1, <3>1 DEF Barred
  <2>4. CASE r[j][1] = "body"
    <3>1. PICK b \in B : r[j] \in {Begin(b), Body(b), End(b)}
      BY <2>2, <2>4 DEF Declared, OfBlock, IsMarked, r
    <3>2. r[j] = Body(b)
      BY <2>4, <3>1, Roles
    <3>3. j - 1 \in DOMAIN r /\ r[j - 1] = Begin(b)
      BY <1>1, <2>2, <3>2 DEF Whole, Closed, r
    <3>4. Begin(b) # Blank /\ ~IsKey(Begin(b))
      BY Roles DEF IsKey
    <3>5. j - 1 = i \/ j - 1 \in (i + 1)..(j - 1)
      BY <2>1, <2>2
    <3> QED BY <1>4, <2>1, <3>3, <3>4, <3>5
  <2> QED BY <1>4, <2>3, <2>4 DEF IsChild
<1> QED BY <1>3, <1>4 DEF Empty, r, j

\* The sweep leaves no key that the user has not had.
LEMMA SweepTame ==
  ASSUME NEW S, NEW B, NEW d, NEW s, NEW K, Bent(d, S, B, s, K), Base(s, K, S), Blank \in S,
         Declared(d.lines, B)
  PROVE  LET q == SweepKeys(d)
         IN  /\ Bent(q, S, B, s, K)
             /\ \A i \in DOMAIN q.lines : IsKey(q.lines[i]) => q.lines[i] \in K
<1> DEFINE r == d.lines
           P == {i \in DOMAIN r : ~Empty(r, i)}
           left == Only(r, P)
<1>1. /\ r \in Seq(S) /\ Len(r) \in Nat /\ DOMAIN r = 1..Len(r) /\ d \in Docs(S)
      /\ Whole(r, B) /\ d.ended /\ Tame(r, s, K) /\ Covers(K, S)
  BY DEF Bent, Docs, IsDoc, Base
<1>2. SweepKeys(d) = Doc(IF left = << >> THEN <<Blank>> ELSE left, TRUE)
  BY <1>1 DEF SweepKeys, Empty
<1>3. \A i \in DOMAIN r : i \in P <=> ~(IsKey(r[i]) /\ r[i] \notin K)
  BY EmptyKeys
<1>4. P \in SUBSET (1..Len(r))
  BY <1>1
<1> HIDE DEF P
<1>5. Thins(S, left, r, P)
  <2> HIDE DEF r
  <2> QED BY <1>1, <1>4, OnlyThins
<1> HIDE DEF r, left
<1>6. Where(r, K) \subseteq P
  BY <1>3 DEF Where
<1>7. Tame(left, s, K) /\ left \in Seq(S)
  BY <1>1, <1>5, <1>6, TameThins, ThinsType
<1>8. left # << >>
  BY <1>7, TameTidy
<1>9. SweepKeys(d).lines = left /\ SweepKeys(d).ended
  BY <1>2, <1>8 DEF Doc
<1>10. SweepKeys(d) \in Docs(S) /\ Whole(SweepKeys(d).lines, B)
  <2>1. Alike(SweepKeys(d), d, S, B)
    BY <1>1, SweepAlike DEF r
  <2> QED BY <2>1 DEF Alike
<1>11. ASSUME NEW i \in DOMAIN left, IsKey(left[i])
       PROVE  left[i] \in K
  <2>1. PICK m \in P : left[i] = r[m]
    BY <1>5, ThinsType
  <2> QED BY <1>1, <1>3, <1>4, <1>11, <2>1
<1> QED BY <1>7, <1>9, <1>10, <1>11 DEF Bent

----------------------------------------------------------------------------
(* The user's extensions.yml, and the steps on it. *)

\* The lines that s has, with all others that no unit writes but keys.
Theirs(s) == {l \in Line : ~IsMarked(l) /\ (IsKey(l) => l \in Range(s))}

\* The user's extensions.yml.
LEMMA NeatHooks ==
  ASSUME NEW o, NEW s, FilesOK, Neat("hooks"), o = original["hooks"], s = LinesIn(o)
  PROVE  /\ o \in Plain /\ o # Absent /\ s = o.lines /\ o.ended
         /\ s \in Seq(Line) /\ \A i \in DOMAIN s : s[i] \in Theirs(s)
         /\ Base(s, Theirs(s), Line)
         /\ SweepKeys(o) = o /\ Holds(o, KeyLine(KeyOf["ears-linter"]))
<1>1. "hooks" \in File
  BY DEF File
<1>2. o \in Plain \cup {Absent}
  BY <1>1 DEF FilesOK
<1>3. /\ o # Absent /\ o.lines # << >> /\ o.ended /\ o.lines = TrimEnd(o.lines)
      /\ o.lines = Collapse(o.lines)
      /\ SweepKeys(o) = o /\ Holds(o, Hooks) /\ Holds(o, KeyLine(KeyOf["ears-linter"]))
  BY DEF Neat
<1>4. s = o.lines /\ s \in Seq(Line) /\ \A i \in DOMAIN s : ~IsMarked(s[i])
  BY <1>2, <1>3 DEF LinesIn, Plain, Docs, IsDoc
<1>5. \A i \in DOMAIN s : s[i] \in Theirs(s)
  BY <1>4 DEF Theirs, Range
<1>6. Collapsed(s) /\ Trimmed(s)
  BY <1>3, <1>4, CollapsedSame, TrimmedSame
<1>7. Covers(Theirs(s), Line)
  <2>1. ~IsMarked(Blank) /\ ~IsMarked(Hooks) /\ ~IsKey(Blank) /\ ~IsKey(Hooks)
    BY Roles DEF IsMarked, IsKey
  <2> QED BY <2>1, OtherLines DEF Covers, Theirs
<1>8. \E i \in DOMAIN s : s[i] = Hooks
  BY <1>3, <1>4 DEF Holds, At
<1>9. \A k : KeyLine(k) \in Theirs(s) => \E i \in DOMAIN s : s[i] = KeyLine(k)
  BY Roles DEF Theirs, IsKey, Range
<1>10. Base(s, Theirs(s), Line)
  BY <1>3, <1>4, <1>6, <1>7, <1>8, <1>9 DEF Base
<1> QED BY <1>2, <1>3, <1>4, <1>5, <1>10

\* It is tame, if it is YAML.
LEMMA StartTame ==
  ASSUME NEW o, NEW s, FilesOK, Neat("hooks"), o = original["hooks"], s = LinesIn(o), ValidYaml(o)
  PROVE  Bent(o, Line, Blocks("hooks"), s, Theirs(s))
<1> DEFINE K == Theirs(s)
<1>1. /\ o \in Plain /\ o # Absent /\ s = o.lines /\ o.ended
      /\ s \in Seq(Line) /\ \A i \in DOMAIN s : s[i] \in K
      /\ Base(s, K, Line)
      /\ SweepKeys(o) = o /\ Holds(o, KeyLine(KeyOf["ears-linter"]))
  BY NeatHooks
<1>2. Len(s) \in Nat /\ DOMAIN s = 1..Len(s) /\ \A i \in DOMAIN s : ~IsMarked(s[i])
  BY <1>1 DEF Theirs
<1>3. o \in Docs(Line) /\ Whole(s, Blocks("hooks"))
  BY <1>1, PlainNone DEF LinesIn
<1> HIDE DEF K
<1>4. Only(s, Where(s, K)) = s
  <2>1. Where(s, K) = 1..Len(s)
    BY <1>1, <1>2 DEF Where
  <2> DEFINE P == Where(s, K)
  <2>2. P = 1..Len(s) /\ P \in SUBSET (1..Len(s))
    BY <2>1
  <2> HIDE DEF P
  <2>3. Only(s, P) = s
    BY <1>1, <2>2, OnlyAll
  <2> QED BY <2>3 DEF P
<1>5. Fed(s, K)
  <2> DEFINE P == {i \in DOMAIN s : ~Empty(s, i)}
             left == Only(s, P)
  <2>1. SweepKeys(o) = Doc(IF left = << >> THEN <<Blank>> ELSE left, TRUE)
    BY <1>1 DEF SweepKeys, Empty
  <2>2. P \in SUBSET (1..Len(s))
    BY <1>2
  <2> HIDE DEF left
  <2>3. left = s
    <3>1. CASE left # << >>
      BY <1>1, <2>1, <3>1 DEF Doc
    <3>2. CASE left = << >>
      <4> DEFINE w == <<Blank>>
      <4>1. s = w
        BY <1>1, <2>1, <3>2 DEF Doc
      <4>2. Len(w) = 1 /\ w[1] = Blank /\ w # << >>
        OBVIOUS
      <4> HIDE DEF w
      <4> QED BY <1>1, <4>1, <4>2 DEF Base, Trimmed
    <3> QED BY <3>1, <3>2
  <2>4. P = 1..Len(s)
    <3>1. Only(s, P) = s
      BY <2>3 DEF left
    <3>2. \A Q : Q \in SUBSET (1..Len(s)) => (Only(s, Q) = s <=> Q = 1..Len(s))
      <4>1. s \in Seq(Line)
        BY <1>1
      <4>2. ASSUME NEW Q, Q \in SUBSET (1..Len(s))
            PROVE  Only(s, Q) = s <=> Q = 1..Len(s)
        BY ONLY <4>1, <4>2, OnlyAll
      <4> QED BY <4>2
    <3> HIDE DEF P
    <3> QED BY <2>2, <3>1, <3>2
  <2>5. \A i \in DOMAIN s : ~Empty(s, i)
    BY <1>2, <2>4
  <2>6. ASSUME NEW i \in DOMAIN s, IsKey(s[i])
        PROVE  FedAt(s, i)
    <3> DEFINE j == NextFull(s, i)
    <3>1. j # 0 /\ IsChild(s[j])
      BY <2>5, <2>6 DEF Empty
    <3>2. /\ j \in (i + 1)..Len(s) /\ s[j] # Blank
          /\ \A m \in (i + 1)..(j - 1) : s[m] = Blank
      BY <1>1, <3>1, NextFullIs
    <3> HIDE DEF j
    <3>3. j \in DOMAIN s /\ i < j
      BY <1>2, <3>2
    <3>4. s[j][1] = "item"
      BY <1>2, <3>1, <3>3 DEF IsChild, IsMarked
    <3> QED BY <3>2, <3>3, <3>4 DEF FedAt
  <2> QED BY <2>6 DEF Fed
<1>6. ASSUME NEW i \in DOMAIN s, NEW j \in DOMAIN s, i < j, Hungry(s, K, i), s[j][1] = "item"
      PROVE  Barred(s, K, i, j)
  <2>1. s[i] = Hooks
    BY <1>1, <1>6 DEF Hungry
  <2> DEFINE keys == {m \in DOMAIN s : IsKey(s[m])}
             above == {m \in 1..(j - 1) : s[m][1] \in {"key", "hooks", "text"}}
             own == OwnerOf(s, j)
  <2>2. keys # {}
    <3>1. PICK m \in DOMAIN s : s[m] = KeyLine(KeyOf["ears-linter"])
      BY <1>1 DEF Holds, At
    <3> QED BY <3>1, Roles DEF IsKey
  <2>3. own # 0 /\ IsKey(s[own])
    <3>1. IsChild(s[j])
      BY <1>6 DEF IsChild
    <3> HIDE DEF own
    <3> QED BY <1>1, <2>2, <3>1 DEF ValidYaml, own
  <2>4. i \in above
    BY <1>2, <1>6, <2>1, Roles
  <2>5. own = Max(above)
    BY <2>4 DEF OwnerOf
  <2>6. above \in SUBSET (0..Len(s)) /\ above # {}
    BY <1>2, <2>4
  <2>7. \A m \in above : m \in 1..(j - 1)
    OBVIOUS
  <2> HIDE DEF above, own
  <2>8. own \in above /\ i <= own
    BY <1>2, <2>4, <2>5, <2>6, MaxFound
  <2>9. own # i
    <3>1. ~IsKey(Hooks)
      BY Roles DEF IsKey
    <3> QED BY <2>1, <2>3, <3>1
  <2>10. own \in (i + 1)..(j - 1) /\ own \in DOMAIN s
    BY <1>2, <2>7, <2>8, <2>9
  <2>11. s[own] # Blank /\ s[own] \in K
    BY <1>1, <2>3, <2>10, Roles DEF IsKey
  <2> QED BY <2>10, <2>11 DEF Barred
<1>7. Tame(s, s, K)
  BY <1>4, <1>5, <1>6 DEF Tame, Shut
<1> QED BY <1>1, <1>3, <1>7 DEF Bent, K

\* d is o, or what units have made of it.
Kept(d, o) ==
  d = o \/ Bent(d, Line, Blocks("hooks"), LinesIn(o), Theirs(LinesIn(o)))

\* Has d keys that o has not?
MoreKeys(d, o) ==
  \E i \in DOMAIN LinesIn(d) : IsKey(LinesIn(d)[i]) /\ LinesIn(d)[i] \notin Theirs(LinesIn(o))

HooksOK == Neat("hooks") => Kept(file["hooks"], original["hooks"])

\* A step leaves extensions.yml as it should be, and with new keys only if they were
\* there or `more` allows them.
HooksKeep(more) ==
  Neat("hooks") =>
    /\ Kept(file'["hooks"], original["hooks"])
    /\ MoreKeys(file'["hooks"], original["hooks"]) =>
         MoreKeys(file["hooks"], original["hooks"]) \/ more

\* A file that is YAML, or has a block, is tame.
LEMMA HooksBent ==
  ASSUME NEW s, FilesOK, HooksOK, Neat("hooks"), s = LinesIn(original["hooks"]),
         ValidYaml(file["hooks"]) \/ \E b : Has(Lines("hooks"), b)
  PROVE  Present("hooks") /\ Bent(file["hooks"], Line, Blocks("hooks"), s, Theirs(s))
<1> DEFINE o == original["hooks"]
           d == file["hooks"]
<1>1. o \in Plain /\ o # Absent
  BY NeatHooks
<1>2. CASE d = o
  <2>1. \A b : ~Has(Lines("hooks"), b)
    <3>1. \A b : ~Has(LinesIn(o), b)
      BY <1>1, PlainNone
    <3> QED BY <1>2, <3>1, LinesAre
  <2>2. ValidYaml(o)
    BY <1>2, <2>1
  <2>3. Bent(o, Line, Blocks("hooks"), s, Theirs(s))
    BY <2>2, StartTame
  <2> QED BY <1>1, <1>2, <2>3 DEF Present
<1>3. CASE Bent(d, Line, Blocks("hooks"), s, Theirs(s))
  <2>1. d # Absent
    BY <1>3, InDocs DEF Bent
  <2> QED BY <1>3, <2>1 DEF Present
<1> QED BY <1>2, <1>3 DEF HooksOK, Kept

\* The step writes what is tame.
LEMMA BentKeeps ==
  ASSUME NEW r, NEW more, FilesOK, touched' = {}, Write("hooks", r), Neat("hooks") =>
           /\ Bent(r, Line, Blocks("hooks"), LinesIn(original["hooks"]),
                   Theirs(LinesIn(original["hooks"])))
           /\ MoreKeys(r, original["hooks"]) => MoreKeys(file["hooks"], original["hooks"]) \/ more
  PROVE  HooksKeep(more)
<1>1. "hooks" \in File /\ DOMAIN file = File
  BY DEF File, FilesOK
<1>2. ASSUME Neat("hooks")
      PROVE  r # Refused /\ file'["hooks"] = r
  <2>1. r # Refused
    BY <1>2, InDocs DEF Bent
  <2> QED BY <1>1, <2>1, NotCut
<1> QED BY <1>2 DEF HooksKeep, Kept

\* A step that fails leaves all as it was.
LEMMA FailKeeps ==
  ASSUME NEW more, HooksOK, file'["hooks"] = file["hooks"]
  PROVE  HooksKeep(more)
BY DEF HooksOK, HooksKeep

\* ears-linter's key is the user's; claude-code-deploy may bring one.
LEMMA AddHookTame ==
  ASSUME FilesOK, touched = {}, touched' = {}, HooksOK, AddHook,
         job.unit \in {"ears-linter", "claude-code-deploy"}
  PROVE  HooksKeep(job.unit = "claude-code-deploy")
<1> DEFINE d == Read("hooks")
           b == <<job.unit>>
           k == KeyOf[job.unit]
           r == YamlAdd(d, b, k)
           o == original["hooks"]
           s == LinesIn(o)
           K == Theirs(s)
<1>1. Write("hooks", IF ~ValidYaml(d) THEN Refused ELSE r)
  BY DEF AddHook
<1>2. "hooks" \in File /\ b \in Blocks("hooks") /\ KeyLine(k) \in Line
  <2>1. job.unit \in DOMAIN KeyOf
    BY DEF KeyOf
  <2> QED BY <2>1, HookKeyIs DEF File
<1>3. CASE (ValidYaml(d)) # TRUE
  <2>1. Write("hooks", Refused)
    BY <1>1, <1>3
  <2>2. file'["hooks"] = file["hooks"]
    BY <2>1, NotCut
  <2> QED BY <2>2, FailKeeps
<1>4. CASE (ValidYaml(d)) = TRUE
  <2>1. Write("hooks", r)
    BY <1>1, <1>4
  <2>2. ASSUME Neat("hooks")
        PROVE  /\ Bent(r, Line, Blocks("hooks"), s, K)
               /\ MoreKeys(r, o) =>
                    MoreKeys(file["hooks"], o) \/ job.unit = "claude-code-deploy"
    <3>1. Kept(file["hooks"], o) /\ o \in Plain /\ o # Absent /\ s = o.lines
      BY <2>2, NeatHooks DEF HooksOK
    <3>2. Present("hooks")
      <4>1. CASE file["hooks"] = o
        BY <3>1, <4>1 DEF Present
      <4>2. CASE file["hooks"] # o
        BY <3>1, <4>2, InDocs DEF Kept, Bent, Present
      <4> QED BY <4>1, <4>2
    <3>3. d = file["hooks"]
      BY <1>2, <3>2, Untouched
    <3>4. Bent(d, Line, Blocks("hooks"), s, K)
      <4>1. ValidYaml(file["hooks"])
        BY <1>4, <3>3
      <4> QED BY <2>2, <3>3, <4>1, HooksBent
    <3>5. Base(s, K, Line) /\ Holds(o, KeyLine(KeyOf["ears-linter"]))
          /\ \A i \in DOMAIN s : s[i] \in K
      BY <2>2, NeatHooks
    <3>6. Speaks(Line, Blocks("hooks"))
      BY <1>2, LineSpeaks
    <3>7. job.unit = "ears-linter" => KeyLine(k) \in K
      <4>1. PICK i \in DOMAIN s : s[i] = KeyLine(KeyOf["ears-linter"])
        BY <3>1, <3>5 DEF Holds, At
      <4> HIDE DEF K, s
      <4> QED BY <3>5, <4>1
    <3> HIDE DEF K, s, k, d, b
    <3>8. Bent(r, Line, Blocks("hooks"), s, K) /\ (KeyLine(k) \in K => KeysFrom(r, d))
      BY <1>2, <3>4, <3>5, <3>6, YamlAddTame
    <3>9. LinesIn(r) = r.lines /\ LinesIn(d) = d.lines
      BY <3>4, <3>8, InDocs DEF Bent
    <3> HIDE DEF r
    <3>10. job.unit = "ears-linter" => (MoreKeys(r, o) => MoreKeys(d, o))
      BY <3>7, <3>8, <3>9 DEF MoreKeys, KeysFrom
    <3> QED BY <3>3, <3>8, <3>10
  <2> HIDE DEF r
  <2> QED BY <2>1, <2>2, BentKeeps
<1> QED BY <1>3, <1>4

\* The step "spans", behind the step "hook".
LEMMA AddSpansTame ==
  ASSUME FilesOK, touched = {}, touched' = {}, HooksOK, AddSpans,
         Has(Lines("hooks"), <<"claude-code-deploy">>)
  PROVE  HooksKeep(TRUE)
<1> DEFINE d == Read("hooks")
           r == WithSpans(d)
           s == LinesIn(original["hooks"])
           K == Theirs(s)
<1>1. Write("hooks", r)
  BY DEF AddSpans
<1>2. "hooks" \in File
  BY DEF File
<1>3. ASSUME Neat("hooks")
      PROVE  Bent(r, Line, Blocks("hooks"), s, K)
  <2>1. Present("hooks") /\ Bent(file["hooks"], Line, Blocks("hooks"), s, K)
    BY <1>3, HooksBent
  <2>2. Bent(d, Line, Blocks("hooks"), s, K)
    BY <1>2, <2>1, Untouched
  <2>3. Base(s, K, Line)
    BY <1>3, NeatHooks
  <2>4. Speaks(Line, Blocks("hooks")) /\ SpanKeys(Line, Blocks("hooks"), HookKey)
    BY <1>2, LineSpeaks, HookKeyIs
  <2> HIDE DEF d, s, K
  <2> QED BY <2>2, <2>3, <2>4, SpansTame
<1> HIDE DEF r
<1> QED BY <1>1, <1>3, BentKeeps

\* The step "hooks" of a remove; claude-code-deploy's takes all keys that are not
\* the user's.
LEMMA RemoveHooksTame ==
  ASSUME FilesOK, touched = {}, touched' = {}, HooksOK, RemoveHooks,
         job.unit \in {"ears-linter", "claude-code-deploy"}
  PROVE  /\ HooksKeep(FALSE)
         /\ \/ file'["hooks"] = file["hooks"] /\ GiveUp
            \/ Neat("hooks") /\ job.unit = "claude-code-deploy" =>
                 ~MoreKeys(file'["hooks"], original["hooks"])
<1> DEFINE d == file["hooks"]
           bs == BlocksOf(job.unit, "hooks")
           q == Without(d, bs)
           r == IF job.unit = "claude-code-deploy" THEN SweepKeys(q) ELSE q
           o == original["hooks"]
           s == LinesIn(o)
           K == Theirs(s)
<1>0. "hooks" \in File /\ DOMAIN file = File
  BY DEF File, FilesOK
<1>1. Write("hooks", IF ~Present("hooks") THEN Absent
                     ELSE IF ~ValidYaml(d) \/ q = Refused THEN Refused ELSE r)
  <2>1. Readable("hooks") <=> Present("hooks")
    BY <1>0, Untouched
  <2>2. Write("hooks", IF ~Present("hooks") THEN Absent
                       ELSE IF ~Readable("hooks") \/ ~ValidYaml(d) \/ q = Refused
                         THEN Refused ELSE r)
    BY DEF RemoveHooks
  <2>3. CASE Present("hooks")
    BY <2>1, <2>2, <2>3
  <2>4. CASE ~Present("hooks")
    BY <2>2, <2>4
  <2> QED BY <2>3, <2>4
<1>2. CASE ~Neat("hooks")
  BY <1>2 DEF HooksKeep
<1>3. CASE Neat("hooks") /\ (ValidYaml(d)) # TRUE
  <2>1. Present("hooks")
    <3>1. Kept(d, o) /\ o # Absent
      BY <1>3, NeatHooks DEF HooksOK
    <3>2. d # Absent
      BY <3>1, InDocs DEF Kept, Bent
    <3> QED BY <3>2 DEF Present
  <2>2. Write("hooks", Refused)
    BY <1>1, <1>3, <2>1
  <2>3. file'["hooks"] = file["hooks"] /\ GiveUp
    BY <2>2, NotCut
  <2> QED BY <2>3, FailKeeps
<1>4. CASE Neat("hooks") /\ (ValidYaml(d)) = TRUE
  <2>1. Present("hooks") /\ Bent(d, Line, Blocks("hooks"), s, K)
    BY <1>4, HooksBent
  <2>2. Base(s, K, Line) /\ Refused \notin Docs(Line) /\ Blank \in Line
    BY <1>4, NeatHooks, ScaffoldAssumption, OtherLines
  <2>3. bs \in Seq(Blocks("hooks"))
    BY HookBlocksType
  <2>4. Bent(q, Line, Blocks("hooks"), s, K) /\ KeysFrom(q, d)
    <3> HIDE DEF d, bs, s, K
    <3> QED BY <2>1, <2>2, <2>3, WithoutTame
  <2>5. q # Refused
    BY <2>2, <2>4 DEF Bent
  <2>14. Declared(q.lines, Blocks("hooks"))
    <3> DEFINE B == Blocks("hooks")
    <3>1. d \in Docs(Line) /\ Whole(d.lines, B) /\ TornIn(d, B, B)
      BY <2>1 DEF Bent, TornIn
    <3>2. Declared(d.lines, B)
      BY <1>0, <2>1, Untouched
    <3> HIDE DEF d, bs, B
    <3>3. Less(q, d, Line, B, bs, Len(bs))
      BY <2>2, <2>3, <2>5, <3>1, WithoutShrinks DEF B
    <3>4. q \in Docs(Line) /\ Rest(q.lines, B) = Rest(d.lines, B)
      BY <3>3 DEF Less, Shrunk
    <3> HIDE DEF q
    <3>5. q.lines \in Seq(Line) /\ d.lines \in Seq(Line)
      BY <3>1, <3>4 DEF Docs, IsDoc
    <3> QED BY <3>2, <3>4, <3>5, DeclaredKept DEF B
  <2>6. Write("hooks", r)
    BY <1>1, <1>4, <2>1, <2>5
  <2> HIDE DEF q
  <2>7. /\ Bent(r, Line, Blocks("hooks"), s, K)
        /\ job.unit = "claude-code-deploy" =>
             \A i \in DOMAIN r.lines : IsKey(r.lines[i]) => r.lines[i] \in K
        /\ job.unit = "ears-linter" => KeysFrom(r, d)
    <3> HIDE DEF s, K
    <3> QED BY <2>2, <2>4, <2>14, SweepTame
  <2> HIDE DEF r, d, s, K
  <2>8. LinesIn(r) = r.lines /\ LinesIn(d) = d.lines
    BY <2>1, <2>7, InDocs DEF Bent
  <2>9. job.unit = "claude-code-deploy" => ~MoreKeys(r, o)
    BY <2>7, <2>8 DEF MoreKeys, K, s
  <2>10. job.unit = "ears-linter" => (MoreKeys(r, o) => MoreKeys(d, o))
    BY <2>7, <2>8 DEF MoreKeys, KeysFrom
  <2>11. HooksKeep(FALSE)
    BY <2>6, <2>7, <2>9, <2>10, BentKeeps DEF s, K, d
  <2>12. r # Refused
    BY <2>2, <2>7 DEF Bent
  <2>13. file'["hooks"] = r
    BY <1>0, <2>6, <2>12, NotCut
  <2> QED BY <2>9, <2>11, <2>13
<1> QED BY <1>2, <1>3, <1>4

----------------------------------------------------------------------------
(* What the files are while nobody else touches them. *)

\* Keys that are not the user's come with claude-code-deploy,
Keeper == "claude-code-deploy" \in installed \cup late \cup {job.unit}

\* and its remove sweeps them.
Sweeping == job.verb = "remove" /\ job.unit = "claude-code-deploy"

KeysOK ==
  Neat("hooks") /\ MoreKeys(file["hooks"], original["hooks"]) =>
    Keeper /\ (Sweeping => "hooks" \in Range(job.todo))

\* The hooks of the spans come after the hook that needs `hooks:`.
HookFirst(steps) ==
  \A i, j \in DOMAIN steps : steps[i] = "hook" /\ steps[j] = "spans" => i < j

\* The files are the user's, with what units put there.
Intact == TailOK("ignore") /\ TailOK("rules") /\ HooksOK /\ KeysOK

\* So they are as long as nobody else has touched them.
RInv ==
  /\ job.verb = "add" => HookFirst(job.todo)
  /\ touched = {} => Intact

\* A step leaves the keys in the care of claude-code-deploy.
InCare ==
  /\ Keeper => Keeper'
  /\ Sweeping' /\ "hooks" \notin Range(job'.todo) =>
       Sweeping /\ "hooks" \notin Range(job.todo)

\* The files as they were.
LEMMA RestoreInit ==
  ASSUME Init
  PROVE  RInv
<1>1. file = original /\ job = NoJob
  BY DEF Init
<1>2. FilesOK
  BY FilesInit DEF FInv
<1>3. TailOK("ignore") /\ TailOK("rules") /\ HooksOK
  BY <1>1 DEF TailOK, Grew, HooksOK, Kept
<1>4. ASSUME Neat("hooks")
      PROVE  ~MoreKeys(file["hooks"], original["hooks"])
  <2> DEFINE o == original["hooks"]
             s == LinesIn(o)
  <2>1. \A i \in DOMAIN s : s[i] \in Theirs(s)
    BY <1>2, <1>4, NeatHooks
  <2> QED BY <1>1, <2>1 DEF MoreKeys
<1>5. NoJob.verb # "add"
  BY NoJobOK
<1> QED BY <1>1, <1>3, <1>4, <1>5 DEF RInv, Intact, KeysOK

\* A command starts, goes on or ends.
LEMMA JobMoves ==
  ASSUME IInv, FInv, [Next]_vars
  PROVE  \/ job' = job
         \/ \E u \in Unit : job'.verb = "add" /\ job'.todo = AddSteps[u]
         \/ job'.verb # "add"
         \/ /\ job'.verb = job.verb /\ job'.todo = Tail(job.todo)
            /\ job.todo \in Seq(StepName) /\ job.todo # << >>
<1>1. CASE UserEdits \/ UserSpecifies \/ UNCHANGED vars
  BY <1>1 DEF UserEdits, UserSpecifies, vars
<1>2. ASSUME NEW u \in Unit, AddUnit(u) \/ RemoveUnit(u)
      PROVE  job'.verb # "add" \/ (job'.verb = "add" /\ job'.todo = AddSteps[u])
  BY <1>2 DEF AddUnit, RemoveUnit, Start
<1>3. CASE CleanOrphans
  BY <1>3 DEF CleanOrphans, Start
<1>4. CASE Step
  <2>1. job \in Jobs
    BY DEF IInv, JobOK
  <2>2. CASE GiveUp
    BY <2>2, NoJobOK DEF GiveUp
  <2>3. CASE (Advance \/ TakeBranch) /\ job.verb \in {"add", "remove"}
    <3>1. job.todo \in Seq(StepName) /\ job.todo # << >>
      BY <2>3, Who DEF IInv, FInv
    <3>2. job' = NoJob \/ (job'.verb = job.verb /\ job'.todo = Tail(job.todo))
      <4>1. CASE Advance
        BY <2>1, <4>1 DEF Advance, Jobs
      <4>2. CASE TakeBranch
        BY <2>1, <4>2 DEF TakeBranch, Jobs
      <4> QED BY <2>3, <4>1, <4>2
    <3> QED BY <3>1, <3>2, NoJobOK
  <2>4. CASE Advance /\ job.verb \notin {"add", "remove"}
    <3>1. job' = NoJob \/ job'.verb = job.verb
      BY <2>1, <2>4 DEF Advance, Jobs
    <3> QED BY <2>4, <3>1, NoJobOK
  <2>5. Advance \/ GiveUp \/ TakeBranch
    <3>1. ASSUME \/ AddIgnore \/ AddHook \/ AddSpans \/ AddRules
                 \/ RemoveIgnore \/ RemoveRules \/ RemoveHooks
          PROVE  Advance \/ GiveUp
      BY <3>1 DEF AddIgnore, AddHook, AddSpans, AddRules, RemoveIgnore, RemoveRules,
                  RemoveHooks, Write, CutShort, Leave
    <3>2. ASSUME \/ SpecifyInit \/ WipeSpecify \/ WipeSpecs \/ WipeAgent \/ DropBranch
                 \/ CleanStep \/ Save \/ Crash
          PROVE  Advance \/ GiveUp
      BY <3>2 DEF SpecifyInit, WipeSpecify, WipeSpecs, WipeAgent, DropBranch, CleanStep,
                  Save, Crash
    <3> QED BY <1>4, <3>1, <3>2 DEF Step
  <2>6. TakeBranch => job.verb = "add"
    BY DEF TakeBranch, Doing
  <2> QED BY <2>2, <2>3, <2>4, <2>5, <2>6
<1> QED BY <1>1, <1>2, <1>3, <1>4 DEF Next

\* The order of the steps of an add stays.
LEMMA HookFirstNext ==
  ASSUME IInv, FInv, job.verb = "add" => HookFirst(job.todo), [Next]_vars
  PROVE  job'.verb = "add" => HookFirst(job'.todo)
<1> SUFFICES ASSUME job'.verb = "add"
             PROVE  HookFirst(job'.todo)
  OBVIOUS
<1>1. CASE job' = job
  BY <1>1
<1>2. ASSUME NEW u \in Unit, job'.todo = AddSteps[u]
      PROVE  HookFirst(job'.todo)
  <2>1. CASE u = "claude-code-deploy"
    <3>1. AddSteps[u] = <<"ignore", "hook", "spans", "rules", "save">>
      BY <2>1 DEF AddSteps
    <3>2. HookFirst(<<"ignore", "hook", "spans", "rules", "save">>)
      BY DEF HookFirst
    <3> QED BY <1>2, <3>1, <3>2
  <2>2. CASE u # "claude-code-deploy"
    <3>1. "spans" \notin Range(AddSteps[u])
      BY <2>2, AddsAre DEF Unit
    <3> QED BY <1>2, <3>1 DEF HookFirst, Range
  <2> QED BY <2>1, <2>2
<1>3. CASE /\ job'.verb = job.verb /\ job'.todo = Tail(job.todo)
           /\ job.todo \in Seq(StepName) /\ job.todo # << >>
  <2> DEFINE s == job.todo
  <2>1. HookFirst(s) /\ s \in Seq(StepName) /\ s # << >>
    BY <1>3
  <2> HIDE DEF s
  <2>2. /\ Len(s) \in Nat /\ Len(s) > 0 /\ DOMAIN s = 1..Len(s)
        /\ DOMAIN Tail(s) = 1..(Len(s) - 1)
        /\ \A i \in 1..(Len(s) - 1) : Tail(s)[i] = s[i + 1]
    BY <2>1, HeadTailProperties, EmptySeq
  <2>3. \A i \in DOMAIN Tail(s) : i \in Nat /\ i + 1 \in DOMAIN s /\ Tail(s)[i] = s[i + 1]
    BY <2>2
  <2>4. ASSUME NEW i \in DOMAIN Tail(s), NEW j \in DOMAIN Tail(s),
               Tail(s)[i] = "hook", Tail(s)[j] = "spans"
        PROVE  i < j
    <3>1. i + 1 < j + 1
      BY <2>1, <2>3, <2>4 DEF HookFirst
    <3> QED BY <2>3, <3>1
  <2>5. HookFirst(Tail(s))
    BY <2>4 DEF HookFirst
  <2> QED BY <1>3, <2>5 DEF s
<1> QED BY <1>1, <1>2, <1>3, JobMoves

\* The hooks' file stays as it should be.
LEMMA HooksMove ==
  ASSUME NEW more, HooksOK, KeysOK, UNCHANGED original, HooksKeep(more), InCare,
         more => Keeper' /\ ~Sweeping'
  PROVE  HooksOK' /\ KeysOK'
<1>1. Neat("hooks")' <=> Neat("hooks")
  BY NeatSame
<1>2. HooksOK'
  BY <1>1 DEF HooksOK, HooksKeep
<1>3. ASSUME Neat("hooks"), MoreKeys(file'["hooks"], original["hooks"])
      PROVE  Keeper' /\ (Sweeping' => "hooks" \in Range(job'.todo))
  <2>1. MoreKeys(file["hooks"], original["hooks"]) \/ more
    BY <1>3 DEF HooksKeep
  <2>2. CASE MoreKeys(file["hooks"], original["hooks"])
    BY <1>3, <2>2 DEF KeysOK, InCare
  <2> QED BY <2>1, <2>2
<1>4. KeysOK'
  BY <1>1, <1>3 DEF KeysOK
<1> QED BY <1>2, <1>4

\* A command that goes on, but for the sweep itself, or that is cut short.
LEMMA OnwardHeld ==
  ASSUME JobOK, StepsOK, UNCHANGED installed, job.verb \in {"add", "remove"},
         GiveUp \/ Onward, GiveUp \/ ~Sweeping \/ Head(job.todo) # "hooks"
  PROVE  InCare
<1>1. job.todo \in Seq(StepName) /\ job.todo # << >>
  BY Who
<1>2. Range(job.todo) = {Head(job.todo)} \cup Range(Tail(job.todo))
  BY <1>1, TailRange
<1>3. CASE GiveUp
  BY <1>3, NoJobOK DEF GiveUp, InCare, Keeper, Sweeping
<1>4. CASE Onward /\ ~GiveUp
  BY <1>2, <1>4 DEF Onward, InCare, Keeper, Sweeping
<1> QED BY <1>3, <1>4

\* A step on a file of text.
LEMMA TextIntact ==
  ASSUME IInv, FInv, Intact, touched = {}, touched' = {},
         AddIgnore \/ AddRules \/ RemoveIgnore \/ RemoveRules
  PROVE  Intact'
<1>1. /\ JobOK /\ StepsOK /\ FilesOK /\ job.verb \in {"add", "remove"}
      /\ Head(job.todo) \in {"ignore", "rules"}
      /\ UNCHANGED <<installed, original>>
      /\ TailOK("ignore") /\ TailOK("rules") /\ HooksOK /\ KeysOK
  BY DEF IInv, FInv, Intact, AddIgnore, AddRules, RemoveIgnore, RemoveRules, Doing, Write, Leave
<1>2. Head(job.todo) = "ignore" => job.unit \in {"filter-state", "claude-code-deploy"}
  BY <1>1, Who
<1>3. TailOK("ignore")' /\ TailOK("rules")'
  BY <1>1, <1>2, TextStepsGrew
<1>4. Advance \/ GiveUp
  BY DEF AddIgnore, AddRules, RemoveIgnore, RemoveRules, Write, CutShort, Leave
<1>5. file'["hooks"] = file["hooks"]
  <2>1. PICK f \in {"ignore", "rules"} : \E new : Write(f, new)
    BY DEF AddIgnore, AddRules, RemoveIgnore, RemoveRules, Leave
  <2>2. file' = file \/ \E new : file' = [file EXCEPT ![f] = new]
    BY <2>1, NotCut
  <2> QED BY <1>1, <2>2 DEF FilesOK, File
<1>6. InCare
  <2>1. Onward \/ GiveUp
    BY <1>1, <1>4, Continues
  <2> QED BY <1>1, <2>1, OnwardHeld
<1>7. HooksKeep(FALSE)
  BY <1>1, <1>5, FailKeeps
<1>8. HooksOK' /\ KeysOK'
  BY <1>1, <1>6, <1>7, HooksMove
<1> QED BY <1>3, <1>8 DEF Intact

\* A step on extensions.yml.
LEMMA HooksIntact ==
  ASSUME IInv, FInv, Intact, job.verb = "add" => HookFirst(job.todo), touched = {},
         touched' = {}, AddHook \/ AddSpans \/ RemoveHooks
  PROVE  Intact'
<1>1. /\ JobOK /\ StepsOK /\ FilesOK /\ AddOK /\ job.verb \in {"add", "remove"}
      /\ Head(job.todo) \in {"hook", "spans", "hooks"}
      /\ UNCHANGED <<installed, original>>
      /\ TailOK("ignore") /\ TailOK("rules") /\ HooksOK /\ KeysOK
  BY DEF IInv, FInv, Intact, AddHook, AddSpans, RemoveHooks, Doing, Write
<1>2. Advance \/ GiveUp
  BY DEF AddHook, AddSpans, RemoveHooks, Write, CutShort
<1>3. Onward \/ GiveUp
  BY <1>1, <1>2, Continues
<1>4. TailOK("ignore")' /\ TailOK("rules")'
  <2>1. "ignore" \in File /\ "rules" \in File /\ DOMAIN file = File
    BY <1>1 DEF File, FilesOK
  <2>2. file'["ignore"] = file["ignore"] /\ file'["rules"] = file["rules"]
    <3>1. PICK new : Write("hooks", new)
      BY DEF AddHook, AddSpans, RemoveHooks
    <3>2. file' = file \/ file' = [file EXCEPT !["hooks"] = new]
      BY <3>1, NotCut
    <3> QED BY <2>1, <3>2
  <2>3. \A f : Neat(f)' <=> Neat(f)
    BY <1>1, NeatSame
  <2> QED BY <1>1, <2>2, <2>3 DEF TailOK
<1>5. CASE AddHook
  <2>1. job.verb = "add" /\ Head(job.todo) = "hook"
    BY <1>5 DEF AddHook, Doing
  <2>2. job.unit \in {"ears-linter", "claude-code-deploy"}
    BY <1>1, <2>1, Who
  <2>3. HooksKeep(job.unit = "claude-code-deploy")
    BY <1>1, <1>5, <2>2, AddHookTame
  <2>4. InCare
    BY <1>1, <1>3, <2>1, OnwardHeld
  <2>5. job.unit = "claude-code-deploy" => Keeper' /\ ~Sweeping'
    BY <1>1, <1>3, <2>1, NoJobOK DEF Onward, GiveUp, Keeper, Sweeping
  <2>6. HooksOK' /\ KeysOK'
    BY <1>1, <2>3, <2>4, <2>5, HooksMove
  <2> QED BY <1>4, <2>6 DEF Intact
<1>6. CASE AddSpans
  <2>1. job.verb = "add" /\ Head(job.todo) = "spans"
    BY <1>6 DEF AddSpans, Doing
  <2>2. job.unit = "claude-code-deploy" /\ job.todo \in Seq(StepName) /\ job.todo # << >>
    BY <1>1, <2>1, Who
  <2>3. "hook" \notin Range(job.todo)
    <3> DEFINE s == job.todo
    <3>1. HookFirst(s) /\ s \in Seq(StepName) /\ s # << >> /\ Head(s) = "spans"
      BY <2>1, <2>2
    <3> HIDE DEF s
    <3>2. Len(s) \in Nat /\ DOMAIN s = 1..Len(s) /\ 1 \in DOMAIN s /\ s[1] = "spans"
      BY <3>1, EmptySeq
    <3>3. \A i \in DOMAIN s : s[i] # "hook"
      BY <3>1, <3>2 DEF HookFirst
    <3> QED BY <3>3 DEF Range, s
  <2>4. Has(Lines("hooks"), <<"claude-code-deploy">>)
    <3>1. "hooks" \in File /\ "claude-code-deploy" \in Unit
      BY DEF File, Unit
    <3>2. <<"claude-code-deploy">> \in Range(BlocksOf("claude-code-deploy", "hooks"))
      BY <3>1, BlocksAre
    <3>3. StepFor("claude-code-deploy", "hooks", <<"claude-code-deploy">>) = "hook"
      BY DEF StepFor
    <3>4. InFile("hooks", <<"claude-code-deploy">>)
      BY <1>1, <2>1, <2>2, <2>3, <3>1, <3>2, <3>3 DEF AddOK
    <3> QED BY <3>4 DEF InFile
  <2>5. HooksKeep(TRUE)
    BY <1>1, <1>6, <2>4, AddSpansTame
  <2>6. InCare
    BY <1>1, <1>3, <2>1, OnwardHeld
  <2>7. Keeper' /\ ~Sweeping'
    BY <1>1, <1>3, <2>1, <2>2, NoJobOK DEF Onward, GiveUp, Keeper, Sweeping
  <2>8. HooksOK' /\ KeysOK'
    BY <1>1, <2>5, <2>6, <2>7, HooksMove
  <2> QED BY <1>4, <2>8 DEF Intact
<1>7. CASE RemoveHooks
  <2>1. job.verb = "remove" /\ Head(job.todo) = "hooks"
    BY <1>7 DEF RemoveHooks, Doing
  <2>2. job.unit \in {"ears-linter", "claude-code-deploy"}
    BY <1>1, <2>1, Who
  <2>3. /\ HooksKeep(FALSE)
        /\ \/ file'["hooks"] = file["hooks"] /\ GiveUp
           \/ Neat("hooks") /\ job.unit = "claude-code-deploy" =>
                ~MoreKeys(file'["hooks"], original["hooks"])
    BY <1>1, <1>7, <2>2, RemoveHooksTame
  <2>4. CASE GiveUp \/ job.unit # "claude-code-deploy"
    <3>1. GiveUp \/ (Onward /\ ~Sweeping)
      BY <1>3, <2>4 DEF Sweeping
    <3>2. InCare
      BY <1>1, <3>1, OnwardHeld
    <3>3. HooksOK' /\ KeysOK'
      BY <1>1, <2>3, <3>2, HooksMove
    <3> QED BY <1>4, <3>3 DEF Intact
  <2>5. CASE ~GiveUp /\ job.unit = "claude-code-deploy"
    <3>1. Neat("hooks") => ~MoreKeys(file'["hooks"], original["hooks"])
      BY <2>3, <2>5
    <3>2. Neat("hooks")' <=> Neat("hooks")
      BY <1>1, NeatSame
    <3>3. KeysOK'
      BY <1>1, <3>1, <3>2 DEF KeysOK
    <3>4. HooksOK'
      BY <1>1, <2>3, <3>2 DEF HooksKeep, HooksOK
    <3> QED BY <1>4, <3>3, <3>4 DEF Intact
  <2> QED BY <2>4, <2>5
<1> QED BY <1>5, <1>6, <1>7

\* A step that leaves the files alone.
LEMMA QuietIntact ==
  ASSUME Intact, UNCHANGED <<file, original>>, InCare
  PROVE  Intact'
<1>1. TailOK("ignore") /\ TailOK("rules") /\ HooksOK /\ KeysOK
  BY DEF Intact
<1>2. TailOK("ignore")' /\ TailOK("rules")'
  <2>1. \A f : Neat(f)' <=> Neat(f)
    BY NeatSame
  <2> QED BY <1>1, <2>1 DEF TailOK
<1>3. HooksKeep(FALSE)
  BY <1>1, FailKeeps
<1>4. HooksOK' /\ KeysOK'
  BY <1>1, <1>3, HooksMove
<1> QED BY <1>2, <1>4 DEF Intact

\* A command starts: a remove of claude-code-deploy is to sweep the keys.
LEMMA StartIntact ==
  ASSUME Intact, (\E u \in Unit : AddUnit(u) \/ RemoveUnit(u)) \/ CleanOrphans
  PROVE  Intact'
<1>1. UNCHANGED <<file, original, installed, late>> /\ job = NoJob
  BY DEF AddUnit, RemoveUnit, CleanOrphans, Start, Idle
<1>2. Keeper => Keeper'
  BY <1>1, NoJobOK DEF Keeper
<1>3. Sweeping' => "hooks" \in Range(job'.todo)
  <2> SUFFICES ASSUME Sweeping'
               PROVE  "hooks" \in Range(job'.todo)
    OBVIOUS
  <2>1. PICK u \in Unit : RemoveUnit(u)
    BY DEF AddUnit, CleanOrphans, Start, Sweeping
  <2>2. PICK steps \in RemoveSteps[u] : Start(u, "remove", steps)
    BY <2>1 DEF RemoveUnit
  <2>3. job'.unit = u /\ job'.todo = steps
    BY <2>2 DEF Start
  <2>4. u = "claude-code-deploy"
    BY <2>3 DEF Sweeping
  <2>5. Range(steps) = {"ignore", "rules", "hooks", "save"}
    BY <2>4, RemovesAre
  <2> QED BY <2>3, <2>5
<1>4. InCare
  BY <1>2, <1>3 DEF InCare
<1> QED BY <1>1, <1>4, QuietIntact

\* A command ends: of claude-code-deploy's keys none is left once it is not installed.
LEMMA SaveIntact ==
  ASSUME IInv, FInv, Intact, Save
  PROVE  Intact'
<1>1. JobOK /\ StepsOK
  BY DEF IInv, FInv
<1>2. job.verb \in {"add", "remove"} /\ Len(job.todo) = 1 /\ "hooks" \notin Range(job.todo)
  BY <1>1, SaveIs
<1>3. /\ job' = NoJob /\ late' = late \ {job.unit}
      /\ UNCHANGED <<file, original>>
      /\ installed' = IF job.verb = "add" THEN installed \cup {job.unit}
                      ELSE installed \ {job.unit}
  BY <1>2 DEF Save, Advance
<1>4. ~Sweeping'
  BY <1>3, NoJobOK DEF Sweeping
<1>5. CASE ~Sweeping
  <2>1. Keeper => Keeper'
    BY <1>2, <1>3, <1>5 DEF Keeper, Sweeping
  <2>2. InCare
    BY <1>4, <2>1 DEF InCare
  <2> QED BY <1>3, <2>2, QuietIntact
<1>6. CASE Sweeping
  <2>1. Neat("hooks") => ~MoreKeys(file["hooks"], original["hooks"])
    BY <1>2, <1>6 DEF Intact, KeysOK
  <2>2. \A f : Neat(f)' <=> Neat(f)
    BY <1>3, NeatSame
  <2>3. KeysOK'
    BY <1>3, <2>1, <2>2 DEF KeysOK
  <2>4. TailOK("ignore")' /\ TailOK("rules")' /\ HooksOK'
    BY <1>3, <2>2 DEF Intact, TailOK, HooksOK
  <2> QED BY <2>3, <2>4 DEF Intact
<1> QED BY <1>5, <1>6

\* SpecKit's steps, clean-ups and commands that are cut short do nothing to the files,
\* or count as having taken them as a whole.
LEMMA RestIntact ==
  ASSUME IInv, FInv, Intact, touched' = {},
         \/ SpecifyInit \/ TakeBranch \/ WipeSpecify \/ WipeSpecs \/ WipeAgent
         \/ DropBranch \/ CleanStep \/ Crash
  PROVE  Intact'
<1>1. JobOK /\ StepsOK /\ FilesOK /\ job \in Jobs
  BY DEF IInv, FInv, JobOK
<1>2. UNCHANGED <<file, original, installed>>
  <2>1. CASE SpecifyInit
    BY <2>1 DEF SpecifyInit
  <2>2. CASE WipeSpecify
    <3>1. "hooks" \in File /\ file["hooks"] = Absent
      BY <2>2 DEF WipeSpecify, Present, File
    <3>2. file' = file
      BY <1>1, <2>2, <3>1 DEF WipeSpecify, FilesOK
    <3> QED BY <2>2, <3>2 DEF WipeSpecify
  <2>3. CASE WipeAgent
    BY <2>3 DEF WipeAgent
  <2>4. CASE TakeBranch \/ WipeSpecs \/ DropBranch \/ CleanStep \/ Crash
    BY <2>4 DEF TakeBranch, WipeSpecs, DropBranch, CleanStep, Crash, history
  <2> QED BY <2>1, <2>2, <2>3, <2>4
<1>3. InCare
  <2>1. CASE GiveUp
    BY <1>2, <2>1, NoJobOK DEF GiveUp, InCare, Keeper, Sweeping
  <2>2. CASE Advance /\ job.verb \in {"add", "remove"}
             /\ Head(job.todo) \notin {"save", "hooks"}
    <3>1. Onward
      BY <1>1, <2>2, Continues
    <3> QED BY <1>1, <1>2, <2>2, <3>1, OnwardHeld
  <2>3. CASE TakeBranch
    <3>1. job.verb = "add" /\ Head(job.todo) = "branch"
      BY <2>3 DEF TakeBranch, Doing
    <3>2. job.unit = "speckit"
      BY <1>1, <3>1, Who
    <3>3. /\ job' = [job EXCEPT !.todo = Tail(@), !.ours = (branch = "none")]
          /\ late' = late
      BY <2>3 DEF TakeBranch, history
    <3>4. job'.unit = job.unit /\ job'.verb = job.verb /\ job'.todo = Tail(job.todo)
      BY <1>1, <3>3 DEF Jobs
    <3>5. Onward
      BY <3>1, <3>2, <3>3, <3>4 DEF Onward
    <3> QED BY <1>1, <1>2, <3>1, <3>5, OnwardHeld
  <2>4. CASE CleanStep
    <3>1. job.unit = "doctor" /\ job.verb = "clean" /\ Advance
      BY <1>1, <2>4 DEF CleanStep, JobOK
    <3>2. late \ {"doctor"} \subseteq late'
      BY <3>1 DEF Advance
    <3>3. job' = NoJob \/ job'.verb = "clean"
      BY <1>1, <3>1 DEF Advance, Jobs
    <3> QED BY <1>2, <3>1, <3>2, <3>3, NoJobOK DEF InCare, Keeper, Sweeping
  <2>5. \/ GiveUp \/ TakeBranch \/ CleanStep
        \/ /\ Advance /\ job.verb \in {"add", "remove"}
           /\ Head(job.todo) \notin {"save", "hooks"}
    BY DEF SpecifyInit, WipeSpecify, WipeSpecs, WipeAgent, DropBranch, Crash, Doing
  <2> QED BY <2>1, <2>2, <2>3, <2>4, <2>5
<1> QED BY <1>2, <1>3, QuietIntact

\* Every step keeps what the files are.
LEMMA RestoreNext ==
  ASSUME IInv, FInv, RInv, [Next]_vars
  PROVE  RInv'
<1>1. job'.verb = "add" => HookFirst(job'.todo)
  BY HookFirstNext DEF RInv
<1>2. ASSUME touched' = {}
      PROVE  Intact'
  <2>1. touched = {} /\ ~UserEdits
    <3>1. \A e, g : touched \cup {e} # {} /\ touched \cup {e, g} # {}
      OBVIOUS
    <3>2. ASSUME SpecifyInit \/ WipeSpecify \/ WipeAgent
          PROVE  touched' = touched
      BY <1>2, <3>1, <3>2 DEF SpecifyInit, WipeSpecify, WipeAgent
    <3>3. ASSUME \/ UserSpecifies \/ UNCHANGED vars
                 \/ \E u \in Unit : AddUnit(u) \/ RemoveUnit(u)
                 \/ CleanOrphans
          PROVE  touched' = touched
      BY <3>3 DEF UserSpecifies, vars, history, AddUnit, RemoveUnit, CleanOrphans, Start
    <3>4. ASSUME \/ AddIgnore \/ AddHook \/ AddSpans \/ AddRules
                 \/ RemoveIgnore \/ RemoveRules \/ RemoveHooks
          PROVE  touched' = touched
      BY <1>2, <3>1, <3>4 DEF AddIgnore, AddHook, AddSpans, AddRules, RemoveIgnore,
                              RemoveRules, RemoveHooks, Write, CutShort, Leave
    <3>5. ASSUME TakeBranch \/ WipeSpecs \/ DropBranch \/ CleanStep \/ Save \/ Crash
          PROVE  touched' = touched
      BY <3>5 DEF TakeBranch, WipeSpecs, DropBranch, CleanStep, Save, Crash, history
    <3>6. ~UserEdits
      BY <1>2, <3>1 DEF UserEdits, AddLine, Garble, Revert
    <3> QED BY <1>2, <3>2, <3>3, <3>4, <3>5, <3>6 DEF Next, Step
  <2>2. Intact
    BY <2>1 DEF RInv
  <2>3. CASE AddIgnore \/ AddRules \/ RemoveIgnore \/ RemoveRules
    BY <1>2, <2>1, <2>2, <2>3, TextIntact
  <2>4. CASE AddHook \/ AddSpans \/ RemoveHooks
    BY <1>2, <2>1, <2>2, <2>4, HooksIntact DEF RInv
  <2>5. CASE (\E u \in Unit : AddUnit(u) \/ RemoveUnit(u)) \/ CleanOrphans
    BY <2>2, <2>5, StartIntact
  <2>6. CASE Save
    BY <2>2, <2>6, SaveIntact
  <2>7. CASE \/ SpecifyInit \/ TakeBranch \/ WipeSpecify \/ WipeSpecs \/ WipeAgent
             \/ DropBranch \/ CleanStep \/ Crash
    BY <1>2, <2>2, <2>7, RestIntact
  <2>8. CASE UserSpecifies \/ UNCHANGED vars
    <3>1. UNCHANGED <<file, original, job, late, installed>>
      BY <2>8 DEF UserSpecifies, vars, history
    <3>2. InCare
      BY <3>1 DEF InCare, Keeper, Sweeping
    <3> QED BY <2>2, <3>1, <3>2, QuietIntact
  <2> QED BY <2>1, <2>3, <2>4, <2>5, <2>6, <2>7, <2>8 DEF Next, Step
<1> QED BY <1>1, <1>2 DEF RInv

\* When no unit is left the files are the user's alone.
LEMMA FilesBack ==
  ASSUME IInv, FInv, RInv
  PROVE  RoundTrip
<1> SUFFICES ASSUME Idle, installed = {}, late = {}, touched = {}, NEW f \in File, Neat(f)
             PROVE  file[f] = original[f]
  BY DEF RoundTrip
<1> DEFINE d == file[f]
           o == original[f]
           s == LinesIn(o)
<1>1. Intact /\ FilesOK
  BY DEF RInv, FInv
<1>2. d \in Docs(Line) \cup {Absent} /\ o \in Plain \cup {Absent}
  BY <1>1 DEF FilesOK
<1>3. \A i \in DOMAIN Lines(f) : ~IsMarked(Lines(f)[i])
  <2>1. \A b \in Blocks(f) : ~Has(Lines(f), b)
    <3> SUFFICES ASSUME NEW b \in Blocks(f)
                 PROVE  ~InFile(f, b)
      BY DEF InFile
    <3>1. PICK u \in Unit : b \in Range(BlocksOf(u, f))
      BY OfUnit
    <3>2. u \notin installed \cup late \cup {job.unit}
      <4>1. job.unit = "none"
        BY NoJobOK DEF Idle
      <4> QED BY <4>1 DEF Unit
    <3> QED BY <3>1, <3>2 DEF FInv, AbsentOK
  <2>2. /\ Declared(Lines(f), Blocks(f))
        /\ \A b \in Blocks(f) : Led(Lines(f), b)
    BY <1>1, Untouched DEF FilesOK, Sane
  <2> SUFFICES ASSUME NEW i \in DOMAIN Lines(f), IsMarked(Lines(f)[i])
               PROVE  FALSE
    OBVIOUS
  <2> DEFINE l == Lines(f)
             B == Blocks(f)
  <2>3. /\ l \in Seq(Line) /\ Declared(l, B) /\ i \in DOMAIN l /\ IsMarked(l[i])
        /\ \A b \in B : Led(l, b)
    BY <1>1, <2>2, LinesType
  <2>4. \A b \in B : ~Has(l, b)
    BY <2>1
  <2> HIDE DEF l, B
  <2>5. PICK b \in B : l[i] \in {Begin(b), Body(b), End(b)}
    BY <2>3 DEF Declared, OfBlock
  <2>6. LinesAt(l, b) = {}
    BY <2>3, <2>4, NoLines
  <2> QED BY <2>3, <2>5, <2>6, RangeBlock DEF LinesAt
<1>4. Lines(f) = LinesIn(d)
  BY LinesAre
<1>5. CASE f # "hooks"
  <2>1. Grew(d, o)
    BY <1>1, <1>5 DEF Intact, TailOK, File
  <2>2. CASE d # o
    <3>1. /\ d # Absent /\ d.ended /\ d.lines # << >> /\ Trimmed(d.lines)
          /\ Extends(d.lines, s)
      BY <2>1, <2>2 DEF Grew
    <3>2. s \in Seq(Line) /\ d.lines \in Seq(Line) /\ Lines(f) = d.lines
      BY <1>1, <1>2, <1>4, <1>5, <3>1, NeatText DEF Docs, IsDoc, LinesIn
    <3>3. d.lines = s
      <4> DEFINE l == d.lines
      <4>1. l \in Seq(Line) /\ s \in Seq(Line) /\ Extends(l, s) /\ Trimmed(l)
            /\ \A i \in DOMAIN l : ~IsMarked(l[i])
        BY <1>3, <3>1, <3>2
      <4> HIDE DEF l, s
      <4>2. l = s
        BY <4>1, ExtendsDone
      <4> QED BY <4>2 DEF l
    <3>4. o # Absent
      BY <3>1, <3>3 DEF LinesIn
    <3>5. o \in Docs(Line) /\ d \in Docs(Line) /\ o.ended /\ o.lines = s
      BY <1>2, <1>5, <3>1, <3>4 DEF Plain, Neat, LinesIn
    <3> QED BY <3>1, <3>3, <3>5 DEF Docs, IsDoc
  <2> QED BY <2>2
<1>6. CASE f = "hooks"
  <2> DEFINE K == Theirs(s)
  <2>1. Kept(d, o) /\ ~MoreKeys(d, o)
    <3>1. HooksOK /\ KeysOK
      BY <1>1 DEF Intact
    <3>2. ~Keeper
      BY NoJobOK DEF Keeper, Idle
    <3> QED BY <1>6, <3>1, <3>2 DEF HooksOK, KeysOK
  <2>2. CASE d # o
    <3>1. d \in Docs(Line) /\ d.ended /\ Only(d.lines, Where(d.lines, K)) = s
      BY <1>6, <2>1, <2>2 DEF Kept, Bent, Tame
    <3>2. /\ o \in Plain /\ s = o.lines /\ o.ended
      BY <1>1, <1>6, NeatHooks
    <3>3. LinesIn(d) = d.lines /\ Lines(f) = d.lines
      BY <1>4, <3>1, InDocs DEF LinesIn
    <3> DEFINE l == d.lines
    <3>4. l \in Seq(Line) /\ \A i \in DOMAIN l : l[i] \in K
      <4>1. l \in Seq(Line)
        BY <3>1 DEF Docs, IsDoc
      <4>2. \A i \in DOMAIN l : ~IsMarked(l[i]) /\ (IsKey(l[i]) => l[i] \in K)
        BY <1>3, <2>1, <3>3 DEF MoreKeys
      <4>3. \A i \in DOMAIN l : l[i] \in Line
        BY <4>1
      <4> HIDE DEF l
      <4>4. \A i \in DOMAIN l : l[i] \in K
        BY <4>2, <4>3 DEF Theirs
      <4> QED BY <4>1, <4>4
    <3>5. Only(l, Where(l, K)) = s
      BY <3>1
    <3>6. l = s
      <4> HIDE DEF l, s, K
      <4>1. Where(l, K) = 1..Len(l) /\ Where(l, K) \in SUBSET (1..Len(l))
        BY <3>4 DEF Where
      <4>2. Only(l, Where(l, K)) = l
        BY <3>4, <4>1, OnlyAll
      <4> QED BY <3>5, <4>2
    <3> QED BY <3>1, <3>2, <3>6 DEF Plain, Docs, IsDoc
  <2> QED BY <2>2
<1> QED BY <1>5, <1>6

\* What the files are is inductive, given the two invariants.
THEOREM IntactInvariant == Spec => [](IInv /\ FInv /\ RInv)
<1>1. Init => IInv /\ FInv /\ RInv
  BY InitInv, FilesInit, RestoreInit
<1>2. (IInv /\ FInv /\ RInv) /\ [Next]_vars => (IInv /\ FInv /\ RInv)'
  BY NextInv, FilesNext, RestoreNext
<1> QED
  BY <1>1, <1>2, PTL DEF Spec

\* add and remove are inverse: once no unit is left each neat file is what it was,
\* whatever units came and went, and whatever commands were killed between their
\* steps, but not inside a write.
THEOREM FilesReturn == Spec => []RoundTrip
<1>1. IInv /\ FInv /\ RInv => RoundTrip
  BY FilesBack
<1> QED
  BY <1>1, IntactInvariant, PTL
============================================================================
