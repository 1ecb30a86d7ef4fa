--------------------------- MODULE ProfileStoreProofs ---------------------------
(***************************************************************************)
(* The invariants of ProfileStore for any forms, targets, inputs, texts,   *)
(* names and bounds. What the operators compute is defined by recursion on *)
(* sequences (Keep, Parse, Importing, Max, SetToSeq); what they return is  *)
(* proved by induction, which the library has as the existence of a        *)
(* minimal element: InductionOnSets puts it to use. The invariant itself   *)
(* has two halves, the stores and the forms.                               *)
(***************************************************************************)
EXTENDS ProfileStore, SequenceTheorems, FiniteSetTheorems, FunctionTheorems, WellFoundedInduction, TLAPS

(* Induction, stated with sets: what holds of 0, and of n + 1 if of n, is all there is. *)
LEMMA InductionOnSets ==
    ASSUME NEW S, 0 \in S, \A n \in Nat : n \in S => n + 1 \in S
    PROVE  Nat \subseteq S
<1>1. \A i, j \in Nat : <<i, j>> \in OpToRel(<, Nat) <=> i < j
  BY DEF OpToRel
<1>2. SUFFICES ASSUME NEW n \in Nat \ S PROVE FALSE
  OBVIOUS
<1>3. Nat \ S \subseteq Nat /\ Nat \ S # {}
  BY <1>2
<1>4. PICK m \in Nat \ S : \A k \in Nat \ S : ~ (<<k, m>> \in OpToRel(<, Nat))
  <2> DEFINE T == Nat \ S
  <2>1. T \subseteq Nat /\ T # {}
    BY <1>3
  <2> HIDE DEF T
  <2>2. \E m \in T : \A k \in T : ~ (<<k, m>> \in OpToRel(<, Nat))
    BY <2>1, NatLessThanWellFounded, WFMin
  <2> QED BY <2>2 DEF T
<1>5. m # 0 /\ m \in Nat
  BY <1>4
<1>6. m - 1 \in Nat /\ m - 1 < m /\ (m - 1) + 1 = m
  BY <1>5
<1>7. m - 1 \notin S
  BY <1>4, <1>6
<1>8. m - 1 \in Nat \ S
  BY <1>6, <1>7
<1> QED BY <1>1, <1>4, <1>5, <1>6, <1>8

(* The same up to a bound. *)
LEMMA InductionUpTo ==
    ASSUME NEW S, NEW n \in Nat, 0 \in S, \A i \in 0..n : i < n /\ i \in S => i + 1 \in S
    PROVE  0..n \subseteq S
<1> DEFINE T == {i \in Nat : i <= n => i \in S}
<1>1. 0 \in T
  OBVIOUS
<1>2. \A i \in Nat : i \in T => i + 1 \in T
  OBVIOUS
<1> HIDE DEF T
<1>3. Nat \subseteq T
  BY <1>1, <1>2, InductionOnSets
<1> QED BY <1>3 DEF T

------------------------------------------------------------------------------
(* Keep. *)

(* What Keep computes, as its definition has it: a function equal to an expression in itself. *)
KeepRec(s, S, f) ==
  f = [i \in 0..Len(s) |-> IF i = 0 THEN << >>
            ELSE IF s[i] \in S THEN Append(f[i - 1], s[i]) ELSE f[i - 1]]

(* There is such a function. *)
LEMMA KeepExists ==
    ASSUME NEW A, NEW s \in Seq(A), NEW S
    PROVE  \E f : KeepRec(s, S, f)
<1> DEFINE n == Len(s)
           Next1(x, i) == IF s[i] \in S THEN Append(x, s[i]) ELSE x
           Upto(m, f) == f = [i \in 0..m |-> IF i = 0 THEN << >> ELSE Next1(f[i - 1], i)]
           T == {m \in Nat : \E f : Upto(m, f)}
<1> HIDE DEF Next1
<1>1. 0 \in T
  <2>1. Upto(0, [i \in 0..0 |-> << >>])
    OBVIOUS
  <2> QED BY <2>1
<1>2. \A m \in Nat : m \in T => m + 1 \in T
  <2> SUFFICES ASSUME NEW m \in Nat, NEW f, Upto(m, f) PROVE \E g : Upto(m + 1, g)
    OBVIOUS
  <2> DEFINE g == [i \in 0..m+1 |-> IF i <= m THEN f[i] ELSE Next1(f[m], m + 1)]
  <2>1. Upto(m + 1, g)
    OBVIOUS
  <2> QED BY <2>1
<1>3. n \in T
  <2> HIDE DEF T
  <2> QED BY <1>1, <1>2, InductionOnSets
<1> QED BY <1>3 DEF KeepRec, Next1

(* Keep by its recursion, prefix by prefix. *)
LEMMA KeepBy ==
    ASSUME NEW A, NEW s \in Seq(A), NEW S
    PROVE  \E f : /\ f[0] = << >> /\ Keep(s, S) = f[Len(s)]
                  /\ \A i \in 1..Len(s) :
                        f[i] = IF s[i] \in S THEN Append(f[i - 1], s[i]) ELSE f[i - 1]
<1>0. Len(s) \in Nat
  OBVIOUS
<1> DEFINE k == CHOOSE f : KeepRec(s, S, f)
<1>1. KeepRec(s, S, k)
  BY KeepExists
<1>2. Keep(s, S) = k[Len(s)]
  BY DEF Keep, KeepRec
<1> HIDE DEF k
<1>3. k[0] = << >>
  BY <1>0, <1>1 DEF KeepRec
<1>4. ASSUME NEW i \in 1..Len(s)
      PROVE  k[i] = IF s[i] \in S THEN Append(k[i - 1], s[i]) ELSE k[i - 1]
  <2>1. i \in 0..Len(s) /\ i # 0
    BY <1>0
  <2> QED BY <1>1, <2>1 DEF KeepRec
<1> QED BY <1>2, <1>3, <1>4

(* k has the elements of s that are in S, in their order. *)
KeptFrom(k, s, S, A) ==
    /\ k \in Seq(A)
    /\ \A j \in DOMAIN k : k[j] \in S /\ \E m \in DOMAIN s : s[m] = k[j]
    /\ \A m \in DOMAIN s : s[m] \in S => \E j \in DOMAIN k : k[j] = s[m]
    /\ \A i, j \in DOMAIN k : i < j =>
          \E m, n \in DOMAIN s : m < n /\ s[m] = k[i] /\ s[n] = k[j]

(* Keep returns the elements of s that are in S, in their order. *)
LEMMA KeepIs ==
    ASSUME NEW A, NEW s \in Seq(A), NEW S
    PROVE  KeptFrom(Keep(s, S), s, S, A)
<1>1. PICK f : /\ f[0] = << >> /\ Keep(s, S) = f[Len(s)]
               /\ \A i \in 1..Len(s) :
                     f[i] = IF s[i] \in S THEN Append(f[i - 1], s[i]) ELSE f[i - 1]
  BY KeepBy
<1>0. Len(s) \in Nat /\ DOMAIN s = 1..Len(s) /\ \A m \in 1..Len(s) : s[m] \in A
  OBVIOUS
<1> DEFINE Good(q, l) ==
             /\ q \in Seq(A) /\ Len(q) <= l
             /\ \A j \in 1..Len(q) : q[j] \in S /\ \E m \in 1..l : s[m] = q[j]
             /\ \A m \in 1..l : s[m] \in S => \E j \in 1..Len(q) : q[j] = s[m]
             /\ \A i, j \in 1..Len(q) : i < j =>
                   \E m, n \in 1..l : m < n /\ s[m] = q[i] /\ s[n] = q[j]
           T == {l \in 0..Len(s) : Good(f[l], l)}
<1>2. 0 \in T
  <2>1. f[0] = << >>
    BY <1>0, <1>1
  <2>2. Good(<< >>, 0)
    OBVIOUS
  <2> HIDE DEF Good
  <2> QED BY <1>0, <2>1, <2>2
<1>3. ASSUME NEW l \in 0..Len(s), l < Len(s), Good(f[l], l) PROVE Good(f[l + 1], l + 1)
  <2>1. l + 1 \in 1..Len(s) /\ l \in Nat /\ s[l + 1] \in A
    BY <1>0, <1>3
  <2>2. f[l + 1] = IF s[l + 1] \in S THEN Append(f[l], s[l + 1]) ELSE f[l]
    <3>1. f[l + 1] = IF s[l + 1] \in S THEN Append(f[(l + 1) - 1], s[l + 1]) ELSE f[(l + 1) - 1]
      BY <1>1, <2>1
    <3>2. (l + 1) - 1 = l
      BY <2>1
    <3> QED BY <3>1, <3>2
  <2> DEFINE q == f[l]
             x == s[l + 1]
  <2> HIDE DEF q, x
  <2>3. CASE x \notin S
    <3>1. f[l + 1] = q
      BY <2>2, <2>3 DEF q, x
    <3>2. Good(q, l + 1)
      BY <1>3, <2>1, <2>3 DEF q, x
    <3> QED BY <3>1, <3>2
  <2>4. CASE x \in S
    <3> DEFINE r == Append(q, x)
    <3>1. f[l + 1] = r
      BY <2>2, <2>4 DEF q, x
    <3>2. Good(q, l)
      BY <1>3 DEF q
    <3>3. /\ r \in Seq(A) /\ Len(r) = Len(q) + 1 /\ Len(q) \in Nat
          /\ r[Len(q) + 1] = x /\ \A j \in 1..Len(q) : r[j] = q[j]
      BY <2>1, <3>2 DEF x
    <3> HIDE DEF r
    <3>4. \A j \in 1..Len(r) : r[j] \in S /\ \E m \in 1..l+1 : s[m] = r[j]
      <4> SUFFICES ASSUME NEW j \in 1..Len(r) PROVE r[j] \in S /\ \E m \in 1..l+1 : s[m] = r[j]
        OBVIOUS
      <4>1. CASE j = Len(q) + 1
        BY <2>1, <2>4, <3>3, <4>1 DEF x
      <4>2. CASE j \in 1..Len(q)
        <5>1. PICK m \in 1..l : s[m] = q[j]
          BY <3>2, <4>2
        <5>2. m \in 1..l+1 /\ r[j] = q[j] /\ q[j] \in S
          BY <2>1, <3>2, <3>3, <4>2, <5>1
        <5> QED BY <5>1, <5>2
      <4> QED BY <3>3, <4>1, <4>2
    <3>5. \A m \in 1..l+1 : s[m] \in S => \E j \in 1..Len(r) : r[j] = s[m]
      <4> SUFFICES ASSUME NEW m \in 1..l+1, s[m] \in S PROVE \E j \in 1..Len(r) : r[j] = s[m]
        OBVIOUS
      <4>1. CASE m = l + 1
        <5>1. Len(q) + 1 \in 1..Len(r)
          BY <3>3
        <5> QED BY <3>3, <4>1, <5>1 DEF x
      <4>2. CASE m \in 1..l
        <5>1. PICK j \in 1..Len(q) : q[j] = s[m]
          BY <3>2, <4>2
        <5>2. j \in 1..Len(r) /\ r[j] = s[m]
          BY <3>3, <5>1
        <5> QED BY <5>2
      <4> QED BY <2>1, <4>1, <4>2
    <3>6. ASSUME NEW i \in 1..Len(r), NEW j \in 1..Len(r), i < j
          PROVE  \E m, n \in 1..l+1 : m < n /\ s[m] = r[i] /\ s[n] = r[j]
      <4>1. i \in 1..Len(q) /\ r[i] = q[i]
        BY <3>3, <3>6
      <4>2. CASE j \in 1..Len(q)
        <5>1. PICK m \in 1..l, n \in 1..l : m < n /\ s[m] = q[i] /\ s[n] = q[j]
          BY <3>2, <3>6, <4>1, <4>2
        <5>2. m \in 1..l+1 /\ n \in 1..l+1 /\ s[n] = r[j]
          BY <2>1, <3>3, <4>2, <5>1
        <5> QED BY <4>1, <5>1, <5>2
      <4>3. CASE j = Len(q) + 1
        <5>1. PICK m \in 1..l : s[m] = q[i]
          BY <3>2, <4>1
        <5>2. m \in 1..l+1 /\ l + 1 \in 1..l+1 /\ m < l + 1 /\ s[l + 1] = r[j]
          BY <2>1, <3>3, <4>3, <5>1 DEF x
        <5> QED BY <4>1, <5>1, <5>2
      <4> QED BY <3>3, <4>2, <4>3
    <3>7. Good(r, l + 1)
      BY <2>1, <3>2, <3>3, <3>4, <3>5, <3>6
    <3> QED BY <3>1, <3>7
  <2> QED BY <2>3, <2>4
<1>4. Good(f[Len(s)], Len(s))
  <2>1. \A l \in 0..Len(s) : l < Len(s) /\ l \in T => l + 1 \in T
    <3> SUFFICES ASSUME NEW l \in 0..Len(s), l < Len(s), l \in T PROVE l + 1 \in T
      OBVIOUS
    <3>1. Good(f[l], l)
      OBVIOUS
    <3>2. l + 1 \in 0..Len(s)
      BY <1>0
    <3> HIDE DEF Good
    <3> QED BY <1>3, <3>1, <3>2
  <2>2. Len(s) \in Nat /\ Len(s) \in 0..Len(s)
    BY <1>0
  <2> HIDE DEF T
  <2>3. 0..Len(s) \subseteq T
    BY <1>2, <2>1, <2>2, InductionUpTo
  <2> QED BY <2>2, <2>3 DEF T
<1> DEFINE k == Keep(s, S)
<1>5. Good(k, Len(s))
  <2>1. k = f[Len(s)]
    BY <1>1
  <2> HIDE DEF Good, k
  <2> QED BY <1>4, <2>1
<1> HIDE DEF k
<1>6. DOMAIN k = 1..Len(k)
  BY <1>5
<1>7. k \in Seq(A)
  BY <1>5
<1>8. \A j \in DOMAIN k : k[j] \in S /\ \E m \in DOMAIN s : s[m] = k[j]
  BY <1>0, <1>5, <1>6
<1>9. \A m \in DOMAIN s : s[m] \in S => \E j \in DOMAIN k : k[j] = s[m]
  BY <1>0, <1>5, <1>6
<1>10. \A i, j \in DOMAIN k : i < j =>
          \E m, n \in DOMAIN s : m < n /\ s[m] = k[i] /\ s[n] = k[j]
  <2> SUFFICES ASSUME NEW i \in DOMAIN k, NEW j \in DOMAIN k, i < j
               PROVE  \E m, n \in DOMAIN s : m < n /\ s[m] = k[i] /\ s[n] = k[j]
    OBVIOUS
  <2>1. i \in 1..Len(k) /\ j \in 1..Len(k)
    BY <1>6
  <2>2. PICK m \in 1..Len(s), n \in 1..Len(s) : m < n /\ s[m] = k[i] /\ s[n] = k[j]
    BY <1>5, <2>1
  <2> QED BY <1>0, <2>2
<1>11. KeptFrom(k, s, S, A)
  BY <1>7, <1>8, <1>9, <1>10 DEF KeptFrom
<1> QED BY <1>11 DEF k

(* At most one element is left out of what keeps all but one. *)
LEMMA KeepAllButOne ==
    ASSUME NEW A, NEW s \in Seq(A), NEW S, NEW p \in DOMAIN s,
           \A m \in DOMAIN s : m # p => s[m] \in S
    PROVE  Len(Keep(s, S)) >= Len(s) - 1
<1>1. PICK f : /\ f[0] = << >> /\ Keep(s, S) = f[Len(s)]
               /\ \A i \in 1..Len(s) :
                     f[i] = IF s[i] \in S THEN Append(f[i - 1], s[i]) ELSE f[i - 1]
  BY KeepBy
<1>2. Len(s) \in Nat /\ DOMAIN s = 1..Len(s) /\ p \in 1..Len(s) /\ \A m \in 1..Len(s) : s[m] \in A
  OBVIOUS
<1> DEFINE Good(q, l) == q \in Seq(A) /\ Len(q) >= IF p <= l THEN l - 1 ELSE l
           T == {l \in 0..Len(s) : Good(f[l], l)}
<1>3. 0 \in T
  <2>1. Good(<< >>, 0)
    BY <1>2
  <2> HIDE DEF Good
  <2> QED BY <1>1, <1>2, <2>1
<1>4. ASSUME NEW l \in 0..Len(s), l < Len(s), Good(f[l], l) PROVE Good(f[l + 1], l + 1)
  <2>1. l + 1 \in 1..Len(s) /\ l \in Nat /\ (l + 1) - 1 = l /\ s[l + 1] \in A
    BY <1>2, <1>4
  <2>2. f[l + 1] = IF s[l + 1] \in S THEN Append(f[(l + 1) - 1], s[l + 1]) ELSE f[(l + 1) - 1]
    BY <1>1, <2>1
  <2> DEFINE q == f[l]
             x == s[l + 1]
  <2>3. f[l + 1] = IF x \in S THEN Append(q, x) ELSE q
    BY <2>1, <2>2
  <2>4. x \in A /\ (l + 1 # p => x \in S) /\ Good(q, l)
    BY <1>2, <1>4, <2>1
  <2> HIDE DEF q, x
  <2>5. Len(Append(q, x)) = Len(q) + 1 /\ Append(q, x) \in Seq(A) /\ Len(q) \in Nat
    BY <2>4
  <2>6. CASE x \in S
    BY <1>2, <2>1, <2>3, <2>4, <2>5, <2>6
  <2>7. CASE x \notin S
    BY <1>2, <2>1, <2>3, <2>4, <2>5, <2>7
  <2> QED BY <2>6, <2>7
<1>5. Good(f[Len(s)], Len(s))
  <2>1. \A l \in 0..Len(s) : l < Len(s) /\ l \in T => l + 1 \in T
    <3> SUFFICES ASSUME NEW l \in 0..Len(s), l < Len(s), l \in T PROVE l + 1 \in T
      OBVIOUS
    <3>1. Good(f[l], l)
      OBVIOUS
    <3>2. l + 1 \in 0..Len(s)
      BY <1>2
    <3> HIDE DEF Good
    <3> QED BY <1>4, <3>1, <3>2
  <2>2. Len(s) \in Nat /\ Len(s) \in 0..Len(s)
    BY <1>2
  <2> HIDE DEF T
  <2>3. 0..Len(s) \subseteq T
    BY <1>3, <2>1, <2>2, InductionUpTo
  <2> QED BY <2>2, <2>3 DEF T
<1> QED BY <1>1, <1>2, <1>5

------------------------------------------------------------------------------
(* The largest element of a bounded set, and the sequence of a finite one. *)

LEMMA MaxIs ==
    ASSUME NEW b \in Nat, NEW S, S \subseteq 0..b, S # {}
    PROVE  Max(S) \in S /\ \A y \in S : y <= Max(S)
<1> DEFINE T == {n \in Nat : \A R \in SUBSET (0..n) : R # {} => \E x \in R : \A y \in R : x >= y}
<1>1. 0 \in T
  <2>1. ASSUME NEW R \in SUBSET (0..0), R # {} PROVE \E x \in R : \A y \in R : x >= y
    <3>1. \A y \in R : y = 0
      BY <2>1
    <3>2. 0 \in R
      BY <2>1, <3>1
    <3> QED BY <3>1, <3>2
  <2> QED BY <2>1
<1>2. \A n \in Nat : n \in T => n + 1 \in T
  <2> SUFFICES ASSUME NEW n \in Nat, n \in T, NEW R \in SUBSET (0..n+1), R # {}
               PROVE  \E x \in R : \A y \in R : x >= y
    OBVIOUS
  <2>1. CASE n + 1 \in R
    <3>1. \A y \in R : n + 1 >= y
      OBVIOUS
    <3> QED BY <2>1, <3>1
  <2>2. CASE n + 1 \notin R
    <3>1. R \in SUBSET (0..n)
      BY <2>2
    <3> QED BY <3>1
  <2> QED BY <2>1, <2>2
<1>3. b \in T
  <2> HIDE DEF T
  <2> QED BY <1>1, <1>2, InductionOnSets
<1>4. \E x \in S : \A y \in S : x >= y
  BY <1>3
<1>5. Max(S) \in S /\ \A y \in S : Max(S) >= y
  BY <1>4 DEF Max
<1>6. \A y \in S : y \in Nat
  OBVIOUS
<1> QED BY <1>5, <1>6

(* The sequence of a finite set has its elements and no others. *)
LEMMA SetToSeqIs ==
    ASSUME NEW S, IsFiniteSet(S)
    PROVE  SetToSeq(S) \in Seq(S) /\ Range(SetToSeq(S)) = S
<1> DEFINE n == Cardinality(S)
           q == SetToSeq(S)
<1>1. n \in Nat /\ ExistsBijection(1..n, S)
  BY FS_CardinalityType
<1>2. \E g \in [1..n -> S] : IsInjective(g)
  BY <1>1 DEF ExistsBijection, Bijection, Injection
<1>3. q \in [1..n -> S] /\ IsInjective(q)
  BY <1>2 DEF SetToSeq
<1> HIDE DEF q, n
<1>4. q \in Injection(1..n, S)
  BY <1>3 DEF Injection
<1>5. Cardinality(1..n) = n
  BY <1>1, FS_Interval
<1>6. q \in Surjection(1..n, S)
  BY <1>4, <1>5, FS_Injection DEF n
<1>7. q \in Seq(S)
  BY <1>1, <1>3, SeqDef
<1>8. Range(q) = S
  BY <1>3, <1>6 DEF Range, Surjection
<1> QED BY <1>7, <1>8 DEF q

------------------------------------------------------------------------------
(* One store, with ids up to m and uses up to u: its shape, and what ties its
   parts together. The recents are the targets used last, latest first. *)
StoreShape(d, m, u) ==
    /\ d \in [profiles : Seq(Range(d.profiles)),
              recents : Seq([target : Targets, use : 1..u]), used : [Targets -> 0..u]]
    /\ Len(d.recents) <= MaxRecents

(* Profiles: ids handed out so far, each once, and names that can be compared. *)
ProfilesGood(ps, m) ==
    /\ ps \in Seq(Range(ps))
    /\ \A i \in DOMAIN ps : ps[i].id \in 1..m /\ ps[i].name \in DOMAIN Folded
    /\ \A i, j \in DOMAIN ps : i < j => ps[i].id # ps[j].id

(* Each entry has the last use of its target, the latest first. *)
RecentsInOrder(d) ==
    /\ \A i \in DOMAIN d.recents : d.recents[i].use = d.used[d.recents[i].target]
    /\ \A i, j \in DOMAIN d.recents : i < j => d.recents[i].use > d.recents[j].use

(* A target used is in the list, or the list is full of later ones. *)
RecentsComplete(d) ==
    \A t \in Targets :
        \/ d.used[t] = 0
        \/ \E i \in DOMAIN d.recents : d.recents[i].target = t
        \/ /\ Len(d.recents) = MaxRecents
           /\ \A i \in DOMAIN d.recents : d.recents[i].use > d.used[t]

(* A store that may be in memory or in the file. *)
StoreGood(d, m, u) ==
    StoreShape(d, m, u) /\ ProfilesGood(d.profiles, m) /\ RecentsInOrder(d) /\ RecentsComplete(d)

(* Sequences over a set are sequences over a larger one. *)
LEMMA SeqOfMore ==
    ASSUME NEW A, NEW B, A \subseteq B
    PROVE  Seq(A) \subseteq Seq(B)
BY SeqMonotonic

(* A sequence is one over its range. *)
LEMMA SeqOfItsRange ==
    ASSUME NEW A, NEW s \in Seq(A)
    PROVE  s \in Seq(Range(s))
<1>1. Len(s) \in Nat /\ s \in [1..Len(s) -> A]
  OBVIOUS
<1>2. s \in [1..Len(s) -> Range(s)]
  BY <1>1 DEF Range
<1> QED BY <1>1, <1>2, SeqDef

(* Profiles stay good when more ids have been handed out. *)
LEMMA ProfilesGoodGrows ==
    ASSUME NEW ps, NEW m \in Nat, NEW n \in Nat, m <= n, ProfilesGood(ps, m)
    PROVE  ProfilesGood(ps, n)
BY DEF ProfilesGood

(* A store stays good when more was made and used. *)
LEMMA StoreGoodGrows ==
    ASSUME NEW d, NEW m \in Nat, NEW n \in Nat, NEW u \in Nat, NEW v \in Nat, m <= n, u <= v,
           StoreGood(d, m, u)
    PROVE  StoreGood(d, n, v)
<1>1. ProfilesGood(d.profiles, n)
  BY ProfilesGoodGrows DEF StoreGood
<1>2. [target : Targets, use : 1..u] \subseteq [target : Targets, use : 1..v]
  OBVIOUS
<1>3. Seq([target : Targets, use : 1..u]) \subseteq Seq([target : Targets, use : 1..v])
  BY <1>2, SeqOfMore
<1>4. [Targets -> 0..u] \subseteq [Targets -> 0..v]
  OBVIOUS
<1>5. StoreShape(d, n, v)
  BY <1>3, <1>4 DEF StoreGood, StoreShape
<1> QED BY <1>1, <1>5 DEF StoreGood

(* A store is not what a file that does not parse stands for. *)
LEMMA StoreIsNotCorrupt ==
    ASSUME NEW d, NEW m, NEW u, StoreGood(d, m, u)
    PROVE  d # Corrupt
<1>1. DOMAIN d = {"profiles", "recents", "used"}
  BY DEF StoreGood, StoreShape
<1>2. DOMAIN Corrupt = {"garbage"}
  BY DEF Corrupt
<1> QED BY <1>1, <1>2

(* The store a first start begins with. *)
LEMMA EmptyIsGood == \A m \in Nat, u \in Nat : StoreGood(Empty, m, u)
<1> SUFFICES ASSUME NEW m \in Nat, NEW u \in Nat PROVE StoreGood(Empty, m, u)
  OBVIOUS
<1>1. /\ Empty.profiles = << >> /\ Empty.recents = << >> /\ Empty.used \in [Targets -> 0..u]
      /\ \A t \in Targets : Empty.used[t] = 0
  BY DEF Empty
<1>2. /\ << >> \in Seq(Range(<< >>)) /\ << >> \in Seq([target : Targets, use : 1..u])
      /\ Len(<< >>) = 0 /\ DOMAIN << >> = {}
  OBVIOUS
<1>3. StoreShape(Empty, m, u)
  BY <1>1, <1>2, StoreBounds DEF StoreShape, Empty
<1>4. ProfilesGood(Empty.profiles, m)
  BY <1>1, <1>2 DEF ProfilesGood
<1> QED BY <1>1, <1>2, <1>3, <1>4 DEF StoreGood, RecentsInOrder, RecentsComplete

(* A profile with an id that no other has is added at the end. *)
LEMMA UpsertedIs ==
    ASSUME NEW d, NEW m \in Nat, NEW u \in Nat, StoreGood(d, m, u),
           NEW p, p.id = m + 1, p.name \in DOMAIN Folded
    PROVE  /\ StoreGood(Upserted(d, p), m + 1, u)
           /\ Upserted(d, p).profiles = Append(d.profiles, p)
<1> DEFINE ps == d.profiles
           qs == Append(ps, p)
           e == Upserted(d, p)
<1>1. ProfilesGood(ps, m)
  BY DEF StoreGood
<1>2. ps \in Seq(Range(ps)) /\ Len(ps) \in Nat /\ DOMAIN ps = 1..Len(ps)
  BY <1>1 DEF ProfilesGood
<1>3. ~ \E i \in DOMAIN ps : ps[i].id = p.id
  BY <1>1 DEF ProfilesGood
<1>4. e = [d EXCEPT !.profiles = qs]
  BY <1>3 DEF Upserted
<1>5. d \in [profiles : Seq(Range(ps)),
             recents : Seq([target : Targets, use : 1..u]), used : [Targets -> 0..u]]
  BY DEF StoreGood, StoreShape
<1> HIDE DEF qs, e
<1>6. /\ e.profiles = qs /\ e.recents = d.recents /\ e.used = d.used
      /\ e = [profiles |-> qs, recents |-> d.recents, used |-> d.used]
  BY <1>4, <1>5
<1> DEFINE R == Range(ps) \cup {p}
<1>7. R = Range(ps) \cup {p}
  OBVIOUS
<1> HIDE DEF R
<1>8. ps \in Seq(R) /\ p \in R
  BY <1>2, <1>7, SeqOfMore
<1> HIDE DEF ps
<1>9. /\ qs \in Seq(R) /\ Len(qs) = Len(ps) + 1 /\ qs[Len(ps) + 1] = p
      /\ \A i \in 1..Len(ps) : qs[i] = ps[i]
  BY <1>2, <1>8 DEF qs
<1>10. qs \in Seq(Range(qs)) /\ DOMAIN qs = 1..(Len(ps) + 1)
  BY <1>9, SeqOfItsRange
<1>11. ProfilesGood(qs, m + 1)
  <2>1. ASSUME NEW i \in DOMAIN qs PROVE qs[i].id \in 1..m+1 /\ qs[i].name \in DOMAIN Folded
    <3>1. CASE i \in 1..Len(ps)
      BY <1>1, <1>2, <1>9, <3>1 DEF ProfilesGood
    <3>2. CASE i = Len(ps) + 1
      BY <1>9, <3>2
    <3> QED BY <1>2, <1>10, <3>1, <3>2
  <2>2. ASSUME NEW i \in DOMAIN qs, NEW j \in DOMAIN qs, i < j PROVE qs[i].id # qs[j].id
    <3>1. i \in 1..Len(ps)
      BY <1>2, <1>10, <2>2
    <3>2. CASE j \in 1..Len(ps)
      BY <1>1, <1>2, <1>9, <2>2, <3>1, <3>2 DEF ProfilesGood
    <3>3. CASE j = Len(ps) + 1
      BY <1>1, <1>2, <1>9, <3>1, <3>3 DEF ProfilesGood
    <3> QED BY <1>2, <1>10, <3>2, <3>3
  <2> QED BY <1>10, <2>1, <2>2 DEF ProfilesGood
<1>12. StoreShape(e, m + 1, u)
  BY <1>5, <1>6, <1>10 DEF StoreShape, StoreGood
<1>13. RecentsInOrder(e) /\ RecentsComplete(e)
  BY <1>6 DEF RecentsInOrder, RecentsComplete, StoreGood
<1> QED BY <1>6, <1>11, <1>12, <1>13 DEF StoreGood, e, qs, ps

(* The fields of an updated store. *)
LEMMA StoreUpdated ==
    ASSUME NEW d, d = [profiles |-> d.profiles, recents |-> d.recents, used |-> d.used], NEW x
    PROVE  /\ [d EXCEPT !.profiles = x] = [profiles |-> x, recents |-> d.recents, used |-> d.used]
           /\ [d EXCEPT !.recents = x] = [profiles |-> d.profiles, recents |-> x, used |-> d.used]
           /\ [d EXCEPT !.used = x] = [profiles |-> d.profiles, recents |-> d.recents, used |-> x]
OBVIOUS

(* What is left of a list of profiles is one. *)
LEMMA KeptProfilesAreGood ==
    ASSUME NEW ps, NEW m, ProfilesGood(ps, m), NEW S
    PROVE  ProfilesGood(Keep(ps, S), m)
<1> DEFINE k == Keep(ps, S)
<1>1. /\ ps \in Seq(Range(ps))
      /\ \A i \in DOMAIN ps : ps[i].id \in 1..m /\ ps[i].name \in DOMAIN Folded
      /\ \A i, j \in DOMAIN ps : i < j => ps[i].id # ps[j].id
  BY DEF ProfilesGood
<1>2. /\ k \in Seq(Range(ps))
      /\ \A j \in DOMAIN k : \E i \in DOMAIN ps : ps[i] = k[j]
      /\ \A i, j \in DOMAIN k : i < j =>
            \E a, b \in DOMAIN ps : a < b /\ ps[a] = k[i] /\ ps[b] = k[j]
  <2>1. KeptFrom(k, ps, S, Range(ps))
    BY <1>1, KeepIs
  <2> HIDE DEF k
  <2> QED BY <2>1 DEF KeptFrom
<1> HIDE DEF k
<1>3. k \in Seq(Range(k))
  BY <1>2, SeqOfItsRange
<1>4. \A j \in DOMAIN k : k[j].id \in 1..m /\ k[j].name \in DOMAIN Folded
  BY <1>1, <1>2
<1>5. \A i, j \in DOMAIN k : i < j => k[i].id # k[j].id
  BY <1>1, <1>2
<1>6. ProfilesGood(k, m)
  BY <1>3, <1>4, <1>5 DEF ProfilesGood
<1> QED BY <1>6 DEF k

(* A store with other profiles is good if these are. *)
LEMMA OtherProfilesAreGood ==
    ASSUME NEW d, NEW m \in Nat, NEW u \in Nat, StoreGood(d, m, u), NEW ps, ProfilesGood(ps, m)
    PROVE  StoreGood([d EXCEPT !.profiles = ps], m, u)
<1> DEFINE e == [d EXCEPT !.profiles = ps]
<1>1. /\ d \in [profiles : Seq(Range(d.profiles)),
                recents : Seq([target : Targets, use : 1..u]), used : [Targets -> 0..u]]
      /\ Len(d.recents) <= MaxRecents /\ RecentsInOrder(d) /\ RecentsComplete(d)
  BY DEF StoreGood, StoreShape
<1>2. /\ e.profiles = ps /\ e.recents = d.recents /\ e.used = d.used
      /\ e = [profiles |-> ps, recents |-> d.recents, used |-> d.used]
  <2>1. d = [profiles |-> d.profiles, recents |-> d.recents, used |-> d.used]
    BY <1>1
  <2>2. e = [profiles |-> ps, recents |-> d.recents, used |-> d.used]
    BY <2>1, StoreUpdated
  <2> QED BY <2>2
<1> HIDE DEF e
<1>3. StoreShape(e, m, u)
  BY <1>1, <1>2 DEF StoreShape, ProfilesGood
<1>4. RecentsInOrder(e) /\ RecentsComplete(e)
  BY <1>1, <1>2 DEF RecentsInOrder, RecentsComplete
<1>5. StoreGood(e, m, u)
  BY <1>2, <1>3, <1>4 DEF StoreGood
<1> QED BY <1>5 DEF e

(* The connection recorded last is the first recent, and the others are those
   there were, as far as there is room. *)
LEMMA RecordedIsGood ==
    ASSUME NEW d, NEW m \in Nat, NEW u \in Nat, StoreGood(d, m, u), NEW t \in Targets
    PROVE  /\ StoreGood(Recorded(d, t, u + 1), m, u + 1)
           /\ Recorded(d, t, u + 1).profiles = d.profiles
<1> DEFINE rs == d.recents
           S == {r \in Range(rs) : r.target # t}
           others == Keep(rs, S)
           x == [target |-> t, use |-> u + 1]
           all == <<x>> \o others
           n == IF Len(all) < MaxRecents THEN Len(all) ELSE MaxRecents
           qs == SubSeq(all, 1, n)
           used == [d.used EXCEPT ![t] = u + 1]
           e == [d EXCEPT !.recents = qs, !.used[t] = u + 1]
           A == [target : Targets, use : 1..u]
           B == [target : Targets, use : 1..u+1]
<1>1. /\ d \in [profiles : Seq(Range(d.profiles)), recents : Seq(A), used : [Targets -> 0..u]]
      /\ Len(rs) <= MaxRecents /\ MaxRecents \in Nat /\ MaxRecents > 0
      /\ ProfilesGood(d.profiles, m)
  BY StoreBounds DEF StoreGood, StoreShape
<1>2. /\ \A i \in DOMAIN rs : rs[i].use = d.used[rs[i].target]
      /\ \A i, j \in DOMAIN rs : i < j => rs[i].use > rs[j].use
  BY DEF StoreGood, RecentsInOrder
<1>3. rs \in Seq(A) /\ Len(rs) \in Nat /\ DOMAIN rs = 1..Len(rs)
      /\ \A i \in 1..Len(rs) : rs[i].target \in Targets /\ rs[i].use \in 1..u
  <2> HIDE DEF A
  <2>1. rs \in Seq(A)
    BY <1>1
  <2> HIDE DEF rs
  <2>2. Len(rs) \in Nat /\ DOMAIN rs = 1..Len(rs) /\ \A i \in 1..Len(rs) : rs[i] \in A
    BY <2>1
  <2> QED BY <2>1, <2>2 DEF A
<1>4. \A i, j \in DOMAIN rs : rs[i].target = rs[j].target => i = j
  <2> HIDE DEF rs
  <2>1. ASSUME NEW i \in DOMAIN rs, NEW j \in DOMAIN rs, i < j PROVE rs[i].target # rs[j].target
    <3>1. rs[i].use > rs[j].use /\ rs[i].use \in 1..u /\ rs[j].use \in 1..u
      BY <1>2, <1>3, <2>1
    <3>2. rs[i].use = d.used[rs[i].target] /\ rs[j].use = d.used[rs[j].target]
      BY <1>2
    <3>3. rs[i].use # rs[j].use
      BY <3>1
    <3> QED BY <3>2, <3>3
  <2>2. SUFFICES ASSUME NEW i \in DOMAIN rs, NEW j \in DOMAIN rs, i # j
                 PROVE  rs[i].target # rs[j].target
    OBVIOUS
  <2>3. i < j \/ j < i
    BY <1>3, <2>2
  <2> QED BY <2>1, <2>3
<1>5. Recorded(d, t, u + 1) = e
  BY DEF Recorded
<1>6. /\ e.profiles = d.profiles /\ e.recents = qs /\ e.used = used
      /\ e = [profiles |-> d.profiles, recents |-> qs, used |-> used]
  <2> HIDE DEF qs
  <2>1. e = [profiles |-> d.profiles, recents |-> qs, used |-> used]
    <3> DEFINE d1 == [d EXCEPT !.recents = qs]
    <3>0. d = [profiles |-> d.profiles, recents |-> d.recents, used |-> d.used]
      BY <1>1
    <3>1. d1 = [profiles |-> d.profiles, recents |-> qs, used |-> d.used]
      BY <3>0, StoreUpdated
    <3> HIDE DEF d1
    <3>2. d1.used = d.used /\ d1 = [profiles |-> d1.profiles, recents |-> d1.recents, used |-> d1.used]
      BY <3>1
    <3>3. [d1 EXCEPT !.used = used] = [profiles |-> d1.profiles, recents |-> d1.recents, used |-> used]
      BY <3>2, StoreUpdated
    <3>4. e = [d1 EXCEPT !.used = [d1.used EXCEPT ![t] = u + 1]]
      BY Zenon DEF d1
    <3> QED BY <3>1, <3>2, <3>3, <3>4
  <2> QED BY <2>1
<1> HIDE DEF e
<1>7. \A i \in DOMAIN rs : rs[i] \in S <=> rs[i].target # t
  BY DEF Range
<1>8. /\ others \in Seq(A)
      /\ \A j \in DOMAIN others : others[j] \in S /\ \E i \in DOMAIN rs : rs[i] = others[j]
      /\ \A i \in DOMAIN rs : rs[i] \in S => \E j \in DOMAIN others : others[j] = rs[i]
      /\ \A i, j \in DOMAIN others : i < j =>
            \E a, b \in DOMAIN rs : a < b /\ rs[a] = others[i] /\ rs[b] = others[j]
  <2> HIDE DEF S, rs, A
  <2>1. KeptFrom(Keep(rs, S), rs, S, A)
    BY <1>3, KeepIs
  <2>2. KeptFrom(others, rs, S, A)
    BY <2>1
  <2> HIDE DEF others
  <2> QED BY <2>2 DEF KeptFrom
<1>9. Len(others) >= Len(rs) - 1
  <2>1. CASE \E p \in DOMAIN rs : rs[p].target = t
    <3>1. PICK p \in DOMAIN rs : rs[p].target = t
      BY <2>1
    <3>2. \A i \in DOMAIN rs : i # p => rs[i] \in S
      BY <1>4, <1>7, <3>1
    <3> HIDE DEF S
    <3> QED BY <1>3, <3>2, KeepAllButOne
  <2>2. CASE ~ \E p \in DOMAIN rs : rs[p].target = t
    <3>1. \A i \in DOMAIN rs : rs[i] \in S
      BY <1>7, <2>2
    <3>2. CASE Len(rs) = 0
      BY <1>8, <3>2
    <3>3. CASE Len(rs) # 0
      <4>1. 1 \in DOMAIN rs /\ \A i \in DOMAIN rs : i # 1 => rs[i] \in S
        BY <1>3, <3>1, <3>3
      <4> HIDE DEF S
      <4> QED BY <1>3, <4>1, KeepAllButOne
    <3> QED BY <3>2, <3>3
  <2> QED BY <2>1, <2>2
<1>10. \A j \in DOMAIN others : /\ others[j].target \in Targets /\ others[j].target # t
                                /\ others[j].use \in 1..u
                                /\ others[j].use = d.used[others[j].target]
  <2> SUFFICES ASSUME NEW j \in DOMAIN others
               PROVE  /\ others[j].target \in Targets /\ others[j].target # t
                      /\ others[j].use \in 1..u /\ others[j].use = d.used[others[j].target]
    OBVIOUS
  <2>1. PICK i \in DOMAIN rs : rs[i] = others[j]
    BY <1>8
  <2>2. others[j] \in S
    BY <1>8
  <2> HIDE DEF rs
  <2> QED BY <1>2, <1>3, <2>1, <2>2
<1>11. \A i, j \in DOMAIN others : i < j => others[i].use > others[j].use
  <2> HIDE DEF others, rs
  <2> QED BY <1>2, <1>8
<1> HIDE DEF others, rs, S
<1>12. others \in Seq(B) /\ x \in B /\ Len(others) \in Nat /\ DOMAIN others = 1..Len(others)
  <2>1. A \subseteq B
    BY <1>1
  <2> HIDE DEF A, B
  <2>2. others \in Seq(B)
    BY <1>8, <2>1, SeqOfMore
  <2> QED BY <1>8, <2>2 DEF B
<1>13. /\ all \in Seq(B) /\ Len(all) = Len(others) + 1 /\ all[1] = x
       /\ \A i \in 2..Len(others)+1 : all[i] = others[i - 1]
  <2> HIDE DEF x, B
  <2> QED BY <1>12
<1> HIDE DEF all
<1>14. n \in Nat /\ n >= 1 /\ n <= Len(all) /\ n <= MaxRecents /\ (n = MaxRecents \/ n = Len(all))
  BY <1>1, <1>12, <1>13
<1> HIDE DEF n
<1>15. /\ qs \in Seq(B) /\ Len(qs) = n /\ DOMAIN qs = 1..n /\ qs[1] = x
       /\ \A i \in 2..n : i - 1 \in 1..Len(others) /\ qs[i] = others[i - 1]
  <2> HIDE DEF B
  <2>1. \A i \in 1..n : all[i] \in B
    BY <1>12, <1>13, <1>14
  <2>2. qs \in Seq(B) /\ Len(qs) = n /\ \A i \in 1..n : qs[i] = all[i]
    BY <1>14, <2>1 DEF qs
  <2> HIDE DEF qs
  <2>3. DOMAIN qs = 1..n /\ qs[1] = x
    BY <1>13, <1>14, <2>2
  <2>4. \A i \in 2..n : i - 1 \in 1..Len(others) /\ qs[i] = others[i - 1]
    BY <1>12, <1>13, <1>14, <2>2
  <2> QED BY <2>2, <2>3, <2>4
<1> HIDE DEF qs
<1>16. used \in [Targets -> 0..u+1] /\ used[t] = u + 1 /\ \A y \in Targets : y # t => used[y] = d.used[y]
  BY <1>1
<1> HIDE DEF used
<1>17. StoreShape(e, m, u + 1)
  BY <1>1, <1>6, <1>14, <1>15, <1>16 DEF StoreShape
<1>18. RecentsInOrder(e)
  <2>1. ASSUME NEW i \in 1..n PROVE qs[i].use = used[qs[i].target]
    <3>1. CASE i = 1
      BY <1>15, <1>16, <3>1
    <3>2. CASE i \in 2..n
      <4>1. i - 1 \in DOMAIN others /\ qs[i] = others[i - 1]
        BY <1>12, <1>15, <3>2
      <4> QED BY <1>10, <1>16, <4>1
    <3> QED BY <1>14, <3>1, <3>2
  <2>2. ASSUME NEW i \in 1..n, NEW j \in 1..n, i < j PROVE qs[i].use > qs[j].use
    <3>1. j \in 2..n /\ j - 1 \in 1..Len(others) /\ qs[j] = others[j - 1]
      BY <1>14, <1>15, <2>2
    <3>2. CASE i = 1
      <4>1. qs[i].use = u + 1
        BY <1>15, <3>2
      <4>2. qs[j].use \in 1..u
        BY <1>10, <1>12, <3>1
      <4> QED BY <4>1, <4>2
    <3>3. CASE i \in 2..n
      <4>1. i - 1 \in 1..Len(others) /\ qs[i] = others[i - 1]
        BY <1>15, <3>3
      <4>2. i - 1 < j - 1
        BY <1>14, <2>2
      <4> QED BY <1>11, <1>12, <3>1, <4>1, <4>2
    <3> QED BY <1>14, <3>2, <3>3
  <2> QED BY <1>6, <1>15, <2>1, <2>2 DEF RecentsInOrder
<1>19. RecentsComplete(e)
  <2> SUFFICES ASSUME NEW y \in Targets
               PROVE  \/ used[y] = 0
                      \/ \E i \in 1..n : qs[i].target = y
                      \/ n = MaxRecents /\ \A i \in 1..n : qs[i].use > used[y]
    BY <1>6, <1>15 DEF RecentsComplete
  <2>1. CASE y = t
    BY <1>14, <1>15, <2>1
  <2>2. CASE y # t
    <3>1. used[y] = d.used[y] /\ used[y] \in 0..u
      BY <1>1, <1>16, <2>2
    <3>2. qs[1].use > used[y]
      BY <1>15, <3>1
    <3>3. CASE \E i \in DOMAIN rs : rs[i].target = y
      <4>1. PICK i \in DOMAIN rs : rs[i].target = y
        BY <3>3
      <4>2. PICK j \in 1..Len(others) : others[j] = rs[i]
        BY <1>7, <1>8, <1>12, <2>2, <4>1
      <4>3. CASE j + 1 <= n
        <5>1. j + 1 \in 2..n /\ (j + 1) - 1 = j
          BY <1>14, <4>3
        <5>2. qs[j + 1] = others[j] /\ j + 1 \in 1..n
          BY <1>15, <5>1
        <5> QED BY <4>1, <4>2, <5>2
      <4>4. CASE j + 1 > n
        <5>1. n = MaxRecents
          BY <1>12, <1>13, <1>14, <4>4
        <5>2. others[j].use = used[y]
          BY <1>2, <3>1, <4>1, <4>2
        <5>3. ASSUME NEW h \in 2..n PROVE qs[h].use > used[y]
          <6>1. h - 1 \in 1..Len(others) /\ h - 1 < j /\ qs[h] = others[h - 1]
            BY <1>14, <1>15, <4>4
          <6> QED BY <1>11, <1>12, <5>2, <6>1
        <5> QED BY <1>14, <3>2, <5>1, <5>3
      <4> QED BY <1>14, <4>3, <4>4
    <3>4. CASE d.used[y] = 0
      BY <3>1, <3>4
    <3>5. CASE ~ (\E i \in DOMAIN rs : rs[i].target = y) /\ d.used[y] # 0
      <4>1. Len(rs) = MaxRecents /\ \A i \in DOMAIN rs : rs[i].use > d.used[y]
        BY <3>5 DEF StoreGood, RecentsComplete, rs
      <4>2. n = MaxRecents
        BY <1>1, <1>9, <1>12, <1>13, <1>14, <4>1
      <4>3. ASSUME NEW h \in 2..n PROVE qs[h].use > used[y]
        <5>1. h - 1 \in DOMAIN others /\ qs[h] = others[h - 1]
          BY <1>12, <1>15
        <5>2. PICK i \in DOMAIN rs : rs[i] = others[h - 1]
          BY <1>8, <5>1
        <5> QED BY <3>1, <4>1, <5>1, <5>2
      <4> QED BY <1>14, <3>2, <4>2, <4>3
    <3> QED BY <3>3, <3>4, <3>5
  <2> QED BY <2>1, <2>2
<1>20. StoreGood(e, m, u + 1)
  BY <1>1, <1>6, <1>17, <1>18, <1>19 DEF StoreGood
<1> QED BY <1>5, <1>6, <1>20

------------------------------------------------------------------------------
(* Parse. *)

(* What Parse computes: the state after each line. *)
ScanRec(text, f) ==
    f = [i \in 0..Len(text) |->
            IF i = 0 THEN [hosts |-> << >>, block |-> Skipped] ELSE Read(f[i - 1], text[i])]

(* There is such a function. *)
LEMMA ScanExists ==
    ASSUME NEW text, Len(text) \in Nat
    PROVE  \E f : ScanRec(text, f)
<1> DEFINE n == Len(text)
           z == [hosts |-> << >>, block |-> Skipped]
           Next1(x, i) == Read(x, text[i])
           Upto(m, f) == f = [i \in 0..m |-> IF i = 0 THEN z ELSE Next1(f[i - 1], i)]
           T == {m \in Nat : \E f : Upto(m, f)}
<1> HIDE DEF Next1, z
<1>1. 0 \in T
  <2>1. Upto(0, [i \in 0..0 |-> z])
    OBVIOUS
  <2> QED BY <2>1
<1>2. \A m \in Nat : m \in T => m + 1 \in T
  <2> HIDE DEF Upto
  <2> SUFFICES ASSUME NEW m \in Nat, NEW f, Upto(m, f) PROVE \E g : Upto(m + 1, g)
    OBVIOUS
  <2> USE DEF Upto
  <2> DEFINE g == [i \in 0..m+1 |-> IF i <= m THEN f[i] ELSE Next1(f[m], m + 1)]
  <2>1. Upto(m + 1, g)
    OBVIOUS
  <2> QED BY <2>1
<1>3. n \in T
  <2> HIDE DEF T
  <2> QED BY <1>1, <1>2, InductionOnSets
<1> QED BY <1>3 DEF ScanRec, Next1, z

(* Parse by its recursion, line by line. *)
LEMMA ParseBy ==
    ASSUME NEW text, Len(text) \in Nat
    PROVE  \E f : /\ f[0] = [hosts |-> << >>, block |-> Skipped]
                  /\ \A i \in 1..Len(text) : f[i] = Read(f[i - 1], text[i])
                  /\ Parse(text) = Finish(f[Len(text)].hosts, f[Len(text)].block)
<1> DEFINE k == CHOOSE f : ScanRec(text, f)
<1>1. ScanRec(text, k)
  BY ScanExists
<1>2. Parse(text) = Finish(k[Len(text)].hosts, k[Len(text)].block)
  BY Zenon DEF Parse, ScanRec
<1> HIDE DEF k
<1>3. k[0] = [hosts |-> << >>, block |-> Skipped]
  BY <1>1 DEF ScanRec
<1>4. ASSUME NEW i \in 1..Len(text) PROVE k[i] = Read(k[i - 1], text[i])
  <2>1. i \in 0..Len(text) /\ i # 0
    OBVIOUS
  <2> QED BY <1>1, <2>1 DEF ScanRec
<1> QED BY <1>2, <1>3, <1>4

(* The values a candidate may get from a text, the blocks and the candidates that may come of
   it with names from N. *)
Values(text) == {Unset} \cup {text[i].value : i \in DOMAIN text}
BlocksOver(N, text) == [aliases : Seq(N), values : [Directives -> Values(text)]]
HostsOver(N, text) == {Candidate(a, v) : a \in N, v \in [Directives -> Values(text)]}

(* Finishing a block adds candidates. *)
LEMMA FinishIs ==
    ASSUME NEW N, NEW text, NEW hosts \in Seq(HostsOver(N, text)), NEW block \in BlocksOver(N, text)
    PROVE  Finish(hosts, block) \in Seq(HostsOver(N, text))
<1> DEFINE H == HostsOver(N, text)
           a == block.aliases
           v == block.values
           q == [i \in DOMAIN a |-> Candidate(a[i], v)]
<1>1. a \in Seq(N) /\ v \in [Directives -> Values(text)]
  BY DEF BlocksOver
<1> HIDE DEF a, v
<1>2. Len(a) \in Nat /\ DOMAIN a = 1..Len(a) /\ \A i \in 1..Len(a) : a[i] \in N
  BY <1>1
<1>3. \A i \in DOMAIN a : Candidate(a[i], v) \in H
  BY <1>1, <1>2 DEF HostsOver
<1>4. q \in [1..Len(a) -> H]
  BY <1>2, <1>3, Zenon
<1> HIDE DEF q, H
<1>5. q \in Seq(H)
  BY <1>2, <1>4, SeqDef
<1>6. hosts \o q \in Seq(H)
  BY <1>5, ConcatProperties DEF H
<1> QED BY <1>6, Zenon DEF Finish, q, a, v, H

(* Concrete leaves names that are no patterns. *)
LEMMA ConcreteIs ==
    ASSUME NEW N, NEW aliases, aliases \in Seq(Range(aliases)), Range(aliases) \subseteq N \cup Patterns
    PROVE  Concrete(aliases) \in Seq(N)
<1> DEFINE S == Range(aliases) \ Patterns
           k == Keep(aliases, S)
<1>1. KeptFrom(k, aliases, S, Range(aliases))
  <2> HIDE DEF S
  <2> QED BY KeepIs
<1> HIDE DEF k
<1>2. Len(k) \in Nat /\ DOMAIN k = 1..Len(k) /\ \A j \in 1..Len(k) : k[j] \in S
  BY <1>1 DEF KeptFrom
<1>3. k \in [1..Len(k) -> N]
  <2>1. \A j \in 1..Len(k) : k[j] \in N
    BY <1>2
  <2>2. k = [j \in 1..Len(k) |-> k[j]]
    BY <1>1, <1>2 DEF KeptFrom
  <2> QED BY <2>1, <2>2
<1>4. k \in Seq(N)
  BY <1>2, <1>3, SeqDef
<1> QED BY <1>4 DEF k, Concrete

(* N has all names of the text that are no patterns. *)
NamesOver(N, text) ==
    /\ IsText(text)
    /\ \A i \in DOMAIN text : text[i].key = "host" => Range(text[i].aliases) \subseteq N \cup Patterns

(* A line leads from one state of the scan to another. *)
LEMMA ReadIs ==
    ASSUME NEW N, NEW text, NamesOver(N, text), NEW i \in DOMAIN text,
           NEW st \in [hosts : Seq(HostsOver(N, text)), block : BlocksOver(N, text)]
    PROVE  Read(st, text[i]) \in [hosts : Seq(HostsOver(N, text)), block : BlocksOver(N, text)]
<1> DEFINE H == HostsOver(N, text)
           B == BlocksOver(N, text)
           V == Values(text)
           line == text[i]
<1>1. st.hosts \in Seq(H) /\ st.block \in B
  OBVIOUS
<1>2. \A al \in Seq(N) : Opened(al) \in B
  BY DEF Opened, BlocksOver, Values
<1>3. Skipped \in B
  BY <1>2, EmptySeq DEF Skipped
<1>4. line.value \in V
  BY DEF Values
<1>5. ASSUME NEW d \in Directives PROVE [st EXCEPT !.block.values[d] = line.value] \in [hosts : Seq(H), block : B]
  <2>1. st = [hosts |-> st.hosts, block |-> [aliases |-> st.block.aliases, values |-> st.block.values]]
    BY DEF BlocksOver
  <2>2. st.block.aliases \in Seq(N) /\ st.block.values \in [Directives -> V]
    BY DEF BlocksOver
  <2> QED BY <1>4, <1>5, <2>1, <2>2 DEF BlocksOver
<1>6. CASE Header(line)
  <2>1. Finish(st.hosts, st.block) \in Seq(H)
    BY <1>1, FinishIs
  <2>2. CASE line.key = "host"
    <3>1. Concrete(line.aliases) \in Seq(N)
      BY <2>2, ConcreteIs DEF NamesOver, IsText
    <3>2. Opened(Concrete(line.aliases)) \in B
      BY <1>2, <3>1
    <3>3. Read(st, line) = [hosts |-> Finish(st.hosts, st.block), block |-> Opened(Concrete(line.aliases))]
      BY <1>6, <2>2, Zenon DEF Read
    <3> QED BY <2>1, <3>2, <3>3
  <2>3. CASE line.key # "host"
    <3>1. Read(st, line) = [hosts |-> Finish(st.hosts, st.block), block |-> Skipped]
      BY <1>6, <2>3, Zenon DEF Read
    <3> QED BY <1>3, <2>1, <3>1
  <2> QED BY <2>2, <2>3
<1>7. CASE ~ Header(line)
  <2> HIDE DEF H, B
  <2> QED BY <1>5, <1>7 DEF Read, H, B
<1> QED BY <1>6, <1>7

(* The candidates have names of the file. *)
LEMMA ParseIs ==
    ASSUME NEW N, NEW text, NamesOver(N, text)
    PROVE  Parse(text) \in Seq(HostsOver(N, text))
<1> DEFINE H == HostsOver(N, text)
           B == BlocksOver(N, text)
           St == [hosts : Seq(H), block : B]
<1>1. Len(text) \in Nat /\ DOMAIN text = 1..Len(text)
  BY DEF NamesOver, IsText
<1>2. PICK f : /\ f[0] = [hosts |-> << >>, block |-> Skipped]
               /\ \A i \in 1..Len(text) : f[i] = Read(f[i - 1], text[i])
               /\ Parse(text) = Finish(f[Len(text)].hosts, f[Len(text)].block)
  BY <1>1, ParseBy
<1> DEFINE T == {i \in 0..Len(text) : f[i] \in St}
<1>3. 0 \in T
  <2>1. Skipped \in B
    BY EmptySeq DEF Skipped, Opened, BlocksOver, Values
  <2>2. << >> \in Seq(H)
    BY EmptySeq
  <2>3. f[0] \in St
    BY <1>2, <2>1, <2>2
  <2> HIDE DEF St
  <2> QED BY <1>1, <2>3
<1>4. \A i \in 0..Len(text) : i < Len(text) /\ i \in T => i + 1 \in T
  <2> SUFFICES ASSUME NEW i \in 0..Len(text), i < Len(text), f[i] \in St PROVE f[i + 1] \in St /\ i + 1 \in 0..Len(text)
    OBVIOUS
  <2>1. i + 1 \in DOMAIN text /\ i + 1 \in 1..Len(text) /\ (i + 1) - 1 = i
    BY <1>1
  <2>2. f[i + 1] = Read(f[i], text[i + 1])
    BY <1>2, <2>1
  <2>3. Read(f[i], text[i + 1]) \in St
    BY <2>1, ReadIs
  <2> HIDE DEF St
  <2> QED BY <1>1, <2>1, <2>2, <2>3
<1>5. Len(text) \in T
  <2> HIDE DEF T
  <2>1. 0..Len(text) \subseteq T
    BY <1>1, <1>3, <1>4, InductionUpTo
  <2> QED BY <1>1, <2>1
<1>6. f[Len(text)].hosts \in Seq(H) /\ f[Len(text)].block \in B
  <2> HIDE DEF B, H
  <2> QED BY <1>5
<1> QED BY <1>2, <1>6, FinishIs

------------------------------------------------------------------------------
(* AsWritten, and that Parse agrees with it. *)

(* What FlattenSeq computes. *)
FlattenRec(seqs, f) ==
    f = [i \in 1..Len(seqs) |-> IF i = 1 THEN seqs[i] ELSE f[i-1] \o seqs[i]]

(* There is such a function. *)
LEMMA FlattenExists ==
    ASSUME NEW seqs, Len(seqs) \in Nat
    PROVE  \E f : FlattenRec(seqs, f)
<1> DEFINE n == Len(seqs)
           Next1(x, i) == x \o seqs[i]
           Upto(m, f) == f = [i \in 1..m |-> IF i = 1 THEN seqs[i] ELSE Next1(f[i-1], i)]
           T == {m \in Nat : \E f : Upto(m, f)}
<1> HIDE DEF Next1
<1>1. 0 \in T
  <2>1. Upto(0, [i \in 1..0 |-> << >>])
    OBVIOUS
  <2> QED BY <2>1
<1>2. \A m \in Nat : m \in T => m + 1 \in T
  <2> HIDE DEF Upto
  <2> SUFFICES ASSUME NEW m \in Nat, NEW f, Upto(m, f) PROVE \E g : Upto(m + 1, g)
    OBVIOUS
  <2> USE DEF Upto
  <2> DEFINE g == [i \in 1..m+1 |-> IF i <= m THEN f[i]
                                    ELSE IF i = 1 THEN seqs[i] ELSE Next1(f[m], m + 1)]
  <2>1. Upto(m + 1, g)
    OBVIOUS
  <2> QED BY <2>1
<1>3. n \in T
  <2> HIDE DEF T
  <2> QED BY <1>1, <1>2, InductionOnSets
<1> QED BY <1>3 DEF FlattenRec, Next1

(* FlattenSeq is the last of the concatenations fl of the first i sequences. *)
Flattened(seqs, S, fl) ==
    /\ fl[0] = << >>
    /\ \A i \in 1..Len(seqs) : fl[i] = fl[i - 1] \o seqs[i]
    /\ \A i \in 0..Len(seqs) : fl[i] \in Seq(S)
    /\ FlattenSeq(seqs) = fl[Len(seqs)]

(* There are such concatenations. *)
LEMMA FlattenIs ==
    ASSUME NEW S, NEW seqs, Len(seqs) \in Nat, DOMAIN seqs = 1..Len(seqs),
           \A i \in 1..Len(seqs) : seqs[i] \in Seq(S), Len(seqs) = 0 => seqs = << >>
    PROVE  \E fl : Flattened(seqs, S, fl)
<1> DEFINE n == Len(seqs)
<1>1. CASE n = 0
  <2> DEFINE fl == [i \in {0} |-> << >>]
  <2>1. fl[0] = << >> /\ << >> \in Seq(S)
    OBVIOUS
  <2>2. FlattenSeq(seqs) = << >>
    BY <1>1 DEF FlattenSeq
  <2> HIDE DEF fl
  <2>3. 1..Len(seqs) = {} /\ \A i \in 0..Len(seqs) : i = 0
    BY <1>1
  <2>4. Flattened(seqs, S, fl)
    <3>1. \A i \in 0..Len(seqs) : fl[i] \in Seq(S)
      BY <2>1, <2>3
    <3>2. FlattenSeq(seqs) = fl[Len(seqs)]
      BY <1>1, <2>1, <2>2
    <3> QED BY <2>1, <2>3, <3>1, <3>2, Zenon DEF Flattened
  <2> QED BY <2>4
<1>2. CASE n # 0
  <2> DEFINE k == CHOOSE f : FlattenRec(seqs, f)
  <2>1. FlattenRec(seqs, k)
    BY FlattenExists
  <2>2. FlattenSeq(seqs) = k[n]
    BY <1>2, Zenon DEF FlattenSeq, FlattenRec
  <2> HIDE DEF k
  <2>3. ASSUME NEW i \in 1..n PROVE k[i] = IF i = 1 THEN seqs[i] ELSE k[i-1] \o seqs[i]
    BY <2>1 DEF FlattenRec
  <2> DEFINE fl == [i \in 0..n |-> IF i = 0 THEN << >> ELSE k[i]]
             T == {i \in 0..n : fl[i] \in Seq(S)}
  <2>4. fl[0] = << >> /\ \A i \in 1..n : fl[i] = k[i]
    OBVIOUS
  <2> HIDE DEF fl
  <2>5. ASSUME NEW i \in 1..n PROVE fl[i] = fl[i - 1] \o seqs[i]
    <3>1. CASE i = 1
      <4>1. fl[i] = seqs[i] /\ fl[i - 1] = << >>
        BY <2>3, <2>4, <3>1
      <4>2. << >> \o seqs[i] = seqs[i]
        BY ConcatEmptySeq
      <4> QED BY <4>1, <4>2
    <3>2. CASE i # 1
      <4>1. i - 1 \in 1..n
        BY <3>2
      <4>2. fl[i] = k[i] /\ fl[i - 1] = k[i - 1] /\ k[i] = k[i - 1] \o seqs[i]
        BY <2>3, <2>4, <3>2, <4>1
      <4> QED BY <4>2
    <3> QED BY <3>1, <3>2
  <2>6. 0 \in T
    <3>1. fl[0] \in Seq(S) /\ 0 \in 0..n
      BY <2>4, EmptySeq
    <3> QED BY <3>1
  <2>7. \A i \in 0..n : i < n /\ i \in T => i + 1 \in T
    <3> SUFFICES ASSUME NEW i \in 0..n, i < n, fl[i] \in Seq(S) PROVE i + 1 \in 0..n /\ fl[i + 1] \in Seq(S)
      OBVIOUS
    <3>1. i + 1 \in 1..n /\ (i + 1) - 1 = i /\ i + 1 \in 0..n
      OBVIOUS
    <3>2. fl[i + 1] = fl[i] \o seqs[i + 1] /\ seqs[i + 1] \in Seq(S)
      BY <2>5, <3>1
    <3>3. fl[i] \o seqs[i + 1] \in Seq(S)
      BY <3>2, ConcatProperties
    <3> QED BY <3>1, <3>2, <3>3
  <2>8. \A i \in 0..n : fl[i] \in Seq(S)
    <3> HIDE DEF T
    <3>1. 0..n \subseteq T
      BY <2>6, <2>7, InductionUpTo
    <3> QED BY <3>1 DEF T
  <2>9. FlattenSeq(seqs) = fl[n]
    BY <1>2, <2>2, <2>4
  <2>10. Flattened(seqs, S, fl)
    BY <2>4, <2>5, <2>8, <2>9 DEF Flattened
  <2> QED BY <2>10
<1> QED BY <1>1, <1>2

(* A set of numbers that is not empty has a least element. *)
LEMMA LeastIs ==
    ASSUME NEW S, S \subseteq Nat, S # {}
    PROVE  \E x \in S : \A y \in S : x <= y
<1> SUFFICES ASSUME \A x \in S : \E y \in S : ~ (x <= y) PROVE FALSE
  OBVIOUS
<1> DEFINE T == {n \in Nat : \A y \in S : n < y}
<1>1. 0 \in T
  <2>1. ASSUME 0 \in S PROVE FALSE
    BY <2>1
  <2> QED BY <2>1
<1>2. \A n \in Nat : n \in T => n + 1 \in T
  <2> SUFFICES ASSUME NEW n \in Nat, \A y \in S : n < y PROVE \A y \in S : n + 1 < y
    OBVIOUS
  <2>1. n + 1 \notin S
    <3> SUFFICES ASSUME n + 1 \in S PROVE FALSE
      OBVIOUS
    <3>1. PICK y \in S : ~ (n + 1 <= y)
      OBVIOUS
    <3> QED BY <3>1
  <2> QED BY <2>1
<1> HIDE DEF T
<1>3. Nat \subseteq T
  BY <1>1, <1>2, InductionOnSets
<1>4. PICK y : y \in S
  OBVIOUS
<1>5. y \in T
  BY <1>3, <1>4
<1> QED BY <1>4, <1>5 DEF T

------------------------------------------------------------------------------

(* The line gives d a usable value. *)
Gives(line, d) == line.key = d /\ line.value # Unset

(* v is what the lines from a to b say of d: the first value given, if any. *)
SaidOf(text, a, b, d, v) ==
    \/ v = Unset /\ \A j \in a..b : ~ Gives(text[j], d)
    \/ \E j \in a..b : Gives(text[j], d) /\ v = text[j].value /\ \A k \in a..j-1 : ~ Gives(text[k], d)

(* What the lines of a block say of d is its first value, and nothing else is. *)
LEMMA FirstValueIs ==
    ASSUME NEW text, NEW h \in Nat, NEW e \in Nat, NEW d, Extent(text, h) = h+1..e
    PROVE  SaidOf(text, h + 1, e, d, FirstValue(text, h, d))
           /\ \A v : SaidOf(text, h + 1, e, d, v) => v = FirstValue(text, h, d)
<1> DEFINE given == {j \in h+1..e : Gives(text[j], d)}
           v0 == FirstValue(text, h, d)
<1>1. v0 = IF given = {} THEN Unset ELSE text[CHOOSE j \in given : \A k \in given : j <= k].value
  BY DEF FirstValue, Gives
<1> HIDE DEF v0
<1>2. CASE given = {}
  BY <1>1, <1>2 DEF SaidOf, v0
<1>3. CASE given # {}
  <2> DEFINE j0 == CHOOSE j \in given : \A k \in given : j <= k
  <2>1. \E j \in given : \A k \in given : j <= k
    <3>1. given \subseteq Nat
      OBVIOUS
    <3> HIDE DEF given
    <3> QED BY <1>3, <3>1, LeastIs
  <2>2. j0 \in given /\ \A k \in given : j0 <= k
    BY <2>1
  <2>3. v0 = text[j0].value
    BY <1>1, <1>3
  <2> HIDE DEF j0
  <2>4. j0 \in h+1..e /\ Gives(text[j0], d) /\ \A k \in h+1..j0-1 : ~ Gives(text[k], d)
    BY <2>2
  <2>5. SaidOf(text, h + 1, e, d, v0)
    BY <2>3, <2>4 DEF SaidOf
  <2>6. ASSUME NEW v, SaidOf(text, h + 1, e, d, v) PROVE v = v0
    <3>1. PICK j \in h+1..e : Gives(text[j], d) /\ v = text[j].value /\ \A k \in h+1..j-1 : ~ Gives(text[k], d)
      BY <2>4, <2>6 DEF SaidOf
    <3>2. j = j0
      BY <2>2, <2>4, <3>1
    <3> QED BY <2>3, <3>1, <3>2
  <2> QED BY <2>5, <2>6 DEF v0
<1> QED BY <1>2, <1>3

(* A line that says nothing new of d changes nothing. *)
LEMMA SaidMore ==
    ASSUME NEW text, NEW a \in Nat, NEW i \in Nat, a <= i + 1, NEW d, NEW v,
           SaidOf(text, a, i, d, v), ~ Gives(text[i + 1], d) \/ v # Unset
    PROVE  SaidOf(text, a, i + 1, d, v)
<1>1. CASE v = Unset /\ \A j \in a..i : ~ Gives(text[j], d)
  <2>1. \A j \in a..i+1 : j \in a..i \/ j = i + 1
    OBVIOUS
  <2>2. \A j \in a..i+1 : ~ Gives(text[j], d)
    BY <1>1, <2>1
  <2> QED BY <1>1, <2>2 DEF SaidOf
<1>2. ASSUME NEW j \in a..i, Gives(text[j], d), v = text[j].value, \A k \in a..j-1 : ~ Gives(text[k], d)
      PROVE  SaidOf(text, a, i + 1, d, v)
  <2>1. j \in a..i+1
    OBVIOUS
  <2> QED BY <1>2, <2>1 DEF SaidOf
<1> QED BY <1>1, <1>2 DEF SaidOf

(* The first line that says something of d says what it is. *)
LEMMA SaidFirst ==
    ASSUME NEW text, NEW a \in Nat, NEW i \in Nat, a <= i + 1, NEW d,
           SaidOf(text, a, i, d, Unset), text[i + 1].key = d
    PROVE  SaidOf(text, a, i + 1, d, text[i + 1].value)
<1>1. \A j \in a..i : ~ Gives(text[j], d)
  BY DEF SaidOf, Gives
<1>2. CASE Gives(text[i + 1], d)
  <2>1. i + 1 \in a..i+1 /\ \A k \in a..(i+1)-1 : k \in a..i
    OBVIOUS
  <2>2. \A k \in a..(i+1)-1 : ~ Gives(text[k], d)
    BY <1>1, <2>1
  <2> QED BY <1>2, <2>1, <2>2 DEF SaidOf
<1>3. CASE ~ Gives(text[i + 1], d)
  <2>1. text[i + 1].value = Unset
    BY <1>3 DEF Gives
  <2> QED BY <1>3, <2>1, SaidMore
<1> QED BY <1>2, <1>3

(* What AsWritten has of one line. *)
Written(text, j) ==
    IF text[j].key # "host" THEN << >>
    ELSE LET aliases == Concrete(text[j].aliases) IN
         [n \in DOMAIN aliases |->
             Candidate(aliases[n], [d \in Directives |-> FirstValue(text, j, d)])]

(* The first value is one of the text. *)
LEMMA FirstValueIn ==
    ASSUME NEW text, Len(text) \in Nat, DOMAIN text = 1..Len(text), NEW h \in Nat, NEW d
    PROVE  FirstValue(text, h, d) \in Values(text)
<1> DEFINE given == {j \in Extent(text, h) : text[j].key = d /\ text[j].value # Unset}
           v0 == FirstValue(text, h, d)
<1>1. v0 = IF given = {} THEN Unset ELSE text[CHOOSE j \in given : \A k \in given : j <= k].value
  BY DEF FirstValue
<1> HIDE DEF v0
<1>2. given \subseteq 1..Len(text)
  BY DEF Extent
<1> HIDE DEF given
<1>3. CASE given = {}
  BY <1>1, <1>3 DEF Values, v0
<1>4. CASE given # {}
  <2> DEFINE j0 == CHOOSE j \in given : \A k \in given : j <= k
  <2>1. \E j \in given : \A k \in given : j <= k
    <3>1. given \subseteq Nat
      BY <1>2
    <3> QED BY <1>4, <3>1, LeastIs
  <2>2. j0 \in given
    BY <2>1
  <2>3. v0 = text[j0].value
    BY <1>1, <1>4
  <2> HIDE DEF j0
  <2> QED BY <1>2, <2>2, <2>3 DEF Values, v0
<1> QED BY <1>3, <1>4

(* These are candidates. *)
LEMMA WrittenIs ==
    ASSUME NEW N, NEW text, NamesOver(N, text), NEW j \in DOMAIN text
    PROVE  Written(text, j) \in Seq(HostsOver(N, text))
<1> DEFINE H == HostsOver(N, text)
           al == Concrete(text[j].aliases)
           v == [d \in Directives |-> FirstValue(text, j, d)]
           q == [n \in DOMAIN al |-> Candidate(al[n], v)]
<1>1. Len(text) \in Nat /\ DOMAIN text = 1..Len(text) /\ j \in Nat
  BY DEF NamesOver, IsText
<1>2. CASE text[j].key # "host"
  <2>1. Written(text, j) = << >>
    BY <1>2 DEF Written
  <2> QED BY <2>1, EmptySeq
<1>3. CASE text[j].key = "host"
  <2>1. al \in Seq(N)
    BY <1>3, ConcreteIs DEF NamesOver, IsText
  <2>2. v \in [Directives -> Values(text)]
    BY <1>1, FirstValueIn
  <2>3. Written(text, j) = q
    BY <1>3, Zenon DEF Written
  <2> HIDE DEF al, v
  <2>4. Len(al) \in Nat /\ DOMAIN al = 1..Len(al) /\ \A n \in 1..Len(al) : al[n] \in N
    BY <2>1
  <2>5. \A n \in DOMAIN al : Candidate(al[n], v) \in H
    BY <2>2, <2>4 DEF HostsOver
  <2>6. q \in [1..Len(al) -> H]
    BY <2>4, <2>5, Zenon
  <2> HIDE DEF q, H
  <2>7. q \in Seq(H)
    BY <2>4, <2>6, SeqDef
  <2> QED BY <2>3, <2>7 DEF H
<1> QED BY <1>2, <1>3

(* No header after line h, up to line e, and one next, or the end of the text. *)
LEMMA ExtentIs ==
    ASSUME NEW text, Len(text) \in Nat, NEW h \in Nat, NEW e \in Nat, h <= e, e <= Len(text),
           \A k \in h+1..e : ~ Header(text[k]), e < Len(text) => Header(text[e + 1])
    PROVE  Extent(text, h) = h+1..e
<1>1. ASSUME NEW j \in Extent(text, h) PROVE j \in h+1..e
  <2>1. j \in h+1..Len(text) /\ \A k \in h+1..j : ~ Header(text[k])
    BY DEF Extent
  <2>2. CASE j > e
    <3>1. e < Len(text) /\ e + 1 \in h+1..j
      BY <2>1, <2>2
    <3> QED BY <2>1, <3>1
  <2> QED BY <2>1, <2>2
<1>2. ASSUME NEW j \in h+1..e PROVE j \in Extent(text, h)
  <2>1. j \in h+1..Len(text)
    OBVIOUS
  <2>2. \A k \in h+1..j : k \in h+1..e
    OBVIOUS
  <2> QED BY <2>1, <2>2 DEF Extent
<1> QED BY <1>1, <1>2

(* The scan after line i, whose last header is line h: the blocks before are finished,
   the values are what the lines since then say. *)
ReadUpTo(text, st, fl, h, i) ==
    /\ h = 0 \/ Header(text[h])
    /\ \A k \in h+1..i : ~ Header(text[k])
    /\ fl[i] = fl[h]
    /\ st.hosts = IF h = 0 THEN << >> ELSE fl[h - 1]
    /\ st.block.aliases = IF h # 0 /\ text[h].key = "host" THEN Concrete(text[h].aliases) ELSE << >>
    /\ st.block.aliases # << >> =>
          \A d \in Directives : SaidOf(text, h + 1, i, d, st.block.values[d])

(* Finishing the block there gives the candidates as written up to line i. *)
LEMMA BlockIsWritten ==
    ASSUME NEW N, NEW text, NamesOver(N, text), NEW fl,
           Flattened([j \in DOMAIN text |-> Written(text, j)], HostsOver(N, text), fl),
           NEW i \in 0..Len(text), NEW h \in 0..i,
           NEW st \in [hosts : Seq(HostsOver(N, text)), block : BlocksOver(N, text)],
           ReadUpTo(text, st, fl, h, i), i < Len(text) => Header(text[i + 1])
    PROVE  Finish(st.hosts, st.block) = fl[i]
<1> DEFINE seqs == [j \in DOMAIN text |-> Written(text, j)]
           al == st.block.aliases
           v == st.block.values
           w == [d \in Directives |-> FirstValue(text, h, d)]
           q == [n \in DOMAIN al |-> Candidate(al[n], v)]
<1>1. Len(text) \in Nat /\ DOMAIN text = 1..Len(text) /\ i \in Nat /\ h \in Nat /\ h <= i
  BY DEF NamesOver, IsText
<1>2. Len(seqs) = Len(text) /\ \A j \in 1..Len(text) : seqs[j] = Written(text, j)
  BY <1>1
<1>3. /\ fl[0] = << >>
      /\ \A j \in 1..Len(text) : fl[j] = fl[j - 1] \o Written(text, j)
      /\ \A j \in 0..Len(text) : fl[j] \in Seq(HostsOver(N, text))
  <2> HIDE DEF seqs
  <2>1. Flattened(seqs, HostsOver(N, text), fl)
    BY Zenon DEF seqs
  <2> QED BY <1>2, <2>1 DEF Flattened
<1>4. Finish(st.hosts, st.block) = st.hosts \o q
  BY Zenon DEF Finish
<1>5. fl[i] = fl[h] /\ st.hosts = IF h = 0 THEN << >> ELSE fl[h - 1]
  BY DEF ReadUpTo
<1>6. al \in Seq(N) /\ v \in [Directives -> Values(text)]
  BY DEF BlocksOver
<1> HIDE DEF al, v, q, w, seqs
<1>7. CASE al = << >>
  <2>1. q = << >>
    BY <1>7, EmptySeq DEF q
  <2>2. st.hosts \o q = st.hosts
    BY <2>1, ConcatEmptySeq
  <2>3. CASE h = 0
    BY <1>3, <1>4, <1>5, <2>2, <2>3
  <2>4. CASE h # 0
    <3>1. h \in 1..Len(text)
      BY <1>1, <2>4
    <3>2. Written(text, h) = << >>
      <4>1. CASE text[h].key # "host"
        BY <4>1 DEF Written
      <4>2. CASE text[h].key = "host"
        <5>1. Concrete(text[h].aliases) = << >>
          BY <1>7, <2>4, <4>2 DEF ReadUpTo, al
        <5>2. Written(text, h) = [n \in DOMAIN << >> |-> Candidate(<< >>[n], w)]
          BY <4>2, <5>1, Zenon DEF Written, w
        <5>3. [n \in DOMAIN << >> |-> Candidate(<< >>[n], w)] = << >>
          BY EmptySeq
        <5> QED BY <5>2, <5>3
      <4> QED BY <4>1, <4>2
    <3>3. h - 1 \in 0..Len(text) /\ fl[h] = fl[h - 1] \o << >>
      <4>1. fl[h] = fl[h - 1] \o Written(text, h)
        BY <1>3, <3>1
      <4>2. h - 1 \in 0..Len(text)
        BY <1>1, <3>1
      <4> QED BY <3>2, <4>1, <4>2
    <3>4. fl[h - 1] \o << >> = fl[h - 1]
      BY <1>3, <3>3, ConcatEmptySeq
    <3> QED BY <1>4, <1>5, <2>2, <2>4, <3>3, <3>4
  <2> QED BY <2>3, <2>4
<1>8. CASE al # << >>
  <2>1. h # 0 /\ text[h].key = "host" /\ al = Concrete(text[h].aliases)
    BY <1>8 DEF ReadUpTo, al
  <2>2. Extent(text, h) = h+1..i
    <3>1. \A k \in h+1..i : ~ Header(text[k])
      BY DEF ReadUpTo
    <3>2. i <= Len(text)
      BY <1>1
    <3> QED BY <1>1, <3>1, <3>2, ExtentIs
  <2>3. \A d \in Directives : v[d] = FirstValue(text, h, d)
    <3> SUFFICES ASSUME NEW d \in Directives PROVE v[d] = FirstValue(text, h, d)
      OBVIOUS
    <3>1. SaidOf(text, h + 1, i, d, v[d])
      BY <1>8 DEF ReadUpTo, al, v
    <3> QED BY <1>1, <2>2, <3>1, FirstValueIs
  <2>4. v = w
    BY <1>6, <2>3 DEF w
  <2>5. Written(text, h) = q
    BY <2>1, <2>4, Zenon DEF Written, q, w
  <2>6. h \in 1..Len(text)
    BY <1>1, <2>1
  <2> QED BY <1>3, <1>4, <1>5, <2>1, <2>5, <2>6
<1> QED BY <1>7, <1>8

(* One line more. *)
LEMMA ReadOneMore ==
    ASSUME NEW N, NEW text, NamesOver(N, text), NEW fl,
           Flattened([j \in DOMAIN text |-> Written(text, j)], HostsOver(N, text), fl),
           NEW i \in 0..Len(text), i < Len(text), NEW h \in 0..i,
           NEW st \in [hosts : Seq(HostsOver(N, text)), block : BlocksOver(N, text)],
           ReadUpTo(text, st, fl, h, i)
    PROVE  \E g \in 0..i+1 : ReadUpTo(text, Read(st, text[i + 1]), fl, g, i + 1)
<1> DEFINE seqs == [j \in DOMAIN text |-> Written(text, j)]
           line == text[i + 1]
           st2 == Read(st, line)
<1>1. Len(text) \in Nat /\ DOMAIN text = 1..Len(text) /\ i \in Nat /\ h \in Nat /\ h <= i /\ i + 1 \in 1..Len(text)
  BY DEF NamesOver, IsText
<1>2. Len(seqs) = Len(text) /\ \A j \in 1..Len(text) : seqs[j] = Written(text, j)
  BY <1>1
<1>3. fl[i + 1] = fl[i] \o Written(text, i + 1) /\ fl[i] \in Seq(HostsOver(N, text))
  <2> HIDE DEF seqs
  <2>1. Flattened(seqs, HostsOver(N, text), fl)
    BY Zenon DEF seqs
  <2>2. fl[i + 1] = fl[(i + 1) - 1] \o seqs[i + 1]
    BY <1>1, <1>2, <2>1 DEF Flattened
  <2>3. fl[i] \in Seq(HostsOver(N, text))
    BY <1>2, <2>1 DEF Flattened
  <2>4. (i + 1) - 1 = i
    BY <1>1
  <2> QED BY <1>1, <1>2, <2>2, <2>3, <2>4
<1> HIDE DEF seqs
<1>4. CASE Header(line)
  <2>1. Finish(st.hosts, st.block) = fl[i]
    BY <1>4, BlockIsWritten
  <2> DEFINE b == IF line.key = "host" THEN Opened(Concrete(line.aliases)) ELSE Skipped
  <2>2. st2 = [hosts |-> fl[i], block |-> b]
    BY <1>4, <2>1, Zenon DEF Read
  <2>3. /\ b.aliases = IF line.key = "host" THEN Concrete(line.aliases) ELSE << >>
        /\ \A d \in Directives : b.values[d] = Unset
    BY DEF Opened, Skipped
  <2> HIDE DEF st2, b
  <2>4. \A k \in (i+1)+1..i+1 : FALSE
    BY <1>1
  <2>5. \A d \in Directives : SaidOf(text, (i + 1) + 1, i + 1, d, b.values[d])
    BY <2>3, <2>4 DEF SaidOf
  <2>6. i + 1 # 0 /\ (i + 1) - 1 = i /\ i + 1 \in 0..i+1
    BY <1>1
  <2>7. ReadUpTo(text, st2, fl, i + 1, i + 1)
    BY <1>4, <2>2, <2>3, <2>4, <2>5, <2>6 DEF ReadUpTo
  <2> QED BY <2>6, <2>7 DEF st2
<1>5. CASE ~ Header(line)
  <2>1. fl[i + 1] = fl[h]
    <3>1. Written(text, i + 1) = << >>
      BY <1>5 DEF Written, Header
    <3>2. fl[i] \o << >> = fl[i]
      BY <1>3, ConcatEmptySeq
    <3> QED BY <1>3, <3>1, <3>2 DEF ReadUpTo
  <2>2. \A k \in h+1..i+1 : ~ Header(text[k])
    <3>1. \A k \in h+1..i+1 : k \in h+1..i \/ k = i + 1
      BY <1>1
    <3> QED BY <1>5, <3>1 DEF ReadUpTo
  <2>3. h \in 0..i+1 /\ h + 1 \in Nat /\ h + 1 <= i + 1
    BY <1>1
  <2>4. CASE line.key \in Directives /\ st.block.aliases # << >> /\ st.block.values[line.key] = Unset
    <3> DEFINE d0 == line.key
    <3>1. st2 = [st EXCEPT !.block.values[d0] = line.value]
      BY <1>5, <2>4, Zenon DEF Read
    <3>2. /\ st2.hosts = st.hosts /\ st2.block.aliases = st.block.aliases
          /\ st2.block.values[d0] = line.value
          /\ \A d \in Directives : d # d0 => st2.block.values[d] = st.block.values[d]
      <4>1. st = [hosts |-> st.hosts, block |-> [aliases |-> st.block.aliases, values |-> st.block.values]]
        BY DEF BlocksOver
      <4>2. st.block.values \in [Directives -> Values(text)]
        BY DEF BlocksOver
      <4> QED BY <2>4, <3>1, <4>1, <4>2
    <3> HIDE DEF st2
    <3>3. ASSUME NEW d \in Directives PROVE SaidOf(text, h + 1, i + 1, d, st2.block.values[d])
      <4>1. SaidOf(text, h + 1, i, d, st.block.values[d])
        BY <2>4 DEF ReadUpTo
      <4>2. CASE d = d0
        <5>1. SaidOf(text, h + 1, i + 1, d, line.value)
          BY <1>1, <2>3, <2>4, <4>1, <4>2, SaidFirst
        <5> QED BY <3>2, <4>2, <5>1
      <4>3. CASE d # d0
        <5>1. ~ Gives(text[i + 1], d)
          BY <4>3 DEF Gives
        <5> QED BY <1>1, <2>3, <3>2, <4>1, <4>3, <5>1, SaidMore
      <4> QED BY <4>2, <4>3
    <3>4. ReadUpTo(text, st2, fl, h, i + 1)
      BY <2>1, <2>2, <3>2, <3>3 DEF ReadUpTo
    <3> QED BY <2>3, <3>4 DEF st2
  <2>5. CASE ~ (line.key \in Directives /\ st.block.aliases # << >> /\ st.block.values[line.key] = Unset)
    <3>1. st2 = st
      BY <1>5, <2>5, Zenon DEF Read
    <3> HIDE DEF st2
    <3>2. ASSUME NEW d \in Directives, st.block.aliases # << >>
          PROVE  SaidOf(text, h + 1, i + 1, d, st.block.values[d])
      <4>1. SaidOf(text, h + 1, i, d, st.block.values[d])
        BY <3>2 DEF ReadUpTo
      <4>2. ~ Gives(text[i + 1], d) \/ st.block.values[d] # Unset
        BY <2>5, <3>2 DEF Gives
      <4> QED BY <1>1, <2>3, <4>1, <4>2, SaidMore
    <3>3. ReadUpTo(text, st2, fl, h, i + 1)
      BY <2>1, <2>2, <3>1, <3>2 DEF ReadUpTo
    <3> QED BY <2>3, <3>3 DEF st2
  <2> QED BY <2>4, <2>5
<1> QED BY <1>4, <1>5

(* The one pass of parse finds what is written. *)
LEMMA ParseAsWritten ==
    ASSUME NEW text, IsText(text)
    PROVE  Parse(text) = AsWritten(text)
<1> DEFINE N == UNION {IF text[j].key = "host" THEN Range(text[j].aliases) ELSE {} : j \in DOMAIN text}
           H == HostsOver(N, text)
           B == BlocksOver(N, text)
           St == [hosts : Seq(H), block : B]
           seqs == [j \in DOMAIN text |-> Written(text, j)]
           n == Len(text)
<1>1. n \in Nat /\ DOMAIN text = 1..n
  BY DEF IsText
<1>2. NamesOver(N, text)
  BY DEF NamesOver
<1> HIDE DEF N
<1>3. AsWritten(text) = FlattenSeq(seqs)
  BY Zenon DEF AsWritten, Written
<1>4. DOMAIN seqs = 1..n /\ Len(seqs) = n /\ \A j \in 1..n : seqs[j] \in Seq(H)
  BY <1>1, <1>2, WrittenIs
<1>5. n = 0 => seqs = << >>
  BY <1>1, EmptySeq
<1>6. PICK fl : Flattened(seqs, H, fl)
  <2> HIDE DEF seqs, H
  <2> QED BY <1>1, <1>4, <1>5, FlattenIs
<1>7. AsWritten(text) = fl[n] /\ fl[0] = << >>
  <2> HIDE DEF seqs
  <2> QED BY <1>3, <1>4, <1>6 DEF Flattened
<1>8. PICK f : /\ f[0] = [hosts |-> << >>, block |-> Skipped]
               /\ \A i \in 1..n : f[i] = Read(f[i - 1], text[i])
               /\ Parse(text) = Finish(f[n].hosts, f[n].block)
  BY <1>1, ParseBy
<1> DEFINE T == {i \in 0..n : f[i] \in St /\ \E h \in 0..i : ReadUpTo(text, f[i], fl, h, i)}
<1>9. 0 \in T
  <2>1. Skipped \in B
    BY EmptySeq DEF Skipped, Opened, BlocksOver, Values
  <2>2. f[0] \in St
    BY <1>8, <2>1, EmptySeq
  <2>3. Skipped.aliases = << >>
    BY DEF Skipped, Opened
  <2>4. \A k \in 0+1..0 : FALSE
    OBVIOUS
  <2>5. ReadUpTo(text, f[0], fl, 0, 0)
    BY <1>8, <2>3, <2>4 DEF ReadUpTo
  <2> HIDE DEF St
  <2> QED BY <1>1, <2>2, <2>5
<1>10. \A i \in 0..n : i < n /\ i \in T => i + 1 \in T
  <2> SUFFICES ASSUME NEW i \in 0..n, i < n, f[i] \in St, NEW h \in 0..i, ReadUpTo(text, f[i], fl, h, i)
               PROVE  i + 1 \in T
    OBVIOUS
  <2>1. i + 1 \in DOMAIN text /\ i + 1 \in 1..n /\ (i + 1) - 1 = i /\ i + 1 \in 0..n
    BY <1>1
  <2>2. f[i + 1] = Read(f[i], text[i + 1])
    BY <1>8, <2>1
  <2>3. Read(f[i], text[i + 1]) \in St
    BY <1>2, <2>1, ReadIs
  <2>4. PICK g \in 0..i+1 : ReadUpTo(text, Read(f[i], text[i + 1]), fl, g, i + 1)
    <3> DEFINE st == f[i]
    <3>1. st \in [hosts : Seq(HostsOver(N, text)), block : BlocksOver(N, text)] /\ ReadUpTo(text, st, fl, h, i)
      OBVIOUS
    <3> HIDE DEF st
    <3>2. \E g \in 0..i+1 : ReadUpTo(text, Read(st, text[i + 1]), fl, g, i + 1)
      BY <1>2, <1>6, <3>1, ReadOneMore
    <3> QED BY <3>2 DEF st
  <2> HIDE DEF St
  <2> QED BY <2>1, <2>2, <2>3, <2>4
<1>11. n \in T
  <2> HIDE DEF T
  <2>1. 0..n \subseteq T
    BY <1>1, <1>9, <1>10, InductionUpTo
  <2> QED BY <1>1, <2>1
<1>12. PICK h \in 0..n : ReadUpTo(text, f[n], fl, h, n)
  BY <1>11
<1> DEFINE st == f[n]
<1>13. st \in [hosts : Seq(HostsOver(N, text)), block : BlocksOver(N, text)] /\ ReadUpTo(text, st, fl, h, n)
  BY <1>11, <1>12
<1> HIDE DEF st
<1>14. Finish(st.hosts, st.block) = fl[n]
  <2>1. n \in 0..n /\ ~ (n < n)
    BY <1>1
  <2> QED BY <1>2, <1>6, <1>13, <2>1, BlockIsWritten
<1> QED BY <1>7, <1>8, <1>14 DEF st

------------------------------------------------------------------------------
(* Importing. *)

(* The store after an operation is the last it saves, if it saves one. *)
LEMMA CurrentIs ==
    ASSUME NEW steps, steps \in Seq(Range(steps)), NEW d
    PROVE  Last(<<d>> \o steps) = IF steps = << >> THEN d ELSE steps[Len(steps)]
<1> DEFINE A == Range(steps) \cup {d}
<1>1. steps \in Seq(A) /\ <<d>> \in Seq(A)
  <2>1. Range(steps) \subseteq A /\ d \in A
    OBVIOUS
  <2> HIDE DEF A
  <2> QED BY <2>1, SeqOfMore
<1> HIDE DEF A
<1>2. CASE steps = << >>
  BY <1>1, <1>2 DEF Last
<1>3. CASE steps # << >>
  <2>1. Len(steps) \in Nat /\ Len(steps) > 0
    BY <1>1, <1>3
  <2>2. Len(<<d>> \o steps) = Len(steps) + 1 /\ (<<d>> \o steps)[Len(steps) + 1] = steps[Len(steps)]
    BY <1>1, <2>1
  <2> QED BY <1>3, <2>2 DEF Last
<1> QED BY <1>2, <1>3

(* What Importing computes: the names taken and the stores saved after each host. *)
AfterRec(hosts, names, f) ==
    f = [i \in 0..Len(hosts) |->
            IF i = 0 THEN [names |-> names, steps |-> << >>] ELSE Import(f[i - 1], hosts[i])]

(* There is such a function. *)
LEMMA AfterExists ==
    ASSUME NEW hosts, Len(hosts) \in Nat, NEW names
    PROVE  \E f : AfterRec(hosts, names, f)
<1> DEFINE n == Len(hosts)
           z == [names |-> names, steps |-> << >>]
           Next1(x, i) == Import(x, hosts[i])
           Upto(m, f) == f = [i \in 0..m |-> IF i = 0 THEN z ELSE Next1(f[i - 1], i)]
           T == {m \in Nat : \E f : Upto(m, f)}
<1> HIDE DEF Next1, z
<1>1. 0 \in T
  <2>1. Upto(0, [i \in 0..0 |-> z])
    OBVIOUS
  <2> QED BY <2>1
<1>2. \A m \in Nat : m \in T => m + 1 \in T
  <2> HIDE DEF Upto
  <2> SUFFICES ASSUME NEW m \in Nat, NEW f, Upto(m, f) PROVE \E g : Upto(m + 1, g)
    OBVIOUS
  <2> USE DEF Upto
  <2> DEFINE g == [i \in 0..m+1 |-> IF i <= m THEN f[i] ELSE Next1(f[m], m + 1)]
  <2>1. Upto(m + 1, g)
    OBVIOUS
  <2> QED BY <2>1
<1>3. n \in T
  <2> HIDE DEF T
  <2> QED BY <1>1, <1>2, InductionOnSets
<1> QED BY <1>3 DEF AfterRec, Next1, z

(* The names of profiles as the import compares them. *)
FoldedOf(ps) == {Folded[ps[i].name] : i \in DOMAIN ps}

(* Importing by its recursion, host by host. *)
LEMMA ImportingBy ==
    ASSUME NEW text, Len(Parse(text)) \in Nat
    PROVE  \E f : /\ f[0] = [names |-> FoldedOf(data.profiles), steps |-> << >>]
                  /\ \A i \in 1..Len(Parse(text)) : f[i] = Import(f[i - 1], Parse(text)[i])
                  /\ Importing(text) = f[Len(Parse(text))].steps
<1> DEFINE hosts == Parse(text)
           names == FoldedOf(data.profiles)
           k == CHOOSE f : AfterRec(hosts, names, f)
<1>1. AfterRec(hosts, names, k)
  <2> HIDE DEF hosts, names
  <2>1. Len(hosts) \in Nat
    BY DEF hosts
  <2> QED BY <2>1, AfterExists
<1>2. Importing(text) = k[Len(hosts)].steps
  BY Zenon DEF Importing, AfterRec, FoldedOf
<1> HIDE DEF k
<1>3. k[0] = [names |-> names, steps |-> << >>]
  BY <1>1 DEF AfterRec
<1>4. ASSUME NEW i \in 1..Len(hosts) PROVE k[i] = Import(k[i - 1], hosts[i])
  <2>1. i \in 0..Len(hosts) /\ i # 0
    OBVIOUS
  <2> QED BY <1>1, <2>1 DEF AfterRec
<1> QED BY <1>2, <1>3, <1>4

(* What an import has done by its i-th host. *)
ImportGood(st, hosts, i, ps) ==
    /\ st.steps \in Seq(Range(st.steps))
    /\ \A k \in DOMAIN st.steps : StoreGood(st.steps[k], made + k, uses)
    /\ ps = Last(<<data>> \o st.steps).profiles
    /\ st.names = FoldedOf(ps)
    /\ Len(data.profiles) <= Len(ps)
    /\ \A j \in DOMAIN data.profiles : ps[j] = data.profiles[j]
    /\ \A j, h \in DOMAIN ps :
          j > Len(data.profiles) /\ Folded[ps[h].name] = Folded[ps[j].name] => h = j
    /\ \A h \in 1..i : Folded[hosts[h].name] \in st.names

(* One host keeps that: it is passed over, or becomes a profile with a new id and a new name. *)
LEMMA ImportIs ==
    ASSUME made \in Nat, uses \in Nat, StoreGood(data, made, uses),
           NEW CONSTANT hosts, NEW CONSTANT i \in Nat, NEW CONSTANT st, NEW CONSTANT ps,
           hosts[i + 1].name \in DOMAIN Folded, ImportGood(st, hosts, i, ps)
    PROVE  \E qs : ImportGood(Import(st, hosts[i + 1]), hosts, i + 1, qs)
<1> DEFINE host == hosts[i + 1]
           steps == st.steps
           n == Len(steps)
           cur == Last(<<data>> \o steps)
           m == made + n
           p == AsProfile(made + 1 + n, host)
           new == Upserted(cur, p)
           qs == Append(ps, p)
           L == Len(data.profiles)
<1>1. /\ steps \in Seq(Range(steps))
      /\ \A k \in DOMAIN steps : StoreGood(steps[k], made + k, uses)
      /\ ps = cur.profiles /\ st.names = FoldedOf(ps)
      /\ L <= Len(ps) /\ \A j \in DOMAIN data.profiles : ps[j] = data.profiles[j]
      /\ \A j, h \in DOMAIN ps : j > L /\ Folded[ps[h].name] = Folded[ps[j].name] => h = j
      /\ \A h \in 1..i : Folded[hosts[h].name] \in st.names
  BY Zenon DEF ImportGood
<1>2. n \in Nat /\ DOMAIN steps = 1..n
  BY <1>1
<1>3. cur = IF steps = << >> THEN data ELSE steps[n]
  BY <1>1, CurrentIs
<1>4. StoreGood(cur, m, uses)
  <2>1. CASE steps = << >>
    BY <1>3, <2>1
  <2>2. CASE steps # << >>
    <3>1. n \in DOMAIN steps
      BY <1>1, <1>2, <2>2
    <3> QED BY <1>1, <1>3, <2>2, <3>1
  <2> QED BY <2>1, <2>2
<1>5. m \in Nat /\ m + 1 = made + 1 + n
  <2> HIDE DEF n
  <2> QED BY <1>2
<1>6. ps \in Seq(Range(ps)) /\ Len(ps) \in Nat /\ DOMAIN ps = 1..Len(ps)
      /\ data.profiles \in Seq(Range(data.profiles)) /\ L \in Nat /\ DOMAIN data.profiles = 1..L
  BY <1>1, <1>4 DEF StoreGood, ProfilesGood
<1>7. CASE Folded[host.name] \in st.names
  <2>1. Import(st, host) = st
    BY <1>7 DEF Import
  <2>2. \A h \in 1..i+1 : Folded[hosts[h].name] \in st.names
    BY <1>1, <1>7
  <2> QED BY <1>1, <2>1, <2>2 DEF ImportGood
<1>8. CASE Folded[host.name] \notin st.names
  <2> DEFINE st2 == Import(st, host)
             all == Append(steps, new)
             A == Range(steps) \cup {new}
  <2>1. st2.names = st.names \cup {Folded[host.name]} /\ st2.steps = all
    BY <1>8, Zenon DEF Import
  <2>2. p.id = m + 1 /\ p.name = host.name
    BY <1>5 DEF AsProfile
  <2>3. StoreGood(new, m + 1, uses) /\ new.profiles = qs
    <3>1. p.id = m + 1 /\ p.name \in DOMAIN Folded /\ m \in Nat /\ uses \in Nat
      BY <1>5, <2>2
    <3>2. cur.profiles = ps
      BY <1>1
    <3> HIDE DEF p, cur, m, new
    <3>3. StoreGood(Upserted(cur, p), m + 1, uses) /\ Upserted(cur, p).profiles = Append(cur.profiles, p)
      BY <1>4, <3>1, UpsertedIs
    <3> QED BY <3>2, <3>3 DEF new
  <2> HIDE DEF p, new, cur, st2, L
  <2>4. steps \in Seq(A) /\ new \in A
    <3>1. Range(steps) \subseteq A
      OBVIOUS
    <3> HIDE DEF A
    <3> QED BY <1>1, <3>1, SeqOfMore DEF A
  <2> HIDE DEF A, steps
  <2>5. /\ all \in Seq(A) /\ Len(all) = n + 1 /\ all[n + 1] = new /\ DOMAIN all = 1..n+1
        /\ \A k \in 1..n : all[k] = steps[k]
    BY <1>2, <2>4
  <2> HIDE DEF all
  <2>6. all \in Seq(Range(all)) /\ all # << >>
    BY <1>2, <2>5, SeqOfItsRange
  <2>7. \A k \in DOMAIN all : StoreGood(all[k], made + k, uses)
    <3> SUFFICES ASSUME NEW k \in DOMAIN all PROVE StoreGood(all[k], made + k, uses)
      OBVIOUS
    <3>1. CASE k \in 1..n
      BY <1>1, <1>2, <2>5, <3>1
    <3>2. CASE k = n + 1
      BY <1>5, <2>3, <2>5, <3>2
    <3> QED BY <1>2, <2>5, <3>1, <3>2
  <2>8. Last(<<data>> \o all) = new
    BY <2>5, <2>6, CurrentIs
  <2> DEFINE B == Range(ps) \cup {p}
  <2>9. ps \in Seq(B) /\ p \in B
    <3>1. Range(ps) \subseteq B
      OBVIOUS
    <3> HIDE DEF B
    <3> QED BY <1>6, <3>1, SeqOfMore DEF B
  <2> HIDE DEF B
  <2>10. /\ Len(qs) = Len(ps) + 1 /\ DOMAIN qs = 1..Len(ps)+1 /\ qs[Len(ps) + 1] = p
         /\ \A k \in 1..Len(ps) : qs[k] = ps[k]
    BY <1>6, <2>9
  <2> HIDE DEF qs
  <2>11. \A k \in 1..Len(ps) : Folded[ps[k].name] # Folded[p.name]
    <3>1. Folded[p.name] \notin FoldedOf(ps)
      BY <1>1, <1>8, <2>2
    <3>2. \A k \in 1..Len(ps) : Folded[ps[k].name] \in FoldedOf(ps)
      BY <1>6 DEF FoldedOf
    <3> QED BY <3>1, <3>2
  <2>12. st2.names = FoldedOf(qs)
    <3>1. ASSUME NEW x \in st2.names PROVE x \in FoldedOf(qs)
      <4>1. CASE x = Folded[p.name]
        BY <1>6, <2>10, <4>1 DEF FoldedOf
      <4>2. CASE x \in FoldedOf(ps)
        <5>1. PICK k \in 1..Len(ps) : x = Folded[ps[k].name]
          BY <1>6, <4>2 DEF FoldedOf
        <5>2. k \in DOMAIN qs /\ qs[k] = ps[k]
          BY <1>6, <2>10
        <5> QED BY <5>1, <5>2 DEF FoldedOf
      <4> QED BY <1>1, <2>1, <2>2, <4>1, <4>2
    <3>2. ASSUME NEW k \in DOMAIN qs PROVE Folded[qs[k].name] \in st2.names
      <4>1. CASE k = Len(ps) + 1
        BY <2>1, <2>2, <2>10, <4>1
      <4>2. CASE k \in 1..Len(ps)
        BY <1>1, <1>6, <2>1, <2>10, <4>2 DEF FoldedOf
      <4> QED BY <1>6, <2>10, <4>1, <4>2
    <3> QED BY <3>1, <3>2 DEF FoldedOf
  <2>13. L <= Len(qs) /\ \A j \in DOMAIN data.profiles : qs[j] = data.profiles[j]
    <3>1. ASSUME NEW j \in DOMAIN data.profiles PROVE qs[j] = data.profiles[j]
      <4>1. j \in 1..L
        BY <1>6
      <4>2. j \in 1..Len(ps)
        BY <1>1, <1>6, <4>1
      <4> QED BY <1>1, <2>10, <4>2
    <3> QED BY <1>1, <1>6, <2>10, <3>1
  <2>14. \A j, h \in DOMAIN qs : j > L /\ Folded[qs[h].name] = Folded[qs[j].name] => h = j
    <3> SUFFICES ASSUME NEW j \in DOMAIN qs, NEW h \in DOMAIN qs, j > L,
                        Folded[qs[h].name] = Folded[qs[j].name], h # j
                 PROVE  FALSE
      OBVIOUS
    <3>1. CASE j \in 1..Len(ps) /\ h \in 1..Len(ps)
      BY <1>1, <1>6, <2>10, <3>1
    <3>2. CASE j = Len(ps) + 1 /\ h \in 1..Len(ps)
      BY <2>10, <2>11, <3>2
    <3>3. CASE h = Len(ps) + 1 /\ j \in 1..Len(ps)
      BY <2>10, <2>11, <3>3
    <3> QED BY <1>6, <2>10, <3>1, <3>2, <3>3
  <2>15. \A h \in 1..i+1 : Folded[hosts[h].name] \in st2.names
    BY <1>1, <2>1
  <2>16. ImportGood(st2, hosts, i + 1, qs)
    BY <2>1, <2>3, <2>6, <2>7, <2>8, <2>12, <2>13, <2>14, <2>15 DEF ImportGood, L
  <2> QED BY <2>16 DEF st2
<1> QED BY <1>7, <1>8

(* The whole import: what was there stays at the front, each name of the file
   is taken afterwards, and what is new shares its name with nobody. *)
LEMMA ImportingIs ==
    ASSUME made \in Nat, uses \in Nat, StoreGood(data, made, uses), NEW text \in Configs
    PROVE  \E st, ps : /\ Importing(text) = st.steps
                       /\ ImportGood(st, Parse(text), Len(Parse(text)), ps)
<1> DEFINE hosts == Parse(text)
           N == DOMAIN Folded
           H == HostsOver(N, text)
<1>1. NamesOver(N, text)
  BY NamesAssumption DEF NamesOver
<1>2. hosts \in Seq(H)
  <2> HIDE DEF N
  <2> QED BY <1>1, ParseIs
<1>3. Len(hosts) \in Nat /\ \A i \in 1..Len(hosts) : hosts[i].name \in DOMAIN Folded
  <2> HIDE DEF hosts, N
  <2>1. Len(hosts) \in Nat /\ \A i \in 1..Len(hosts) : hosts[i] \in HostsOver(N, text)
    BY <1>2
  <2>2. \A x \in HostsOver(N, text) : x.name \in N
    BY DEF HostsOver, Candidate
  <2> QED BY <2>1, <2>2 DEF N
<1>4. PICK f : /\ f[0] = [names |-> FoldedOf(data.profiles), steps |-> << >>]
               /\ \A i \in 1..Len(hosts) : f[i] = Import(f[i - 1], hosts[i])
               /\ Importing(text) = f[Len(hosts)].steps
  BY <1>3, ImportingBy
<1> DEFINE T == {i \in 0..Len(hosts) : \E ps : ImportGood(f[i], hosts, i, ps)}
<1>5. 0 \in T
  <2>1. Last(<<data>> \o << >>) = data
    <3>1. << >> \in Seq(Range(<< >>))
      OBVIOUS
    <3> QED BY <3>1, CurrentIs
  <2>2. /\ data.profiles \in Seq(Range(data.profiles)) /\ Len(data.profiles) \in Nat
        /\ DOMAIN data.profiles = 1..Len(data.profiles)
    BY DEF StoreGood, ProfilesGood
  <2>3. f[0].names = FoldedOf(data.profiles) /\ f[0].steps = << >>
    BY <1>4
  <2> DEFINE st == f[0]
             ps == data.profiles
  <2>4. st.names = FoldedOf(ps) /\ st.steps = << >> /\ Last(<<data>> \o << >>) = data
    BY <2>1, <2>3
  <2> HIDE DEF st
  <2>5. ImportGood(st, hosts, 0, ps)
    <3> HIDE DEF hosts
    <3> QED BY <2>2, <2>4 DEF ImportGood
  <2>6. ImportGood(f[0], hosts, 0, ps)
    BY <2>5 DEF st
  <2> HIDE DEF ps, hosts
  <2> QED BY <1>3, <2>6 DEF hosts
<1>6. \A i \in 0..Len(hosts) : i < Len(hosts) /\ i \in T => i + 1 \in T
  <2> HIDE DEF hosts
  <2> SUFFICES ASSUME NEW i \in 0..Len(hosts), i < Len(hosts), NEW ps, ImportGood(f[i], hosts, i, ps)
               PROVE  i + 1 \in 0..Len(hosts) /\ \E qs : ImportGood(f[i + 1], hosts, i + 1, qs)
    OBVIOUS
  <2>1. i \in Nat /\ i + 1 \in 1..Len(hosts) /\ (i + 1) - 1 = i
    BY <1>3 DEF hosts
  <2>2. f[i + 1] = Import(f[i], hosts[i + 1]) /\ hosts[i + 1].name \in DOMAIN Folded
    BY <1>3, <1>4, <2>1 DEF hosts
  <2>3. \E qs : ImportGood(Import(f[i], hosts[i + 1]), hosts, i + 1, qs)
    BY <2>1, <2>2, ImportIs
  <2> QED BY <2>1, <2>2, <2>3
<1>7. Len(hosts) \in T
  <2> HIDE DEF T
  <2>1. 0..Len(hosts) \subseteq T
    BY <1>3, <1>5, <1>6, InductionUpTo
  <2> QED BY <1>3, <2>1
<1> QED BY <1>4, <1>7

------------------------------------------------------------------------------
(* The first half of the inductive invariant, and what calls, replies and forms must be for
   the second. *)

(* Store and file are good, and the file follows unless its last write failed. *)
StoresGood ==
    /\ {made, uses} \subseteq Nat
    /\ StoreGood(data, made, uses)
    /\ disk = Corrupt \/ StoreGood(disk, made, uses)
    /\ stale \in BOOLEAN /\ FileFollows

(* What the renderer invokes. *)
CallGood(call) ==
    \/ \E f \in Forms : call = ListFor(f)
    \/ call.op = "save" /\ call.input \in Inputs
    \/ call.op \in {"delete", "import"}

(* All commands under way are such. *)
CallsGood ==
    calls \in Seq(Range(calls)) /\ \A i \in DOMAIN calls : CallGood(calls[i])

(* A list on its way has profiles of ids handed out. *)
RepliesGood ==
    /\ replies \in Seq(Range(replies))
    /\ \A i \in DOMAIN replies :
          \/ replies[i].op \in {"changed", "unchanged"}
          \/ replies[i].op = "listed" /\ ProfilesGood(replies[i].profiles, made)

(* So has every list a form shows. *)
FormsGood ==
    /\ open \subseteq Forms
    /\ shown = [f \in Forms |-> shown[f]]
    /\ \A f \in Forms : ProfilesGood(shown[f], made)

(* The lists on their way to f. *)
Listed(f) == {i \in DOMAIN replies : replies[i].op = "listed" /\ replies[i].form = f}

(* An open form shows the profiles there are, or will when the list on its way
   to it arrives, or is going to ask for one. *)
FormFollows(f) ==
    \/ \E i \in DOMAIN calls : calls[i] = ListFor(f)
    \/ \E i \in DOMAIN replies : replies[i].op = "changed"
    \/ \E i \in Listed(f) : replies[i].profiles = data.profiles /\ \A j \in Listed(f) : j <= i
    \/ Listed(f) = {} /\ shown[f] = data.profiles

(* Whatever an operation saves is a store, and so are the values it may leave
   in memory and in the file. *)
LEMMA PersistIs ==
    ASSUME NEW STATE steps, NEW STATE m, NEW STATE u, m \in Nat, u \in Nat,
           steps \in Seq(Range(steps)), \A k \in DOMAIN steps : StoreGood(steps[k], m, u),
           StoreGood(data, m, u), disk = Corrupt \/ StoreGood(disk, m, u),
           stale \in BOOLEAN, FileFollows, Persist(steps)
    PROVE  /\ StoreGood(data', m, u) /\ (disk' = Corrupt \/ StoreGood(disk', m, u))
           /\ stale' \in BOOLEAN /\ FileFollows'
<1> DEFINE n == Len(steps)
<1>1. n \in Nat /\ DOMAIN steps = 1..n
  OBVIOUS
<1>2. data' = IF steps = << >> THEN data ELSE steps[n]
  <2>1. data' = Last(<<data>> \o steps)
    BY DEF Persist
  <2> QED BY <2>1, CurrentIs
<1>3. CASE steps = << >>
  <2>1. data' = data /\ disk' = disk /\ stale' = stale
    BY <1>2, <1>3 DEF Persist
  <2>2. FileFollows'
    BY <2>1 DEF FileFollows, Loaded
  <2> QED BY <2>1, <2>2
<1>4. CASE steps # << >>
  <2>1. n \in DOMAIN steps
    BY <1>1, <1>4
  <2>2. data' = steps[n] /\ StoreGood(data', m, u)
    BY <1>2, <1>4, <2>1
  <2>3. CASE disk' = Last(steps) /\ stale' = FALSE
    <3>1. disk' = data'
      BY <2>2, <2>3 DEF Last
    <3>2. data' # Corrupt
      BY <2>2, StoreIsNotCorrupt
    <3>3. FileFollows'
      BY <3>1, <3>2 DEF FileFollows, Loaded
    <3> QED BY <2>2, <2>3, <3>1, <3>3
  <2>4. CASE stale' = TRUE /\ disk' \in {disk, Corrupt} \cup ToSet(Front(steps))
    <3>1. \A x \in ToSet(Front(steps)) : StoreGood(x, m, u)
      <4>1. \A i \in 1..n-1 : steps[i] \in Range(steps)
        BY <1>1 DEF Range
      <4>2. /\ Front(steps) \in Seq(Range(steps)) /\ Len(Front(steps)) = n - 1
            /\ \A i \in 1..n-1 : Front(steps)[i] = steps[i]
        BY <1>1, <1>4, <2>1, <4>1, SubSeqProperties DEF Front
      <4>3. DOMAIN Front(steps) = 1..n-1
        BY <4>2
      <4> QED BY <1>1, <4>2, <4>3 DEF ToSet
    <3>2. FileFollows'
      BY <2>4 DEF FileFollows
    <3> QED BY <2>2, <2>4, <3>1, <3>2
  <2> QED BY <1>4, <2>3, <2>4 DEF Persist
<1> QED BY <1>3, <1>4

(* The operations save stores. *)
StepsGood(steps, m, u) ==
    steps \in Seq(Range(steps)) /\ \A k \in DOMAIN steps : StoreGood(steps[k], m, u)

(* An operation that saves one store. *)
LEMMA OneStepIs ==
    ASSUME NEW d, NEW m, NEW u, StoreGood(d, m, u)
    PROVE  StepsGood(<<d>>, m, u)
<1>1. <<d>> \in Seq({d}) /\ DOMAIN <<d>> = 1..1 /\ <<d>>[1] = d
  OBVIOUS
<1>2. <<d>> \in Seq(Range(<<d>>))
  BY <1>1, SeqOfItsRange
<1> QED BY <1>1, <1>2 DEF StepsGood

(* Saving a profile does, with one more id. *)
LEMMA SavingIs ==
    ASSUME StoresGood, NEW input \in Inputs
    PROVE  StepsGood(Saving(input), made + 1, uses)
<1> DEFINE p == [id |-> made + 1, name |-> input.name, host |-> input.host,
                 port |-> input.port, user |-> input.user, auth |-> input.auth]
<1>1. made \in Nat /\ uses \in Nat /\ StoreGood(data, made, uses)
  BY DEF StoresGood
<1>2. p.id = made + 1 /\ p.name \in DOMAIN Folded
  BY NamesAssumption
<1>3. Saving(input) = <<Upserted(data, p)>>
  BY DEF Saving
<1> HIDE DEF p
<1>4. StoreGood(Upserted(data, p), made + 1, uses)
  BY <1>1, <1>2, UpsertedIs
<1> QED BY <1>3, <1>4, OneStepIs

(* Deleting saves a store or nothing. *)
LEMMA DeletingIs ==
    ASSUME StoresGood, NEW id
    PROVE  StepsGood(Deleting(id), made, uses)
<1> DEFINE S == {p \in Range(data.profiles) : p.id # id}
           kept == Keep(data.profiles, S)
<1>1. made \in Nat /\ uses \in Nat /\ StoreGood(data, made, uses) /\ ProfilesGood(data.profiles, made)
  BY DEF StoresGood, StoreGood
<1>2. ProfilesGood(kept, made)
  <2> HIDE DEF S
  <2> QED BY <1>1, KeptProfilesAreGood
<1> HIDE DEF kept
<1>3. StoreGood([data EXCEPT !.profiles = kept], made, uses)
  BY <1>1, <1>2, OtherProfilesAreGood
<1>4. Deleting(id) = << >> \/ Deleting(id) = <<[data EXCEPT !.profiles = kept]>>
  BY DEF Deleting, kept
<1>5. StepsGood(<< >>, made, uses)
  <2>1. << >> \in Seq(Range(<< >>)) /\ DOMAIN << >> = {}
    OBVIOUS
  <2> QED BY <2>1 DEF StepsGood
<1> QED BY <1>3, <1>4, <1>5, OneStepIs

(* Recording a connection does, with one more use. *)
LEMMA RecordingIs ==
    ASSUME StoresGood, NEW t \in Targets
    PROVE  StepsGood(Recording(t), made, uses + 1)
<1>1. made \in Nat /\ uses \in Nat /\ StoreGood(data, made, uses)
  BY DEF StoresGood
<1>2. StoreGood(Recorded(data, t, uses + 1), made, uses + 1)
  BY <1>1, RecordedIsGood
<1> QED BY <1>2, OneStepIs DEF Recording

(* An import saves a store after each host it adds, with at most one id for each. *)
LEMMA ImportingStepsAre ==
    ASSUME StoresGood, NEW text \in Configs
    PROVE  /\ StepsGood(Importing(text), made + Len(Importing(text)), uses)
           /\ Len(Importing(text)) \in Nat
<1> DEFINE steps == Importing(text)
<1>1. made \in Nat /\ uses \in Nat /\ StoreGood(data, made, uses)
  BY DEF StoresGood
<1>2. PICK st, ps : steps = st.steps /\ ImportGood(st, Parse(text), Len(Parse(text)), ps)
  BY <1>1, ImportingIs
<1>3. steps \in Seq(Range(steps)) /\ \A k \in DOMAIN steps : StoreGood(steps[k], made + k, uses)
  BY <1>2 DEF ImportGood
<1> HIDE DEF steps
<1>4. Len(steps) \in Nat /\ DOMAIN steps = 1..Len(steps)
  BY <1>3
<1>5. ASSUME NEW k \in DOMAIN steps PROVE StoreGood(steps[k], made + Len(steps), uses)
  <2>1. made + k \in Nat /\ made + Len(steps) \in Nat /\ made + k <= made + Len(steps)
    BY <1>1, <1>4
  <2> QED BY <1>1, <1>3, <2>1, StoreGoodGrows
<1> QED BY <1>3, <1>4, <1>5 DEF StepsGood, steps

(* What is left of a queue when its first element is taken. *)
LEMMA TailIs ==
    ASSUME NEW q, q \in Seq(Range(q)), q # << >>
    PROVE  /\ Len(q) \in Nat \ {0} /\ DOMAIN q = 1..Len(q) /\ Head(q) = q[1]
           /\ Tail(q) \in Seq(Range(Tail(q))) /\ DOMAIN Tail(q) = 1..Len(q)-1
           /\ \A i \in 1..Len(q)-1 : Tail(q)[i] = q[i + 1]
<1>1. Len(q) \in Nat \ {0} /\ DOMAIN q = 1..Len(q) /\ Head(q) = q[1]
  OBVIOUS
<1>2. Tail(q) \in Seq(Range(q)) /\ Len(Tail(q)) = Len(q) - 1 /\ \A i \in 1..Len(q)-1 : Tail(q)[i] = q[i + 1]
  BY <1>1
<1>3. DOMAIN Tail(q) = 1..Len(q)-1
  BY <1>1, <1>2
<1> QED BY <1>1, <1>2, <1>3, SeqOfItsRange

(* What follows a queue comes after its elements. *)
LEMMA ConcatIs ==
    ASSUME NEW q, NEW r, q \in Seq(Range(q)), r \in Seq(Range(r))
    PROVE  /\ Len(q) \in Nat /\ Len(r) \in Nat /\ DOMAIN q = 1..Len(q) /\ DOMAIN r = 1..Len(r)
           /\ q \o r \in Seq(Range(q \o r)) /\ DOMAIN (q \o r) = 1..Len(q)+Len(r)
           /\ \A i \in 1..Len(q) : (q \o r)[i] = q[i]
           /\ \A i \in 1..Len(r) : (q \o r)[Len(q) + i] = r[i]
<1> DEFINE A == Range(q) \cup Range(r)
           s == q \o r
<1>1. q \in Seq(A) /\ r \in Seq(A)
  <2>1. Range(q) \subseteq A /\ Range(r) \subseteq A
    OBVIOUS
  <2> HIDE DEF A
  <2> QED BY <2>1, SeqOfMore
<1> HIDE DEF A
<1>2. Len(q) \in Nat /\ Len(r) \in Nat /\ DOMAIN q = 1..Len(q) /\ DOMAIN r = 1..Len(r)
  BY <1>1
<1>3. /\ s \in Seq(A) /\ Len(s) = Len(q) + Len(r)
      /\ \A i \in 1..Len(q)+Len(r) : s[i] = IF i <= Len(q) THEN q[i] ELSE r[i - Len(q)]
  BY <1>1, ConcatProperties
<1> HIDE DEF s
<1>4. s \in Seq(Range(s)) /\ DOMAIN s = 1..Len(q)+Len(r)
  BY <1>2, <1>3, SeqOfItsRange
<1>5. \A i \in 1..Len(q) : s[i] = q[i]
  BY <1>2, <1>3
<1>6. ASSUME NEW i \in 1..Len(r) PROVE s[Len(q) + i] = r[i]
  <2>1. Len(q) + i \in 1..Len(q)+Len(r) /\ ~ (Len(q) + i <= Len(q)) /\ (Len(q) + i) - Len(q) = i
    BY <1>2
  <2> QED BY <1>3, <2>1
<1> QED BY <1>2, <1>4, <1>5, <1>6 DEF s

(* One element more. *)
LEMMA AppendIs ==
    ASSUME NEW q, NEW x, q \in Seq(Range(q))
    PROVE  /\ Len(q) \in Nat /\ DOMAIN q = 1..Len(q)
           /\ Append(q, x) \in Seq(Range(Append(q, x))) /\ DOMAIN Append(q, x) = 1..Len(q)+1
           /\ \A i \in 1..Len(q) : Append(q, x)[i] = q[i]
           /\ Append(q, x)[Len(q) + 1] = x
<1> DEFINE A == Range(q) \cup {x}
           s == Append(q, x)
<1>1. q \in Seq(A) /\ x \in A
  <2>1. Range(q) \subseteq A
    OBVIOUS
  <2> HIDE DEF A
  <2> QED BY <2>1, SeqOfMore DEF A
<1> HIDE DEF A
<1>2. Len(q) \in Nat /\ DOMAIN q = 1..Len(q)
  BY <1>1
<1>3. s \in Seq(A) /\ Len(s) = Len(q) + 1 /\ s[Len(q) + 1] = x /\ \A i \in 1..Len(q) : s[i] = q[i]
  BY <1>1
<1> HIDE DEF s
<1>4. s \in Seq(Range(s)) /\ DOMAIN s = 1..Len(q)+1
  BY <1>2, <1>3, SeqOfItsRange
<1> QED BY <1>2, <1>3, <1>4 DEF s

------------------------------------------------------------------------------
(* The stores, step by step. *)

(* An operation that saves good stores keeps store and file good. *)
LEMMA PersistStep ==
    ASSUME NEW STATE steps, NEW STATE m, NEW STATE u, m \in Nat, u \in Nat, StoresGood, made <= m, uses <= u,
           StepsGood(steps, m, u), Persist(steps), made' = m, uses' = u
    PROVE  StoresGood'
<1>1. made \in Nat /\ uses \in Nat /\ StoreGood(data, made, uses)
      /\ (disk = Corrupt \/ StoreGood(disk, made, uses)) /\ stale \in BOOLEAN /\ FileFollows
  BY DEF StoresGood
<1>2. StoreGood(data, m, u)
  BY <1>1, StoreGoodGrows
<1>3. disk = Corrupt \/ StoreGood(disk, m, u)
  BY <1>1, StoreGoodGrows
<1>4. steps \in Seq(Range(steps)) /\ \A k \in DOMAIN steps : StoreGood(steps[k], m, u)
  BY DEF StepsGood
<1>5. /\ StoreGood(data', m, u) /\ (disk' = Corrupt \/ StoreGood(disk', m, u))
      /\ stale' \in BOOLEAN /\ FileFollows'
  BY <1>1, <1>2, <1>3, <1>4, PersistIs
<1>6. StoreGood(data', made', uses') /\ (disk' = Corrupt \/ StoreGood(disk', made', uses'))
  BY <1>5
<1> QED BY <1>5, <1>6 DEF StoresGood

(* A save comes with what was entered. *)
LEMMA SaveHasItsInput ==
    ASSUME CallsGood, Called("save")
    PROVE  Head(calls).input \in Inputs
<1>1. calls # << >> /\ Head(calls).op = "save"
  BY DEF Called
<1>2. 1 \in DOMAIN calls /\ Head(calls) = calls[1]
  BY <1>1, TailIs DEF CallsGood
<1>3. \A f \in Forms : ListFor(f).op = "list"
  BY DEF ListFor
<1> QED BY <1>1, <1>2, <1>3 DEF CallsGood, CallGood

(* The ids and the uses of a store, and nothing else, bound what it may be. *)
LEMMA StoreGoodUpTo ==
    ASSUME NEW d, NEW m \in Nat, NEW u \in Nat, StoreGood(d, m, u), NEW n \in Nat, NEW v \in Nat,
           \A i \in DOMAIN d.profiles : d.profiles[i].id <= n, \A t \in Targets : d.used[t] <= v
    PROVE  StoreGood(d, n, v)
<1> DEFINE rs == d.recents
           A == [target : Targets, use : 1..u]
           B == [target : Targets, use : 1..v]
<1>1. /\ d \in [profiles : Seq(Range(d.profiles)), recents : Seq(A), used : [Targets -> 0..u]]
      /\ Len(d.recents) <= MaxRecents /\ ProfilesGood(d.profiles, m) /\ RecentsInOrder(d) /\ RecentsComplete(d)
  BY DEF StoreGood, StoreShape
<1>2. ProfilesGood(d.profiles, n)
  BY <1>1 DEF ProfilesGood
<1>3. d.used \in [Targets -> 0..v]
  BY <1>1
<1>4. rs \in Seq(A)
  <2> HIDE DEF A
  <2> QED BY <1>1
<1>5. \A i \in DOMAIN rs : rs[i].use = d.used[rs[i].target]
  BY <1>1 DEF RecentsInOrder
<1> HIDE DEF rs
<1>6. Len(rs) \in Nat /\ DOMAIN rs = 1..Len(rs) /\ \A i \in 1..Len(rs) : rs[i] \in A
  <2> HIDE DEF A
  <2> QED BY <1>4
<1>7. \A i \in 1..Len(rs) : rs[i] \in B
  BY <1>5, <1>6
<1>8. rs \in Seq(B)
  <2>1. rs \in [1..Len(rs) -> B]
    <3> HIDE DEF A, B
    <3>1. rs = [i \in 1..Len(rs) |-> rs[i]]
      BY <1>4, <1>6
    <3> QED BY <1>7, <3>1
  <2> HIDE DEF B
  <2> QED BY <1>6, <2>1, SeqDef
<1>9. StoreShape(d, n, v)
  <2>1. d = [profiles |-> d.profiles, recents |-> d.recents, used |-> d.used] /\ d.profiles \in Seq(Range(d.profiles))
    BY <1>1
  <2>2. d.recents \in Seq(B)
    BY <1>8 DEF rs
  <2> HIDE DEF B
  <2>3. d \in [profiles : Seq(Range(d.profiles)), recents : Seq(B), used : [Targets -> 0..v]]
    BY <1>3, <2>1, <2>2
  <2> QED BY <1>1, <2>3 DEF StoreShape, B
<1> QED BY <1>1, <1>2, <1>9 DEF StoreGood

(* What a process that dies in an operation may leave in the file. *)
LEMMA RunningIs ==
    ASSUME StoresGood, CallsGood, NEW x \in UNION {ToSet(steps) : steps \in Running}
    PROVE  \E m, u \in Nat : StoreGood(x, m, u)
<1>1. PICK steps \in Running : x \in ToSet(steps)
  OBVIOUS
<1>2. PICK k \in DOMAIN steps : x = steps[k]
  BY <1>1 DEF ToSet
<1>3. made \in Nat /\ uses \in Nat
  BY DEF StoresGood
<1>4. SUFFICES \E m, u \in Nat : StepsGood(steps, m, u)
  BY <1>2 DEF StepsGood
<1>5. \/ \E t \in Targets : steps = Recording(t)
      \/ Called("save") /\ steps = Saving(Head(calls).input)
      \/ steps = Deleting(Head(calls).id)
      \/ \E text \in Configs : steps = Importing(text)
  BY <1>1 DEF Running
<1>6. CASE \E t \in Targets : steps = Recording(t)
  BY <1>3, <1>6, RecordingIs
<1>7. CASE Called("save") /\ steps = Saving(Head(calls).input)
  BY <1>3, <1>7, SaveHasItsInput, SavingIs
<1>8. CASE steps = Deleting(Head(calls).id)
  BY <1>3, <1>8, DeletingIs
<1>9. CASE \E text \in Configs : steps = Importing(text)
  <2>1. PICK text \in Configs : steps = Importing(text)
    BY <1>9
  <2>2. StepsGood(steps, made + Len(steps), uses) /\ Len(steps) \in Nat
    BY <2>1, ImportingStepsAre
  <2> QED BY <1>3, <2>2
<1> QED BY <1>5, <1>6, <1>7, <1>8, <1>9

(* A restart reads a good store, or starts with an empty one. *)
LEMMA RestartStep ==
    ASSUME StoresGood, CallsGood, NEW f \in Forms, Restart(f)
    PROVE  StoresGood' /\ made <= made'
<1>1. made \in Nat /\ uses \in Nat /\ (disk = Corrupt \/ StoreGood(disk, made, uses))
  BY DEF StoresGood
<1>2. PICK m \in Nat, u \in Nat : disk' = Corrupt \/ StoreGood(disk', m, u)
  <2>1. disk' \in {disk, Corrupt} \cup UNION {ToSet(steps) : steps \in Running}
    BY DEF Restart
  <2>2. CASE disk' \in UNION {ToSet(steps) : steps \in Running}
    BY <2>2, RunningIs
  <2>3. CASE disk' = disk
    BY <1>1, <2>3
  <2>4. CASE disk' = Corrupt
    BY <2>4
  <2> QED BY <2>1, <2>2, <2>3, <2>4
<1>3. data' = Loaded(disk') /\ stale' = FALSE
  BY DEF Restart
<1>4. StoreGood(data', m, u)
  <2>1. CASE disk' = Corrupt
    BY <1>3, <2>1, EmptyIsGood DEF Loaded
  <2>2. CASE StoreGood(disk', m, u)
    <3>1. disk' # Corrupt
      BY <2>2, StoreIsNotCorrupt
    <3> QED BY <1>3, <2>2, <3>1 DEF Loaded
  <2> QED BY <1>2, <2>1, <2>2
<1>5. /\ data'.profiles \in Seq(Range(data'.profiles))
      /\ \A i \in DOMAIN data'.profiles : data'.profiles[i].id \in 1..m
      /\ data'.used \in [Targets -> 0..u]
  BY <1>4 DEF StoreGood, StoreShape, ProfilesGood
<1> DEFINE ids == {p.id : p \in Range(data'.profiles)}
           us == Range(data'.used)
<1>6. made' \in Nat /\ made <= made' /\ \A x \in ids : x <= made'
  <2>1. \A p \in Range(data'.profiles) : p.id \in 1..m
    BY <1>5 DEF Range
  <2>2. {made} \cup ids \subseteq 0..made+m /\ {made} \cup ids # {} /\ made + m \in Nat
    BY <1>1, <2>1
  <2>3. made' = Max({made} \cup ids)
    BY DEF Restart
  <2> DEFINE S == {made} \cup ids
  <2>4. made + m \in Nat /\ \A x \in ids : x \in S
    BY <2>2
  <2>5. made \in S /\ S \subseteq 0..made+m /\ S # {} /\ made' = Max(S)
    BY <2>2, <2>3
  <2> HIDE DEF S, ids
  <2>6. Max(S) \in S /\ \A y \in S : y <= Max(S)
    BY <2>2, <2>5, MaxIs
  <2>7. Max(S) \in Nat
    <3> DEFINE x == Max(S)
    <3>1. x \in S
      BY <2>6
    <3> HIDE DEF x
    <3>2. x \in Nat
      BY <2>4, <2>5, <3>1
    <3> QED BY <3>2 DEF x
  <2> QED BY <2>4, <2>5, <2>6, <2>7
<1>7. uses' \in Nat /\ \A x \in us : x <= uses'
  <2>1. us \subseteq 0..u
    BY <1>5 DEF Range
  <2> HIDE DEF us
  <2>2. {uses} \cup us \subseteq 0..uses+u /\ {uses} \cup us # {} /\ uses + u \in Nat
    BY <1>1, <2>1
  <2>3. uses' = Max({uses} \cup us)
    BY DEF Restart, us
  <2> DEFINE S == {uses} \cup us
  <2>4. uses + u \in Nat /\ \A x \in us : x \in S
    BY <2>2
  <2>5. S \subseteq 0..uses+u /\ S # {} /\ uses' = Max(S)
    BY <2>2, <2>3
  <2> HIDE DEF S
  <2>6. Max(S) \in S /\ \A y \in S : y <= Max(S)
    BY <2>2, <2>5, MaxIs
  <2>7. Max(S) \in Nat
    <3> DEFINE x == Max(S)
    <3>1. x \in S
      BY <2>6
    <3> HIDE DEF x
    <3>2. x \in Nat
      BY <2>4, <2>5, <3>1
    <3> QED BY <3>2 DEF x
  <2> QED BY <2>4, <2>5, <2>6, <2>7
<1>8. \A i \in DOMAIN data'.profiles : data'.profiles[i].id <= made'
  BY <1>6 DEF Range
<1>9. \A t \in Targets : data'.used[t] <= uses'
  BY <1>5, <1>7 DEF Range
<1>10. StoreGood(data', made', uses')
  BY <1>4, <1>6, <1>7, <1>8, <1>9, StoreGoodUpTo
<1>11. disk' = Corrupt \/ disk' = data'
  BY <1>3 DEF Loaded
<1>12. FileFollows'
  BY <1>3 DEF FileFollows
<1> QED BY <1>3, <1>6, <1>7, <1>10, <1>11, <1>12 DEF StoresGood

(* Every step keeps store and file good, and takes back no id. *)
LEMMA StoresStep ==
    ASSUME StoresGood, CallsGood, [Next]_vars
    PROVE  StoresGood' /\ made <= made'
<1>1. made \in Nat /\ uses \in Nat /\ made + 1 \in Nat /\ uses + 1 \in Nat
  BY DEF StoresGood
<1>2. CASE ProfilesSave
  <2>1. StepsGood(Saving(Head(calls).input), made + 1, uses)
    BY <1>2, SaveHasItsInput, SavingIs DEF ProfilesSave
  <2>2. Persist(Saving(Head(calls).input)) /\ made' = made + 1 /\ uses' = uses
    BY <1>2 DEF ProfilesSave
  <2> QED BY <1>1, <2>1, <2>2, PersistStep
<1>3. CASE ProfilesDelete
  <2>1. StepsGood(Deleting(Head(calls).id), made, uses)
    BY DeletingIs
  <2>2. Persist(Deleting(Head(calls).id)) /\ made' = made /\ uses' = uses
    BY <1>3 DEF ProfilesDelete
  <2> QED BY <1>1, <2>1, <2>2, PersistStep
<1>4. ASSUME NEW text \in Configs, SshConfigImport(text) PROVE StoresGood' /\ made <= made'
  <2>1. StepsGood(Importing(text), made + Len(Importing(text)), uses) /\ Len(Importing(text)) \in Nat
    BY ImportingStepsAre
  <2>2. Persist(Importing(text)) /\ made' = made + Len(Importing(text)) /\ uses' = uses
    BY <1>4 DEF SshConfigImport
  <2>3. made + Len(Importing(text)) \in Nat /\ made <= made + Len(Importing(text))
    BY <1>1, <2>1
  <2> QED BY <1>1, <2>1, <2>2, <2>3, PersistStep
<1>5. ASSUME NEW t \in Targets, RecordRecent(t) PROVE StoresGood' /\ made <= made'
  <2>1. StepsGood(Recording(t), made, uses + 1)
    BY RecordingIs
  <2>2. Persist(Recording(t)) /\ uses' = uses + 1 /\ made' = made
    BY <1>5 DEF RecordRecent
  <2> QED BY <1>1, <2>1, <2>2, PersistStep
<1>6. ASSUME NEW f \in Forms, Restart(f) PROVE StoresGood' /\ made <= made'
  BY <1>6, RestartStep
<1>7. CASE UNCHANGED storeVars
  BY <1>1, <1>7 DEF storeVars, StoresGood, FileFollows
<1>8. ASSUME NEW f \in Forms,
             \/ Show(f) \/ CloseForm(f) \/ ClickImport(f) \/ \E input \in Inputs : Submit(f, input)
             \/ \E i \in DOMAIN shown[f] : ClickDelete(f, i)
      PROVE  UNCHANGED storeVars
  BY <1>8 DEF Show, CloseForm, ClickImport, Submit, ClickDelete
<1>9. CASE ProfilesList \/ SshConfigUnreadable \/ Announce \/ Unannounced \/ Render
  BY <1>7, <1>9 DEF ProfilesList, SshConfigUnreadable, Announce, Unannounced, Render, Reply
<1>10. CASE UNCHANGED vars
  BY <1>7, <1>10 DEF vars
<1> QED BY <1>2, <1>3, <1>4, <1>5, <1>6, <1>7, <1>8, <1>9, <1>10 DEF Next

------------------------------------------------------------------------------
(* The queues and the forms, step by step. *)

(* An answer takes a command from one queue and adds a reply to the other. *)
LEMMA AnswerIs ==
    ASSUME NEW op, CallsGood, RepliesGood, Called(op), NEW reply, Answer(reply), made' \in Nat, made \in Nat, made <= made',
           \/ reply.op \in {"changed", "unchanged"}
           \/ reply.op = "listed" /\ ProfilesGood(reply.profiles, made')
    PROVE  CallsGood' /\ RepliesGood'
<1>1. calls # << >> /\ calls \in Seq(Range(calls)) /\ replies \in Seq(Range(replies))
  BY DEF Called, CallsGood, RepliesGood
<1>2. calls' = Tail(calls) /\ replies' = Append(replies, reply)
  BY DEF Answer
<1>3. /\ calls' \in Seq(Range(calls')) /\ DOMAIN calls' = 1..Len(calls)-1
      /\ DOMAIN calls = 1..Len(calls) /\ Len(calls) \in Nat
      /\ \A i \in 1..Len(calls)-1 : calls'[i] = calls[i + 1]
  BY <1>1, <1>2, TailIs
<1>4. CallsGood'
  <2> SUFFICES ASSUME NEW i \in DOMAIN calls'
               PROVE  CallGood(calls'[i])
    BY <1>3 DEF CallsGood
  <2>1. i + 1 \in DOMAIN calls /\ calls'[i] = calls[i + 1]
    BY <1>3
  <2> QED BY <2>1 DEF CallsGood
<1>5. /\ replies' \in Seq(Range(replies')) /\ DOMAIN replies' = 1..Len(replies)+1
      /\ DOMAIN replies = 1..Len(replies) /\ Len(replies) \in Nat
      /\ \A i \in 1..Len(replies) : replies'[i] = replies[i]
      /\ replies'[Len(replies) + 1] = reply
  BY <1>1, <1>2, AppendIs
<1>6. RepliesGood'
  <2> SUFFICES ASSUME NEW i \in DOMAIN replies'
               PROVE  \/ replies'[i].op \in {"changed", "unchanged"}
                      \/ replies'[i].op = "listed" /\ ProfilesGood(replies'[i].profiles, made')
    BY <1>5 DEF RepliesGood
  <2>1. CASE i = Len(replies) + 1
    BY <1>5, <2>1
  <2>2. CASE i \in 1..Len(replies)
    BY <1>5, <2>2, ProfilesGoodGrows DEF RepliesGood
  <2> QED BY <1>5, <2>1, <2>2
<1> QED BY <1>4, <1>6

(* What a user invokes joins the queue. *)
LEMMA InvokeIs ==
    ASSUME CallsGood, NEW cs, Invoke(cs), cs \in Seq(Range(cs)),
           \A i \in DOMAIN cs : CallGood(cs[i])
    PROVE  /\ CallsGood'
           /\ \A i \in DOMAIN calls : \E j \in DOMAIN calls' : calls'[j] = calls[i]
           /\ \A i \in DOMAIN cs : \E j \in DOMAIN calls' : calls'[j] = cs[i]
<1>1. calls \in Seq(Range(calls)) /\ calls' = calls \o cs
  BY DEF Invoke, CallsGood
<1>2. /\ Len(calls) \in Nat /\ Len(cs) \in Nat /\ DOMAIN calls = 1..Len(calls) /\ DOMAIN cs = 1..Len(cs)
      /\ calls' \in Seq(Range(calls')) /\ DOMAIN calls' = 1..Len(calls)+Len(cs)
      /\ \A i \in 1..Len(calls) : calls'[i] = calls[i]
      /\ \A i \in 1..Len(cs) : calls'[Len(calls) + i] = cs[i]
  BY <1>1, ConcatIs
<1>3. CallsGood'
  <2> SUFFICES ASSUME NEW i \in DOMAIN calls'
               PROVE  CallGood(calls'[i])
    BY <1>2 DEF CallsGood
  <2>1. CASE i \in 1..Len(calls)
    BY <1>2, <2>1 DEF CallsGood
  <2>2. CASE i - Len(calls) \in 1..Len(cs)
    <3> DEFINE j == i - Len(calls)
    <3>1. j \in 1..Len(cs) /\ Len(calls) + j = i
      BY <1>2, <2>2
    <3> HIDE DEF j
    <3>2. calls'[i] = cs[j] /\ j \in DOMAIN cs
      BY <1>2, <3>1
    <3> QED BY <3>2
  <2> QED BY <1>2, <2>1, <2>2
<1>4. \A i \in DOMAIN calls : \E j \in DOMAIN calls' : calls'[j] = calls[i]
  BY <1>2
<1>5. \A i \in DOMAIN cs : \E j \in DOMAIN calls' : calls'[j] = cs[i]
  <2> SUFFICES ASSUME NEW i \in DOMAIN cs PROVE \E j \in DOMAIN calls' : calls'[j] = cs[i]
    OBVIOUS
  <2>1. Len(calls) + i \in DOMAIN calls' /\ calls'[Len(calls) + i] = cs[i]
    BY <1>2
  <2> QED BY <2>1
<1> QED BY <1>3, <1>4, <1>5

(* A reply is handled. *)
LEMMA ReplyIs ==
    ASSUME NEW op, RepliesGood, Reply(op), made \in Nat, made' = made
    PROVE  /\ RepliesGood' /\ Len(replies) \in Nat \ {0} /\ DOMAIN replies = 1..Len(replies)
           /\ replies[1].op = op /\ Head(replies) = replies[1] /\ DOMAIN replies' = 1..Len(replies)-1
           /\ \A i \in 1..Len(replies)-1 : replies'[i] = replies[i + 1]
<1>1. replies # << >> /\ replies \in Seq(Range(replies)) /\ Head(replies).op = op /\ replies' = Tail(replies)
  BY DEF Reply, RepliesGood
<1>2. /\ replies' \in Seq(Range(replies')) /\ DOMAIN replies' = 1..Len(replies)-1
      /\ DOMAIN replies = 1..Len(replies) /\ Len(replies) \in Nat \ {0} /\ Head(replies) = replies[1]
      /\ \A i \in 1..Len(replies)-1 : replies'[i] = replies[i + 1]
  BY <1>1, TailIs
<1>3. RepliesGood'
  <2> SUFFICES ASSUME NEW i \in DOMAIN replies'
               PROVE  \/ replies'[i].op \in {"changed", "unchanged"}
                      \/ replies'[i].op = "listed" /\ ProfilesGood(replies'[i].profiles, made')
    BY <1>2 DEF RepliesGood
  <2>1. i + 1 \in DOMAIN replies /\ replies'[i] = replies[i + 1]
    BY <1>2
  <2> QED BY <2>1 DEF RepliesGood
<1> QED BY <1>1, <1>2, <1>3

(* What Announce invokes: a list for each open form. *)
LEMMA AnnounceIs ==
    ASSUME open \subseteq Forms
    PROVE  LET fs == SetToSeq(open)
               cs == [i \in DOMAIN fs |-> ListFor(fs[i])]
           IN  /\ cs \in Seq(Range(cs))
               /\ \A i \in DOMAIN cs : \E f \in Forms : cs[i] = ListFor(f)
               /\ \A f \in open : \E i \in DOMAIN cs : cs[i] = ListFor(f)
<1> DEFINE fs == SetToSeq(open)
           cs == [i \in DOMAIN fs |-> ListFor(fs[i])]
<1>1. IsFiniteSet(open)
  BY FormsAssumption, FS_Subset
<1>2. fs \in Seq(open) /\ Range(fs) = open
  BY <1>1, SetToSeqIs
<1> HIDE DEF fs
<1>3. Len(fs) \in Nat /\ DOMAIN fs = 1..Len(fs) /\ \A i \in 1..Len(fs) : fs[i] \in open
  BY <1>2
<1>4. DOMAIN cs = 1..Len(fs) /\ \A i \in DOMAIN cs : cs[i] = ListFor(fs[i])
  BY <1>3
<1>5. cs \in [1..Len(fs) -> Range(cs)]
  BY <1>3 DEF Range
<1> HIDE DEF cs
<1>6. cs \in Seq(Range(cs))
  BY <1>3, <1>5, SeqDef
<1>7. \A i \in DOMAIN cs : \E f \in Forms : cs[i] = ListFor(f)
  BY <1>3, <1>4
<1>8. \A f \in open : \E i \in DOMAIN cs : cs[i] = ListFor(f)
  BY <1>2, <1>3, <1>4 DEF Range
<1> QED BY <1>6, <1>7, <1>8 DEF cs, fs

(* A form goes on following when queues, store and what it shows stay. *)
LEMMA FormKept ==
    ASSUME NEW f, FormFollows(f), data'.profiles = data.profiles, replies' = replies, shown'[f] = shown[f],
           \A i \in DOMAIN calls : \E j \in DOMAIN calls' : calls'[j] = calls[i]
    PROVE  FormFollows(f)'
BY DEF FormFollows, Listed

(* The first command is in the queue, and the rest stays in it. *)
LEMMA AnsweredIs ==
    ASSUME NEW op, CallsGood, RepliesGood, Called(op), NEW reply, Answer(reply)
    PROVE  /\ DOMAIN calls = 1..Len(calls) /\ Len(calls) \in Nat \ {0} /\ calls[1] = Head(calls)
           /\ DOMAIN calls' = 1..Len(calls)-1 /\ \A i \in 1..Len(calls)-1 : calls'[i] = calls[i + 1]
           /\ DOMAIN replies = 1..Len(replies) /\ Len(replies) \in Nat /\ DOMAIN replies' = 1..Len(replies)+1
           /\ \A i \in 1..Len(replies) : replies'[i] = replies[i]
           /\ replies'[Len(replies) + 1] = reply
<1>1. calls # << >> /\ calls \in Seq(Range(calls)) /\ replies \in Seq(Range(replies))
  BY DEF Called, CallsGood, RepliesGood
<1>2. calls' = Tail(calls) /\ replies' = Append(replies, reply)
  BY DEF Answer
<1>3. /\ DOMAIN calls = 1..Len(calls) /\ Len(calls) \in Nat \ {0} /\ calls[1] = Head(calls)
      /\ DOMAIN calls' = 1..Len(calls)-1 /\ \A i \in 1..Len(calls)-1 : calls'[i] = calls[i + 1]
  BY <1>1, <1>2, TailIs
<1>4. /\ DOMAIN replies = 1..Len(replies) /\ Len(replies) \in Nat /\ DOMAIN replies' = 1..Len(replies)+1
      /\ \A i \in 1..Len(replies) : replies'[i] = replies[i]
      /\ replies'[Len(replies) + 1] = reply
  BY <1>1, <1>2, AppendIs
<1> QED BY <1>3, <1>4

(* A form follows once a change is on its way to be told. *)
LEMMA FormTold ==
    ASSUME NEW f, NEW op, CallsGood, RepliesGood, Called(op), NEW reply, Answer(reply), reply.op = "changed"
    PROVE  FormFollows(f)'
<1>1. /\ Len(replies) \in Nat /\ DOMAIN replies' = 1..Len(replies)+1
      /\ replies'[Len(replies) + 1] = reply
  BY AnsweredIs
<1>2. Len(replies) + 1 \in DOMAIN replies' /\ replies'[Len(replies) + 1].op = "changed"
  BY <1>1
<1> QED BY <1>2 DEF FormFollows

(* An answer that changes nothing leaves a form following, unless the command was its list. *)
LEMMA FormAnswered ==
    ASSUME NEW f, FormFollows(f), NEW op, CallsGood, RepliesGood, Called(op), NEW reply, Answer(reply),
           data'.profiles = data.profiles, ~ (reply.op = "listed" /\ reply.form = f), Head(calls) # ListFor(f)
    PROVE  FormFollows(f)'
<1>1. /\ DOMAIN calls = 1..Len(calls) /\ Len(calls) \in Nat \ {0} /\ calls[1] = Head(calls)
      /\ DOMAIN calls' = 1..Len(calls)-1 /\ \A i \in 1..Len(calls)-1 : calls'[i] = calls[i + 1]
  BY AnsweredIs
<1>2. /\ DOMAIN replies = 1..Len(replies) /\ Len(replies) \in Nat /\ DOMAIN replies' = 1..Len(replies)+1
      /\ \A i \in 1..Len(replies) : replies'[i] = replies[i]
      /\ replies'[Len(replies) + 1] = reply
  BY AnsweredIs
<1>3. Listed(f)' = Listed(f) /\ \A i \in Listed(f) : replies'[i] = replies[i]
  <2>1. \A i \in DOMAIN replies : i \in DOMAIN replies' /\ replies'[i] = replies[i]
    BY <1>2
  <2>2. \A i \in DOMAIN replies' : i \in DOMAIN replies \/ replies'[i] = reply
    BY <1>2
  <2> QED BY <2>1, <2>2 DEF Listed
<1>4. shown' = shown
  BY DEF Answer
<1>5. CASE \E i \in DOMAIN calls : calls[i] = ListFor(f)
  <2>1. PICK i \in DOMAIN calls : calls[i] = ListFor(f)
    BY <1>5
  <2>2. i # 1
    BY <1>1, <2>1
  <2>3. i - 1 \in DOMAIN calls' /\ (i - 1) + 1 = i /\ i - 1 \in 1..Len(calls)-1
    BY <1>1, <2>2
  <2>4. calls'[i - 1] = ListFor(f)
    BY <1>1, <2>1, <2>3
  <2> QED BY <2>3, <2>4 DEF FormFollows, ListFor
<1>6. CASE \E i \in DOMAIN replies : replies[i].op = "changed"
  <2>1. PICK i \in DOMAIN replies : replies[i].op = "changed"
    BY <1>6
  <2>2. i \in DOMAIN replies' /\ replies'[i].op = "changed"
    BY <1>2, <2>1
  <2> QED BY <2>2 DEF FormFollows
<1>7. CASE \E i \in Listed(f) : replies[i].profiles = data.profiles /\ \A j \in Listed(f) : j <= i
  <2>1. \E i \in Listed(f)' : replies'[i].profiles = data'.profiles /\ \A j \in Listed(f)' : j <= i
    BY <1>3, <1>7
  <2> QED BY <2>1 DEF FormFollows
<1>8. CASE Listed(f) = {} /\ shown[f] = data.profiles
  <2>1. Listed(f)' = {} /\ shown'[f] = data'.profiles
    BY <1>3, <1>4, <1>8
  <2> QED BY <2>1 DEF FormFollows
<1> QED BY <1>5, <1>6, <1>7, <1>8 DEF FormFollows

(* The answer to its list has the profiles there are. *)
LEMMA FormListed ==
    ASSUME NEW f, CallsGood, RepliesGood, ProfilesList, Head(calls) = ListFor(f)
    PROVE  FormFollows(f)'
<1> DEFINE reply == [op |-> "listed", form |-> Head(calls).form, profiles |-> data.profiles]
<1>1. Called("list") /\ Answer(reply) /\ data' = data
  BY DEF ProfilesList, storeVars
<1>2. reply.op = "listed" /\ reply.form = f /\ reply.profiles = data.profiles
  BY DEF ListFor
<1> HIDE DEF reply
<1>3. /\ Len(replies) \in Nat /\ DOMAIN replies' = 1..Len(replies)+1
      /\ replies'[Len(replies) + 1] = reply
  BY <1>1, AnsweredIs
<1>4. Len(replies) + 1 \in Listed(f)' /\ \A j \in Listed(f)' : j <= Len(replies) + 1
  BY <1>2, <1>3 DEF Listed
<1>5. \E i \in Listed(f)' : replies'[i].profiles = data'.profiles /\ \A j \in Listed(f)' : j <= i
  BY <1>1, <1>2, <1>3, <1>4
<1> QED BY <1>5 DEF FormFollows

(* A reply handled leaves a form following, unless it was the news of a change or its list. *)
LEMMA FormReplied ==
    ASSUME NEW f, FormFollows(f), NEW op, RepliesGood, Reply(op), op # "changed", made \in Nat, made' = made,
           data'.profiles = data.profiles, calls' = calls,
           Head(replies).op = "listed" /\ Head(replies).form = f => shown'[f] = Head(replies).profiles,
           ~ (Head(replies).op = "listed" /\ Head(replies).form = f) => shown'[f] = shown[f]
    PROVE  FormFollows(f)'
<1>1. /\ Len(replies) \in Nat \ {0} /\ DOMAIN replies = 1..Len(replies)
      /\ replies[1].op = op /\ Head(replies) = replies[1] /\ DOMAIN replies' = 1..Len(replies)-1
      /\ \A i \in 1..Len(replies)-1 : replies'[i] = replies[i + 1]
  BY ReplyIs
<1>2. \A i \in DOMAIN replies' : i \in Nat \ {0} /\ i + 1 \in DOMAIN replies /\ replies'[i] = replies[i + 1]
  BY <1>1
<1>3. \A i \in DOMAIN replies : i = 1 \/ (i - 1 \in DOMAIN replies' /\ replies'[i - 1] = replies[i] /\ i \in Nat)
  <2> SUFFICES ASSUME NEW i \in DOMAIN replies, i # 1
               PROVE  i - 1 \in DOMAIN replies' /\ replies'[i - 1] = replies[i] /\ i \in Nat
    OBVIOUS
  <2>1. i \in Nat /\ i - 1 \in 1..Len(replies)-1 /\ (i - 1) + 1 = i
    BY <1>1
  <2> QED BY <1>1, <2>1
<1>4. \A j \in Listed(f)' : j \in Nat \ {0} /\ j + 1 \in Listed(f)
  BY <1>2 DEF Listed
<1>5. CASE \E i \in DOMAIN calls : calls[i] = ListFor(f)
  BY <1>5 DEF FormFollows, ListFor
<1>6. CASE \E i \in DOMAIN replies : replies[i].op = "changed"
  <2>1. PICK i \in DOMAIN replies : replies[i].op = "changed"
    BY <1>6
  <2>2. i - 1 \in DOMAIN replies' /\ replies'[i - 1].op = "changed"
    BY <1>1, <1>3, <2>1
  <2> QED BY <2>2 DEF FormFollows
<1>7. CASE \E i \in Listed(f) : replies[i].profiles = data.profiles /\ \A j \in Listed(f) : j <= i
  <2>1. PICK i \in Listed(f) : replies[i].profiles = data.profiles /\ \A j \in Listed(f) : j <= i
    BY <1>7
  <2>2. i \in DOMAIN replies /\ replies[i].op = "listed" /\ replies[i].form = f
    BY <2>1 DEF Listed
  <2>3. CASE i = 1
    <3>1. Listed(f)' = {}
      BY <1>4, <2>1, <2>3
    <3>2. shown'[f] = data'.profiles
      BY <1>1, <2>1, <2>2, <2>3
    <3> QED BY <3>1, <3>2 DEF FormFollows
  <2>4. CASE i # 1
    <3>1. i - 1 \in DOMAIN replies' /\ replies'[i - 1] = replies[i] /\ i \in Nat
      BY <1>3, <2>2, <2>4
    <3>2. i - 1 \in Listed(f)'
      BY <2>2, <3>1 DEF Listed
    <3>3. \A j \in Listed(f)' : j <= i - 1
      <4> SUFFICES ASSUME NEW j \in Listed(f)' PROVE j <= i - 1
        OBVIOUS
      <4>1. j \in Nat /\ j + 1 <= i
        BY <1>4, <2>1
      <4> QED BY <3>1, <4>1
    <3>4. \E k \in Listed(f)' : replies'[k].profiles = data'.profiles /\ \A j \in Listed(f)' : j <= k
      BY <2>1, <3>1, <3>2, <3>3
    <3> QED BY <3>4 DEF FormFollows
  <2> QED BY <2>3, <2>4
<1>8. CASE Listed(f) = {} /\ shown[f] = data.profiles
  <2>1. Listed(f)' = {}
    BY <1>4, <1>8
  <2>2. ~ (Head(replies).op = "listed" /\ Head(replies).form = f)
    BY <1>1, <1>8 DEF Listed
  <2>3. shown'[f] = data'.profiles
    BY <1>8, <2>2
  <2> QED BY <2>1, <2>3 DEF FormFollows
<1> QED BY <1>5, <1>6, <1>7, <1>8 DEF FormFollows

(* Queues and forms: every open form follows. *)
UIGood == CallsGood /\ RepliesGood /\ FormsGood /\ \A f \in open : FormFollows(f)

(* An answer leaves what the forms show. *)
LEMMA AnswerKeepsForms ==
    ASSUME FormsGood, made \in Nat, made' \in Nat, made <= made', open' = open, shown' = shown
    PROVE  FormsGood'
BY ProfilesGoodGrows DEF FormsGood

(* Every step keeps queues and forms good. *)
LEMMA FormsNext ==
    ASSUME StoresGood, UIGood, [Next]_vars, StoresGood', made <= made'
    PROVE  UIGood'
<1> USE DEF UIGood
<1>1. made \in Nat /\ made' \in Nat
  BY DEF StoresGood
<1>2. CASE ProfilesSave
  <2> DEFINE reply == [op |-> "changed"]
  <2>1. Called("save") /\ Answer(reply) /\ reply.op = "changed"
    BY <1>2 DEF ProfilesSave
  <2> HIDE DEF reply
  <2>2. CallsGood' /\ RepliesGood'
    BY <1>1, <2>1, AnswerIs
  <2>3. FormsGood' /\ open' = open
    BY <1>1, <2>1, AnswerKeepsForms DEF Answer
  <2>4. \A f : FormFollows(f)'
    BY <2>1, FormTold
  <2> QED BY <2>2, <2>3, <2>4
<1>3. CASE ProfilesDelete
  <2> DEFINE reply == [op |-> "changed"]
  <2>1. Called("delete") /\ Answer(reply) /\ reply.op = "changed"
    BY <1>3 DEF ProfilesDelete
  <2> HIDE DEF reply
  <2>2. CallsGood' /\ RepliesGood'
    BY <1>1, <2>1, AnswerIs
  <2>3. FormsGood' /\ open' = open
    BY <1>1, <2>1, AnswerKeepsForms DEF Answer
  <2>4. \A f : FormFollows(f)'
    BY <2>1, FormTold
  <2> QED BY <2>2, <2>3, <2>4
<1>4. CASE ProfilesList
  <2> DEFINE reply == [op |-> "listed", form |-> Head(calls).form, profiles |-> data.profiles]
  <2>1. Called("list") /\ Answer(reply) /\ data' = data /\ made' = made
    BY <1>4 DEF ProfilesList, storeVars
  <2>2. ProfilesGood(data.profiles, made') /\ reply.op = "listed" /\ reply.profiles = data.profiles
        /\ reply.form = Head(calls).form
    BY <2>1 DEF StoresGood, StoreGood
  <2> HIDE DEF reply
  <2>3. CallsGood' /\ RepliesGood'
    BY <1>1, <2>1, <2>2, AnswerIs
  <2>4. FormsGood' /\ open' = open
    BY <1>1, <2>1, AnswerKeepsForms DEF Answer
  <2>5. ASSUME NEW f \in open PROVE FormFollows(f)'
    <3>1. PICK g \in Forms : Head(calls) = ListFor(g)
      <4>1. calls[1] = Head(calls) /\ 1 \in DOMAIN calls /\ Head(calls).op = "list"
        BY <2>1, AnsweredIs DEF Called
      <4> QED BY <4>1 DEF CallsGood, CallGood
    <3>2. CASE g = f
      BY <1>4, <3>1, <3>2, FormListed
    <3>3. CASE g # f
      <4>1. Head(calls) # ListFor(f) /\ ~ (reply.op = "listed" /\ reply.form = f)
        BY <2>2, <3>1, <3>3 DEF ListFor
      <4> QED BY <2>1, <4>1, FormAnswered
    <3> QED BY <3>2, <3>3
  <2> QED BY <2>3, <2>4, <2>5
<1>5. ASSUME NEW op, Called(op), op # "list", Answer([op |-> "unchanged"]), data' = data PROVE UIGood'
  <2> DEFINE reply == [op |-> "unchanged"]
  <2>1. Answer(reply) /\ reply.op = "unchanged"
    BY <1>5
  <2> HIDE DEF reply
  <2>2. CallsGood' /\ RepliesGood'
    BY <1>1, <1>5, <2>1, AnswerIs
  <2>3. FormsGood' /\ open' = open
    BY <1>1, <2>1, AnswerKeepsForms DEF Answer
  <2>4. ASSUME NEW f \in open PROVE FormFollows(f)'
    <3>1. Head(calls) # ListFor(f)
      BY <1>5 DEF Called, ListFor
    <3> QED BY <1>5, <2>1, <3>1, FormAnswered
  <2> QED BY <2>2, <2>3, <2>4
<1>6. ASSUME NEW text \in Configs, SshConfigImport(text) PROVE UIGood'
  <2> DEFINE steps == Importing(text)
  <2>1. Called("import") /\ Persist(steps) /\ Answer([op |-> IF steps = << >> THEN "unchanged" ELSE "changed"])
    BY <1>6 DEF SshConfigImport
  <2> HIDE DEF steps
  <2>2. CASE steps = << >>
    <3>1. << >> \in Seq(Range(<< >>))
      OBVIOUS
    <3>2. data' = data
      BY <2>1, <2>2, <3>1, CurrentIs DEF Persist
    <3> QED BY <1>5, <2>1, <2>2, <3>2
  <2>3. CASE steps # << >>
    <3> DEFINE reply == [op |-> "changed"]
    <3>1. Answer(reply) /\ reply.op = "changed"
      BY <2>1, <2>3
    <3> HIDE DEF reply
    <3>2. CallsGood' /\ RepliesGood'
      BY <1>1, <2>1, <3>1, AnswerIs
    <3>3. FormsGood' /\ open' = open
      BY <1>1, <3>1, AnswerKeepsForms DEF Answer
    <3>4. \A f : FormFollows(f)'
      BY <2>1, <3>1, FormTold
    <3> QED BY <3>2, <3>3, <3>4
  <2> QED BY <2>2, <2>3
<1>7. CASE SshConfigUnreadable
  BY <1>5, <1>7 DEF SshConfigUnreadable, storeVars
<1>8. ASSUME NEW t \in Targets, RecordRecent(t) PROVE UIGood'
  <2>1. /\ data'.profiles = data.profiles /\ made' = made
        /\ open' = open /\ shown' = shown /\ calls' = calls /\ replies' = replies
    <3>1. Persist(Recording(t)) /\ UNCHANGED <<made, open, shown, calls, replies>>
      BY <1>8 DEF RecordRecent
    <3> DEFINE d == Recorded(data, t, uses + 1)
    <3>2. StepsGood(<<d>>, made, uses + 1)
      BY RecordingIs DEF Recording
    <3>3. d.profiles = data.profiles
      BY RecordedIsGood DEF StoresGood
    <3>4. data' = Last(<<data>> \o <<d>>)
      BY <3>1 DEF Persist, Recording
    <3> HIDE DEF d
    <3>5. <<d>> \in Seq(Range(<<d>>)) /\ <<d>> # << >> /\ <<d>>[Len(<<d>>)] = d
      BY <3>2 DEF StepsGood
    <3>6. data' = d
      BY <3>4, <3>5, CurrentIs
    <3> QED BY <3>1, <3>3, <3>6
  <2>2. CallsGood' /\ RepliesGood' /\ FormsGood'
    BY <2>1 DEF CallsGood, RepliesGood, FormsGood
  <2> QED BY <2>1, <2>2, FormKept
<1>9. ASSUME NEW f \in Forms, Restart(f) PROVE UIGood'
  <2>1. /\ open' = {f} /\ shown' = [g \in Forms |-> << >>] /\ calls' = <<ListFor(f)>> /\ replies' = << >>
    BY <1>9 DEF Restart
  <2>2. << >> \in Seq(Range(<< >>)) /\ DOMAIN << >> = {} /\ DOMAIN <<ListFor(f)>> = 1..1
        /\ <<ListFor(f)>>[1] = ListFor(f) /\ <<ListFor(f)>> \in Seq({ListFor(f)})
    OBVIOUS
  <2>3. <<ListFor(f)>> \in Seq(Range(<<ListFor(f)>>))
    BY <2>2, SeqOfItsRange
  <2>4. CallsGood'
    BY <2>1, <2>2, <2>3 DEF CallsGood, CallGood
  <2>5. RepliesGood'
    BY <2>1, <2>2 DEF RepliesGood
  <2>6. \A m : ProfilesGood(<< >>, m)
    BY <2>2 DEF ProfilesGood
  <2>7. FormsGood'
    BY <2>1, <2>6 DEF FormsGood
  <2>8. FormFollows(f)'
    BY <2>1, <2>2 DEF FormFollows, ListFor
  <2> QED BY <2>1, <2>4, <2>5, <2>7, <2>8
<1>10. ASSUME NEW cs, cs \in Seq(Range(cs)), Invoke(cs), data' = data, made' = made, replies' = replies, shown' = shown,
             \A i \in DOMAIN cs : CallGood(cs[i]),
             open' \subseteq Forms,
             \A f \in open' : f \in open \/ \E i \in DOMAIN cs : cs[i] = ListFor(f)
      PROVE  UIGood'
  <2>1. /\ CallsGood'
        /\ \A i \in DOMAIN calls : \E j \in DOMAIN calls' : calls'[j] = calls[i]
        /\ \A i \in DOMAIN cs : \E j \in DOMAIN calls' : calls'[j] = cs[i]
    BY <1>10, InvokeIs
  <2>2. RepliesGood' /\ FormsGood'
    BY <1>10 DEF RepliesGood, FormsGood
  <2>3. ASSUME NEW f \in open' PROVE FormFollows(f)'
    <3>1. CASE f \in open
      BY <1>10, <2>1, <3>1, FormKept
    <3>2. CASE \E i \in DOMAIN cs : cs[i] = ListFor(f)
      BY <2>1, <3>2 DEF FormFollows, ListFor
    <3> QED BY <1>10, <3>1, <3>2
  <2> QED BY <2>1, <2>2, <2>3
<1>11. ASSUME NEW c, Invoke(<<c>>), data' = data, made' = made, replies' = replies, shown' = shown,
             CallGood(c),
             open' \subseteq Forms, \A f \in open' : f \in open \/ c = ListFor(f)
      PROVE  UIGood'
  <2> DEFINE cs == <<c>>
  <2>1. cs \in Seq({c}) /\ 1 \in DOMAIN cs /\ \A i \in DOMAIN cs : cs[i] = c
    OBVIOUS
  <2>2. Invoke(cs)
    BY <1>11
  <2> HIDE DEF cs
  <2>3. cs \in Seq(Range(cs))
    BY <2>1, SeqOfItsRange
  <2>4. \A i \in DOMAIN cs : CallGood(cs[i])
    BY <1>11, <2>1
  <2>5. \A f \in open' : f \in open \/ \E i \in DOMAIN cs : cs[i] = ListFor(f)
    BY <1>11, <2>1
  <2> QED BY <1>10, <1>11, <2>2, <2>3, <2>4, <2>5
<1>12. ASSUME NEW f \in Forms, Show(f) PROVE UIGood'
  <2> DEFINE c == ListFor(f)
  <2>1. /\ open' = open \cup {f} /\ Invoke(<<c>>) /\ data' = data /\ made' = made /\ replies' = replies /\ shown' = shown
        /\ open' \subseteq Forms
    BY <1>12 DEF Show, storeVars, FormsGood
  <2>2. CallGood(c) /\ c = ListFor(f)
    BY DEF CallGood
  <2> HIDE DEF c
  <2> QED BY <1>11, <2>1, <2>2
<1>13. ASSUME NEW f \in Forms, NEW input \in Inputs, Submit(f, input) PROVE UIGood'
  <2> DEFINE c == [op |-> "save", input |-> input]
  <2>1. /\ open' = open /\ Invoke(<<c>>) /\ data' = data /\ made' = made /\ replies' = replies /\ shown' = shown
        /\ open' \subseteq Forms
    BY <1>13 DEF Submit, storeVars, FormsGood
  <2>2. CallGood(c)
    BY DEF CallGood
  <2> HIDE DEF c
  <2> QED BY <1>11, <2>1, <2>2
<1>14. ASSUME NEW f \in Forms, NEW i \in DOMAIN shown[f], ClickDelete(f, i) PROVE UIGood'
  <2> DEFINE c == [op |-> "delete", id |-> shown[f][i].id]
  <2>1. /\ open' = open /\ Invoke(<<c>>) /\ data' = data /\ made' = made /\ replies' = replies /\ shown' = shown
        /\ open' \subseteq Forms
    BY <1>14 DEF ClickDelete, storeVars, FormsGood
  <2>2. CallGood(c)
    BY DEF CallGood
  <2> HIDE DEF c
  <2> QED BY <1>11, <2>1, <2>2
<1>15. ASSUME NEW f \in Forms, ClickImport(f) PROVE UIGood'
  <2> DEFINE c == [op |-> "import"]
  <2>1. /\ open' = open /\ Invoke(<<c>>) /\ data' = data /\ made' = made /\ replies' = replies /\ shown' = shown
        /\ open' \subseteq Forms
    BY <1>15 DEF ClickImport, storeVars, FormsGood
  <2>2. CallGood(c)
    BY DEF CallGood
  <2> HIDE DEF c
  <2> QED BY <1>11, <2>1, <2>2
<1>16. ASSUME NEW f \in Forms, CloseForm(f) PROVE UIGood'
  <2>1. /\ open' = open \ {f} /\ shown' = [shown EXCEPT ![f] = << >>] /\ data' = data /\ made' = made
        /\ calls' = calls /\ replies' = replies
    BY <1>16 DEF CloseForm, storeVars
  <2>2. CallsGood' /\ RepliesGood'
    BY <2>1 DEF CallsGood, RepliesGood
  <2>3. \A m : ProfilesGood(<< >>, m)
    <3>1. << >> \in Seq(Range(<< >>)) /\ DOMAIN << >> = {}
      OBVIOUS
    <3> QED BY <3>1 DEF ProfilesGood
  <2>4. FormsGood'
    BY <2>1, <2>3 DEF FormsGood
  <2>5. ASSUME NEW g \in open' PROVE FormFollows(g)'
    <3>1. g \in open /\ g # f /\ g \in Forms
      BY <2>1 DEF FormsGood
    <3>2. shown'[g] = shown[g]
      BY <2>1, <3>1 DEF FormsGood
    <3> QED BY <2>1, <3>1, <3>2, FormKept
  <2> QED BY <2>2, <2>4, <2>5
<1>17. CASE Announce
  <2> DEFINE fs == SetToSeq(open)
             cs == [i \in DOMAIN fs |-> ListFor(fs[i])]
  <2>1. /\ open \subseteq Forms /\ Reply("changed") /\ Invoke(cs) /\ shown' = shown /\ data' = data /\ made' = made
        /\ open' = open
    BY <1>17 DEF Announce, Reply, storeVars, FormsGood
  <2>2. /\ cs \in Seq(Range(cs))
        /\ \A i \in DOMAIN cs : \E f \in Forms : cs[i] = ListFor(f)
        /\ \A f \in open : \E i \in DOMAIN cs : cs[i] = ListFor(f)
    BY <2>1, AnnounceIs
  <2> HIDE DEF cs
  <2>3. CallsGood' /\ \A i \in DOMAIN cs : \E j \in DOMAIN calls' : calls'[j] = cs[i]
    BY <2>1, <2>2, InvokeIs DEF CallGood
  <2>4. RepliesGood'
    BY <1>1, <2>1, ReplyIs
  <2>5. FormsGood'
    BY <2>1 DEF FormsGood
  <2>6. \A f \in open' : FormFollows(f)'
    BY <2>1, <2>2, <2>3 DEF FormFollows, ListFor
  <2> QED BY <2>3, <2>4, <2>5, <2>6
<1>18. CASE Unannounced
  <2>1. /\ Reply("unchanged") /\ shown' = shown /\ calls' = calls /\ data' = data /\ made' = made
        /\ open' = open /\ Head(replies).op = "unchanged"
    BY <1>18 DEF Unannounced, Reply, storeVars
  <2>2. RepliesGood'
    BY <1>1, <2>1, ReplyIs
  <2>3. CallsGood' /\ FormsGood'
    BY <2>1 DEF CallsGood, FormsGood
  <2>4. \A f \in open' : FormFollows(f)'
    BY <1>1, <2>1, FormReplied
  <2> QED BY <2>2, <2>3, <2>4
<1>19. CASE Render
  <2>1. /\ Reply("listed") /\ calls' = calls /\ data' = data /\ made' = made
        /\ open' = open /\ Head(replies).op = "listed"
        /\ shown' = [f \in Forms |-> IF f = Head(replies).form /\ f \in open
                                     THEN Head(replies).profiles ELSE shown[f]]
    BY <1>19 DEF Render, Reply, storeVars
  <2>2. RepliesGood' /\ Head(replies) = replies[1] /\ 1 \in DOMAIN replies
    BY <1>1, <2>1, ReplyIs
  <2>3. ProfilesGood(Head(replies).profiles, made)
    BY <2>1, <2>2 DEF RepliesGood
  <2>4. CallsGood'
    BY <2>1 DEF CallsGood
  <2>5. FormsGood'
    BY <2>1, <2>3 DEF FormsGood
  <2>6. ASSUME NEW f \in open' PROVE FormFollows(f)'
    <3>1. f \in open /\ f \in Forms
      BY <2>1 DEF FormsGood
    <3>2. Head(replies).op = "listed" /\ Head(replies).form = f => shown'[f] = Head(replies).profiles
      BY <2>1, <3>1
    <3>3. ~ (Head(replies).op = "listed" /\ Head(replies).form = f) => shown'[f] = shown[f]
      BY <2>1, <3>1
    <3> QED BY <1>1, <2>1, <3>1, <3>2, <3>3, FormReplied
  <2> QED BY <2>2, <2>4, <2>5, <2>6
<1>20. CASE UNCHANGED vars
  <2>1. /\ data' = data /\ made' = made /\ open' = open /\ shown' = shown
        /\ calls' = calls /\ replies' = replies
    BY <1>20 DEF vars, storeVars
  <2>2. CallsGood' /\ RepliesGood' /\ FormsGood'
    BY <2>1 DEF CallsGood, RepliesGood, FormsGood
  <2> QED BY <2>1, <2>2, FormKept
<1> HIDE DEF UIGood
<1> QED BY <1>2, <1>3, <1>4, <1>6, <1>7, <1>8, <1>9, <1>12, <1>13, <1>14, <1>15, <1>16, <1>17, <1>18, <1>19, <1>20
     DEF Next

------------------------------------------------------------------------------
(* The invariant holds, and what follows from it. *)

(* The inductive invariant. *)
StoreInv == StoresGood /\ UIGood

(* A first start satisfies it. *)
LEMMA StoreInvInit == Init => StoreInv
<1> SUFFICES ASSUME Init PROVE StoreInv
  OBVIOUS
<1>1. PICK f \in Forms : open = {f} /\ calls = <<ListFor(f)>>
  BY DEF Init
<1>2. StoresGood
  <2>1. StoreGood(Empty, 0, 0)
    BY EmptyIsGood
  <2>2. Empty # Corrupt
    BY <2>1, StoreIsNotCorrupt
  <2>3. data = Empty /\ disk = Empty /\ stale = FALSE /\ made = 0 /\ uses = 0
    BY DEF Init
  <2>4. StoreGood(data, made, uses) /\ StoreGood(disk, made, uses)
    BY <2>1, <2>3
  <2>5. FileFollows
    BY <2>2, <2>3 DEF FileFollows, Loaded
  <2>6. stale \in BOOLEAN
    BY <2>3, Zenon
  <2>7. {made, uses} \subseteq Nat
    <3>1. made = 0 /\ uses = 0
      BY <2>3
    <3> QED BY <3>1
  <2> QED BY <2>4, <2>5, <2>6, <2>7 DEF StoresGood
<1>3. << >> \in Seq(Range(<< >>)) /\ DOMAIN << >> = {}
  OBVIOUS
<1>4. CallsGood /\ FormFollows(f)
  <2>1. <<ListFor(f)>> \in Seq({ListFor(f)}) /\ DOMAIN <<ListFor(f)>> = 1..1 /\ <<ListFor(f)>>[1] = ListFor(f)
    OBVIOUS
  <2>2. <<ListFor(f)>> \in Seq(Range(<<ListFor(f)>>))
    BY <2>1, SeqOfItsRange
  <2>3. CallsGood
    BY <1>1, <2>1, <2>2 DEF CallsGood, CallGood
  <2>4. FormFollows(f)
    BY <1>1, <2>1 DEF FormFollows, ListFor
  <2> QED BY <2>3, <2>4
<1>5. RepliesGood
  BY <1>3 DEF Init, RepliesGood
<1>6. FormsGood
  BY <1>1, <1>3 DEF Init, FormsGood, ProfilesGood
<1> QED BY <1>1, <1>2, <1>4, <1>5, <1>6 DEF StoreInv, UIGood

(* Every step keeps it. *)
LEMMA StoreInvNext == StoreInv /\ [Next]_vars => StoreInv'
<1> SUFFICES ASSUME StoreInv, [Next]_vars PROVE StoreInv'
  OBVIOUS
<1>1. StoresGood /\ UIGood /\ CallsGood
  BY DEF StoreInv, UIGood
<1>2. StoresGood' /\ made <= made'
  BY <1>1, StoresStep
<1>3. UIGood'
  BY <1>1, <1>2, FormsNext
<1> QED BY <1>2, <1>3 DEF StoreInv

(* It holds throughout. *)
LEMMA StoreInvariant == Spec => []StoreInv
BY StoreInvInit, StoreInvNext, PTL DEF Spec

(* Good profiles have the type the invariant asks of them. *)
LEMMA ProfilesGoodOK ==
    ASSUME NEW ps, made \in Nat, ProfilesGood(ps, made)
    PROVE  ProfilesOK(ps)
<1>1. Len(ps) \in Nat /\ DOMAIN ps = 1..Len(ps)
  BY DEF ProfilesGood
<1>2. ASSUME NEW i \in DOMAIN ps, NEW j \in DOMAIN ps, ps[j].id = ps[i].id PROVE i = j
  BY <1>1, <1>2 DEF ProfilesGood
<1> QED BY <1>2 DEF ProfilesOK, ProfilesGood

(* So has a good store. *)
LEMMA StoreGoodOK ==
    ASSUME NEW d, made \in Nat, uses \in Nat, StoreGood(d, made, uses)
    PROVE  StoreOK(d)
<1> DEFINE A == [target : Targets, use : 1..uses]
           rs == d.recents
<1>1. /\ d \in [profiles : Seq(Range(d.profiles)), recents : Seq(A), used : [Targets -> 0..uses]]
      /\ Len(rs) <= MaxRecents /\ ProfilesGood(d.profiles, made)
  BY DEF StoreGood, StoreShape
<1>2. rs \in Seq(A) /\ d.used \in [Targets -> 0..uses]
  <2> HIDE DEF A
  <2> QED BY <1>1
<1>3. ProfilesOK(d.profiles)
  BY <1>1, ProfilesGoodOK
<1>4. \A i \in DOMAIN rs : rs[i].target \in Targets /\ rs[i].use \in 1..uses
  <2> HIDE DEF rs
  <2>1. \A i \in DOMAIN rs : rs[i] \in A
    <3> HIDE DEF A
    <3> QED BY <1>2
  <2> QED BY <2>1
<1> QED BY <1>1, <1>2, <1>3, <1>4 DEF StoreOK

(* Store, file, queues and forms keep their types: in particular no two profiles share an
   id, and no recents list is longer than MAX_RECENTS. *)
THEOREM StoreTyped == Spec => []TypeOK
<1>1. StoreInv => TypeOK
  <2> SUFFICES ASSUME StoreInv PROVE TypeOK
    OBVIOUS
  <2>1. StoresGood /\ CallsGood /\ RepliesGood /\ FormsGood
    BY DEF StoreInv, UIGood
  <2>2. StoreOK(data) /\ (disk # Corrupt => StoreOK(disk)) /\ stale \in BOOLEAN /\ {made, uses} \subseteq Nat
    BY <2>1, StoreGoodOK DEF StoresGood
  <2>3. open \subseteq Forms /\ \A f \in Forms : ProfilesOK(shown[f])
    BY <2>1, <2>2, ProfilesGoodOK DEF FormsGood
  <2>4. \A i \in DOMAIN calls : calls[i].op \in {"save", "delete", "list", "import"}
    BY <2>1 DEF CallsGood, CallGood, ListFor
  <2>5. \A i \in DOMAIN replies : replies[i].op \in {"changed", "unchanged", "listed"}
    BY <2>1 DEF RepliesGood
  <2> QED BY <2>2, <2>3, <2>4, <2>5 DEF TypeOK
<1> QED BY <1>1, StoreInvariant, PTL

(* Unless its last write failed, a restart reads from the file what is in memory, whatever
   was saved, deleted, imported or cut short before. *)
THEOREM TheFileFollows == Spec => []FileFollows
<1>1. StoreInv => FileFollows
  BY DEF StoreInv, StoresGood
<1> QED BY <1>1, StoreInvariant, PTL

(* The recents are the targets used last, latest first, and none of them is missing as long
   as there is room. *)
THEOREM TheRecentsAreLatest == Spec => []RecentsAreLatest
<1>1. StoreInv => RecentsAreLatest
  <2> SUFFICES ASSUME StoreInv PROVE RecentsAreLatest
    OBVIOUS
  <2> DEFINE rs == data.recents
  <2>1. /\ StoreShape(data, made, uses) /\ RecentsInOrder(data) /\ RecentsComplete(data) /\ uses \in Nat
    BY DEF StoreInv, StoresGood, StoreGood
  <2>2. rs \in Seq([target : Targets, use : 1..uses]) /\ data.used \in [Targets -> 0..uses]
    BY <2>1 DEF StoreShape
  <2>3. Len(rs) \in Nat /\ DOMAIN rs = 1..Len(rs)
    BY <2>2
  <2>4. ASSUME NEW i \in DOMAIN rs, NEW j \in 1..i-1 PROVE rs[j].use > rs[i].use
    <3>1. j \in DOMAIN rs /\ j < i
      BY <2>3
    <3> QED BY <2>1, <3>1 DEF RecentsInOrder
  <2>5. ASSUME NEW t \in Targets, data.used[t] > 0, \A i \in DOMAIN rs : rs[i].target # t
        PROVE  Len(rs) = MaxRecents /\ \A i \in DOMAIN rs : rs[i].use > data.used[t]
    <3>1. data.used[t] # 0
      BY <2>2, <2>5
    <3> QED BY <2>1, <2>5, <3>1 DEF RecentsComplete
  <2> QED BY <2>1, <2>4, <2>5 DEF RecentsAreLatest, RecentsInOrder
<1> QED BY <1>1, StoreInvariant, PTL

(* Every open form shows the profiles there are, or its list is on the way. *)
THEOREM EveryFormShowsTheProfiles == Spec => []FormsShowProfiles
<1>1. StoreInv => FormsShowProfiles
  BY DEF StoreInv, UIGood, FormFollows, FormsShowProfiles, Listed
<1> QED BY <1>1, StoreInvariant, PTL

(* The parser finds in one pass what the text says block by block. *)
THEOREM TheConfigIsReadAsWritten == Spec => []ParsesAsWritten
<1>1. ReadsAsWritten
  BY TextsAssumption, ParseAsWritten DEF ReadsAsWritten
<1>2. StoreInv => ParsesAsWritten
  BY <1>1 DEF ParsesAsWritten
<1> QED BY <1>2, StoreInvariant, PTL

(* What agrees with a sequence as far as that goes has it as a prefix. *)
LEMMA PrefixIs ==
    ASSUME NEW A, NEW s \in Seq(A), NEW B, NEW t \in Seq(B), Len(s) <= Len(t),
           \A i \in DOMAIN s : t[i] = s[i]
    PROVE  IsPrefix(s, t)
<1> DEFINE n == Len(s)
           q == SubSeq(s, 1, n)
           r == SubSeq(t, 1, n)
<1>1. n \in Nat /\ Len(t) \in Nat /\ DOMAIN s = 1..n
  OBVIOUS
<1>2. \A i \in 1..n : s[i] \in A /\ t[i] \in B
  BY <1>1
<1>3. Len(q) = n /\ q \in Seq(A) /\ \A i \in 1..n : q[i] = s[i]
  BY <1>1, <1>2
<1>4. Len(r) = n /\ r \in Seq(B) /\ \A i \in 1..n : r[i] = t[i]
  BY <1>1, <1>2
<1> HIDE DEF q, r
<1>5. q = r
  BY <1>1, <1>3, <1>4
<1> QED BY <1>5 DEF IsPrefix, q, r

(* A name that no profile had before is had by one, any other by as many as before. *)
KeptOnce(old, ps, n) ==
    LET before == Cardinality(Named(old, n))
    IN  Cardinality(Named(ps, n)) = IF before = 0 THEN 1 ELSE before

(* So it is where profiles are added whose names nobody else has. *)
LEMMA NamedOnce ==
    ASSUME NEW L \in Nat, NEW old, DOMAIN old = 1..L, NEW ps, DOMAIN ps = 1..Len(ps), Len(ps) \in Nat,
           L <= Len(ps), \A j \in 1..L : ps[j] = old[j],
           \A j, h \in DOMAIN ps : j > L /\ Folded[ps[h].name] = Folded[ps[j].name] => h = j,
           NEW n, \E j \in DOMAIN ps : Folded[ps[j].name] = n
    PROVE  KeptOnce(old, ps, n)
<1> DEFINE before == Named(old, n)
           after == Named(ps, n)
<1>1. before = {j \in 1..L : Folded[old[j].name] = n}
  BY DEF Named
<1>2. after = {j \in 1..Len(ps) : Folded[ps[j].name] = n}
  BY DEF Named
<1>3. PICK k \in DOMAIN ps : Folded[ps[k].name] = n
  OBVIOUS
<1> HIDE DEF before, after
<1>4. before \subseteq after
  BY <1>1, <1>2
<1>5. k \in after
  BY <1>2, <1>3
<1>6. ASSUME NEW j \in after, j > L PROVE after = {j}
  BY <1>2, <1>6
<1>7. IsFiniteSet(before)
  <2>1. before \subseteq 1..L /\ IsFiniteSet(1..L)
    BY <1>1, FS_Interval
  <2> QED BY <2>1, FS_Subset
<1>8. CASE before = {}
  <2>1. Cardinality(before) = 0
    BY <1>8, FS_EmptySet
  <2>2. k > L
    BY <1>1, <1>2, <1>5, <1>8
  <2>3. after = {k}
    BY <1>5, <1>6, <2>2
  <2>4. Cardinality(after) = 1
    BY <2>3, FS_Singleton
  <2> QED BY <2>1, <2>4 DEF before, after, KeptOnce
<1>9. CASE before # {}
  <2>1. Cardinality(before) # 0
    BY <1>7, <1>9, FS_EmptySet
  <2>2. PICK b : b \in before
    BY <1>9
  <2>3. ASSUME NEW j \in after PROVE j \in before
    <3>1. CASE j > L
      <4>1. b = j
        BY <1>4, <1>6, <2>2, <3>1
      <4> QED BY <2>2, <4>1
    <3>2. CASE ~ (j > L)
      <4>1. j \in 1..L
        BY <1>2, <3>2
      <4> QED BY <1>1, <1>2, <4>1
    <3> QED BY <3>1, <3>2
  <2>4. after = before
    BY <1>4, <2>3
  <2> QED BY <2>1, <2>4 DEF before, after, KeptOnce
<1> QED BY <1>8, <1>9

(* An import does. *)
LEMMA ImportAddsOnce ==
    ASSUME StoreInv, NEW CONSTANT text \in Configs, SshConfigImport(text)
    PROVE  /\ IsPrefix(data.profiles, data'.profiles)
           /\ \A i \in DOMAIN AsWritten(text) :
                 LET n == Folded[AsWritten(text)[i].name]
                     before == Cardinality(Named(data.profiles, n))
                 IN  Cardinality(Named(data'.profiles, n)) = IF before = 0 THEN 1 ELSE before
<1> DEFINE hosts == Parse(text)
           old == data.profiles
           L == Len(old)
<1>1. made \in Nat /\ uses \in Nat /\ StoreGood(data, made, uses)
  BY DEF StoreInv, StoresGood
<1>2. old \in Seq(Range(old)) /\ L \in Nat /\ DOMAIN old = 1..L
  BY <1>1 DEF StoreGood, ProfilesGood
<1>3. hosts = AsWritten(text) /\ NamesOver(DOMAIN Folded, text)
  BY NamesAssumption, ParseAsWritten DEF NamesOver
<1>4. Len(hosts) \in Nat /\ DOMAIN hosts = 1..Len(hosts)
  <2>1. hosts \in Seq(HostsOver(DOMAIN Folded, text))
    BY <1>3, ParseIs
  <2> HIDE DEF hosts
  <2> QED BY <2>1
<1> HIDE DEF hosts
<1>5. PICK st, ps : Importing(text) = st.steps /\ ImportGood(st, hosts, Len(hosts), ps)
  BY <1>1, ImportingIs DEF hosts
<1>6. /\ st.steps \in Seq(Range(st.steps))
      /\ ps = Last(<<data>> \o st.steps).profiles /\ st.names = FoldedOf(ps)
      /\ L <= Len(ps) /\ \A j \in DOMAIN old : ps[j] = old[j]
      /\ \A j, h \in DOMAIN ps : j > L /\ Folded[ps[h].name] = Folded[ps[j].name] => h = j
      /\ \A h \in 1..Len(hosts) : Folded[hosts[h].name] \in st.names
  BY <1>5, Zenon DEF ImportGood
<1>7. data' = Last(<<data>> \o st.steps)
  BY <1>5 DEF SshConfigImport, Persist
<1>8. ps = data'.profiles
  BY <1>6, <1>7
<1>9. ps \in Seq(Range(ps)) /\ Len(ps) \in Nat /\ DOMAIN ps = 1..Len(ps)
  <2>1. StoresGood'
    <3>1. Next
      BY DEF Next
    <3>2. StoresGood /\ CallsGood
      BY DEF StoreInv, UIGood
    <3> QED BY <3>1, <3>2, StoresStep
  <2>2. ProfilesGood(data'.profiles, made')
    BY <2>1 DEF StoresGood, StoreGood
  <2> QED BY <1>8, <2>2 DEF ProfilesGood
<1>10. IsPrefix(old, ps)
  BY <1>2, <1>6, <1>9, PrefixIs
<1>11. ASSUME NEW i \in DOMAIN hosts
       PROVE  KeptOnce(old, ps, Folded[hosts[i].name])
  <2> DEFINE n == Folded[hosts[i].name]
  <2>1. n \in st.names
    BY <1>4, <1>6
  <2>2. \E j \in DOMAIN ps : Folded[ps[j].name] = n
    BY <1>6, <2>1 DEF FoldedOf
  <2> HIDE DEF n
  <2>3. /\ \A j \in 1..L : ps[j] = old[j]
        /\ \A j, h \in DOMAIN ps : j > L /\ Folded[ps[h].name] = Folded[ps[j].name] => h = j
    BY <1>2, <1>6
  <2> HIDE DEF old, L
  <2>4. KeptOnce(old, ps, n)
    BY <1>2, <1>6, <1>9, <2>2, <2>3, NamedOnce
  <2> QED BY <2>4 DEF n
<1> QED BY <1>3, <1>8, <1>10, <1>11 DEF KeptOnce

(* An import leaves the profiles there were, and each host of the file is there under one name,
   whatever was saved, deleted and imported before. *)
THEOREM AnImportAddsEachOnce == Spec => ImportAddsEachOnce
<1>1. StoreInv /\ [Next]_vars =>
        [\A text \in Configs : SshConfigImport(text) =>
          /\ IsPrefix(data.profiles, data'.profiles)
          /\ \A i \in DOMAIN AsWritten(text) :
                LET n == Folded[AsWritten(text)[i].name]
                    before == Cardinality(Named(data.profiles, n))
                IN  Cardinality(Named(data'.profiles, n)) = IF before = 0 THEN 1 ELSE before]_vars
  BY ImportAddsOnce
<1> QED BY <1>1, StoreInvariant, PTL DEF Spec, ImportAddsEachOnce

==============================================================================
