--------------------------- MODULE TabManagerProofs ---------------------------
(***************************************************************************)
(* The tabs, for any number of tabs and sessions: array and bar, routes,   *)
(* what a connecting tab waits for, and which tab is active.               *)
(*                                                                         *)
(* TabInv is what the run checks, with what makes it inductive: no tab is  *)
(* twice in the array or the bar, nothing belongs to a tab that has not    *)
(* been made, a session that was ended is not routed, and one that was not *)
(* answered will still report.                                             *)
(***************************************************************************)
EXTENDS TabManager, SequenceTheorems, TLAPS

(* A sequence without repetitions loses its one occurrence of an element. *)
LEMMA RemoveFirstIs ==
    ASSUME NEW S, NEW q \in Seq(S), IsInjective(q), NEW t
    PROVE  \/ t \notin Range(q) /\ RemoveFirst(q, t) = q
           \/ \E p \in 1..Len(q) :
                 /\ q[p] = t
                 /\ RemoveFirst(q, t) \in Seq(S) /\ Len(RemoveFirst(q, t)) = Len(q) - 1
                 /\ \A i \in 1..Len(q)-1 : RemoveFirst(q, t)[i] = IF i < p THEN q[i] ELSE q[i+1]
<1>1. CASE t \notin Range(q)
  <2>1. ~ \E i \in 1..Len(q) : q[i] = t
    BY <1>1 DEF Range
  <2>2. RemoveFirst(q, t) = q
    BY <2>1 DEF RemoveFirst
  <2> QED BY <1>1, <2>2
<1>2. CASE t \in Range(q)
  <2>1. PICK p \in 1..Len(q) : q[p] = t
    BY <1>2 DEF Range
  <2>2. {i \in 1..Len(q) : q[i] = t} = {p}
    BY <2>1 DEF IsInjective
  <2>3. SelectInSeq(q, LAMBDA v : v = t) = p
    BY <2>2 DEF SelectInSeq, Min
  <2>4. RemoveFirst(q, t) = RemoveAt(q, p)
    BY <2>1, <2>3 DEF RemoveFirst
  <2> DEFINE a == SubSeq(q, 1, p - 1)
             b == SubSeq(q, p + 1, Len(q))
  <2>5. a \in Seq(S) /\ Len(a) = p - 1 /\ \A i \in 1..p-1 : a[i] = q[i]
    BY <2>1
  <2>6. b \in Seq(S) /\ Len(b) = Len(q) - p /\ \A i \in 1..Len(q)-p : b[i] = q[p+i]
    BY <2>1
  <2>7. RemoveFirst(q, t) = a \o b
    BY <2>4 DEF RemoveAt
  <2> HIDE DEF a, b
  <2>8. /\ a \o b \in Seq(S) /\ Len(a \o b) = Len(a) + Len(b)
        /\ \A i \in 1..Len(a)+Len(b) : (a \o b)[i] = IF i <= Len(a) THEN a[i] ELSE b[i - Len(a)]
    BY <2>5, <2>6, ConcatProperties
  <2>9. Len(q) \in Nat /\ p \in Nat
    OBVIOUS
  <2>10. Len(a \o b) = Len(q) - 1
    BY <2>5, <2>6, <2>8, <2>9
  <2>11. \A i \in 1..Len(q)-1 : (a \o b)[i] = IF i < p THEN q[i] ELSE q[i+1]
    <3> TAKE i \in 1..Len(q)-1
    <3>1. CASE i < p
      BY <2>5, <2>6, <2>8, <2>9, <3>1
    <3>2. CASE ~(i < p)
      <4>1. i - (p - 1) \in 1..Len(q)-p /\ p + (i - (p - 1)) = i + 1
        BY <2>9, <3>2
      <4>2. (a \o b)[i] = b[i - (p - 1)]
        BY <2>5, <2>6, <2>8, <2>9, <3>2
      <4> QED BY <2>6, <3>2, <4>1, <4>2
    <3> QED BY <3>1, <3>2
  <2> QED BY <2>1, <2>7, <2>8, <2>10, <2>11
<1> QED BY <1>1, <1>2

(* The others stay, in their order. *)
LEMMA RemoveFirstKeeps ==
    ASSUME NEW S, NEW q \in Seq(S), IsInjective(q), NEW t
    PROVE  /\ RemoveFirst(q, t) \in Seq(S)
           /\ IsInjective(RemoveFirst(q, t))
           /\ Range(RemoveFirst(q, t)) = Range(q) \ {t}
           /\ Follows(RemoveFirst(q, t), q)
           /\ \A k, l \in DOMAIN q : k < l /\ q[k] # t /\ q[l] # t =>
                 \E i, j \in DOMAIN RemoveFirst(q, t) :
                    i < j /\ RemoveFirst(q, t)[i] = q[k] /\ RemoveFirst(q, t)[j] = q[l]
<1> DEFINE r == RemoveFirst(q, t)
<1>1. CASE t \notin Range(q) /\ r = q
  BY <1>1 DEF Follows
<1>2. ASSUME NEW p \in 1..Len(q), q[p] = t,
             r \in Seq(S) /\ Len(r) = Len(q) - 1,
             \A i \in 1..Len(q)-1 : r[i] = IF i < p THEN q[i] ELSE q[i+1]
      PROVE  /\ r \in Seq(S) /\ IsInjective(r) /\ Range(r) = Range(q) \ {t} /\ Follows(r, q)
             /\ \A k, l \in DOMAIN q : k < l /\ q[k] # t /\ q[l] # t =>
                 \E i, j \in DOMAIN r : i < j /\ r[i] = q[k] /\ r[j] = q[l]
  <2> HIDE DEF r
  <2>1. r \in Seq(S) /\ Len(r) = Len(q) - 1 /\ DOMAIN r = 1..Len(q)-1
    BY <1>2
  <2>2. \A i \in DOMAIN r : r[i] = IF i < p THEN q[i] ELSE q[i+1]
    BY <1>2, <2>1
  <2>3. \A k \in DOMAIN q : k # p => \E i \in DOMAIN r : r[i] = q[k] /\ i = IF k < p THEN k ELSE k - 1
    BY <2>1, <2>2
  <2>4. IsInjective(r)
    BY <2>1, <2>2 DEF IsInjective
  <2>5. \A i \in DOMAIN r : r[i] \in Range(q) \ {t}
    BY <1>2, <2>1, <2>2 DEF IsInjective, Range
  <2>6. Range(r) = Range(q) \ {t}
    BY <1>2, <2>1, <2>3, <2>5 DEF Range
  <2>7. Follows(r, q)
    <3> SUFFICES ASSUME NEW i \in DOMAIN r, NEW j \in DOMAIN r, i < j
                 PROVE  \E k, l \in DOMAIN q : k < l /\ q[k] = r[i] /\ q[l] = r[j]
      BY DEF Follows
    <3> DEFINE k == IF i < p THEN i ELSE i + 1
               l == IF j < p THEN j ELSE j + 1
    <3>1. k \in DOMAIN q /\ l \in DOMAIN q /\ k < l /\ q[k] = r[i] /\ q[l] = r[j]
      BY <2>1, <2>2
    <3> QED BY <3>1
  <2>8. \A k, l \in DOMAIN q : k < l /\ q[k] # t /\ q[l] # t =>
                 \E i, j \in DOMAIN r : i < j /\ r[i] = q[k] /\ r[j] = q[l]
    <3> SUFFICES ASSUME NEW k \in DOMAIN q, NEW l \in DOMAIN q, k < l, q[k] # t, q[l] # t
                 PROVE  \E i, j \in DOMAIN r : i < j /\ r[i] = q[k] /\ r[j] = q[l]
      OBVIOUS
    <3>1. k # p /\ l # p
      BY <1>2
    <3>2. PICK i \in DOMAIN r : r[i] = q[k] /\ i = IF k < p THEN k ELSE k - 1
      BY <2>3, <3>1
    <3>3. PICK j \in DOMAIN r : r[j] = q[l] /\ j = IF l < p THEN l ELSE l - 1
      BY <2>3, <3>1
    <3> QED BY <2>1, <3>1, <3>2, <3>3
  <2> QED BY <2>1, <2>4, <2>6, <2>7, <2>8
<1> QED BY <1>1, <1>2, RemoveFirstIs

(* A new element goes into a sequence, at any place. *)
LEMMA InsertAtKeeps ==
    ASSUME NEW S, NEW q \in Seq(S), IsInjective(q), NEW e \in S, e \notin Range(q),
           NEW i \in 1..Len(q) + 1
    PROVE  /\ InsertAt(q, i, e) \in Seq(S)
           /\ IsInjective(InsertAt(q, i, e))
           /\ Range(InsertAt(q, i, e)) = Range(q) \cup {e}
<1> DEFINE r == InsertAt(q, i, e)
<1> DEFINE a == SubSeq(q, 1, i - 1)
           b == SubSeq(q, i, Len(q))
           c == a \o <<e>>
<1>1. /\ a \in Seq(S) /\ Len(a) = i - 1 /\ \A j \in 1..i-1 : a[j] = q[j]
      /\ b \in Seq(S) /\ Len(b) = Len(q) - i + 1 /\ \A j \in 1..Len(q)-i+1 : b[j] = q[i+j-1]
      /\ Len(q) \in Nat /\ i \in Nat
  OBVIOUS
<1>2. r = c \o b
  BY DEF InsertAt
<1> HIDE DEF a, b
<1>3. c \in Seq(S) /\ Len(c) = i /\ \A j \in 1..i : c[j] = IF j < i THEN q[j] ELSE e
  BY <1>1
<1> HIDE DEF c, r
<1>4. /\ r \in Seq(S) /\ Len(r) = i + Len(b)
      /\ \A j \in 1..i+Len(b) : r[j] = IF j <= i THEN c[j] ELSE b[j - i]
  <2>1. /\ c \o b \in Seq(S) /\ Len(c \o b) = Len(c) + Len(b)
        /\ \A j \in 1..Len(c)+Len(b) : (c \o b)[j] = IF j <= Len(c) THEN c[j] ELSE b[j - Len(c)]
    BY <1>1, <1>3, ConcatProperties
  <2> QED BY <1>2, <1>3, <2>1
<1>5. Len(r) = Len(q) + 1 /\ DOMAIN r = 1..Len(q)+1
  BY <1>1, <1>4
<1>6. \A j \in DOMAIN r : r[j] = IF j < i THEN q[j] ELSE IF j = i THEN e ELSE q[j-1]
  <2> TAKE j \in DOMAIN r
  <2>1. CASE j <= i
    BY <1>1, <1>3, <1>4, <1>5, <2>1
  <2>2. CASE ~(j <= i)
    <3>1. j - i \in 1..Len(q)-i+1 /\ i + (j - i) - 1 = j - 1 /\ j \in 1..i+Len(b)
      BY <1>1, <1>5, <2>2
    <3>2. r[j] = b[j - i] /\ b[j - i] = q[i + (j - i) - 1]
      BY <1>1, <1>4, <2>2, <3>1
    <3>3. ~(j < i) /\ j # i
      BY <1>1, <1>5, <2>2
    <3> QED BY <3>1, <3>2, <3>3
  <2> QED BY <2>1, <2>2
<1>7. \A k \in DOMAIN q : q[k] # e
  BY DEF Range
<1>8. IsInjective(r)
  BY <1>5, <1>6, <1>7 DEF IsInjective
<1>9. \A k \in DOMAIN q : \E j \in DOMAIN r : r[j] = q[k]
  <2> TAKE k \in DOMAIN q
  <2>1. CASE k < i
    BY <1>5, <1>6, <2>1
  <2>2. CASE ~(k < i)
    <3>1. k + 1 \in DOMAIN r /\ r[k+1] = q[k]
      BY <1>5, <1>6, <2>2
    <3> QED BY <3>1
  <2> QED BY <2>1, <2>2
<1>10. i \in DOMAIN r /\ r[i] = e
  BY <1>5, <1>6
<1>11. Range(r) \subseteq Range(q) \cup {e}
  BY <1>5, <1>6 DEF Range
<1>12. Range(q) \cup {e} \subseteq Range(r)
  <2>1. \A x \in Range(q) \cup {e} : \E j \in DOMAIN r : r[j] = x
    BY <1>9, <1>10 DEF Range
  <2> QED BY <2>1 DEF Range
<1> QED BY <1>4, <1>8, <1>11, <1>12 DEF r

(* A new element goes to the end. *)
LEMMA AppendKeeps ==
    ASSUME NEW S, NEW q \in Seq(S), IsInjective(q), NEW e \in S, e \notin Range(q)
    PROVE  /\ Append(q, e) \in Seq(S) /\ DOMAIN Append(q, e) = 1..Len(q)+1
           /\ IsInjective(Append(q, e))
           /\ Range(Append(q, e)) = Range(q) \cup {e}
           /\ \A k \in DOMAIN q : k \in DOMAIN Append(q, e) /\ Append(q, e)[k] = q[k]
           /\ Append(q, e)[Len(q) + 1] = e
<1> DEFINE r == Append(q, e)
<1>1. r \in Seq(S) /\ DOMAIN r = 1..Len(q)+1 /\ r[Len(q)+1] = e
  OBVIOUS
<1>2. \A k \in DOMAIN q : k \in DOMAIN r /\ r[k] = q[k]
  OBVIOUS
<1>3. \A k \in DOMAIN q : q[k] # e
  BY DEF Range
<1>4. \A k \in DOMAIN r : k \in DOMAIN q \/ k = Len(q) + 1
  BY <1>1
<1> HIDE DEF r
<1>5. IsInjective(r)
  BY <1>1, <1>2, <1>3, <1>4 DEF IsInjective
<1>6. Len(q) + 1 \in DOMAIN r
  BY <1>1
<1>7. Range(r) \subseteq Range(q) \cup {e}
  BY <1>1, <1>2, <1>4 DEF Range
<1>8. Range(q) \cup {e} \subseteq Range(r)
  BY <1>1, <1>2, <1>6 DEF Range
<1> QED BY <1>1, <1>2, <1>5, <1>7, <1>8 DEF r

(* Nothing stands for no tab and no session. *)
LEMMA NoneIsNone == None \notin Tabs /\ None \notin Sessions
  BY TabBounds DEF Tabs

(* Taking the same element out of two such sequences keeps them in one order. *)
LEMMA RemoveBoth ==
    ASSUME NEW S, NEW q \in Seq(S), IsInjective(q), NEW r \in Seq(S), IsInjective(r),
           Range(q) \subseteq Range(r), Follows(q, r), NEW t
    PROVE  /\ Range(RemoveFirst(q, t)) \subseteq Range(RemoveFirst(r, t))
           /\ Follows(RemoveFirst(q, t), RemoveFirst(r, t))
<1> DEFINE u == RemoveFirst(q, t)
           v == RemoveFirst(r, t)
<1>1. /\ Range(u) = Range(q) \ {t} /\ Follows(u, q)
      /\ Range(v) = Range(r) \ {t}
      /\ \A k, l \in DOMAIN r : k < l /\ r[k] # t /\ r[l] # t =>
            \E i, j \in DOMAIN v : i < j /\ v[i] = r[k] /\ v[j] = r[l]
  BY RemoveFirstKeeps
<1> HIDE DEF u, v
<1>2. Follows(u, v)
  <2> SUFFICES ASSUME NEW i \in DOMAIN u, NEW j \in DOMAIN u, i < j
               PROVE  \E k, l \in DOMAIN v : k < l /\ v[k] = u[i] /\ v[l] = u[j]
    BY DEF Follows
  <2>1. u[i] # t /\ u[j] # t
    BY <1>1 DEF Range
  <2>2. PICK m \in DOMAIN q, n \in DOMAIN q : m < n /\ q[m] = u[i] /\ q[n] = u[j]
    BY <1>1 DEF Follows
  <2>3. PICK k \in DOMAIN r, l \in DOMAIN r : k < l /\ r[k] = q[m] /\ r[l] = q[n]
    BY <2>2 DEF Follows
  <2> QED BY <1>1, <2>1, <2>2, <2>3
<1> QED BY <1>1, <1>2 DEF u, v

(* Adding the same new element at both ends, too. *)
LEMMA AppendBoth ==
    ASSUME NEW S, NEW q \in Seq(S), IsInjective(q), NEW r \in Seq(S), IsInjective(r),
           Range(q) \subseteq Range(r), NEW e \in S, e \notin Range(r)
    PROVE  /\ Range(Append(q, e)) \subseteq Range(Append(r, e))
           /\ Follows(q, r) => Follows(Append(q, e), Append(r, e))
<1> DEFINE u == Append(q, e)
           v == Append(r, e)
<1>1. /\ DOMAIN u = 1..Len(q)+1 /\ Range(u) = Range(q) \cup {e}
      /\ (\A k \in DOMAIN q : k \in DOMAIN u /\ u[k] = q[k]) /\ u[Len(q)+1] = e
  BY AppendKeeps
<1>2. /\ DOMAIN v = 1..Len(r)+1 /\ Range(v) = Range(r) \cup {e}
      /\ (\A k \in DOMAIN r : k \in DOMAIN v /\ v[k] = r[k]) /\ v[Len(r)+1] = e
  BY AppendKeeps
<1>3. DOMAIN q = 1..Len(q) /\ DOMAIN r = 1..Len(r) /\ Len(q) \in Nat /\ Len(r) \in Nat
  OBVIOUS
<1> HIDE DEF u, v
<1>4. ASSUME Follows(q, r), NEW i \in DOMAIN u, NEW j \in DOMAIN u, i < j
      PROVE  \E k, l \in DOMAIN v : k < l /\ v[k] = u[i] /\ v[l] = u[j]
  <2>1. i \in DOMAIN q
    BY <1>1, <1>3, <1>4
  <2>2. CASE j \in DOMAIN q
    <3>1. PICK k \in DOMAIN r, l \in DOMAIN r : k < l /\ r[k] = q[i] /\ r[l] = q[j]
      BY <1>4, <2>1, <2>2 DEF Follows
    <3> QED BY <1>1, <1>2, <2>1, <2>2, <3>1
  <2>3. CASE j \notin DOMAIN q
    <3>1. u[j] = e
      BY <1>1, <1>3, <2>3
    <3>2. PICK k \in DOMAIN r : r[k] = q[i]
      BY <2>1 DEF Range
    <3>3. Len(r) + 1 \in DOMAIN v /\ k < Len(r) + 1
      BY <1>2, <1>3
    <3> QED BY <1>1, <1>2, <2>1, <3>1, <3>2, <3>3
  <2> QED BY <2>2, <2>3
<1> QED BY <1>1, <1>2, <1>4 DEF Follows, u, v

------------------------------------------------------------------------------
(* The array and the bar. *)

(* They are made of tabs there have been, none of them twice. *)
BarInv ==
    /\ tabSeq \in Tabs
    /\ tabs \in Seq(1..tabSeq) /\ bar \in Seq(1..tabSeq)
    /\ active \in 1..tabSeq /\ drag \in 1..tabSeq \cup {None}
    /\ IsInjective(tabs) /\ BarShowsTabs

(* What is in them. *)
LEMMA BarElements == BarInv => Open \subseteq 1..tabSeq /\ Range(bar) \subseteq 1..tabSeq
<1>1. ASSUME NEW S, NEW q \in Seq(S) PROVE Range(q) \subseteq S
  BY <1>1, ElementOfSeq DEF Range
<1> QED BY <1>1 DEF BarInv, Open

(* A new tab at the end of both. *)
LEMMA AppendTabKeeps ==
    ASSUME BarInv, AppendTab, UNCHANGED drag
    PROVE  BarInv' /\ Open' = Open \cup {tabSeq + 1} /\ active' \in Open'
<1> DEFINE n == tabSeq + 1
<1>1. n \in Tabs /\ tabSeq \in Nat /\ n \in 1..n /\ n \notin 1..tabSeq /\ 1..tabSeq \subseteq 1..n
  BY TabBounds DEF BarInv, AppendTab, Tabs
<1>2. tabs \in Seq(1..n) /\ bar \in Seq(1..n)
  BY <1>1, SeqMonotonic DEF BarInv
<1>3. n \notin Range(tabs) /\ n \notin Range(bar)
  BY <1>1 DEF BarInv, Range
<1>4. tabs' = Append(tabs, n) /\ bar' = Append(bar, n) /\ tabSeq' = n /\ active' = n
  BY DEF AppendTab
<1> HIDE DEF n
<1>5. /\ tabs' \in Seq(1..n) /\ IsInjective(tabs') /\ Range(tabs') = Range(tabs) \cup {n}
      /\ bar' \in Seq(1..n) /\ IsInjective(bar')
  BY <1>1, <1>2, <1>3, <1>4, AppendKeeps DEF BarInv, BarShowsTabs
<1>6. /\ Range(tabs') \subseteq Range(bar')
      /\ drag = None => Follows(tabs', bar')
  BY <1>1, <1>2, <1>3, <1>4, AppendBoth DEF BarInv, BarShowsTabs, Open
<1>7. active' \in 1..n /\ drag' \in 1..n \cup {None}
  BY <1>1, <1>4 DEF BarInv
<1> QED BY <1>1, <1>4, <1>5, <1>6, <1>7 DEF BarInv, BarShowsTabs, Open, n

(* A tab leaves both. *)
LEMMA WithdrawKeeps ==
    ASSUME BarInv, NEW t, Withdraw(t), UNCHANGED <<tabSeq, drag>>, active' \in 1..tabSeq
    PROVE  BarInv' /\ Open' = Open \ {t} /\ Range(bar)' = Range(bar) \ {t}
<1>1. tabs' = RemoveFirst(tabs, t) /\ bar' = RemoveFirst(bar, t)
  BY DEF Withdraw
<1>2. /\ tabs' \in Seq(1..tabSeq) /\ IsInjective(tabs') /\ Range(tabs') = Range(tabs) \ {t}
      /\ bar' \in Seq(1..tabSeq) /\ IsInjective(bar') /\ Range(bar') = Range(bar) \ {t}
  BY <1>1, RemoveFirstKeeps DEF BarInv, BarShowsTabs
<1>3. drag = None => Follows(tabs', bar')
  BY <1>1, RemoveBoth DEF BarInv, BarShowsTabs, Open
<1> QED BY <1>2, <1>3 DEF BarInv, BarShowsTabs, Open

(* The last one leaves, and a new one is the only one. *)
LEMMA ReplaceKeeps ==
    ASSUME BarInv, NEW t, Replace(t), UNCHANGED drag
    PROVE  BarInv' /\ Open' = {tabSeq + 1} /\ active' \in Open'
<1> DEFINE n == tabSeq + 1
<1>1. n \in Tabs /\ tabSeq \in Nat /\ n \in 1..n /\ n \notin 1..tabSeq /\ 1..tabSeq \subseteq 1..n
  BY TabBounds DEF BarInv, Replace, Tabs
<1>2. bar \in Seq(1..n) /\ IsInjective(bar) /\ n \notin Range(bar)
  BY <1>1, SeqMonotonic DEF BarInv, BarShowsTabs, Range
<1>3. tabs' = <<n>> /\ bar' = Append(RemoveFirst(bar, t), n) /\ tabSeq' = n /\ active' = n
  BY DEF Replace
<1> HIDE DEF n
<1>4. /\ RemoveFirst(bar, t) \in Seq(1..n) /\ IsInjective(RemoveFirst(bar, t))
      /\ n \notin Range(RemoveFirst(bar, t))
  BY <1>2, RemoveFirstKeeps
<1>5. bar' \in Seq(1..n) /\ IsInjective(bar') /\ n \in Range(bar')
  BY <1>1, <1>3, <1>4, AppendKeeps
<1>6. tabs' \in Seq(1..n) /\ IsInjective(tabs') /\ Range(tabs') = {n} /\ Follows(tabs', bar')
  BY <1>1, <1>3 DEF IsInjective, Range, Follows
<1>7. active' \in 1..n /\ drag' \in 1..n \cup {None}
  BY <1>1, <1>3 DEF BarInv
<1> QED BY <1>1, <1>3, <1>5, <1>6, <1>7 DEF BarInv, BarShowsTabs, Open, n

(* The neighbour that is activated is another tab of the array. *)
LEMMA NeighbourOpen ==
    ASSUME BarInv, NEW t \in Open, Len(tabs) > 1
    PROVE  Neighbour(t) \in Open \ {t}
<1> DEFINE i == CHOOSE j \in 1..Len(tabs) : tabs[j] = t
<1>1. Len(tabs) \in Nat /\ DOMAIN tabs = 1..Len(tabs)
  BY DEF BarInv
<1>2. i \in 1..Len(tabs) /\ tabs[i] = t
  BY <1>1 DEF Open, Range
<1> HIDE DEF i
<1>3. CASE i < Len(tabs)
  <2>1. i + 1 \in DOMAIN tabs /\ tabs[i+1] # t
    BY <1>1, <1>2, <1>3 DEF BarInv, IsInjective
  <2>2. Neighbour(t) = tabs[i+1]
    BY <1>3 DEF Neighbour, i
  <2> QED BY <2>1, <2>2 DEF Open, Range
<1>4. CASE ~(i < Len(tabs))
  <2>1. i - 1 \in DOMAIN tabs /\ tabs[i-1] # t
    BY <1>1, <1>2, <1>4 DEF BarInv, IsInjective
  <2>2. Neighbour(t) = tabs[i-1]
    BY <1>4 DEF Neighbour, i
  <2> QED BY <2>1, <2>2 DEF Open, Range
<1> QED BY <1>3, <1>4

(* A drag moves one button. *)
LEMMA MoveKeeps ==
    ASSUME BarInv, NEW t, NEW i, Move(t, i)
    PROVE  BarInv' /\ Open' = Open /\ Range(bar)' = Range(bar) \cup {t}
<1> DEFINE others == RemoveFirst(bar, t)
<1>1. t \in 1..tabSeq /\ t # None
  BY NoneIsNone, TabBounds DEF BarInv, Move, Range, Tabs
<1>2. /\ others \in Seq(1..tabSeq) /\ IsInjective(others) /\ Range(others) = Range(bar) \ {t}
      /\ i \in 1..Len(others) + 1
  BY RemoveFirstKeeps DEF BarInv, BarShowsTabs, Move
<1> HIDE DEF others
<1>3. /\ InsertAt(others, i, t) \in Seq(1..tabSeq) /\ IsInjective(InsertAt(others, i, t))
      /\ Range(InsertAt(others, i, t)) = Range(bar) \cup {t}
  <2>1. t \notin Range(others) /\ Range(others) \cup {t} = Range(bar) \cup {t}
    BY <1>2
  <2> HIDE DEF others
  <2> DEFINE S == 1..tabSeq
  <2>2. others \in Seq(S) /\ IsInjective(others) /\ t \in S /\ i \in 1..Len(others)+1
    BY <1>1, <1>2
  <2> HIDE DEF S
  <2>3. /\ InsertAt(others, i, t) \in Seq(S) /\ IsInjective(InsertAt(others, i, t))
        /\ Range(InsertAt(others, i, t)) = Range(others) \cup {t}
    BY <2>1, <2>2, InsertAtKeeps
  <2> QED BY <2>1, <2>3 DEF S
<1>4. bar' = InsertAt(others, i, t) /\ drag' = t /\ UNCHANGED <<tabSeq, tabs, active>>
  BY DEF Move, others
<1> QED BY <1>1, <1>3, <1>4 DEF BarInv, BarShowsTabs, Open

(* The array takes the order of the bar. *)
LEMMA ReleaseKeeps ==
    ASSUME BarInv, Release
    PROVE  BarInv' /\ Open' = Open /\ bar' = bar
<1>1. PICK q \in [DOMAIN tabs -> Open] : Range(q) = Open /\ Follows(q, bar) /\ tabs' = q
  BY DEF Release
<1>2. q \in Seq(1..tabSeq)
  <2>1. DOMAIN tabs = 1..Len(tabs) /\ Len(tabs) \in Nat
    BY DEF BarInv
  <2>2. q \in [1..Len(tabs) -> 1..tabSeq]
    BY <1>1, <2>1, BarElements
  <2> QED BY <2>1, <2>2, SeqDef
<1>3. IsInjective(q)
  <2> SUFFICES ASSUME NEW i \in DOMAIN q, NEW j \in DOMAIN q, i < j PROVE q[i] # q[j]
    BY <1>2 DEF IsInjective
  <2> QED BY <1>1 DEF Follows, BarInv, BarShowsTabs, IsInjective
<1> QED BY <1>1, <1>2, <1>3 DEF Release, BarInv, BarShowsTabs, Open

------------------------------------------------------------------------------
(* The routes. *)

LinkTypes ==
    /\ tabSeq \in Tabs
    /\ sessionId \in [Tabs -> Sessions \cup {None}]
    /\ bySessionId \in [Sessions -> Tabs \cup {None}]
    /\ caller \in [Sessions -> Tabs \cup {None}]

LinkInv == LinkTypes /\ RoutesAgree

(* At the start there is one tab, and no session. *)
LEMMA LinkInit == Init => LinkInv
<1>1. 1 \in Tabs
  BY TabBounds DEF Tabs
<1> QED BY <1>1 DEF Init, LinkInv, LinkTypes, RoutesAgree

(* Steps that touch neither map, but may make a session for a tab. *)
LEMMA CallerKnown ==
    ASSUME LinkInv, tabSeq' \in Tabs, UNCHANGED <<linkVars, answered>>,
           \/ UNCHANGED caller
           \/ \E t \in Tabs, s \in Sessions :
                 caller[s] = None /\ caller' = [caller EXCEPT ![s] = t]
    PROVE  LinkInv'
<1> USE DEF LinkInv, linkVars
<1>1. LinkTypes'
  BY DEF LinkTypes
<1>2. \A s \in Sessions : bySessionId[s] # None => caller'[s] = caller[s]
  BY NoneIsNone DEF LinkTypes, RoutesAgree
<1>3. RoutesAgree'
  BY <1>2 DEF RoutesAgree
<1> QED BY <1>1, <1>3

(* A tab lets go of its session: by dispose, or at the session's last status. *)
LEMMA LetGo ==
    ASSUME LinkInv, NEW t \in Tabs, tabSeq' \in Tabs, UNCHANGED <<caller, answered>>,
           bySessionId' = [s \in Sessions |-> IF s = sessionId[t] THEN None ELSE bySessionId[s]],
           sessionId' = [sessionId EXCEPT ![t] = None]
    PROVE  LinkInv'
<1> USE DEF LinkInv
<1>1. LinkTypes'
  BY DEF LinkTypes
<1>2. \A u \in Tabs : sessionId'[u] # None => u # t /\ sessionId'[u] = sessionId[u]
  BY DEF LinkTypes
<1>3. \A u \in Tabs : sessionId'[u] # None => sessionId[u] \in Sessions /\ sessionId[u] # sessionId[t]
  BY <1>2 DEF LinkTypes, RoutesAgree
<1>4. \A u \in Tabs : sessionId'[u] # None => bySessionId'[sessionId'[u]] = u
  BY <1>2, <1>3 DEF RoutesAgree
<1>5. \A s \in Sessions : bySessionId'[s] # None => bySessionId'[s] = bySessionId[s]
  OBVIOUS
<1> QED BY <1>1, <1>4, <1>5 DEF RoutesAgree

(* The answer to ssh_connect: no tab can have that session yet. *)
LEMMA ResolveKeeps ==
    ASSUME LinkInv, NEW s \in Sessions, Resolve(s)
    PROVE  LinkInv'
<1> USE DEF LinkInv, Resolve, barVars
<1> DEFINE t == caller[s]
<1>1. t \in Tabs /\ bySessionId[s] = None
  BY DEF LinkTypes, RoutesAgree
<1>2. \A u \in Tabs : sessionId[u] # s
  BY <1>1, NoneIsNone DEF RoutesAgree
<1>3. LinkTypes'
  BY <1>1 DEF LinkTypes
<1>4. \A u \in Tabs : sessionId'[u] # None => bySessionId'[sessionId'[u]] = u
  <2> SUFFICES ASSUME NEW u \in Tabs, sessionId'[u] # None
               PROVE  bySessionId'[sessionId'[u]] = u
    OBVIOUS
  <2>1. CASE u = t
    BY <1>1, <2>1 DEF LinkTypes
  <2>2. CASE u # t
    <3>1. sessionId'[u] = sessionId[u] /\ sessionId[u] \in Sessions \ {s}
      BY <1>1, <1>2, <2>2 DEF LinkTypes
    <3> QED BY <3>1 DEF LinkTypes, RoutesAgree
  <2> QED BY <2>1, <2>2
<1>5. \A r \in Sessions : bySessionId'[r] # None => bySessionId'[r] = caller'[r] /\ r \in answered'
  BY DEF LinkTypes, RoutesAgree
<1> QED BY <1>3, <1>4, <1>5 DEF RoutesAgree

(* A status event, for the tab its session is registered for. *)
LEMMA HandleKeeps ==
    ASSUME LinkInv, NEW s \in Sessions, Handle(s)
    PROVE  LinkInv'
<1>1. tabSeq' = tabSeq /\ UNCHANGED <<caller, answered>>
  BY DEF Handle, barVars
<1>2. CASE UNCHANGED linkVars
  BY <1>1, <1>2, CallerKnown DEF LinkInv, LinkTypes
<1>3. CASE bySessionId[s] # None /\ SetOver(bySessionId[s])
  <2>1. bySessionId[s] \in Tabs
    BY <1>3 DEF LinkInv, LinkTypes
  <2> QED BY <1>1, <1>3, <2>1, LetGo DEF SetOver, LinkInv, LinkTypes
<1> QED BY <1>2, <1>3 DEF Handle, SetReady

(* Every action keeps the invariant. *)
LEMMA LinkStep == LinkInv /\ [Next]_vars => LinkInv'
<1> SUFFICES ASSUME LinkInv, [Next]_vars PROVE LinkInv'
  OBVIOUS
<1>0. tabSeq \in Tabs /\ (tabSeq < MaxTabs => tabSeq + 1 \in Tabs)
  BY TabBounds DEF LinkInv, LinkTypes, Tabs
<1>1. CASE UNCHANGED vars
  BY <1>0, <1>1, CallerKnown DEF vars, barVars, backVars
<1>2. CASE NewTab \/ OpenRecent
  BY <1>0, <1>2, CallerKnown DEF NewTab, OpenRecent, AppendTab, barVars, backVars
<1>3. CASE Release
  BY <1>0, <1>3, CallerKnown DEF Release, backVars
<1>4. ASSUME NEW t \in Tabs,
             \/ Activate(t) \/ Ask(t) \/ Forgo(t) \/ Edit(t)
             \/ \E i \in 1..MaxTabs : Move(t, i)
      PROVE  LinkInv'
  BY <1>0, <1>4, CallerKnown DEF Activate, Ask, Forgo, Edit, Move, barVars, backVars
<1>5. ASSUME NEW t \in Tabs, CloseTab(t) PROVE LinkInv'
  <2>1. tabSeq' \in Tabs
    BY <1>0, <1>5 DEF CloseTab, Replace
  <2> QED BY <1>5, <2>1, LetGo DEF CloseTab, Dispose
<1>6. ASSUME NEW t \in Tabs, NEW s \in Sessions,
             Duplicate(t, s) \/ Fire(t, s) \/ Reconnect(t, s)
      PROVE  LinkInv'
  <2>1. PICK u \in Tabs : Connect(u, s)
    BY <1>0, <1>6 DEF Duplicate, Fire, Reconnect, AppendTab
  <2>2. tabSeq' \in Tabs /\ UNCHANGED <<linkVars, answered>>
    BY <1>0, <1>6 DEF Duplicate, Fire, Reconnect, AppendTab, barVars
  <2> QED BY <2>1, <2>2, CallerKnown DEF Connect
<1>7. ASSUME NEW s \in Sessions, ShowPrompt(s) \/ Ready(s) \/ End(s) PROVE LinkInv'
  BY <1>0, <1>7, CallerKnown DEF ShowPrompt, Ready, End, barVars, backVars
<1> QED BY <1>1, <1>2, <1>3, <1>4, <1>5, <1>6, <1>7, ResolveKeeps, HandleKeeps DEF Next

(* What only holds of tabs there have been: sessions are made for them, and only
   they wait for a secret or show anything but the form. *)
MadeInv ==
    /\ caller \in [Sessions -> 1..tabSeq \cup {None}]
    /\ \A t \in Tabs : t > tabSeq => state[t] = "form" /\ asked[t] = 0

(* The tab a session is registered for has been made. *)
LEMMA RegisteredMade ==
    ASSUME LinkInv, MadeInv, NEW s \in Sessions, bySessionId[s] # None
    PROVE  bySessionId[s] \in 1..tabSeq /\ bySessionId[s] = caller[s] /\ s \in answered
  BY DEF LinkInv, RoutesAgree, MadeInv

(* Every action keeps array and bar. *)
LEMMA BarStep == BarInv /\ LinkInv /\ MadeInv /\ [Next]_vars => BarInv'
<1> SUFFICES ASSUME BarInv, LinkInv, MadeInv, [Next]_vars PROVE BarInv'
  OBVIOUS
<1>1. CASE UNCHANGED barVars
  BY <1>1 DEF barVars, BarInv, BarShowsTabs, Open
<1>2. CASE NewTab \/ OpenRecent \/ Release
  <2>1. CASE AppendTab /\ UNCHANGED drag
    BY <2>1, AppendTabKeeps
  <2> QED BY <1>1, <1>2, <2>1, ReleaseKeeps DEF NewTab, OpenRecent
<1>3. ASSUME NEW t \in Tabs, Activate(t) PROVE BarInv'
  <2>1. active' \in 1..tabSeq
    BY <1>3, BarElements DEF Activate
  <2> QED BY <1>3, <2>1 DEF Activate, BarInv, BarShowsTabs, Open
<1>4. ASSUME NEW t \in Tabs, CloseTab(t) PROVE BarInv'
  <2>1. CASE active # t /\ Withdraw(t) /\ UNCHANGED <<tabSeq, active>>
    <3>1. active' \in 1..tabSeq
      BY <2>1 DEF BarInv
    <3> QED BY <1>4, <2>1, <3>1, WithdrawKeeps DEF CloseTab
  <2>2. CASE Len(tabs) > 1 /\ Withdraw(t) /\ active' = Neighbour(t) /\ UNCHANGED tabSeq
    <3>1. Neighbour(t) \in Open
      BY <1>4, <2>2, NeighbourOpen DEF CloseTab
    <3>2. Neighbour(t) \in 1..tabSeq
      BY <3>1, BarElements
    <3> QED BY <1>4, <2>2, <3>2, WithdrawKeeps DEF CloseTab
  <2>3. CASE Replace(t)
    BY <1>4, <2>3, ReplaceKeeps DEF CloseTab
  <2> QED BY <1>4, <2>1, <2>2, <2>3 DEF CloseTab
<1>5. ASSUME NEW t \in Tabs, Ask(t) \/ Forgo(t) \/ Edit(t) PROVE BarInv'
  BY <1>1, <1>5 DEF Ask, Forgo, Edit
<1>6. ASSUME NEW t \in Tabs, NEW i \in 1..MaxTabs, Move(t, i) PROVE BarInv'
  BY <1>6, MoveKeeps
<1>7. ASSUME NEW t \in Tabs, NEW s \in Sessions,
             Duplicate(t, s) \/ Fire(t, s) \/ Reconnect(t, s)
      PROVE  BarInv'
  BY <1>1, <1>7, AppendTabKeeps DEF Duplicate, Fire, Reconnect
<1>8. ASSUME NEW s \in Sessions, Resolve(s) \/ Handle(s) \/ Ready(s) \/ End(s) PROVE BarInv'
  BY <1>1, <1>8 DEF Resolve, Handle, Ready, End
<1>9. ASSUME NEW s \in Sessions, ShowPrompt(s) PROVE BarInv'
  <2>1. active' \in 1..tabSeq
    BY <1>9, RegisteredMade DEF ShowPrompt
  <2> QED BY <1>9, <2>1 DEF ShowPrompt, BarInv, BarShowsTabs, Open
<1>10. CASE UNCHANGED vars
  BY <1>1, <1>10 DEF vars
<1> QED BY <1>2, <1>3, <1>4, <1>5, <1>6, <1>7, <1>8, <1>9, <1>10 DEF Next

------------------------------------------------------------------------------
(* The types of the fields. *)

FieldTypes ==
    /\ state \in [Tabs -> {"form", "connecting", "connected", "disconnected"}]
    /\ sessionId \in [Tabs -> Sessions \cup {None}]
    /\ used \subseteq Tabs /\ wasConnected \subseteq Tabs
    /\ asked \in [Tabs -> Nat]
    /\ bySessionId \in [Sessions -> Tabs \cup {None}]
    /\ caller \in [Sessions -> Tabs \cup {None}]
    /\ backend \in [Sessions -> {"none", "connecting", "ready", "over"}]
    /\ answered \subseteq Sessions /\ told \subseteq Sessions /\ early \subseteq Sessions
    /\ wire \in [Sessions -> Seq({"ready", "over"})]

(* With what holds of array and bar they make the type invariant. *)
LEMMA TypesSplit == BarInv /\ FieldTypes => TypeOK
<1> SUFFICES ASSUME BarInv, FieldTypes PROVE TypeOK
  OBVIOUS
<1>1. 1..tabSeq \subseteq Tabs
  BY TabBounds DEF BarInv, Tabs
<1>2. tabs \in Seq(Tabs) /\ bar \in Seq(Tabs)
  BY <1>1, SeqMonotonic DEF BarInv
<1> QED BY <1>1, <1>2 DEF BarInv, FieldTypes, TypeOK

(* Apart from its bound, a lookup counts up for its tab. *)
LEMMA AskForCounts == ASSUME NEW t, AskFor(t) PROVE asked' = [asked EXCEPT ![t] = @ + 1]
  BY Zenon DEF AskFor

(* Every action keeps them. *)
LEMMA FieldTypesStep == BarInv /\ LinkInv /\ FieldTypes /\ [Next]_vars => FieldTypes'
<1> SUFFICES ASSUME BarInv, LinkInv, FieldTypes, [Next]_vars PROVE FieldTypes'
  OBVIOUS
<1> USE DEF FieldTypes
<1>1. CASE UNCHANGED <<formVars, linkVars, backVars>>
  BY <1>1 DEF formVars, linkVars, backVars
<1>2. active \in Tabs /\ (tabSeq < MaxTabs => tabSeq + 1 \in Tabs)
  BY TabBounds DEF BarInv, Tabs
<1>3. ASSUME NEW t \in Tabs, AskFor(t), UNCHANGED <<state, used, wasConnected, linkVars, backVars>>
      PROVE  FieldTypes'
  <2>1. asked' \in [Tabs -> Nat]
    <3>1. asked' = [asked EXCEPT ![t] = @ + 1]
      BY <1>3, AskForCounts
    <3> QED BY <3>1
  <2> QED BY <1>3, <2>1 DEF linkVars, backVars
<1>4. ASSUME NEW t \in Tabs, NEW s \in Sessions, Connect(t, s),
             UNCHANGED <<wasConnected, linkVars, answered, told, early, wire>>,
             asked' \in [Tabs -> Nat]
      PROVE  FieldTypes'
  BY <1>4 DEF Connect, linkVars
<1>5. CASE NewTab \/ OpenRecent \/ Release
  BY <1>1, <1>2, <1>3, <1>5 DEF NewTab, OpenRecent, Release, AppendTab
<1>6. ASSUME NEW t \in Tabs, CloseTab(t) PROVE FieldTypes'
  BY <1>6 DEF CloseTab, Dispose, formVars
<1>7. ASSUME NEW t \in Tabs,
             Activate(t) \/ Ask(t) \/ \E i \in 1..MaxTabs : Move(t, i)
      PROVE  FieldTypes'
  BY <1>1, <1>3, <1>7 DEF Activate, Ask, Move
<1>8. ASSUME NEW t \in Tabs, Forgo(t) \/ Edit(t) PROVE FieldTypes'
  <2>1. CASE Forgo(t)
    BY <2>1 DEF Forgo, linkVars, backVars
  <2>2. CASE Edit(t)
    BY <2>2 DEF Edit, linkVars, backVars
  <2> QED BY <1>8, <2>1, <2>2
<1>9. ASSUME NEW t \in Tabs, NEW s \in Sessions,
             Duplicate(t, s) \/ Fire(t, s) \/ Reconnect(t, s)
      PROVE  FieldTypes'
  <2>1. PICK u \in Tabs : Connect(u, s)
    BY <1>2, <1>9 DEF Duplicate, Fire, Reconnect, AppendTab
  <2>2. UNCHANGED <<wasConnected, linkVars, answered, told, early, wire>>
    BY <1>9 DEF Duplicate, Fire, Reconnect
  <2>3. asked' \in [Tabs -> Nat]
    <3>1. CASE UNCHANGED asked
      BY <3>1
    <3>2. CASE asked[t] > 0 /\ asked' = [asked EXCEPT ![t] = @ - 1]
      BY <3>2
    <3> QED BY <1>9, <3>1, <3>2 DEF Duplicate, Fire, Reconnect
  <2> QED BY <1>4, <2>1, <2>2, <2>3
<1>10. ASSUME NEW s \in Sessions, Resolve(s) PROVE FieldTypes'
  <2>1. caller[s] \in Tabs
    BY <1>10 DEF Resolve
  <2> QED BY <1>10, <2>1 DEF Resolve, formVars
<1>11. ASSUME NEW s \in Sessions, Handle(s) PROVE FieldTypes'
  <2>1. wire' \in [Sessions -> Seq({"ready", "over"})] /\ early' \subseteq Sessions
    BY <1>11 DEF Handle
  <2>2. CASE UNCHANGED <<state, wasConnected, linkVars>>
    BY <1>11, <2>1, <2>2 DEF Handle, linkVars
  <2>3. CASE bySessionId[s] # None /\ (SetReady(bySessionId[s]) \/ SetOver(bySessionId[s]))
    <3>1. bySessionId[s] \in Tabs
      BY <2>3
    <3>2. CASE SetReady(bySessionId[s])
      BY <1>11, <2>1, <3>1, <3>2 DEF Handle, SetReady, linkVars
    <3>3. CASE SetOver(bySessionId[s])
      BY <1>11, <2>1, <3>1, <3>3 DEF Handle, SetOver
    <3> QED BY <2>3, <3>2, <3>3
  <2> QED BY <1>11, <2>2, <2>3 DEF Handle
<1>12. ASSUME NEW s \in Sessions, ShowPrompt(s) PROVE FieldTypes'
  BY <1>1, <1>12 DEF ShowPrompt
<1>13. ASSUME NEW s \in Sessions, Ready(s) \/ End(s) PROVE FieldTypes'
  <2>1. wire' \in [Sessions -> Seq({"ready", "over"})] /\ backend' \in [Sessions -> {"none", "connecting", "ready", "over"}]
    <3>1. CASE Ready(s)
      BY <3>1 DEF Ready
    <3>2. CASE End(s)
      BY <3>2 DEF End
    <3> QED BY <1>13, <3>1, <3>2
  <2>2. UNCHANGED <<formVars, linkVars, caller, answered, told, early>>
    BY <1>13 DEF Ready, End
  <2> QED BY <2>1, <2>2 DEF formVars, linkVars
<1>14. CASE UNCHANGED vars
  BY <1>1, <1>14 DEF vars
<1> QED BY <1>5, <1>6, <1>7, <1>8, <1>9, <1>10, <1>11, <1>12, <1>13, <1>14 DEF Next

(* Every action keeps what holds of tabs that have not been made yet. *)
LEMMA MadeStep == BarInv /\ LinkInv /\ FieldTypes /\ MadeInv /\ [Next]_vars => MadeInv'
<1> SUFFICES ASSUME BarInv, LinkInv, FieldTypes, MadeInv, [Next]_vars PROVE MadeInv'
  OBVIOUS
<1> DEFINE n == tabSeq + 1
<1>0. /\ tabSeq \in Nat /\ active \in 1..tabSeq /\ 1..tabSeq \subseteq Tabs
      /\ 1..tabSeq \subseteq 1..n /\ n \in 1..n /\ \A t \in Tabs : t > n => t > tabSeq
  BY TabBounds DEF BarInv, Tabs
<1> HIDE DEF n
<1>1. ASSUME UNCHANGED <<state, asked, caller>>, tabSeq' = tabSeq \/ tabSeq' = n PROVE MadeInv'
  BY <1>0, <1>1 DEF MadeInv
<1>2. ASSUME NEW t \in Tabs, t \in 1..tabSeq', AskFor(t), UNCHANGED <<state, caller>>,
             tabSeq' = tabSeq \/ tabSeq' = n
      PROVE  MadeInv'
  BY <1>0, <1>2, AskForCounts DEF MadeInv, FieldTypes
<1>3. ASSUME NEW t \in Tabs, t \in 1..tabSeq', NEW s \in Sessions, Connect(t, s),
             UNCHANGED asked \/ asked' = [asked EXCEPT ![t] = @ - 1],
             tabSeq' = tabSeq \/ tabSeq' = n
      PROVE  MadeInv'
  BY <1>0, <1>3 DEF MadeInv, Connect, FieldTypes
<1>4. CASE NewTab \/ Release
  BY <1>1, <1>4 DEF NewTab, Release, AppendTab, formVars, backVars, n
<1>5. CASE OpenRecent
  <2>1. CASE AskFor(active) /\ UNCHANGED <<barVars, state, backVars>>
    BY <1>0, <1>2, <2>1 DEF barVars, backVars
  <2>2. CASE AppendTab /\ AskFor(tabSeq + 1) /\ UNCHANGED <<state, backVars>>
    <3>1. n \in Tabs /\ tabSeq' = n
      BY <2>2, TabBounds DEF BarInv, AppendTab, Tabs, n
    <3> QED BY <1>0, <1>2, <2>2, <3>1 DEF backVars, n
  <2> QED BY <1>5, <2>1, <2>2 DEF OpenRecent
<1>6. ASSUME NEW t \in Tabs, Activate(t) \/ CloseTab(t) \/ \E i \in 1..MaxTabs : Move(t, i)
      PROVE  MadeInv'
  BY <1>1, <1>6 DEF Activate, CloseTab, Replace, Move, formVars, backVars, n
<1>7. ASSUME NEW t \in Tabs, Ask(t) PROVE MadeInv'
  BY <1>0, <1>2, <1>7 DEF Ask, barVars, backVars
<1>8. ASSUME NEW t \in Tabs, Forgo(t) PROVE MadeInv'
  <2>1. \A u \in Tabs : u > tabSeq => u # t
    BY <1>8 DEF Forgo, MadeInv, FieldTypes
  <2> QED BY <1>8, <2>1 DEF Forgo, MadeInv, FieldTypes, barVars, backVars
<1>9. ASSUME NEW t \in Tabs, Edit(t) PROVE MadeInv'
  BY <1>0, <1>9 DEF Edit, MadeInv, FieldTypes, barVars, backVars
<1>10. ASSUME NEW t \in Tabs, NEW s \in Sessions, Duplicate(t, s) PROVE MadeInv'
  <2>1. n \in Tabs /\ tabSeq' = n
    BY <1>10, TabBounds DEF Duplicate, BarInv, AppendTab, Tabs, n
  <2> QED BY <1>0, <1>3, <1>10, <2>1 DEF Duplicate, n
<1>11. ASSUME NEW t \in Tabs, NEW s \in Sessions, Fire(t, s) PROVE MadeInv'
  <2>1. t \in 1..tabSeq
    BY <1>0, <1>11 DEF Fire, MadeInv, FieldTypes, Tabs
  <2> QED BY <1>3, <1>11, <2>1 DEF Fire, barVars
<1>12. ASSUME NEW t \in Tabs, NEW s \in Sessions, Reconnect(t, s) PROVE MadeInv'
  BY <1>0, <1>3, <1>12 DEF Reconnect, barVars
<1>13. ASSUME NEW s \in Sessions, Handle(s) PROVE MadeInv'
  <2>1. CASE UNCHANGED state
    BY <1>1, <1>13, <2>1 DEF Handle, barVars
  <2>2. CASE bySessionId[s] # None /\ (SetReady(bySessionId[s]) \/ SetOver(bySessionId[s]))
    BY <1>0, <1>13, <2>2, RegisteredMade DEF Handle, SetReady, SetOver, MadeInv, FieldTypes, barVars
  <2> QED BY <1>13, <2>1, <2>2 DEF Handle
<1>14. ASSUME NEW s \in Sessions, Resolve(s) \/ ShowPrompt(s) \/ Ready(s) \/ End(s) PROVE MadeInv'
  BY <1>1, <1>14 DEF Resolve, ShowPrompt, Ready, End, barVars, formVars, backVars
<1>15. CASE UNCHANGED vars
  BY <1>1, <1>15 DEF vars, barVars, formVars, backVars
<1> QED BY <1>4, <1>5, <1>6, <1>7, <1>8, <1>9, <1>10, <1>11, <1>12, <1>13, <1>14, <1>15 DEF Next

------------------------------------------------------------------------------
(* Answers and reports. *)

(* Only what was answered is ended, and it is not routed any more; a session that
   has not been answered will still report, or has reported too early. *)
AnswerInv ==
    /\ told \subseteq answered
    /\ \A s \in answered : caller[s] # None
    /\ \A s \in told : bySessionId[s] = None
    /\ \A s \in Sessions :
          caller[s] # None /\ s \notin answered =>
             s \in early \/ backend[s] = "connecting" \/ wire[s] # << >>

(* Every action keeps that. *)
LEMMA AnswerStep == LinkInv /\ FieldTypes /\ AnswerInv /\ [Next]_vars => AnswerInv'
<1> SUFFICES ASSUME LinkInv, FieldTypes, AnswerInv, [Next]_vars PROVE AnswerInv'
  OBVIOUS
<1>1. ASSUME UNCHANGED <<bySessionId, backVars>> PROVE AnswerInv'
  BY <1>1 DEF AnswerInv, backVars
<1>2. CASE NewTab \/ OpenRecent \/ Release
  BY <1>1, <1>2 DEF NewTab, OpenRecent, Release, linkVars
<1>3. ASSUME NEW t \in Tabs,
             \/ Activate(t) \/ Ask(t) \/ Forgo(t) \/ Edit(t)
             \/ \E i \in 1..MaxTabs : Move(t, i)
      PROVE  AnswerInv'
  BY <1>1, <1>3 DEF Activate, Ask, Forgo, Edit, Move, linkVars
<1>4. ASSUME NEW t \in Tabs, CloseTab(t) PROVE AnswerInv'
  <2>1. Dispose(t) /\ UNCHANGED <<caller, backend, answered, early, wire>>
    BY <1>4 DEF CloseTab
  <2>2. \A s \in told' \ told : s = sessionId[t] /\ s \in Sessions /\ s \in answered
    BY <2>1, NoneIsNone DEF Dispose, LinkInv, RoutesAgree, FieldTypes
  <2>3. \A s \in Sessions : bySessionId'[s] \in {bySessionId[s], None} /\ (s = sessionId[t] => bySessionId'[s] = None)
    BY <2>1 DEF Dispose
  <2> QED BY <2>1, <2>2, <2>3 DEF AnswerInv, FieldTypes
<1>5. ASSUME NEW t \in Tabs, NEW s \in Sessions,
             Duplicate(t, s) \/ Fire(t, s) \/ Reconnect(t, s)
      PROVE  AnswerInv'
  <2>1. PICK u \in Nat : Connect(u, s)
    BY <1>5, TabBounds DEF Duplicate, Fire, Reconnect, LinkInv, LinkTypes, Tabs
  <2>2. UNCHANGED <<bySessionId, answered, told, early, wire>>
    BY <1>5 DEF Duplicate, Fire, Reconnect, linkVars
  <2>3. /\ s \notin answered /\ backend'[s] = "connecting"
        /\ \A r \in Sessions : r # s => caller'[r] = caller[r] /\ backend'[r] = backend[r]
    BY <2>1 DEF Connect, AnswerInv, FieldTypes
  <2> QED BY <2>2, <2>3 DEF AnswerInv, FieldTypes
<1>6. ASSUME NEW s \in Sessions, Resolve(s) PROVE AnswerInv'
  <2>1. \A r \in Sessions : r # s => bySessionId'[r] = bySessionId[r]
    BY <1>6 DEF Resolve, FieldTypes
  <2>2. s \notin told
    BY <1>6 DEF Resolve, AnswerInv
  <2> QED BY <1>6, <2>1, <2>2 DEF Resolve, AnswerInv, FieldTypes
<1>7. ASSUME NEW s \in Sessions, Handle(s) PROVE AnswerInv'
  <2>1. /\ UNCHANGED <<caller, backend, answered, told>> /\ early \subseteq early'
        /\ \A r \in Sessions : r # s => wire'[r] = wire[r]
        /\ s \in answered \/ s \in early'
    BY <1>7 DEF Handle, FieldTypes
  <2>2. \A r \in Sessions : bySessionId'[r] \in {bySessionId[r], None}
    BY <1>7 DEF Handle, SetReady, SetOver, linkVars
  <2> QED BY <2>1, <2>2 DEF AnswerInv, FieldTypes
<1>8. ASSUME NEW s \in Sessions, ShowPrompt(s) PROVE AnswerInv'
  BY <1>1, <1>8 DEF ShowPrompt, linkVars
<1>9. ASSUME NEW s \in Sessions, Ready(s) \/ End(s) PROVE AnswerInv'
  <2>1. /\ UNCHANGED <<bySessionId, caller, answered, told, early>> /\ wire'[s] # << >>
        /\ \A r \in Sessions : r # s => wire'[r] = wire[r] /\ backend'[r] = backend[r]
    BY <1>9 DEF Ready, End, FieldTypes, linkVars
  <2> QED BY <2>1 DEF AnswerInv
<1>10. CASE UNCHANGED vars
  BY <1>1, <1>10 DEF vars, linkVars
<1> QED BY <1>2, <1>3, <1>4, <1>5, <1>6, <1>7, <1>8, <1>9, <1>10 DEF Next

------------------------------------------------------------------------------
(* Waiting for something. *)

(* s is what t waits for. *)
Awaits(t, s) == caller[s] = t /\ (s \notin answered \/ s \in early \/ ReportsTo(s, t))

(* Where the sessions are left alone, no open tab may start to show "connecting". *)
LEMMA WaitsOn ==
    ASSUME WaitsForSomething,
           \A t \in Open' : state'[t] = "connecting" => t \in Open /\ state[t] = "connecting",
           \A t \in Open', s \in Sessions : state'[t] = "connecting" /\ Awaits(t, s) => Awaits(t, s)'
    PROVE  WaitsForSomething'
  BY DEF WaitsForSomething, Awaits

(* The tab that connects waits for the answer. *)
LEMMA ConnectWaits ==
    ASSUME FieldTypes, AnswerInv, WaitsForSomething, NEW t \in Tabs, NEW s \in Sessions,
           Connect(t, s), t # None, Open' \subseteq Open \cup {t},
           \A u \in Open : u \in Tabs,
           UNCHANGED <<bySessionId, answered, early, wire>>
    PROVE  WaitsForSomething'
<1>1. s \notin answered /\ caller'[s] = t
  BY DEF Connect, AnswerInv, FieldTypes
<1>2. \A r \in Sessions : r # s => caller'[r] = caller[r] /\ backend'[r] = backend[r]
  BY DEF Connect, FieldTypes
<1>3. \A u \in Tabs : u # t => state'[u] = state[u]
  BY DEF Connect, FieldTypes
<1> SUFFICES ASSUME NEW u \in Open', state'[u] = "connecting"
             PROVE  \E r \in Sessions : Awaits(u, r)'
  BY DEF WaitsForSomething, Awaits
<1>4. CASE u = t
  BY <1>1, <1>4 DEF Awaits
<1>5. CASE u # t
  <2>1. u \in Open /\ state[u] = "connecting"
    BY <1>3, <1>5
  <2>2. PICK r \in Sessions : Awaits(u, r)
    BY <2>1 DEF WaitsForSomething, Awaits
  <2>3. r # s
    BY <2>1, <2>2, NoneIsNone DEF Awaits, Connect
  <2> QED BY <1>2, <2>2, <2>3 DEF Awaits, ReportsTo
<1> QED BY <1>4, <1>5

(* A tab lets go of its session: what other tabs wait for is routed to them. *)
LEMMA OthersWait ==
    ASSUME LinkInv, NEW t \in Tabs, NEW u \in Tabs, u # t, NEW r \in Sessions,
           Awaits(u, r),
           bySessionId' = [s \in Sessions |-> IF s = sessionId[t] THEN None ELSE bySessionId[s]],
           UNCHANGED <<caller, answered>>, early \subseteq early',
           r = sessionId[t] \/ bySessionId[r] = None \/ bySessionId[r] = t
             \/ (wire'[r] = wire[r] /\ backend'[r] = backend[r])
    PROVE  Awaits(u, r)'
<1>1. bySessionId[r] # None => bySessionId[r] = u
  BY DEF LinkInv, RoutesAgree, Awaits
<1>2. r = sessionId[t] => bySessionId[r] = t
  BY NoneIsNone DEF LinkInv, RoutesAgree
<1> QED BY <1>1, <1>2, NoneIsNone DEF Awaits, ReportsTo

(* Every action leaves every open tab that connects with something to wait for. *)
LEMMA WaitsStep ==
    BarInv /\ BarInv' /\ LinkInv /\ FieldTypes /\ MadeInv /\ AnswerInv
      /\ WaitsForSomething /\ [Next]_vars => WaitsForSomething'
<1> SUFFICES ASSUME BarInv, BarInv', LinkInv, FieldTypes, MadeInv, AnswerInv,
                    WaitsForSomething, [Next]_vars
             PROVE  WaitsForSomething'
  OBVIOUS
<1>0. /\ Open \subseteq Tabs /\ \A t \in Tabs : t # None
      /\ tabSeq \in Nat /\ active \in Tabs
      /\ (tabSeq < MaxTabs => tabSeq + 1 \in Tabs /\ state[tabSeq + 1] = "form")
  BY BarElements, NoneIsNone, TabBounds DEF BarInv, MadeInv, Tabs
<1>1. ASSUME UNCHANGED <<state, bySessionId, backVars>>,
             Open' = Open \/ (tabSeq < MaxTabs /\ Open' = Open \cup {tabSeq + 1})
      PROVE  WaitsForSomething'
  BY <1>0, <1>1, WaitsOn DEF Awaits, ReportsTo, backVars
<1>2. CASE NewTab \/ OpenRecent
  <2>1. CASE AppendTab /\ UNCHANGED <<drag, state, bySessionId, backVars>>
    BY <1>1, <2>1, AppendTabKeeps DEF AppendTab
  <2>2. CASE UNCHANGED <<barVars, state, bySessionId, backVars>>
    BY <1>1, <2>2 DEF barVars, Open
  <2> QED BY <1>2, <2>1, <2>2 DEF NewTab, OpenRecent, formVars, linkVars
<1>3. CASE Release
  BY <1>1, <1>3, ReleaseKeeps DEF Release, formVars, linkVars
<1>4. ASSUME NEW t \in Tabs, Activate(t) \/ Ask(t) \/ Forgo(t) \/ \E i \in 1..MaxTabs : Move(t, i)
      PROVE  WaitsForSomething'
  BY <1>1, <1>4 DEF Activate, Ask, Forgo, Move, barVars, formVars, linkVars, Open
<1>5. ASSUME NEW t \in Tabs, Edit(t) PROVE WaitsForSomething'
  <2>1. Open' = Open /\ UNCHANGED <<bySessionId, backVars>>
    BY <1>5 DEF Edit, barVars, linkVars, Open
  <2>2. \A u \in Tabs : state'[u] = "connecting" => state[u] = "connecting"
    BY <1>5 DEF Edit, FieldTypes
  <2> QED BY <1>0, <2>1, <2>2, WaitsOn DEF Awaits, ReportsTo, backVars
<1>6. ASSUME NEW t \in Tabs, CloseTab(t) PROVE WaitsForSomething'
  <2>1. /\ UNCHANGED <<state, drag, caller, backend, answered, early, wire>>
        /\ bySessionId' = [s \in Sessions |-> IF s = sessionId[t] THEN None ELSE bySessionId[s]]
    BY <1>6 DEF CloseTab, Dispose, formVars
  <2>2. \A u \in Open' : u # t /\ (u \in Open \/ state[u] = "form")
    <3>1. CASE Withdraw(t) /\ UNCHANGED tabSeq
      BY <2>1, <3>1, WithdrawKeeps DEF BarInv
    <3>2. CASE Replace(t)
      <4>1. Open' = {tabSeq + 1} /\ t \in 1..tabSeq
        BY <1>6, <2>1, <3>2, ReplaceKeeps, BarElements DEF CloseTab
      <4> QED BY <1>0, <3>2, <4>1 DEF Replace
    <3> QED BY <1>6, <3>1, <3>2 DEF CloseTab
  <2>3. \A u \in Open', r \in Sessions : state'[u] = "connecting" /\ Awaits(u, r) => Awaits(u, r)'
    <3> SUFFICES ASSUME NEW u \in Open', NEW r \in Sessions, state'[u] = "connecting", Awaits(u, r)
                 PROVE  Awaits(u, r)'
      OBVIOUS
    <3>1. u \in Tabs /\ u # t
      BY <1>0, <2>1, <2>2
    <3> QED BY <2>1, <3>1, OthersWait
  <2> QED BY <2>1, <2>2, <2>3, WaitsOn
<1>7. ASSUME NEW t \in Tabs, NEW s \in Sessions,
             Duplicate(t, s) \/ Fire(t, s) \/ Reconnect(t, s)
      PROVE  WaitsForSomething'
  <2>1. UNCHANGED <<bySessionId, answered, early, wire>>
    BY <1>7 DEF Duplicate, Fire, Reconnect, linkVars
  <2>2. CASE Duplicate(t, s)
    <3>1. Open' = Open \cup {tabSeq + 1} /\ tabSeq + 1 \in Tabs
      BY <1>0, <2>2, AppendTabKeeps DEF Duplicate, AppendTab
    <3> QED BY <1>0, <2>1, <2>2, <3>1, ConnectWaits DEF Duplicate
  <2>3. CASE Connect(t, s) /\ UNCHANGED barVars
    <3>1. Open' = Open
      BY <2>3 DEF barVars, Open
    <3> QED BY <1>0, <2>1, <2>3, <3>1, ConnectWaits
  <2> QED BY <1>7, <2>2, <2>3 DEF Fire, Reconnect
<1>8. ASSUME NEW s \in Sessions, Resolve(s) PROVE WaitsForSomething'
  <2>1. Open' = Open /\ UNCHANGED <<state, caller, backend, early, wire>> /\ answered' = answered \cup {s}
    BY <1>8 DEF Resolve, barVars, formVars, Open
  <2>2. /\ caller[s] # None /\ s \notin answered /\ bySessionId'[s] = caller[s]
        /\ \A r \in Sessions : r # s => bySessionId'[r] = bySessionId[r]
    BY <1>8 DEF Resolve, FieldTypes
  <2>3. s \in early \/ backend[s] = "connecting" \/ wire[s] # << >>
    BY <2>2 DEF AnswerInv
  <2>4. \A u \in Open, r \in Sessions : Awaits(u, r) => Awaits(u, r)'
    BY <2>1, <2>2, <2>3 DEF Awaits, ReportsTo
  <2> QED BY <2>1, <2>4, WaitsOn
<1>9. ASSUME NEW s \in Sessions, Handle(s) PROVE WaitsForSomething'
  <2> DEFINE t == bySessionId[s]
  <2>1. /\ Open' = Open /\ UNCHANGED <<caller, backend, answered>>
        /\ early' = early \cup ({s} \ answered)
        /\ \A r \in Sessions : r # s => wire'[r] = wire[r]
    BY <1>9 DEF Handle, barVars, FieldTypes, Open
  <2>2. CASE t = None /\ UNCHANGED <<state, linkVars>>
    <3>1. \A u \in Open, r \in Sessions : Awaits(u, r) => Awaits(u, r)'
      BY <1>0, <2>1, <2>2 DEF Awaits, ReportsTo, linkVars
    <3> QED BY <2>1, <2>2, <3>1, WaitsOn
  <2>3. CASE t # None /\ (SetReady(t) \/ SetOver(t))
    <3>1. t \in Tabs /\ caller[s] = t
      BY <2>3 DEF FieldTypes, LinkInv, RoutesAgree
    <3>2. \A u \in Tabs : state'[u] = "connecting" => u # t /\ state[u] = "connecting"
      BY <2>3, <3>1 DEF SetReady, SetOver, FieldTypes
    <3>3. \A u \in Open, r \in Sessions : u # t /\ Awaits(u, r) => Awaits(u, r)'
      <4> SUFFICES ASSUME NEW u \in Open, NEW r \in Sessions, u # t, Awaits(u, r)
                   PROVE  Awaits(u, r)'
        OBVIOUS
      <4>1. r # s /\ wire'[r] = wire[r] /\ backend'[r] = backend[r]
        BY <2>1, <3>1 DEF Awaits
      <4>2. CASE SetReady(t)
        BY <2>1, <4>1, <4>2 DEF SetReady, Awaits, ReportsTo, linkVars
      <4>3. CASE SetOver(t)
        BY <1>0, <2>1, <3>1, <4>1, <4>3, OthersWait DEF SetOver
      <4> QED BY <2>3, <4>2, <4>3
    <3> QED BY <1>0, <2>1, <3>2, <3>3, WaitsOn
  <2> QED BY <1>9, <2>2, <2>3 DEF Handle
<1>10. ASSUME NEW s \in Sessions, ShowPrompt(s) PROVE WaitsForSomething'
  BY <1>1, <1>10 DEF ShowPrompt, formVars, linkVars, Open
<1>11. ASSUME NEW s \in Sessions, Ready(s) \/ End(s) PROVE WaitsForSomething'
  <2>1. /\ Open' = Open /\ UNCHANGED <<state, bySessionId, caller, answered, early>> /\ wire'[s] # << >>
        /\ \A r \in Sessions : r # s => wire'[r] = wire[r] /\ backend'[r] = backend[r]
    BY <1>11 DEF Ready, End, FieldTypes, barVars, formVars, linkVars, Open
  <2>2. \A u \in Open, r \in Sessions : Awaits(u, r) => Awaits(u, r)'
    BY <2>1 DEF Awaits, ReportsTo
  <2> QED BY <2>1, <2>2, WaitsOn
<1>12. CASE UNCHANGED vars
  BY <1>1, <1>12 DEF vars, barVars, formVars, linkVars, Open
<1> QED BY <1>2, <1>3, <1>4, <1>5, <1>6, <1>7, <1>8, <1>9, <1>10, <1>11, <1>12 DEF Next

------------------------------------------------------------------------------
(* The active tab. *)

(* A tab that stays in the bar, or whose session stays, may stay active. *)
LEMMA ActiveOn ==
    ASSUME ActiveIsOpen, UNCHANGED active,
           active \in Open => active \in Open',
           active \in Range(bar) => active \in Range(bar)',
           \A s \in answered : caller[s] = active /\ s \notin told =>
              s \in answered' /\ caller'[s] = active /\ s \notin told'
    PROVE  ActiveIsOpen'
  BY DEF ActiveIsOpen

(* Every action leaves an active tab that is open, or one of the two others. *)
LEMMA ActiveStep ==
    BarInv /\ BarInv' /\ LinkInv /\ FieldTypes /\ AnswerInv
      /\ ActiveIsOpen /\ [Next]_vars => ActiveIsOpen'
<1> SUFFICES ASSUME BarInv, BarInv', LinkInv, FieldTypes, AnswerInv,
                    ActiveIsOpen, [Next]_vars
             PROVE  ActiveIsOpen'
  OBVIOUS
<1>0. active \in Nat /\ active # None
  BY NoneIsNone, TabBounds DEF BarInv, Tabs
<1>1. ASSUME UNCHANGED barVars, answered \subseteq answered', UNCHANGED told,
             \A s \in answered : caller[s] = active => caller'[s] = active
      PROVE  ActiveIsOpen'
  BY <1>1, ActiveOn DEF barVars, Open
<1>2. CASE NewTab \/ OpenRecent
  <2>1. CASE AppendTab /\ UNCHANGED drag
    BY <2>1, AppendTabKeeps DEF ActiveIsOpen
  <2> QED BY <1>1, <1>2, <2>1 DEF NewTab, OpenRecent, backVars
<1>3. CASE Release
  BY <1>3, ActiveOn, ReleaseKeeps DEF Release, backVars
<1>4. ASSUME NEW t \in Tabs, Activate(t) PROVE ActiveIsOpen'
  BY <1>4 DEF Activate, ActiveIsOpen
<1>5. ASSUME NEW t \in Tabs, CloseTab(t) PROVE ActiveIsOpen'
  <2>1. CASE active # t /\ Withdraw(t) /\ UNCHANGED <<tabSeq, active>>
    <3>1. Open' = Open \ {t} /\ Range(bar)' = Range(bar) \ {t}
      BY <1>5, <2>1, WithdrawKeeps DEF CloseTab, BarInv
    <3>2. \A s \in answered : caller[s] = active /\ s \notin told => s \notin told'
      <4> SUFFICES ASSUME NEW s \in answered, caller[s] = active, s \notin told, s \in told'
                   PROVE  FALSE
        OBVIOUS
      <4>1. s = sessionId[t] /\ s # None
        BY <1>5 DEF CloseTab, Dispose
      <4>2. bySessionId[s] = t /\ s \in Sessions /\ t # None
        BY <4>1, NoneIsNone DEF LinkInv, RoutesAgree, FieldTypes
      <4> QED BY <2>1, <4>2 DEF LinkInv, RoutesAgree
    <3> QED BY <1>5, <2>1, <3>1, <3>2, ActiveOn DEF CloseTab
  <2>2. CASE active = t /\ Len(tabs) > 1 /\ Withdraw(t) /\ active' = Neighbour(t) /\ UNCHANGED tabSeq
    <3>1. Neighbour(t) \in Open \ {t}
      BY <1>5, <2>2, NeighbourOpen DEF CloseTab
    <3>2. active' \in 1..tabSeq
      BY <2>2, <3>1, BarElements
    <3>3. Open' = Open \ {t}
      BY <1>5, <2>2, <3>2, WithdrawKeeps DEF CloseTab
    <3> QED BY <2>2, <3>1, <3>3 DEF ActiveIsOpen
  <2>3. CASE Replace(t)
    BY <1>5, <2>3, ReplaceKeeps DEF CloseTab, ActiveIsOpen
  <2> QED BY <1>5, <2>1, <2>2, <2>3 DEF CloseTab
<1>6. ASSUME NEW t \in Tabs, Ask(t) \/ Forgo(t) \/ Edit(t) PROVE ActiveIsOpen'
  BY <1>1, <1>6 DEF Ask, Forgo, Edit, backVars
<1>7. ASSUME NEW t \in Tabs, NEW i \in 1..MaxTabs, Move(t, i) PROVE ActiveIsOpen'
  BY <1>7, ActiveOn, MoveKeeps DEF Move, backVars
<1>8. ASSUME NEW t \in Tabs, NEW s \in Sessions, Duplicate(t, s) PROVE ActiveIsOpen'
  BY <1>8, AppendTabKeeps DEF Duplicate, ActiveIsOpen
<1>9. ASSUME NEW t \in Tabs, NEW s \in Sessions, Fire(t, s) \/ Reconnect(t, s)
      PROVE  ActiveIsOpen'
  <2>1. \A r \in answered : caller'[r] = caller[r]
    BY <1>9 DEF Fire, Reconnect, Connect, AnswerInv, FieldTypes
  <2> QED BY <1>1, <1>9, <2>1 DEF Fire, Reconnect
<1>10. ASSUME NEW s \in Sessions, Resolve(s) \/ Handle(s) \/ Ready(s) \/ End(s)
       PROVE  ActiveIsOpen'
  BY <1>1, <1>10 DEF Resolve, Handle, Ready, End
<1>11. ASSUME NEW s \in Sessions, ShowPrompt(s) PROVE ActiveIsOpen'
  <2>1. bySessionId[s] # None /\ active' = bySessionId[s] /\ UNCHANGED <<caller, answered, told>>
    BY <1>11 DEF ShowPrompt, backVars
  <2>2. s \in answered /\ caller[s] = active' /\ s \notin told
    BY <2>1 DEF LinkInv, RoutesAgree, AnswerInv
  <2> QED BY <2>1, <2>2 DEF ActiveIsOpen
<1>12. CASE UNCHANGED vars
  BY <1>1, <1>12 DEF vars, backVars
<1> QED BY <1>2, <1>3, <1>4, <1>5, <1>6, <1>7, <1>8, <1>9, <1>10, <1>11, <1>12 DEF Next

------------------------------------------------------------------------------
(* All of it together is inductive. *)

TabInv ==
    BarInv /\ LinkInv /\ FieldTypes /\ MadeInv /\ AnswerInv /\ WaitsForSomething /\ ActiveIsOpen

(* One tab, with its form. *)
LEMMA TabInit == Init => TabInv
<1> SUFFICES ASSUME Init PROVE TabInv
  OBVIOUS
<1>1. 1 \in Tabs /\ 1 \in 1..1 /\ tabSeq = 1
  BY TabBounds DEF Tabs, Init
<1>2. BarInv
  <2>1. IsInjective(<<1>>) /\ Range(<<1>>) = {1} /\ Follows(<<1>>, <<1>>)
    BY DEF IsInjective, Range, Follows
  <2> QED BY <1>1, <2>1 DEF Init, BarInv, BarShowsTabs, Open
<1>3. FieldTypes /\ MadeInv /\ AnswerInv
  BY DEF Init, FieldTypes, MadeInv, AnswerInv
<1>4. Open = {1} /\ active = 1 /\ \A t \in Tabs : state[t] = "form"
  BY DEF Init, Open, Range
<1>5. WaitsForSomething /\ ActiveIsOpen
  BY <1>1, <1>4 DEF WaitsForSomething, ActiveIsOpen
<1> QED BY <1>2, <1>3, <1>5, LinkInit DEF TabInv

(* Each part is kept with the help of those before it. *)
LEMMA TabStep == TabInv /\ [Next]_vars => TabInv'
  BY BarStep, LinkStep, FieldTypesStep, MadeStep, AnswerStep, WaitsStep, ActiveStep DEF TabInv

(* So it always holds. *)
LEMMA TabInvariant == Spec => []TabInv
  BY TabInit, TabStep, PTL DEF Spec

(* Every variable of the tabs keeps its type. *)
THEOREM TabsTyped == Spec => []TypeOK
<1>1. TabInv => TypeOK
  BY TypesSplit DEF TabInv
<1> QED BY <1>1, TabInvariant, PTL

(* Every open tab has one button in the bar, and when none is held the array and
   the bar agree on the order: any number of tabs, dragged, closed and opened. *)
THEOREM BarAndArrayAgree == Spec => []BarShowsTabs
<1>1. TabInv => BarShowsTabs
  BY DEF TabInv, BarInv
<1> QED BY <1>1, TabInvariant, PTL

(* A session a tab calls its own has its events routed to that tab, and every
   registered session went to the tab that asked for it. *)
THEOREM EventsAreRouted == Spec => []RoutesAgree
<1>1. TabInv => RoutesAgree
  BY DEF TabInv, LinkInv
<1> QED BY <1>1, TabInvariant, PTL

(* An open tab that shows "connecting" waits for an answer or a session that will
   report to it, unless a status overtook the answer. *)
THEOREM NoTabWaitsForNothing == Spec => []WaitsForSomething
<1>1. TabInv => WaitsForSomething
  BY DEF TabInv
<1> QED BY <1>1, TabInvariant, PTL

(* The active tab is open, or its button came back by a drag, or a prompt of a
   session that was never ended brought it to the front. *)
THEOREM TheActiveTabIsOpen == Spec => []ActiveIsOpen
<1>1. TabInv => ActiveIsOpen
  BY DEF TabInv
<1> QED BY <1>1, TabInvariant, PTL

==============================================================================
