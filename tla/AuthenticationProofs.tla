------------------------- MODULE AuthenticationProofs -------------------------
(***************************************************************************)
(* SecretsStayHome and SavedSecretsWork for any sessions, targets, key     *)
(* files and secrets, users and hosts with any number of "@" and ":" in    *)
(* them. Three places hold secrets on their way from a form to a server:   *)
(* the request, the pending save and the keystore; each must hold for its  *)
(* target or key file only what was typed for it, or for one with the same *)
(* id, and what is saved must have logged in. What the ids tell apart is a *)
(* lemma about their texts.                                                *)
(***************************************************************************)
EXTENDS Authentication, SequenceTheorems, TLAPS

AuthTypes ==
    /\ keystore \in [Ids -> Secrets \cup {NoSecret}]
    /\ pc \in [Sessions -> {"idle", "primary", "asking", "round", "over"}]
    /\ req \in [Sessions -> Requests]
    /\ pending \in [Sessions -> Secrets \cup {NoSecret}]
    /\ typed \subseteq Places \X Secrets
    /\ offered \subseteq Places \X Secrets

(* A secret is known for place x if it was typed for it, or for one with its id. *)
Known(x, v) == \E y \in Places : <<y, v>> \in typed /\ IdOf(y) = IdOf(x)

KeystoreKnown == \A x \in Places : keystore[IdOf(x)] # NoSecret => Known(x, keystore[IdOf(x)])
RequestsKnown ==
    \A s \in Sessions : pc[s] # "idle" /\ req[s].secret # NoSecret =>
        Known(req[s].place, req[s].secret)
SavesTheRequest == \A s \in Sessions : pending[s] \in {NoSecret, req[s].secret}
OffersKnown == \A x \in Places, v \in Secrets : <<x, v>> \in offered => Known(x, v)

AuthInv == AuthTypes /\ KeystoreKnown /\ RequestsKnown /\ SavesTheRequest /\ OffersKnown

------------------------------------------------------------------------------
(* Ids. *)

(* r is p followed by q, element by element. *)
Joined(r, p, q) ==
    /\ Len(p) \in Nat /\ Len(q) \in Nat /\ Len(r) = Len(p) + Len(q)
    /\ \A i \in 1..Len(p) : r[i] = p[i]
    /\ \A i \in 1..Len(q) : r[i + Len(p)] = q[i]

LEMMA Concatenation ==
    ASSUME NEW S, NEW p \in Seq(S), NEW q \in Seq(S)
    PROVE  p \o q \in Seq(S) /\ Joined(p \o q, p, q)
<1>1. /\ p \o q \in Seq(S) /\ Len(p) \in Nat /\ Len(q) \in Nat
      /\ Len(p \o q) = Len(p) + Len(q)
      /\ \A i \in 1..Len(p) + Len(q) :
             (p \o q)[i] = IF i <= Len(p) THEN p[i] ELSE q[i - Len(p)]
  BY ConcatProperties
<1>2. ASSUME NEW i \in 1..Len(p) PROVE (p \o q)[i] = p[i]
  BY <1>1, <1>2
<1>3. ASSUME NEW i \in 1..Len(q) PROVE (p \o q)[i + Len(p)] = q[i]
  <2>1. i + Len(p) \in 1..Len(p) + Len(q) /\ ~(i + Len(p) <= Len(p)) /\ (i + Len(p)) - Len(p) = i
    BY <1>1
  <2> QED BY <1>1, <2>1
<1> QED BY <1>1, <1>2, <1>3 DEF Joined

(* The pieces of the id of a password for t, whose user has n pieces and its host m. *)
Parts(id, t, n, m) ==
    /\ n \in Nat /\ m \in Nat
    /\ Len(id) = n + m + 5
    /\ id[1] = "pw"
    /\ \A i \in 1..n : id[i + 2] = t[1][i]
    /\ id[n + 3] = "@"
    /\ \A i \in 1..m : id[i + (n + 3)] = t[2][i]
    /\ id[n + m + 5] = t[3]

LEMMA PasswordIdParts ==
    ASSUME NEW t \in Targets
    PROVE  Parts(PasswordId(t), t, Len(t[1]), Len(t[2]))
<1> DEFINE S == Words \cup {"@", ":", "pw"}
<1>1. t[1] \in Seq(S) /\ t[2] \in Seq(S) /\ t[3] \in S
  BY AuthAssumption DEF IsText
<1> DEFINE n == Len(t[1])  m == Len(t[2])
<1> DEFINE a == <<"pw", ":">>  at == <<"@">>  e == <<":", t[3]>>
<1>2. a \in Seq(S) /\ Len(a) = 2 /\ a[1] = "pw" /\ e \in Seq(S) /\ Len(e) = 2 /\ e[2] = t[3]
  BY <1>1
<1>3. at \in Seq(S) /\ Len(at) = 1 /\ at[1] = "@"
  OBVIOUS
<1> DEFINE b == a \o t[1]  c == b \o at  d == c \o t[2]  id == d \o e
<1> HIDE DEF S, a, at, e
<1>4. b \in Seq(S) /\ Joined(b, a, t[1])
  BY <1>1, <1>2, Concatenation
<1>5. c \in Seq(S) /\ Joined(c, b, at)
  <2> HIDE DEF b
  <2> QED BY <1>3, <1>4, Concatenation
<1>6. d \in Seq(S) /\ Joined(d, c, t[2])
  <2> HIDE DEF c
  <2> QED BY <1>1, <1>5, Concatenation
<1>7. Joined(id, d, e)
  <2> HIDE DEF d
  <2> QED BY <1>2, <1>6, Concatenation
<1> HIDE DEF b, c, d, id
<1>8. /\ n \in Nat /\ m \in Nat /\ Len(b) = n + 2
      /\ Len(c) = n + 3 /\ Len(d) = n + m + 3 /\ Len(id) = n + m + 5
  <2>1. n \in Nat /\ Len(b) = 2 + n
    BY <1>2, <1>4 DEF Joined
  <2>2. Len(c) = Len(b) + 1
    BY <1>3, <1>5 DEF Joined
  <2>3. m \in Nat /\ Len(d) = Len(c) + m
    BY <1>6 DEF Joined
  <2>4. Len(id) = Len(d) + 2
    BY <1>2, <1>7 DEF Joined
  <2> HIDE DEF n, m
  <2> QED BY <2>1, <2>2, <2>3, <2>4
<1> HIDE DEF n, m
<1>9. \A i \in 1..n + 2 : id[i] = b[i]
  <2> SUFFICES ASSUME NEW i \in 1..n + 2 PROVE id[i] = b[i]
    OBVIOUS
  <2>1. i \in 1..Len(b) /\ i \in 1..Len(c) /\ i \in 1..Len(d)
    BY <1>8
  <2> QED BY <1>5, <1>6, <1>7, <2>1 DEF Joined
<1>10. id[1] = "pw"
  <2>1. b[1] = a[1]
    BY <1>2, <1>4 DEF Joined
  <2> QED BY <1>2, <1>8, <1>9, <2>1
<1>11. ASSUME NEW i \in 1..n PROVE id[i + 2] = t[1][i]
  <2>1. i + 2 \in 1..n + 2
    BY <1>8
  <2>2. b[i + 2] = t[1][i]
    BY <1>2, <1>4 DEF Joined, n
  <2> QED BY <1>9, <2>1, <2>2
<1>12. id[n + 3] = "@"
  <2>1. n + 3 \in 1..Len(c) /\ n + 3 \in 1..Len(d) /\ n + 3 = 1 + (n + 2)
    BY <1>8
  <2>2. c[n + 3] = "@"
    BY <1>3, <1>5, <1>8, <2>1 DEF Joined
  <2> QED BY <1>6, <1>7, <2>1, <2>2 DEF Joined
<1>13. ASSUME NEW i \in 1..m PROVE id[i + (n + 3)] = t[2][i]
  <2>1. i + (n + 3) \in 1..Len(d)
    BY <1>8
  <2>2. d[i + (n + 3)] = t[2][i]
    BY <1>6, <1>8 DEF Joined, m
  <2> QED BY <1>7, <2>1, <2>2 DEF Joined
<1>14. id[n + m + 5] = t[3]
  <2>1. n + m + 5 = 2 + (n + m + 3)
    BY <1>8
  <2> QED BY <1>2, <1>7, <1>8, <2>1 DEF Joined
<1>15. Parts(id, t, n, m)
  BY <1>8, <1>10, <1>11, <1>12, <1>13, <1>14 DEF Parts
<1> QED BY <1>15 DEF PasswordId, id, d, c, b, a, at, e, n, m

(* With no "@" in its host, a target has the longest user of those with its id:
   the "@" after a longer one would be in the host. *)
LEMMA LongestUser ==
    ASSUME NEW x \in Targets, NEW y \in Targets, PasswordId(x) = PasswordId(y), ~AtInHost(x)
    PROVE  Len(y[1]) <= Len(x[1])
<1> DEFINE n == Len(x[1])  m == Len(x[2])  k == Len(y[1])  j == Len(y[2])  id == PasswordId(x)
<1>1. Parts(id, x, n, m) /\ Parts(id, y, k, j)
  BY PasswordIdParts
<1>2. \A i \in 1..m : x[2][i] # "@"
  BY DEF AtInHost
<1> HIDE DEF n, m, k, j, id
<1>3. ASSUME n < k PROVE FALSE
  <2>1. k - n \in 1..m /\ (k - n) + (n + 3) = k + 3
    BY <1>1, <1>3 DEF Parts
  <2>2. x[2][k - n] = id[(k - n) + (n + 3)]
    BY <1>1, <2>1 DEF Parts
  <2>3. id[k + 3] = "@"
    BY <1>1 DEF Parts
  <2> QED BY <1>2, <2>1, <2>2, <2>3
<1>4. k <= n
  BY <1>1, <1>3 DEF Parts
<1> QED BY <1>4 DEF k, n

(* Two targets with the same id are one, if no host of the two has an "@". *)
LEMMA PasswordIdsDiffer ==
    ASSUME NEW x \in Targets, NEW y \in Targets, PasswordId(x) = PasswordId(y),
           ~AtInHost(x), ~AtInHost(y)
    PROVE  x = y
<1> DEFINE n == Len(x[1])  m == Len(x[2])  k == Len(y[1])  j == Len(y[2])  id == PasswordId(x)
           S == Words \cup {"@", ":"}
<1>1. Parts(id, x, n, m) /\ Parts(id, y, k, j)
  BY PasswordIdParts
<1>2. k <= n /\ n <= k
  BY LongestUser
<1>3. x[1] \in Seq(S) /\ y[1] \in Seq(S) /\ x[2] \in Seq(S) /\ y[2] \in Seq(S)
  BY AuthAssumption DEF IsText
<1>4. (n = k /\ m = j /\ x[3] = y[3])
      /\ (\A i \in 1..n : x[1][i] = y[1][i]) /\ (\A i \in 1..m : x[2][i] = y[2][i])
  <2> HIDE DEF n, m, k, j, id
  <2>1. n = k /\ m = j
    BY <1>1, <1>2 DEF Parts
  <2> QED BY <1>1, <2>1 DEF Parts
<1> HIDE DEF S
<1>5. x[1] = y[1]
  BY <1>3, <1>4, SeqEqual
<1>6. x[2] = y[2]
  BY <1>3, <1>4, SeqEqual
<1>7. x = <<x[1], x[2], x[3]>> /\ y = <<y[1], y[2], y[3]>>
  BY AuthAssumption
<1> QED BY <1>4, <1>5, <1>6, <1>7

(* Places with the same id share an entry in the sense of ShareEntry. *)
LEMMA SameIdIsShared ==
    ASSUME NEW x \in Places, NEW y \in Places, IdOf(x) = IdOf(y)
    PROVE  ShareEntry(x, y)
<1>1. CASE x \in KeyFiles /\ y \in KeyFiles
  BY <1>1 DEF IdOf, PassphraseId, ShareEntry
<1>2. CASE x \notin KeyFiles /\ y \notin KeyFiles
  BY <1>2, PasswordIdsDiffer DEF IdOf, Places, ShareEntry
<1>3. ASSUME NEW t \in Targets, NEW k PROVE PasswordId(t) # PassphraseId(k)
  <2>1. PasswordId(t)[1] = "pw"
    BY PasswordIdParts DEF Parts
  <2>2. PassphraseId(k)[1] = "pp"
    BY DEF PassphraseId
  <2> QED BY <2>1, <2>2
<1> QED BY <1>1, <1>2, <1>3 DEF IdOf, Places

------------------------------------------------------------------------------
(* The records of a request. *)
LEMMA RequestFields ==
    ASSUME NEW r \in Requests
    PROVE  /\ r.secret \in Secrets \cup {NoSecret}
           /\ r.kind = "agent" => r.secret = NoSecret
           /\ r.kind # "agent" \/ r.secret # NoSecret => r.place \in Places
           /\ r.kind = "password" => r.place \in Targets
           /\ r.kind = "key" => r.place \in KeyFiles
           /\ r.kind \in {"password", "key", "agent"}
  BY DEF Requests, AgentRequest, Places

(* Every place has its entry in the keystore. *)
LEMMA IdsOfPlaces ==
    ASSUME NEW x \in Places PROVE IdOf(x) \in Ids
  BY DEF Ids

(* Injection gives a request what the keystore holds for its place. *)
LEMMA InjectedRequest ==
    ASSUME AuthTypes, NEW r \in Requests
    PROVE  /\ Injected(r) \in Requests
           /\ Injected(r).place = r.place
           /\ \/ Injected(r).secret = r.secret
              \/ r.place \in Places /\ Injected(r).secret = keystore[IdOf(r.place)]
<1>1. r.kind # "agent" => keystore[IdOf(r.place)] \in Secrets \cup {NoSecret}
  BY IdsOfPlaces, RequestFields DEF AuthTypes
<1>2. CASE Injected(r) = r
  BY <1>2
<1>3. CASE Injected(r) # r
  <2> DEFINE q == [r EXCEPT !.secret = keystore[IdOf(r.place)]]
  <2>1. Injected(r) = q /\ r.kind # "agent"
    BY <1>3 DEF Injected
  <2>2. q \in Requests
    BY <1>1, <2>1 DEF Requests, AgentRequest
  <2>3. q.place = r.place /\ q.secret = keystore[IdOf(r.place)]
    BY DEF Requests, AgentRequest
  <2> QED BY <2>1, <2>2, <2>3, RequestFields
<1> QED BY <1>2, <1>3

------------------------------------------------------------------------------
(* Nothing has been typed, kept or offered at the start. *)
LEMMA AuthInit == Init => AuthInv
<1> SUFFICES ASSUME Init PROVE AuthInv
  OBVIOUS
<1>1. AgentRequest \in Requests
  BY DEF Requests
<1>2. AuthTypes
  BY <1>1 DEF Init, AuthTypes
<1>3. KeystoreKnown
  BY IdsOfPlaces DEF Init, KeystoreKnown
<1>4. RequestsKnown /\ SavesTheRequest /\ OffersKnown
  BY DEF Init, RequestsKnown, SavesTheRequest, OffersKnown
<1> QED BY <1>2, <1>3, <1>4 DEF AuthInv

(* ssh_connect: what was typed is added, what was saved was typed before. *)
LEMMA ConnectKeeps ==
    ASSUME AuthInv, NEW s \in Sessions, NEW r \in Requests, NEW save \in BOOLEAN,
           Connect(s, r, save)
    PROVE  AuthInv'
<1> DEFINE q == Injected(r)
<1>1. q \in Requests /\ q.place = r.place
      /\ (q.secret = r.secret \/ (r.place \in Places /\ q.secret = keystore[IdOf(r.place)]))
  BY InjectedRequest DEF AuthInv
<1>2. q.secret \in Secrets \cup {NoSecret}
  BY <1>1, RequestFields
<1> HIDE DEF q
<1>3. /\ pc' = [pc EXCEPT ![s] = "primary"]
      /\ req' = [req EXCEPT ![s] = q]
      /\ pending' = [pending EXCEPT ![s] = IF save THEN q.secret ELSE NoSecret]
      /\ typed' = typed \cup (IF r.secret = NoSecret THEN {} ELSE {<<r.place, r.secret>>})
      /\ UNCHANGED <<keystore, offered>>
  BY DEF Connect, q
<1>4. AuthTypes'
  BY <1>1, <1>2, <1>3, RequestFields DEF AuthInv, AuthTypes
<1>5. typed \subseteq typed'
  BY <1>3
<1>6. KeystoreKnown'
  BY <1>3, <1>5 DEF AuthInv, KeystoreKnown, Known
<1>7. ASSUME q.secret # NoSecret
      PROVE  \E y \in Places : <<y, q.secret>> \in typed' /\ IdOf(y) = IdOf(q.place)
  <2>1. CASE q.secret = r.secret
    BY <1>1, <1>3, <1>7, <2>1, RequestFields
  <2>2. CASE r.place \in Places /\ q.secret = keystore[IdOf(r.place)]
    BY <1>1, <1>5, <1>7, <2>2 DEF AuthInv, KeystoreKnown, Known
  <2> QED BY <1>1, <2>1, <2>2
<1>8. RequestsKnown'
  BY <1>3, <1>5, <1>7 DEF AuthInv, AuthTypes, RequestsKnown, Known
<1>9. SavesTheRequest'
  BY <1>3 DEF AuthInv, AuthTypes, SavesTheRequest
<1>10. OffersKnown'
  BY <1>3, <1>5 DEF AuthInv, OffersKnown, Known
<1> QED BY <1>4, <1>6, <1>8, <1>9, <1>10 DEF AuthInv

(* What a login does after ssh_connect: it may save the pending secret under the id
   of its request, drop it, and offer the secret of its request. *)
LEMMA LoginKeeps ==
    ASSUME AuthInv, NEW s \in Sessions, pc[s] # "idle",
           NEW w \in {"primary", "asking", "round", "over"}, pc' = [pc EXCEPT ![s] = w],
           UNCHANGED <<req, typed>>,
           pending' \in {pending, [pending EXCEPT ![s] = NoSecret]},
           \/ keystore' = keystore
           \/ /\ pending[s] # NoSecret
              /\ keystore' = [keystore EXCEPT ![IdOf(req[s].place)] = pending[s]],
           \/ offered' = offered
           \/ req[s].secret # NoSecret
              /\ offered' = offered \cup {<<req[s].place, req[s].secret>>}
    PROVE  AuthInv'
<1>1. /\ req[s] \in Requests /\ req[s].secret \in Secrets \cup {NoSecret}
      /\ req[s].secret # NoSecret => req[s].place \in Places
      /\ req[s].secret # NoSecret => Known(req[s].place, req[s].secret)
      /\ pending[s] \in {NoSecret, req[s].secret}
  BY RequestFields DEF AuthInv, AuthTypes, RequestsKnown, SavesTheRequest
<1>2. AuthTypes'
  BY <1>1, IdsOfPlaces DEF AuthInv, AuthTypes
<1>3. \A x, v : Known(x, v)' <=> Known(x, v)
  BY DEF Known
<1>4. KeystoreKnown'
  <2>1. CASE keystore' = keystore
    BY <1>3, <2>1 DEF AuthInv, KeystoreKnown
  <2>2. CASE /\ pending[s] # NoSecret
             /\ keystore' = [keystore EXCEPT ![IdOf(req[s].place)] = pending[s]]
    <3>1. Known(req[s].place, pending[s])
      BY <1>1, <2>2
    <3>2. ASSUME NEW x \in Places, keystore'[IdOf(x)] # NoSecret
          PROVE  Known(x, keystore'[IdOf(x)])
      <4>1. CASE IdOf(x) = IdOf(req[s].place)
        BY <2>2, <3>1, <4>1, IdsOfPlaces DEF AuthInv, AuthTypes, Known
      <4>2. CASE IdOf(x) # IdOf(req[s].place)
        BY <2>2, <3>2, <4>2, IdsOfPlaces DEF AuthInv, AuthTypes, KeystoreKnown
      <4> QED BY <4>1, <4>2
    <3>3. ASSUME NEW x \in Places, keystore'[IdOf(x)] # NoSecret
          PROVE  \E y \in Places : <<y, keystore'[IdOf(x)]>> \in typed' /\ IdOf(y) = IdOf(x)
      BY <3>2, <3>3 DEF Known
    <3> QED BY <3>3 DEF KeystoreKnown, Known
  <2> QED BY <2>1, <2>2
<1>5. RequestsKnown'
  BY DEF AuthInv, AuthTypes, RequestsKnown, Known
<1>6. SavesTheRequest'
  BY DEF AuthInv, AuthTypes, SavesTheRequest
<1>7. OffersKnown'
  <2> SUFFICES ASSUME NEW x \in Places, NEW v \in Secrets, <<x, v>> \in offered'
               PROVE  \E y \in Places : <<y, v>> \in typed' /\ IdOf(y) = IdOf(x)
    BY DEF OffersKnown, Known
  <2>1. CASE <<x, v>> \in offered
    BY <2>1 DEF AuthInv, OffersKnown, Known
  <2>2. CASE <<x, v>> \notin offered
    <3>1. x = req[s].place /\ v = req[s].secret /\ req[s].secret # NoSecret
      BY <2>2
    <3> QED BY <1>1, <3>1 DEF Known
  <2> QED BY <2>1, <2>2
<1> QED BY <1>2, <1>4, <1>5, <1>6, <1>7 DEF AuthInv

(* The ways a step of a login ends. *)
LEMMA EndingsKeep ==
    ASSUME AuthInv, NEW s \in Sessions, pc[s] # "idle",
           \/ offered' = offered
           \/ req[s].secret # NoSecret /\ Offer(s),
           \/ Fail(s) \/ FallBack(s)
           \/ \E auto \in BOOLEAN : GoOn(s, auto)
           \/ \E otherwise \in BOOLEAN : LogIn(s, otherwise)
    PROVE  AuthInv'
<1>1. CASE Fail(s)
  BY <1>1, LoginKeeps DEF Fail, Over, Goto, Offer
<1>2. CASE FallBack(s)
  BY <1>2, LoginKeeps DEF FallBack, Goto, Offer
<1>3. ASSUME NEW auto \in BOOLEAN, GoOn(s, auto) PROVE AuthInv'
  BY <1>3, LoginKeeps DEF GoOn, Goto, Offer
<1>4. ASSUME NEW otherwise \in BOOLEAN, LogIn(s, otherwise) PROVE AuthInv'
  BY <1>4, LoginKeeps DEF LogIn, Over, Goto, Offer
<1> QED BY <1>1, <1>2, <1>3, <1>4

(* Every action keeps the invariant. *)
LEMMA AuthStep == AuthInv /\ [Next]_vars => AuthInv'
<1> SUFFICES ASSUME AuthInv, [Next]_vars PROVE AuthInv'
  OBVIOUS
<1>1. CASE UNCHANGED vars
  BY <1>1 DEF AuthInv, vars, AuthTypes, KeystoreKnown, RequestsKnown, SavesTheRequest,
              OffersKnown, Known
<1>2. ASSUME NEW s \in Sessions, NEW r \in Requests, NEW save \in BOOLEAN, Connect(s, r, save)
      PROVE  AuthInv'
  BY <1>2, ConnectKeeps
<1>3. ASSUME NEW s \in Sessions, AuthPassword(s) PROVE AuthInv'
  BY <1>3, EndingsKeep DEF AuthPassword
<1>4. ASSUME NEW s \in Sessions, AuthKey(s) PROVE AuthInv'
  BY <1>4, EndingsKeep DEF AuthKey
<1>5. ASSUME NEW s \in Sessions, AuthAgent(s) PROVE AuthInv'
  BY <1>5, EndingsKeep DEF AuthAgent
<1>6. ASSUME NEW s \in Sessions, NEW kind \in Rounds, Ask(s, kind) PROVE AuthInv'
  BY <1>6, LoginKeeps DEF Ask, Goto
<1>7. ASSUME NEW s \in Sessions, Refuse(s) PROVE AuthInv'
  BY <1>7, EndingsKeep DEF Refuse
<1>8. ASSUME NEW s \in Sessions, AutoAnswer(s) PROVE AuthInv'
  BY <1>8, EndingsKeep DEF AutoAnswer, Automatic, HasPassword
<1>9. ASSUME NEW s \in Sessions, EmptyAnswer(s) PROVE AuthInv'
  BY <1>9, EndingsKeep DEF EmptyAnswer
<1>10. ASSUME NEW s \in Sessions, UserAnswer(s) PROVE AuthInv'
  BY <1>10, EndingsKeep DEF UserAnswer
<1> QED
  BY <1>1, <1>2, <1>3, <1>4, <1>5, <1>6, <1>7, <1>8, <1>9, <1>10 DEF Next

(* The secrets of a login are at home wherever they are kept: in the request, in
   the pending save, in the keystore. *)
THEOREM SecretsAreKept == Spec => []AuthInv
<1> QED BY AuthInit, AuthStep, PTL DEF Spec

(* No target and no key file sees a secret that was not typed for it, or for one
   that an "@" in a host makes share its entry. *)
THEOREM SecretsGoHome == Spec => []SecretsStayHome
<1>1. AuthInv => SecretsStayHome
  <2> SUFFICES ASSUME AuthInv, NEW o \in offered
               PROVE  \E t \in typed : t[2] = o[2] /\ ShareEntry(o[1], t[1])
    BY DEF SecretsStayHome
  <2>1. o = <<o[1], o[2]>> /\ o[1] \in Places /\ o[2] \in Secrets
    BY DEF AuthInv, AuthTypes
  <2>2. PICK y \in Places : <<y, o[2]>> \in typed /\ IdOf(y) = IdOf(o[1])
    BY <2>1 DEF AuthInv, OffersKnown, Known
  <2>3. ShareEntry(o[1], y)
    BY <2>1, <2>2, SameIdIsShared
  <2>4. <<y, o[2]>>[1] = y /\ <<y, o[2]>>[2] = o[2]
    OBVIOUS
  <2> QED BY <2>2, <2>3, <2>4
<1> QED BY SecretsAreKept, <1>1, PTL

(* If no host has an "@" in it, every secret offered to a target was typed for that
   very target: user, host and port, whatever "@" and ":" are in the users. *)
THEOREM SecretsGoHomeExactly ==
    ASSUME \A x \in Targets : ~AtInHost(x)
    PROVE  Spec => [](offered \subseteq typed)
<1>1. SecretsStayHome /\ AuthInv => offered \subseteq typed
  <2> SUFFICES ASSUME SecretsStayHome, AuthInv, NEW o \in offered PROVE o \in typed
    OBVIOUS
  <2>1. PICK t \in typed : t[2] = o[2] /\ ShareEntry(o[1], t[1])
    BY DEF SecretsStayHome
  <2>2. o[1] = t[1]
    BY <2>1 DEF ShareEntry, AtInHost
  <2>3. o = <<o[1], o[2]>> /\ t = <<t[1], t[2]>>
    BY DEF AuthInv, AuthTypes
  <2> QED BY <2>1, <2>2, <2>3
<1> QED BY SecretsAreKept, SecretsGoHome, <1>1, PTL

------------------------------------------------------------------------------
(* What is saved logs in. *)

(* A secret works for x if it is right for a place with the id of x. *)
Works(x, v) ==
    \E y \in Places : /\ IdOf(y) = IdOf(x)
                      /\ right[y] \in {NoSecret, v} \/ <<y, v>> \in unproved

SavedOnesWork ==
    \A x \in Places : keystore[IdOf(x)] # NoSecret => Works(x, keystore[IdOf(x)])

(* Nothing is saved. *)
LEMMA NothingSaved ==
    ASSUME SavedOnesWork, UNCHANGED <<right, keystore>>, unproved \subseteq unproved'
    PROVE  SavedOnesWork'
  BY DEF SavedOnesWork, Works

(* The secret of a login that this very secret, or something else, completed; of a
   key file, it may be any if the file is not encrypted. *)
LEMMA SavedWorks ==
    ASSUME AuthInv, SavedOnesWork, NEW s \in Sessions, UNCHANGED right,
           unproved \subseteq unproved', pending[s] # NoSecret,
           keystore' = [keystore EXCEPT ![IdOf(req[s].place)] = pending[s]],
           \/ right[req[s].place] \in {NoSecret, req[s].secret}
           \/ <<req[s].place, req[s].secret>> \in unproved'
    PROVE  SavedOnesWork'
<1>1. pending[s] = req[s].secret /\ req[s].place \in Places
  BY RequestFields DEF AuthInv, SavesTheRequest, AuthTypes
<1>2. ASSUME NEW x \in Places, keystore'[IdOf(x)] # NoSecret
      PROVE  \E y \in Places : /\ IdOf(y) = IdOf(x)
                               /\ \/ right'[y] \in {NoSecret, keystore'[IdOf(x)]}
                                  \/ <<y, keystore'[IdOf(x)]>> \in unproved'
  <2>1. CASE IdOf(x) = IdOf(req[s].place)
    <3>1. keystore'[IdOf(x)] = req[s].secret
      BY <1>1, <2>1, IdsOfPlaces DEF AuthInv, AuthTypes
    <3> QED BY <1>1, <2>1, <3>1
  <2>2. CASE IdOf(x) # IdOf(req[s].place)
    <3>1. keystore'[IdOf(x)] = keystore[IdOf(x)]
      BY <2>2, IdsOfPlaces DEF AuthInv, AuthTypes
    <3> QED BY <1>2, <3>1 DEF SavedOnesWork, Works
  <2> QED BY <2>1, <2>2
<1> QED BY <1>2 DEF SavedOnesWork, Works

(* A login, by its own secret or otherwise. *)
LEMMA LogInWorks ==
    ASSUME AuthInv, SavedOnesWork, NEW s \in Sessions, NEW otherwise \in BOOLEAN,
           LogIn(s, otherwise),
           otherwise \/ right[req[s].place] \in {NoSecret, req[s].secret}
    PROVE  SavedOnesWork'
<1>1. /\ UNCHANGED right /\ unproved \subseteq unproved'
      /\ otherwise /\ req[s].secret # NoSecret => <<req[s].place, req[s].secret>> \in unproved'
      /\ \/ keystore' = keystore
         \/ /\ pending[s] # NoSecret
            /\ keystore' = [keystore EXCEPT ![IdOf(req[s].place)] = pending[s]]
  BY DEF LogIn
<1>2. pending[s] # NoSecret => req[s].secret # NoSecret
  BY DEF AuthInv, SavesTheRequest
<1> QED BY <1>1, <1>2, NothingSaved, SavedWorks

(* Only a login saves. *)
LEMMA WorkStep == AuthInv /\ SavedOnesWork /\ [Next]_vars => SavedOnesWork'
<1> SUFFICES ASSUME AuthInv, SavedOnesWork, [Next]_vars PROVE SavedOnesWork'
  OBVIOUS
<1>1. CASE UNCHANGED vars
  BY <1>1, NothingSaved DEF vars
<1>2. ASSUME NEW s \in Sessions,
             Fail(s) \/ FallBack(s) \/ \E auto \in BOOLEAN : GoOn(s, auto)
      PROVE  SavedOnesWork'
  BY <1>2, NothingSaved DEF Fail, FallBack, GoOn
<1>3. ASSUME NEW s \in Sessions, NEW r \in Requests, NEW save \in BOOLEAN, Connect(s, r, save)
      PROVE  SavedOnesWork'
  BY <1>3, NothingSaved DEF Connect
<1>4. ASSUME NEW s \in Sessions, NEW kind \in Rounds, Ask(s, kind) PROVE SavedOnesWork'
  BY <1>4, NothingSaved DEF Ask
<1>5. ASSUME NEW s \in Sessions, AuthPassword(s) \/ AutoAnswer(s) PROVE SavedOnesWork'
  BY <1>2, <1>5, LogInWorks DEF AuthPassword, AutoAnswer, Takes
<1>6. ASSUME NEW s \in Sessions, AuthKey(s) PROVE SavedOnesWork'
  BY <1>2, <1>6, LogInWorks DEF AuthKey
<1>7. ASSUME NEW s \in Sessions, AuthAgent(s) PROVE SavedOnesWork'
  <2>1. ASSUME LogIn(s, FALSE) PROVE SavedOnesWork'
    <3>1. pending[s] = NoSecret
      BY <1>7, RequestFields DEF AuthAgent, AuthInv, AuthTypes, SavesTheRequest
    <3> QED BY <2>1, <3>1, NothingSaved DEF LogIn
  <2> QED BY <1>2, <1>7, <2>1 DEF AuthAgent
<1>8. ASSUME NEW s \in Sessions, Refuse(s) \/ EmptyAnswer(s) \/ UserAnswer(s)
      PROVE  SavedOnesWork'
  BY <1>2, <1>8, LogInWorks DEF Refuse, EmptyAnswer, UserAnswer
<1> QED BY <1>1, <1>3, <1>4, <1>5, <1>6, <1>7, <1>8 DEF Next

(* A saved secret is the right one for its place, or for one that an "@" in a host
   makes share its entry, unless something else completed the login that saved it. *)
THEOREM SavedSecretsAreRight == Spec => []SavedSecretsWork
<1>1. Init => SavedOnesWork
  BY IdsOfPlaces DEF Init, SavedOnesWork
<1>2. SavedOnesWork => SavedSecretsWork
  BY SameIdIsShared DEF SavedOnesWork, Works, SavedSecretsWork
<1> QED BY SecretsAreKept, WorkStep, <1>1, <1>2, PTL DEF Spec

==============================================================================
