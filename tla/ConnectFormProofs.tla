--------------------------- MODULE ConnectFormProofs ---------------------------
(***************************************************************************)
(* RequestIsChecked and HintIsTrue for any targets, key files and number   *)
(* of commands under way. What a submit checked is written down in its     *)
(* pending call; the invariant FormInv says what each pending call still   *)
(* knows of the fields and of the keystore, edited or not, when its answer *)
(* comes. HintInv follows the last lookup for the hint through the queue:  *)
(* it is about the fields as they are, and finds the truth unless a secret *)
(* was saved since.                                                        *)
(***************************************************************************)
EXTENDS ConnectForm, TLAPS

FieldSet ==
    [kind : Kinds, target : Targets \cup {Blank}, pass : BOOLEAN,
     key : Keys \cup {Blank}, save : SUBSET Boxes, profile : BOOLEAN]

HintSet == [why : {"hint"}, auth : [kind : {"password", "key"}, secret : Targets \cup Keys],
            box : BOOLEAN, ran : BOOLEAN, found : BOOLEAN, edited : BOOLEAN]
AskSet  == [why : {"submit", "profile", "activate"}, auth : Auths,
            box : BOOLEAN, ran : BOOLEAN, found : BOOLEAN, edited : BOOLEAN]
SentSet == [auth : Auths, save : BOOLEAN, box : BOOLEAN, edited : BOOLEAN]

(* A request has what it logs in with, given the saved secrets sv. *)
Complete(auth, edited, sv) ==
    /\ auth.kind = "password" => auth.pass \/ auth.target \in sv
    /\ auth.kind = "key" /\ ~edited => auth.key \in Keys

(* What a call still knows, given the fields f and the saved secrets sv. *)
Sound(c, f, sv) ==
    /\ c.why = "submit" =>
          /\ c.auth.kind = "password"
          /\ c.found => c.auth.target \in sv
          /\ ~c.edited => f.kind = "password"
    /\ c.why = "profile" => Complete(c.auth, c.edited, sv)
    /\ c.why \in {"submit", "profile"} /\ ~c.edited => c.box = SaveSecretFlag(f)
    /\ c.why = "activate" =>
          /\ c.auth.kind = "key" => c.auth.key \in Keys
          /\ c.auth.kind = "password" /\ c.found => c.auth.target \in sv

Queued(q, f, sv) ==
    /\ q \in Seq(HintSet \cup AskSet)
    /\ \A i \in 1..Len(q) : Sound(q[i], f, sv)

FormInv == TypeOK /\ RequestIsChecked /\ Queued(calls, fields, saved)

------------------------------------------------------------------------------
(* The queue of calls. *)

(* One more call that knows what it should. *)
LEMMA AppendCall ==
    ASSUME NEW q, NEW f, NEW sv, Queued(q, f, sv), NEW c \in HintSet \cup AskSet, Sound(c, f, sv)
    PROVE  Queued(Append(q, c), f, sv)
  BY DEF Queued

(* Two more calls. *)
LEMMA AppendTwo ==
    ASSUME NEW q, NEW f, NEW sv, Queued(q, f, sv),
           NEW a \in HintSet \cup AskSet, Sound(a, f, sv),
           NEW b \in HintSet \cup AskSet, Sound(b, f, sv)
    PROVE  Queued(q \o <<a, b>>, f, sv)
<1>1. Queued(Append(Append(q, a), b), f, sv)
  BY AppendCall
<1>2. q \in Seq(HintSet \cup AskSet)
  BY DEF Queued
<1>3. Append(Append(q, a), b) = q \o <<a, b>>
  BY <1>2
<1> QED BY <1>1, <1>3

(* The call of a submit. *)
LEMMA InvokedCall ==
    ASSUME NEW auth \in Auths, NEW b \in BOOLEAN
    PROVE  LET c == [Invoke("submit", auth) EXCEPT !.box = b]
           IN  /\ c \in AskSet /\ c.why = "submit" /\ c.auth = auth
               /\ c.box = b /\ c.edited = FALSE /\ c.found = FALSE
  BY DEF Invoke, AskSet

(* A call that was run. *)
LEMMA RanCall ==
    ASSUME NEW c \in HintSet \cup AskSet, NEW x
    PROVE  LET d == [c EXCEPT !.ran = TRUE, !.found = x \in saved]
           IN  /\ d \in HintSet \cup AskSet
               /\ d.why = c.why /\ d.auth = c.auth /\ d.box = c.box /\ d.edited = c.edited
               /\ d.found = (x \in saved)
<1> DEFINE found == x \in saved
<1>0. found \in BOOLEAN
  OBVIOUS
<1> SUFFICES LET d == [c EXCEPT !.ran = TRUE, !.found = found]
             IN  /\ d \in HintSet \cup AskSet
                 /\ d.why = c.why /\ d.auth = c.auth /\ d.box = c.box /\ d.edited = c.edited
                 /\ d.found = found
  OBVIOUS
<1> HIDE DEF found
<1>1. CASE c \in HintSet
  BY <1>0, <1>1 DEF HintSet
<1>2. CASE c \in AskSet
  BY <1>0, <1>2 DEF AskSet
<1> QED BY <1>1, <1>2

(* The first call, and those after it. *)
LEMMA FirstCall ==
    ASSUME NEW q, NEW f, NEW sv, Queued(q, f, sv), q # << >>
    PROVE  /\ Head(q) \in HintSet \cup AskSet /\ Sound(Head(q), f, sv)
           /\ Queued(Tail(q), f, sv)
<1>1. Len(q) > 0 /\ Head(q) = q[1] /\ 1 \in 1..Len(q) /\ Len(q) \in Nat
  BY DEF Queued
<1>2. Tail(q) \in Seq(HintSet \cup AskSet) /\ Len(Tail(q)) = Len(q) - 1
  BY <1>1 DEF Queued
<1>3. \A i \in 1..Len(Tail(q)) : Tail(q)[i] = q[i + 1] /\ i + 1 \in 1..Len(q)
  BY <1>1, <1>2 DEF Queued
<1> QED BY <1>1, <1>2, <1>3 DEF Queued

(* Edits are noted, so the fields may be any afterwards. *)
LEMMA EditedCalls ==
    ASSUME NEW q, NEW f, NEW g, NEW sv, Queued(q, f, sv)
    PROVE  Queued(Edited(q), g, sv)
<1>1. \A c \in HintSet \cup AskSet : c.why \in {"submit", "profile"} =>
         /\ [c EXCEPT !.edited = TRUE] \in AskSet
         /\ Sound(c, f, sv) => Sound([c EXCEPT !.edited = TRUE], g, sv)
  BY DEF HintSet, AskSet, Sound, Complete
<1>2. \A c \in HintSet \cup AskSet : c.why \notin {"submit", "profile"} =>
         (Sound(c, f, sv) => Sound(c, g, sv))
  BY DEF HintSet, AskSet, Sound
<1>3. \A i \in 1..Len(q) : Edited(q)[i] \in HintSet \cup AskSet /\ Sound(Edited(q)[i], g, sv)
  BY <1>1, <1>2 DEF Queued, Edited
<1>4. Len(q) \in Nat /\ Edited(q) \in Seq(HintSet \cup AskSet) /\ Len(Edited(q)) = Len(q)
  BY <1>3 DEF Queued, Edited
<1> QED BY <1>3, <1>4 DEF Queued

(* Secrets are saved and never removed. *)
LEMMA MoreSaved ==
    ASSUME NEW q, NEW f, NEW sv, NEW sw, Queued(q, f, sv), sv \subseteq sw
    PROVE  Queued(q, f, sw)
  BY DEF Queued, Sound, Complete

(* A lookup for the hint, where there is something to look up. *)
LEMMA LookupIsSound ==
    ASSUME NEW f \in FieldSet, NEW g, NEW sv, SecretIn(f) # Blank
    PROVE  Lookup(f) \in HintSet /\ Sound(Lookup(f), g, sv)
<1>1. f.kind \in {"password", "key"} /\ SecretIn(f) \in Targets \cup Keys
  BY DEF FieldSet, SecretIn, Kinds
<1>2. Lookup(f) \in HintSet /\ Lookup(f).why = "hint"
  BY <1>1 DEF Lookup, Invoke, HintSet
<1> QED BY <1>2 DEF Sound

(* refreshHint adds nothing but a lookup, and leaves a hint. *)
LEMMA Refreshed ==
    ASSUME NEW f \in FieldSet, NEW q, NEW sv, Queued(q, f, sv), RefreshHint(f, q),
           hint \in {"password", "key", Blank}
    PROVE  Queued(calls', f, sv) /\ hint' \in {"password", "key", Blank}
  BY LookupIsSound, AppendCall DEF RefreshHint

(* A request out of the fields. *)
LEMMA ReadAuthType ==
    ASSUME NEW f \in FieldSet, NEW t \in Targets
    PROVE  /\ ReadAuth([f EXCEPT !.target = t]) \in Auths
           /\ f.target = t => ReadAuth(f) = ReadAuth([f EXCEPT !.target = t])
           /\ ReadAuth([f EXCEPT !.target = t]).kind = f.kind
           /\ ReadAuth([f EXCEPT !.target = t]).target = t
           /\ ReadAuth([f EXCEPT !.target = t]).key = (IF f.kind = "key" THEN f.key ELSE Blank)
           /\ ReadAuth([f EXCEPT !.target = t]).pass = (f.kind = "password" /\ f.pass)
  BY DEF ReadAuth, FieldSet, Auths, Kinds

(* The fields that are filled from a request. *)
LEMMA LoadedFields ==
    ASSUME NEW auth \in Auths, fields \in FieldSet
    PROVE  LoadInto(auth) \in FieldSet
  BY DEF LoadInto, Auths, FieldSet

------------------------------------------------------------------------------
(* Nothing is under way at the start. *)
LEMMA FormInit == Init => FormInv
<1> SUFFICES ASSUME Init PROVE FormInv
  OBVIOUS
<1>1. TypeOK
  BY DEF Init, TypeOK, Kinds
<1>2. Queued(calls, fields, saved)
  BY DEF Init, Queued
<1> QED BY <1>1, <1>2 DEF Init, RequestIsChecked, FormInv

(* A new request, or none, and a queue in order keep the invariant. *)
LEMMA Kept ==
    ASSUME FormInv, fields' \in FieldSet, hint' \in {"password", "key", Blank},
           saved' \subseteq Targets \cup Keys, saved \subseteq saved',
           Queued(calls', fields', saved'),
           \/ sent' \in {sent, Blank}
           \/ /\ sent' \in SentSet
              /\ Complete(sent'.auth, sent'.edited, saved')
              /\ sent'.save /\ ~sent'.edited => sent'.box
    PROVE  FormInv'
  BY DEF FormInv, TypeOK, RequestIsChecked, FieldSet, SentSet, Complete

(* Connect with a complete request. *)
LEMMA Connected ==
    ASSUME NEW auth \in Auths, NEW save \in BOOLEAN, NEW c \in AskSet, Connect(auth, save, c),
           Complete(auth, c.edited, saved), save /\ ~c.edited => c.box
    PROVE  /\ sent' \in SentSet
           /\ Complete(sent'.auth, sent'.edited, saved)
           /\ sent'.save /\ ~sent'.edited => sent'.box
<1>1. c.box \in BOOLEAN /\ c.edited \in BOOLEAN
  BY DEF AskSet
<1>2. sent' \in SentSet
  BY <1>1 DEF Connect, SentSet
<1>3. /\ sent'.auth = auth /\ sent'.edited = c.edited
      /\ sent'.save = save /\ sent'.box = c.box
  BY DEF Connect
<1> QED BY <1>2, <1>3

(* The second half of a submit: what it reads from the fields is complete. *)
LEMMA GoOnKeeps ==
    ASSUME FormInv, NEW c \in AskSet, c.why = "submit", NEW q, Queued(q, fields, saved), GoOn(c, q),
           LET auth == ReadAuth([fields EXCEPT !.target = c.auth.target])
           IN  Complete(auth, c.edited, saved),
           ~c.edited => c.box = SaveSecretFlag(fields),
           UNCHANGED <<fields, hint, saved>>
    PROVE  FormInv'
<1> DEFINE auth == ReadAuth([fields EXCEPT !.target = c.auth.target])
           next == [c EXCEPT !.why = "profile", !.auth = auth, !.ran = FALSE, !.found = FALSE]
<1>1. fields \in FieldSet /\ c.auth.target \in Targets
  BY DEF FormInv, TypeOK, FieldSet, AskSet, Auths
<1>2. auth \in Auths
  BY <1>1, ReadAuthType
<1>3. CASE fields.profile
  <2>1. next \in AskSet /\ next.why = "profile" /\ next.auth = auth
        /\ next.edited = c.edited /\ next.box = c.box
    BY <1>2 DEF AskSet
  <2>2. Sound(next, fields, saved)
    BY <2>1 DEF Sound
  <2>3. Queued(Append(q, next), fields, saved)
    BY <2>1, <2>2, AppendCall
  <2>4. Queued(calls', fields, saved) /\ sent' = sent
    BY <1>3, <2>3 DEF GoOn
  <2> QED BY <1>1, <2>4, Kept DEF FormInv, TypeOK
<1>4. CASE ~fields.profile
  <2>1. Connect(auth, SaveSecretFlag(fields), c) /\ calls' = q
    BY <1>4 DEF GoOn
  <2>2. SaveSecretFlag(fields) \in BOOLEAN
    BY DEF SaveSecretFlag
  <2>3. /\ sent' \in SentSet
        /\ Complete(sent'.auth, sent'.edited, saved)
        /\ sent'.save /\ ~sent'.edited => sent'.box
    BY <1>2, <2>1, <2>2, Connected
  <2> QED BY <1>1, <2>1, <2>3, Kept DEF FormInv, TypeOK
<1> QED BY <1>3, <1>4

------------------------------------------------------------------------------
(* Edits of the fields, by the user. *)
LEMMA EditKeeps ==
    ASSUME FormInv, NEW f \in FieldSet, fields' = f, UNCHANGED <<saved, sent>>,
           \/ calls' = Edited(calls) /\ UNCHANGED hint
           \/ RefreshHint(f, Edited(calls))
    PROVE  FormInv'
<1>1. Queued(Edited(calls), f, saved)
  BY EditedCalls DEF FormInv
<1>2. Queued(calls', f, saved) /\ hint' \in {"password", "key", Blank}
  BY <1>1, Refreshed DEF FormInv, TypeOK
<1> QED BY <1>2, Kept DEF FormInv, TypeOK

(* One of the fields, or the file that was picked. *)
LEMMA FieldKeeps ==
    ASSUME FormInv, EditField \/ \E k \in Keys : Browse(k)
    PROVE  FormInv'
<1>1. fields \in FieldSet
  BY DEF FormInv, TypeOK, FieldSet
<1>2. CASE EditField
  <2>1. PICK f \in FieldSet : Edit(f)
    BY <1>1, <1>2 DEF EditField, FieldSet
  <2> QED BY <2>1, EditKeeps DEF Edit
<1>3. ASSUME NEW k \in Keys, Browse(k) PROVE FormInv'
  <2>1. [fields EXCEPT !.key = k] \in FieldSet
    BY <1>1 DEF FieldSet
  <2>2. /\ fields' = [fields EXCEPT !.key = k]
        /\ RefreshHint([fields EXCEPT !.key = k], Edited(calls))
    BY <1>3 DEF Browse, RefreshHint
  <2> QED BY <1>3, <2>1, <2>2, EditKeeps DEF Browse
<1> QED BY <1>2, <1>3

(* A submit has checked the fields it read. *)
LEMMA SubmitKeeps ==
    ASSUME FormInv, Submit
    PROVE  FormInv'
<1> DEFINE c == [Invoke("submit", ReadAuth(fields)) EXCEPT !.box = SaveSecretFlag(fields)]
<1>1. fields \in FieldSet /\ fields.target \in Targets /\ Queued(calls, fields, saved)
  BY DEF FormInv, TypeOK, FieldSet, Submit
<1>2. /\ ReadAuth(fields) \in Auths
      /\ ReadAuth(fields).kind = fields.kind
      /\ ReadAuth(fields).target = fields.target
      /\ ReadAuth(fields).key = (IF fields.kind = "key" THEN fields.key ELSE Blank)
      /\ ReadAuth(fields).pass = (fields.kind = "password" /\ fields.pass)
  BY <1>1 DEF ReadAuth, FieldSet, Auths, Kinds
<1>3. /\ c \in AskSet /\ c.why = "submit" /\ c.auth = ReadAuth(fields)
      /\ c.box = SaveSecretFlag(fields) /\ c.edited = FALSE /\ c.found = FALSE
  <2>1. SaveSecretFlag(fields) \in BOOLEAN
    BY DEF SaveSecretFlag
  <2> QED BY <1>2, <2>1, InvokedCall
<1>4. CASE fields.kind = "password" /\ ~fields.pass
  <2>1. Sound(c, fields, saved)
    BY <1>2, <1>3, <1>4 DEF Sound
  <2>2. calls' = Append(calls, c) /\ sent' = sent
    BY <1>4 DEF Submit
  <2>3. Queued(calls', fields, saved)
    BY <1>1, <1>3, <2>1, <2>2, AppendCall
  <2> QED BY <1>1, <2>2, <2>3, Kept DEF Submit, FormInv, TypeOK
<1>5. CASE ~(fields.kind = "password" /\ ~fields.pass)
  <2>1. GoOn(c, calls) /\ UNCHANGED <<fields, hint, saved>>
    BY <1>5 DEF Submit
  <2>2. ReadAuth([fields EXCEPT !.target = c.auth.target]) = ReadAuth(fields)
    BY <1>1, <1>2, <1>3, ReadAuthType
  <2>3. fields.kind = "key" => fields.key \in Keys
    BY <1>1 DEF Submit, FieldSet
  <2>4. Complete(ReadAuth(fields), c.edited, saved)
    BY <1>1, <1>2, <1>5, <2>3 DEF Complete, FieldSet
  <2> QED BY <1>1, <1>3, <2>1, <2>2, <2>4, GoOnKeeps
<1> QED BY <1>4, <1>5

(* A profile, or a recent connection. *)
LEMMA ActivateKeeps ==
    ASSUME FormInv, NEW kind \in Kinds, NEW t \in Targets, NEW k \in Keys \cup {Blank},
           Activate(kind, t, k)
    PROVE  FormInv'
<1> DEFINE auth == [kind |-> kind, target |-> t, key |-> k, pass |-> FALSE]
           f    == LoadInto(auth)
           c    == Invoke("activate", auth)
<1>1. fields \in FieldSet /\ auth \in Auths
  BY DEF FormInv, TypeOK, FieldSet, Auths
<1>2. f \in FieldSet /\ f.kind = kind /\ f.target = t /\ f.key = k
  BY <1>1, LoadedFields DEF LoadInto, FieldSet
<1>3. /\ c \in AskSet /\ c.why = "activate" /\ c.auth = auth
      /\ c.found = FALSE /\ c.edited = FALSE
  BY <1>1 DEF Invoke, AskSet
<1>4. kind = "key" => k \in Keys
  BY DEF Activate
<1>5. Queued(Edited(calls), f, saved)
  BY EditedCalls DEF FormInv
<1>6. fields' = f /\ UNCHANGED saved
  BY DEF Activate
<1>7. CASE kind = "agent"
  <2>1. RefreshHint(f, Edited(calls)) /\ Connect(auth, FALSE, c)
    BY <1>7 DEF Activate
  <2>2. Queued(calls', f, saved) /\ hint' \in {"password", "key", Blank}
    BY <1>2, <1>5, <2>1, Refreshed DEF FormInv, TypeOK
  <2>3. Complete(auth, c.edited, saved)
    BY <1>7 DEF Complete
  <2>4. /\ sent' \in SentSet
        /\ Complete(sent'.auth, sent'.edited, saved)
        /\ sent'.save /\ ~sent'.edited => sent'.box
    BY <1>1, <1>3, <2>1, <2>3, Connected
  <2> QED BY <1>2, <1>6, <2>2, <2>4, Kept DEF FormInv, TypeOK
<1>8. CASE kind # "agent"
  <2>1. calls' = Edited(calls) \o <<Lookup(f), c>> /\ UNCHANGED <<hint, sent>>
    BY <1>8 DEF Activate
  <2>2. Lookup(f) \in HintSet /\ Sound(Lookup(f), f, saved)
    <3>1. SecretIn(f) # Blank
      BY <1>2, <1>4, <1>8, FormAssumption DEF SecretIn, Kinds
    <3> QED BY <1>2, <3>1, LookupIsSound
  <2>3. Sound(c, f, saved)
    BY <1>3, <1>4 DEF Sound
  <2>4. Queued(Edited(calls) \o <<Lookup(f), c>>, f, saved)
    BY <1>3, <1>5, <2>2, <2>3, AppendTwo
  <2> QED BY <1>2, <1>6, <2>1, <2>4, Kept DEF FormInv, TypeOK
<1> QED BY <1>7, <1>8

(* The backend answers truly. *)
LEMMA RunKeeps ==
    ASSUME FormInv, Run
    PROVE  FormInv'
<1>1. PICK i \in 1..Len(calls) :
         calls' = [calls EXCEPT ![i].ran = TRUE, ![i].found = Asked(calls[i]) \in saved]
  BY DEF Run
<1>2. UNCHANGED <<fields, hint, saved, sent>>
  BY DEF Run
<1> DEFINE c == calls[i]
           d == [c EXCEPT !.ran = TRUE, !.found = Asked(c) \in saved]
<1>3. c \in HintSet \cup AskSet /\ Sound(c, fields, saved)
  BY DEF FormInv, Queued
<1>4. /\ d \in HintSet \cup AskSet
      /\ d.why = c.why /\ d.auth = c.auth /\ d.box = c.box /\ d.edited = c.edited
      /\ d.found = (Asked(c) \in saved)
  BY <1>3, RanCall
<1>5. c.why \in {"submit", "activate"} /\ c.auth.kind = "password" => Asked(c) = c.auth.target
  BY DEF Asked, SecretIn
<1>6. Sound(d, fields, saved)
  BY <1>3, <1>4, <1>5 DEF Sound
<1>7. calls' = [calls EXCEPT ![i] = d]
  BY <1>1 DEF FormInv, Queued
<1>8. Queued(calls', fields, saved)
  BY <1>4, <1>6, <1>7 DEF FormInv, Queued
<1> QED BY <1>2, <1>8, Kept DEF FormInv, TypeOK, FieldSet

(* The handlers go on. *)
LEMMA AnswersKeep ==
    ASSUME FormInv, AnswerHint \/ AnswerSubmit \/ AnswerProfile \/ AnswerActivate
    PROVE  FormInv'
<1> DEFINE c == Head(calls)
<1>1. calls # << >> /\ UNCHANGED <<fields, saved>>
  BY DEF AnswerHint, AnswerSubmit, AnswerProfile, AnswerActivate, Answered
<1>2. c \in HintSet \cup AskSet /\ Sound(c, fields, saved) /\ Queued(Tail(calls), fields, saved)
  BY <1>1, FirstCall DEF FormInv
<1>3. fields \in FieldSet
  BY DEF FormInv, TypeOK, FieldSet
<1>4. CASE AnswerHint
  <2>1. c.why = "hint" /\ calls' = Tail(calls) /\ sent' = sent
        /\ hint' = (IF c.found THEN c.auth.kind ELSE Blank)
    BY <1>4 DEF AnswerHint, Answered
  <2>2. hint' \in {"password", "key", Blank}
    BY <1>2, <2>1 DEF HintSet, AskSet
  <2> QED BY <1>1, <1>2, <1>3, <2>1, <2>2, Kept DEF FormInv, TypeOK
<1>5. CASE AnswerSubmit
  <2>1. c \in AskSet /\ c.why = "submit" /\ UNCHANGED <<hint, saved, fields>>
    BY <1>2, <1>5 DEF AnswerSubmit, Answered, HintSet
  <2>2. CASE ~c.found
    BY <1>1, <1>2, <1>3, <1>5, <2>1, <2>2, Kept DEF AnswerSubmit, FormInv, TypeOK
  <2>3. CASE c.found
    <3> DEFINE auth == ReadAuth([fields EXCEPT !.target = c.auth.target])
    <3>1. c.auth.target \in Targets /\ c.auth.target \in saved
      BY <1>2, <2>1, <2>3 DEF Sound, AskSet, Auths
    <3>2. auth.kind = fields.kind /\ auth.target = c.auth.target
      BY <1>3, <3>1, ReadAuthType
    <3>3. Complete(auth, c.edited, saved) /\ (~c.edited => c.box = SaveSecretFlag(fields))
      BY <1>2, <2>1, <3>1, <3>2 DEF Complete, Sound
    <3>4. GoOn(c, Tail(calls))
      BY <1>5, <2>3 DEF AnswerSubmit
    <3> HIDE DEF c, auth
    <3>5. Complete(ReadAuth([fields EXCEPT !.target = c.auth.target]), c.edited, saved)
      BY <3>3 DEF auth
    <3> QED BY <1>2, <2>1, <3>3, <3>4, <3>5, GoOnKeeps
  <2> QED BY <2>2, <2>3
<1>6. CASE AnswerProfile
  <2>1. c \in AskSet /\ c.why = "profile" /\ UNCHANGED hint /\ calls' = Tail(calls)
        /\ Connect(c.auth, SaveSecretFlag(fields), c)
    BY <1>2, <1>6 DEF AnswerProfile, Answered, HintSet
  <2>2. c.auth \in Auths /\ SaveSecretFlag(fields) \in BOOLEAN
    BY <2>1 DEF AskSet, SaveSecretFlag
  <2>3. Complete(c.auth, c.edited, saved) /\ (~c.edited => c.box = SaveSecretFlag(fields))
    BY <1>2, <2>1 DEF Sound
  <2>4. /\ sent' \in SentSet
        /\ Complete(sent'.auth, sent'.edited, saved)
        /\ sent'.save /\ ~sent'.edited => sent'.box
    BY <2>1, <2>2, <2>3, Connected
  <2> QED BY <1>1, <1>2, <1>3, <2>1, <2>4, Kept DEF FormInv, TypeOK
<1>7. CASE AnswerActivate
  <2>1. c \in AskSet /\ c.why = "activate" /\ UNCHANGED hint /\ calls' = Tail(calls)
    BY <1>2, <1>7 DEF AnswerActivate, Answered, HintSet
  <2>2. CASE ~c.found
    BY <1>1, <1>2, <1>3, <1>7, <2>1, <2>2, Kept DEF AnswerActivate, FormInv, TypeOK
  <2>3. CASE c.found
    <3>1. c.auth \in Auths /\ Complete(c.auth, c.edited, saved)
      BY <1>2, <2>1, <2>3 DEF AskSet, Sound, Complete
    <3>2. Connect(c.auth, FALSE, c)
      BY <1>7, <2>3 DEF AnswerActivate
    <3>3. /\ sent' \in SentSet
          /\ Complete(sent'.auth, sent'.edited, saved)
          /\ sent'.save /\ ~sent'.edited => sent'.box
      BY <2>1, <3>1, <3>2, Connected
    <3> QED BY <1>1, <1>2, <1>3, <2>1, <3>3, Kept DEF FormInv, TypeOK
  <2> QED BY <2>2, <2>3
<1> QED BY <1>4, <1>5, <1>6, <1>7

(* A login saves a secret; the form comes back. *)
LEMMA OutsideKeeps ==
    ASSUME FormInv, ShowAgain \/ Prefill \/ \E x \in Targets \cup Keys : SecretSaved(x)
    PROVE  FormInv'
<1>1. fields \in FieldSet /\ (sent # Blank => sent.auth \in Auths)
  BY DEF FormInv, TypeOK, FieldSet
<1>2. CASE ShowAgain
  <2>1. Queued(calls', fields, saved) /\ hint' \in {"password", "key", Blank}
    BY <1>1, <1>2, Refreshed DEF ShowAgain, FormInv, TypeOK
  <2> QED BY <1>1, <1>2, <2>1, Kept DEF ShowAgain, FormInv, TypeOK
<1>3. CASE Prefill
  <2> DEFINE f == LoadInto(sent.auth)
  <2>1. f \in FieldSet
    BY <1>1, <1>3, LoadedFields DEF Prefill, shown
  <2>2. Queued(Edited(calls), f, saved)
    BY EditedCalls DEF FormInv
  <2>3. fields' = f /\ RefreshHint(f, Edited(calls)) /\ sent' = Blank /\ UNCHANGED saved
    BY <1>3 DEF Prefill
  <2>4. Queued(calls', f, saved) /\ hint' \in {"password", "key", Blank}
    BY <2>1, <2>2, <2>3, Refreshed DEF FormInv, TypeOK
  <2> QED BY <2>1, <2>3, <2>4, Kept DEF FormInv, TypeOK
<1>4. ASSUME NEW x \in Targets \cup Keys, SecretSaved(x) PROVE FormInv'
  <2>1. Queued(calls, fields, saved')
    BY <1>4, MoreSaved DEF SecretSaved, FormInv
  <2> QED BY <1>1, <1>4, <2>1, Kept DEF SecretSaved, FormInv, TypeOK
<1> QED BY <1>2, <1>3, <1>4

(* Every action keeps the invariant. *)
LEMMA FormStep == FormInv /\ [Next]_vars => FormInv'
<1> SUFFICES ASSUME FormInv, [Next]_vars PROVE FormInv'
  OBVIOUS
<1>1. CASE UNCHANGED vars
  BY <1>1 DEF vars, FormInv, TypeOK, RequestIsChecked, Queued, Sound, SaveSecretFlag
<1> QED BY <1>1, FieldKeeps, SubmitKeeps, ActivateKeeps, RunKeeps, AnswersKeep, OutsideKeeps
        DEF Next

------------------------------------------------------------------------------
(* The hint. *)

(* What the hint should say. *)
Right(f, sv) == IF SecretIn(f) \in sv THEN f.kind ELSE Blank

(* The backend runs calls in order. *)
Ordered(q) == \A i, j \in 1..Len(q) : i < j /\ q[j].ran => q[i].ran

IsHint(q, i) == i \in 1..Len(q) /\ q[i].why = "hint"
IsLast(q, i) == IsHint(q, i) /\ \A j \in 1..Len(q) : q[j].why = "hint" => j <= i
Quiet(q) == \A i \in 1..Len(q) : q[i].why # "hint"

(* The last lookup in q is for the fields f, and has found the truth. *)
Fresh(q, f, sv, st) ==
    \A i \in 1..Len(q) : IsLast(q, i) =>
        /\ q[i].auth = [kind |-> f.kind, secret |-> SecretIn(f)]
        /\ q[i].ran /\ ~st => q[i].found = (SecretIn(f) \in sv)

(* Unless it was overtaken, the hint h is right, or will be when q is answered. *)
Told(q, f, sv, h, o, st) ==
    /\ Ordered(q)
    /\ ~o => /\ Fresh(q, f, sv, st)
             /\ Quiet(q) /\ ~st => h = Right(f, sv)

HintInv == Told(calls, fields, saved, hint, overtaken, stale)

(* If nothing the hint depends on has changed and no lookup is gone, nothing has. *)
LEMMA HintFrame ==
    ASSUME NEW q, NEW p, NEW f, NEW g, NEW sv, NEW h, NEW o, NEW st, Told(q, f, sv, h, o, st),
           Listened(g) = Listened(f),
           Ordered(p), Quiet(p) => Quiet(q),
           \A i \in 1..Len(p) : IsLast(p, i) => \E j \in 1..Len(q) :
              /\ IsLast(q, j) /\ p[i].auth = q[j].auth
              /\ p[i].ran = q[j].ran /\ p[i].found = q[j].found
    PROVE  Told(p, g, sv, h, o, st)
<1>1. g.kind = f.kind /\ SecretIn(g) = SecretIn(f)
  BY DEF Listened, SecretIn
<1>2. ~o => Fresh(p, g, sv, st)
  BY <1>1 DEF Told, Fresh
<1> QED BY <1>1, <1>2 DEF Told, Right

(* Edits of other calls concern no lookup. *)
LEMMA EditedHints ==
    ASSUME NEW q, NEW f, NEW sv, Queued(q, f, sv)
    PROVE  /\ Edited(q) \in Seq(HintSet \cup AskSet) /\ Len(Edited(q)) = Len(q)
           /\ \A i \in 1..Len(q) :
                 /\ Edited(q)[i].why = q[i].why /\ Edited(q)[i].auth = q[i].auth
                 /\ Edited(q)[i].ran = q[i].ran /\ Edited(q)[i].found = q[i].found
           /\ Quiet(Edited(q)) = Quiet(q)
           /\ Ordered(q) => Ordered(Edited(q))
<1>1. Edited(q) \in Seq(HintSet \cup AskSet)
  BY EditedCalls DEF Queued
<1>2. Len(q) \in Nat /\ Len(Edited(q)) = Len(q)
  BY DEF Queued, Edited
<1>3. \A c \in HintSet \cup AskSet :
         LET d == [c EXCEPT !.edited = TRUE]
         IN  d.why = c.why /\ d.auth = c.auth /\ d.ran = c.ran /\ d.found = c.found
  BY DEF HintSet, AskSet
<1>4. \A i \in 1..Len(q) :
         /\ Edited(q)[i].why = q[i].why /\ Edited(q)[i].auth = q[i].auth
         /\ Edited(q)[i].ran = q[i].ran /\ Edited(q)[i].found = q[i].found
  BY <1>3 DEF Queued, Edited
<1> QED BY <1>1, <1>2, <1>4 DEF Quiet, Ordered

(* One more call, not yet run. *)
LEMMA OrderedAppend ==
    ASSUME NEW q \in Seq(HintSet \cup AskSet), Ordered(q), NEW c \in HintSet \cup AskSet, ~c.ran
    PROVE  Ordered(Append(q, c))
  BY DEF Ordered

(* With a lookup for the fields f as the last call, the hint will be right. *)
LEMMA LookupTold ==
    ASSUME NEW q \in Seq(HintSet \cup AskSet), Ordered(q), NEW f, NEW sv, NEW h, NEW st,
           NEW c \in HintSet, c.why = "hint", c.ran = FALSE,
           c.auth = [kind |-> f.kind, secret |-> SecretIn(f)]
    PROVE  Told(Append(q, c), f, sv, h, FALSE, st)
<1> DEFINE p == Append(q, c)
<1>1. Len(p) = Len(q) + 1 /\ Len(q) \in Nat /\ p[Len(q) + 1] = c
  OBVIOUS
<1>2. Ordered(p)
  BY OrderedAppend
<1> HIDE DEF p
<1>3. \A i \in 1..Len(p) : IsLast(p, i) => i = Len(q) + 1
  BY <1>1 DEF IsLast, IsHint
<1>4. Fresh(p, f, sv, st) /\ ~Quiet(p)
  BY <1>1, <1>3 DEF Fresh, Quiet
<1> QED BY <1>2, <1>4 DEF Told, p

(* After refreshHint the hint is right, or its lookup is the last. *)
LEMMA RefreshRight ==
    ASSUME FormInv, NEW f \in FieldSet, fields' = f, UNCHANGED <<saved, stale>>,
           NEW q \in Seq(HintSet \cup AskSet), Ordered(q), Quiet(q) = Quiet(calls),
           RefreshHint(f, q)
    PROVE  HintInv'
<1>1. CASE SecretIn(f) # Blank
  <2>1. calls' = Append(q, Lookup(f)) /\ overtaken' = FALSE
    BY <1>1 DEF RefreshHint
  <2>2. Lookup(f) \in HintSet
    BY <1>1, LookupIsSound
  <2>3. /\ Lookup(f).why = "hint" /\ Lookup(f).ran = FALSE
        /\ Lookup(f).auth = [kind |-> f.kind, secret |-> SecretIn(f)]
    BY DEF Lookup, Invoke
  <2>4. Told(Append(q, Lookup(f)), f, saved', hint', FALSE, stale')
    BY <2>2, <2>3, LookupTold
  <2> QED BY <2>1, <2>4 DEF HintInv
<1>2. CASE SecretIn(f) = Blank
  <2>1. calls' = q /\ hint' = Blank /\ (~overtaken' => HintCalls = {})
    BY <1>2 DEF RefreshHint
  <2>2. ~overtaken' => Quiet(calls')
    BY <2>1 DEF HintCalls, Quiet
  <2>3. Quiet(calls') => Fresh(calls', f, saved', stale')
    BY DEF Quiet, Fresh, IsLast, IsHint
  <2>4. hint' = Right(f, saved')
    <3>1. Blank \notin saved
      BY FormAssumption DEF FormInv, TypeOK
    <3> QED BY <1>2, <2>1, <3>1 DEF Right
  <2> QED BY <2>1, <2>2, <2>3, <2>4 DEF HintInv, Told
<1> QED BY <1>1, <1>2

(* One more call that is no lookup. *)
LEMMA AppendOther ==
    ASSUME NEW q \in Seq(HintSet \cup AskSet), NEW f, NEW sv, NEW h, NEW o, NEW st,
           Told(q, f, sv, h, o, st), NEW c \in AskSet, ~c.ran
    PROVE  Told(Append(q, c), f, sv, h, o, st)
<1> DEFINE p == Append(q, c)
<1>1. Len(q) \in Nat /\ Len(p) = Len(q) + 1
  OBVIOUS
<1>2. (\A i \in 1..Len(q) : p[i] = q[i]) /\ p[Len(q) + 1] = c /\ c.why # "hint"
  BY <1>1 DEF AskSet
<1>3. Ordered(p)
  BY OrderedAppend DEF Told
<1> HIDE DEF p
<1>4. \A i \in 1..Len(p) : IsLast(p, i) => i \in 1..Len(q) /\ IsLast(q, i) /\ p[i] = q[i]
  BY <1>1, <1>2 DEF IsLast, IsHint
<1>5. Quiet(p) => Quiet(q)
  BY <1>1, <1>2 DEF Quiet
<1>6. Told(p, f, sv, h, o, st)
  BY <1>3, <1>4, <1>5, HintFrame
<1> QED BY <1>6 DEF p

(* The calls after the first. *)
LEMMA TailShifts ==
    ASSUME NEW q \in Seq(HintSet \cup AskSet), q # << >>
    PROVE  /\ Tail(q) \in Seq(HintSet \cup AskSet) /\ Len(q) \in Nat
           /\ Len(Tail(q)) = Len(q) - 1 /\ Head(q) = q[1] /\ Len(q) >= 1
           /\ \A i \in 1..Len(Tail(q)) : Tail(q)[i] = q[i + 1]
           /\ \A j \in 1..Len(q) : j # 1 => j - 1 \in 1..Len(Tail(q)) /\ Tail(q)[j - 1] = q[j]
           /\ Ordered(q) => Ordered(Tail(q))
<1>1. /\ Tail(q) \in Seq(HintSet \cup AskSet) /\ Len(q) \in Nat
      /\ Len(Tail(q)) = Len(q) - 1 /\ Head(q) = q[1] /\ Len(q) >= 1
  OBVIOUS
<1>2. \A i \in 1..Len(Tail(q)) : Tail(q)[i] = q[i + 1]
  BY <1>1
<1>3. \A j \in 1..Len(q) : j # 1 => j - 1 \in 1..Len(Tail(q)) /\ Tail(q)[j - 1] = q[j]
  BY <1>1, <1>2
<1> QED BY <1>1, <1>2, <1>3 DEF Ordered

(* The last lookup of the calls after the first is the last of all. *)
LEMMA LastOfRest ==
    ASSUME NEW q \in Seq(HintSet \cup AskSet), q # << >>,
           NEW i \in 1..Len(Tail(q)), IsLast(Tail(q), i)
    PROVE  i + 1 \in 1..Len(q) /\ IsLast(q, i + 1) /\ Tail(q)[i] = q[i + 1]
<1>1. i + 1 \in 1..Len(q) /\ Tail(q)[i] = q[i + 1] /\ q[i + 1].why = "hint"
  BY TailShifts DEF IsLast, IsHint
<1>2. ASSUME NEW j \in 1..Len(q), q[j].why = "hint", j # 1 PROVE j <= i + 1
  <2>1. j - 1 \in 1..Len(Tail(q)) /\ Tail(q)[j - 1] = q[j]
    BY <1>2, TailShifts
  <2>2. j - 1 <= i
    BY <1>2, <2>1 DEF IsLast
  <2>3. j \in Nat /\ i \in Nat
    BY TailShifts
  <2> QED BY <2>2, <2>3
<1> QED BY <1>1, <1>2, TailShifts DEF IsLast, IsHint

(* The first call goes, which is no lookup. *)
LEMMA TailOther ==
    ASSUME NEW q \in Seq(HintSet \cup AskSet), NEW f, NEW sv, NEW h, NEW o, NEW st,
           Told(q, f, sv, h, o, st), q # << >>, Head(q).why # "hint"
    PROVE  Told(Tail(q), f, sv, h, o, st)
<1>1. Ordered(Tail(q))
  BY TailShifts DEF Told
<1>2. Quiet(Tail(q)) => Quiet(q)
  <2> SUFFICES ASSUME Quiet(Tail(q)), NEW j \in 1..Len(q) PROVE q[j].why # "hint"
    BY DEF Quiet
  <2>1. CASE j = 1
    BY <2>1, TailShifts
  <2>2. CASE j # 1
    <3>1. j - 1 \in 1..Len(Tail(q)) /\ Tail(q)[j - 1] = q[j]
      BY <2>2, TailShifts
    <3> QED BY <3>1 DEF Quiet
  <2> QED BY <2>1, <2>2
<1>3. ASSUME NEW i \in 1..Len(Tail(q)), IsLast(Tail(q), i)
      PROVE  \E j \in 1..Len(q) : IsLast(q, j) /\ Tail(q)[i] = q[j]
  BY <1>3, LastOfRest
<1>4. \A i \in 1..Len(Tail(q)) : IsLast(Tail(q), i) => \E j \in 1..Len(q) :
         /\ IsLast(q, j) /\ Tail(q)[i].auth = q[j].auth
         /\ Tail(q)[i].ran = q[j].ran /\ Tail(q)[i].found = q[j].found
  BY <1>3
<1> HIDE DEF Told
<1> QED BY <1>1, <1>2, <1>4, HintFrame

(* The answer to a lookup: the last one sets the hint. *)
LEMMA HintAnswered ==
    ASSUME FormInv, HintInv, AnswerHint
    PROVE  HintInv'
<1>1. /\ calls # << >> /\ Head(calls).ran /\ Head(calls).why = "hint" /\ calls' = Tail(calls)
      /\ hint' = (IF Head(calls).found THEN Head(calls).auth.kind ELSE Blank)
      /\ UNCHANGED <<fields, saved, overtaken, stale>>
  BY DEF AnswerHint, Answered
<1>2. calls \in Seq(HintSet \cup AskSet)
  BY DEF FormInv, Queued
<1>3. Ordered(calls')
  BY <1>1, <1>2, TailShifts DEF HintInv, Told
<1>4. ~overtaken => Fresh(calls', fields, saved, stale)
  BY <1>1, <1>2, LastOfRest DEF HintInv, Told, Fresh
<1>5. ASSUME ~overtaken, ~stale, Quiet(calls') PROVE hint' = Right(fields, saved)
  <2>1. ASSUME NEW j \in 1..Len(calls), j # 1 PROVE calls[j].why # "hint"
    <3>1. j - 1 \in 1..Len(Tail(calls)) /\ Tail(calls)[j - 1] = calls[j]
      BY <1>1, <1>2, <2>1, TailShifts
    <3> QED BY <1>1, <1>5, <3>1 DEF Quiet
  <2>2. IsLast(calls, 1) /\ 1 \in 1..Len(calls)
    BY <1>1, <1>2, <2>1, TailShifts DEF IsLast, IsHint
  <2>3. /\ calls[1].auth = [kind |-> fields.kind, secret |-> SecretIn(fields)]
        /\ calls[1].found = (SecretIn(fields) \in saved)
    BY <1>1, <1>2, <1>5, <2>2, TailShifts DEF HintInv, Told, Fresh
  <2>4. calls[1].auth.kind = fields.kind
    BY <2>3
  <2> QED BY <1>1, <1>2, <2>3, <2>4, TailShifts DEF Right
<1> QED BY <1>1, <1>3, <1>4, <1>5 DEF HintInv, Told

(* A command runs: of a lookup, it is the truth that it finds. *)
LEMMA RunFinds ==
    ASSUME FormInv, HintInv, Run
    PROVE  HintInv'
<1>1. PICK i \in 1..Len(calls) :
         /\ ~calls[i].ran /\ \A j \in 1..i - 1 : calls[j].ran
         /\ calls' = [calls EXCEPT ![i].ran = TRUE, ![i].found = Asked(calls[i]) \in saved]
         /\ stale' = (stale /\ calls[i].why # "hint")
         /\ UNCHANGED <<fields, hint, saved, overtaken>>
  BY DEF Run
<1> DEFINE d == [calls[i] EXCEPT !.ran = TRUE, !.found = Asked(calls[i]) \in saved]
<1>2. calls \in Seq(HintSet \cup AskSet) /\ Len(calls) \in Nat /\ calls[i] \in HintSet \cup AskSet
  BY DEF FormInv, Queued
<1>3. /\ d.why = calls[i].why /\ d.auth = calls[i].auth /\ d.found = (Asked(calls[i]) \in saved)
      /\ d.ran = TRUE
  <2>1. calls[i].ran \in BOOLEAN /\ d.ran = TRUE
    BY <1>2 DEF HintSet, AskSet
  <2> QED BY <1>2, <2>1, RanCall
<1>4. calls' = [calls EXCEPT ![i] = d]
  BY <1>1, <1>2
<1> HIDE DEF d
<1>5. /\ Len(calls') = Len(calls) /\ calls'[i] = d
      /\ \A j \in 1..Len(calls) : j # i => calls'[j] = calls[j]
  BY <1>2, <1>4
<1>6. Ordered(calls')
  <2> SUFFICES ASSUME NEW j \in 1..Len(calls), NEW k \in 1..Len(calls), j < k, calls'[k].ran
               PROVE  calls'[j].ran
    BY <1>5 DEF Ordered
  <2>1. CASE k = i
    BY <1>1, <1>2, <1>5, <2>1
  <2>2. CASE k # i
    BY <1>1, <1>2, <1>3, <1>5, <2>2 DEF HintInv, Told, Ordered
  <2> QED BY <2>1, <2>2
<1>7. \A j \in 1..Len(calls) : calls'[j].why = calls[j].why /\ calls'[j].auth = calls[j].auth
  BY <1>3, <1>5
<1>8. Quiet(calls') => Quiet(calls) /\ (~stale' => ~stale)
  BY <1>1, <1>5, <1>7 DEF Quiet
<1>9. ASSUME ~overtaken, NEW j \in 1..Len(calls), IsLast(calls', j)
      PROVE  /\ calls'[j].auth = [kind |-> fields.kind, secret |-> SecretIn(fields)]
             /\ calls'[j].ran /\ ~stale' => calls'[j].found = (SecretIn(fields) \in saved)
  <2>1. IsLast(calls, j)
    BY <1>5, <1>7, <1>9 DEF IsLast, IsHint
  <2>2. calls'[j].auth = [kind |-> fields.kind, secret |-> SecretIn(fields)]
    BY <1>7, <1>9, <2>1 DEF HintInv, Told, Fresh
  <2>3. CASE i = j
    <3>1. calls[i].why = "hint" /\ calls[i].auth.secret = SecretIn(fields)
      BY <1>7, <2>1, <2>2, <2>3 DEF IsLast, IsHint
    <3>2. Asked(calls[i]) = SecretIn(fields)
      BY <3>1 DEF Asked
    <3> QED BY <1>3, <1>5, <2>2, <2>3, <3>2
  <2>4. CASE i # j /\ calls[i].why # "hint"
    <3>1. ~stale' => ~stale
      BY <1>1, <2>4
    <3>2. calls[j].ran /\ ~stale => calls[j].found = (SecretIn(fields) \in saved)
      BY <1>9, <2>1 DEF HintInv, Told, Fresh
    <3>3. calls'[j] = calls[j]
      BY <1>5, <2>4
    <3> HIDE DEF SecretIn
    <3> QED BY <2>2, <3>1, <3>2, <3>3
  <2>5. CASE i # j /\ calls[i].why = "hint"
    <3>2. i < j
      BY <2>1, <2>5 DEF IsLast
    <3>3. ~calls[j].ran
      BY <1>1, <3>2 DEF HintInv, Told, Ordered
    <3> QED BY <1>5, <2>2, <2>5, <3>3
  <2> QED BY <2>3, <2>4, <2>5
<1>10. ~overtaken' => Fresh(calls', fields', saved', stale')
  BY <1>1, <1>5, <1>9 DEF Fresh
<1> QED BY <1>1, <1>6, <1>8, <1>10 DEF HintInv, Told

(* An edit, of a field that is listened to or of another. *)
LEMMA EditHints ==
    ASSUME FormInv, HintInv, NEW f \in FieldSet, fields' = f, UNCHANGED <<saved, stale>>,
           \/ /\ Listened(f) = Listened(fields) /\ calls' = Edited(calls)
              /\ UNCHANGED <<hint, overtaken>>
           \/ RefreshHint(f, Edited(calls)) \/ RefreshHint(f, calls)
    PROVE  HintInv'
<1>1. Queued(calls, fields, saved) /\ calls \in Seq(HintSet \cup AskSet) /\ Ordered(calls)
  BY DEF FormInv, HintInv, Told, Queued
<1>2. CASE RefreshHint(f, calls)
  BY <1>1, <1>2, RefreshRight
<1>3. CASE RefreshHint(f, Edited(calls))
  BY <1>1, <1>3, EditedHints, RefreshRight
<1>4. CASE /\ Listened(f) = Listened(fields) /\ calls' = Edited(calls)
           /\ UNCHANGED <<hint, overtaken>>
  <2>1. /\ Len(calls') = Len(calls) /\ Ordered(calls') /\ Quiet(calls') = Quiet(calls)
        /\ \A i \in 1..Len(calls) :
              /\ calls'[i].why = calls[i].why /\ calls'[i].auth = calls[i].auth
              /\ calls'[i].ran = calls[i].ran /\ calls'[i].found = calls[i].found
    BY <1>1, <1>4, EditedHints
  <2>2. \A i \in 1..Len(calls') : IsLast(calls', i) => IsLast(calls, i)
    BY <2>1 DEF IsLast, IsHint
  <2>3. Told(calls', f, saved, hint, overtaken, stale)
    BY <1>4, <2>1, <2>2, HintFrame DEF HintInv
  <2> QED BY <1>4, <2>3 DEF HintInv
<1> QED BY <1>2, <1>3, <1>4

(* Half a submit: at most one more call, which is no lookup. *)
LEMMA GoOnHints ==
    ASSUME NEW q \in Seq(HintSet \cup AskSet), NEW c \in AskSet, c.auth.target \in Targets,
           GoOn(c, q), fields \in FieldSet,
           Told(q, fields, saved, hint, overtaken, stale),
           UNCHANGED <<fields, saved, hint, overtaken, stale>>
    PROVE  HintInv'
<1> DEFINE auth == ReadAuth([fields EXCEPT !.target = c.auth.target])
           next == [c EXCEPT !.why = "profile", !.auth = auth, !.ran = FALSE, !.found = FALSE]
<1>1. auth \in Auths
  BY ReadAuthType
<1>2. next \in AskSet /\ ~next.ran
  BY <1>1 DEF AskSet
<1>3. Told(Append(q, next), fields, saved, hint, overtaken, stale)
  BY <1>2, AppendOther
<1>4. calls' = q \/ calls' = Append(q, next)
  BY DEF GoOn
<1> QED BY <1>3, <1>4 DEF HintInv

(* A submit adds at most a call that is no lookup. *)
LEMMA SubmitHints ==
    ASSUME FormInv, HintInv, Submit
    PROVE  HintInv'
<1> DEFINE c == [Invoke("submit", ReadAuth(fields)) EXCEPT !.box = SaveSecretFlag(fields)]
<1>1. /\ fields \in FieldSet /\ fields.target \in Targets
      /\ calls \in Seq(HintSet \cup AskSet)
  BY DEF FormInv, TypeOK, FieldSet, Submit, Queued
<1>2. ReadAuth(fields) \in Auths /\ ReadAuth(fields).target = fields.target
  BY <1>1, ReadAuthType DEF ReadAuth, FieldSet, Auths, Kinds
<1>3. c \in AskSet /\ c.auth = ReadAuth(fields)
  <2>1. SaveSecretFlag(fields) \in BOOLEAN
    BY DEF SaveSecretFlag
  <2> QED BY <1>2, <2>1, InvokedCall
<1>4. c.ran = FALSE
  BY DEF Invoke
<1> HIDE DEF c
<1>5. UNCHANGED <<fields, saved, hint, overtaken, stale>>
      /\ (calls' = Append(calls, c) \/ GoOn(c, calls))
  BY DEF Submit, c
<1> QED BY <1>1, <1>2, <1>3, <1>4, <1>5, AppendOther, GoOnHints DEF HintInv

(* The answers to other calls. *)
LEMMA OthersAnswered ==
    ASSUME FormInv, HintInv, AnswerSubmit \/ AnswerProfile \/ AnswerActivate
    PROVE  HintInv'
<1> DEFINE c == Head(calls)
<1>1. /\ calls # << >> /\ c.why # "hint"
      /\ UNCHANGED <<fields, saved, hint, overtaken, stale>>
  BY DEF AnswerSubmit, AnswerProfile, AnswerActivate, Answered
<1>2. /\ calls \in Seq(HintSet \cup AskSet) /\ c \in AskSet /\ c.auth.target \in Targets
      /\ fields \in FieldSet
  <2>1. c \in AskSet
    BY <1>1, FirstCall DEF FormInv, HintSet
  <2> QED BY <2>1 DEF FormInv, Queued, TypeOK, FieldSet, AskSet, Auths
<1>3. Tail(calls) \in Seq(HintSet \cup AskSet)
  BY <1>1, <1>2, TailShifts
<1>4. Told(Tail(calls), fields, saved, hint, overtaken, stale)
  BY <1>1, <1>2, TailOther DEF HintInv
<1>5. calls' = Tail(calls) \/ GoOn(c, Tail(calls))
  BY DEF AnswerSubmit, AnswerProfile, AnswerActivate
<1> HIDE DEF c
<1> QED BY <1>1, <1>2, <1>3, <1>4, <1>5, GoOnHints DEF HintInv

(* A profile or recent connection fills the form; with a secret to look up, a lookup
   for the hint goes before the one for the request. *)
LEMMA ActivateHints ==
    ASSUME FormInv, HintInv, NEW kind \in Kinds, NEW t \in Targets, NEW k \in Keys \cup {Blank},
           Activate(kind, t, k)
    PROVE  HintInv'
<1> DEFINE auth == [kind |-> kind, target |-> t, key |-> k, pass |-> FALSE]
           f    == LoadInto(auth)
           c    == Invoke("activate", auth)
<1>1. fields \in FieldSet /\ auth \in Auths
  BY DEF FormInv, TypeOK, FieldSet, Auths
<1>2. f \in FieldSet /\ f.kind = kind /\ f.target = t /\ f.key = k
  BY <1>1, LoadedFields DEF LoadInto, FieldSet
<1>3. fields' = f /\ UNCHANGED <<saved, stale>>
  BY DEF Activate
<1>4. CASE kind = "agent"
  <2>1. RefreshHint(f, Edited(calls))
    BY <1>4 DEF Activate
  <2> QED BY <1>2, <1>3, <2>1, EditHints
<1>5. CASE kind # "agent"
  <2> DEFINE q == Edited(calls)
             p == Append(q, Lookup(f))
  <2>1. calls' = q \o <<Lookup(f), c>> /\ overtaken' = FALSE /\ hint' = hint
    BY <1>5 DEF Activate
  <2>2. q \in Seq(HintSet \cup AskSet) /\ Ordered(q)
    BY EditedHints DEF FormInv, HintInv, Told
  <2>3. SecretIn(f) # Blank
    BY <1>2, <1>5, FormAssumption DEF SecretIn, Kinds, Activate
  <2>4. Lookup(f) \in HintSet
    BY <1>2, <2>3, LookupIsSound
  <2>5. /\ Lookup(f).why = "hint" /\ Lookup(f).ran = FALSE
        /\ Lookup(f).auth = [kind |-> f.kind, secret |-> SecretIn(f)]
    BY DEF Lookup, Invoke
  <2>6. c \in AskSet /\ c.ran = FALSE
    BY <1>1 DEF Invoke, AskSet
  <2> HIDE DEF q, c, f
  <2>7. p \in Seq(HintSet \cup AskSet) /\ calls' = Append(p, c)
    BY <2>1, <2>2, <2>4, <2>6
  <2>8. Told(p, f, saved, hint, FALSE, stale)
    BY <2>2, <2>4, <2>5, LookupTold
  <2>9. Told(Append(p, c), f, saved, hint, FALSE, stale)
    BY <2>6, <2>7, <2>8, AppendOther
  <2> QED BY <1>3, <2>1, <2>7, <2>9 DEF HintInv
<1> QED BY <1>4, <1>5

(* Every action keeps the hint. *)
LEMMA HintStep == FormInv /\ HintInv /\ [Next]_vars => HintInv'
<1> SUFFICES ASSUME FormInv, HintInv, [Next]_vars PROVE HintInv'
  OBVIOUS
<1>0. fields \in FieldSet /\ (sent # Blank => sent.auth \in Auths)
  BY DEF FormInv, TypeOK, FieldSet
<1>1. CASE UNCHANGED vars
  BY <1>1 DEF vars, HintInv
<1>2. CASE EditField
  <2>1. PICK f \in FieldSet : Edit(f)
    BY <1>0, <1>2 DEF EditField, FieldSet
  <2> QED BY <2>1, EditHints DEF Edit
<1>3. ASSUME NEW k \in Keys, Browse(k) PROVE HintInv'
  <2>1. [fields EXCEPT !.key = k] \in FieldSet
    BY <1>0 DEF FieldSet
  <2>2. /\ fields' = [fields EXCEPT !.key = k]
        /\ RefreshHint([fields EXCEPT !.key = k], Edited(calls))
    BY <1>3 DEF Browse, RefreshHint
  <2> QED BY <1>3, <2>1, <2>2, EditHints DEF Browse
<1>4. CASE ShowAgain
  BY <1>0, <1>4, EditHints DEF ShowAgain
<1>5. CASE Prefill
  <2>1. LoadInto(sent.auth) \in FieldSet
    BY <1>0, <1>5, LoadedFields DEF Prefill, shown
  <2> QED BY <1>5, <2>1, EditHints DEF Prefill
<1>6. ASSUME NEW x \in Targets \cup Keys, SecretSaved(x) PROVE HintInv'
  BY <1>6 DEF SecretSaved, HintInv, Told, Fresh
<1> QED BY <1>1, <1>2, <1>3, <1>4, <1>5, <1>6, SubmitHints, ActivateHints, RunFinds,
           HintAnswered, OthersAnswered DEF Next

(* Nothing is looked up at the start, and nothing can be. *)
LEMMA HintInit == Init => HintInv
  BY FormAssumption DEF Init, HintInv, Told, Ordered, Quiet, Fresh, Right, SecretIn

------------------------------------------------------------------------------
(* The fields, the hint, the saved secrets and the request keep their types. *)
THEOREM FormTypes == Spec => []TypeOK
<1>1. FormInv => TypeOK
  BY DEF FormInv
<1> QED BY FormInit, FormStep, <1>1, PTL DEF Spec

(* A password request has its password, typed or saved, whatever was edited while the
   form waited; a key request has its file, and a request to save the secret its box,
   unless fields were edited during the wait. *)
THEOREM RequestsAreChecked == Spec => []RequestIsChecked
<1>1. FormInv => RequestIsChecked
  BY DEF FormInv
<1> QED BY FormInit, FormStep, <1>1, PTL DEF Spec

(* Once all lookups are answered the hint tells the truth, unless it was set past a
   lookup or the secret was saved elsewhere since. *)
THEOREM HintTellsTruth == Spec => []HintIsTrue
<1>1. FormInv /\ HintInv => HintIsTrue
  <2> SUFFICES ASSUME HintInv, HintCalls = {}, ~overtaken, ~stale
               PROVE  hint = Right(fields, saved)
    BY DEF HintIsTrue, Right
  <2>1. Quiet(calls)
    BY DEF HintCalls, Quiet
  <2> QED BY <2>1 DEF HintInv, Told
<1>2. Init => FormInv /\ HintInv
  BY FormInit, HintInit
<1>3. FormInv /\ HintInv /\ [Next]_vars => (FormInv /\ HintInv)'
  BY FormStep, HintStep
<1> QED BY <1>1, <1>2, <1>3, PTL DEF Spec

==============================================================================
