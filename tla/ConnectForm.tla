------------------------------ MODULE ConnectForm ------------------------------
(***************************************************************************)
(* The connect form of one tab (src/renderer/connect-form.ts): its fields, *)
(* the hint that says a saved secret will be used, and the way from a      *)
(* submit, a saved profile or a recent connection to the request that      *)
(* onConnect gets. Each of these asks the backend whether a secret is      *)
(* saved, and reads fields after the answer that it checked before it.     *)
(*                                                                         *)
(* A handler is one action up to its await and another one after it. The   *)
(* backend runs commands in the order of their invokes and answers in that *)
(* order; users, other forms' answers and other tabs' logins come between. *)
(* Whether a passphrase was typed changes nothing here and is left out.    *)
(***************************************************************************)
EXTENDS Naturals, Sequences, FiniteSets

CONSTANTS
    Targets,    \* user@host:port, the text a saved password is found by
    Keys,       \* paths of key files
    Boxes,      \* bound: the boxes "save password", "save passphrase" that users tick, by kind
    Blank,      \* an empty field, no hint, no request
    MaxCalls    \* bound: commands invoked and not answered when a user acts

ASSUME FormAssumption ==
    /\ Blank \notin Targets \cup Keys
    /\ Boxes \subseteq {"password", "key"}
    /\ MaxCalls \in Nat

Kinds == {"password", "key", "agent"}

VARIABLES
    fields,     \* what the form holds; profile is the box to save one
    hint,       \* the kind of secret hintEl says will be used, or Blank
    calls,      \* commands invoked, in order, each with what its answer is for
    saved,      \* targets and key files whose secret is saved
    overtaken,  \* history: a hint was set while an earlier lookup was under way
    stale,      \* history: a secret was saved after the last lookup for the hint
    sent        \* the request onConnect got; Blank while the form is shown

vars == <<fields, hint, calls, saved, overtaken, stale, sent>>

shown == sent = Blank

Init ==
    /\ fields = [kind |-> "password", target |-> Blank, pass |-> FALSE, key |-> Blank,
                 save |-> {}, profile |-> FALSE]
    /\ hint = Blank /\ calls = << >>
    /\ saved \in SUBSET (Targets \cup Keys)
    /\ overtaken = FALSE /\ stale = FALSE
    /\ sent = Blank

------------------------------------------------------------------------------
(* What a saved secret would be for: the target of a password, the file of a
   passphrase; Blank if there is nothing to look up. *)
SecretIn(f) ==
    CASE f.kind = "password" -> f.target
      [] f.kind = "key"      -> f.key
      [] f.kind = "agent"    -> Blank

(* readAuthFromFields, with the target: what a request takes from the fields f. *)
ReadAuth(f) ==
    [kind |-> f.kind, target |-> f.target,
     key  |-> IF f.kind = "key" THEN f.key ELSE Blank,
     pass |-> f.kind = "password" /\ f.pass]

(* saveSecretFlag: the box of the kind selected now. *)
SaveSecretFlag(f) == f.kind \in f.save

(* An invoke, and what will be done with the answer. *)
Invoke(why, auth) ==
    [why |-> why, auth |-> auth, box |-> FALSE, ran |-> FALSE, found |-> FALSE,
     edited |-> FALSE]

HintCalls == {i \in 1..Len(calls) : calls[i].why = "hint"}

(* The lookup for a hint, which is only about the secret. *)
Lookup(f) == Invoke("hint", [kind |-> f.kind, secret |-> SecretIn(f)])

(* Fields have changed: submits under way will read some of the new ones. *)
Edited(queue) ==
    [i \in 1..Len(queue) |->
        IF queue[i].why \in {"submit", "profile"} THEN [queue[i] EXCEPT !.edited = TRUE]
        ELSE queue[i]]

(* Mutant of RefreshHint: with nothing to look up the hint stays as it is. *)
RefreshHintIfAny(f, queue) ==
    IF SecretIn(f) # Blank
    THEN /\ calls' = Append(queue, Lookup(f))
         /\ overtaken' = FALSE
         /\ UNCHANGED hint
    ELSE /\ calls' = queue
         /\ overtaken' = (HintCalls # {})
         /\ UNCHANGED hint

(* refreshHint, of the fields f: a lookup, after those in queue, or the hint at
   once if there is nothing to look up. *)
RefreshHint(f, queue) ==
    IF SecretIn(f) # Blank
    THEN /\ calls' = Append(queue, Lookup(f))
         /\ overtaken' = FALSE
         /\ UNCHANGED hint
    ELSE /\ calls' = queue
         /\ hint' = Blank
         /\ overtaken' = (HintCalls # {})

(* The user may act. *)
Usable == shown /\ Len(calls) < MaxCalls

(* Another value for a field, with its change event. Only some are listened to. *)
Listened(f) == <<f.kind, f.target, f.key>>
Edit(f) ==
    /\ Usable /\ f # fields
    /\ fields' = f
    /\ \/ /\ Listened(f) = Listened(fields)
          /\ calls' = Edited(calls) /\ UNCHANGED <<hint, overtaken>>
       \/ /\ Listened(f) # Listened(fields)
          /\ RefreshHint(f, Edited(calls))
    /\ UNCHANGED <<saved, stale, sent>>

EditField ==
    \/ \E k \in Kinds : Edit([fields EXCEPT !.kind = k])
    \/ \E t \in Targets \cup {Blank} : Edit([fields EXCEPT !.target = t])
    \/ \E k \in Keys \cup {Blank} : Edit([fields EXCEPT !.key = k])
    \/ \E s \in SUBSET Boxes : Edit([fields EXCEPT !.save = s])
    \/ Edit([fields EXCEPT !.pass = ~@])
    \/ Edit([fields EXCEPT !.profile = ~@])

(* pickKeyFile answers, when it may: the file dialog is the system's. *)
Browse(k) ==
    /\ Usable
    /\ fields' = [fields EXCEPT !.key = k]
    /\ RefreshHint(fields', Edited(calls))
    /\ UNCHANGED <<saved, stale, sent>>

------------------------------------------------------------------------------
(* Building requests. *)

(* onConnect: Tab.connect keeps the request and hides the form. *)
Connect(auth, save, c) ==
    sent' = [auth |-> auth, save |-> save, box |-> c.box, edited |-> c.edited]

(* handleSubmit once a password is known to be there, if it takes one: it reads the
   fields, and connects, or saves a profile first, or stops for want of its name. *)
GoOn(c, queue) ==
    LET auth == ReadAuth([fields EXCEPT !.target = c.auth.target]) IN
    IF fields.profile
    THEN /\ UNCHANGED sent
         /\ calls' \in {queue, Append(queue, [c EXCEPT !.why = "profile", !.auth = auth,
                                               !.ran = FALSE, !.found = FALSE])}
    ELSE calls' = queue /\ Connect(auth, SaveSecretFlag(fields), c)

(* Mutant of Submit: a private key without a file passes. *)
SubmitAnyKey ==
    /\ Usable
    /\ fields.target # Blank
    /\ LET c == [Invoke("submit", ReadAuth(fields)) EXCEPT !.box = SaveSecretFlag(fields)] IN
       IF fields.kind = "password" /\ ~fields.pass
       THEN calls' = Append(calls, c) /\ UNCHANGED sent
       ELSE GoOn(c, calls)
    /\ UNCHANGED <<fields, hint, saved, overtaken, stale>>

(* handleSubmit up to its first await. Without a host, a user or a key file it
   stops with an error; without a password it asks whether one is saved. *)
Submit ==
    /\ Usable
    /\ fields.target # Blank /\ (fields.kind = "key" => fields.key # Blank)
    /\ LET c == [Invoke("submit", ReadAuth(fields)) EXCEPT !.box = SaveSecretFlag(fields)] IN
       IF fields.kind = "password" /\ ~fields.pass
       THEN calls' = Append(calls, c) /\ UNCHANGED sent
       ELSE GoOn(c, calls)
    /\ UNCHANGED <<fields, hint, saved, overtaken, stale>>

(* loadInto, for a saved profile, a recent connection or the last request. *)
LoadInto(auth) ==
    [fields EXCEPT !.kind = auth.kind, !.target = auth.target, !.pass = FALSE,
                   !.key = auth.key]

(* activate: the form is filled; an agent needs nothing else, otherwise is the
   secret saved? *)
Activate(kind, target, key) ==
    LET auth == [kind |-> kind, target |-> target, key |-> key, pass |-> FALSE]
        f    == LoadInto(auth)
        c    == Invoke("activate", auth) IN
    /\ Usable
    /\ (kind = "key") = (key # Blank)
    /\ fields' = f
    /\ IF kind = "agent"
       THEN /\ RefreshHint(f, Edited(calls))
            /\ Connect(auth, FALSE, c)
       ELSE /\ calls' = Edited(calls) \o <<Lookup(f), c>>
            /\ overtaken' = FALSE
            /\ UNCHANGED <<hint, sent>>
    /\ UNCHANGED <<saved, stale>>

------------------------------------------------------------------------------
(* The backend runs the commands in order. *)
Asked(c) == IF c.why = "hint" THEN c.auth.secret ELSE SecretIn(c.auth)
Run ==
    \E i \in 1..Len(calls) :
        /\ ~calls[i].ran /\ \A j \in 1..i - 1 : calls[j].ran
        /\ calls' = [calls EXCEPT ![i].ran = TRUE,
                                  ![i].found = Asked(calls[i]) \in saved]
        /\ stale' = (stale /\ calls[i].why # "hint")
        /\ UNCHANGED <<fields, hint, saved, overtaken, sent>>

(* The handler that waits for the first answer goes on. *)
Answered(why) == calls # << >> /\ Head(calls).ran /\ Head(calls).why = why

AnswerHint ==
    /\ Answered("hint")
    /\ hint' = IF Head(calls).found THEN Head(calls).auth.kind ELSE Blank
    /\ calls' = Tail(calls)
    /\ UNCHANGED <<fields, saved, overtaken, stale, sent>>

AnswerSubmit ==
    /\ Answered("submit")
    /\ \/ Head(calls).found /\ GoOn(Head(calls), Tail(calls))
       \/ ~Head(calls).found /\ calls' = Tail(calls) /\ UNCHANGED sent
    /\ UNCHANGED <<fields, hint, saved, overtaken, stale>>

(* saveProfile is done: the box for the secret is read only now. *)
AnswerProfile ==
    /\ Answered("profile")
    /\ calls' = Tail(calls)
    /\ Connect(Head(calls).auth, SaveSecretFlag(fields), Head(calls))
    /\ UNCHANGED <<fields, hint, saved, overtaken, stale>>

AnswerActivate ==
    /\ Answered("activate")
    /\ calls' = Tail(calls)
    /\ \/ Head(calls).found /\ Connect(Head(calls).auth, FALSE, Head(calls))
       \/ ~Head(calls).found /\ UNCHANGED sent
    /\ UNCHANGED <<fields, hint, saved, overtaken, stale>>

------------------------------------------------------------------------------
(* A session of any tab saves its secret on login. *)
SecretSaved(x) ==
    /\ x \notin saved
    /\ saved' = saved \cup {x} /\ stale' = TRUE
    /\ UNCHANGED <<fields, hint, calls, overtaken, sent>>

(* show: after a failed login the form comes back as it was. *)
ShowAgain ==
    /\ ~shown
    /\ sent' = Blank
    /\ RefreshHint(fields, calls)
    /\ UNCHANGED <<fields, saved, stale>>

(* prefill and show, by "Edit connection" when a live session has ended: the hint
   is refreshed by both. *)
Prefill ==
    /\ ~shown
    /\ LET f == LoadInto(sent.auth) IN
       /\ sent' = Blank
       /\ fields' = f
       /\ RefreshHint(f, Edited(calls))
    /\ UNCHANGED <<saved, stale>>

Next ==
    \/ EditField \/ Submit \/ Run \/ ShowAgain \/ Prefill
    \/ AnswerHint \/ AnswerSubmit \/ AnswerProfile \/ AnswerActivate
    \/ \E k \in Keys : Browse(k)
    \/ \E kind \in Kinds, t \in Targets, k \in Keys \cup {Blank} : Activate(kind, t, k)
    \/ \E x \in Targets \cup Keys : SecretSaved(x)

Spec == Init /\ [][Next]_vars

------------------------------------------------------------------------------
Auths == [kind : Kinds, target : Targets, key : Keys \cup {Blank}, pass : BOOLEAN]

TypeOK ==
    /\ fields \in [kind : Kinds, target : Targets \cup {Blank}, pass : BOOLEAN,
                   key : Keys \cup {Blank}, save : SUBSET Boxes, profile : BOOLEAN]
    /\ hint \in {"password", "key", Blank}
    /\ saved \subseteq Targets \cup Keys
    /\ sent # Blank =>
          sent \in [auth : Auths, save : BOOLEAN, box : BOOLEAN, edited : BOOLEAN]

(* With no lookup under way, the hint says that a secret is saved exactly if one is
   saved for what the fields say, unless the hint was set at once past a lookup, or
   the secret was saved elsewhere since. *)
HintIsTrue ==
    shown /\ HintCalls = {} /\ ~overtaken /\ ~stale =>
        hint = IF SecretIn(fields) \in saved THEN fields.kind ELSE Blank

(* A request with a password has one that was typed, or one is saved under the id of
   that very target, whatever was edited during the lookup. A request with a key has
   a key file, and one that asks to keep the secret had its box ticked, if no field
   was edited while the submit waited for an answer: edits then go out unchecked. *)
RequestIsChecked ==
    sent # Blank =>
        /\ sent.auth.kind = "password" => sent.auth.pass \/ sent.auth.target \in saved
        /\ sent.auth.kind = "key" /\ ~sent.edited => sent.auth.key \in Keys
        /\ sent.save /\ ~sent.edited => sent.box

==============================================================================
