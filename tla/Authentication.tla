---------------------------- MODULE Authentication ----------------------------
(***************************************************************************)
(* Which secret a login uses, to whom it is given, and which one is saved: *)
(* the injection of saved secrets and the pending save of ssh_connect      *)
(* (commands.rs), the methods and the keyboard-interactive loop of         *)
(* auth.rs, and the keystore (secrets.rs). Prompts as messages, their      *)
(* timeouts, and ends of a login that have nothing to do with              *)
(* authentication are those of SessionManager; that module also has the    *)
(* steps ssh_connect is made of, which are one here.                       *)
(*                                                                         *)
(* External: the server, which knows one password for a target and decides *)
(* which methods it allows and what it asks; key files, the agent, the     *)
(* keystore of the system, and the user.                                   *)
(***************************************************************************)
EXTENDS Naturals, Sequences

CONSTANTS
    Sessions,
    Words,          \* runs of characters other than "@" and ":"
    Targets,        \* <<user, host, port>>: two texts and a word
    KeyFiles,
    Secrets,        \* passwords and passphrases
    NoSecret,       \* none given, none saved; for a key file: it is not encrypted
    MaxRounds       \* bound: rounds of keyboard-interactive in a login

(* A text is cut at each "@" and ":", so that two are the same string exactly if
   they are the same sequence; no two words are adjacent. *)
IsText(t) ==
    /\ t \in Seq(Words \cup {"@", ":"})
    /\ \A i \in 1..Len(t) - 1 : t[i] \in Words => t[i + 1] \notin Words

ASSUME AuthAssumption ==
    /\ Words \cap {"@", ":"} = {}
    /\ \A t \in Targets : /\ t = <<t[1], t[2], t[3]>>
                           /\ IsText(t[1]) /\ IsText(t[2]) /\ t[3] \in Words
    /\ KeyFiles \cap Targets = {}
    /\ NoSecret \notin Secrets
    /\ MaxRounds \in Nat

(* Mutant of PasswordId: the port is forgotten. *)
HostId(t) == <<"pw", ":">> \o t[1] \o <<"@">> \o t[2]

(* password_id and passphrase_id: pw:user@host:port and pp:path. *)
PasswordId(t)   == <<"pw", ":">> \o t[1] \o <<"@">> \o t[2] \o <<":", t[3]>>
PassphraseId(k) == <<"pp", ":", k>>

(* What secrets belong to, and the id each has in the keystore. *)
Places == Targets \cup KeyFiles
IdOf(x) == IF x \in KeyFiles THEN PassphraseId(x) ELSE PasswordId(x)
Ids == {IdOf(x) : x \in Places}

(* AuthMethod, with the place its secret belongs to: the target of a password, the
   file of a passphrase. Which target a key or an agent logs in to changes nothing. *)
AgentRequest == [kind |-> "agent", place |-> "none", secret |-> NoSecret]
Requests ==
    [kind : {"password"}, place : Targets, secret : Secrets \cup {NoSecret}]
    \cup [kind : {"key"}, place : KeyFiles, secret : Secrets \cup {NoSecret}]
    \cup {AgentRequest}

(* What a server may ask in a round: one hidden prompt, for the password or for a
   one-time code, which look alike; a prompt that echoes; several; or none. *)
Rounds == {"password", "code", "visible", "several", "none"}
OneHidden == {"password", "code"}

VARIABLES
    right,       \* right[x]: the secret the target, or the key file, takes
    keystore,    \* keystore[id]: the saved secret
    pc,          \* pc[s]: where connect_and_auth of s is
    req,         \* req[s]: the request, with the secret in it that was typed or injected
    pending,     \* pending[s]: the secret that on_ready will save
    autoUsed,    \* sessions that have answered a prompt with their password
    round,       \* round[s]: the round the server has asked for
    count,       \* count[s]: rounds so far
    typed,       \* history: <<place, secret>> users typed into forms for a target or file
    offered,     \* history: <<place, secret>> given to the target, or tried on the file
    unproved     \* history: <<place, secret>> of logins that something else completed

vars == <<right, keystore, pc, req, pending, autoUsed, round, count, typed, offered, unproved>>

Init ==
    /\ right \in [Places -> Secrets \cup {NoSecret}]
    /\ \A t \in Targets : right[t] # NoSecret
    /\ keystore = [id \in Ids |-> NoSecret]
    /\ pc = [s \in Sessions |-> "idle"]
    /\ req = [s \in Sessions |-> AgentRequest]
    /\ pending = [s \in Sessions |-> NoSecret]
    /\ autoUsed = {}
    /\ round = [s \in Sessions |-> "none"]
    /\ count = [s \in Sessions |-> 0]
    /\ typed = {} /\ offered = {} /\ unproved = {}

------------------------------------------------------------------------------
(* A request without a secret gets the saved one, if there is one. *)
Injected(r) ==
    IF r.kind # "agent" /\ r.secret = NoSecret
    THEN [r EXCEPT !.secret = keystore[IdOf(r.place)]] ELSE r

(* ssh_connect. *)
Connect(s, r, save) ==
    /\ pc[s] = "idle"
    /\ pc' = [pc EXCEPT ![s] = "primary"]
    /\ req' = [req EXCEPT ![s] = Injected(r)]
    /\ pending' = [pending EXCEPT ![s] = IF save THEN Injected(r).secret ELSE NoSecret]
    /\ typed' = typed \cup (IF r.secret = NoSecret THEN {} ELSE {<<r.place, r.secret>>})
    /\ UNCHANGED <<right, keystore, autoUsed, round, count, offered, unproved>>

Goto(s, where) == pc' = [pc EXCEPT ![s] = where]

(* A login is over: the pending secret is taken out of its map, and with the task go
   the locals of keyboard_interactive. *)
Over(s) ==
    /\ Goto(s, "over")
    /\ pending' = [pending EXCEPT ![s] = NoSecret]
    /\ autoUsed' = autoUsed \ {s}
    /\ round' = [round EXCEPT ![s] = "none"]
    /\ count' = [count EXCEPT ![s] = 0]

(* Mutant of Fail: the secret is saved although nobody has logged in with it. *)
FailSaving(s) ==
    /\ Over(s)
    /\ keystore' = IF pending[s] # NoSecret
                   THEN [keystore EXCEPT ![IdOf(req[s].place)] = pending[s]] ELSE keystore
    /\ UNCHANGED <<right, req, typed, unproved>>

(* fail: cleanup drops the pending secret. *)
Fail(s) == Over(s) /\ UNCHANGED <<right, keystore, req, typed, unproved>>

(* The login succeeds, by the secret of the request or otherwise; on_ready saves the
   pending secret, which the keystore may refuse. *)
LogIn(s, otherwise) ==
    /\ Over(s)
    /\ keystore' \in {keystore} \cup
          (IF pending[s] = NoSecret THEN {}
           ELSE {[keystore EXCEPT ![IdOf(req[s].place)] = pending[s]]})
    /\ unproved' = unproved \cup (IF otherwise /\ req[s].secret # NoSecret
                               THEN {<<req[s].place, req[s].secret>>} ELSE {})
    /\ UNCHANGED <<right, req, typed>>

(* The server does not take the primary method, or wants more. *)
FallBack(s) ==
    /\ Goto(s, "asking")
    /\ UNCHANGED <<right, keystore, req, pending, autoUsed, round, count, typed, unproved>>

Offer(s) == offered' = offered \cup {<<req[s].place, req[s].secret>>}
Takes(s) == right[req[s].place] = req[s].secret

------------------------------------------------------------------------------
(* auth_password: not tried without a password. *)
AuthPassword(s) ==
    /\ pc[s] = "primary" /\ req[s].kind = "password"
    /\ \/ req[s].secret = NoSecret /\ FallBack(s) /\ UNCHANGED offered
       \/ /\ req[s].secret # NoSecret
          /\ Offer(s)
          /\ FallBack(s) \/ Fail(s) \/ (Takes(s) /\ LogIn(s, FALSE))

(* auth_key: a file that cannot be read, or decoded with this passphrase, ends the
   login; a passphrase does no harm to a key that is not encrypted. *)
AuthKey(s) ==
    /\ pc[s] = "primary" /\ req[s].kind = "key"
    /\ IF req[s].secret = NoSecret THEN UNCHANGED offered ELSE Offer(s)
    /\ \/ Fail(s)
       \/ /\ right[req[s].place] \in {NoSecret, req[s].secret}
          /\ FallBack(s) \/ LogIn(s, FALSE)

(* auth_agent: no agent, or no identity in it, ends the login. *)
AuthAgent(s) ==
    /\ pc[s] = "primary" /\ req[s].kind = "agent"
    /\ UNCHANGED offered
    /\ Fail(s) \/ FallBack(s) \/ LogIn(s, FALSE)

------------------------------------------------------------------------------
(* keyboard_interactive. *)

(* The server's next InfoRequest. *)
Ask(s, kind) ==
    /\ pc[s] = "asking" /\ count[s] < MaxRounds
    /\ Goto(s, "round")
    /\ round' = [round EXCEPT ![s] = kind]
    /\ count' = [count EXCEPT ![s] = @ + 1]
    /\ UNCHANGED <<right, keystore, req, pending, autoUsed, typed, offered, unproved>>

(* The server has had enough, or will have no more of this. *)
Refuse(s) == pc[s] = "asking" /\ Fail(s) /\ UNCHANGED offered

(* A password may answer one round by itself: one prompt, which is hidden. *)
HasPassword(s) == req[s].kind = "password" /\ req[s].secret # NoSecret
Automatic(s) == HasPassword(s) /\ s \notin autoUsed /\ round[s] \in OneHidden

(* The answer was wrong, or was not all: the server goes on. *)
GoOn(s, auto) ==
    /\ Goto(s, "asking")
    /\ round' = [round EXCEPT ![s] = "none"]
    /\ autoUsed' = IF auto THEN autoUsed \cup {s} ELSE autoUsed
    /\ UNCHANGED <<right, keystore, req, pending, count, typed, unproved>>

AutoAnswer(s) ==
    /\ pc[s] = "round" /\ Automatic(s)
    /\ Offer(s)
    /\ \/ GoOn(s, TRUE)
       \/ round[s] = "password" /\ Takes(s) /\ LogIn(s, FALSE)

(* An informational round is answered with nothing; it may follow others. *)
EmptyAnswer(s) ==
    /\ pc[s] = "round" /\ round[s] = "none"
    /\ GoOn(s, FALSE) \/ LogIn(s, TRUE)
    /\ UNCHANGED offered

(* ask_renderer: the user answers, or cancels, which the server takes for wrong. *)
UserAnswer(s) ==
    /\ pc[s] = "round" /\ round[s] # "none" /\ ~Automatic(s)
    /\ GoOn(s, FALSE) \/ LogIn(s, TRUE)
    /\ UNCHANGED offered

Next ==
    \/ \E s \in Sessions :
          \/ \E r \in Requests, save \in BOOLEAN : Connect(s, r, save)
          \/ AuthPassword(s) \/ AuthKey(s) \/ AuthAgent(s)
          \/ \E kind \in Rounds : Ask(s, kind)
          \/ Refuse(s) \/ AutoAnswer(s) \/ EmptyAnswer(s) \/ UserAnswer(s)

Spec == Init /\ [][Next]_vars

------------------------------------------------------------------------------
(* Two places share an entry of the keystore if they are one, or if "user@host" can
   be read in two ways, as only an "@" in a host makes possible. *)
AtInHost(x) == x \in Targets /\ \E i \in 1..Len(x[2]) : x[2][i] = "@"
ShareEntry(x, y) == x = y \/ (IdOf(x) = IdOf(y) /\ (AtInHost(x) \/ AtInHost(y)))

(* A secret goes only where it belongs: a target, or a key file, sees what somebody
   typed for it in a form, in this login or in one that saved it, and nothing that
   was typed or saved for another, whatever users, hosts and ports have in common;
   except for the other reading of a "user@host" with an "@" in the host. *)
SecretsStayHome ==
    \A o \in offered : \E t \in typed : t[2] = o[2] /\ ShareEntry(o[1], t[1])

(* The secret saved for a place is the right one, for it or for one that shares its
   entry, unless the login that saved it was completed by something else:
   ssh_connect picks the secret to save before anyone knows which will log in. *)
SavedSecretsWork ==
    \A x \in Places : LET v == keystore[IdOf(x)] IN
        v # NoSecret =>
            \E y \in Places :
                /\ ShareEntry(x, y)
                /\ right[y] \in {NoSecret, v} \/ <<y, v>> \in unproved

==============================================================================
