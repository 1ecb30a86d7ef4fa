----------------------------- MODULE HostKeyTrust -----------------------------
(***************************************************************************)
(* Whose key is trusted for which host: check_server_key of the session    *)
(* tasks, the KnownHostsStore they share behind a mutex, and its file.     *)
(*                                                                         *)
(* A handshake reads the store, releases the mutex, waits (minutes,        *)
(* perhaps) for the user, then takes the mutex again to store the key it   *)
(* was offered; other handshakes do the same in between. Saving is a plain *)
(* truncate-and-write, so the process may die with half a file behind it.  *)
(*                                                                         *)
(* External: the servers, which offer any key, the user, who answers any   *)
(* prompt either way, and the file system, which may refuse or cut short a *)
(* write. How a prompt travels to its dialog is SessionManager's concern.  *)
(***************************************************************************)
EXTENDS FiniteSets

CONSTANTS
    Sessions,   \* handshakes that may be under way at the same time
    Hosts,      \* the store's ids, "host:port"
    Keys,       \* raw host keys
    NoKey       \* no entry

ASSUME NoKeyAssumption == NoKey \notin Keys

VARIABLES
    entries,    \* KnownHostsStore.entries, NoKey where there is none
    disk,       \* the entries last written in full to known_hosts.json
    torn,       \* the file holds less than that: it does not parse
    unsaved,    \* this process's latest save was refused or cut short
    pc,         \* pc[s]: where check_server_key of s is
    host,       \* host[s]: the host s connects to
    key,        \* key[s]: the key its server offered
    shown,      \* shown[s]: the known key the prompt of s showed, NoKey for "unknown"
    consents    \* history: the pairs <<host, key>> the user has ever accepted

storeVars == <<entries, disk, torn, unsaved>>
taskVars  == <<host, key, shown>>
vars == <<storeVars, pc, taskVars, consents>>

Stored == [Hosts -> Keys \cup {NoKey}]
Empty  == [h \in Hosts |-> NoKey]
Pairs(store) == {p \in Hosts \X Keys : store[p[1]] = p[2]}

(* KnownHostsStore::new: a file that does not parse counts as an empty store. *)
Loaded == IF torn THEN Empty ELSE disk

(* The program may find the file of an earlier run, or of the Electron build. *)
Init ==
    /\ disk \in Stored
    /\ torn \in BOOLEAN
    /\ entries = Loaded
    /\ unsaved = FALSE
    /\ pc = [s \in Sessions |-> "idle"]
    /\ host \in [Sessions -> Hosts]
    /\ key \in [Sessions -> Keys]
    /\ shown = [s \in Sessions |-> NoKey]
    /\ consents = Pairs(disk)

------------------------------------------------------------------------------
Goto(s, from, to) == pc[s] = from /\ pc' = [pc EXCEPT ![s] = to]

Saving == {"saving", "writing"}

(* The mutex is held from the insert into the map to the end of save. *)
StoreUnlocked == \A s \in Sessions : pc[s] \notin Saving

(* A key that cannot be encoded is refused before anything else is looked at. *)
Unencodable(s) ==
    /\ Goto(s, "idle", "refused")
    /\ UNCHANGED <<storeVars, taskVars, consents>>

(* Mutant of Check: trust on first use without a word. *)
CheckSilentlyFirst(s, h, k) ==
    /\ StoreUnlocked
    /\ host' = [host EXCEPT ![s] = h]
    /\ key' = [key EXCEPT ![s] = k]
    /\ shown' = [shown EXCEPT ![s] = IF entries[h] = k THEN NoKey ELSE entries[h]]
    /\ Goto(s, "idle", IF entries[h] \in {k, NoKey} THEN "accepted" ELSE "asking")
    /\ UNCHANGED <<storeVars, consents>>

(* One look at the store under its mutex: a match passes in silence; otherwise
   the prompt says "unknown", or "changed" and which key was known. *)
Check(s, h, k) ==
    /\ StoreUnlocked
    /\ host' = [host EXCEPT ![s] = h]
    /\ key' = [key EXCEPT ![s] = k]
    /\ shown' = [shown EXCEPT ![s] = IF entries[h] = k THEN NoKey ELSE entries[h]]
    /\ Goto(s, "idle", IF entries[h] = k THEN "accepted" ELSE "asking")
    /\ UNCHANGED <<storeVars, consents>>

Accept(s) ==
    /\ Goto(s, "asking", "trusting")
    /\ consents' = consents \cup {<<host[s], key[s]>>}
    /\ UNCHANGED <<storeVars, taskVars>>

(* Mutant of Refuse: no answer counts as consent. *)
RefuseNothing(s) ==
    /\ Goto(s, "asking", "trusting")
    /\ UNCHANGED <<storeVars, taskVars, consents>>

(* Rejected, timed out, or the sender dropped. *)
Refuse(s) ==
    /\ Goto(s, "asking", "refused")
    /\ UNCHANGED <<storeVars, taskVars, consents>>

(* Mutant of Trust: the map is saved before the key is put into it. *)
TrustAfterSaving(s) ==
    /\ StoreUnlocked
    /\ Goto(s, "trusting", "accepted")
    /\ entries' = [entries EXCEPT ![host[s]] = key[s]]
    /\ disk' = entries
    /\ torn' = FALSE
    /\ unsaved' = FALSE
    /\ UNCHANGED <<taskVars, consents>>

(* KnownHostsStore::trust: into the map whatever it holds by now, then save. *)
Trust(s) ==
    /\ StoreUnlocked
    /\ Goto(s, "trusting", "saving")
    /\ entries' = [entries EXCEPT ![host[s]] = key[s]]
    /\ UNCHANGED <<disk, torn, unsaved, taskVars, consents>>

(* fs::write, first half: the file is opened and truncated. *)
Truncate(s) ==
    /\ Goto(s, "saving", "writing")
    /\ torn' = TRUE
    /\ UNCHANGED <<entries, disk, unsaved, taskVars, consents>>

(* fs::write, second half. *)
Write(s) ==
    /\ Goto(s, "writing", "accepted")
    /\ disk' = entries
    /\ torn' = FALSE
    /\ unsaved' = FALSE
    /\ UNCHANGED <<entries, taskVars, consents>>

(* Either half fails; save does not look, and the handshake goes on. *)
SaveFailed(s) ==
    /\ Goto(s, "saving", "accepted") \/ Goto(s, "writing", "accepted")
    /\ unsaved' = TRUE
    /\ UNCHANGED <<entries, disk, torn, taskVars, consents>>

(* The session is over; its place may be taken by another. *)
End(s) ==
    /\ Goto(s, "accepted", "idle") \/ Goto(s, "refused", "idle")
    /\ UNCHANGED <<storeVars, taskVars, consents>>

(* The process ends at any point, and a new one loads what the file holds. *)
Restart ==
    /\ pc' = [s \in Sessions |-> "idle"]
    /\ entries' = Loaded
    /\ unsaved' = FALSE
    /\ UNCHANGED <<disk, torn, taskVars, consents>>

TaskStep(s) == Trust(s) \/ Truncate(s) \/ Write(s) \/ SaveFailed(s)

Next ==
    \/ \E s \in Sessions :
          \/ Unencodable(s)
          \/ \E h \in Hosts, k \in Keys : Check(s, h, k)
          \/ Accept(s)
          \/ Refuse(s)
          \/ TaskStep(s)
          \/ End(s)
    \/ Restart

Spec == Init /\ [][Next]_vars

------------------------------------------------------------------------------
(* Every variable keeps its type. *)
TypeOK ==
    /\ entries \in Stored /\ disk \in Stored
    /\ torn \in BOOLEAN /\ unsaved \in BOOLEAN
    /\ pc \in [Sessions -> {"idle", "asking", "trusting", "saving", "writing",
                            "accepted", "refused"}]
    /\ host \in [Sessions -> Hosts]
    /\ key \in [Sessions -> Keys]
    /\ shown \in [Sessions -> Keys \cup {NoKey}]
    /\ consents \subseteq Hosts \X Keys

(* Whatever crashes, failed saves and other handshakes do, no key is in the
   store or in its file for a host unless the user accepted it for that host. *)
OnlyConsented == Pairs(entries) \cup Pairs(disk) \subseteq consents

(* A handshake goes on only with a key the user accepted for its host: at this
   prompt, or at an earlier one whose answer was stored (README.md:118). *)
AcceptedByConsent ==
    \A s \in Sessions :
        pc[s] \in {"trusting", "accepted"} \cup Saving => <<host[s], key[s]>> \in consents

(* Unless the latest save failed, what the process believes outside a save is
   what the next one will load: a restart neither loses nor revives a decision. *)
StoreIsCurrent == StoreUnlocked /\ ~unsaved => entries = Loaded

(* Changed host keys are surfaced: whoever replaces a stored key by another has
   had it shown to the user (README.md:118, "changes are surfaced loudly"). *)
NoSilentChange ==
    [][\A s \in Sessions :
          pc[s] = "trusting" /\ pc'[s] = "saving" /\ entries[host[s]] \notin {NoKey, key[s]}
              => shown[s] = entries[host[s]]]_vars
==============================================================================
