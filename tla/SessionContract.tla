--------------------------- MODULE SessionContract ---------------------------
(***************************************************************************)
(* What the backend promises the renderer about one SSH session, whatever  *)
(* happens underneath: the order of the events it emits, when the session  *)
(* is in the registry, and when its secret and its target may be stored.   *)
(*                                                                         *)
(*    connecting -> ready -> closed        a session that came up          *)
(*    connecting -> message -> error       a session that did not          *)
(*                                                                         *)
(* "message" is the ssh:error event, every other word is an ssh:status.    *)
(* SessionManager, the model of the code, implements this module.          *)
(***************************************************************************)
EXTENDS Sequences

CONSTANT Sessions

VARIABLES
    events,    \* events[s]: what was emitted for s, oldest first
    live,      \* the sessions size() counts
    saved,     \* the sessions whose secret reached the keystore
    recorded   \* the sessions whose target reached the recents

vars == <<events, live, saved, recorded>>

Opening == <<"connecting">>
Up      == <<"connecting", "ready">>
Broken  == <<"connecting", "message">>

Init ==
    /\ events = [s \in Sessions |-> << >>]
    /\ live = {}
    /\ saved = {}
    /\ recorded = {}

Emit(s, word) == events' = [events EXCEPT ![s] = Append(@, word)]

Open(s) ==
    /\ events[s] = << >>
    /\ Emit(s, "connecting")
    /\ live' = live \cup {s}
    /\ UNCHANGED <<saved, recorded>>

(* A secret is stored only on the way from connecting to ready. *)
Save(s) ==
    /\ events[s] = Opening /\ s \in live
    /\ saved' = saved \cup {s}
    /\ UNCHANGED <<events, live, recorded>>

Record(s) ==
    /\ events[s] = Opening /\ s \in live
    /\ recorded' = recorded \cup {s}
    /\ UNCHANGED <<events, live, saved>>

Ready(s) ==
    /\ events[s] = Opening /\ s \in live
    /\ Emit(s, "ready")
    /\ UNCHANGED <<live, saved, recorded>>

(* A failure is explained first, and only for a session with nothing stored. *)
Report(s) ==
    /\ events[s] = Opening /\ s \in live
    /\ s \notin saved \cup recorded
    /\ Emit(s, "message")
    /\ UNCHANGED <<live, saved, recorded>>

(* The session leaves the registry before its last status is emitted. *)
Forget(s) ==
    /\ events[s] \in {Up, Broken} /\ s \in live
    /\ live' = live \ {s}
    /\ UNCHANGED <<events, saved, recorded>>

Finish(s) ==
    /\ s \notin live
    /\ \/ events[s] = Up     /\ Emit(s, "closed")
       \/ events[s] = Broken /\ Emit(s, "error")
    /\ UNCHANGED <<live, saved, recorded>>

Next ==
    \E s \in Sessions :
        Open(s) \/ Save(s) \/ Record(s) \/ Ready(s) \/ Report(s) \/ Forget(s) \/ Finish(s)

Spec == Init /\ [][Next]_vars

==============================================================================
