--------------------------- MODULE ForwardContract ---------------------------
(***************************************************************************)
(* What local forwarding promises to those who see a forward from outside: *)
(* the panel that asked for it, the programs that connect to its port, and *)
(* the tab that is told how it fares. Channels, tokens and tasks are not   *)
(* seen from there.                                                        *)
(*                                                                         *)
(*    requested -> serving -> over       told "active", then "stopped"     *)
(*    requested -> failed                told "error"                      *)
(*                                                                         *)
(* PortForwards, the model of the code, implements this module.            *)
(***************************************************************************)
EXTENDS Naturals, Sequences

CONSTANTS Sessions, Forwards, Ports

VARIABLES
    live,          \* the sessions that have not ended
    owner,         \* owner[f]: the session f was added to
    port,          \* port[f]: the local port it is for
    phase,         \* phase[f]: none, requested, serving, over or failed
    revoked,       \* the forwards that must stop
    connections,   \* connections[f]: those f accepted that are still there
    wire           \* wire[s]: what the tab of s was told and has not heard

places == <<owner, port>>
vars   == <<live, places, phase, revoked, connections, wire>>

Terminal == [status |-> "ended"]

Tell(s, event) == wire' = [wire EXCEPT ![s] = Append(@, event)]
Move(f, from, to) == phase[f] = from /\ phase' = [phase EXCEPT ![f] = to]

(* A forward whose session is over goes on only to be stopped. *)
Wanted(f) == owner[f] \in live \/ f \in revoked

Init ==
    /\ live = Sessions
    /\ owner \in [Forwards -> Sessions] /\ port \in [Forwards -> Ports]
    /\ phase = [f \in Forwards |-> "none"]
    /\ revoked = {}
    /\ connections = [f \in Forwards |-> 0]
    /\ wire = [s \in Sessions |-> << >>]

Request(f) ==
    /\ owner[f] \in live
    /\ Move(f, "none", "requested")
    /\ UNCHANGED <<live, places, revoked, connections, wire>>

(* One port is served by one forward at a time. *)
Serve(f) ==
    /\ Wanted(f)
    /\ \A g \in Forwards \ {f} : phase[g] = "serving" => port[g] # port[f]
    /\ Move(f, "requested", "serving")
    /\ Tell(owner[f], [forward |-> f, status |-> "active"])
    /\ UNCHANGED <<live, places, revoked, connections>>

Fail(f) ==
    /\ Wanted(f)
    /\ Move(f, "requested", "failed")
    /\ Tell(owner[f], [forward |-> f, status |-> "error"])
    /\ UNCHANGED <<live, places, revoked, connections>>

(* A session revokes forwards of its own, and no others. *)
Revoke(s) ==
    /\ s \in live
    /\ \E fs \in SUBSET {f \in Forwards : owner[f] = s /\ phase[f] # "none"} :
          revoked' = revoked \cup fs
    /\ UNCHANGED <<live, places, phase, connections, wire>>

(* Nothing but being revoked ends a forward that serves. *)
Stop(f) ==
    /\ f \in revoked
    /\ Move(f, "serving", "over")
    /\ Tell(owner[f], [forward |-> f, status |-> "stopped"])
    /\ UNCHANGED <<live, places, revoked, connections>>

(* A session ends when all it serves is revoked. *)
End(s) ==
    /\ s \in live
    /\ \A f \in Forwards : owner[f] = s /\ phase[f] = "serving" => f \in revoked
    /\ live' = live \ {s}
    /\ Tell(s, Terminal)
    /\ UNCHANGED <<places, phase, revoked, connections>>

Connect(f) ==
    /\ phase[f] = "serving"
    /\ connections' = [connections EXCEPT ![f] = @ + 1]
    /\ UNCHANGED <<live, places, phase, revoked, wire>>

Disconnect(f) ==
    /\ connections[f] > 0
    /\ connections' = [connections EXCEPT ![f] = @ - 1]
    /\ UNCHANGED <<live, places, phase, revoked, wire>>

Hear(s) ==
    /\ wire[s] # << >>
    /\ wire' = [wire EXCEPT ![s] = Tail(@)]
    /\ UNCHANGED <<live, places, phase, revoked, connections>>

Next ==
    \/ \E s \in Sessions : Revoke(s) \/ End(s) \/ Hear(s)
    \/ \E f \in Forwards :
          Request(f) \/ Serve(f) \/ Fail(f) \/ Stop(f) \/ Connect(f) \/ Disconnect(f)

Spec == Init /\ [][Next]_vars

==============================================================================
