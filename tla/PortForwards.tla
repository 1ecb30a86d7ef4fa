----------------------------- MODULE PortForwards -----------------------------
(***************************************************************************)
(* Local port forwarding: the commands of the forwards panel, the tokens   *)
(* the session task owns, one task per forward (its accept loop), one per  *)
(* tunneled connection, the list each tab keeps, which follows them        *)
(* through ssh:forward-status events only, and the panel, which shows the  *)
(* list of the tab that was active when it was last rendered.              *)
(*                                                                         *)
(* A session enters this module when ssh_connect has answered and its tab  *)
(* is registered; login, shell traffic and the last status are those of    *)
(* SessionManager, reduced here to what forwards can tell apart.           *)
(*                                                                         *)
(* External: the operating system's ports, local clients, and the server's *)
(* answers to direct-tcpip requests.                                       *)
(***************************************************************************)
EXTENDS Naturals, Sequences, FiniteSets

CONSTANTS
    Sessions,     \* live sessions, each shown by a tab of its own
    Forwards,     \* bound: the forward ids forward_add hands out (UUIDs, never reused)
    Ports,        \* local ports
    MaxQueue,     \* bound: commands waiting in one session's channel
    MaxTunnels,   \* bound: connections any forward has when one more is accepted
    None          \* no session

ASSUME ForwardBounds == MaxQueue \in Nat \ {0} /\ MaxTunnels \in Nat /\ None \notin Sessions

VARIABLES
    session,      \* session[s]: where run_session of s is
    inbox,        \* inbox[s]: the commands its channel holds
    owner,        \* owner[f]: the session f was added to
    port,         \* port[f]: spec.local_port of f
    tokens,       \* the forwards of the HashMap in run_session, all sessions together
    cancelled,    \* the forwards whose CancellationToken is cancelled
    pc,           \* pc[f]: where run_forward of f is
    opening,      \* opening[f]: tunnels awaiting their direct-tcpip channel
    pumping,      \* pumping[f]: tunnels copying bytes
    wire,         \* wire[s]: events emitted for s that the renderer has not handled
    tab,          \* tab[s]: "open" while bySessionId maps s to its tab
    list,         \* list[f]: the status the tab keeps for f
    active,       \* the session whose tab is active; None for a tab that never had one
    panel         \* what the panel shows: the rows of a session; Closed

sessionVars == <<session, inbox, tokens, cancelled>>
forwardVars == <<owner, port, pc>>
tunnelVars  == <<opening, pumping>>
tabVars     == <<tab, list>>
viewVars    == <<active, panel>>
vars == <<sessionVars, forwardVars, tunnelVars, wire, tabVars, viewVars>>

Command       == [op : {"add", "stop"}, forward : Forwards] \cup {[op |-> "disconnect"]}
Add(f)        == [op |-> "add", forward |-> f]
Stop(f)       == [op |-> "stop", forward |-> f]

(* ssh:forward-status, and the ssh:status that ends a session. *)
Status(f, st) == [forward |-> f, status |-> st]
Terminal      == [status |-> "ended"]
Event         == [forward : Forwards, status : {"active", "error", "stopped"}] \cup {Terminal}

Mine(s)  == {f \in Forwards : pc[f] # "unused" /\ owner[f] = s}
Holds(f) == pc[f] \in {"bound", "listening", "dropping"}
PortFree(p) == \A f \in Forwards : Holds(f) => port[f] # p

(* The panel when it is not open. *)
Closed == [of |-> None, rows |-> << >>]

Init ==
    /\ session = [s \in Sessions |-> "login"]
    /\ inbox = [s \in Sessions |-> << >>]
    /\ owner \in [Forwards -> Sessions] /\ port \in [Forwards -> Ports]
    /\ tokens = {} /\ cancelled = {}
    /\ pc = [f \in Forwards |-> "unused"]
    /\ opening = [f \in Forwards |-> 0]
    /\ pumping = [f \in Forwards |-> 0]
    /\ wire = [s \in Sessions |-> << >>]
    /\ tab = [s \in Sessions |-> "open"]
    /\ list = [f \in Forwards |-> "absent"]
    /\ active \in Sessions \cup {None} /\ panel = Closed

Emit(s, event) == wire' = [wire EXCEPT ![s] = Append(@, event)]
Step(f, from, to) == pc[f] = from /\ pc' = [pc EXCEPT ![f] = to]

------------------------------------------------------------------------------
(* The renderer and the commands it invokes. *)

(* The session is looked up in the registry, which it leaves in Cleanup. *)
Send(s, cmd) ==
    /\ session[s] # "gone"
    /\ Len(inbox[s]) < MaxQueue
    /\ inbox' = [inbox EXCEPT ![s] = Append(@, cmd)]

(* activeForwardTarget: the session of the active tab, if it has one. *)
Target == IF active # None /\ tab[active] = "open" THEN active ELSE None

(* render: the rows of that session, or none. *)
Rendering ==
    [of   |-> Target,
     rows |-> [f \in Forwards |-> IF owner[f] = Target THEN list[f] ELSE "absent"]]

OnlyView == UNCHANGED <<sessionVars, forwardVars, tunnelVars, wire, tabVars>>

OpenPanel == panel = Closed /\ panel' = Rendering /\ OnlyView /\ UNCHANGED active

ClosePanel == panel # Closed /\ panel' = Closed /\ OnlyView /\ UNCHANGED active

(* A shortcut, or a prompt, brings another tab to the front. The panel stays. *)
ActivateTab(s) ==
    /\ s # active /\ (s # None => tab[s] # "closed")
    /\ active' = s
    /\ OnlyView /\ UNCHANGED panel

(* The panel's Add, when it shows a session, for the one of the active tab:
   forward_add answers with a fresh id, and says nothing of the outcome. *)
AddForward(s, f) ==
    /\ panel.of # None /\ Target = s /\ owner[f] = s
    /\ Step(f, "unused", "queued")
    /\ Send(s, Add(f))
    /\ UNCHANGED <<session, tokens, cancelled, owner, port, tunnelVars, wire, tabVars, viewVars>>

(* The cross at the end of a row, titled Stop or, for an error, Dismiss. *)
StopForward(f) ==
    /\ panel.of # None /\ panel.rows[f] # "absent"
    /\ Send(panel.of, Stop(f))
    /\ UNCHANGED <<session, tokens, cancelled, forwardVars, tunnelVars, wire, tabVars, viewVars>>

(* Tab.dispose: ask for a disconnect (nobody to ask when the session is gone)
   and forget the session; the list goes with the tab. A closed tab that was
   active gives way to another. *)
CloseTab(s) ==
    /\ tab[s] = "open"
    /\ tab' = [tab EXCEPT ![s] = "closed"]
    /\ list' = [f \in Forwards |-> IF owner[f] = s THEN "absent" ELSE list[f]]
    /\ inbox' = IF session[s] # "gone"
                THEN [inbox EXCEPT ![s] = Append(@, [op |-> "disconnect"])] ELSE inbox
    /\ IF active = s THEN \E r \in Sessions \cup {None} :
                            /\ r # s /\ (r # None => tab[r] # "closed")
                            /\ active' = r
       ELSE UNCHANGED active
    /\ UNCHANGED <<session, tokens, cancelled, forwardVars, tunnelVars, wire, panel>>

(* FORWARDS_CHANGED: a panel that is open is rendered again, for the tab that is
   active now. *)
ForwardsChanged == panel' = IF panel = Closed THEN Closed ELSE Rendering'

(* Mutant of UpdateForward: a stopped forward is shown like the others. *)
ShowEveryStatus(event) ==
    /\ list' = [list EXCEPT ![event.forward] = event.status]
    /\ UNCHANGED tab
    /\ ForwardsChanged

(* Tab.updateForward. *)
UpdateForward(event) ==
    /\ list' = [list EXCEPT ![event.forward] =
                   IF event.status = "stopped" THEN "absent" ELSE event.status]
    /\ UNCHANGED tab
    /\ ForwardsChanged

(* Mutant of SetOver: the list is cleared, and nobody is told. *)
SetOverSilently(s) ==
    /\ tab' = [tab EXCEPT ![s] = "ended"]
    /\ list' = [f \in Forwards |-> IF owner[f] = s THEN "absent" ELSE list[f]]
    /\ UNCHANGED panel

(* Tab.setStatus, for a last status: unregister, and clear the list. *)
SetOver(s) ==
    /\ tab' = [tab EXCEPT ![s] = "ended"]
    /\ list' = [f \in Forwards |-> IF owner[f] = s THEN "absent" ELSE list[f]]
    /\ IF list' = list THEN UNCHANGED panel ELSE ForwardsChanged

(* The renderer handles the next event of s; once s has no tab, it drops it. *)
Deliver(s) ==
    LET event == Head(wire[s]) IN
    /\ wire[s] # << >>
    /\ wire' = [wire EXCEPT ![s] = Tail(@)]
    /\ UNCHANGED <<sessionVars, forwardVars, tunnelVars, active>>
    /\ \/ tab[s] # "open" /\ UNCHANGED <<tabVars, panel>>
       \/ tab[s] = "open" /\ event.status = "ended" /\ SetOver(s)
       \/ tab[s] = "open" /\ event.status # "ended" /\ UpdateForward(event)

------------------------------------------------------------------------------
(* The session task. *)

Advance(s, from, to) == session[s] = from /\ session' = [session EXCEPT ![s] = to]

LoginSucceeded(s) ==
    /\ Advance(s, "login", "loop")
    /\ UNCHANGED <<inbox, tokens, cancelled, forwardVars, tunnelVars, wire, tabVars, viewVars>>

(* The commands that were waiting are dropped with the receiver. *)
LoginFailed(s) ==
    /\ Advance(s, "login", "gone")
    /\ inbox' = [inbox EXCEPT ![s] = << >>]
    /\ Emit(s, Terminal)
    /\ UNCHANGED <<tokens, cancelled, forwardVars, tunnelVars, tabVars, viewVars>>

Take(s) ==
    /\ session[s] = "loop" /\ inbox[s] # << >>
    /\ inbox' = [inbox EXCEPT ![s] = Tail(@)]

TakeAdd(s) ==
    LET cmd == Head(inbox[s]) IN
    /\ Take(s) /\ cmd.op = "add"
    /\ tokens' = tokens \cup {cmd.forward}
    /\ Step(cmd.forward, "queued", "spawned")
    /\ UNCHANGED <<session, cancelled, owner, port, tunnelVars, wire, tabVars, viewVars>>

TakeStop(s) ==
    LET cmd == Head(inbox[s]) IN
    /\ Take(s) /\ cmd.op = "stop"
    /\ tokens' = tokens \ {cmd.forward}
    /\ cancelled' = cancelled \cup ({cmd.forward} \cap tokens)
    /\ UNCHANGED <<session, forwardVars, tunnelVars, wire, tabVars, viewVars>>

TakeDisconnect(s) ==
    /\ Take(s) /\ Head(inbox[s]).op = "disconnect"
    /\ Advance(s, "loop", "cancelling")
    /\ UNCHANGED <<tokens, cancelled, forwardVars, tunnelVars, wire, tabVars, viewVars>>

ChannelClosed(s) ==
    /\ Advance(s, "loop", "cancelling")
    /\ UNCHANGED <<inbox, tokens, cancelled, forwardVars, tunnelVars, wire, tabVars, viewVars>>

(* Mutant of CancelAll: leave the tokens to be dropped with the map. *)
CancelNone(s) ==
    /\ Advance(s, "cancelling", "leaving")
    /\ UNCHANGED <<inbox, tokens, cancelled, forwardVars, tunnelVars, wire, tabVars, viewVars>>

CancelAll(s) ==
    /\ Advance(s, "cancelling", "leaving")
    /\ cancelled' = cancelled \cup (tokens \cap Mine(s))
    /\ UNCHANGED <<inbox, tokens, forwardVars, tunnelVars, wire, tabVars, viewVars>>

(* handle.disconnect, cleanup with its last status, and the end of the task. *)
Cleanup(s) ==
    /\ Advance(s, "leaving", "gone")
    /\ inbox' = [inbox EXCEPT ![s] = << >>]
    /\ tokens' = tokens \ Mine(s)
    /\ Emit(s, Terminal)
    /\ UNCHANGED <<cancelled, forwardVars, tunnelVars, tabVars, viewVars>>

------------------------------------------------------------------------------
(* run_forward. *)

OnlyForward == UNCHANGED <<sessionVars, owner, port, tunnelVars, tabVars, viewVars>>

Bind(f) ==
    /\ PortFree(port[f])
    /\ Step(f, "spawned", "bound")
    /\ OnlyForward /\ UNCHANGED wire

(* Mutant of BindFailed: the error is kept to itself. *)
BindFailedSilently(f) == Step(f, "spawned", "failed") /\ OnlyForward /\ UNCHANGED wire

(* The port is in use, or the system refuses it: the task is over. *)
BindFailed(f) ==
    /\ Step(f, "spawned", "failed")
    /\ Emit(owner[f], Status(f, "error"))
    /\ OnlyForward

Activate(f) ==
    /\ Step(f, "bound", "listening")
    /\ Emit(owner[f], Status(f, "active"))
    /\ OnlyForward

(* Either branch of the select may win, so connections are still accepted
   between the cancel and the end of the loop. *)
Accept(f) ==
    /\ pc[f] = "listening"
    /\ \A g \in Forwards : opening[g] + pumping[g] < MaxTunnels
    /\ opening' = [opening EXCEPT ![f] = @ + 1]
    /\ UNCHANGED <<sessionVars, forwardVars, pumping, wire, tabVars, viewVars>>

(* Mutant of Stopped: the loop is left by returning, past the last event. *)
StoppedSilently(f) ==
    /\ f \in cancelled
    /\ Step(f, "listening", "dropping")
    /\ OnlyForward /\ UNCHANGED wire

Stopped(f) ==
    /\ f \in cancelled
    /\ Step(f, "listening", "dropping")
    /\ Emit(owner[f], Status(f, "stopped"))
    /\ OnlyForward

(* The listener is dropped when run_forward returns, after the event. *)
Drop(f) == Step(f, "dropping", "done") /\ OnlyForward /\ UNCHANGED wire

------------------------------------------------------------------------------
(* tunnel_connection. *)

OnlyTunnels == UNCHANGED <<sessionVars, forwardVars, wire, tabVars, viewVars>>

TunnelOpened(f) ==
    /\ opening[f] > 0
    /\ opening' = [opening EXCEPT ![f] = @ - 1]
    /\ pumping' = [pumping EXCEPT ![f] = @ + 1]
    /\ OnlyTunnels

(* The server refuses the channel, or the connection to it is gone. *)
TunnelRefused(f) ==
    /\ opening[f] > 0
    /\ opening' = [opening EXCEPT ![f] = @ - 1]
    /\ OnlyTunnels /\ UNCHANGED pumping

(* Either end closes, or breaks. *)
TunnelClosed(f) ==
    /\ pumping[f] > 0
    /\ pumping' = [pumping EXCEPT ![f] = @ - 1]
    /\ OnlyTunnels /\ UNCHANGED opening

(* Mutant of TunnelCancelled: the tunnel does not listen to the token. *)
TunnelUncancelled(f) == FALSE /\ TunnelClosed(f)

TunnelCancelled(f) == f \in cancelled /\ TunnelClosed(f)

------------------------------------------------------------------------------
SessionStep(s) ==
    \/ LoginSucceeded(s) \/ LoginFailed(s)
    \/ TakeAdd(s) \/ TakeStop(s) \/ TakeDisconnect(s)
    \/ CancelAll(s) \/ Cleanup(s)

ForwardStep(f) == Bind(f) \/ BindFailed(f) \/ Activate(f) \/ Stopped(f) \/ Drop(f)

(* All forwards are over, no event is on its way, and no tab is open. *)
Rest ==
    /\ \A s \in Sessions : session[s] = "gone" /\ wire[s] = << >> /\ tab[s] # "open"
    /\ \A f \in Forwards : pc[f] \in {"unused", "queued", "failed", "done"}
    /\ UNCHANGED vars

Next ==
    \/ \E s \in Sessions :
          \/ \E f \in Forwards : AddForward(s, f)
          \/ CloseTab(s) \/ ActivateTab(s) \/ Deliver(s)
          \/ SessionStep(s) \/ ChannelClosed(s)
    \/ \E f \in Forwards :
          \/ StopForward(f)
          \/ ForwardStep(f) \/ Accept(f)
          \/ TunnelOpened(f) \/ TunnelRefused(f) \/ TunnelClosed(f) \/ TunnelCancelled(f)
    \/ OpenPanel \/ ClosePanel \/ ActivateTab(None)
    \/ Rest

Spec == Init /\ [][Next]_vars

(* The runtime schedules the tasks that can run, and the renderer handles its
   events. The server that is asked for a channel owes no answer. *)
Fairness ==
    /\ \A s \in Sessions : WF_vars(Deliver(s))
    /\ \A f \in Forwards : WF_vars(ForwardStep(f)) /\ WF_vars(TunnelCancelled(f))

FairSpec == Spec /\ Fairness

------------------------------------------------------------------------------
(* A forward as it looks from outside: queued, spawned and bound are one. *)
Phase(f) ==
    CASE pc[f] = "unused"              -> "none"
      [] pc[f] = "listening"           -> "serving"
      [] pc[f] = "failed"              -> "failed"
      [] pc[f] \in {"dropping", "done"} -> "over"
      [] OTHER                         -> "requested"

(* Forwards keep their promise (ForwardContract): told of in one order, serving a
   port alone, only while their session is there or they are being stopped, and
   stopped only by their own session, before it ends. *)
Promise == INSTANCE ForwardContract WITH
    live        <- {s \in Sessions : session[s] # "gone"},
    phase       <- [f \in Forwards |-> Phase(f)],
    revoked     <- cancelled,
    connections <- [f \in Forwards |-> opening[f] + pumping[f]]

PromiseKept == Promise!Spec

------------------------------------------------------------------------------
(* Every variable keeps its type. *)
TypeOK ==
    /\ session \in [Sessions -> {"login", "loop", "cancelling", "leaving", "gone"}]
    /\ inbox \in [Sessions -> Seq(Command)]
    /\ owner \in [Forwards -> Sessions] /\ port \in [Forwards -> Ports]
    /\ tokens \subseteq Forwards /\ cancelled \subseteq Forwards
    /\ pc \in [Forwards -> {"unused", "queued", "spawned", "bound", "listening",
                            "dropping", "done", "failed"}]
    /\ opening \in [Forwards -> 0..MaxTunnels] /\ pumping \in [Forwards -> 0..MaxTunnels]
    /\ wire \in [Sessions -> Seq(Event)]
    /\ tab \in [Sessions -> {"open", "ended", "closed"}]
    /\ list \in [Forwards -> {"absent", "active", "error"}]
    /\ active \in Sessions \cup {None}
    /\ panel = Closed \/
          panel \in [of : Sessions \cup {None}, rows : [Forwards -> {"absent", "active", "error"}]]

(* Every forward that runs can still be stopped: its session holds its token,
   or has cancelled it. In particular none is left behind by a session that
   ended while forwards were being added, stopped or bound. *)
NoOrphanForward ==
    \A f \in Forwards :
        pc[f] \in {"spawned", "bound", "listening", "dropping"} =>
            \/ f \in tokens /\ session[owner[f]] \in {"loop", "cancelling"}
            \/ f \in cancelled

(* A tab with no event on its way shows exactly the forwards that listen, and
   the errors of those that do not; a tab without a session shows none. *)
ListFollowsForwards ==
    \A f \in Forwards :
        /\ tab[owner[f]] # "open" => list[f] = "absent"
        /\ tab[owner[f]] = "open" /\ wire[owner[f]] = << >> =>
              /\ list[f] = "active" <=> pc[f] = "listening"
              /\ list[f] = "error"  <=> pc[f] = "failed"
              /\ list[f] # "absent"  => pc[f] \in {"listening", "failed"}

(* As long as the tab it was rendered for has its session, the open panel shows what
   that tab's list says, whichever tab is active by now; a session that has ended
   leaves no rows behind. *)
PanelShowsList ==
    panel.of # None /\ tab[panel.of] # "closed" =>
        \A f \in Forwards : owner[f] = panel.of => panel.rows[f] = list[f]

(* The answer to a forward_add promises an outcome (commands.rs:115): as long as the
   session's task gets on, the forward is shown serving or failed, unless the session
   ends first or its tab is closed. *)
EveryAddHasAnOutcome ==
    (\A s \in Sessions : WF_vars(SessionStep(s))) =>
        \A f \in Forwards :
            pc[f] = "queued" ~> list[f] # "absent" \/ tab[owner[f]] # "open"

(* Cancelling a forward, by a stop or by the end of its session, releases its
   port and its tunneled connections and takes it off the list (AUDIT.md:28),
   whether it was serving, still binding, or not yet scheduled. *)
CancelReleases ==
    \A f \in Forwards :
        f \in cancelled ~>
            pc[f] \in {"failed", "done"} /\ pumping[f] = 0 /\ list[f] # "active"

==============================================================================
