----------------------------- MODULE TerminalPane -----------------------------
(***************************************************************************)
(* The terminal of one tab and the stream between it and the tab's         *)
(* sessions (src/renderer: terminal.ts, tabs.ts, ssh-api.ts): the grid of  *)
(* the terminal follows the pane, the remote PTY follows the grid, and     *)
(* output is routed by session to the terminal. Closing tabs is left to    *)
(* TabManager.                                                             *)
(*                                                                         *)
(* A grid is known by how large it is: each growth of the window, and each *)
(* step to a smaller font, makes room for another one, and none comes      *)
(* back. A resize that gets lost is therefore not made good by a later     *)
(* change to the same size.                                                *)
(*                                                                         *)
(* External: the layout and the ResizeObserver of the WebView, xterm, and  *)
(* the backend. Commands reach a session in the order of their invokes;    *)
(* status events and the channel's output each keep their order, but not   *)
(* with one another.                                                       *)
(***************************************************************************)
EXTENDS Naturals, Sequences, FiniteSets

CONSTANTS
    Sessions,     \* the session ids ssh_connect may hand out
    MaxWindow,    \* bound: sizes of the window, 1 and up
    MaxZoom,      \* bound: steps to a smaller font
    MaxChunks,    \* bound: chunks of output, of any two sessions together
    None          \* no session, no terminal

ASSUME PaneAssumption ==
    /\ MaxWindow \in Nat \ {0} /\ {MaxZoom, MaxChunks} \subseteq Nat
    /\ None \notin Sessions \cup Nat

VARIABLES
    shown,        \* the pane is displayed: its tab is active
    window, zoom, \* what decides which grid fits the pane
    seen,         \* the pane's size last reported by the ResizeObserver; 0: not displayed
    grid,         \* term.cols and term.rows; None: no terminal yet
    state,        \* Tab.state
    sessionId,    \* Tab.sessionId
    routed,       \* the sessions bySessionId routes here
    phase,        \* phase[s]: where the session is
    answered,     \* sessions whose ssh_connect has been answered
    wire,         \* wire[s]: status events on their way
    cmds,         \* cmds[s]: resizes queued for the session task
    pty,          \* pty[s]: the size the remote PTY has, or is opened with
    missed,       \* history: sessions not told of the latest change of the grid
    sent,         \* sent[s]: chunks of output sent on the channel of s
    taken,        \* taken[s]: chunks onmessage was called with
    written       \* written[s]: the chunks written to the terminal

sizeVars == <<shown, window, zoom, seen>>
tabVars  == <<state, sessionId, routed>>
backVars == <<phase, answered, wire>>
ptyVars  == <<grid, cmds, pty, missed>>
dataVars == <<sent, taken, written>>
vars == <<sizeVars, tabVars, backVars, ptyVars, dataVars>>

Init ==
    /\ shown = TRUE /\ window = 1 /\ zoom = 0 /\ seen = 0
    /\ grid = None
    /\ state = "form" /\ sessionId = None /\ routed = {}
    /\ phase = [s \in Sessions |-> "none"]
    /\ answered = {} /\ missed = {}
    /\ wire = [s \in Sessions |-> << >>]
    /\ cmds = [s \in Sessions |-> << >>]
    /\ pty = [s \in Sessions |-> 0]
    /\ sent = [s \in Sessions |-> 0]
    /\ taken = [s \in Sessions |-> 0]
    /\ written = [s \in Sessions |-> {}]

------------------------------------------------------------------------------
(* The grid that fits the pane, and the one of a terminal never fitted (80x24). *)
Fitting(w, z) == w + z
Default == 0

(* The size of the pane's box. *)
Box == IF shown THEN window ELSE 0

Live(s) == phase[s] \in {"connecting", "ready"}

(* Mutant of SetGrid: only a connected tab tells its session. *)
SetGridIfConnected(g) ==
    /\ grid' = g
    /\ cmds' = IF g # grid /\ state = "connected" /\ sessionId # None /\ Live(sessionId)
               THEN [cmds EXCEPT ![sessionId] = Append(@, g)] ELSE cmds
    /\ missed' = IF g = grid THEN missed
                 ELSE (missed \cup {s \in Sessions : phase[s] # "none"}) \ {sessionId}
    /\ UNCHANGED pty

(* term.resize, and onResize if that changed anything: ssh_resize, of the session
   the tab knows, queues it for the session if it is still there. *)
SetGrid(g) ==
    /\ grid' = g
    /\ cmds' = IF g # grid /\ sessionId # None /\ Live(sessionId)
               THEN [cmds EXCEPT ![sessionId] = Append(@, g)] ELSE cmds
    /\ missed' = IF g = grid THEN missed
                 ELSE (missed \cup {s \in Sessions : phase[s] # "none"}) \ {sessionId}
    /\ UNCHANGED pty

(* fit: skipped when the pane has no box. *)
Fit(visible, w, z) ==
    IF grid # None /\ visible THEN SetGrid(Fitting(w, z)) ELSE UNCHANGED ptyVars

(* The window grows; the ResizeObserver reports it with the next frame. *)
WindowResized ==
    /\ window < MaxWindow
    /\ window' = window + 1
    /\ UNCHANGED <<shown, zoom, seen, tabVars, backVars, ptyVars, dataVars>>

Observe ==
    /\ grid # None /\ seen # Box
    /\ seen' = Box
    /\ Fit(shown, window, zoom)
    /\ UNCHANGED <<shown, window, zoom, tabVars, backVars, dataVars>>

(* Mutant of ApplySettings: the options are set and the grid is not fitted. *)
ApplySettingsOnly ==
    /\ zoom < MaxZoom
    /\ zoom' = zoom + 1
    /\ UNCHANGED ptyVars
    /\ UNCHANGED <<shown, window, seen, tabVars, backVars, dataVars>>

(* TerminalHandle.applySettings, with a smaller font. *)
ApplySettings ==
    /\ zoom < MaxZoom
    /\ zoom' = zoom + 1
    /\ Fit(shown, window, zoom + 1)
    /\ UNCHANGED <<shown, window, seen, tabVars, backVars, dataVars>>

(* Tab.show and Tab.hide. *)
Show ==
    /\ ~shown
    /\ shown' = TRUE
    /\ Fit(state = "connected", window, zoom)
    /\ UNCHANGED <<window, zoom, seen, tabVars, backVars, dataVars>>

Hide ==
    /\ shown
    /\ shown' = FALSE
    /\ UNCHANGED <<window, zoom, seen, tabVars, backVars, ptyVars, dataVars>>

------------------------------------------------------------------------------
(* Tab.connect up to its await. The form's handler, or the overlay, calls it; the
   handler may have waited, so the tab may be in the background, or have another
   session. The terminal is made at the first call, and its size goes with it. *)
Connect(s) ==
    /\ phase[s] = "none"
    /\ LET g == IF grid # None THEN grid ELSE IF shown THEN Fitting(window, zoom) ELSE Default IN
       /\ grid' = g
       /\ pty' = [pty EXCEPT ![s] = g]
    /\ state' = "connecting"
    /\ phase' = [phase EXCEPT ![s] = "connecting"]
    /\ UNCHANGED <<sizeVars, sessionId, routed, answered, wire, cmds, missed, dataVars>>

(* The invoke resolves, and the tab is registered. *)
Resolve(s) ==
    /\ phase[s] # "none" /\ s \notin answered
    /\ answered' = answered \cup {s}
    /\ sessionId' = s /\ routed' = routed \cup {s}
    /\ UNCHANGED <<sizeVars, state, phase, wire, ptyVars, dataVars>>

(* Tab.setStatus. *)
SetReady ==
    /\ state' = "connected"
    /\ Fit(shown, window, zoom)
    /\ UNCHANGED <<sessionId, routed>>

SetOver ==
    /\ state' = "disconnected"
    /\ routed' = routed \ {sessionId} /\ sessionId' = None
    /\ UNCHANGED ptyVars

(* A status event reaches the tab registered for its session, if there is one. *)
OnStatus(s) ==
    /\ wire[s] # << >>
    /\ wire' = [wire EXCEPT ![s] = Tail(@)]
    /\ \/ s \notin routed /\ UNCHANGED <<tabVars, ptyVars>>
       \/ s \in routed /\ Head(wire[s]) = "ready" /\ SetReady
       \/ s \in routed /\ Head(wire[s]) = "over" /\ SetOver
    /\ UNCHANGED <<sizeVars, phase, answered, dataVars>>

(* Mutant of OnData: nothing is written to a terminal nobody sees. *)
OnDataIfShown(s) ==
    /\ taken[s] < sent[s]
    /\ taken' = [taken EXCEPT ![s] = @ + 1]
    /\ written' = IF s \in answered \cap routed /\ shown
                  THEN [written EXCEPT ![s] = @ \cup {taken[s] + 1}] ELSE written
    /\ UNCHANGED <<sizeVars, tabVars, backVars, ptyVars, sent>>

(* onmessage: the chunk goes out under the session id, which is empty until the
   invoke has resolved, and is dropped if no tab is registered for it. *)
OnData(s) ==
    /\ taken[s] < sent[s]
    /\ taken' = [taken EXCEPT ![s] = @ + 1]
    /\ written' = IF s \in answered \cap routed
                  THEN [written EXCEPT ![s] = @ \cup {taken[s] + 1}] ELSE written
    /\ UNCHANGED <<sizeVars, tabVars, backVars, ptyVars, sent>>

------------------------------------------------------------------------------
(* The session task: the shell opens, output is sent, resizes are taken from the
   queue, which fills while the task is still logging in, and it ends. *)
Ready(s) ==
    /\ phase[s] = "connecting"
    /\ phase' = [phase EXCEPT ![s] = "ready"]
    /\ wire' = [wire EXCEPT ![s] = Append(@, "ready")]
    /\ UNCHANGED <<sizeVars, tabVars, answered, ptyVars, dataVars>>

Output(s) ==
    /\ phase[s] = "ready"
    /\ \A r \in Sessions : (IF r = s THEN 0 ELSE sent[r]) + sent[s] < MaxChunks
    /\ sent' = [sent EXCEPT ![s] = @ + 1]
    /\ UNCHANGED <<sizeVars, tabVars, backVars, ptyVars, taken, written>>

TakeResize(s) ==
    /\ phase[s] = "ready" /\ cmds[s] # << >>
    /\ cmds' = [cmds EXCEPT ![s] = Tail(@)]
    /\ pty' = [pty EXCEPT ![s] = Head(cmds[s])]
    /\ UNCHANGED <<sizeVars, tabVars, backVars, grid, missed, dataVars>>

End(s) ==
    /\ Live(s)
    /\ phase' = [phase EXCEPT ![s] = "over"]
    /\ wire' = [wire EXCEPT ![s] = Append(@, "over")]
    /\ cmds' = [cmds EXCEPT ![s] = << >>]
    /\ UNCHANGED <<sizeVars, tabVars, answered, grid, pty, missed, dataVars>>

Next ==
    \/ WindowResized \/ Observe \/ ApplySettings \/ Show \/ Hide
    \/ \E s \in Sessions :
          \/ Connect(s) \/ Resolve(s) \/ OnStatus(s) \/ OnData(s)
          \/ Ready(s) \/ Output(s) \/ TakeResize(s) \/ End(s)

Spec == Init /\ [][Next]_vars

------------------------------------------------------------------------------
Grids == Default..(MaxWindow + MaxZoom)

TypeOK ==
    /\ shown \in BOOLEAN /\ window \in 1..MaxWindow /\ zoom \in 0..MaxZoom
    /\ seen \in 0..MaxWindow
    /\ grid \in Grids \cup {None}
    /\ state \in {"form", "connecting", "connected", "disconnected"}
    /\ sessionId \in Sessions \cup {None}
    /\ routed \subseteq answered /\ answered \subseteq Sessions
    /\ phase \in [Sessions -> {"none", "connecting", "ready", "over"}]
    /\ wire \in [Sessions -> Seq({"ready", "over"})]
    /\ cmds \in [Sessions -> Seq(Grids)] /\ pty \in [Sessions -> Grids]
    /\ missed \subseteq Sessions
    /\ \A s \in Sessions : written[s] \subseteq 1..taken[s] /\ taken[s] <= sent[s]

(* In a connected tab on display, the grid is the one that fits, from the first
   frame on: whatever happened to the window and the font while the tab was in the
   background, connecting or not. *)
GridFits == state = "connected" /\ shown /\ seen = window => grid = Fitting(window, zoom)

(* The remote PTY has the size of the grid, or will have it by the resizes queued
   for it: through the login, with the tab in the background, and on a reconnect.
   Only a change between Tab.connect and the answer to it passes a session by, and
   then until the next change. *)
RemoteFollows ==
    LET s == sessionId IN
    s # None /\ Live(s) /\ s \notin missed =>
        grid = IF cmds[s] = << >> THEN pty[s] ELSE cmds[s][Len(cmds[s])]

SizesFollow == GridFits /\ RemoteFollows

(* The terminal gets a session's output without a gap, up to the chunks before the
   answer to ssh_connect and those after the session's last status. *)
OutputHasNoGap ==
    \A s \in Sessions : \A i, j \in written[s] : i..j \subseteq written[s]

==============================================================================
