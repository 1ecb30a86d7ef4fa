------------------------------ MODULE TabManager ------------------------------
(***************************************************************************)
(* The renderer's tabs (src/renderer/tabs.ts): the array of tabs, their    *)
(* buttons in the tab bar, the pane that is active, and the routing of     *)
(* session events to the tab that asked for the session.                   *)
(*                                                                         *)
(* JavaScript runs to completion, so an action is one handler, or what a   *)
(* handler does between two awaits: Tab.connect is Connect, then Resolve   *)
(* when the invoke answers (ssh_connect has no error to answer with); a    *)
(* click that asks the backend for a saved secret before it connects is    *)
(* Ask, then Fire or Forgo.                                                *)
(*                                                                         *)
(* External: the user, and the backend (SessionContract), whose events and *)
(* answers reach the renderer in any order between sessions.               *)
(***************************************************************************)
EXTENDS Naturals, Sequences, FiniteSets, SequencesExt

CONSTANTS
    MaxTabs,     \* bound: tabs opened in the life of the window
    Sessions,    \* the session ids ssh_connect may hand out
    MaxMade,     \* bound: tabs and sessions made, together
    MaxAsked,    \* bound: pending lookups of saved secrets, all forms together
    None         \* no tab, no session

ASSUME TabBounds == MaxTabs \in Nat \ {0} /\ {MaxMade, MaxAsked} \subseteq Nat /\ None \notin Sessions \cup Nat

Tabs == 1..MaxTabs

VARIABLES
    tabSeq,          \* tabs constructed so far
    tabs,            \* TabManager.tabs
    bar,             \* the buttons of the tab bar, left to right
    active,          \* TabManager.active
    drag,            \* the tab whose button is being dragged
    state,           \* state[t]: Tab.state
    sessionId,       \* sessionId[t]: Tab.sessionId
    used,            \* the tabs with a lastReq
    wasConnected,    \* the tabs with wasConnected set
    asked,           \* asked[t]: lookups of saved secrets that will end in a connect
    bySessionId,     \* TabManager.bySessionId
    caller,          \* caller[s]: the tab whose invoke made s
    backend,         \* backend[s]: where the session is
    answered,        \* sessions whose ssh_connect has been answered
    told,            \* sessions ssh_disconnect was invoked for
    early,           \* history: sessions with a status that came before the answer
    wire             \* wire[s]: status events on their way

barVars  == <<tabSeq, tabs, bar, active, drag>>
formVars == <<state, used, wasConnected, asked>>
linkVars == <<sessionId, bySessionId>>
backVars == <<caller, backend, answered, told, early, wire>>
vars == <<barVars, formVars, linkVars, backVars>>

Open   == Range(tabs)

(* Any two elements of q are in r, and in the order they have in q. *)
Follows(q, r) ==
    \A i, j \in DOMAIN q : i < j => \E k, l \in DOMAIN r : k < l /\ r[k] = q[i] /\ r[l] = q[j]

Init ==
    /\ tabSeq = 1 /\ tabs = <<1>> /\ bar = <<1>> /\ active = 1
    /\ drag = None
    /\ state = [t \in Tabs |-> "form"]
    /\ sessionId = [t \in Tabs |-> None]
    /\ used = {} /\ wasConnected = {}
    /\ asked = [t \in Tabs |-> 0]
    /\ bySessionId = [s \in Sessions |-> None]
    /\ caller = [s \in Sessions |-> None]
    /\ backend = [s \in Sessions |-> "none"]
    /\ answered = {} /\ told = {} /\ early = {}
    /\ wire = [s \in Sessions |-> << >>]

------------------------------------------------------------------------------
Room(n) == tabSeq + Cardinality({s \in Sessions : caller[s] # None}) + n <= MaxMade

(* Tab.connect up to its await, with the ssh_connect it invokes: a session s
   whose answer is on its way. *)
Connect(t, s) ==
    /\ caller[s] = None /\ Room(1)
    /\ caller' = [caller EXCEPT ![s] = t]
    /\ backend' = [backend EXCEPT ![s] = "connecting"]
    /\ used' = used \cup {t}
    /\ state' = [state EXCEPT ![t] = "connecting"]

(* applyState: which of the form and the reconnect overlay covers the pane. *)
Overlay(t)  == state[t] = "disconnected" /\ t \in wasConnected /\ t \in used
FormOpen(t) == state[t] \in {"form", "disconnected"} /\ ~Overlay(t)

(* A tab still in its first form: the one a recent connection may reuse. *)
IsFresh(t) == state[t] = "form" /\ sessionId[t] = None

(* newTab: construct, append to the array and to the bar, activate. *)
AppendTab ==
    /\ tabSeq < MaxTabs /\ Room(1)
    /\ tabSeq' = tabSeq + 1
    /\ tabs' = Append(tabs, tabSeq + 1)
    /\ bar' = Append(bar, tabSeq + 1)
    /\ active' = tabSeq + 1

NewTab == AppendTab /\ UNCHANGED <<drag, formVars, linkVars, backVars>>

(* A click on a button of the bar. *)
Activate(t) ==
    /\ drag = None /\ t \in Range(bar)
    /\ active' = t
    /\ UNCHANGED <<tabSeq, tabs, bar, drag, formVars, linkVars, backVars>>

(* Tab.dispose: disconnect the session the tab knows, and forget it. *)
Dispose(t) ==
    /\ told' = told \cup ({sessionId[t]} \ {None})
    /\ bySessionId' = [s \in Sessions |-> IF s = sessionId[t] THEN None ELSE bySessionId[s]]
    /\ sessionId' = [sessionId EXCEPT ![t] = None]

Withdraw(t) == tabs' = RemoveFirst(tabs, t) /\ bar' = RemoveFirst(bar, t)

(* The right neighbour, or the left one of the last tab. *)
Neighbour(t) ==
    LET i == CHOOSE j \in 1..Len(tabs) : tabs[j] = t
    IN  IF i < Len(tabs) THEN tabs[i + 1] ELSE tabs[i - 1]

(* Mutant of Replace: the last tab goes, and none is active. *)
LeaveNone(t) == Withdraw(t) /\ active' = None /\ UNCHANGED tabSeq

(* The last tab goes and a new one takes its place. *)
Replace(t) ==
    /\ tabSeq < MaxTabs /\ Room(1)
    /\ tabSeq' = tabSeq + 1
    /\ tabs' = <<tabSeq + 1>>
    /\ bar' = Append(RemoveFirst(bar, t), tabSeq + 1)
    /\ active' = tabSeq + 1

(* closeTab, by the button's cross or middle click, or Ctrl+W for the active
   tab, which the pointer may be dragging. A tab that is not in the array is
   left alone; only when the active one goes is another activated. *)
CloseTab(t) ==
    /\ t \in Open /\ (drag = None \/ active = t)
    /\ Dispose(t)
    /\ \/ active # t /\ Withdraw(t) /\ UNCHANGED <<tabSeq, active>>
       \/ active = t /\ Len(tabs) > 1 /\ Withdraw(t)
             /\ active' = Neighbour(t) /\ UNCHANGED tabSeq
       \/ active = t /\ Len(tabs) = 1 /\ Replace(t)
    /\ UNCHANGED <<drag, formVars, caller, backend, answered, early, wire>>

(* duplicate: a new tab that connects at once with the request of t. *)
Duplicate(t, s) ==
    /\ t \in used /\ t \in Range(bar) \cup {active} /\ Room(2)
    /\ AppendTab
    /\ Connect(tabSeq + 1, s)
    /\ UNCHANGED <<drag, wasConnected, asked, linkVars, answered, told, early, wire>>

------------------------------------------------------------------------------
(* The form, the reconnect overlay, and recent connections. *)

AskFor(t) ==
    /\ FoldFunction(+, 0, asked) < MaxAsked
    /\ asked' = [asked EXCEPT ![t] = @ + 1]

(* A submit, or a click on a profile: the handler awaits the backend before it
   connects, and the form stays open meanwhile. *)
Ask(t) ==
    /\ active = t /\ FormOpen(t)
    /\ AskFor(t)
    /\ UNCHANGED <<barVars, state, used, wasConnected, linkVars, backVars>>

(* openRecent reuses the active tab if it is fresh, else opens one. *)
OpenRecent ==
    \/ /\ IsFresh(active) /\ AskFor(active)
       /\ UNCHANGED <<barVars, state, used, wasConnected, linkVars, backVars>>
    \/ /\ ~IsFresh(active)
       /\ AppendTab
       /\ AskFor(tabSeq + 1)
       /\ UNCHANGED <<drag, state, used, wasConnected, linkVars, backVars>>

(* The handler goes on, whatever has become of its tab. *)
Fire(t, s) ==
    /\ asked[t] > 0
    /\ asked' = [asked EXCEPT ![t] = @ - 1]
    /\ Connect(t, s)
    /\ UNCHANGED <<barVars, wasConnected, linkVars, answered, told, early, wire>>

(* No secret is saved: the form asks for it instead. *)
Forgo(t) ==
    /\ asked[t] > 0
    /\ asked' = [asked EXCEPT ![t] = @ - 1]
    /\ UNCHANGED <<barVars, state, used, wasConnected, linkVars, backVars>>

Reconnect(t, s) ==
    /\ active = t /\ Overlay(t)
    /\ Connect(t, s)
    /\ UNCHANGED <<barVars, wasConnected, asked, linkVars, answered, told, early, wire>>

(* "Edit connection": the form instead of the overlay. *)
Edit(t) ==
    /\ active = t /\ Overlay(t)
    /\ wasConnected' = wasConnected \ {t}
    /\ state' = [state EXCEPT ![t] = "disconnected"]
    /\ UNCHANGED <<barVars, used, asked, linkVars, backVars>>

------------------------------------------------------------------------------
(* Answers and events of the backend. *)

(* Mutant of Resolve: the tab knows its session, the manager does not. *)
ResolveUnregistered(s) ==
    /\ caller[s] # None /\ s \notin answered
    /\ answered' = answered \cup {s}
    /\ sessionId' = [sessionId EXCEPT ![caller[s]] = s]
    /\ UNCHANGED <<barVars, formVars, bySessionId, caller, backend, told, early, wire>>

(* The invoke resolves: the tab takes the session, be it closed by now or the
   owner of another one. *)
Resolve(s) ==
    /\ caller[s] # None /\ s \notin answered
    /\ answered' = answered \cup {s}
    /\ sessionId' = [sessionId EXCEPT ![caller[s]] = s]
    /\ bySessionId' = [bySessionId EXCEPT ![s] = caller[s]]
    /\ UNCHANGED <<barVars, formVars, caller, backend, told, early, wire>>

(* Tab.setStatus. The last status unregisters the session the tab has now. *)
SetReady(t) ==
    /\ state' = [state EXCEPT ![t] = "connected"]
    /\ wasConnected' = wasConnected \cup {t}
    /\ UNCHANGED linkVars

(* Mutant of SetOver: the session is forgotten, and nothing shows it. *)
SetOverUnseen(t) ==
    /\ bySessionId' = [s \in Sessions |-> IF s = sessionId[t] THEN None ELSE bySessionId[s]]
    /\ sessionId' = [sessionId EXCEPT ![t] = None]
    /\ UNCHANGED <<state, wasConnected>>

SetOver(t) ==
    /\ state' = [state EXCEPT ![t] = "disconnected"]
    /\ bySessionId' = [s \in Sessions |-> IF s = sessionId[t] THEN None ELSE bySessionId[s]]
    /\ sessionId' = [sessionId EXCEPT ![t] = None]
    /\ UNCHANGED wasConnected

(* A status event: routed by session, dropped if no tab is registered. *)
Handle(s) ==
    LET t == bySessionId[s] IN
    /\ wire[s] # << >>
    /\ wire' = [wire EXCEPT ![s] = Tail(@)]
    /\ early' = early \cup ({s} \ answered)
    /\ \/ t = None /\ UNCHANGED <<state, wasConnected, linkVars>>
       \/ t # None /\ Head(wire[s]) = "ready" /\ SetReady(t)
       \/ t # None /\ Head(wire[s]) = "over" /\ SetOver(t)
    /\ UNCHANGED <<barVars, used, asked, caller, backend, answered, told>>

(* The modal chain reaches a prompt of s, perhaps long after s asked: the tab s
   is registered for comes to the front. *)
ShowPrompt(s) ==
    /\ bySessionId[s] # None
    /\ active' = bySessionId[s]
    /\ UNCHANGED <<tabSeq, tabs, bar, drag, formVars, linkVars, backVars>>

------------------------------------------------------------------------------
(* attachDrag: reordering by drag. *)

(* pointermove with a button held: it goes in front of the first one right of
   the pointer, or to the end; insertBefore puts it there wherever it was. *)
Move(t, i) ==
    LET others == RemoveFirst(bar, t) IN
    /\ drag \in {t, None} /\ (drag = None => t \in Range(bar))
    /\ i \in 1..Len(others) + 1
    /\ bar' = InsertAt(others, i, t)
    /\ drag' = t
    /\ UNCHANGED <<tabSeq, tabs, active, formVars, linkVars, backVars>>

(* Mutant of Release: the array keeps the order it had. *)
ReleaseUnsorted ==
    /\ drag # None
    /\ drag' = None
    /\ UNCHANGED <<tabSeq, tabs, bar, active, formVars, linkVars, backVars>>

(* pointerup or pointercancel: the array is sorted by the order of the bar. *)
Release ==
    /\ drag # None
    /\ drag' = None
    /\ \E q \in [DOMAIN tabs -> Open] : Range(q) = Open /\ Follows(q, bar) /\ tabs' = q
    /\ UNCHANGED <<tabSeq, bar, active, formVars, linkVars, backVars>>

------------------------------------------------------------------------------
(* The backend, as SessionContract lets it be. *)

Ready(s) ==
    /\ backend[s] = "connecting"
    /\ backend' = [backend EXCEPT ![s] = "ready"]
    /\ wire' = [wire EXCEPT ![s] = Append(@, "ready")]
    /\ UNCHANGED <<barVars, formVars, linkVars, caller, answered, told, early>>

(* Failed, closed by the server, or disconnected on request. *)
End(s) ==
    /\ backend[s] \in {"connecting", "ready"}
    /\ backend' = [backend EXCEPT ![s] = "over"]
    /\ wire' = [wire EXCEPT ![s] = Append(@, "over")]
    /\ UNCHANGED <<barVars, formVars, linkVars, caller, answered, told, early>>

Next ==
    \/ NewTab \/ OpenRecent \/ Release
    \/ \E t \in Tabs :
          \/ Activate(t) \/ CloseTab(t)
          \/ Ask(t) \/ Forgo(t) \/ Edit(t)
          \/ \E i \in 1..MaxTabs : Move(t, i)
          \/ \E s \in Sessions : Duplicate(t, s) \/ Fire(t, s) \/ Reconnect(t, s)
    \/ \E s \in Sessions :
          \/ Resolve(s) \/ Handle(s) \/ ShowPrompt(s)
          \/ Ready(s) \/ End(s)

Spec == Init /\ [][Next]_vars

------------------------------------------------------------------------------
TypeOK ==
    /\ tabSeq \in Tabs
    /\ tabs \in Seq(Tabs) /\ bar \in Seq(Tabs) /\ active \in Tabs
    /\ drag \in Tabs \cup {None}
    /\ state \in [Tabs -> {"form", "connecting", "connected", "disconnected"}]
    /\ sessionId \in [Tabs -> Sessions \cup {None}]
    /\ used \subseteq Tabs /\ wasConnected \subseteq Tabs
    /\ asked \in [Tabs -> Nat]
    /\ bySessionId \in [Sessions -> Tabs \cup {None}]
    /\ caller \in [Sessions -> Tabs \cup {None}]
    /\ backend \in [Sessions -> {"none", "connecting", "ready", "over"}]
    /\ answered \subseteq Sessions /\ told \subseteq Sessions /\ early \subseteq Sessions
    /\ wire \in [Sessions -> Seq({"ready", "over"})]

(* Every open tab has one button in the bar; when none is held, the array and
   the bar agree on the order, through drags, closings and new tabs. *)
BarShowsTabs ==
    /\ IsInjective(bar)
    /\ Open \subseteq Range(bar)
    /\ drag = None => Follows(tabs, bar)

(* A session a tab calls its own has its events routed to that tab, and every
   registered session went to the tab that asked for it. *)
RoutesAgree ==
    /\ \A t \in Tabs : sessionId[t] # None => bySessionId[sessionId[t]] = t
    /\ \A s \in Sessions : bySessionId[s] # None => bySessionId[s] = caller[s] /\ s \in answered

(* An open tab that shows "connecting" has something to wait for: an answer, or a
   session that will still report to it. Only a status that overtook the answer to
   ssh_connect, and was dropped, leaves a tab waiting for nothing. *)
ReportsTo(s, t) == bySessionId[s] = t /\ (backend[s] = "connecting" \/ wire[s] # << >>)
WaitsForSomething ==
    \A t \in Open : state[t] = "connecting" =>
        \E s \in Sessions : caller[s] = t /\ (s \notin answered \/ s \in early \/ ReportsTo(s, t))

(* The active tab is open. There are two ways to a closed one, and no third: the
   click on a button that came back to the bar because its tab was closed while it
   was dragged, and the prompt of a session made for a tab that was closed. *)
ActiveIsOpen ==
    \/ active \in Open
    \/ active \in Range(bar)
    \/ \E s \in answered : caller[s] = active /\ s \notin told

==============================================================================
