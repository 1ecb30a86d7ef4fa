-------------------------- MODULE PortForwardsProofs --------------------------
(***************************************************************************)
(* What holds of PortForwards for any sessions, forwards, ports and        *)
(* queues: no forward runs without a token somebody can still cancel, the  *)
(* panel shows what the tab it was rendered for says, and the list of a    *)
(* tab, once it has heard everything, says what its forwards are.          *)
(***************************************************************************)
EXTENDS PortForwards, TLAPS

(* A tunnel is counted once, however far it has got. *)
TunnelBound == \A f \in Forwards : opening[f] + pumping[f] <= MaxTunnels

(* An AddForward waits in the channel of the session it was added to. *)
AddsAreOwned ==
    \A s \in Sessions : \A i \in 1..Len(inbox[s]) :
        inbox[s][i].op = "add" => owner[inbox[s][i].forward] = s

ForwardInv == TypeOK /\ TunnelBound /\ AddsAreOwned /\ NoOrphanForward /\ PanelShowsList

Panels == [of : Sessions \cup {None}, rows : [Forwards -> {"absent", "active", "error"}]]

(* No forward has been added yet. *)
LEMMA ForwardInit == Init => ForwardInv
<1> SUFFICES ASSUME Init PROVE ForwardInv
  OBVIOUS
<1> USE ForwardBounds DEF Init
<1>1. TypeOK
  BY DEF TypeOK
<1>2. TunnelBound
  BY DEF TunnelBound
<1>3. AddsAreOwned
  BY DEF AddsAreOwned
<1>4. NoOrphanForward
  BY DEF NoOrphanForward
<1>5. PanelShowsList
  BY DEF PanelShowsList, Closed
<1> QED BY <1>1, <1>2, <1>3, <1>4, <1>5 DEF ForwardInv

(* After FORWARDS_CHANGED the panel is right. *)
LEMMA PanelRendered ==
    ASSUME owner' \in [Forwards -> Sessions], active' \in Sessions \cup {None},
           list' \in [Forwards -> {"absent", "active", "error"}],
           panel' = Rendering'
    PROVE  (panel' = Closed \/ panel' \in Panels) /\ PanelShowsList'
<1>1. Target' \in Sessions \cup {None}
  BY DEF Target
<1> HIDE DEF Target
<1>2. /\ panel'.of = Target'
      /\ panel'.rows = [f \in Forwards |-> IF owner'[f] = Target' THEN list'[f] ELSE "absent"]
      /\ panel' = [of |-> Target', rows |-> panel'.rows]
  BY DEF Rendering
<1>3. panel' \in Panels
  BY <1>1, <1>2 DEF Panels
<1>4. PanelShowsList'
  BY <1>2 DEF PanelShowsList
<1> QED BY <1>3, <1>4

(* The panel stays right if the lists of tabs that are not closed stay as they are. *)
LEMMA PanelStays ==
    ASSUME TypeOK, PanelShowsList, UNCHANGED <<owner, panel>>,
           \A s \in Sessions : tab'[s] # "closed" => tab[s] # "closed",
           \A f \in Forwards : tab'[owner[f]] # "closed" => list'[f] = list[f]
    PROVE  (panel' = Closed \/ panel' \in Panels) /\ PanelShowsList'
<1>1. panel = Closed \/ panel \in Panels
  BY DEF TypeOK, Panels
<1>2. panel.of \in Sessions \cup {None}
  BY <1>1 DEF Panels, Closed
<1>3. PanelShowsList'
  BY <1>2 DEF PanelShowsList
<1> QED BY <1>1, <1>3

(* A command that is sent is typed, and lands in its own session's channel. *)
LEMMA SentCommand ==
    ASSUME TypeOK, AddsAreOwned, NEW s \in Sessions, NEW cmd \in Command,
           cmd.op = "add" => owner[cmd.forward] = s,
           inbox' = [inbox EXCEPT ![s] = Append(@, cmd)], owner' = owner
    PROVE  inbox' \in [Sessions -> Seq(Command)] /\ AddsAreOwned'
<1>1. inbox' \in [Sessions -> Seq(Command)]
  BY DEF TypeOK
<1>2. ASSUME NEW r \in Sessions, NEW i \in 1..Len(inbox'[r]), inbox'[r][i].op = "add"
      PROVE  owner'[inbox'[r][i].forward] = r
  <2>1. CASE r = s /\ i = Len(inbox[s]) + 1
    BY <1>2, <2>1 DEF TypeOK
  <2>2. CASE r # s \/ i \in 1..Len(inbox[s])
    BY <1>2, <2>2 DEF TypeOK, AddsAreOwned
  <2> QED BY <2>1, <2>2 DEF TypeOK
<1> QED BY <1>1, <1>2 DEF AddsAreOwned

(* Reading a command, or dropping them all, breaks neither. *)
LEMMA ReadCommands ==
    ASSUME TypeOK, AddsAreOwned, NEW s \in Sessions, owner' = owner,
           \/ inbox[s] # << >> /\ inbox' = [inbox EXCEPT ![s] = Tail(@)]
           \/ inbox' = [inbox EXCEPT ![s] = << >>]
           \/ inbox' = inbox
    PROVE  inbox' \in [Sessions -> Seq(Command)] /\ AddsAreOwned'
<1>1. CASE inbox' = inbox
  BY <1>1 DEF TypeOK, AddsAreOwned
<1>2. CASE inbox' = [inbox EXCEPT ![s] = << >>]
  BY <1>2 DEF TypeOK, AddsAreOwned
<1>3. CASE inbox[s] # << >> /\ inbox' = [inbox EXCEPT ![s] = Tail(@)]
  <2>1. inbox' \in [Sessions -> Seq(Command)]
    BY <1>3 DEF TypeOK
  <2>2. ASSUME NEW r \in Sessions, NEW i \in 1..Len(inbox'[r]), inbox'[r][i].op = "add"
        PROVE  owner'[inbox'[r][i].forward] = r
    <3>1. CASE r = s
      <4>1. i + 1 \in 1..Len(inbox[s]) /\ inbox'[s][i] = inbox[s][i + 1]
        BY <1>3, <2>2, <3>1 DEF TypeOK
      <4> QED BY <2>2, <3>1, <4>1 DEF AddsAreOwned
    <3>2. CASE r # s
      BY <1>3, <2>2, <3>2 DEF TypeOK, AddsAreOwned
    <3> QED BY <3>1, <3>2
  <2> QED BY <2>1, <2>2 DEF AddsAreOwned
<1> QED BY <1>1, <1>2, <1>3

(* The head of a channel is a command, and an add names a forward. *)
LEMMA HeadCommand ==
    ASSUME TypeOK, AddsAreOwned, NEW s \in Sessions, inbox[s] # << >>
    PROVE  /\ Head(inbox[s]) \in Command
           /\ Head(inbox[s]).op \in {"add", "stop"} => Head(inbox[s]).forward \in Forwards
           /\ Head(inbox[s]).op = "add" => owner[Head(inbox[s]).forward] = s
<1>1. Head(inbox[s]) = inbox[s][1] /\ 1 \in 1..Len(inbox[s]) /\ inbox[s][1] \in Command
  BY DEF TypeOK
<1> QED BY <1>1 DEF Command, AddsAreOwned

(* An event that is emitted is an event. *)
LEMMA EmitTyped ==
    ASSUME TypeOK, NEW s \in Sessions, NEW e \in Event, Emit(s, e)
    PROVE  wire' \in [Sessions -> Seq(Event)]
BY DEF TypeOK, Emit

(* The steps of the renderer touch neither tokens nor forwards that run. *)
LEMMA RendererSteps ==
    ASSUME ForwardInv, NEW s \in Sessions,
           \/ \E f \in Forwards : AddForward(s, f) \/ StopForward(f)
           \/ CloseTab(s) \/ Deliver(s)
    PROVE  ForwardInv'
<1> USE ForwardBounds
<1> TypeOK /\ TunnelBound /\ AddsAreOwned /\ NoOrphanForward /\ PanelShowsList
  BY DEF ForwardInv
<1>1. ASSUME NEW f \in Forwards, AddForward(s, f) PROVE ForwardInv'
  <2>1. inbox' \in [Sessions -> Seq(Command)] /\ AddsAreOwned'
    <3>1. Add(f) \in Command /\ Add(f).op = "add" /\ Add(f).forward = f
      BY DEF Add, Command
    <3> QED BY <1>1, <3>1, SentCommand DEF AddForward, Send
  <2>2. TypeOK'
    BY <1>1, <2>1 DEF TypeOK, AddForward, Send, Step, tunnelVars, tabVars, viewVars
  <2>3. TunnelBound' /\ NoOrphanForward'
    BY <1>1 DEF TypeOK, TunnelBound, NoOrphanForward, AddForward, Step, tunnelVars
  <2>4. PanelShowsList'
    BY <1>1 DEF PanelShowsList, AddForward, tabVars, viewVars
  <2> QED BY <2>1, <2>2, <2>3, <2>4 DEF ForwardInv
<1>2. ASSUME NEW f \in Forwards, StopForward(f) PROVE ForwardInv'
  <2>1. inbox' \in [Sessions -> Seq(Command)] /\ AddsAreOwned'
    <3>1. Stop(f) \in Command /\ Stop(f).op = "stop"
      BY DEF Stop, Command
    <3>2. panel.of \in Sessions
      BY <1>2 DEF StopForward, TypeOK, Closed
    <3> QED BY <1>2, <3>1, <3>2, SentCommand DEF StopForward, Send, forwardVars
  <2>2. TypeOK'
    BY <1>2, <2>1 DEF TypeOK, StopForward, forwardVars, tunnelVars, tabVars, viewVars
  <2>3. TunnelBound' /\ NoOrphanForward' /\ PanelShowsList'
    BY <1>2 DEF TunnelBound, NoOrphanForward, PanelShowsList, StopForward, forwardVars, tunnelVars,
       tabVars, viewVars
  <2> QED BY <2>1, <2>2, <2>3 DEF ForwardInv
<1>3. CASE CloseTab(s)
  <2>1. inbox' \in [Sessions -> Seq(Command)] /\ AddsAreOwned'
    <3>1. [op |-> "disconnect"] \in Command
      BY DEF Command
    <3> QED BY <1>3, <3>1, SentCommand, ReadCommands DEF CloseTab, forwardVars
  <2>2. TypeOK'
    <3>1. active' \in Sessions \cup {None}
      BY <1>3 DEF CloseTab, TypeOK
    <3> QED BY <1>3, <2>1, <3>1 DEF TypeOK, CloseTab, forwardVars, tunnelVars
  <2>4. PanelShowsList'
    <3>1. /\ UNCHANGED <<owner, panel>>
          /\ \A r \in Sessions : tab'[r] # "closed" => tab[r] # "closed"
          /\ \A f \in Forwards : tab'[owner[f]] # "closed" => list'[f] = list[f]
      BY <1>3 DEF CloseTab, forwardVars, TypeOK
    <3> QED BY <3>1, PanelStays
  <2>3. TunnelBound' /\ NoOrphanForward'
    BY <1>3 DEF TunnelBound, NoOrphanForward, CloseTab, forwardVars, tunnelVars
  <2> QED BY <2>1, <2>2, <2>3, <2>4 DEF ForwardInv
<1>4. CASE Deliver(s)
  <2>1. Head(wire[s]) \in Event /\ wire' \in [Sessions -> Seq(Event)]
    BY <1>4 DEF TypeOK, Deliver
  <2>2. tab' \in [Sessions -> {"open", "ended", "closed"}]
        /\ list' \in [Forwards -> {"absent", "active", "error"}]
    <3> tab \in [Sessions -> {"open", "ended", "closed"}]
        /\ list \in [Forwards -> {"absent", "active", "error"}]
      BY DEF TypeOK
    <3>1. CASE tab[s] # "open"
      BY <1>4, <3>1 DEF Deliver, tabVars
    <3>2. CASE tab[s] = "open" /\ Head(wire[s]).status = "ended"
      <4>1. SetOver(s)
        BY <1>4, <3>2 DEF Deliver
      <4> QED BY <4>1 DEF SetOver
    <3>3. CASE tab[s] = "open" /\ Head(wire[s]).status # "ended"
      <4>1. UpdateForward(Head(wire[s]))
        BY <1>4, <3>3 DEF Deliver
      <4>2. Head(wire[s]).forward \in Forwards
            /\ Head(wire[s]).status \in {"active", "error", "stopped"}
        BY <2>1, <3>3 DEF Event, Terminal
      <4> QED BY <4>1, <4>2 DEF UpdateForward
    <3> QED BY <3>1, <3>2, <3>3
  <2>3. UNCHANGED <<owner, active>> /\ active \in Sessions \cup {None}
        /\ owner \in [Forwards -> Sessions]
    BY <1>4 DEF Deliver, forwardVars, TypeOK
  <2>4. (panel' = Closed \/ panel' \in Panels) /\ PanelShowsList'
    <3>1. CASE UNCHANGED <<tab, list, panel>>
      BY <2>3, <3>1, PanelStays
    <3>2. CASE ForwardsChanged
      <4>1. CASE panel = Closed
        BY <3>2, <4>1 DEF ForwardsChanged, PanelShowsList, Closed
      <4>2. CASE panel # Closed
        BY <2>2, <2>3, <3>2, <4>2, PanelRendered DEF ForwardsChanged
      <4> QED BY <4>1, <4>2
    <3>3. CASE SetOver(s) /\ list' = list
      <4>1. UNCHANGED panel /\ \A r \in Sessions : tab'[r] # "closed" => r = s \/ tab[r] # "closed"
        BY <3>3 DEF SetOver, TypeOK
      <4>2. tab[s] = "open" \/ UNCHANGED <<tab, list, panel>>
        BY <1>4 DEF Deliver, tabVars
      <4> QED BY <2>3, <3>1, <3>3, <4>1, <4>2, PanelStays
    <3> QED BY <1>4, <3>1, <3>2, <3>3 DEF Deliver, UpdateForward, SetOver, tabVars
  <2>5. TypeOK'
    <3>1. panel' = Closed \/ panel' \in
             [of : Sessions \cup {None}, rows : [Forwards -> {"absent", "active", "error"}]]
      BY <2>4 DEF Panels
    <3> QED BY <1>4, <2>1, <2>2, <2>3, <3>1 DEF TypeOK, Deliver, sessionVars, forwardVars, tunnelVars
  <2>6. TunnelBound' /\ AddsAreOwned' /\ NoOrphanForward'
    BY <1>4 DEF TunnelBound, AddsAreOwned, NoOrphanForward, Deliver,
       sessionVars, forwardVars, tunnelVars
  <2> QED BY <2>4, <2>5, <2>6 DEF ForwardInv
<1> QED BY <1>1, <1>2, <1>3, <1>4

(* The panel is opened and closed, and tabs are brought to the front. *)
LEMMA ViewSteps ==
    ASSUME ForwardInv,
           OpenPanel \/ ClosePanel \/ \E s \in Sessions \cup {None} : ActivateTab(s)
    PROVE  ForwardInv'
<1> TypeOK /\ TunnelBound /\ AddsAreOwned /\ NoOrphanForward /\ PanelShowsList
  BY DEF ForwardInv
<1>1. UNCHANGED <<sessionVars, forwardVars, tunnelVars, wire, tabVars>>
  BY DEF OpenPanel, ClosePanel, ActivateTab, OnlyView
<1>2. active' \in Sessions \cup {None}
  BY DEF OpenPanel, ClosePanel, ActivateTab, TypeOK
<1>3. (panel' = Closed \/ panel' \in Panels) /\ PanelShowsList'
  <2>1. CASE OpenPanel
    <3>1. panel' = Rendering'
      BY <1>1, <2>1 DEF OpenPanel, Rendering, Target, forwardVars, tabVars
    <3> QED BY <1>1, <1>2, <3>1, PanelRendered DEF TypeOK, forwardVars, tabVars
  <2>2. CASE ClosePanel
    BY <2>2 DEF ClosePanel, PanelShowsList, Closed
  <2>3. ASSUME NEW s \in Sessions \cup {None}, ActivateTab(s)
        PROVE  (panel' = Closed \/ panel' \in Panels) /\ PanelShowsList'
    BY <1>1, <2>3, PanelStays DEF ActivateTab, forwardVars, tabVars
  <2> QED BY <2>1, <2>2, <2>3
<1>4. TypeOK'
  BY <1>1, <1>2, <1>3 DEF TypeOK, Panels, sessionVars, forwardVars, tunnelVars, tabVars
<1>5. TunnelBound' /\ AddsAreOwned' /\ NoOrphanForward'
  BY <1>1 DEF TunnelBound, AddsAreOwned, NoOrphanForward, sessionVars, forwardVars, tunnelVars
<1> QED BY <1>3, <1>4, <1>5 DEF ForwardInv

(* The session task: a token it lets go of is cancelled first. *)
LEMMA SessionSteps ==
    ASSUME ForwardInv, NEW s \in Sessions, SessionStep(s) \/ ChannelClosed(s)
    PROVE  ForwardInv'
<1> TypeOK /\ TunnelBound /\ AddsAreOwned /\ NoOrphanForward
  BY DEF ForwardInv
<1> PanelShowsList'
  <2>1. UNCHANGED <<owner, tab, list, active, panel>>
    BY DEF SessionStep, LoginSucceeded, LoginFailed, TakeAdd, TakeStop, TakeDisconnect, CancelAll,
       Cleanup, ChannelClosed, forwardVars, tabVars, viewVars
  <2> QED BY <2>1 DEF ForwardInv, PanelShowsList
<1>1. CASE LoginSucceeded(s) \/ ChannelClosed(s)
  <2>1. UNCHANGED <<inbox, tokens, cancelled, forwardVars, tunnelVars, wire, tabVars, viewVars>>
        /\ \E to \in {"loop", "cancelling"} : session' = [session EXCEPT ![s] = to]
    BY <1>1 DEF LoginSucceeded, ChannelClosed, Advance
  <2>2. TypeOK' /\ TunnelBound'
    BY <2>1 DEF TypeOK, TunnelBound, forwardVars, tunnelVars, tabVars, viewVars
  <2>3. inbox' \in [Sessions -> Seq(Command)] /\ AddsAreOwned'
    BY <2>1, ReadCommands DEF forwardVars
  <2>4. NoOrphanForward'
    BY <2>1 DEF TypeOK, NoOrphanForward, forwardVars
  <2> QED BY <2>2, <2>3, <2>4 DEF ForwardInv
<1>2. CASE LoginFailed(s)
  <2>1. inbox' \in [Sessions -> Seq(Command)] /\ AddsAreOwned'
    BY <1>2, ReadCommands DEF LoginFailed, forwardVars
  <2>2. wire' \in [Sessions -> Seq(Event)]
    BY <1>2, EmitTyped DEF LoginFailed, Event
  <2>3. TypeOK' /\ TunnelBound' /\ NoOrphanForward'
    BY <1>2, <2>1, <2>2 DEF TypeOK, TunnelBound, NoOrphanForward, LoginFailed, Advance,
       forwardVars, tunnelVars, tabVars, viewVars
  <2> QED BY <2>1, <2>3 DEF ForwardInv
<1>3. CASE TakeAdd(s)
  <2> DEFINE f == Head(inbox[s]).forward
  <2>1. f \in Forwards /\ owner[f] = s
    BY <1>3, HeadCommand DEF TakeAdd, Take
  <2>2. inbox' \in [Sessions -> Seq(Command)] /\ AddsAreOwned'
    BY <1>3, ReadCommands DEF TakeAdd, Take
  <2>3. TypeOK' /\ TunnelBound'
    BY <1>3, <2>1, <2>2 DEF TypeOK, TunnelBound, TakeAdd, Take, Step, tunnelVars, tabVars, viewVars
  <2>4. NoOrphanForward'
    BY <1>3, <2>1 DEF TypeOK, NoOrphanForward, TakeAdd, Take, Step
  <2> QED BY <2>2, <2>3, <2>4 DEF ForwardInv
<1>4. CASE TakeStop(s)
  <2> DEFINE f == Head(inbox[s]).forward
  <2>1. f \in Forwards
    BY <1>4, HeadCommand DEF TakeStop, Take
  <2>2. inbox' \in [Sessions -> Seq(Command)] /\ AddsAreOwned'
    BY <1>4, ReadCommands DEF TakeStop, Take, forwardVars
  <2>3. TypeOK' /\ TunnelBound'
    BY <1>4, <2>1, <2>2 DEF TypeOK, TunnelBound, TakeStop, Take, forwardVars, tunnelVars, tabVars, viewVars
  <2>4. NoOrphanForward'
    BY <1>4, <2>1 DEF TypeOK, NoOrphanForward, TakeStop, Take, forwardVars
  <2> QED BY <2>2, <2>3, <2>4 DEF ForwardInv
<1>5. CASE TakeDisconnect(s)
  <2>1. inbox' \in [Sessions -> Seq(Command)] /\ AddsAreOwned'
    BY <1>5, ReadCommands DEF TakeDisconnect, Take, forwardVars
  <2>2. TypeOK' /\ TunnelBound' /\ NoOrphanForward'
    BY <1>5, <2>1 DEF TypeOK, TunnelBound, NoOrphanForward, TakeDisconnect, Take, Advance,
       forwardVars, tunnelVars, tabVars, viewVars
  <2> QED BY <2>1, <2>2 DEF ForwardInv
<1>6. CASE CancelAll(s)
  <2>1. TypeOK' /\ TunnelBound' /\ AddsAreOwned'
    BY <1>6 DEF TypeOK, TunnelBound, AddsAreOwned, CancelAll, Advance, Mine, forwardVars,
       tunnelVars, tabVars, viewVars
  <2>2. NoOrphanForward'
    BY <1>6 DEF TypeOK, NoOrphanForward, CancelAll, Advance, Mine, forwardVars
  <2> QED BY <2>1, <2>2 DEF ForwardInv
<1>7. CASE Cleanup(s)
  <2>1. inbox' \in [Sessions -> Seq(Command)] /\ AddsAreOwned'
    BY <1>7, ReadCommands DEF Cleanup, forwardVars
  <2>2. wire' \in [Sessions -> Seq(Event)]
    BY <1>7, EmitTyped DEF Cleanup, Event
  <2>3. TypeOK' /\ TunnelBound'
    BY <1>7, <2>1, <2>2 DEF TypeOK, TunnelBound, Cleanup, Advance, forwardVars, tunnelVars, tabVars, viewVars
  <2>4. NoOrphanForward'
    BY <1>7 DEF TypeOK, NoOrphanForward, Cleanup, Advance, Mine, forwardVars
  <2> QED BY <2>1, <2>3, <2>4 DEF ForwardInv
<1> QED BY <1>1, <1>2, <1>3, <1>4, <1>5, <1>6, <1>7 DEF SessionStep

(* A forward's own task neither takes nor cancels tokens: it runs from spawned
   to done with the one it was given. *)
LEMMA ForwardSteps ==
    ASSUME ForwardInv, NEW f \in Forwards, ForwardStep(f)
    PROVE  ForwardInv'
<1> TypeOK /\ TunnelBound /\ AddsAreOwned /\ NoOrphanForward /\ owner[f] \in Sessions
  BY DEF ForwardInv, TypeOK
<1> USE DEF OnlyForward, sessionVars, tunnelVars, tabVars, viewVars
<1>1. wire' \in [Sessions -> Seq(Event)]
  <2>1. \A st \in {"active", "error", "stopped"} : Status(f, st) \in Event
    BY DEF Status, Event
  <2>2. CASE Bind(f) \/ Drop(f)
    BY <2>2 DEF Bind, Drop, TypeOK
  <2>3. CASE BindFailed(f) \/ Activate(f) \/ Stopped(f)
    BY <2>1, <2>3, EmitTyped DEF BindFailed, Activate, Stopped
  <2> QED BY <2>2, <2>3 DEF ForwardStep
<1>2. UNCHANGED <<session, inbox, tokens, cancelled, owner, port, opening, pumping, tab, list,
                 active, panel>>
      /\ \E to \in {"bound", "listening", "dropping", "done", "failed"} :
            pc' = [pc EXCEPT ![f] = to]
  BY DEF ForwardStep, Bind, BindFailed, Activate, Stopped, Drop, Step
<1>3. TypeOK'
  BY <1>1, <1>2 DEF TypeOK
<1>4. TunnelBound' /\ AddsAreOwned' /\ PanelShowsList'
  BY <1>2 DEF ForwardInv, TunnelBound, AddsAreOwned, PanelShowsList
<1>5. pc[f] \in {"spawned", "bound", "listening", "dropping"}
  BY DEF ForwardStep, Bind, BindFailed, Activate, Stopped, Drop, Step
<1>6. NoOrphanForward'
  BY <1>2, <1>5 DEF TypeOK, NoOrphanForward
<1> QED BY <1>3, <1>4, <1>6 DEF ForwardInv

(* Connections come and go under the bound, and change nothing else. *)
LEMMA TunnelSteps ==
    ASSUME ForwardInv, NEW f \in Forwards,
           Accept(f) \/ TunnelOpened(f) \/ TunnelRefused(f) \/ TunnelClosed(f)
             \/ TunnelCancelled(f)
    PROVE  ForwardInv'
<1> USE ForwardBounds DEF OnlyTunnels, sessionVars, forwardVars, tabVars, viewVars
<1>1. TypeOK' /\ TunnelBound'
  <2> TypeOK /\ TunnelBound /\ MaxTunnels \in Nat
      /\ opening[f] \in 0..MaxTunnels /\ pumping[f] \in 0..MaxTunnels
      /\ opening[f] + pumping[f] <= MaxTunnels
    BY DEF ForwardInv, TypeOK, TunnelBound
  <2>1. CASE Accept(f)
    <3>1. opening[f] + 1 \in 0..MaxTunnels /\ opening[f] + 1 + pumping[f] <= MaxTunnels
      BY <2>1 DEF Accept
    <3>2. TypeOK'
      BY <2>1, <3>1 DEF TypeOK, Accept
    <3>3. TunnelBound'
      BY <2>1, <3>1 DEF TypeOK, TunnelBound, Accept
    <3> QED BY <3>2, <3>3
  <2>2. CASE TunnelOpened(f)
    <3>1. opening[f] - 1 \in 0..MaxTunnels /\ pumping[f] + 1 \in 0..MaxTunnels
      BY <2>2 DEF TunnelOpened
    <3>2. TypeOK'
      BY <2>2, <3>1 DEF TypeOK, TunnelOpened
    <3>3. TunnelBound'
      BY <2>2, <3>1 DEF TypeOK, TunnelBound, TunnelOpened
    <3> QED BY <3>2, <3>3
  <2>3. CASE TunnelRefused(f)
    <3>1. opening[f] - 1 \in 0..MaxTunnels
      BY <2>3 DEF TunnelRefused
    <3>2. TypeOK'
      BY <2>3, <3>1 DEF TypeOK, TunnelRefused
    <3>3. TunnelBound'
      BY <2>3, <3>1 DEF TypeOK, TunnelBound, TunnelRefused
    <3> QED BY <3>2, <3>3
  <2>4. CASE TunnelClosed(f) \/ TunnelCancelled(f)
    <3>1. TunnelClosed(f)
      BY <2>4 DEF TunnelCancelled
    <3>2. pumping[f] - 1 \in 0..MaxTunnels
      BY <3>1 DEF TunnelClosed
    <3>3. TypeOK'
      BY <3>1, <3>2 DEF TypeOK, TunnelClosed
    <3>4. TunnelBound'
      BY <3>1, <3>2 DEF TypeOK, TunnelBound, TunnelClosed
    <3> QED BY <3>3, <3>4
  <2> QED BY <2>1, <2>2, <2>3, <2>4
<1>2. AddsAreOwned' /\ NoOrphanForward' /\ PanelShowsList'
  BY DEF ForwardInv, AddsAreOwned, NoOrphanForward, PanelShowsList, Accept, TunnelOpened, TunnelRefused,
     TunnelClosed, TunnelCancelled
<1> QED BY <1>1, <1>2 DEF ForwardInv

(* One step of anybody preserves the invariant. *)
LEMMA ForwardStepping == ForwardInv /\ [Next]_vars => ForwardInv'
<1> SUFFICES ASSUME ForwardInv, [Next]_vars PROVE ForwardInv'
  OBVIOUS
<1>1. CASE UNCHANGED vars
  BY <1>1 DEF ForwardInv, TypeOK, TunnelBound, AddsAreOwned, NoOrphanForward, PanelShowsList, vars,
     sessionVars, forwardVars, tunnelVars, tabVars, viewVars
<1>2. CASE Next
  <2>1. ASSUME NEW f \in Forwards, StopForward(f) PROVE ForwardInv'
    <3>1. owner[f] \in Sessions
      BY DEF ForwardInv, TypeOK
    <3> QED BY <2>1, <3>1, RendererSteps
  <2> QED BY <1>1, <1>2, <2>1, RendererSteps, ViewSteps, SessionSteps, ForwardSteps, TunnelSteps
      DEF Next, Rest
<1> QED BY <1>1, <1>2

(* The inductive invariant holds in every reachable state: types, tunnels under
   their bound, commands in the channel of their own session, no orphan. *)
THEOREM ForwardsHold == Spec => []ForwardInv
<1> QED BY ForwardInit, ForwardStepping, PTL DEF Spec

(* Every variable of the forwards keeps its type. *)
THEOREM ForwardTypes == Spec => []TypeOK
<1>1. ForwardInv => TypeOK
  BY DEF ForwardInv
<1> QED BY <1>1, ForwardsHold, PTL

(* A forward that runs can always be stopped: its session, still in its loop,
   holds its token, or the token is cancelled already (session/mod.rs:294-322). *)
THEOREM NoForwardIsOrphaned == Spec => []NoOrphanForward
<1>1. ForwardInv => NoOrphanForward
  BY DEF ForwardInv
<1> QED BY <1>1, ForwardsHold, PTL

(* The panel shows the rows of the session it was rendered for as its tab has them,
   whatever tab comes to the front meanwhile (forwards-panel.ts:74-112). *)
THEOREM PanelIsTrue == Spec => []PanelShowsList
<1>1. ForwardInv => PanelShowsList
  BY DEF ForwardInv
<1> QED BY <1>1, ForwardsHold, PTL

------------------------------------------------------------------------------
(* The list of a tab. What it has yet to hear of a forward is on the wire.     *)

OnTheWire(f, st) ==
    \E i \in 1..Len(wire[owner[f]]) : wire[owner[f]][i] = Status(f, st)

(* Events about a forward travel with those of its own session. *)
EventsAreOwned ==
    \A s \in Sessions : \A i \in 1..Len(wire[s]) :
        wire[s][i].status # "ended" => owner[wire[s][i].forward] = s

(* What is on the wire has happened. *)
EventsAreTrue ==
    \A f \in Forwards :
        /\ OnTheWire(f, "error")   => pc[f] = "failed"
        /\ OnTheWire(f, "active")  => pc[f] \in {"listening", "dropping", "done"}
        /\ OnTheWire(f, "stopped") => pc[f] \in {"dropping", "done"}

(* Of a forward that has stopped, the stop is told after all else. *)
StopComesLast ==
    \A f \in Forwards : pc[f] \in {"dropping", "done"} =>
        \A i \in 1..Len(wire[owner[f]]) : wire[owner[f]][i] = Status(f, "active") =>
            \E j \in 1..Len(wire[owner[f]]) : j > i /\ wire[owner[f]][j] = Status(f, "stopped")

(* What the list of an open tab says was true, and what is true it says or will hear. *)
ListIsOnItsWay ==
    \A f \in Forwards : tab[owner[f]] = "open" =>
        /\ list[f] = "error"      => pc[f] = "failed"
        /\ list[f] = "active"     => pc[f] \in {"listening", "dropping", "done"}
        /\ pc[f] = "failed"       => list[f] = "error"  \/ OnTheWire(f, "error")
        /\ pc[f] = "listening"    => list[f] = "active" \/ OnTheWire(f, "active")
        /\ pc[f] \in {"dropping", "done"} => list[f] = "absent" \/ OnTheWire(f, "stopped")

NoTabNoList == \A f \in Forwards : tab[owner[f]] # "open" => list[f] = "absent"

ListInv == EventsAreOwned /\ EventsAreTrue /\ StopComesLast /\ ListIsOnItsWay /\ NoTabNoList

LEMMA ListInit == Init => ListInv
BY DEF Init, ListInv, EventsAreOwned, EventsAreTrue, StopComesLast, ListIsOnItsWay, NoTabNoList,
   OnTheWire

(* Without events, lists and tabs changing, a forward may pass between two places of
   which the list says the same. *)
LEMMA QuietSteps ==
    ASSUME TypeOK, ListInv, UNCHANGED <<owner, wire, tab, list>>,
           \/ pc' = pc
           \/ \E f \in Forwards, from, to \in {"unused", "queued", "spawned", "bound"} :
                 Step(f, from, to)
           \/ \E f \in Forwards : Step(f, "dropping", "done")
    PROVE  ListInv'
<1> USE DEF Step
<1>1. \A g \in Forwards :
         /\ pc'[g] = "failed" <=> pc[g] = "failed"
         /\ pc'[g] = "listening" <=> pc[g] = "listening"
         /\ pc'[g] \in {"dropping", "done"} <=> pc[g] \in {"dropping", "done"}
  BY DEF TypeOK
<1>2. \A g \in Forwards, st \in {"active", "error", "stopped"} : OnTheWire(g, st)' <=> OnTheWire(g, st)
  BY DEF OnTheWire
<1>3. EventsAreOwned' /\ NoTabNoList'
  BY DEF ListInv, EventsAreOwned, NoTabNoList
<1>4. EventsAreTrue' /\ ListIsOnItsWay'
  BY <1>1, <1>2 DEF ListInv, EventsAreTrue, ListIsOnItsWay
<1>5. StopComesLast'
  BY <1>1 DEF ListInv, StopComesLast
<1> QED BY <1>3, <1>4, <1>5 DEF ListInv

(* What an event that is emitted adds to the wire. *)
LEMMA Emitted ==
    ASSUME TypeOK, EventsAreOwned, NEW s \in Sessions, NEW e \in Event, Emit(s, e), owner' = owner,
           e.status # "ended" => owner[e.forward] = s
    PROVE  /\ EventsAreOwned'
           /\ \A r \in Sessions :
                 /\ Len(wire[r]) \in Nat /\ Len(wire'[r]) \in Nat
                 /\ Len(wire'[r]) = IF r = s THEN Len(wire[r]) + 1 ELSE Len(wire[r])
                 /\ \A i \in 1..Len(wire[r]) : wire'[r][i] = wire[r][i]
           /\ wire'[s][Len(wire[s]) + 1] = e
<1>1. \A r \in Sessions : wire[r] \in Seq(Event)
  BY DEF TypeOK
<1>2. wire'[s] = Append(wire[s], e) /\ \A r \in Sessions : r # s => wire'[r] = wire[r]
  BY DEF TypeOK, Emit
<1>3. \A r \in Sessions :
         /\ Len(wire[r]) \in Nat /\ Len(wire'[r]) \in Nat
         /\ Len(wire'[r]) = IF r = s THEN Len(wire[r]) + 1 ELSE Len(wire[r])
         /\ \A i \in 1..Len(wire[r]) : wire'[r][i] = wire[r][i]
  BY <1>1, <1>2
<1>4. wire'[s][Len(wire[s]) + 1] = e
  BY <1>1, <1>2
<1>5. ASSUME NEW r \in Sessions, NEW i \in 1..Len(wire'[r]), wire'[r][i].status # "ended"
      PROVE  owner'[wire'[r][i].forward] = r
  <2>1. CASE i \in 1..Len(wire[r])
    BY <1>3, <1>5, <2>1 DEF EventsAreOwned
  <2>2. CASE r = s /\ i = Len(wire[s]) + 1
    BY <1>4, <1>5, <2>2
  <2> QED BY <1>3, <2>1, <2>2
<1> QED BY <1>3, <1>4, <1>5 DEF EventsAreOwned

(* The last status of a session says nothing of its forwards. *)
LEMMA EndEmitted ==
    ASSUME TypeOK, ListInv, NEW s \in Sessions, Emit(s, Terminal), UNCHANGED <<owner, pc, tab, list>>
    PROVE  ListInv'
<1>1. Terminal \in Event /\ Terminal.status = "ended"
  BY DEF Event, Terminal
<1>2. /\ EventsAreOwned'
      /\ \A r \in Sessions :
            /\ Len(wire[r]) \in Nat /\ Len(wire'[r]) \in Nat
            /\ Len(wire'[r]) = IF r = s THEN Len(wire[r]) + 1 ELSE Len(wire[r])
            /\ \A i \in 1..Len(wire[r]) : wire'[r][i] = wire[r][i]
      /\ wire'[s][Len(wire[s]) + 1] = Terminal
  BY <1>1, Emitted DEF ListInv
<1>3. \A f \in Forwards : owner[f] \in Sessions
  BY DEF TypeOK
<1>4. \A f \in Forwards, st \in {"active", "error", "stopped"} : Status(f, st) # Terminal
  <2>1. \A f \in Forwards, st \in {"active", "error", "stopped"} : Status(f, st).status = st
    BY DEF Status
  <2> QED BY <1>1, <2>1
<1>5. ASSUME NEW f \in Forwards, NEW st \in {"active", "error", "stopped"},
             NEW i \in 1..Len(wire'[owner[f]]), wire'[owner[f]][i] = Status(f, st)
      PROVE  i \in 1..Len(wire[owner[f]]) /\ wire[owner[f]][i] = Status(f, st)
  <2>1. owner[f] \in Sessions
    BY <1>3
  <2>2. ~(owner[f] = s /\ i = Len(wire[s]) + 1)
    BY <1>2, <1>4, <1>5
  <2>3. i \in 1..Len(wire[owner[f]])
    BY <1>2, <2>1, <2>2
  <2> QED BY <1>2, <1>5, <2>1, <2>3
<1>6. ASSUME NEW f \in Forwards, NEW st \in {"active", "error", "stopped"}
      PROVE  OnTheWire(f, st)' <=> OnTheWire(f, st)
  <2>1. owner[f] \in Sessions /\ owner'[f] = owner[f]
    BY <1>3
  <2>2. \A i \in 1..Len(wire[owner[f]]) : i \in 1..Len(wire'[owner[f]])
    BY <1>2, <2>1
  <2>3. OnTheWire(f, st) => OnTheWire(f, st)'
    BY <1>2, <2>1, <2>2 DEF OnTheWire
  <2>4. OnTheWire(f, st)' => OnTheWire(f, st)
    BY <1>5, <2>1 DEF OnTheWire
  <2> QED BY <2>3, <2>4
<1>7. EventsAreTrue' /\ ListIsOnItsWay' /\ NoTabNoList'
  BY <1>6 DEF ListInv, EventsAreTrue, ListIsOnItsWay, NoTabNoList
<1>8. StopComesLast'
  <2> SUFFICES ASSUME NEW f \in Forwards, pc[f] \in {"dropping", "done"},
                      NEW i \in 1..Len(wire'[owner[f]]), wire'[owner[f]][i] = Status(f, "active")
               PROVE  \E j \in 1..Len(wire'[owner[f]]) :
                         j > i /\ wire'[owner[f]][j] = Status(f, "stopped")
    BY DEF StopComesLast
  <2>1. PICK j \in 1..Len(wire[owner[f]]) : j > i /\ wire[owner[f]][j] = Status(f, "stopped")
    BY <1>5 DEF ListInv, StopComesLast
  <2> QED BY <1>2, <1>3, <2>1
<1> QED BY <1>2, <1>7, <1>8 DEF ListInv

(* A forward tells what has become of it at the step that makes it so. *)
LEMMA ForwardTells ==
    ASSUME TypeOK, ListInv, NEW f \in Forwards, UNCHANGED <<owner, tab, list>>,
           BindFailed(f) \/ Activate(f) \/ Stopped(f)
    PROVE  ListInv'
<1> DEFINE s == owner[f]
           st == IF BindFailed(f) THEN "error" ELSE IF Activate(f) THEN "active" ELSE "stopped"
<1>1. /\ Emit(s, Status(f, st)) /\ st \in {"active", "error", "stopped"}
      /\ \/ st = "error"   /\ pc[f] = "spawned"   /\ pc' = [pc EXCEPT ![f] = "failed"]
         \/ st = "active"  /\ pc[f] = "bound"     /\ pc' = [pc EXCEPT ![f] = "listening"]
         \/ st = "stopped" /\ pc[f] = "listening" /\ pc' = [pc EXCEPT ![f] = "dropping"]
  BY DEF BindFailed, Activate, Stopped, Step
<1> HIDE DEF st
<1>2. /\ s \in Sessions /\ Status(f, st) \in Event
      /\ Status(f, st).status = st /\ Status(f, st).forward = f
  BY <1>1 DEF TypeOK, Status, Event
<1>3. /\ EventsAreOwned'
      /\ \A r \in Sessions :
            /\ Len(wire[r]) \in Nat /\ Len(wire'[r]) \in Nat
            /\ Len(wire'[r]) = IF r = s THEN Len(wire[r]) + 1 ELSE Len(wire[r])
            /\ \A i \in 1..Len(wire[r]) : wire'[r][i] = wire[r][i]
      /\ wire'[s][Len(wire[s]) + 1] = Status(f, st)
  BY <1>1, <1>2, Emitted DEF ListInv
<1>4. \A g \in Forwards : owner[g] \in Sessions /\ owner'[g] = owner[g]
  BY DEF TypeOK
<1>5. ASSUME NEW g \in Forwards, NEW t \in {"active", "error", "stopped"}
      PROVE  /\ OnTheWire(g, t) => OnTheWire(g, t)'
             /\ OnTheWire(g, t)' => OnTheWire(g, t) \/ (g = f /\ t = st)
             /\ g = f /\ t = st => OnTheWire(g, t)'
             /\ ~(g = f /\ t = st) =>
                   \A i \in 1..Len(wire'[owner[g]]) : wire'[owner[g]][i] = Status(g, t) =>
                       i \in 1..Len(wire[owner[g]]) /\ wire[owner[g]][i] = Status(g, t)
  <2>1. Status(g, t) = Status(f, st) => g = f /\ t = st
    <3>1. Status(g, t).forward = g /\ Status(g, t).status = t
      BY DEF Status
    <3> QED BY <1>2, <3>1
  <2>2. owner[g] \in Sessions /\ owner'[g] = owner[g]
    BY <1>4
  <2>3. \A i \in 1..Len(wire'[owner[g]]) : wire'[owner[g]][i] = Status(g, t) =>
            \/ i \in 1..Len(wire[owner[g]]) /\ wire[owner[g]][i] = Status(g, t)
            \/ g = f /\ t = st
    <3>1. ASSUME NEW i \in 1..Len(wire'[owner[g]]), wire'[owner[g]][i] = Status(g, t)
          PROVE  \/ i \in 1..Len(wire[owner[g]]) /\ wire[owner[g]][i] = Status(g, t)
                 \/ g = f /\ t = st
      <4>1. \/ i \in 1..Len(wire[owner[g]])
            \/ owner[g] = s /\ i = Len(wire[s]) + 1
        BY <1>3, <2>2
      <4>2. CASE i \in 1..Len(wire[owner[g]])
        BY <1>3, <2>2, <3>1, <4>2
      <4>3. CASE owner[g] = s /\ i = Len(wire[s]) + 1
        BY <1>3, <2>1, <3>1, <4>3
      <4> QED BY <4>1, <4>2, <4>3
    <3> QED BY <3>1
  <2>4. OnTheWire(g, t) => OnTheWire(g, t)'
    BY <1>3, <2>2 DEF OnTheWire
  <2>5. g = f /\ t = st => OnTheWire(g, t)'
    <3>1. Len(wire[s]) + 1 \in 1..Len(wire'[s]) /\ wire'[s][Len(wire[s]) + 1] = Status(f, st)
      BY <1>2, <1>3
    <3> QED BY <2>2, <3>1 DEF OnTheWire
  <2>6. OnTheWire(g, t)' => OnTheWire(g, t) \/ (g = f /\ t = st)
    BY <2>2, <2>3 DEF OnTheWire
  <2> QED BY <2>3, <2>4, <2>5, <2>6
<1>6. EventsAreTrue'
  <2> SUFFICES ASSUME NEW g \in Forwards
               PROVE  /\ OnTheWire(g, "error")'   => pc'[g] = "failed"
                      /\ OnTheWire(g, "active")'  => pc'[g] \in {"listening", "dropping", "done"}
                      /\ OnTheWire(g, "stopped")' => pc'[g] \in {"dropping", "done"}
    BY DEF EventsAreTrue
  <2> QED BY <1>1, <1>5 DEF ListInv, EventsAreTrue, TypeOK
<1>7. StopComesLast'
  <2> SUFFICES ASSUME NEW g \in Forwards, pc'[g] \in {"dropping", "done"},
                      NEW i \in 1..Len(wire'[owner[g]]), wire'[owner[g]][i] = Status(g, "active")
               PROVE  \E j \in 1..Len(wire'[owner[g]]) :
                         j > i /\ wire'[owner[g]][j] = Status(g, "stopped")
    BY DEF StopComesLast
  <2>1. st # "active" \/ g # f
    BY <1>1 DEF TypeOK
  <2>2. i \in 1..Len(wire[owner[g]]) /\ wire[owner[g]][i] = Status(g, "active")
    BY <1>5, <2>1
  <2>3. CASE g = f
    <3>1. st = "stopped"
      BY <1>1, <2>3 DEF TypeOK
    <3>2. Len(wire[s]) + 1 \in 1..Len(wire'[s]) /\ Len(wire[s]) + 1 > i
      BY <1>2, <1>3, <2>2, <2>3
    <3> QED BY <1>3, <2>3, <3>1, <3>2
  <2>4. CASE g # f
    <3>1. pc[g] \in {"dropping", "done"}
      BY <1>1, <2>4 DEF TypeOK
    <3>2. PICK j \in 1..Len(wire[owner[g]]) : j > i /\ wire[owner[g]][j] = Status(g, "stopped")
      BY <2>2, <3>1 DEF ListInv, StopComesLast
    <3>3. owner[g] \in Sessions
      BY <1>4
    <3>4. j \in 1..Len(wire'[owner[g]])
      BY <1>3, <3>3
    <3> QED BY <1>3, <3>2, <3>3, <3>4
  <2> QED BY <2>3, <2>4
<1>8. ListIsOnItsWay'
  <2> SUFFICES ASSUME NEW g \in Forwards, tab[owner[g]] = "open"
               PROVE  /\ list[g] = "error"      => pc'[g] = "failed"
                      /\ list[g] = "active"     => pc'[g] \in {"listening", "dropping", "done"}
                      /\ pc'[g] = "failed"      => list[g] = "error"  \/ OnTheWire(g, "error")'
                      /\ pc'[g] = "listening"   => list[g] = "active" \/ OnTheWire(g, "active")'
                      /\ pc'[g] \in {"dropping", "done"} =>
                            list[g] = "absent" \/ OnTheWire(g, "stopped")'
    BY DEF ListIsOnItsWay
  <2>1. CASE g = f
    BY <1>1, <1>5, <2>1 DEF ListInv, ListIsOnItsWay, TypeOK
  <2>2. CASE g # f
    BY <1>1, <1>5, <2>2 DEF ListInv, ListIsOnItsWay, TypeOK
  <2> QED BY <2>1, <2>2
<1>9. NoTabNoList'
  BY DEF ListInv, NoTabNoList
<1> QED BY <1>3, <1>6, <1>7, <1>8, <1>9 DEF ListInv

(* A tab that lets go of its session lets go of the list. *)
LEMMA TabLost ==
    ASSUME TypeOK, ListInv, NEW s \in Sessions, UNCHANGED <<owner, pc, wire>>,
           \E to \in {"ended", "closed"} : tab' = [tab EXCEPT ![s] = to],
           list' = [f \in Forwards |-> IF owner[f] = s THEN "absent" ELSE list[f]]
    PROVE  ListInv'
<1>1. \A f \in Forwards, st \in {"active", "error", "stopped"} :
         OnTheWire(f, st)' <=> OnTheWire(f, st)
  BY DEF OnTheWire
<1>2. EventsAreOwned' /\ StopComesLast'
  BY DEF ListInv, EventsAreOwned, StopComesLast
<1>3. EventsAreTrue'
  BY <1>1 DEF ListInv, EventsAreTrue
<1>4. ListIsOnItsWay' /\ NoTabNoList'
  BY <1>1 DEF ListInv, ListIsOnItsWay, NoTabNoList, TypeOK
<1> QED BY <1>2, <1>3, <1>4 DEF ListInv

(* The renderer handles what was told first. *)
LEMMA Delivered ==
    ASSUME TypeOK, ListInv, NEW s \in Sessions, Deliver(s)
    PROVE  ListInv'
<1> DEFINE event == Head(wire[s])
<1>1. /\ UNCHANGED <<owner, pc>>
      /\ event = wire[s][1] /\ event \in Event
      /\ \A r \in Sessions : Len(wire[r]) \in Nat /\ Len(wire'[r]) \in Nat
      /\ Len(wire[s]) = Len(wire'[s]) + 1
      /\ \A i \in 1..Len(wire'[s]) : wire'[s][i] = wire[s][i + 1]
      /\ \A r \in Sessions : r # s => wire'[r] = wire[r]
  BY DEF TypeOK, Deliver, forwardVars
<1>2. \A g \in Forwards : owner[g] \in Sessions /\ owner'[g] = owner[g]
  BY <1>1 DEF TypeOK
<1>3. EventsAreOwned'
  <2> SUFFICES ASSUME NEW r \in Sessions, NEW i \in 1..Len(wire'[r]),
                      wire'[r][i].status # "ended"
               PROVE  owner[wire'[r][i].forward] = r
    BY <1>1 DEF EventsAreOwned
  <2>1. CASE r = s
    <3>1. i + 1 \in 1..Len(wire[s]) /\ wire'[s][i] = wire[s][i + 1]
      BY <1>1, <2>1
    <3> QED BY <2>1, <3>1 DEF ListInv, EventsAreOwned
  <2>2. CASE r # s
    BY <1>1, <2>2 DEF ListInv, EventsAreOwned
  <2> QED BY <2>1, <2>2
<1>4. ASSUME NEW g \in Forwards, NEW t \in {"active", "error", "stopped"}
      PROVE  /\ OnTheWire(g, t)' => OnTheWire(g, t)
             /\ OnTheWire(g, t) => OnTheWire(g, t)' \/ (owner[g] = s /\ event = Status(g, t))
  <2>1. CASE owner[g] = s
    <3>1. OnTheWire(g, t)' => OnTheWire(g, t)
      <4>1. \A i \in 1..Len(wire'[s]) : i + 1 \in 1..Len(wire[s])
        BY <1>1
      <4> QED BY <1>1, <1>2, <2>1, <4>1 DEF OnTheWire
    <3>2. ASSUME NEW i \in 1..Len(wire[s]), i # 1, wire[s][i] = Status(g, t)
          PROVE  OnTheWire(g, t)'
      <4>1. i - 1 \in 1..Len(wire'[s]) /\ wire'[s][i - 1] = Status(g, t)
        BY <1>1, <3>2
      <4> QED BY <1>2, <2>1, <4>1 DEF OnTheWire
    <3> QED BY <1>1, <2>1, <3>1, <3>2 DEF OnTheWire
  <2>2. CASE owner[g] # s
    BY <1>1, <1>2, <2>2 DEF OnTheWire
  <2> QED BY <2>1, <2>2
<1>5. EventsAreTrue'
  BY <1>1, <1>4 DEF ListInv, EventsAreTrue
<1>6. StopComesLast'
  <2> SUFFICES ASSUME NEW g \in Forwards, pc[g] \in {"dropping", "done"},
                      NEW i \in 1..Len(wire'[owner[g]]), wire'[owner[g]][i] = Status(g, "active")
               PROVE  \E j \in 1..Len(wire'[owner[g]]) :
                         j > i /\ wire'[owner[g]][j] = Status(g, "stopped")
    BY <1>1 DEF StopComesLast
  <2>1. CASE owner[g] = s
    <3>1. i + 1 \in 1..Len(wire[s]) /\ wire[s][i + 1] = Status(g, "active")
      BY <1>1, <2>1
    <3>2. PICK j \in 1..Len(wire[s]) : j > i + 1 /\ wire[s][j] = Status(g, "stopped")
      BY <2>1, <3>1 DEF ListInv, StopComesLast
    <3>3. i \in Nat /\ j - 1 \in 1..Len(wire'[s]) /\ j - 1 > i
      BY <1>1, <2>1, <3>2
    <3>4. wire'[s][j - 1] = wire[s][(j - 1) + 1] /\ (j - 1) + 1 = j
      BY <1>1, <3>3
    <3> QED BY <2>1, <3>2, <3>3, <3>4
  <2>2. CASE owner[g] # s
    BY <1>1, <1>2, <2>2 DEF ListInv, StopComesLast
  <2> QED BY <2>1, <2>2
<1>7. CASE tab[s] # "open"
  <2>1. UNCHANGED <<tab, list>>
    BY <1>7 DEF Deliver, tabVars, SetOver, UpdateForward
  <2>2. ListIsOnItsWay' /\ NoTabNoList'
    BY <1>1, <1>4, <1>7, <2>1 DEF ListInv, ListIsOnItsWay, NoTabNoList
  <2> QED BY <1>3, <1>5, <1>6, <2>2 DEF ListInv
<1>8. CASE tab[s] = "open" /\ event.status = "ended"
  <2>1. /\ tab' = [tab EXCEPT ![s] = "ended"]
        /\ list' = [f \in Forwards |-> IF owner[f] = s THEN "absent" ELSE list[f]]
    BY <1>8 DEF Deliver, SetOver
  <2>2. ListIsOnItsWay' /\ NoTabNoList'
    BY <1>1, <1>4, <2>1 DEF ListInv, ListIsOnItsWay, NoTabNoList, TypeOK
  <2> QED BY <1>3, <1>5, <1>6, <2>2 DEF ListInv
<1>9. CASE tab[s] = "open" /\ event.status # "ended"
  <2>2. PICK h \in Forwards, st \in {"active", "error", "stopped"} : event = Status(h, st)
    BY <1>1, <1>9 DEF Event, Terminal, Status
  <2> /\ event.forward = h /\ event.status = st
    BY <2>2 DEF Status
  <2>1. /\ UNCHANGED tab
        /\ list' = [list EXCEPT ![h] = IF st = "stopped" THEN "absent" ELSE st]
    BY <1>9 DEF Deliver, UpdateForward
  <2>3. owner[h] = s
    BY <1>1, <1>9 DEF ListInv, EventsAreOwned
  <2>4. OnTheWire(h, st)
    BY <1>1, <2>2, <2>3 DEF OnTheWire
  <2>5. NoTabNoList'
    BY <1>1, <1>9, <2>1, <2>2, <2>3 DEF ListInv, NoTabNoList, TypeOK
  <2>6. \A g \in Forwards, t \in {"active", "error", "stopped"} : event = Status(g, t) => g = h /\ t = st
    <3>1. \A g \in Forwards, t \in {"active", "error", "stopped"} :
             Status(g, t).forward = g /\ Status(g, t).status = t
      BY DEF Status
    <3> QED BY <3>1
  <2> HIDE DEF event
  <2>7. st = "active" /\ pc[h] \in {"dropping", "done"} => OnTheWire(h, "stopped")'
    <3> SUFFICES ASSUME st = "active", pc[h] \in {"dropping", "done"}
                 PROVE  OnTheWire(h, "stopped")'
      OBVIOUS
    <3>1. 1 \in 1..Len(wire[s]) /\ wire[s][1] = Status(h, "active")
      BY <1>1, <2>2
    <3>2. PICK j \in 1..Len(wire[s]) : j > 1 /\ wire[s][j] = Status(h, "stopped")
      BY <2>2, <2>3, <3>1 DEF ListInv, StopComesLast
    <3>3. j - 1 \in 1..Len(wire'[s]) /\ (j - 1) + 1 = j
      BY <1>1, <3>2
    <3>4. wire'[s][j - 1] = Status(h, "stopped")
      BY <1>1, <3>2, <3>3
    <3> QED BY <1>2, <2>2, <2>3, <3>3, <3>4 DEF OnTheWire
  <2>8. ListIsOnItsWay'
    <3> SUFFICES ASSUME NEW g \in Forwards, tab[owner[g]] = "open"
                 PROVE  /\ list'[g] = "error"      => pc[g] = "failed"
                        /\ list'[g] = "active"     => pc[g] \in {"listening", "dropping", "done"}
                        /\ pc[g] = "failed"        => list'[g] = "error"  \/ OnTheWire(g, "error")'
                        /\ pc[g] = "listening"     => list'[g] = "active" \/ OnTheWire(g, "active")'
                        /\ pc[g] \in {"dropping", "done"} =>
                              list'[g] = "absent" \/ OnTheWire(g, "stopped")'
      BY <1>1, <2>1 DEF ListIsOnItsWay
    <3>1. CASE g # h
      <4>1. list'[g] = list[g]
        BY <2>1, <2>2, <3>1 DEF TypeOK
      <4>2. \A t \in {"active", "error", "stopped"} : OnTheWire(g, t) => OnTheWire(g, t)'
        BY <1>4, <2>6, <3>1
      <4> QED BY <4>1, <4>2 DEF ListInv, ListIsOnItsWay
    <3>2. CASE g = h
      <4>1. list'[h] = IF st = "stopped" THEN "absent" ELSE st
        BY <2>1, <2>2 DEF TypeOK
      <4>2. /\ st = "error"   => pc[h] = "failed"
            /\ st = "active"  => pc[h] \in {"listening", "dropping", "done"}
            /\ st = "stopped" => pc[h] \in {"dropping", "done"}
        BY <2>2, <2>4 DEF ListInv, EventsAreTrue
      <4> QED BY <2>2, <2>7, <3>2, <4>1, <4>2
    <3> QED BY <3>1, <3>2
  <2> QED BY <1>3, <1>5, <1>6, <2>5, <2>8 DEF ListInv
<1> QED BY <1>7, <1>8, <1>9

(* One step of anybody preserves what the wire and the lists say together. *)
LEMMA ListStepping == ForwardInv /\ ListInv /\ [Next]_vars => ListInv'
<1> SUFFICES ASSUME ForwardInv, ListInv, [Next]_vars PROVE ListInv'
  OBVIOUS
<1> TypeOK /\ AddsAreOwned
  BY DEF ForwardInv
<1> USE DEF sessionVars, forwardVars, tunnelVars, tabVars, viewVars, OnlyView, OnlyForward, OnlyTunnels
<1>1. CASE UNCHANGED vars
  BY <1>1, QuietSteps DEF vars
<1>2. ASSUME NEW s \in Sessions, NEW f \in Forwards, AddForward(s, f) PROVE ListInv'
  BY <1>2, QuietSteps DEF AddForward
<1>3. ASSUME NEW s \in Sessions, CloseTab(s) PROVE ListInv'
  BY <1>3, TabLost DEF CloseTab
<1>4. ASSUME NEW s \in Sessions, Deliver(s) PROVE ListInv'
  BY <1>4, Delivered
<1>5. ASSUME NEW s \in Sessions, SessionStep(s) \/ ChannelClosed(s) PROVE ListInv'
  <2>1. CASE LoginFailed(s) \/ Cleanup(s)
    BY <2>1, EndEmitted DEF LoginFailed, Cleanup
  <2>2. CASE TakeAdd(s)
    <3>1. Head(inbox[s]).forward \in Forwards
      BY <2>2, HeadCommand DEF TakeAdd, Take
    <3> QED BY <2>2, <3>1, QuietSteps DEF TakeAdd
  <2>3. CASE LoginSucceeded(s) \/ TakeStop(s) \/ TakeDisconnect(s) \/ CancelAll(s) \/ ChannelClosed(s)
    BY <2>3, QuietSteps DEF LoginSucceeded, TakeStop, TakeDisconnect, CancelAll, ChannelClosed
  <2> QED BY <1>5, <2>1, <2>2, <2>3 DEF SessionStep
<1>6. ASSUME NEW f \in Forwards, ForwardStep(f) PROVE ListInv'
  <2>1. CASE Bind(f) \/ Drop(f)
    BY <2>1, QuietSteps DEF Bind, Drop
  <2>2. CASE BindFailed(f) \/ Activate(f) \/ Stopped(f)
    <3>1. UNCHANGED <<owner, tab, list>>
      BY <2>2 DEF BindFailed, Activate, Stopped
    <3> QED BY <2>2, <3>1, ForwardTells
  <2> QED BY <1>6, <2>1, <2>2 DEF ForwardStep
<1>7. ASSUME NEW f \in Forwards,
             \/ StopForward(f) \/ Accept(f) \/ TunnelOpened(f) \/ TunnelRefused(f)
             \/ TunnelClosed(f) \/ TunnelCancelled(f)
      PROVE  ListInv'
  BY <1>7, QuietSteps DEF StopForward, Accept, TunnelOpened, TunnelRefused, TunnelClosed,
     TunnelCancelled
<1>8. ASSUME OpenPanel \/ ClosePanel \/ \E s \in Sessions \cup {None} : ActivateTab(s)
      PROVE  ListInv'
  BY <1>8, QuietSteps DEF OpenPanel, ClosePanel, ActivateTab
<1> QED BY <1>1, <1>2, <1>3, <1>4, <1>5, <1>6, <1>7, <1>8 DEF Next, Rest

(* What a tab lists, once it has heard all there is to hear, is what serves and what
   failed to bind; without a session it lists nothing (tabs.ts:267-312). *)
THEOREM ListIsTrue == Spec => []ListFollowsForwards
<1>1. ForwardInv /\ ListInv => ListFollowsForwards
  <2> SUFFICES ASSUME ForwardInv, ListInv, NEW f \in Forwards
               PROVE  /\ tab[owner[f]] # "open" => list[f] = "absent"
                      /\ tab[owner[f]] = "open" /\ wire[owner[f]] = << >> =>
                            /\ list[f] = "active" <=> pc[f] = "listening"
                            /\ list[f] = "error"  <=> pc[f] = "failed"
                            /\ list[f] # "absent"  => pc[f] \in {"listening", "failed"}
    BY DEF ListFollowsForwards
  <2>1. wire[owner[f]] = << >> => \A st \in {"active", "error", "stopped"} : ~OnTheWire(f, st)
    BY DEF OnTheWire
  <2>2. list[f] \in {"absent", "active", "error"}
    BY DEF ForwardInv, TypeOK
  <2> QED BY <2>1, <2>2 DEF ListInv, ListIsOnItsWay, NoTabNoList
<1> QED BY <1>1, ListInit, ListStepping, ForwardsHold, PTL DEF Spec

------------------------------------------------------------------------------
(* The promise. What a step of the contract asks for beyond ForwardInv: a stop *)
(* waits in the channel of its forward's own session, because rows are shown   *)
(* for their own session; tokens are of forwards that were begun, in a session *)
(* that has not ended; and no two forwards hold one port.                      *)

StopsAreOwned ==
    \A s \in Sessions : \A i \in 1..Len(inbox[s]) :
        inbox[s][i].op = "stop" => owner[inbox[s][i].forward] = s

RowsAreOwned ==
    panel.of # None => \A f \in Forwards : panel.rows[f] # "absent" => owner[f] = panel.of

TokensAreLive ==
    \A f \in tokens :
        /\ pc[f] \notin {"unused", "queued"}
        /\ session[owner[f]] \in {"loop", "cancelling", "leaving"}

PortsAreApart ==
    \A f, g \in Forwards : f # g /\ Holds(f) /\ Holds(g) => port[f] # port[g]

PromiseInv == StopsAreOwned /\ RowsAreOwned /\ TokensAreLive /\ PortsAreApart

(* Nothing is waiting, shown, owned or bound yet. *)
LEMMA PromiseInit == Init => PromiseInv
BY DEF Init, PromiseInv, StopsAreOwned, RowsAreOwned, TokensAreLive, PortsAreApart, Holds, Closed

(* A channel that gets a command of its own session, loses one, or loses all. *)
LEMMA StopsStayOwned ==
    ASSUME TypeOK, StopsAreOwned, NEW s \in Sessions, owner' = owner,
           \/ \E cmd \in Command : /\ cmd.op = "stop" => owner[cmd.forward] = s
                                   /\ inbox' = [inbox EXCEPT ![s] = Append(@, cmd)]
           \/ inbox[s] # << >> /\ inbox' = [inbox EXCEPT ![s] = Tail(@)]
           \/ inbox' = [inbox EXCEPT ![s] = << >>]
    PROVE  StopsAreOwned'
<1> SUFFICES ASSUME NEW r \in Sessions, NEW i \in 1..Len(inbox'[r]), inbox'[r][i].op = "stop"
             PROVE  owner[inbox'[r][i].forward] = r
  BY DEF StopsAreOwned
<1>1. inbox[s] \in Seq(Command) /\ inbox \in [Sessions -> Seq(Command)]
  BY DEF TypeOK
<1>2. CASE r # s
  BY <1>1, <1>2 DEF StopsAreOwned
<1>3. CASE r = s
  <2>1. ASSUME NEW cmd \in Command, cmd.op = "stop" => owner[cmd.forward] = s,
               inbox' = [inbox EXCEPT ![s] = Append(@, cmd)]
        PROVE  owner[inbox'[r][i].forward] = r
    <3>1. inbox'[s] = Append(inbox[s], cmd)
      BY <1>1, <2>1
    <3>2. CASE i = Len(inbox[s]) + 1
      BY <1>1, <1>3, <2>1, <3>1, <3>2
    <3>3. CASE i \in 1..Len(inbox[s])
      BY <1>1, <1>3, <3>1, <3>3 DEF StopsAreOwned
    <3> QED BY <1>1, <1>3, <3>1, <3>2, <3>3
  <2>2. CASE inbox[s] # << >> /\ inbox' = [inbox EXCEPT ![s] = Tail(@)]
    <3>1. i + 1 \in 1..Len(inbox[s]) /\ inbox'[s][i] = inbox[s][i + 1]
      BY <1>1, <1>3, <2>2
    <3> QED BY <1>3, <3>1 DEF StopsAreOwned
  <2>3. CASE inbox' = [inbox EXCEPT ![s] = << >>]
    BY <1>1, <1>3, <2>3
  <2> QED BY <2>1, <2>2, <2>3
<1> QED BY <1>2, <1>3

(* The panel sends a stop to the session whose rows it shows. *)
LEMMA StopsStepping == ForwardInv /\ PromiseInv /\ [Next]_vars => StopsAreOwned'
<1> SUFFICES ASSUME ForwardInv, PromiseInv, [Next]_vars PROVE StopsAreOwned'
  OBVIOUS
<1> TypeOK /\ StopsAreOwned /\ RowsAreOwned
  BY DEF ForwardInv, PromiseInv
<1> USE DEF sessionVars, forwardVars, tunnelVars, tabVars, viewVars, OnlyView, OnlyForward, OnlyTunnels
<1>0. CASE UNCHANGED <<inbox, owner>>
  BY <1>0 DEF StopsAreOwned
<1>1. ASSUME NEW s \in Sessions, NEW f \in Forwards, AddForward(s, f) PROVE StopsAreOwned'
  <2>1. Add(f) \in Command /\ Add(f).op = "add"
    BY DEF Add, Command
  <2> QED BY <1>1, <2>1, StopsStayOwned DEF AddForward, Send
<1>2. ASSUME NEW f \in Forwards, StopForward(f) PROVE StopsAreOwned'
  <2>1. Stop(f) \in Command /\ Stop(f).forward = f
    BY DEF Stop, Command
  <2>2. panel.of \in Sessions /\ owner[f] = panel.of
    BY <1>2 DEF StopForward, RowsAreOwned, TypeOK, Closed
  <2> QED BY <1>2, <2>1, <2>2, StopsStayOwned DEF StopForward, Send
<1>3. ASSUME NEW s \in Sessions, CloseTab(s) PROVE StopsAreOwned'
  <2>1. [op |-> "disconnect"] \in Command
    BY DEF Command
  <2> QED BY <1>0, <1>3, <2>1, StopsStayOwned DEF CloseTab
<1>4. ASSUME NEW s \in Sessions, SessionStep(s) PROVE StopsAreOwned'
  <2>1. CASE LoginFailed(s) \/ Cleanup(s)
    BY <2>1, StopsStayOwned DEF LoginFailed, Cleanup
  <2>2. CASE TakeAdd(s) \/ TakeStop(s) \/ TakeDisconnect(s)
    BY <2>2, StopsStayOwned DEF TakeAdd, TakeStop, TakeDisconnect, Take
  <2>3. CASE LoginSucceeded(s) \/ CancelAll(s)
    BY <1>0, <2>3 DEF LoginSucceeded, CancelAll
  <2> QED BY <1>4, <2>1, <2>2, <2>3 DEF SessionStep
<1>5. ASSUME NEW s \in Sessions, Deliver(s) \/ ChannelClosed(s) PROVE StopsAreOwned'
  BY <1>0, <1>5 DEF Deliver, ChannelClosed
<1>6. ASSUME NEW f \in Forwards,
             \/ ForwardStep(f) \/ Accept(f) \/ TunnelOpened(f) \/ TunnelRefused(f)
             \/ TunnelClosed(f) \/ TunnelCancelled(f)
      PROVE  StopsAreOwned'
  BY <1>0, <1>6 DEF ForwardStep, Bind, BindFailed, Activate, Stopped, Drop, Step, Accept,
     TunnelOpened, TunnelRefused, TunnelClosed, TunnelCancelled
<1>7. ASSUME OpenPanel \/ ClosePanel \/ \E s \in Sessions \cup {None} : ActivateTab(s)
      PROVE  StopsAreOwned'
  BY <1>0, <1>7 DEF OpenPanel, ClosePanel, ActivateTab
<1>8. CASE UNCHANGED vars
  BY <1>0, <1>8 DEF vars
<1> QED BY <1>1, <1>2, <1>3, <1>4, <1>5, <1>6, <1>7, <1>8 DEF Next, Rest

(* A panel is left alone, closed, or rendered. *)
LEMMA RowsStepping == ForwardInv /\ PromiseInv /\ [Next]_vars => RowsAreOwned'
<1> SUFFICES ASSUME ForwardInv, PromiseInv, [Next]_vars PROVE RowsAreOwned'
  OBVIOUS
<1> RowsAreOwned
  BY DEF PromiseInv
<1> USE DEF sessionVars, forwardVars, tunnelVars, tabVars, viewVars, OnlyView, OnlyForward, OnlyTunnels
<1>0. CASE UNCHANGED <<owner, panel>>
  BY <1>0 DEF RowsAreOwned
<1>1. CASE panel' = Closed
  BY <1>1 DEF RowsAreOwned, Closed
<1>2. CASE panel' = Rendering'
  <2>1. /\ panel'.of = Target'
        /\ panel'.rows = [f \in Forwards |-> IF owner'[f] = Target' THEN list'[f] ELSE "absent"]
    BY <1>2 DEF Rendering
  <2> QED BY <2>1 DEF RowsAreOwned
<1>3. ASSUME NEW s \in Sessions, Deliver(s) PROVE RowsAreOwned'
  <2>1. UNCHANGED owner
    BY <1>3 DEF Deliver
  <2> QED BY <1>0, <1>1, <1>2, <1>3, <2>1 DEF Deliver, SetOver, UpdateForward, ForwardsChanged
<1>4. CASE OpenPanel
  <2>1. panel' = Rendering'
    BY <1>4 DEF OpenPanel, Rendering, Target
  <2> QED BY <1>2, <2>1
<1>5. ASSUME NEW s \in Sessions,
             \/ CloseTab(s) \/ SessionStep(s) \/ ChannelClosed(s)
             \/ \E f \in Forwards : AddForward(s, f)
      PROVE  RowsAreOwned'
  BY <1>0, <1>5 DEF CloseTab, AddForward, SessionStep, LoginSucceeded, LoginFailed, TakeAdd, TakeStop,
     TakeDisconnect, CancelAll, Cleanup, ChannelClosed
<1>6. ASSUME NEW f \in Forwards,
             \/ StopForward(f) \/ ForwardStep(f) \/ Accept(f) \/ TunnelOpened(f) \/ TunnelRefused(f)
             \/ TunnelClosed(f) \/ TunnelCancelled(f)
      PROVE  RowsAreOwned'
  BY <1>0, <1>6 DEF StopForward, ForwardStep, Bind, BindFailed, Activate, Stopped, Drop, Step, Accept,
     TunnelOpened, TunnelRefused, TunnelClosed, TunnelCancelled
<1>7. ASSUME ClosePanel \/ \E s \in Sessions \cup {None} : ActivateTab(s) PROVE RowsAreOwned'
  BY <1>0, <1>1, <1>7 DEF ClosePanel, ActivateTab
<1>8. CASE UNCHANGED vars
  BY <1>0, <1>8 DEF vars
<1> QED BY <1>3, <1>4, <1>5, <1>6, <1>7, <1>8 DEF Next, Rest

(* Tokens come with a forward that is spawned, and go with a stop or with the map. *)
LEMMA TokensStepping == ForwardInv /\ PromiseInv /\ [Next]_vars => TokensAreLive'
<1> SUFFICES ASSUME ForwardInv, PromiseInv, [Next]_vars PROVE TokensAreLive'
  OBVIOUS
<1> TypeOK /\ AddsAreOwned /\ TokensAreLive
  BY DEF ForwardInv, PromiseInv
<1> USE DEF sessionVars, forwardVars, tunnelVars, tabVars, viewVars, OnlyView, OnlyForward, OnlyTunnels
<1>0. CASE UNCHANGED <<session, owner, pc>> /\ tokens' \subseteq tokens
  BY <1>0 DEF TokensAreLive
<1>1. ASSUME NEW s \in Sessions, NEW f \in Forwards, AddForward(s, f) PROVE TokensAreLive'
  BY <1>1 DEF AddForward, Step, TokensAreLive, TypeOK
<1>2. ASSUME NEW s \in Sessions, SessionStep(s) \/ ChannelClosed(s) PROVE TokensAreLive'
  <2>1. CASE TakeAdd(s)
    <3> DEFINE f == Head(inbox[s]).forward
    <3>1. f \in Forwards /\ owner[f] = s
      BY <2>1, HeadCommand DEF TakeAdd, Take
    <3>2. /\ tokens' = tokens \cup {f} /\ UNCHANGED <<session, owner>> /\ session[s] = "loop"
          /\ pc' = [pc EXCEPT ![f] = "spawned"]
      BY <2>1 DEF TakeAdd, Take, Step
    <3> HIDE DEF f
    <3> QED BY <3>1, <3>2 DEF TokensAreLive, TypeOK
  <2>2. CASE Cleanup(s)
    <3>1. \A f \in tokens' : f \in tokens /\ owner[f] # s
      BY <2>2 DEF Cleanup, Mine, TokensAreLive, TypeOK
    <3> QED BY <2>2, <3>1 DEF Cleanup, Advance, TokensAreLive, TypeOK
  <2>3. CASE \/ LoginSucceeded(s) \/ LoginFailed(s) \/ TakeDisconnect(s) \/ CancelAll(s)
             \/ ChannelClosed(s)
    <3>1. /\ UNCHANGED <<owner, pc, tokens>>
          /\ \E to \in {"loop", "cancelling", "leaving", "gone"} :
                /\ session' = [session EXCEPT ![s] = to]
                /\ to = "gone" => session[s] = "login"
      BY <2>3 DEF LoginSucceeded, LoginFailed, TakeDisconnect, CancelAll, ChannelClosed, Advance
    <3> QED BY <3>1 DEF TokensAreLive, TypeOK
  <2>4. CASE TakeStop(s)
    BY <1>0, <2>4 DEF TakeStop
  <2> QED BY <1>2, <2>1, <2>2, <2>3, <2>4 DEF SessionStep
<1>3. ASSUME NEW f \in Forwards, ForwardStep(f) PROVE TokensAreLive'
  <2>1. /\ UNCHANGED <<owner, session, tokens>>
        /\ \E to \in {"bound", "failed", "listening", "dropping", "done"} :
              pc' = [pc EXCEPT ![f] = to]
    BY <1>3 DEF ForwardStep, Bind, BindFailed, Activate, Stopped, Drop, Step
  <2> QED BY <2>1 DEF TokensAreLive, TypeOK
<1>4. ASSUME NEW s \in Sessions, CloseTab(s) \/ Deliver(s) PROVE TokensAreLive'
  BY <1>0, <1>4 DEF CloseTab, Deliver
<1>5. ASSUME NEW f \in Forwards,
             \/ StopForward(f) \/ Accept(f) \/ TunnelOpened(f) \/ TunnelRefused(f)
             \/ TunnelClosed(f) \/ TunnelCancelled(f)
      PROVE  TokensAreLive'
  BY <1>0, <1>5 DEF StopForward, Accept, TunnelOpened, TunnelRefused, TunnelClosed, TunnelCancelled
<1>6. ASSUME OpenPanel \/ ClosePanel \/ \E s \in Sessions \cup {None} : ActivateTab(s)
      PROVE  TokensAreLive'
  BY <1>0, <1>6 DEF OpenPanel, ClosePanel, ActivateTab
<1>7. CASE UNCHANGED vars
  BY <1>0, <1>7 DEF vars
<1> QED BY <1>1, <1>2, <1>3, <1>4, <1>5, <1>6, <1>7 DEF Next, Rest

(* A port is taken by Bind alone, which finds it free. *)
LEMMA PortsStepping == ForwardInv /\ PromiseInv /\ [Next]_vars => PortsAreApart'
<1> SUFFICES ASSUME ForwardInv, PromiseInv, [Next]_vars PROVE PortsAreApart'
  OBVIOUS
<1> TypeOK /\ PortsAreApart
  BY DEF ForwardInv, PromiseInv
<1> USE DEF sessionVars, forwardVars, tunnelVars, tabVars, viewVars, OnlyView, OnlyForward, OnlyTunnels
<1>0. ASSUME UNCHANGED port, \A g \in Forwards : Holds(g)' => Holds(g) PROVE PortsAreApart'
  BY <1>0 DEF PortsAreApart
<1>1. CASE UNCHANGED <<pc, port>>
  BY <1>0, <1>1 DEF Holds
<1>2. ASSUME NEW f \in Forwards, Bind(f) PROVE PortsAreApart'
  <2>1. UNCHANGED port /\ \A g \in Forwards : Holds(g)' => g = f \/ Holds(g)
    BY <1>2 DEF Bind, Step, Holds, TypeOK
  <2>2. \A g \in Forwards : Holds(g) => port[g] # port[f]
    BY <1>2 DEF Bind, PortFree
  <2> QED BY <2>1, <2>2 DEF PortsAreApart
<1>3. ASSUME NEW f \in Forwards, BindFailed(f) \/ Activate(f) \/ Stopped(f) \/ Drop(f)
      PROVE  PortsAreApart'
  <2>1. UNCHANGED port /\ \A g \in Forwards : Holds(g)' => Holds(g)
    BY <1>3 DEF BindFailed, Activate, Stopped, Drop, Step, Holds, TypeOK
  <2> QED BY <1>0, <2>1
<1>4. ASSUME NEW s \in Sessions,
             \/ \E f \in Forwards : AddForward(s, f)
             \/ CloseTab(s) \/ Deliver(s) \/ SessionStep(s) \/ ChannelClosed(s)
      PROVE  PortsAreApart'
  <2>1. CASE \E f \in Forwards : AddForward(s, f)
    <3>1. UNCHANGED port /\ \A g \in Forwards : Holds(g)' => Holds(g)
      BY <2>1 DEF AddForward, Step, Holds, TypeOK
    <3> QED BY <1>0, <3>1
  <2>2. CASE TakeAdd(s)
    <3>1. UNCHANGED port /\ \A g \in Forwards : Holds(g)' => Holds(g)
      BY <2>2 DEF TakeAdd, Step, Holds, TypeOK
    <3> QED BY <1>0, <3>1
  <2> QED BY <1>1, <1>4, <2>1, <2>2 DEF CloseTab, Deliver, SessionStep, LoginSucceeded, LoginFailed,
          TakeStop, TakeDisconnect, CancelAll, Cleanup, ChannelClosed
<1>5. ASSUME NEW f \in Forwards,
             \/ StopForward(f) \/ Accept(f) \/ TunnelOpened(f) \/ TunnelRefused(f)
             \/ TunnelClosed(f) \/ TunnelCancelled(f)
      PROVE  PortsAreApart'
  BY <1>1, <1>5 DEF StopForward, Accept, TunnelOpened, TunnelRefused, TunnelClosed, TunnelCancelled
<1>6. ASSUME OpenPanel \/ ClosePanel \/ \E s \in Sessions \cup {None} : ActivateTab(s)
      PROVE  PortsAreApart'
  BY <1>1, <1>6 DEF OpenPanel, ClosePanel, ActivateTab
<1>7. CASE UNCHANGED vars
  BY <1>1, <1>7 DEF vars
<1> QED BY <1>2, <1>3, <1>4, <1>5, <1>6, <1>7 DEF Next, Rest, ForwardStep

(* Stops reach only the session of their forward, tokens belong to a session that
   has not ended, and two forwards never hold one port (session/mod.rs:294-335,
   forward.rs:57). *)
THEOREM PromiseInvHolds == Spec => []PromiseInv
<1>1. ForwardInv /\ PromiseInv /\ [Next]_vars => PromiseInv'
  BY StopsStepping, RowsStepping, TokensStepping, PortsStepping DEF PromiseInv
<1> QED BY <1>1, PromiseInit, ForwardsHold, PTL DEF Spec

(* What the contract sees of a step of a forward's task. *)
Conns  == [f \in Forwards |-> opening[f] + pumping[f]]
Phases == [f \in Forwards |-> Phase(f)]

LEMMA PhaseMoves ==
    ASSUME TypeOK, NEW f \in Forwards, NEW to, pc' = [pc EXCEPT ![f] = to]
    PROVE  /\ Phases' = [Phases EXCEPT ![f] = Phase(f)']
           /\ Promise!Move(f, Phase(f), Phase(f)')
<1>1. \A g \in Forwards : g # f => Phase(g)' = Phase(g)
  BY DEF TypeOK, Phase
<1>2. Phases' = [Phases EXCEPT ![f] = Phase(f)']
  BY <1>1 DEF Phases
<1>3. Phases[f] = Phase(f)
  BY DEF Phases
<1> QED BY <1>2, <1>3 DEF Promise!Move, Phases

(* Places that stay look the same. *)
LEMMA PhaseStays == UNCHANGED pc => UNCHANGED Phases
BY DEF Phases, Phase

(* A step that none of this changes is not seen. *)
LEMMA NotSeen ==
    ASSUME UNCHANGED <<session, owner, port, Phases, cancelled, Conns, wire>>
    PROVE  UNCHANGED Promise!vars
BY DEF Promise!vars, Promise!places, Phases, Conns

(* No forward yet: the contract starts as the module does. *)
LEMMA PromiseStarts == Init => Promise!Init
<1> SUFFICES ASSUME Init PROVE Promise!Init
  OBVIOUS
<1>1. {s \in Sessions : session[s] # "gone"} = Sessions
  BY DEF Init
<1>2. [f \in Forwards |-> Phase(f)] = [f \in Forwards |-> "none"]
  BY DEF Init, Phase
<1>3. [f \in Forwards |-> opening[f] + pumping[f]] = [f \in Forwards |-> 0]
  BY DEF Init
<1> QED BY <1>1, <1>2, <1>3 DEF Init, Promise!Init

(* The task of a forward: what it tells, and that it was right to go on. *)
LEMMA ForwardPromise ==
    ASSUME ForwardInv, PromiseInv, NEW f \in Forwards, ForwardStep(f)
    PROVE  Promise!Next \/ UNCHANGED Promise!vars
<1> TypeOK /\ NoOrphanForward /\ PortsAreApart' /\ owner[f] \in Sessions
  BY PortsStepping DEF ForwardInv, PromiseInv, TypeOK, Next
<1> USE DEF OnlyForward, sessionVars, forwardVars, tunnelVars, tabVars, viewVars
<1>1. UNCHANGED <<session, owner, port, cancelled, opening, pumping, Conns>>
  BY DEF ForwardStep, Bind, BindFailed, Activate, Stopped, Drop, Conns
<1>2. Promise!Wanted(f)
  BY DEF NoOrphanForward, ForwardStep, Bind, BindFailed, Activate, Stopped, Drop, Step, Promise!Wanted
<1>3. CASE Bind(f) \/ Drop(f)
  <2>1. \E to \in {"bound", "done"} : pc' = [pc EXCEPT ![f] = to]
    BY <1>3 DEF Bind, Drop, Step
  <2>2. Phase(f)' = Phase(f)
    BY <1>3 DEF TypeOK, Bind, Drop, Step, Phase
  <2>3. UNCHANGED Phases
    BY <2>1, <2>2, PhaseMoves DEF Phases
  <2> QED BY <1>1, <1>3, <2>3, NotSeen DEF Bind, Drop
<1>4. CASE BindFailed(f)
  <2>1. pc' = [pc EXCEPT ![f] = "failed"] /\ Phase(f) = "requested" /\ Phase(f)' = "failed"
    BY <1>4 DEF TypeOK, BindFailed, Step, Phase
  <2>2. Promise!Fail(f)
    BY <1>1, <1>2, <1>4, <2>1, PhaseMoves DEF BindFailed, Emit, Status, Promise!Fail, Promise!Tell,
       Promise!places, Conns
  <2> QED BY <2>2 DEF Promise!Next
<1>5. CASE Activate(f)
  <2>1. pc' = [pc EXCEPT ![f] = "listening"] /\ Phase(f) = "requested" /\ Phase(f)' = "serving"
    BY <1>5 DEF TypeOK, Activate, Step, Phase
  <2>2. \A g \in Forwards \ {f} : Phases[g] = "serving" => port[g] # port[f]
    <3>1. \A g \in Forwards \ {f} : Phases[g] = "serving" => pc'[g] = "listening"
      BY <2>1 DEF TypeOK, Phases, Phase
    <3>2. pc'[f] = "listening"
      BY <2>1 DEF TypeOK
    <3> QED BY <1>1, <3>1, <3>2 DEF PortsAreApart, Holds
  <2>3. Promise!Serve(f)
    BY <1>1, <1>2, <1>5, <2>1, <2>2, PhaseMoves DEF Activate, Emit, Status, Promise!Serve,
       Promise!Tell, Promise!places, Phases, Conns
  <2> QED BY <2>3 DEF Promise!Next
<1>6. CASE Stopped(f)
  <2>1. pc' = [pc EXCEPT ![f] = "dropping"] /\ Phase(f) = "serving" /\ Phase(f)' = "over"
    BY <1>6 DEF TypeOK, Stopped, Step, Phase
  <2>2. Promise!Stop(f)
    BY <1>1, <1>6, <2>1, PhaseMoves DEF Stopped, Emit, Status, Promise!Stop, Promise!Tell,
       Promise!places, Conns
  <2> QED BY <2>2 DEF Promise!Next
<1> QED BY <1>3, <1>4, <1>5, <1>6 DEF ForwardStep

(* The task of a session: what it cancels is its own, and none of its forwards
   serves uncancelled when it ends. *)
LEMMA SessionPromise ==
    ASSUME ForwardInv, PromiseInv, NEW s \in Sessions, SessionStep(s) \/ ChannelClosed(s)
    PROVE  Promise!Next \/ UNCHANGED Promise!vars
<1> TypeOK /\ AddsAreOwned /\ NoOrphanForward /\ StopsAreOwned /\ TokensAreLive
  BY DEF ForwardInv, PromiseInv
<1> USE DEF sessionVars, forwardVars, tunnelVars, tabVars, viewVars
<1> DEFINE Live == {r \in Sessions : session[r] # "gone"}
<1>1. UNCHANGED <<owner, port, Conns>>
  BY DEF SessionStep, LoginSucceeded, LoginFailed, TakeAdd, TakeStop, TakeDisconnect, CancelAll,
     Cleanup, ChannelClosed, Conns
<1>2. \A fs : fs \subseteq {f \in Forwards : owner[f] = s /\ pc[f] # "unused"} =>
                 fs \in SUBSET {f \in Forwards : owner[f] = s /\ Phases[f] # "none"}
  BY DEF Phases, Phase
<1>3. CASE LoginFailed(s) \/ Cleanup(s)
  <2>1. session[s] \in {"login", "leaving"} /\ session' = [session EXCEPT ![s] = "gone"]
        /\ Emit(s, Terminal) /\ UNCHANGED <<pc, cancelled>>
    BY <1>3 DEF LoginFailed, Cleanup, Advance
  <2>2. s \in Live /\ Live' = Live \ {s}
    BY <2>1 DEF TypeOK
  <2>3. \A f \in Forwards : owner[f] = s /\ Phases[f] = "serving" => f \in cancelled
    <3>1. \A f \in Forwards : Phases[f] = "serving" => pc[f] = "listening"
      BY DEF TypeOK, Phases, Phase
    <3> QED BY <2>1, <3>1 DEF NoOrphanForward
  <2>4. Promise!End(s)
    BY <1>1, <2>1, <2>2, <2>3, PhaseStays DEF Promise!End, Promise!Tell, Promise!Terminal, Promise!places,
       Emit, Terminal, Phases, Conns
  <2> QED BY <2>4 DEF Promise!Next
<1>4. CASE TakeStop(s) \/ CancelAll(s)
  <2>1. \E fs : fs \subseteq {f \in Forwards : owner[f] = s /\ pc[f] # "unused"}
                /\ cancelled' = cancelled \cup fs
    <3>1. CASE TakeStop(s)
      <4> DEFINE f == Head(inbox[s]).forward
      <4>1. f \in Forwards /\ owner[f] = s
        <5>1. inbox[s] # << >> /\ Head(inbox[s]).op = "stop" /\ inbox[s] \in Seq(Command)
          BY <3>1 DEF TakeStop, Take, TypeOK
        <5>2. Head(inbox[s]) = inbox[s][1] /\ 1 \in 1..Len(inbox[s])
          BY <5>1
        <5> QED BY <5>1, <5>2, HeadCommand DEF StopsAreOwned
      <4>2. cancelled' = cancelled \cup ({f} \cap tokens)
        BY <3>1 DEF TakeStop
      <4>3. {f} \cap tokens \subseteq {g \in Forwards : owner[g] = s /\ pc[g] # "unused"}
        BY <4>1 DEF TokensAreLive
      <4> QED BY <4>2, <4>3
    <3>2. CASE CancelAll(s)
      BY <3>2 DEF CancelAll, Mine
    <3> QED BY <1>4, <3>1, <3>2
  <2>2. s \in Live /\ Live' = Live /\ UNCHANGED <<pc, wire>>
    BY <1>4 DEF TypeOK, TakeStop, Take, CancelAll, Advance
  <2>3. Promise!Revoke(s)
    BY <1>1, <1>2, <2>1, <2>2, PhaseStays DEF Promise!Revoke, Promise!places, Phases, Conns
  <2> QED BY <2>3 DEF Promise!Next
<1>5. CASE TakeAdd(s)
  <2>1. PICK f \in Forwards : Step(f, "queued", "spawned")
    BY <1>5, HeadCommand DEF TakeAdd, Take
  <2>2. Phase(f)' = Phase(f)
    BY <2>1 DEF Step, TypeOK, Phase
  <2>3. UNCHANGED Phases
    BY <2>1, <2>2, PhaseMoves DEF Step, Phases
  <2> QED BY <1>1, <1>5, <2>3, NotSeen DEF TakeAdd
<1>6. CASE LoginSucceeded(s) \/ TakeDisconnect(s) \/ ChannelClosed(s)
  <2>1. Live' = Live /\ UNCHANGED <<pc, cancelled, wire>>
    BY <1>6 DEF TypeOK, LoginSucceeded, TakeDisconnect, ChannelClosed, Advance
  <2> QED BY <1>1, <2>1, PhaseStays DEF Promise!vars, Promise!places, Phases, Conns
<1> QED BY <1>3, <1>4, <1>5, <1>6 DEF SessionStep

(* Connections: taken while the forward serves, and counted until they are gone. *)
LEMMA TunnelPromise ==
    ASSUME ForwardInv, NEW f \in Forwards,
           Accept(f) \/ TunnelOpened(f) \/ TunnelRefused(f) \/ TunnelClosed(f) \/ TunnelCancelled(f)
    PROVE  Promise!Next \/ UNCHANGED Promise!vars
<1> USE ForwardBounds DEF OnlyTunnels, sessionVars, forwardVars, tabVars, viewVars
<1>0. /\ opening \in [Forwards -> Nat] /\ pumping \in [Forwards -> Nat]
      /\ UNCHANGED <<session, owner, port, pc, cancelled, wire>>
  BY DEF ForwardInv, TypeOK, Accept, TunnelOpened, TunnelRefused, TunnelClosed, TunnelCancelled
<1>1. UNCHANGED Phases
  BY <1>0, PhaseStays
<1>2. CASE Accept(f)
  <2>0. /\ \A g \in Forwards : g # f => opening'[g] + pumping'[g] = opening[g] + pumping[g]
        /\ opening'[f] + pumping'[f] = opening[f] + pumping[f] + 1
    BY <1>0, <1>2 DEF Accept
  <2>1. Conns' = [Conns EXCEPT ![f] = @ + 1] /\ Phases[f] = "serving"
    BY <1>2, <2>0 DEF Accept, Conns, Phases, Phase
  <2>2. Promise!Connect(f)
    BY <1>0, <1>1, <2>1 DEF Promise!Connect, Promise!places, Conns, Phases
  <2> QED BY <2>2 DEF Promise!Next
<1>3. CASE TunnelOpened(f)
  <2>1. UNCHANGED Conns
    BY <1>0, <1>3 DEF TunnelOpened, Conns
  <2> QED BY <1>0, <1>1, <2>1, NotSeen
<1>4. CASE TunnelRefused(f) \/ TunnelClosed(f) \/ TunnelCancelled(f)
  <2>0. /\ \A g \in Forwards : g # f => opening'[g] + pumping'[g] = opening[g] + pumping[g]
        /\ opening'[f] + pumping'[f] = (opening[f] + pumping[f]) - 1
        /\ opening[f] + pumping[f] > 0
    <3>1. CASE TunnelRefused(f)
      BY <1>0, <3>1 DEF TunnelRefused
    <3>2. CASE TunnelClosed(f)
      BY <1>0, <3>2 DEF TunnelClosed
    <3> QED BY <1>4, <3>1, <3>2 DEF TunnelCancelled
  <2>1. Conns' = [Conns EXCEPT ![f] = @ - 1] /\ Conns[f] > 0
    BY <2>0 DEF Conns
  <2>2. Promise!Disconnect(f)
    BY <1>0, <1>1, <2>1 DEF Promise!Disconnect, Promise!places, Conns, Phases
  <2> QED BY <2>2 DEF Promise!Next
<1> QED BY <1>2, <1>3, <1>4

(* The renderer: it asks, hears, and is otherwise not seen. *)
LEMMA RendererPromise ==
    ASSUME ForwardInv,
           \/ \E s \in Sessions, f \in Forwards : AddForward(s, f)
           \/ \E s \in Sessions : CloseTab(s) \/ Deliver(s)
           \/ \E f \in Forwards : StopForward(f)
           \/ OpenPanel \/ ClosePanel \/ \E s \in Sessions \cup {None} : ActivateTab(s)
    PROVE  Promise!Next \/ UNCHANGED Promise!vars
<1> USE DEF sessionVars, forwardVars, tunnelVars, tabVars, viewVars, OnlyView
<1> TypeOK
  BY DEF ForwardInv
<1>1. UNCHANGED <<session, owner, port, cancelled, opening, pumping, Conns>>
  BY DEF AddForward, CloseTab, Deliver, StopForward, OpenPanel, ClosePanel, ActivateTab, Conns
<1>2. ASSUME NEW s \in Sessions, NEW f \in Forwards, AddForward(s, f) PROVE Promise!Next
  <2>1. pc' = [pc EXCEPT ![f] = "queued"] /\ Phase(f) = "none" /\ Phase(f)' = "requested"
    BY <1>2 DEF TypeOK, AddForward, Step, Phase
  <2>2. owner[f] \in {r \in Sessions : session[r] # "gone"}
    BY <1>2 DEF AddForward, Send
  <2>3. Promise!Request(f)
    BY <1>1, <1>2, <2>1, <2>2, PhaseMoves DEF AddForward, Promise!Request, Promise!places, Conns
  <2> QED BY <2>3 DEF Promise!Next
<1>3. ASSUME NEW s \in Sessions, Deliver(s) PROVE Promise!Next
  <2>1. wire[s] # << >> /\ wire' = [wire EXCEPT ![s] = Tail(@)] /\ UNCHANGED Phases
    BY <1>3, PhaseStays DEF Deliver
  <2>2. Promise!Hear(s)
    BY <1>1, <2>1 DEF Promise!Hear, Promise!places, Conns, Phases
  <2> QED BY <2>2 DEF Promise!Next
<1>4. CASE \/ \E s \in Sessions : CloseTab(s)
           \/ \E f \in Forwards : StopForward(f)
           \/ OpenPanel \/ ClosePanel \/ \E s \in Sessions \cup {None} : ActivateTab(s)
  <2>1. UNCHANGED <<pc, wire>>
    BY <1>4 DEF CloseTab, StopForward, OpenPanel, ClosePanel, ActivateTab
  <2> QED BY <1>1, <2>1, PhaseStays, NotSeen
<1> QED BY <1>2, <1>3, <1>4

(* The commands, the tasks and the panel keep the promise: told of in one order,
   one forward to a port, none stopped by another session than its own, and none
   left serving by a session that ends (forward.rs:49-95, session/mod.rs:294-337). *)
THEOREM PromiseIsKept == Spec => PromiseKept
<1>1. ForwardInv /\ PromiseInv /\ [Next]_vars => [Promise!Next]_(Promise!vars)
  <2> SUFFICES ASSUME ForwardInv, PromiseInv, [Next]_vars
               PROVE  Promise!Next \/ UNCHANGED Promise!vars
    OBVIOUS
  <2>1. CASE UNCHANGED vars
    <3>1. UNCHANGED <<session, owner, port, pc, cancelled, opening, pumping, wire>>
      BY <2>1 DEF vars, sessionVars, forwardVars, tunnelVars
    <3>2. UNCHANGED Conns
      BY <3>1 DEF Conns
    <3> QED BY <3>1, <3>2, PhaseStays, NotSeen
  <2>2. CASE Next
    BY <2>1, <2>2, ForwardPromise, SessionPromise, TunnelPromise, RendererPromise DEF Next, Rest
  <2> QED BY <2>1, <2>2
<1> QED BY <1>1, PromiseStarts, ForwardsHold, PromiseInvHolds, PTL
    DEF Spec, PromiseKept, Promise!Spec

==============================================================================
