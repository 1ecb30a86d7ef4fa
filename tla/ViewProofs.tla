------------------------------ MODULE ViewProofs ------------------------------
(***************************************************************************)
(* What the window shows. First the invariants of TerminalPane for any     *)
(* sessions, sizes and amounts of output; then those of Appearance for any *)
(* fields' bounds, schemes, stored documents, entries and tabs, which rest *)
(* on two facts about sanitize: it makes valid settings of whatever is     *)
(* stored, and leaves valid ones as they are.                              *)
(***************************************************************************)
EXTENDS TerminalPane, Appearance, TLAPS

SizeTypes ==
    /\ shown \in BOOLEAN /\ window \in 1..MaxWindow /\ zoom \in 0..MaxZoom
    /\ seen \in 0..window
    /\ grid \in Grids \cup {None}
    /\ cmds \in [Sessions -> Seq(Grids)] /\ pty \in [Sessions -> Grids]
    /\ missed \subseteq Sessions

TabTypes ==
    /\ state \in {"form", "connecting", "connected", "disconnected"}
    /\ sessionId \in Sessions \cup {None}
    /\ routed \subseteq answered /\ answered \subseteq Sessions
    /\ phase \in [Sessions -> {"none", "connecting", "ready", "over"}]
    /\ wire \in [Sessions -> Seq({"ready", "over"})]

DataTypes ==
    /\ sent \in [Sessions -> Nat] /\ taken \in [Sessions -> Nat]
    /\ written \in [Sessions -> SUBSET Nat]
    /\ \A s \in Sessions : written[s] \subseteq 1..taken[s] /\ taken[s] <= sent[s]

(* A session is known only once it was made, with a terminal to show it, and has
   resizes queued only then. *)
Made ==
    /\ \A s \in answered : phase[s] # "none"
    /\ sessionId # None => sessionId \in answered
    /\ \A s \in Sessions : phase[s] # "none" => grid # None
    /\ \A s \in Sessions : phase[s] = "none" => cmds[s] = << >>
    /\ state = "connected" => grid # None

(* The size the PTY of s will have when all resizes queued for it have been taken. *)
Coming(s) == IF cmds[s] = << >> THEN pty[s] ELSE cmds[s][Len(cmds[s])]

(* RemoteFollows for every session, the tab's own or not. *)
AllFollow == \A s \in Sessions : Live(s) /\ s \notin missed => grid = Coming(s)

PaneInv == SizeTypes /\ TabTypes /\ Made /\ GridFits /\ AllFollow

(* What was written of a session still routed goes on to the chunk taken last. *)
Abreast ==
    \A s \in Sessions :
        /\ s \notin answered => written[s] = {}
        /\ s \in routed => \A i \in written[s] : i..taken[s] \subseteq written[s]

DataInv == TabTypes /\ DataTypes /\ Abreast /\ OutputHasNoGap

(* The bounds are numbers, and nothing is neither a number nor a session. *)
LEMMA Numbers == MaxWindow \in Nat /\ MaxWindow >= 1 /\ MaxZoom \in Nat /\ None \notin Nat
                 /\ None \notin Sessions
  BY PaneAssumption

(* The last element of a sequence stays the last when the first is taken. *)
LEMMA LastOfTail ==
    ASSUME NEW S, NEW q \in Seq(S), q # << >>
    PROVE  q[Len(q)] = IF Tail(q) = << >> THEN Head(q) ELSE Tail(q)[Len(Tail(q))]
<1>1. Len(q) \in Nat /\ Len(q) >= 1 /\ Head(q) = q[1]
  OBVIOUS
<1>2. Tail(q) \in Seq(S) /\ Len(Tail(q)) = Len(q) - 1
  OBVIOUS
<1>3. CASE Tail(q) = << >>
  <2>1. Len(q) - 1 = 0
    BY <1>2, <1>3
  <2> QED BY <1>1, <1>3, <2>1
<1>4. CASE Tail(q) # << >>
  <2>1. Len(Tail(q)) \in 1..Len(Tail(q))
    BY <1>2, <1>4
  <2>2. Tail(q)[Len(Tail(q))] = q[Len(Tail(q)) + 1]
    BY <2>1
  <2> QED BY <1>1, <1>2, <1>4, <2>2
<1> QED BY <1>3, <1>4

(* Grids that fit are grids. *)
LEMMA FittingIsGrid ==
    ASSUME NEW w \in 0..MaxWindow, NEW z \in 0..MaxZoom
    PROVE  Fitting(w, z) \in Grids /\ Fitting(w, z) # None
  BY Numbers DEF Fitting, Grids, Default

------------------------------------------------------------------------------
(* Sizes. *)

(* At the start there is no terminal and no session. *)
LEMMA PaneInit == Init => PaneInv /\ DataInv
<1> SUFFICES ASSUME Init PROVE PaneInv /\ DataInv
  OBVIOUS
<1> USE Numbers DEF Init
<1>1. SizeTypes
  BY DEF SizeTypes, Grids, Default
<1>2. TabTypes /\ Made
  BY DEF TabTypes, Made
<1>3. GridFits /\ AllFollow
  BY DEF GridFits, AllFollow, Live
<1>4. DataTypes /\ Abreast /\ OutputHasNoGap
  BY DEF DataTypes, Abreast, OutputHasNoGap
<1> QED BY <1>1, <1>2, <1>3, <1>4 DEF PaneInv, DataInv

(* A step of the tab or of the backend that changes no size keeps what is said of
   the sizes of live sessions. *)
LEMMA FollowFrame ==
    ASSUME PaneInv, UNCHANGED <<grid, cmds, pty, missed>>, TabTypes',
           \A s \in Sessions : Live(s)' => Live(s)
    PROVE  AllFollow'
  BY DEF PaneInv, AllFollow, Coming

(* SetGrid: a change of the grid is queued for the tab's own session, if it lives,
   and is missed by all others. *)
LEMMA SetGridKeeps ==
    ASSUME PaneInv, NEW g \in Grids, g # None, SetGrid(g), UNCHANGED <<sessionId, phase, answered>>
    PROVE  /\ cmds' \in [Sessions -> Seq(Grids)] /\ pty' = pty
           /\ grid' = g /\ missed' \subseteq Sessions
           /\ \A s \in Sessions : phase[s] = "none" => cmds'[s] = << >>
           /\ AllFollow'
<1> USE DEF PaneInv
<1>1. grid' = g /\ pty' = pty /\ missed' \subseteq Sessions
  BY DEF SetGrid, SizeTypes
<1>2. CASE g = grid
  <2>1. cmds' = cmds /\ missed' = missed
    BY <1>2 DEF SetGrid
  <2> QED BY <1>1, <1>2, <2>1 DEF SizeTypes, Made, AllFollow, Coming, Live
<1>3. CASE g # grid /\ sessionId # None /\ Live(sessionId)
  <2>1. sessionId \in Sessions /\ cmds' = [cmds EXCEPT ![sessionId] = Append(@, g)]
    BY <1>3 DEF SetGrid, TabTypes
  <2>2. cmds' \in [Sessions -> Seq(Grids)]
    BY <2>1 DEF SizeTypes
  <2>3. cmds'[sessionId] # << >> /\ cmds'[sessionId][Len(cmds'[sessionId])] = g
    <3>1. cmds[sessionId] \in Seq(Grids) /\ cmds'[sessionId] = Append(cmds[sessionId], g)
      BY <2>1 DEF SizeTypes
    <3> QED BY <3>1
  <2>4. \A s \in Sessions \ {sessionId} : phase[s] # "none" => s \in missed'
    BY <1>3 DEF SetGrid
  <2>5. \A s \in Sessions : phase[s] = "none" => s # sessionId
    BY <1>3 DEF Live
  <2>6. AllFollow'
    BY <1>1, <2>1, <2>3, <2>4 DEF AllFollow, Coming, Live
  <2> QED BY <1>1, <2>1, <2>2, <2>5, <2>6 DEF SizeTypes, Made
<1>4. CASE g # grid /\ (sessionId = None \/ ~Live(sessionId))
  <2>1. cmds' = cmds
    BY <1>4 DEF SetGrid
  <2>2. \A s \in Sessions : Live(s) => s \in missed'
    <3>1. missed' = (missed \cup {s \in Sessions : phase[s] # "none"}) \ {sessionId}
      BY <1>4 DEF SetGrid
    <3>2. \A s \in Sessions : Live(s) => s # sessionId /\ phase[s] # "none"
      BY <1>4, Numbers DEF Live
    <3> QED BY <3>1, <3>2
  <2> QED BY <1>1, <2>1, <2>2 DEF SizeTypes, Made, AllFollow, Live
<1> QED BY <1>2, <1>3, <1>4

(* A fit, when the pane's size, its visibility or the tab's state has changed and
   nothing else has. *)
LEMMA FitKeeps ==
    ASSUME PaneInv, NEW visible \in BOOLEAN, NEW w \in 1..MaxWindow, NEW z \in 0..MaxZoom,
           Fit(visible, w, z), window' = w, zoom' = z, shown' \in BOOLEAN, seen' \in 0..w,
           TabTypes', UNCHANGED <<sessionId, phase, answered>>,
           state' = "connected" => grid # None,
           state' = "connected" /\ shown' /\ seen' = w /\ ~visible => grid = Fitting(w, z)
    PROVE  PaneInv'
<1> USE DEF PaneInv
<1>1. CASE grid # None /\ visible
  <2>1. SetGrid(Fitting(w, z)) /\ Fitting(w, z) \in Grids /\ Fitting(w, z) # None
    BY <1>1, FittingIsGrid, Numbers DEF Fit
  <2>2. /\ cmds' \in [Sessions -> Seq(Grids)] /\ pty' = pty
        /\ grid' = Fitting(w, z) /\ missed' \subseteq Sessions
        /\ \A s \in Sessions : phase[s] = "none" => cmds'[s] = << >>
        /\ AllFollow'
    BY <2>1, SetGridKeeps
  <2>3. SizeTypes'
    BY <2>1, <2>2 DEF SizeTypes
  <2>4. Made'
    BY <2>1, <2>2 DEF Made
  <2>5. GridFits'
    BY <2>2 DEF GridFits, Fitting
  <2> QED BY <2>2, <2>3, <2>4, <2>5
<1>2. CASE grid = None \/ ~visible
  <2>1. UNCHANGED <<grid, cmds, pty, missed>>
    BY <1>2 DEF Fit, ptyVars
  <2>2. SizeTypes' /\ Made'
    BY <2>1 DEF SizeTypes, Made
  <2>3. AllFollow'
    BY <2>1, FollowFrame DEF Live
  <2>4. GridFits'
    BY <1>2, <2>1 DEF GridFits, Fitting
  <2> QED BY <2>2, <2>3, <2>4
<1> QED BY <1>1, <1>2

(* The window, the font and the pane's visibility. *)
LEMMA ViewKeeps ==
    ASSUME PaneInv, WindowResized \/ Observe \/ ApplySettings \/ Show \/ Hide
    PROVE  PaneInv'
<1> USE DEF PaneInv
<1>0. /\ UNCHANGED <<state, sessionId, routed, phase, answered, wire>> /\ TabTypes'
      /\ window \in 1..MaxWindow /\ zoom \in 0..MaxZoom /\ window \in 0..MaxWindow
      /\ shown \in BOOLEAN /\ seen \in 0..window
      /\ (state = "connected" => grid # None)
  BY Numbers DEF WindowResized, Observe, ApplySettings, Show, Hide, tabVars, backVars, TabTypes,
        SizeTypes, Made
<1>1. CASE WindowResized
  <2>1. /\ window' = window + 1 /\ window' \in 1..MaxWindow /\ seen' = seen
        /\ UNCHANGED <<shown, zoom, grid, cmds, pty, missed>>
    BY <1>0, <1>1, Numbers DEF WindowResized, ptyVars
  <2>2. SizeTypes' /\ Made' /\ GridFits'
    BY <1>0, <2>1 DEF SizeTypes, Made, GridFits
  <2> QED BY <1>0, <2>1, <2>2, FollowFrame DEF Live
<1>2. CASE Observe
  <2>1. seen' = Box /\ Fit(shown, window, zoom) /\ UNCHANGED <<shown, window, zoom>>
    BY <1>2 DEF Observe
  <2>2. seen' \in 0..window /\ (seen' = window => shown)
    BY <1>0, <2>1 DEF Box
  <2> QED BY <1>0, <2>1, <2>2, FitKeeps
<1>3. CASE ApplySettings
  <2>1. zoom' = zoom + 1 /\ zoom + 1 \in 0..MaxZoom /\ UNCHANGED <<shown, window, seen>>
        /\ Fit(shown, window, zoom + 1)
    BY <1>0, <1>3, Numbers DEF ApplySettings
  <2> QED BY <1>0, <2>1, FitKeeps
<1>4. CASE Show
  <2>1. shown' = TRUE /\ Fit(state = "connected", window, zoom) /\ UNCHANGED <<window, zoom, seen>>
    BY <1>4 DEF Show
  <2>2. (state = "connected") \in BOOLEAN
    OBVIOUS
  <2> QED BY <1>0, <2>1, <2>2, FitKeeps
<1>5. CASE Hide
  <2>1. shown' = FALSE /\ UNCHANGED <<window, zoom, seen, grid, cmds, pty, missed>>
    BY <1>5 DEF Hide, ptyVars
  <2>2. SizeTypes' /\ Made' /\ GridFits'
    BY <1>0, <2>1 DEF SizeTypes, Made, GridFits
  <2> QED BY <1>0, <2>1, <2>2, FollowFrame DEF Live
<1> QED BY <1>1, <1>2, <1>3, <1>4, <1>5

(* A session is made with the size of the terminal, which may be made with it. *)
LEMMA ConnectKeeps ==
    ASSUME PaneInv, NEW s \in Sessions, Connect(s)
    PROVE  PaneInv'
<1> USE DEF PaneInv
<1> DEFINE g == IF grid # None THEN grid ELSE IF shown THEN Fitting(window, zoom) ELSE Default
<1>1. g \in Grids /\ g # None
  <2>1. Fitting(window, zoom) \in Grids /\ Fitting(window, zoom) # None
    BY FittingIsGrid, Numbers DEF SizeTypes
  <2>2. Default \in Grids /\ Default # None
    BY Numbers DEF Default, Grids
  <2> QED BY <2>1, <2>2 DEF SizeTypes
<1>2. /\ grid' = g /\ pty' = [pty EXCEPT ![s] = g] /\ state' = "connecting"
      /\ phase' = [phase EXCEPT ![s] = "connecting"] /\ phase[s] = "none"
      /\ UNCHANGED <<sizeVars, sessionId, routed, answered, wire, cmds, missed>>
  BY DEF Connect
<1> HIDE DEF g
<1>3. SizeTypes' /\ TabTypes'
  BY <1>1, <1>2 DEF SizeTypes, TabTypes, sizeVars
<1>4. Made'
  BY <1>1, <1>2 DEF Made, TabTypes
<1>5. GridFits'
  BY <1>2 DEF GridFits
<1>6. cmds'[s] = << >> /\ pty'[s] = g
  BY <1>2 DEF Made, SizeTypes
<1>7. \A r \in Sessions \ {s} : Live(r)' => Live(r) /\ grid' = grid /\ pty'[r] = pty[r]
  BY <1>2 DEF Live, Made, TabTypes, SizeTypes, g
<1>8. AllFollow'
  BY <1>2, <1>6, <1>7 DEF AllFollow, Coming
<1> QED BY <1>3, <1>4, <1>5, <1>8

(* The answer to ssh_connect, and a status event. *)
LEMMA EventsKeep ==
    ASSUME PaneInv, NEW s \in Sessions, Resolve(s) \/ OnStatus(s)
    PROVE  PaneInv'
<1> USE DEF PaneInv
<1>1. UNCHANGED <<phase, shown, window, zoom, seen>>
  BY DEF Resolve, OnStatus, sizeVars
<1>2. CASE Resolve(s)
  <2>1. UNCHANGED <<grid, cmds, pty, missed, state>> /\ SizeTypes' /\ GridFits'
    BY <1>1, <1>2 DEF Resolve, ptyVars, SizeTypes, GridFits
  <2>2. TabTypes' /\ Made'
    BY <1>2, <2>1 DEF Resolve, TabTypes, Made
  <2> QED BY <1>1, <2>1, <2>2, FollowFrame DEF Live
<1>3. ASSUME OnStatus(s), UNCHANGED tabVars, UNCHANGED ptyVars PROVE PaneInv'
  <2>1. SizeTypes' /\ GridFits' /\ UNCHANGED <<grid, cmds, pty, missed>>
    BY <1>1, <1>3 DEF ptyVars, tabVars, SizeTypes, GridFits
  <2>2. TabTypes' /\ Made'
    BY <1>1, <1>3, <2>1 DEF OnStatus, tabVars, TabTypes, Made
  <2> QED BY <1>1, <2>1, <2>2, FollowFrame DEF Live
<1>4. ASSUME OnStatus(s), s \in routed, SetReady PROVE PaneInv'
  <2>1. grid # None /\ window \in 1..MaxWindow /\ zoom \in 0..MaxZoom
        /\ shown \in BOOLEAN /\ seen \in 0..window
    BY <1>4 DEF Made, TabTypes, SizeTypes
  <2>2. TabTypes' /\ UNCHANGED <<sessionId, phase, answered>> /\ Fit(shown, window, zoom)
    BY <1>1, <1>4 DEF OnStatus, SetReady, TabTypes
  <2> QED BY <1>1, <2>1, <2>2, FitKeeps
<1>5. ASSUME OnStatus(s), s \in routed, SetOver PROVE PaneInv'
  <2>1. SizeTypes' /\ GridFits' /\ UNCHANGED <<grid, cmds, pty, missed>>
    BY <1>1, <1>5 DEF SetOver, ptyVars, SizeTypes, GridFits
  <2>2. TabTypes' /\ Made'
    BY <1>1, <1>5, <2>1 DEF OnStatus, SetOver, TabTypes, Made
  <2> QED BY <1>1, <2>1, <2>2, FollowFrame DEF Live
<1> QED BY <1>2, <1>3, <1>4, <1>5 DEF OnStatus

(* The session task. *)
LEMMA TaskKeeps ==
    ASSUME PaneInv, NEW s \in Sessions, Ready(s) \/ TakeResize(s) \/ End(s)
    PROVE  PaneInv'
<1> USE DEF PaneInv
<1>0. UNCHANGED <<shown, window, zoom, seen, state, sessionId, routed, answered, grid, missed>>
  BY DEF Ready, TakeResize, End, sizeVars, tabVars, backVars, ptyVars
<1>1. CASE Ready(s)
  <2>1. SizeTypes' /\ TabTypes' /\ Made' /\ GridFits'
    BY <1>0, <1>1 DEF Ready, ptyVars, SizeTypes, TabTypes, Made, GridFits
  <2>2. \A r \in Sessions : Live(r)' => Live(r)
    BY <1>1 DEF Ready, Live, TabTypes
  <2> QED BY <1>1, <2>1, <2>2, FollowFrame DEF Ready, ptyVars
<1>2. CASE TakeResize(s)
  <2>1. /\ cmds[s] \in Seq(Grids) /\ cmds[s] # << >>
        /\ cmds' = [cmds EXCEPT ![s] = Tail(@)] /\ pty' = [pty EXCEPT ![s] = Head(cmds[s])]
        /\ UNCHANGED <<phase, answered, wire>>
    BY <1>2 DEF TakeResize, SizeTypes, backVars
  <2>2. Head(cmds[s]) \in Grids /\ Tail(cmds[s]) \in Seq(Grids)
    BY <2>1
  <2>3. SizeTypes' /\ TabTypes' /\ GridFits'
    BY <1>0, <2>1, <2>2 DEF SizeTypes, TabTypes, GridFits
  <2>4. Made'
    BY <1>0, <1>2, <2>1 DEF Made, TakeResize, SizeTypes
  <2>5. Coming(s)' = Coming(s)
    <3>1. cmds'[s] = Tail(cmds[s]) /\ pty'[s] = Head(cmds[s])
      BY <2>1 DEF SizeTypes
    <3> QED BY <2>1, <3>1, LastOfTail DEF Coming
  <2>6. \A r \in Sessions \ {s} : Coming(r)' = Coming(r)
    BY <2>1 DEF Coming, SizeTypes
  <2>7. AllFollow'
    BY <1>0, <2>1, <2>5, <2>6 DEF AllFollow, Live
  <2> QED BY <2>3, <2>4, <2>7
<1>3. CASE End(s)
  <2>1. SizeTypes' /\ TabTypes' /\ GridFits'
    BY <1>0, <1>3 DEF End, SizeTypes, TabTypes, GridFits
  <2>2. Made'
    BY <1>0, <1>3 DEF End, Made, Live, TabTypes, SizeTypes
  <2>3. \A r \in Sessions : Live(r)' => r # s /\ Live(r) /\ cmds'[r] = cmds[r]
    BY <1>3 DEF End, Live, TabTypes, SizeTypes
  <2>4. AllFollow'
    BY <1>0, <1>3, <2>3 DEF End, AllFollow, Coming
  <2> QED BY <2>1, <2>2, <2>4
<1> QED BY <1>1, <1>2, <1>3

(* Every action keeps the sizes. *)
LEMMA PaneStep == PaneInv /\ [Next]_vars => PaneInv'
<1> SUFFICES ASSUME PaneInv, [Next]_vars PROVE PaneInv'
  OBVIOUS
<1>1. CASE UNCHANGED <<sizeVars, tabVars, backVars, ptyVars>>
  BY <1>1 DEF sizeVars, tabVars, backVars, ptyVars, PaneInv, SizeTypes, TabTypes, Made,
              GridFits, AllFollow, Coming, Live
<1>2. ASSUME NEW s \in Sessions, OnData(s) \/ Output(s) PROVE PaneInv'
  BY <1>1, <1>2 DEF OnData, Output
<1> QED BY <1>1, <1>2, ViewKeeps, ConnectKeeps, EventsKeep, TaskKeeps DEF Next, vars

------------------------------------------------------------------------------
(* Output. *)

(* Only these steps change what is routed. *)
LEMMA RoutingStep ==
    ASSUME PaneInv, DataInv, [Next]_vars
    PROVE  /\ answered \subseteq answered'
           /\ \A s \in routed' \ routed : s \notin answered
  BY DEF PaneInv, Next, vars, WindowResized, Observe, ApplySettings, Show, Hide, Connect, Resolve,
         OnStatus, SetReady, SetOver, OnData, Ready, Output, TakeResize, End, tabVars, backVars

(* Steps that neither send nor take output. *)
LEMMA DataFrame ==
    ASSUME DataInv, TabTypes', UNCHANGED dataVars, answered \subseteq answered',
           \A s \in routed' \ routed : s \notin answered
    PROVE  DataInv'
  BY DEF DataInv, DataTypes, Abreast, OutputHasNoGap, dataVars

(* A chunk is sent. *)
LEMMA OutputKeeps ==
    ASSUME DataInv, NEW s \in Sessions, Output(s)
    PROVE  DataInv'
<1> USE DEF DataInv, Output
<1>1. TabTypes'
  BY DEF TabTypes, tabVars, backVars
<1>2. DataTypes'
  BY DEF DataTypes
<1> QED BY <1>1, <1>2 DEF Abreast, OutputHasNoGap, tabVars, backVars

(* A chunk is taken, and written if the tab is registered for its session. *)
LEMMA OnDataKeeps ==
    ASSUME DataInv, NEW s \in Sessions, OnData(s)
    PROVE  DataInv'
<1> USE DEF DataInv
<1> DEFINE n == taken[s] + 1
<1>1. /\ taken' = [taken EXCEPT ![s] = n] /\ taken[s] < sent[s]
      /\ UNCHANGED <<state, sessionId, routed, phase, answered, wire, sent>>
  BY DEF OnData, tabVars, backVars
<1>2. TabTypes'
  BY <1>1 DEF TabTypes
<1>3. taken[s] \in Nat /\ sent[s] \in Nat /\ written[s] \subseteq 1..taken[s]
  BY DEF DataTypes
<1>4. CASE s \in answered \cap routed
  <2>1. written' = [written EXCEPT ![s] = @ \cup {n}]
    BY <1>4 DEF OnData
  <2>2. DataTypes'
    BY <1>1, <1>3, <2>1 DEF DataTypes
  <2>3. /\ \A r \in Sessions \ {s} : written'[r] = written[r] /\ taken'[r] = taken[r]
        /\ written'[s] = written[s] \cup {n} /\ taken'[s] = n
    BY <1>1, <2>1 DEF DataTypes
  <2>4. \A i \in written'[s] : i..n \subseteq written'[s]
    BY <1>3, <1>4, <2>3 DEF Abreast
  <2>5. Abreast'
    BY <1>1, <1>4, <2>3, <2>4 DEF Abreast
  <2>6. \A i, j \in written'[s] : i..j \subseteq written'[s]
    BY <1>3, <2>3, <2>4
  <2>7. OutputHasNoGap'
    BY <2>3, <2>6 DEF OutputHasNoGap
  <2> QED BY <1>2, <2>2, <2>5, <2>7
<1>5. CASE s \notin answered \cap routed
  <2>1. written' = written
    BY <1>5 DEF OnData
  <2>2. DataTypes'
    BY <1>1, <1>3, <2>1 DEF DataTypes
  <2>3. s \notin routed
    BY <1>5 DEF TabTypes
  <2>4. Abreast'
    BY <1>1, <2>1, <2>3 DEF Abreast, DataTypes
  <2> QED BY <1>2, <2>1, <2>2, <2>4 DEF OutputHasNoGap
<1> QED BY <1>4, <1>5

(* Every action keeps the output without gaps. *)
LEMMA DataStep == PaneInv /\ DataInv /\ [Next]_vars => DataInv'
<1> SUFFICES ASSUME PaneInv, DataInv, [Next]_vars PROVE DataInv'
  OBVIOUS
<1>1. TabTypes'
  BY PaneStep DEF PaneInv
<1>2. UNCHANGED dataVars \/ \E s \in Sessions : OnData(s) \/ Output(s)
  BY DEF Next, vars, WindowResized, Observe, ApplySettings, Show, Hide, Connect, Resolve,
         OnStatus, Ready, TakeResize, End
<1> QED BY <1>1, <1>2, RoutingStep, DataFrame, OutputKeeps, OnDataKeeps

------------------------------------------------------------------------------
(* Both invariants, of which the others are consequences. *)
THEOREM PaneHolds == Spec => [](PaneInv /\ DataInv)
<1>1. PaneInv /\ DataInv /\ [Next]_vars => (PaneInv /\ DataInv)'
  BY PaneStep, DataStep
<1> QED BY PaneInit, <1>1, PTL DEF Spec

(* Sizes, tab, sessions and output keep their types. *)
THEOREM PaneTypes == Spec => []TypeOK
<1>1. PaneInv /\ DataInv => TypeOK
  BY Numbers DEF PaneInv, DataInv, TypeOK, SizeTypes, TabTypes, DataTypes
<1> QED BY PaneHolds, <1>1, PTL

(* The grid follows the pane, and the remote PTY follows the grid. *)
THEOREM SizesDoFollow == Spec => []SizesFollow
<1>1. PaneInv => GridFits /\ RemoteFollows
  BY DEF PaneInv, AllFollow, Coming, RemoteFollows, TabTypes
<1> QED BY PaneHolds, <1>1, PTL DEF SizesFollow

(* No gap in the output of a session, however often the tab changes sessions. *)
THEOREM NoGapInOutput == Spec => []OutputHasNoGap
<1>1. DataInv => OutputHasNoGap
  BY DEF DataInv
<1> QED BY PaneHolds, <1>1, PTL

------------------------------------------------------------------------------
(* Settings. *)

(* The values sanitize lets through, by kind of field. *)
LEMMA FieldValues ==
    /\ \A f \in Numeric : Accepted(f) = Low[f]..High[f]
    /\ Accepted("theme") = {"dark", "light"} /\ Accepted("fontFamily") = Families
    /\ Accepted("cursorStyle") = {"block", "bar", "underline"}
    /\ Accepted("cursorBlink") = BOOLEAN /\ Accepted("scheme") = SchemeNames
  BY DEF Accepted, Values, Numeric

(* They are the values of the type but for the scheme; the defaults have the type. *)
LEMMA TypedIsAccepted ==
    /\ \A f \in Fields : Values(f) \subseteq Accepted(f)
    /\ \A f \in Fields \ {"scheme"} : Values(f) = Accepted(f)
    /\ Values("scheme") = {"auto"} \cup Schemes
    /\ IsSanitized(Defaults) /\ Defaults["scheme"] \notin Inherited
<1>1. Values("scheme") = {"auto"} \cup Schemes
  BY DEF Values, Numeric
<1>2. \A f \in Fields : Values(f) \subseteq Accepted(f)
  BY <1>1 DEF Accepted, SchemeNames
<1>3. "scheme" \in Fields
  BY DEF Fields
<1> QED BY <1>1, <1>2, <1>3, SettingsAssumption DEF Accepted, IsAppSettings, IsSanitized

(* A field is repaired to one of these values. *)
LEMMA RepairedIsValid ==
    ASSUME NEW f \in Fields, NEW v, Storable(f, v)
    PROVE  Repaired(f, v) \in Accepted(f)
<1>1. Defaults[f] \in Accepted(f)
  BY TypedIsAccepted DEF IsSanitized
<1>2. CASE f \in Numeric
  <2>1. Repaired(f, v) = Clamp(f, v)
    BY <1>2 DEF Repaired, Numeric
  <2>2. Low[f] \in Int /\ High[f] \in Int /\ Low[f] <= High[f] /\ v \in Int \cup {Null}
    BY <1>2, SettingsAssumption DEF Storable
  <2> QED BY <1>1, <1>2, <2>1, <2>2, FieldValues DEF Clamp
<1>3. CASE f = "cursorBlink"
  <2>1. Repaired(f, v) = (v # Null /\ v)
    BY <1>3 DEF Repaired, Numeric
  <2> QED BY <1>3, <2>1, FieldValues
<1>4. CASE f \notin Numeric /\ f # "cursorBlink"
  BY <1>1, <1>4 DEF Repaired
<1> QED BY <1>2, <1>3, <1>4

(* Such a value stays. *)
LEMMA ValidIsKept ==
    ASSUME NEW f \in Fields, NEW v \in Accepted(f)
    PROVE  Repaired(f, v) = v
<1>1. CASE f \in Numeric
  <2>1. Repaired(f, v) = Clamp(f, v)
    BY <1>1 DEF Repaired, Numeric
  <2>2. Low[f] \in Int /\ High[f] \in Int /\ v \in Low[f]..High[f]
    BY <1>1, SettingsAssumption, FieldValues
  <2>3. v # Null
    BY <2>2, SettingsAssumption
  <2> QED BY <2>1, <2>2, <2>3 DEF Clamp
<1>2. CASE f = "cursorBlink"
  <2>1. v \in BOOLEAN
    BY <1>2, FieldValues
  <2>2. v # Null
    BY <2>1, SettingsAssumption
  <2>3. Repaired(f, v) = (v # Null /\ v)
    BY <1>2 DEF Repaired, Numeric
  <2> QED BY <2>1, <2>2, <2>3
<1>3. CASE f \notin Numeric /\ f # "cursorBlink"
  BY <1>3 DEF Repaired
<1> QED BY <1>1, <1>2, <1>3

(* Such a value may be stored. *)
LEMMA ValidIsStorable ==
    ASSUME NEW f \in Fields, NEW v \in Accepted(f)
    PROVE  Storable(f, v)
<1>1. f \in Numeric => v \in Int
  BY SettingsAssumption, FieldValues
<1> QED BY <1>1, FieldValues DEF Storable

(* A document: some of the fields, with values that may be stored. *)
Document(d) == DOMAIN d \subseteq Fields /\ \A f \in DOMAIN d : Storable(f, d[f])

(* sanitize makes sanitized settings of a document. *)
LEMMA SanitizedIsValid ==
    ASSUME NEW d, Document(d)
    PROVE  IsSanitized(Sanitize(d))
<1>1. \A f \in Fields : Storable(f, Merge(Defaults, d)[f])
  BY TypedIsAccepted, ValidIsStorable DEF Document, Merge, IsSanitized
<1> QED BY <1>1, RepairedIsValid DEF Sanitize, IsSanitized

(* sanitize changes nothing of sanitized settings. *)
LEMMA SanitizedIsKept ==
    ASSUME NEW s, IsSanitized(s)
    PROVE  Sanitize(s) = s /\ Document(s)
<1>1. s = [f \in Fields |-> s[f]] /\ DOMAIN s = Fields
  BY DEF IsSanitized
<1>2. \A f \in Fields : Merge(Defaults, s)[f] = s[f]
  BY <1>1 DEF Merge
<1>3. \A f \in Fields : Repaired(f, s[f]) = s[f] /\ Storable(f, s[f])
  BY ValidIsKept, ValidIsStorable DEF IsSanitized
<1> QED BY <1>1, <1>2, <1>3 DEF Sanitize, Document

(* What an update makes of sanitized settings: sanitized ones, that differ only in
   the fields it gives, and have these as given where sanitize lets them through. *)
LEMMA UpdatedSettings ==
    ASSUME NEW s, IsSanitized(s), NEW patch, Document(patch)
    PROVE  /\ IsSanitized(Sanitize(Merge(s, patch)))
           /\ \A f \in Fields \ DOMAIN patch : Sanitize(Merge(s, patch))[f] = s[f]
           /\ \A f \in DOMAIN patch : patch[f] \in Accepted(f) =>
                  Sanitize(Merge(s, patch))[f] = patch[f]
<1> DEFINE m == Merge(s, patch)
<1>1. m = [f \in Fields |-> IF f \in DOMAIN patch THEN patch[f] ELSE s[f]]
  BY DEF Merge
<1>2. Document(m)
  BY <1>1, ValidIsStorable DEF Document, IsSanitized
<1>3. IsSanitized(Sanitize(m))
  BY <1>2, SanitizedIsValid
<1>4. \A f \in Fields : Sanitize(m)[f] = Repaired(f, m[f])
  BY <1>1 DEF Sanitize, Merge
<1>5. \A f \in Fields \ DOMAIN patch : Sanitize(m)[f] = s[f]
  BY <1>1, <1>4, ValidIsKept DEF IsSanitized
<1>6. \A f \in DOMAIN patch : patch[f] \in Accepted(f) => Sanitize(m)[f] = patch[f]
  BY <1>1, <1>4, ValidIsKept DEF Document
<1> QED BY <1>3, <1>5, <1>6

------------------------------------------------------------------------------
(* The inductive invariant: the shapes of storage, dialog and terminals, and that an
   inherited name is in use only while it is stored, and stored only if it was there
   when the program was first started. *)
Shapes ==
    /\ Document(storage)
    /\ controls = Nothing \/ controls = [f \in DialogFields |-> controls[f]]
    /\ look = [t \in Tabs |-> look[t]] /\ \A t \in Tabs \ open : look[t] = Nothing

InheritedIsStored ==
    /\ settings["scheme"] \in Inherited =>
           "scheme" \in DOMAIN storage /\ storage["scheme"] = settings["scheme"]
    /\ "scheme" \in DOMAIN storage /\ storage["scheme"] \in Inherited =>
           \E d \in Documents : "scheme" \in DOMAIN d /\ d["scheme"] = storage["scheme"]

AppearanceInv ==
    AppearanceTypeOK /\ Shapes /\ ShownEverywhere /\ RestartKeepsSettings /\ InheritedIsStored

(* Storage is loaded as sanitized settings, with no inherited scheme but the stored. *)
LEMMA LoadedSettings ==
    ASSUME Document(storage)
    PROVE  /\ IsSanitized(Load(storage))
           /\ Load(storage)["scheme"] \in Inherited =>
                 "scheme" \in DOMAIN storage /\ storage["scheme"] = Load(storage)["scheme"]
<1>1. Load(storage)["scheme"] = Repaired("scheme", Merge(Defaults, storage)["scheme"])
  BY DEF Load, Sanitize, Merge, Fields
<1>2. Repaired("scheme", Merge(Defaults, storage)["scheme"]) \in {Merge(Defaults, storage)["scheme"], Defaults["scheme"]}
  BY DEF Repaired, Numeric
<1>3. "scheme" \notin DOMAIN storage => Merge(Defaults, storage)["scheme"] = Defaults["scheme"]
  BY DEF Merge, Fields
<1>4. "scheme" \in DOMAIN storage => Merge(Defaults, storage)["scheme"] = storage["scheme"]
  BY DEF Merge, Fields
<1>5. Load(storage)["scheme"] \in Inherited =>
        "scheme" \in DOMAIN storage /\ storage["scheme"] = Load(storage)["scheme"]
  BY <1>1, <1>2, <1>3, <1>4, TypedIsAccepted
<1> QED BY <1>5, SanitizedIsValid DEF Load

(* A first start satisfies the invariant. *)
LEMMA AppearanceStarts == AppearanceInit => AppearanceInv
<1> SUFFICES ASSUME AppearanceInit PROVE AppearanceInv
  OBVIOUS
<1>1. Document(storage)
  BY AppearanceAssumption DEF AppearanceInit, Document, Nothing
<1>2. AppearanceTypeOK /\ Shapes /\ InheritedIsStored
  BY <1>1, LoadedSettings DEF AppearanceInit, Nothing, AppearanceTypeOK, Shapes, InheritedIsStored
<1>3. ShownEverywhere /\ RestartKeepsSettings
  BY DEF AppearanceInit, ShownEverywhere, RestartKeepsSettings
<1> QED BY <1>2, <1>3 DEF AppearanceInv

(* An update keeps everything but what the dialog shows, which it may change only in
   the fields it gives. *)
LEMMA UpdateKeeps ==
    ASSUME AppearanceInv, NEW patch, Document(patch), Update(patch), open' = open,
           "scheme" \in DOMAIN patch => patch["scheme"] \in {"auto"} \cup Schemes
    PROVE  /\ AppearanceTypeOK'
           /\ Document(storage')
           /\ look' = [t \in Tabs |-> look'[t]] /\ \A t \in Tabs \ open' : look'[t] = Nothing
           /\ page' = settings' /\ \A t \in open' : look'[t] \in {Nothing, settings'}
           /\ RestartKeepsSettings' /\ InheritedIsStored'
           /\ \A f \in Fields \ DOMAIN patch : settings'[f] = settings[f]
           /\ \A f \in DOMAIN patch : patch[f] \in Accepted(f) => settings'[f] = patch[f]
           /\ storage' \in {storage, settings'}
           /\ settings'["scheme"] \in Inherited => settings["scheme"] = settings'["scheme"]
<1> DEFINE next == Sanitize(Merge(settings, patch))
<1>1. /\ IsSanitized(next)
      /\ \A f \in Fields \ DOMAIN patch : next[f] = settings[f]
      /\ \A f \in DOMAIN patch : patch[f] \in Accepted(f) => next[f] = patch[f]
  BY UpdatedSettings DEF AppearanceInv, AppearanceTypeOK
<1>2. Document(next) /\ Sanitize(next) = next
  BY <1>1, SanitizedIsKept
<1>3. CASE next = settings /\ UNCHANGED <<settings, storage, unsaved, page, look>>
  BY <1>1, <1>3 DEF AppearanceInv, AppearanceTypeOK, Shapes, ShownEverywhere, RestartKeepsSettings,
                    InheritedIsStored
<1>4. CASE settings' = next /\ Save(next) /\ Notify(next)
  <2> HIDE DEF next
  <2>1. /\ settings' = next /\ page' = next
        /\ look' = [t \in Tabs |-> IF t \in open /\ look[t] # Nothing THEN next ELSE look[t]]
        /\ \/ storage' = next /\ unsaved' = FALSE
           \/ unsaved' = TRUE /\ storage' = storage
    BY <1>4 DEF Save, Notify
  <2>2. AppearanceTypeOK'
    BY <1>1, <2>1 DEF AppearanceInv, AppearanceTypeOK
  <2>3. Document(storage')
    BY <1>2, <2>1 DEF AppearanceInv, Shapes
  <2>4. \A t \in open' : look'[t] \in {Nothing, settings'}
    BY <2>1 DEF AppearanceInv, AppearanceTypeOK
  <2>5. RestartKeepsSettings'
    BY <1>2, <2>1 DEF Load, RestartKeepsSettings, AppearanceInv
  <2>6. next["scheme"] \in Inherited => settings["scheme"] = next["scheme"]
    <3>1. "scheme" \in DOMAIN patch => next["scheme"] \in {"auto"} \cup Schemes
      BY <1>1, FieldValues DEF SchemeNames
    <3> QED BY <1>1, <3>1, SettingsAssumption DEF Fields
  <2>7. InheritedIsStored'
    <3>1. "scheme" \in Fields /\ "scheme" \in DOMAIN next
      BY <1>2, <1>1 DEF Fields, IsSanitized
    <3> QED BY <2>1, <2>6, <3>1 DEF AppearanceInv, InheritedIsStored
  <2>8. \A t \in Tabs \ open' : look'[t] = Nothing
    BY <2>1 DEF AppearanceInv, Shapes
  <2> QED BY <1>1, <2>1, <2>2, <2>3, <2>4, <2>5, <2>6, <2>7, <2>8
<1> QED BY <1>3, <1>4 DEF Update

(* Shortcuts change a field the dialog does not show. *)
LEMMA ShortcutKeeps ==
    ASSUME AppearanceInv, NEW f \in {"fontSize", "theme"}, NEW v, Storable(f, v),
           Update([g \in {f} |-> v]), UNCHANGED <<open, controls>>
    PROVE  AppearanceInv'
<1> DEFINE patch == [g \in {f} |-> v]
<1>1. Document(patch) /\ "scheme" \notin DOMAIN patch
  BY DEF Document, Fields, Numeric
<1>2. DialogFields \subseteq Fields \ DOMAIN patch
  BY DEF DialogFields
<1> HIDE DEF patch
<1>3. /\ AppearanceTypeOK' /\ Document(storage') /\ look' = [t \in Tabs |-> look'[t]] /\ \A t \in Tabs \ open' : look'[t] = Nothing
      /\ page' = settings' /\ \A t \in open' : look'[t] \in {Nothing, settings'}
      /\ RestartKeepsSettings' /\ InheritedIsStored'
      /\ \A g \in DialogFields : settings'[g] = settings[g]
  BY <1>1, <1>2, UpdateKeeps DEF patch
<1>4. ShownEverywhere'
  BY <1>3 DEF AppearanceInv, ShownEverywhere
<1> QED BY <1>3, <1>4 DEF AppearanceInv, Shapes

(* An entry in the dialog changes one control, and the field it stands for. *)
LEMMA EnterKeeps ==
    ASSUME AppearanceInv, NEW f \in DialogFields, NEW v \in Offered(f), Enter(f, v)
    PROVE  AppearanceInv'
<1> DEFINE w == IF f = "fontFamily" /\ v = Blank THEN Defaults[f] ELSE v
           patch == [g \in {f} |-> w]
<1>1. f \in Fields /\ (f \notin Numeric => w \in Accepted(f))
  <2>1. Defaults["fontFamily"] \in Families
    BY TypedIsAccepted, FieldValues DEF IsSanitized, Fields
  <2>2. CASE f = "fontFamily"
    BY <2>1, <2>2, FieldValues DEF Offered, Numeric, DialogFields
  <2>3. CASE f = "scheme"
    BY <2>3, TypedIsAccepted DEF Offered, Numeric, DialogFields
  <2>4. CASE f \notin {"fontFamily", "scheme"}
    BY <2>4, TypedIsAccepted DEF Offered, DialogFields
  <2> QED BY <2>2, <2>3, <2>4 DEF DialogFields
<1>2. Storable(f, w)
  <2>1. CASE f \in Numeric
    BY <2>1 DEF Offered, Numeric, Storable
  <2>2. CASE f \notin Numeric
    BY <1>1, <2>2, ValidIsStorable
  <2> QED BY <2>1, <2>2
<1>3. f = "scheme" => w \in {"auto"} \cup Schemes
  BY TypedIsAccepted DEF Offered, Numeric
<1> HIDE DEF w
<1>4. Document(patch) /\ DOMAIN patch = {f} /\ patch[f] = w
  BY <1>1, <1>2 DEF Document
<1>5. /\ controls # Nothing /\ Update(patch) /\ open' = open
      /\ controls' = [controls EXCEPT ![f] = IF f \in Numeric THEN settings'[f] ELSE v]
  BY DEF Enter, w
<1> HIDE DEF patch
<1>6. /\ AppearanceTypeOK' /\ Document(storage') /\ look' = [t \in Tabs |-> look'[t]] /\ \A t \in Tabs \ open' : look'[t] = Nothing
      /\ page' = settings' /\ \A t \in open' : look'[t] \in {Nothing, settings'}
      /\ RestartKeepsSettings' /\ InheritedIsStored'
      /\ \A g \in Fields \ {f} : settings'[g] = settings[g]
      /\ f \notin Numeric => settings'[f] = w
  BY <1>1, <1>3, <1>4, <1>5, UpdateKeeps
<1>7. controls = [g \in DialogFields |-> controls[g]]
  BY <1>5 DEF AppearanceInv, Shapes
<1>8. controls' = [g \in DialogFields |-> controls'[g]]
  BY <1>5, <1>7
<1>9. ASSUME NEW g \in DialogFields PROVE controls'[g] \in {Blank, settings'[g]}
  <2>1. CASE g # f
    BY <1>5, <1>6, <1>7, <2>1 DEF AppearanceInv, ShownEverywhere, DialogFields
  <2>2. CASE g = f /\ f \in Numeric
    BY <1>5, <1>7, <2>2
  <2>3. CASE g = f /\ f \notin Numeric
    BY <1>5, <1>6, <1>7, <2>3 DEF w
  <2> QED BY <2>1, <2>2, <2>3
<1>10. ShownEverywhere'
  BY <1>6, <1>9 DEF ShownEverywhere
<1> QED BY <1>6, <1>8, <1>10 DEF AppearanceInv, Shapes

(* Every action keeps the invariant. *)
LEMMA AppearanceStep == AppearanceInv /\ [AppearanceNext]_appearanceVars => AppearanceInv'
<1> SUFFICES ASSUME AppearanceInv, [AppearanceNext]_appearanceVars PROVE AppearanceInv'
  OBVIOUS
<1> USE DEF AppearanceInv
<1>1. CASE UNCHANGED appearanceVars
  BY <1>1 DEF appearanceVars, AppearanceTypeOK, Shapes, ShownEverywhere, RestartKeepsSettings, InheritedIsStored
<1>2. CASE Restart
  <2>1. IsSanitized(settings') /\ settings' = Load(storage) /\ InheritedIsStored'
    BY <1>2, LoadedSettings DEF Restart, Start, Shapes, InheritedIsStored
  <2> QED BY <1>2, <2>1 DEF Restart, Start, AppearanceTypeOK, Shapes, ShownEverywhere, RestartKeepsSettings
<1>3. ASSUME NEW px \in Int, SetFontSize(px), UNCHANGED <<open, controls>> PROVE AppearanceInv'
  <2>1. Clamp("fontSize", px) \in Int
    BY SettingsAssumption, TypedIsAccepted, FieldValues DEF Clamp, IsSanitized, Numeric, Fields
  <2>2. Storable("fontSize", Clamp("fontSize", px))
    BY <2>1 DEF Storable
  <2> QED BY <1>3, <2>2, ShortcutKeeps DEF SetFontSize
<1>4. CASE ResetFont
  <2>1. Defaults["fontSize"] \in Int
    BY SettingsAssumption, TypedIsAccepted, FieldValues DEF IsSanitized, Numeric, Fields
  <2> QED BY <1>3, <1>4, <2>1 DEF ResetFont
<1>5. ASSUME NEW delta \in {-1, 1}, BumpFont(delta) PROVE AppearanceInv'
  <2>1. settings["fontSize"] \in Int
    BY SettingsAssumption, FieldValues DEF AppearanceTypeOK, IsSanitized, Numeric, Fields
  <2> QED BY <1>3, <1>5, <2>1 DEF BumpFont
<1>6. CASE ToggleTheme
  BY <1>6, ShortcutKeeps DEF ToggleTheme, Storable, Numeric
<1>7. CASE OpenDialog
  BY <1>7 DEF OpenDialog, Shown, AppearanceTypeOK, Shapes, ShownEverywhere, RestartKeepsSettings,
              InheritedIsStored
<1>8. CASE CloseDialog
  BY <1>8 DEF CloseDialog, AppearanceTypeOK, Shapes, ShownEverywhere, RestartKeepsSettings,
              InheritedIsStored
<1>9. ASSUME NEW e \in Entries, Enter(e[1], e[2]) PROVE AppearanceInv'
  BY <1>9, AppearanceAssumption, EnterKeeps
<1>10. ASSUME NEW t \in Tabs, NewTab(t) \/ EnsureTerminal(t) \/ CloseTab(t)
       PROVE  AppearanceInv'
  BY <1>10 DEF NewTab, EnsureTerminal, CloseTab, AppearanceTypeOK, Shapes, ShownEverywhere,
               RestartKeepsSettings, InheritedIsStored
<1> QED BY <1>1, <1>2, <1>4, <1>5, <1>6, <1>7, <1>8, <1>9, <1>10 DEF AppearanceNext

(* The store, what it wrote and what shows it agree, whatever was stored, typed or
   lost. *)
THEOREM AppearanceHolds == AppearanceSpec => []AppearanceInv
<1> QED BY AppearanceStarts, AppearanceStep, PTL DEF AppearanceSpec

(* The settings in use are what sanitize lets through: of the type AppSettings in
   every field but the scheme, which may be an inherited name. *)
THEOREM SettingsAreValid == AppearanceSpec => []AppearanceTypeOK
<1>1. AppearanceInv => AppearanceTypeOK
  BY DEF AppearanceInv
<1> QED BY AppearanceHolds, <1>1, PTL

(* If no document there is at first has an inherited name for its scheme, the settings
   are always of the type AppSettings. *)
THEOREM SettingsHaveTheirType ==
    ASSUME \A d \in Documents : "scheme" \in DOMAIN d => d["scheme"] \notin Inherited
    PROVE  AppearanceSpec => []IsAppSettings(settings)
<1>1. AppearanceInv => IsAppSettings(settings)
  <2> SUFFICES ASSUME AppearanceInv PROVE IsAppSettings(settings)
    OBVIOUS
  <2>1. IsSanitized(settings) /\ settings["scheme"] \notin Inherited
    BY DEF AppearanceInv, AppearanceTypeOK, InheritedIsStored
  <2>2. settings["scheme"] \in SchemeNames
    BY <2>1, FieldValues DEF IsSanitized, Fields
  <2> QED BY <2>1, <2>2, TypedIsAccepted DEF IsSanitized, IsAppSettings, SchemeNames
<1> QED BY AppearanceHolds, <1>1, PTL

(* The page, the terminals and the dialog show the settings of the store. *)
THEOREM SettingsAreShown == AppearanceSpec => []ShownEverywhere
<1>1. AppearanceInv => ShownEverywhere
  BY DEF AppearanceInv
<1> QED BY AppearanceHolds, <1>1, PTL

(* A restart brings the settings back. *)
THEOREM SettingsSurvive == AppearanceSpec => []RestartKeepsSettings
<1>1. AppearanceInv => RestartKeepsSettings
  BY DEF AppearanceInv
<1> QED BY AppearanceHolds, <1>1, PTL

(* No palette is missing but for a name somebody stored. *)
THEOREM PalettesAreDefined == AppearanceSpec => []PaletteIsDefined
<1>1. AppearanceInv => PaletteIsDefined
  <2> SUFFICES ASSUME AppearanceInv, Palette(settings["scheme"], settings["theme"]) = Undefined
               PROVE  settings["scheme"] \in Inherited
    BY DEF AppearanceInv, InheritedIsStored, PaletteIsDefined
  <2>1. settings["scheme"] \in SchemeNames /\ settings["theme"] \in {"dark", "light"}
    BY FieldValues DEF AppearanceInv, AppearanceTypeOK, IsSanitized, Fields
  <2> QED BY <2>1, SettingsAssumption DEF Palette, SchemeNames
<1> QED BY AppearanceHolds, <1>1, PTL

==============================================================================
