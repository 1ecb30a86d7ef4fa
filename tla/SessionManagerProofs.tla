------------------------- MODULE SessionManagerProofs -------------------------
(***************************************************************************)
(* What holds of SessionManager for any number of sessions and any bounds: *)
(* its types, the lifecycle of a session, the contract with the renderer,  *)
(* the prompts, the keystrokes.                                            *)
(***************************************************************************)
EXTENDS SessionManager, SequenceTheorems, TLAPS

------------------------------------------------------------------------------
(* The types, in the four groups of variables an action can disturb.           *)

TaskTypes ==
    /\ app \in {"running", "quitting", "exited"}
    /\ call \in [Sessions -> {"none", "connected", "saved", "returned"}]
    /\ task \in [Sessions -> Before \cup AfterLogin \cup Ending]
    /\ outcome \in [Sessions -> {"none", "closed", "error"}]

QueueTypes ==
    /\ inbox \in [Sessions -> Seq(Command)]
    /\ hand \in [Sessions -> Command \cup {NoCommand}]
    /\ typed \in [Sessions -> 0..MaxKeys]
    /\ shell \in [Sessions -> Seq(0..MaxKeys)]

PromptTypes ==
    /\ hostKeyTx \subseteq Sessions /\ kbdTx \subseteq Sessions
    /\ hostKeyRx \in [Sessions -> {"empty", "accept", "reject"}]
    /\ kbdRx \in [Sessions -> 0..MaxRounds]
    /\ round \in [Sessions -> 0..MaxRounds]
    /\ modals \in Seq(Dialog)

StoreTypes ==
    /\ optedIn \subseteq Sessions /\ registry \subseteq Sessions
    /\ pendingSaves \subseteq Sessions /\ pendingRecents \subseteq Sessions
    /\ saved \subseteq Sessions /\ recorded \subseteq Sessions
    /\ events \in [Sessions -> Seq({"connecting", "ready", "message", "error", "closed"})]

(* Whoever is on the way through cleanup knows what it will announce: without
   this the last event of a session need not be one of the known words. *)
OutcomeKnown ==
    \A s \in Sessions :
        task[s] \in {"taking", "dropSave", "dropRecent", "draining"} => outcome[s] # "none"

(* The steps that put nothing into, and take nothing from, a queue. *)
LEMMA QueuesAlone ==
    ASSUME NEW s \in Sessions,
           \/ Connect(s) \/ CallStep(s) \/ ChannelClosed(s)
           \/ (TaskStep(s) /\ ~TakeCommand(s) /\ ~Drain(s))
           \/ (ServerStep(s) /\ ~Sent(s) /\ ~SendFailed(s))
    PROVE  UNCHANGED queueVars
<1>1. CASE Connect(s) \/ CallStep(s) \/ ChannelClosed(s)
  BY <1>1 DEF Connect, CallStep, QueueSave, QueueRecent, ChannelClosed, OnlyTask
<1>2. CASE TaskStep(s) /\ ~TakeCommand(s) /\ ~Drain(s)
  BY <1>2 DEF TaskStep, TcpConnected, TcpFailed, HostKeyAnswered, HostKeyTimedOut,
              HostKeyVerdict, KbdAnswered, SaveSecret, RecordRecent, Announce, Fail, Take,
              DropSave, DropRecent, OnlyTask
<1>3. CASE ServerStep(s) /\ ~Sent(s) /\ ~SendFailed(s)
  BY <1>3 DEF ServerStep, KeyMatches, KexFailed, AskHostKey, PrimaryOk, PrimaryFailed,
              AuthError, KbdSuccess, KbdFailed, AskKbd, ShellOpened, ShellFailed, Leave, OnlyTask
<1> QED BY <1>1, <1>2, <1>3

(* The steps that neither open, answer nor end a prompt. *)
LEMMA PromptsAlone ==
    ASSUME NEW s \in Sessions,
           \/ Request(s) \/ CallStep(s) \/ ChannelClosed(s)
           \/ (/\ TaskStep(s)
               /\ ~HostKeyAnswered(s) /\ ~HostKeyVerdict(s) /\ ~KbdAnswered(s) /\ ~Drain(s))
           \/ (ServerStep(s) /\ ~AskHostKey(s) /\ ~AskKbd(s))
    PROVE  UNCHANGED promptVars
<1>1. CASE Request(s) \/ CallStep(s) \/ ChannelClosed(s)
  BY <1>1 DEF Request, Connect, Input, Resize, Disconnect, CallStep, QueueSave, QueueRecent,
              ChannelClosed, OnlyTask
<1>2. CASE /\ TaskStep(s)
           /\ ~HostKeyAnswered(s) /\ ~HostKeyVerdict(s) /\ ~KbdAnswered(s) /\ ~Drain(s)
  BY <1>2 DEF TaskStep, TcpConnected, TcpFailed, HostKeyTimedOut, SaveSecret, RecordRecent,
              Announce, TakeCommand, Fail, Take, DropSave, DropRecent, OnlyTask
<1>3. CASE ServerStep(s) /\ ~AskHostKey(s) /\ ~AskKbd(s)
  BY <1>3 DEF ServerStep, KeyMatches, KexFailed, PrimaryOk, PrimaryFailed, AuthError,
              KbdSuccess, KbdFailed, ShellOpened, ShellFailed, Sent, SendFailed, Leave, OnlyTask
<1> QED BY <1>1, <1>2, <1>3

(* A task that moves along its program stays in it. *)
LEMMA GotoTyped ==
    ASSUME TaskTypes, NEW s \in Sessions, NEW from, NEW to, Goto(s, from, to),
           to \in Before \cup AfterLogin \cup Ending
    PROVE  task' \in [Sessions -> Before \cup AfterLogin \cup Ending]
  BY DEF TaskTypes, Goto

(* An event of the known words may follow any others. *)
LEMMA EmitTyped ==
    ASSUME StoreTypes, NEW s \in Sessions,
           NEW word \in {"connecting", "ready", "message", "error", "closed"}, Emit(s, word)
    PROVE  events' \in [Sessions -> Seq({"connecting", "ready", "message", "error", "closed"})]
<1> DEFINE Word == {"connecting", "ready", "message", "error", "closed"}
<1>1. events[s] \in Seq(Word)
  BY DEF StoreTypes
<1>2. Append(events[s], word) \in Seq(Word)
  BY <1>1
<1> HIDE DEF Word
<1>3. events \in [Sessions -> Seq(Word)]
  BY DEF StoreTypes, Word
<1>4. events' \in [Sessions -> Seq(Word)]
  BY <1>2, <1>3 DEF Emit
<1> QED BY <1>4 DEF Word

(* Every step keeps the program counters in their programs. *)
LEMMA TaskTypesStep == TypeOK /\ [Next]_vars => TaskTypes'
<1> SUFFICES ASSUME TypeOK, [Next]_vars PROVE TaskTypes'
  OBVIOUS
<1>0. TaskTypes
  BY DEF TypeOK, TaskTypes
<1>1. ASSUME NEW s \in Sessions, Request(s) PROVE TaskTypes'
  BY <1>0, <1>1 DEF Request, Connect, Input, Resize, Disconnect, mainVars, TaskTypes, Before
<1>2. ASSUME NEW s \in Sessions, CallStep(s) PROVE TaskTypes'
  BY <1>0, <1>2 DEF CallStep, QueueSave, QueueRecent, TaskTypes
<1>3. ASSUME NEW s \in Sessions, TaskStep(s) PROVE TaskTypes'
  <2>1. task' \in [Sessions -> Before \cup AfterLogin \cup Ending]
    <3>1. PICK from, to : Goto(s, from, to) /\ to \in Before \cup AfterLogin \cup Ending
      BY <1>3 DEF TaskStep, TcpConnected, TcpFailed, HostKeyAnswered, HostKeyTimedOut,
           HostKeyVerdict, KbdAnswered, SaveSecret, RecordRecent, Announce, TakeCommand, Fail,
           Take, DropSave, DropRecent, Drain, Before, AfterLogin, Ending
    <3> QED BY <1>0, <3>1, GotoTyped
  <2>2. /\ UNCHANGED <<app, call>>
        /\ outcome' = outcome \/ outcome' = [outcome EXCEPT ![s] = "error"]
    BY <1>3 DEF TaskStep, TcpConnected, TcpFailed, HostKeyAnswered, HostKeyTimedOut,
         HostKeyVerdict, KbdAnswered, SaveSecret, RecordRecent, Announce, TakeCommand, Fail,
         Take, DropSave, DropRecent, Drain, OnlyTask, mainVars
  <2> QED BY <1>0, <2>1, <2>2 DEF TaskTypes
<1>4. ASSUME NEW s \in Sessions, ServerStep(s) PROVE TaskTypes'
  <2>1. task' \in [Sessions -> Before \cup AfterLogin \cup Ending]
    <3>1. PICK from, to : Goto(s, from, to) /\ to \in Before \cup AfterLogin \cup Ending
      BY <1>4 DEF ServerStep, KeyMatches, KexFailed, AskHostKey, PrimaryOk, PrimaryFailed,
           AuthError, KbdSuccess, KbdFailed, AskKbd, ShellOpened, ShellFailed, Sent, SendFailed,
           Leave, Before, AfterLogin, Ending
    <3> QED BY <1>0, <3>1, GotoTyped
  <2>2. /\ UNCHANGED <<app, call>>
        /\ outcome' = outcome \/ outcome' = [outcome EXCEPT ![s] = "closed"]
    BY <1>4 DEF ServerStep, KeyMatches, KexFailed, AskHostKey, PrimaryOk, PrimaryFailed,
         AuthError, KbdSuccess, KbdFailed, AskKbd, ShellOpened, ShellFailed, Sent, SendFailed,
         Leave, OnlyTask, mainVars
  <2> QED BY <1>0, <2>1, <2>2 DEF TaskTypes
<1>5. ASSUME NEW s \in Sessions, ChannelClosed(s) PROVE TaskTypes'
  BY <1>0, <1>5, GotoTyped DEF ChannelClosed, OnlyTask, mainVars, TaskTypes, AfterLogin
<1>6. CASE UserStep \/ DisconnectAll \/ Exit \/ Rest \/ UNCHANGED vars
  BY <1>0, <1>6 DEF UserStep, HostKeyDecision, KbdAnswer, DisconnectAll, Exit, Rest, vars,
                    mainVars, TaskTypes
<1> QED BY <1>1, <1>2, <1>3, <1>4, <1>5, <1>6 DEF Next

(* Every step leaves commands in the channels and keystrokes in the shells. *)
LEMMA QueueTypesStep == TypeOK /\ [Next]_vars => QueueTypes'
<1> SUFFICES ASSUME TypeOK, [Next]_vars PROVE QueueTypes'
  OBVIOUS
<1>0. QueueTypes
  BY DEF TypeOK, QueueTypes
<1>a. ASSUME UNCHANGED queueVars PROVE QueueTypes'
  BY <1>0, <1>a DEF QueueTypes, queueVars
<1>b. ASSUME NEW op \in {"write", "resize", "disconnect"}, NEW key \in 0..MaxKeys
      PROVE  [op |-> op, key |-> key] \in Command
  BY DEF Command
<1>c. Cmd("resize") \in Command /\ Cmd("disconnect") \in Command
  BY <1>b, BoundsAssumption DEF Cmd
<1>d. ASSUME NEW s \in Sessions, NEW c \in Command, Send(s, c)
      PROVE  inbox' \in [Sessions -> Seq(Command)]
  <2>1. inbox[s] \in Seq(Command)
    BY <1>0 DEF QueueTypes
  <2>2. Append(inbox[s], c) \in Seq(Command)
    BY <2>1
  <2> QED BY <1>0, <1>d, <2>2 DEF Send, QueueTypes
<1>1. ASSUME NEW s \in Sessions, Request(s) PROVE QueueTypes'
  <2>1. CASE Connect(s)
    BY <1>a, <2>1, QueuesAlone
  <2>2. CASE Input(s)
    <3>1. typed[s] \in 0..MaxKeys /\ typed[s] < MaxKeys
      BY <1>0, <2>2 DEF Input, QueueTypes
    <3>2. typed[s] + 1 \in 0..MaxKeys
      BY <3>1, BoundsAssumption
    <3>3. [op |-> "write", key |-> typed[s] + 1] \in Command
      BY <1>b, <3>2
    <3>4. inbox' \in [Sessions -> Seq(Command)]
      BY <1>d, <2>2, <3>3 DEF Input
    <3> QED BY <1>0, <2>2, <3>2, <3>4 DEF Input, QueueTypes
  <2>3. CASE Resize(s)
    BY <1>0, <1>c, <1>d, <2>3 DEF Resize, QueueTypes
  <2>4. CASE Disconnect(s)
    BY <1>0, <1>c, <1>d, <2>4 DEF Disconnect, QueueTypes
  <2> QED BY <1>1, <2>1, <2>2, <2>3, <2>4 DEF Request
<1>2. ASSUME NEW s \in Sessions, CallStep(s) \/ ChannelClosed(s) PROVE QueueTypes'
  BY <1>a, <1>2, QueuesAlone
<1>3. ASSUME NEW s \in Sessions, TaskStep(s) PROVE QueueTypes'
  <2>1. CASE TakeCommand(s)
    <3>1. inbox[s] \in Seq(Command) /\ inbox[s] # << >>
      BY <1>0, <2>1 DEF TakeCommand, QueueTypes
    <3>2. Head(inbox[s]) \in Command /\ Tail(inbox[s]) \in Seq(Command)
      BY <3>1
    <3> QED BY <1>0, <2>1, <3>2 DEF TakeCommand, QueueTypes
  <2>2. CASE Drain(s)
    BY <1>0, <2>2 DEF Drain, QueueTypes
  <2> QED BY <1>3, <1>a, <2>1, <2>2, QueuesAlone
<1>4. ASSUME NEW s \in Sessions, ServerStep(s) PROVE QueueTypes'
  <2>1. CASE Sent(s)
    <3>1. ASSUME hand[s].op = "write" PROVE hand[s].key \in 0..MaxKeys
      BY <1>0, <3>1 DEF QueueTypes, Command, NoCommand, Cmd
    <3>2. shell' \in [Sessions -> Seq(0..MaxKeys)]
      <4>1. CASE hand[s].op # "write"
        BY <1>0, <2>1, <4>1 DEF Sent, QueueTypes
      <4>2. CASE hand[s].op = "write"
        BY <1>0, <2>1, <3>1, <4>2 DEF Sent, QueueTypes
      <4> QED BY <4>1, <4>2
    <3> QED BY <1>0, <2>1, <3>2 DEF Sent, QueueTypes
  <2>2. CASE SendFailed(s)
    BY <1>0, <2>2 DEF SendFailed, QueueTypes
  <2> QED BY <1>4, <1>a, <2>1, <2>2, QueuesAlone
<1>5. CASE DisconnectAll
  <2>1. ASSUME NEW s \in Sessions PROVE inbox'[s] \in Seq(Command)
    <3>1. inbox[s] \in Seq(Command)
      BY <1>0 DEF QueueTypes
    <3>2. Append(inbox[s], Cmd("disconnect")) \in Seq(Command)
      BY <1>c, <3>1
    <3> QED BY <1>5, <3>1, <3>2 DEF DisconnectAll
  <2>2. inbox' \in [Sessions -> Seq(Command)]
    BY <1>5, <2>1 DEF DisconnectAll
  <2> QED BY <1>0, <1>5, <2>2 DEF DisconnectAll, QueueTypes
<1>6. CASE UserStep \/ Exit \/ Rest \/ UNCHANGED vars
  BY <1>a, <1>6 DEF UserStep, HostKeyDecision, KbdAnswer, Exit, Rest, vars
<1> QED BY <1>1, <1>2, <1>3, <1>4, <1>5, <1>6 DEF Next

(* Every step leaves the prompts' maps, answers and dialogs well formed. *)
LEMMA PromptTypesStep == TypeOK /\ [Next]_vars => PromptTypes'
<1> SUFFICES ASSUME TypeOK, [Next]_vars PROVE PromptTypes'
  OBVIOUS
<1>0. PromptTypes
  BY DEF TypeOK, PromptTypes
<1>a. ASSUME UNCHANGED promptVars PROVE PromptTypes'
  BY <1>0, <1>a DEF PromptTypes, promptVars
<1>1. ASSUME NEW s \in Sessions, Request(s) \/ CallStep(s) \/ ChannelClosed(s)
      PROVE  PromptTypes'
  BY <1>a, <1>1, PromptsAlone
<1>2. ASSUME NEW s \in Sessions, TaskStep(s) PROVE PromptTypes'
  <2>1. CASE HostKeyAnswered(s)
    BY <1>0, <2>1 DEF HostKeyAnswered, PromptTypes
  <2>2. CASE HostKeyVerdict(s)
    BY <1>0, <2>2 DEF HostKeyVerdict, PromptTypes
  <2>3. CASE KbdAnswered(s)
    BY <1>0, <2>3, BoundsAssumption DEF KbdAnswered, PromptTypes
  <2>4. CASE Drain(s)
    <3>1. round[s] \in 0..MaxRounds
      BY <1>0 DEF PromptTypes
    <3>2. kbdRx' \in [Sessions -> 0..MaxRounds]
      BY <1>0, <2>4, <3>1 DEF Drain, PromptTypes
    <3>3. hostKeyRx' \in [Sessions -> {"empty", "accept", "reject"}]
      BY <1>0, <2>4 DEF Drain, PromptTypes
    <3> QED BY <1>0, <2>4, <3>2, <3>3 DEF Drain, PromptTypes
  <2> QED BY <1>2, <1>a, <2>1, <2>2, <2>3, <2>4, PromptsAlone
<1>3. ASSUME NEW s \in Sessions, ServerStep(s) PROVE PromptTypes'
  <2>1. CASE AskHostKey(s)
    <3>1. HostKey(s) \in Dialog
      BY BoundsAssumption DEF HostKey, Dialog
    <3>2. modals' \in Seq(Dialog)
      BY <1>0, <2>1, <3>1 DEF AskHostKey, PromptTypes
    <3> QED BY <1>0, <2>1, <3>2 DEF AskHostKey, PromptTypes
  <2>2. CASE AskKbd(s)
    <3>1. round[s] + 1 \in 0..MaxRounds
      BY <1>0, <2>2, BoundsAssumption DEF AskKbd, PromptTypes
    <3>2. KbdRound(s, round[s] + 1) \in Dialog
      BY <3>1 DEF KbdRound, Dialog
    <3>3. modals' \in Seq(Dialog)
      BY <1>0, <2>2, <3>2 DEF AskKbd, PromptTypes
    <3>4. round' \in [Sessions -> 0..MaxRounds] /\ kbdRx' \in [Sessions -> 0..MaxRounds]
      BY <1>0, <2>2, <3>1, BoundsAssumption DEF AskKbd, PromptTypes
    <3> QED BY <1>0, <2>2, <3>3, <3>4 DEF AskKbd, PromptTypes
  <2> QED BY <1>3, <1>a, <2>1, <2>2, PromptsAlone
<1>4. CASE UserStep
  <2>0. modals # << >> /\ modals \in Seq(Dialog)
    BY <1>0, <1>4 DEF UserStep, HostKeyDecision, KbdAnswer, PromptTypes
  <2>1. Head(modals) \in Dialog /\ Tail(modals) \in Seq(Dialog)
    BY <2>0
  <2>2. Head(modals).session \in Sessions /\ Head(modals).round \in 0..MaxRounds
    BY <2>1 DEF Dialog
  <2>3. ASSUME NEW answer \in {"accept", "reject"}, HostKeyDecision(answer)
        PROVE  PromptTypes'
    BY <1>0, <2>1, <2>2, <2>3 DEF HostKeyDecision, PromptTypes
  <2>4. CASE KbdAnswer
    BY <1>0, <2>1, <2>2, <2>4 DEF KbdAnswer, PromptTypes
  <2> QED BY <1>4, <2>3, <2>4 DEF UserStep
<1>5. CASE DisconnectAll \/ Exit \/ Rest \/ UNCHANGED vars
  BY <1>a, <1>5 DEF DisconnectAll, Exit, Rest, vars
<1> QED BY <1>1, <1>2, <1>3, <1>4, <1>5 DEF Next

(* Every step keeps the registry, the stores and the events well formed. *)
LEMMA StoreTypesStep == TypeOK /\ OutcomeKnown /\ [Next]_vars => StoreTypes'
<1> SUFFICES ASSUME TypeOK, OutcomeKnown, [Next]_vars PROVE StoreTypes'
  OBVIOUS
<1> DEFINE Quiet == /\ optedIn' = optedIn /\ events' = events
                    /\ registry' = registry /\ UNCHANGED storeVars
<1>0. StoreTypes
  BY DEF TypeOK, StoreTypes
<1>a. ASSUME Quiet PROVE StoreTypes'
  BY <1>0, <1>a DEF StoreTypes, storeVars
<1>1. ASSUME NEW s \in Sessions, Request(s) PROVE StoreTypes'
  <2>1. CASE Connect(s)
    BY <1>0, <2>1, EmitTyped DEF Connect, StoreTypes, storeVars
  <2>2. CASE Input(s) \/ Resize(s) \/ Disconnect(s)
    BY <1>a, <2>2 DEF Input, Resize, Disconnect, mainVars
  <2> QED BY <1>1, <2>1, <2>2 DEF Request
<1>2. ASSUME NEW s \in Sessions, CallStep(s) PROVE StoreTypes'
  BY <1>0, <1>2 DEF CallStep, QueueSave, QueueRecent, StoreTypes
<1>3. ASSUME NEW s \in Sessions, TaskStep(s) PROVE StoreTypes'
  <2>1. CASE SaveSecret(s) \/ RecordRecent(s)
    BY <1>0, <2>1 DEF SaveSecret, RecordRecent, StoreTypes, mainVars
  <2>2. CASE Announce(s)
    BY <1>0, <2>2, EmitTyped DEF Announce, StoreTypes, mainVars, storeVars
  <2>3. CASE Fail(s)
    BY <1>0, <2>3, EmitTyped DEF Fail, StoreTypes, mainVars, storeVars
  <2>4. CASE Take(s) \/ DropSave(s) \/ DropRecent(s)
    BY <1>0, <2>4 DEF Take, DropSave, DropRecent, StoreTypes, mainVars, storeVars
  <2>5. CASE Drain(s)
    <3>1. outcome[s] \in {"closed", "error"}
      BY <2>5 DEF OutcomeKnown, TypeOK, Drain, Goto
    <3> QED BY <1>0, <2>5, <3>1, EmitTyped DEF Drain, StoreTypes, mainVars, storeVars
  <2>6. CASE TcpConnected(s) \/ TcpFailed(s) \/ HostKeyTimedOut(s)
    BY <1>a, <2>6 DEF TcpConnected, TcpFailed, HostKeyTimedOut, OnlyTask, mainVars
  <2>7. CASE HostKeyAnswered(s) \/ HostKeyVerdict(s) \/ KbdAnswered(s) \/ TakeCommand(s)
    BY <1>a, <2>7 DEF HostKeyAnswered, HostKeyVerdict, KbdAnswered, TakeCommand, mainVars
  <2> QED BY <1>3, <2>1, <2>2, <2>3, <2>4, <2>5, <2>6, <2>7 DEF TaskStep
<1>4. ASSUME NEW s \in Sessions, ServerStep(s) PROVE StoreTypes'
  BY <1>a, <1>4 DEF ServerStep, KeyMatches, KexFailed, AskHostKey, PrimaryOk, PrimaryFailed,
       AuthError, KbdSuccess, KbdFailed, AskKbd, ShellOpened, ShellFailed, Sent, SendFailed,
       Leave, OnlyTask, mainVars
<1>5. ASSUME NEW s \in Sessions, ChannelClosed(s) PROVE StoreTypes'
  BY <1>a, <1>5 DEF ChannelClosed, OnlyTask, mainVars
<1>6. CASE UserStep \/ DisconnectAll \/ Exit \/ Rest \/ UNCHANGED vars
  BY <1>a, <1>6 DEF UserStep, HostKeyDecision, KbdAnswer, DisconnectAll, Exit, Rest, vars,
                    mainVars
<1> QED BY <1>1, <1>2, <1>3, <1>4, <1>5, <1>6 DEF Next

(* Only fail and the end of run_session lead into cleanup, with an outcome. *)
LEMMA OutcomeStep == TypeOK /\ OutcomeKnown /\ [Next]_vars => OutcomeKnown'
<1> SUFFICES ASSUME TypeOK, OutcomeKnown, [Next]_vars PROVE OutcomeKnown'
  OBVIOUS
<1> DEFINE Cleaning == {"taking", "dropSave", "dropRecent", "draining"}
<1>0. /\ task \in [Sessions -> Before \cup AfterLogin \cup Ending]
      /\ outcome \in [Sessions -> {"none", "closed", "error"}]
  BY DEF TypeOK
<1>a. ASSUME NEW s \in Sessions, outcome' = outcome,
             \/ task' = task
             \/ \E to : /\ task' = [task EXCEPT ![s] = to]
                        /\ to \in Cleaning => task[s] \in Cleaning
      PROVE  OutcomeKnown'
  BY <1>0, <1>a DEF OutcomeKnown
<1>b. ASSUME NEW s \in Sessions, NEW what \in {"closed", "error"}, NEW to,
             outcome' = [outcome EXCEPT ![s] = what], task' = [task EXCEPT ![s] = to]
      PROVE  OutcomeKnown'
  BY <1>0, <1>b DEF OutcomeKnown
<1>1. ASSUME NEW s \in Sessions, Request(s) \/ CallStep(s) \/ ChannelClosed(s)
      PROVE  OutcomeKnown'
  <2>0. CASE Connect(s)
    BY <1>0, <2>0 DEF OutcomeKnown, Connect
  <2>1. CASE Input(s) \/ Resize(s) \/ Disconnect(s) \/ CallStep(s)
    <3>1. task' = task /\ outcome' = outcome
      BY <2>1 DEF Input, Resize, Disconnect, CallStep, QueueSave, QueueRecent
    <3> QED BY <1>a, <3>1
  <2>2. CASE ChannelClosed(s)
    BY <1>0, <2>2 DEF OutcomeKnown, ChannelClosed, OnlyTask, Goto
  <2> QED BY <1>1, <2>0, <2>1, <2>2 DEF Request
<1>2. ASSUME NEW s \in Sessions, TaskStep(s) PROVE OutcomeKnown'
  <2>1. CASE TcpConnected(s) \/ TcpFailed(s) \/ HostKeyTimedOut(s)
    BY <1>a, <2>1 DEF TcpConnected, TcpFailed, HostKeyTimedOut, OnlyTask, Goto
  <2>2. CASE HostKeyAnswered(s) \/ HostKeyVerdict(s) \/ KbdAnswered(s)
    BY <1>a, <2>2 DEF HostKeyAnswered, HostKeyVerdict, KbdAnswered, Goto
  <2>3. CASE SaveSecret(s) \/ RecordRecent(s) \/ Announce(s) \/ TakeCommand(s)
    BY <1>a, <2>3 DEF SaveSecret, RecordRecent, Announce, TakeCommand, Goto
  <2>4. CASE Fail(s)
    BY <1>b, <2>4 DEF Fail, Goto
  <2>5. CASE Take(s) \/ DropSave(s) \/ DropRecent(s) \/ Drain(s)
    BY <1>a, <2>5 DEF Take, DropSave, DropRecent, Drain, Goto
  <2> QED BY <1>2, <2>1, <2>2, <2>3, <2>4, <2>5 DEF TaskStep
<1>3. ASSUME NEW s \in Sessions, ServerStep(s) PROVE OutcomeKnown'
  <2>1. CASE Leave(s)
    BY <1>b, <2>1 DEF Leave, Goto
  <2>2. CASE AskHostKey(s) \/ AskKbd(s)
    BY <1>a, <2>2 DEF AskHostKey, AskKbd, Goto
  <2>3. CASE Sent(s)
    BY <1>0, <2>3 DEF OutcomeKnown, Sent, Goto
  <2>4. CASE SendFailed(s)
    BY <1>0, <2>4 DEF OutcomeKnown, SendFailed, Goto
  <2>5. CASE KeyMatches(s) \/ KexFailed(s) \/ PrimaryOk(s) \/ PrimaryFailed(s) \/ AuthError(s)
    BY <1>a, <2>5 DEF KeyMatches, KexFailed, PrimaryOk, PrimaryFailed, AuthError, OnlyTask, Goto
  <2>6. CASE KbdSuccess(s) \/ KbdFailed(s) \/ ShellOpened(s) \/ ShellFailed(s)
    BY <1>a, <2>6 DEF KbdSuccess, KbdFailed, ShellOpened, ShellFailed, OnlyTask, Goto
  <2> QED BY <1>3, <2>1, <2>2, <2>3, <2>4, <2>5, <2>6 DEF ServerStep
<1>4. CASE UserStep \/ DisconnectAll \/ Exit \/ Rest \/ UNCHANGED vars
  <2>1. UNCHANGED <<task, outcome>>
    BY <1>4 DEF UserStep, HostKeyDecision, KbdAnswer, DisconnectAll, Exit, Rest, vars
  <2> QED BY <2>1 DEF OutcomeKnown
<1> QED BY <1>1, <1>2, <1>3, <1>4 DEF Next

(* Every variable keeps its type, whatever the commands and the tasks do. *)
THEOREM TypeCorrect == Spec => []TypeOK
<1>1. Init => TypeOK /\ OutcomeKnown
  <2>1. ASSUME Init PROVE TaskTypes /\ QueueTypes /\ PromptTypes /\ StoreTypes /\ OutcomeKnown
    BY <2>1, BoundsAssumption DEF Init, TaskTypes, QueueTypes, PromptTypes, StoreTypes,
         OutcomeKnown, NoCommand, Cmd, Before
  <2> QED BY <2>1 DEF TypeOK, TaskTypes, QueueTypes, PromptTypes, StoreTypes
<1>2. TypeOK /\ OutcomeKnown /\ [Next]_vars => TypeOK'
  BY TaskTypesStep, QueueTypesStep, PromptTypesStep, StoreTypesStep
     DEF TypeOK, TaskTypes, QueueTypes, PromptTypes, StoreTypes
<1> QED BY <1>1, <1>2, OutcomeStep, PTL DEF Spec

------------------------------------------------------------------------------
(* The inductive invariant of the lifecycle. The properties say what the       *)
(* renderer and the stores may see; what makes them inductive is that the task *)
(* of a session alone decides which events are out, whether the session is     *)
(* registered, and whether anything of it can have been stored.                *)

Silent  == (Before \ {"idle"}) \cup {"saving", "recording", "announcing"}
Pumping == {"loop", "sending", "leaving"}
Closing == {"taking", "dropSave", "dropRecent", "draining"}

Told(s) ==
    /\ task[s] = "idle" => events[s] = << >>
    /\ task[s] \in Silent => events[s] = Contract!Opening
    /\ task[s] \in Pumping => events[s] = Contract!Up
    /\ task[s] \in Closing /\ outcome[s] = "closed" => events[s] = Contract!Up
    /\ task[s] \in Closing /\ outcome[s] = "error" => events[s] = Contract!Broken
    /\ task[s] \in Closing => outcome[s] # "none"

Registered(s) ==
    s \in registry <=> task[s] \in (Before \ {"idle"}) \cup AfterLogin \cup {"taking"}

Stored(s) ==
    /\ s \in saved \cup recorded => task[s] \in AfterLogin \cup Ending
    /\ s \in saved \cup pendingSaves => s \in optedIn

Lifecycle ==
    \A s \in Sessions :
        /\ call[s] = "none" => task[s] = "idle"
        /\ Told(s)
        /\ Registered(s)
        /\ Stored(s)

(* Before the first ssh_connect nothing is told, registered or stored. *)
LEMMA LifecycleInit == Init => Lifecycle
  BY DEF Init, Lifecycle, Told, Registered, Stored, Silent, Pumping, Closing, Before,
         AfterLogin, Ending

(* A sequence of one element, extended. *)
LEMMA AppendToOne ==
    ASSUME NEW a, NEW b
    PROVE  Append(<<a>>, b) = <<a, b>>
<1> DEFINE S == {a, b}
<1>1. Append(<<a>>, b) \in Seq(S) /\ <<a, b>> \in Seq(S)
  OBVIOUS
<1>2. Len(Append(<<a>>, b)) = Len(<<a, b>>)
  OBVIOUS
<1>3. \A i \in 1..Len(Append(<<a>>, b)) : Append(<<a>>, b)[i] = <<a, b>>[i]
  OBVIOUS
<1> QED BY <1>1, <1>2, <1>3, SeqEqual, Zenon

(* The stories a session's events can tell, one word at a time. *)
LEMMA Words ==
    /\ Append(<< >>, "connecting") = Contract!Opening
    /\ Append(Contract!Opening, "ready") = Contract!Up
    /\ Append(Contract!Opening, "message") = Contract!Broken
<1>1. Append(<< >>, "connecting") = <<"connecting">>
  OBVIOUS
<1>2. Append(<<"connecting">>, "ready") = <<"connecting", "ready">>
  BY AppendToOne
<1>3. Append(<<"connecting">>, "message") = <<"connecting", "message">>
  BY AppendToOne
<1> QED BY <1>1, <1>2, <1>3 DEF Contract!Opening, Contract!Up, Contract!Broken

(* Every command and every step of a task keeps the events told, the registry
   and the stores in line with where the task is. *)
LEMMA LifecycleStep ==
    ASSUME TypeOK, Lifecycle, [Next]_vars
    PROVE  Lifecycle'
<1> DEFINE Holds(r) == /\ call[r] = "none" => task[r] = "idle"
                       /\ Told(r)
                       /\ Registered(r)
                       /\ Stored(r)
<1> SUFFICES ASSUME NEW r \in Sessions PROVE Holds(r)'
  BY DEF Lifecycle
<1>a. /\ call \in [Sessions -> {"none", "connected", "saved", "returned"}]
      /\ task \in [Sessions -> Before \cup AfterLogin \cup Ending]
      /\ outcome \in [Sessions -> {"none", "closed", "error"}]
      /\ events \in [Sessions -> Seq({"connecting", "ready", "message", "error", "closed"})]
  BY DEF TypeOK
<1>b. \A s \in Sessions : Holds(s)
  BY DEF Lifecycle
<1> USE <1>a, <1>b DEF Told, Registered, Stored, Silent, Pumping, Closing,
        Before, AfterLogin, Ending, mainVars, queueVars, promptVars, storeVars, Goto, Emit
<1>1. ASSUME NEW s \in Sessions, Request(s) PROVE Holds(r)'
  <2>1. CASE Connect(s)
    BY <2>1, Words DEF Connect
  <2>2. CASE Input(s) \/ Resize(s) \/ Disconnect(s)
    BY <2>2 DEF Input, Resize, Disconnect
  <2> QED BY <1>1, <2>1, <2>2 DEF Request
<1>2. ASSUME NEW s \in Sessions, CallStep(s) PROVE Holds(r)'
  BY <1>2 DEF CallStep, QueueSave, QueueRecent
<1>3. ASSUME NEW s \in Sessions, TaskStep(s) PROVE Holds(r)'
  <2>1. CASE TcpConnected(s) \/ TcpFailed(s)
    <3>1. CASE TcpConnected(s)
      BY <3>1 DEF TcpConnected, OnlyTask
    <3>2. CASE TcpFailed(s)
      BY <3>2 DEF TcpFailed, OnlyTask
    <3> QED BY <2>1, <3>1, <3>2
  <2>2. CASE HostKeyAnswered(s) \/ HostKeyTimedOut(s) \/ HostKeyVerdict(s)
    <3>1. CASE HostKeyAnswered(s)
      BY <3>1 DEF HostKeyAnswered, OnlyTask
    <3>2. CASE HostKeyTimedOut(s)
      BY <3>2 DEF HostKeyTimedOut, OnlyTask
    <3>3. CASE HostKeyVerdict(s)
      BY <3>3 DEF HostKeyVerdict, OnlyTask
    <3> QED BY <2>2, <3>1, <3>2, <3>3
  <2>3. CASE KbdAnswered(s)
    BY <2>3 DEF KbdAnswered
  <2>4. CASE SaveSecret(s) \/ RecordRecent(s)
    BY <2>4 DEF SaveSecret, RecordRecent
  <2>5. CASE Announce(s)
    BY <2>5, Words DEF Announce
  <2>6. CASE TakeCommand(s)
    BY <2>6 DEF TakeCommand
  <2>7. CASE Fail(s)
    <3>1. s \in registry /\ events[s] = Contract!Opening
      BY <2>7 DEF Fail
    <3>2. task' = [task EXCEPT ![s] = "taking"] /\ events' = [events EXCEPT ![s] = Contract!Broken]
      BY <2>7, <3>1, Words DEF Fail
    <3> QED BY <2>7, <3>1, <3>2 DEF Fail
  <2>8. CASE Take(s)
    BY <2>8 DEF Take
  <2>9. CASE DropSave(s) \/ DropRecent(s)
    BY <2>9 DEF DropSave, DropRecent
  <2>10. CASE Drain(s)
    BY <2>10 DEF Drain
  <2> QED BY <1>3, <2>1, <2>2, <2>3, <2>4, <2>5, <2>6, <2>7, <2>8, <2>9, <2>10 DEF TaskStep
<1>4. ASSUME NEW s \in Sessions, ServerStep(s) PROVE Holds(r)'
  <2>1. CASE KeyMatches(s) \/ KexFailed(s) \/ AskHostKey(s)
    <3>1. CASE KeyMatches(s)
      BY <3>1 DEF KeyMatches, OnlyTask
    <3>2. CASE KexFailed(s)
      BY <3>2 DEF KexFailed, OnlyTask
    <3>3. CASE AskHostKey(s)
      BY <3>3 DEF AskHostKey, OnlyTask
    <3> QED BY <2>1, <3>1, <3>2, <3>3
  <2>2. CASE PrimaryOk(s) \/ PrimaryFailed(s) \/ AuthError(s)
    <3>1. CASE PrimaryOk(s)
      BY <3>1 DEF PrimaryOk, OnlyTask
    <3>2. CASE PrimaryFailed(s)
      BY <3>2 DEF PrimaryFailed, OnlyTask
    <3>3. CASE AuthError(s)
      BY <3>3 DEF AuthError, OnlyTask
    <3> QED BY <2>2, <3>1, <3>2, <3>3
  <2>3. CASE KbdSuccess(s) \/ KbdFailed(s) \/ AskKbd(s)
    <3>1. CASE KbdSuccess(s)
      BY <3>1 DEF KbdSuccess, OnlyTask
    <3>2. CASE KbdFailed(s)
      BY <3>2 DEF KbdFailed, OnlyTask
    <3>3. CASE AskKbd(s)
      BY <3>3 DEF AskKbd, OnlyTask
    <3> QED BY <2>3, <3>1, <3>2, <3>3
  <2>4. CASE ShellOpened(s) \/ ShellFailed(s)
    <3>1. CASE ShellOpened(s)
      BY <3>1 DEF ShellOpened, OnlyTask
    <3>2. CASE ShellFailed(s)
      BY <3>2 DEF ShellFailed, OnlyTask
    <3> QED BY <2>4, <3>1, <3>2
  <2>5. CASE Sent(s) \/ SendFailed(s)
    <3>1. CASE Sent(s)
      BY <3>1 DEF Sent
    <3>2. CASE SendFailed(s)
      BY <3>2 DEF SendFailed
    <3> QED BY <2>5, <3>1, <3>2
  <2>6. CASE Leave(s)
    BY <2>6 DEF Leave
  <2> QED BY <1>4, <2>1, <2>2, <2>3, <2>4, <2>5, <2>6 DEF ServerStep
<1>5. ASSUME NEW s \in Sessions, ChannelClosed(s) PROVE Holds(r)'
  BY <1>5 DEF ChannelClosed, OnlyTask
<1>6. CASE UserStep
  BY <1>6 DEF UserStep, HostKeyDecision, KbdAnswer
<1>7. CASE DisconnectAll \/ Exit \/ Rest \/ UNCHANGED vars
  BY <1>7 DEF DisconnectAll, Exit, Rest, vars
<1> QED BY <1>1, <1>2, <1>3, <1>4, <1>5, <1>6, <1>7 DEF Next

(* Where a task of run_session is determines what has been told and stored of
   its session, and whether it is still registered. *)
THEOREM LifecycleHolds == Spec => []Lifecycle
<1>1. Init => Lifecycle
  BY LifecycleInit
<1>2. TypeOK /\ Lifecycle /\ [Next]_vars => Lifecycle'
  BY LifecycleStep
<1> QED BY <1>1, <1>2, TypeCorrect, PTL DEF Spec

(* A secret is stored only for a session that opted in and has logged in. *)
THEOREM SavesAreConsented == Spec => []SavedByConsent
<1>1. TypeOK /\ Lifecycle => SavedByConsent
  BY DEF TypeOK, Lifecycle, Stored, SavedByConsent
<1> QED BY <1>1, TypeCorrect, LifecycleHolds, PTL

(* A session whose task still runs is in the registry, so disconnect finds it. *)
THEOREM RunningIsReachable == Spec => []LiveIsReachable
<1>1. TypeOK /\ Lifecycle => LiveIsReachable
  BY DEF TypeOK, Lifecycle, Registered, LiveIsReachable, Before, AfterLogin, Ending
<1> QED BY <1>1, TypeCorrect, LifecycleHolds, PTL

------------------------------------------------------------------------------
(* Refinement: every step is one of the contract's, or changes nothing it sees. *)

Unseen == UNCHANGED <<events, registry, saved, recorded>>

(* Every step of the backend is a step of the contract, or invisible to it. *)
LEMMA ContractStep ==
    ASSUME TypeOK, Lifecycle, [Next]_vars
    PROVE  [Contract!Next]_(Contract!vars)
<1> USE DEF Unseen, mainVars, queueVars, promptVars, storeVars, Goto, Emit, Contract!Emit
<1>0. SUFFICES ASSUME ~Unseen PROVE Contract!Next
  BY DEF Contract!vars
<1>a. ASSUME NEW s \in Sessions
      PROVE  Told(s) /\ Registered(s) /\ Stored(s) /\ (call[s] = "none" => task[s] = "idle")
  BY DEF Lifecycle
<1>1. ASSUME NEW s \in Sessions, Request(s) PROVE Contract!Next
  <2>1. CASE Connect(s)
    <3>1. Contract!Open(s)
      BY <1>a, <2>1 DEF Connect, Told, Contract!Open
    <3> QED BY <3>1 DEF Contract!Next
  <2>2. CASE Input(s) \/ Resize(s) \/ Disconnect(s)
    BY <1>0, <2>2 DEF Input, Resize, Disconnect
  <2> QED BY <1>1, <2>1, <2>2 DEF Request
<1>2. ASSUME NEW s \in Sessions, CallStep(s) PROVE Contract!Next
  BY <1>0, <1>2 DEF CallStep, QueueSave, QueueRecent
<1>3. ASSUME NEW s \in Sessions, TaskStep(s) PROVE Contract!Next
  <2>1. CASE TcpConnected(s) \/ TcpFailed(s)
    BY <1>0, <2>1 DEF TcpConnected, TcpFailed, OnlyTask
  <2>2. CASE HostKeyAnswered(s) \/ HostKeyTimedOut(s) \/ HostKeyVerdict(s)
    BY <1>0, <2>2 DEF HostKeyAnswered, HostKeyTimedOut, HostKeyVerdict, OnlyTask
  <2>3. CASE KbdAnswered(s) \/ TakeCommand(s)
    BY <1>0, <2>3 DEF KbdAnswered, TakeCommand
  <2>4. CASE SaveSecret(s)
    <3>1. events[s] = Contract!Opening /\ s \in registry
      BY <1>a, <2>4 DEF SaveSecret, Told, Registered, Silent, AfterLogin, Before
    <3>2. saved' = saved \cup {s}
      BY <1>0, <2>4 DEF SaveSecret
    <3>3. Contract!Save(s)
      BY <2>4, <3>1, <3>2 DEF SaveSecret, Contract!Save
    <3> QED BY <3>3 DEF Contract!Next
  <2>5. CASE RecordRecent(s)
    <3>1. events[s] = Contract!Opening /\ s \in registry
      BY <1>a, <2>5 DEF RecordRecent, Told, Registered, Silent, AfterLogin, Before
    <3>2. recorded' = recorded \cup {s}
      BY <1>0, <2>5 DEF RecordRecent
    <3>3. Contract!Record(s)
      BY <2>5, <3>1, <3>2 DEF RecordRecent, Contract!Record
    <3> QED BY <3>3 DEF Contract!Next
  <2>6. CASE Announce(s)
    <3>1. events[s] = Contract!Opening /\ s \in registry
      BY <1>a, <2>6 DEF Announce, Told, Registered, Silent, AfterLogin, Before
    <3>2. Contract!Ready(s)
      BY <2>6, <3>1 DEF Announce, Contract!Ready
    <3> QED BY <3>2 DEF Contract!Next
  <2>7. CASE Fail(s)
    <3>1. events[s] = Contract!Opening /\ s \in registry /\ s \notin saved \cup recorded
      BY <1>a, <2>7 DEF Fail, Told, Registered, Stored, Silent, AfterLogin, Before, Ending
    <3>2. Contract!Report(s)
      BY <2>7, <3>1 DEF Fail, Contract!Report
    <3> QED BY <3>2 DEF Contract!Next
  <2>8. CASE Take(s)
    <3>1. task[s] = "taking" /\ outcome[s] \in {"closed", "error"} /\ s \in registry
      BY <1>a, <2>8 DEF Take, Told, Registered, Closing, TypeOK
    <3>2. events[s] \in {Contract!Up, Contract!Broken}
      BY <1>a, <3>1 DEF Told, Closing
    <3>3. Contract!Forget(s)
      BY <2>8, <3>1, <3>2 DEF Take, Contract!Forget
    <3> QED BY <3>3 DEF Contract!Next
  <2>9. CASE DropSave(s) \/ DropRecent(s)
    BY <1>0, <2>9 DEF DropSave, DropRecent
  <2>10. CASE Drain(s)
    <3>1. task[s] = "draining" /\ outcome[s] \in {"closed", "error"}
      BY <1>a, <2>10 DEF Drain, Told, Closing, TypeOK
    <3>2. s \notin registry
      BY <1>a, <3>1 DEF Registered, Before, AfterLogin
    <3>3. \/ events[s] = Contract!Up /\ outcome[s] = "closed"
          \/ events[s] = Contract!Broken /\ outcome[s] = "error"
      BY <1>a, <3>1 DEF Told, Closing
    <3>4. Contract!Finish(s)
      BY <2>10, <3>2, <3>3 DEF Drain, Contract!Finish
    <3> QED BY <3>4 DEF Contract!Next
  <2> QED BY <1>3, <2>1, <2>2, <2>3, <2>4, <2>5, <2>6, <2>7, <2>8, <2>9, <2>10 DEF TaskStep
<1>4. ASSUME NEW s \in Sessions, ServerStep(s) PROVE Contract!Next
  <2>1. CASE KeyMatches(s) \/ KexFailed(s) \/ AskHostKey(s)
    BY <1>0, <2>1 DEF KeyMatches, KexFailed, AskHostKey, OnlyTask
  <2>2. CASE PrimaryOk(s) \/ PrimaryFailed(s) \/ AuthError(s)
    BY <1>0, <2>2 DEF PrimaryOk, PrimaryFailed, AuthError, OnlyTask
  <2>3. CASE KbdSuccess(s) \/ KbdFailed(s) \/ AskKbd(s)
    BY <1>0, <2>3 DEF KbdSuccess, KbdFailed, AskKbd, OnlyTask
  <2>4. CASE ShellOpened(s) \/ ShellFailed(s)
    BY <1>0, <2>4 DEF ShellOpened, ShellFailed, OnlyTask
  <2>5. CASE Sent(s) \/ SendFailed(s) \/ Leave(s)
    BY <1>0, <2>5 DEF Sent, SendFailed, Leave
  <2> QED BY <1>4, <2>1, <2>2, <2>3, <2>4, <2>5 DEF ServerStep
<1>5. ASSUME NEW s \in Sessions, ChannelClosed(s) PROVE Contract!Next
  BY <1>0, <1>5 DEF ChannelClosed, OnlyTask
<1>6. CASE UserStep
  BY <1>0, <1>6 DEF UserStep, HostKeyDecision, KbdAnswer
<1>7. CASE DisconnectAll \/ Exit \/ Rest \/ UNCHANGED vars
  BY <1>0, <1>7 DEF DisconnectAll, Exit, Rest, vars
<1> QED BY <1>1, <1>2, <1>3, <1>4, <1>5, <1>6, <1>7 DEF Next

(* The backend implements the contract it has with the renderer. *)
THEOREM ContractImplemented == Spec => ContractKept
<1>1. Init => Contract!Init
  BY DEF Init, Contract!Init
<1>2. TypeOK /\ Lifecycle /\ [Next]_vars => [Contract!Next]_(Contract!vars)
  BY ContractStep
<1> QED BY <1>1, <1>2, TypeCorrect, LifecycleHolds, PTL DEF Spec, ContractKept, Contract!Spec

------------------------------------------------------------------------------
(* The prompts. *)


IsRound(i) == modals[i].kind = "kbd"

(* A keyboard-interactive dialog in the chain belongs to the prompt its session
   is waiting on now, and no session has two: this is what a timeout on that
   prompt would break. *)
DialogsCurrent ==
    \A i \in 1..Len(modals) : IsRound(i) =>
        /\ task[modals[i].session] = "ask"
        /\ kbdRx[modals[i].session] = 0
        /\ modals[i].round = round[modals[i].session]
        /\ \A j \in 1..Len(modals) :
              IsRound(j) /\ modals[j].session = modals[i].session => j = i

Waiting(s) ==
    /\ s \in hostKeyTx => task[s] \in {"hostkey", "trusting", "refusing"}
    /\ s \in kbdTx => task[s] = "ask"
    /\ task[s] = "ask" => round[s] > 0
    /\ kbdRx[s] # 0 => task[s] = "ask" /\ kbdRx[s] = round[s]
    /\ task[s] = "hostkey" /\ hostKeyRx[s] = "empty" =>
         /\ s \in hostKeyTx
         /\ \E i \in 1..Len(modals) : modals[i] = HostKey(s)
    /\ task[s] = "ask" /\ kbdRx[s] = 0 =>
         /\ s \in kbdTx
         /\ \E i \in 1..Len(modals) : modals[i] = KbdRound(s, round[s])

PromptInv == DialogsCurrent /\ \A s \in Sessions : Waiting(s)

------------------------------------------------------------------------------

(* The keystrokes that are through or in hand. *)
Through(s) == Len(shell[s]) + IF hand[s].op = "write" THEN 1 ELSE 0

InHand(s) ==
    /\ task[s] # "sending" => hand[s] = NoCommand
    /\ hand[s].op = "write" => hand[s].key = Len(shell[s]) + 1

(* Until the session leaves its loop, the inbox holds exactly the keystrokes
   typed and not yet taken, in order. *)
Owed(s) ==
    \A i \in 1..Len(inbox[s]) :
        inbox[s][i].op = "write" => Through(s) < inbox[s][i].key /\ inbox[s][i].key <= typed[s]

Ordered(s) ==
    \A i \in 1..Len(inbox[s]) : \A j \in 1..Len(inbox[s]) :
        i < j /\ inbox[s][i].op = "write" /\ inbox[s][j].op = "write"
            => inbox[s][i].key < inbox[s][j].key

Complete(s) ==
    \A k \in 1..typed[s] : Through(s) < k =>
        \E i \in 1..Len(inbox[s]) : inbox[s][i].op = "write" /\ inbox[s][i].key = k

Queued(s) == Through(s) <= typed[s] /\ Owed(s) /\ Ordered(s) /\ Complete(s)

Keys(s) ==
    /\ InHand(s)
    /\ \A i \in 1..Len(shell[s]) : shell[s][i] = i
    /\ task[s] \notin {"leaving"} \cup Ending => Queued(s)

KeyInv == \A s \in Sessions : Keys(s)

------------------------------------------------------------------------------
(* No prompt is open before the first ssh_connect. *)
LEMMA PromptInit == Init => PromptInv
  BY DEF Init, PromptInv, DialogsCurrent, Waiting

(* A session whose dialog is not in the chain may move on. *)
LEMMA DialogsFrame ==
    ASSUME TypeOK, DialogsCurrent, NEW s \in Sessions, task[s] # "ask" \/ kbdRx[s] # 0,
           \A r \in Sessions \ {s} : task'[r] = task[r] /\ kbdRx'[r] = kbdRx[r],
           modals' = modals, round' = round
    PROVE  DialogsCurrent'
<1>1. \A i \in 1..Len(modals) : modals[i] \in Dialog
  BY DEF TypeOK
<1>2. \A i \in 1..Len(modals) :
         IsRound(i) => modals[i].session \in Sessions \ {s}
  BY <1>1 DEF DialogsCurrent, Dialog
<1> QED BY <1>2 DEF DialogsCurrent, IsRound

(* A step that leaves prompts alone, and moves a task neither into nor out of
   the two places where it waits for the user, preserves the invariant. *)
LEMMA PromptFrame ==
    ASSUME TypeOK, PromptInv, NEW s \in Sessions, NEW to,
           task[s] \notin {"hostkey", "trusting", "refusing", "ask"}, to \notin {"hostkey", "ask"},
           task' = [task EXCEPT ![s] = to], UNCHANGED promptVars
    PROVE  PromptInv'
<1>1. /\ task \in [Sessions -> Before \cup AfterLogin \cup Ending]
      /\ modals \in Seq(Dialog)
  BY DEF TypeOK
<1>2. DialogsCurrent'
  BY <1>1 DEF PromptInv, DialogsCurrent, IsRound, Dialog, promptVars
<1>3. ASSUME NEW r \in Sessions PROVE Waiting(r)'
  BY <1>1 DEF PromptInv, Waiting, promptVars, HostKey, KbdRound
<1> QED BY <1>2, <1>3 DEF PromptInv

(* Every command and every step of a task keeps senders, answers and dialogs
   in line with the prompt each task waits on. *)
LEMMA PromptStep ==
    ASSUME TypeOK, Lifecycle, PromptInv, [Next]_vars
    PROVE  PromptInv'
<1> USE DEF mainVars, queueVars, storeVars, Goto
<1>a. /\ task \in [Sessions -> Before \cup AfterLogin \cup Ending]
      /\ modals \in Seq(Dialog)
      /\ hostKeyRx \in [Sessions -> {"empty", "accept", "reject"}]
      /\ kbdRx \in [Sessions -> 0..MaxRounds]
      /\ round \in [Sessions -> 0..MaxRounds]
      /\ MaxRounds \in Nat
  BY BoundsAssumption DEF TypeOK
<1>b. \A i \in 1..Len(modals) : modals[i] \in Dialog
  BY <1>a
<1>1. ASSUME NEW s \in Sessions, Request(s) PROVE PromptInv'
  <2>1. CASE Connect(s)
    <3>1. task[s] = "idle"
      BY <2>1 DEF Connect, Lifecycle
    <3> QED BY <2>1, <3>1, PromptFrame DEF Connect
  <2>2. CASE Input(s) \/ Resize(s) \/ Disconnect(s)
    BY <2>2 DEF Input, Resize, Disconnect, promptVars, PromptInv, DialogsCurrent, Waiting,
                IsRound
  <2> QED BY <1>1, <2>1, <2>2 DEF Request
<1>2. ASSUME NEW s \in Sessions, CallStep(s) PROVE PromptInv'
  BY <1>2 DEF CallStep, QueueSave, QueueRecent, promptVars, PromptInv, DialogsCurrent,
              Waiting, IsRound
<1>3. ASSUME NEW s \in Sessions, TcpConnected(s) \/ TcpFailed(s) PROVE PromptInv'
  BY <1>3, PromptFrame DEF TcpConnected, TcpFailed, OnlyTask
<1>4. ASSUME NEW s \in Sessions, HostKeyAnswered(s) PROVE PromptInv'
  <2>1. DialogsCurrent'
    BY <1>4, <1>a, DialogsFrame DEF HostKeyAnswered, PromptInv
  <2>2. ASSUME NEW r \in Sessions PROVE Waiting(r)'
    <3>1. CASE r = s
      BY <1>4, <1>a, <3>1 DEF HostKeyAnswered, PromptInv, Waiting
    <3>2. CASE r # s
      BY <1>4, <1>a, <3>2 DEF HostKeyAnswered, PromptInv, Waiting
    <3> QED BY <3>1, <3>2
  <2> QED BY <2>1, <2>2 DEF PromptInv
<1>5. ASSUME NEW s \in Sessions, HostKeyTimedOut(s) PROVE PromptInv'
  <2>1. DialogsCurrent'
    BY <1>5, <1>a, DialogsFrame DEF HostKeyTimedOut, OnlyTask, promptVars, PromptInv
  <2>2. ASSUME NEW r \in Sessions PROVE Waiting(r)'
    <3>1. CASE r = s
      BY <1>5, <1>a, <3>1 DEF HostKeyTimedOut, OnlyTask, promptVars, PromptInv, Waiting
    <3>2. CASE r # s
      BY <1>5, <1>a, <3>2 DEF HostKeyTimedOut, OnlyTask, promptVars, PromptInv, Waiting,
                              HostKey, KbdRound
    <3> QED BY <3>1, <3>2
  <2> QED BY <2>1, <2>2 DEF PromptInv
<1>6. ASSUME NEW s \in Sessions, HostKeyVerdict(s) PROVE PromptInv'
  <2>1. DialogsCurrent'
    BY <1>6, <1>a, DialogsFrame DEF HostKeyVerdict, PromptInv
  <2>2. ASSUME NEW r \in Sessions PROVE Waiting(r)'
    <3>1. CASE r = s
      BY <1>6, <1>a, <3>1 DEF HostKeyVerdict, PromptInv, Waiting
    <3>2. CASE r # s
      BY <1>6, <1>a, <3>2 DEF HostKeyVerdict, PromptInv, Waiting, HostKey, KbdRound
    <3> QED BY <3>1, <3>2
  <2> QED BY <2>1, <2>2 DEF PromptInv
<1>7. ASSUME NEW s \in Sessions, KbdAnswered(s) PROVE PromptInv'
  <2>1. DialogsCurrent'
    BY <1>7, <1>a, DialogsFrame DEF KbdAnswered, PromptInv
  <2>2. ASSUME NEW r \in Sessions PROVE Waiting(r)'
    <3>1. CASE r = s
      BY <1>7, <1>a, <3>1 DEF KbdAnswered, PromptInv, Waiting
    <3>2. CASE r # s
      BY <1>7, <1>a, <3>2 DEF KbdAnswered, PromptInv, Waiting, HostKey, KbdRound
    <3> QED BY <3>1, <3>2
  <2> QED BY <2>1, <2>2 DEF PromptInv
<1>8. ASSUME NEW s \in Sessions, SaveSecret(s) \/ RecordRecent(s) \/ Announce(s)
      PROVE  PromptInv'
  BY <1>8, PromptFrame DEF SaveSecret, RecordRecent, Announce
<1>9. ASSUME NEW s \in Sessions, TakeCommand(s) \/ Sent(s) \/ SendFailed(s) PROVE PromptInv'
  <2>1. CASE TakeCommand(s)
    BY <2>1, PromptFrame DEF TakeCommand
  <2>2. CASE Sent(s)
    BY <2>2, PromptFrame DEF Sent
  <2>3. CASE SendFailed(s)
    BY <2>3, PromptFrame DEF SendFailed
  <2> QED BY <1>9, <2>1, <2>2, <2>3
<1>10. ASSUME NEW s \in Sessions, Leave(s) \/ Fail(s) \/ Take(s) PROVE PromptInv'
  <2>1. CASE Leave(s)
    BY <2>1, PromptFrame DEF Leave
  <2>2. CASE Fail(s)
    BY <2>2, PromptFrame DEF Fail
  <2>3. CASE Take(s)
    BY <2>3, PromptFrame DEF Take
  <2> QED BY <1>10, <2>1, <2>2, <2>3
<1>11. ASSUME NEW s \in Sessions, DropSave(s) \/ DropRecent(s) PROVE PromptInv'
  BY <1>11, PromptFrame DEF DropSave, DropRecent
<1>12. ASSUME NEW s \in Sessions, Drain(s) PROVE PromptInv'
  <2>1. s \notin hostKeyTx \cup kbdTx
    BY <1>12 DEF Drain, PromptInv, Waiting
  <2>2. UNCHANGED promptVars
    BY <1>12, <2>1 DEF Drain, promptVars
  <2> QED BY <1>12, <2>2, PromptFrame DEF Drain
<1>13. ASSUME NEW s \in Sessions, KeyMatches(s) \/ KexFailed(s) PROVE PromptInv'
  BY <1>13, PromptFrame DEF KeyMatches, KexFailed, OnlyTask
<1>14. ASSUME NEW s \in Sessions, AskHostKey(s) PROVE PromptInv'
  <2>1. /\ Len(modals') = Len(modals) + 1
        /\ modals'[Len(modals) + 1] = HostKey(s)
        /\ \A i \in 1..Len(modals) : modals'[i] = modals[i]
    BY <1>14, <1>a DEF AskHostKey, HostKey, Dialog
  <2>2. DialogsCurrent'
    <3>1. UNCHANGED <<kbdRx, round>>
      BY <1>14 DEF AskHostKey
    <3>2. ASSUME NEW i \in 1..Len(modals'), IsRound(i)'
          PROVE  i \in 1..Len(modals) /\ modals'[i] = modals[i] /\ IsRound(i)
      <4>1. i # Len(modals) + 1
        BY <2>1, <3>2 DEF IsRound, HostKey
      <4>2. i \in 1..Len(modals)
        BY <1>a, <2>1, <4>1
      <4> QED BY <2>1, <3>2, <4>2 DEF IsRound
    <3>3. \A r \in Sessions : task[r] = "ask" => task'[r] = "ask"
      BY <1>14, <1>a DEF AskHostKey
    <3>4. \A i \in 1..Len(modals) : modals[i].session \in Sessions
      BY <1>b DEF Dialog
    <3> QED BY <3>1, <3>2, <3>3, <3>4 DEF PromptInv, DialogsCurrent
  <2>3. ASSUME NEW r \in Sessions PROVE Waiting(r)'
    <3>0. Waiting(r) /\ UNCHANGED <<kbdTx, kbdRx, round, hostKeyRx>>
      BY <1>14 DEF AskHostKey, PromptInv
    <3>1. ASSUME NEW d, \E i \in 1..Len(modals) : modals[i] = d
          PROVE  \E i \in 1..Len(modals') : modals'[i] = d
      <4>1. PICK i \in 1..Len(modals) : modals[i] = d
        BY <3>1
      <4>2. i \in 1..Len(modals') /\ modals'[i] = d
        BY <1>a, <2>1, <4>1
      <4> QED BY <4>2
    <3>2. \E i \in 1..Len(modals') : modals'[i] = HostKey(s)
      <4>1. Len(modals) \in Nat
        BY <1>a
      <4>2. Len(modals) + 1 \in 1..Len(modals')
        BY <2>1, <4>1
      <4> QED BY <2>1, <4>2
    <3>3. CASE r = s
      <4>1. task'[s] = "hostkey" /\ s \in hostKeyTx' /\ task[s] = "kex"
        BY <1>14, <1>a DEF AskHostKey
      <4> QED BY <3>0, <3>2, <3>3, <4>1 DEF Waiting
    <3>4. CASE r # s
      <4>1. task'[r] = task[r] /\ (r \in hostKeyTx' <=> r \in hostKeyTx)
        BY <1>14, <1>a, <3>4 DEF AskHostKey
      <4>2. HostKey(r)' = HostKey(r) /\ KbdRound(r, round[r])' = KbdRound(r, round[r])
        BY <3>0 DEF HostKey, KbdRound
      <4> QED BY <3>0, <3>1, <4>1, <4>2 DEF Waiting
    <3> QED BY <3>3, <3>4
  <2> QED BY <2>2, <2>3 DEF PromptInv
<1>15. ASSUME NEW s \in Sessions, PrimaryOk(s) \/ PrimaryFailed(s) \/ AuthError(s)
       PROVE  PromptInv'
  BY <1>15, PromptFrame DEF PrimaryOk, PrimaryFailed, AuthError, OnlyTask
<1>16. ASSUME NEW s \in Sessions, KbdSuccess(s) \/ KbdFailed(s) PROVE PromptInv'
  BY <1>16, PromptFrame DEF KbdSuccess, KbdFailed, OnlyTask
<1>17. ASSUME NEW s \in Sessions, AskKbd(s) PROVE PromptInv'
  <2>1. /\ Len(modals') = Len(modals) + 1
        /\ modals'[Len(modals) + 1] = KbdRound(s, round[s] + 1)
        /\ \A i \in 1..Len(modals) : modals'[i] = modals[i]
    BY <1>17, <1>a DEF AskKbd, KbdRound, Dialog
  <2>2. \A i \in 1..Len(modals) : IsRound(i) => modals[i].session # s
    BY <1>17 DEF AskKbd, PromptInv, DialogsCurrent
  <2>3. DialogsCurrent'
    <3> SUFFICES ASSUME NEW i \in 1..Len(modals'), IsRound(i)'
                 PROVE  /\ task'[modals'[i].session] = "ask"
                        /\ kbdRx'[modals'[i].session] = 0
                        /\ modals'[i].round = round'[modals'[i].session]
                        /\ \A j \in 1..Len(modals') :
                              IsRound(j)' /\ modals'[j].session = modals'[i].session => j = i
      BY DEF DialogsCurrent
    <3>1. CASE i = Len(modals) + 1
      BY <1>17, <1>a, <2>1, <2>2, <3>1 DEF AskKbd, IsRound, KbdRound
    <3>2. CASE i \in 1..Len(modals)
      <4>1. modals[i].session \in Sessions /\ modals[i].session # s /\ modals'[i] = modals[i]
        BY <1>b, <2>1, <2>2, <3>2 DEF Dialog, IsRound
      <4>2. IsRound(i)
        BY <4>1 DEF IsRound
      <4>3. /\ task[modals[i].session] = "ask" /\ kbdRx[modals[i].session] = 0
            /\ modals[i].round = round[modals[i].session]
            /\ \A j \in 1..Len(modals) :
                  IsRound(j) /\ modals[j].session = modals[i].session => j = i
        BY <3>2, <4>2 DEF PromptInv, DialogsCurrent
      <4>4. /\ task'[modals[i].session] = "ask" /\ kbdRx'[modals[i].session] = 0
            /\ round'[modals[i].session] = round[modals[i].session]
        BY <1>17, <1>a, <4>1, <4>3 DEF AskKbd
      <4>5. ASSUME NEW j \in 1..Len(modals'), IsRound(j)',
                   modals'[j].session = modals'[i].session
            PROVE  j = i
        <5>1. j # Len(modals) + 1
          BY <2>1, <4>1, <4>5 DEF KbdRound
        <5>2. j \in 1..Len(modals) /\ modals'[j] = modals[j] /\ IsRound(j)
          BY <1>a, <2>1, <4>5, <5>1 DEF IsRound
        <5> QED BY <4>1, <4>3, <4>5, <5>2
      <4> QED BY <4>1, <4>3, <4>4, <4>5
    <3>3. i = Len(modals) + 1 \/ i \in 1..Len(modals)
      BY <1>a, <2>1
    <3> QED BY <3>1, <3>2, <3>3
  <2>4. ASSUME NEW r \in Sessions PROVE Waiting(r)'
    <3>1. CASE r = s
      <4>1. /\ task[s] = "kbd" /\ task'[s] = "ask" /\ kbdRx'[s] = 0
            /\ s \in kbdTx' /\ hostKeyTx' = hostKeyTx
            /\ round'[s] = round[s] + 1
        BY <1>17, <1>a DEF AskKbd
      <4>2. modals'[Len(modals) + 1] = KbdRound(s, round'[s]) /\ Len(modals) + 1 \in 1..Len(modals')
        BY <1>a, <2>1, <4>1
      <4>3. s \notin hostKeyTx /\ round'[s] > 0
        <5>1. s \notin hostKeyTx
          BY <4>1 DEF PromptInv, Waiting
        <5>2. round[s] \in Nat
          BY <1>a
        <5> QED BY <4>1, <5>1, <5>2
      <4> QED BY <3>1, <4>1, <4>2, <4>3 DEF Waiting
    <3>2. CASE r # s
      BY <1>17, <1>a, <2>1, <3>2 DEF AskKbd, PromptInv, Waiting
    <3> QED BY <3>1, <3>2
  <2> QED BY <2>3, <2>4 DEF PromptInv
<1>18. ASSUME NEW s \in Sessions, ShellOpened(s) \/ ShellFailed(s) \/ ChannelClosed(s)
       PROVE  PromptInv'
  BY <1>18, PromptFrame DEF ShellOpened, ShellFailed, ChannelClosed, OnlyTask
<1>c. ASSUME modals # << >>, modals' = Tail(modals)
      PROVE  /\ Len(modals') = Len(modals) - 1
             /\ \A i \in 1..Len(modals') : modals'[i] = modals[i + 1]
             /\ Head(modals) = modals[1] /\ Len(modals) \in Nat \ {0}
  BY <1>a, <1>c
<1>19. ASSUME NEW answer \in {"accept", "reject"}, HostKeyDecision(answer) PROVE PromptInv'
  <2> DEFINE s == Head(modals).session
  <2>1. /\ Len(modals') = Len(modals) - 1
        /\ \A i \in 1..Len(modals') : modals'[i] = modals[i + 1]
        /\ Head(modals) = modals[1] /\ Len(modals) \in Nat \ {0}
    BY <1>c, <1>19 DEF HostKeyDecision
  <2>2. s \in Sessions /\ modals[1].kind = "hostkey" /\ modals[1].session = s
    BY <1>19, <1>b, <2>1 DEF HostKeyDecision, Dialog
  <2>3. DialogsCurrent'
    BY <1>19, <1>b, <2>1 DEF HostKeyDecision, PromptInv, DialogsCurrent, IsRound, Dialog
  <2>4. ASSUME NEW r \in Sessions PROVE Waiting(r)'
    <3>1. ASSUME NEW d \in {HostKey(r), KbdRound(r, round[r])}, d # modals[1],
                 \E i \in 1..Len(modals) : modals[i] = d
          PROVE  \E i \in 1..Len(modals') : modals'[i] = d
      <4>1. PICK i \in 1..Len(modals) : modals[i] = d
        BY <3>1
      <4>2. i - 1 \in 1..Len(modals') /\ modals'[i - 1] = d
        BY <2>1, <3>1, <4>1
      <4> QED BY <4>2
    <3>2. KbdRound(r, round[r]) # modals[1]
      BY <2>2 DEF KbdRound
    <3>3. CASE r = s
      BY <1>19, <1>a, <2>2, <3>1, <3>2, <3>3 DEF HostKeyDecision, PromptInv, Waiting
    <3>4. CASE r # s
      <4>1. HostKey(r) # modals[1]
        BY <2>2, <3>4 DEF HostKey
      <4> QED
        BY <1>19, <1>a, <2>2, <3>1, <3>2, <3>4, <4>1 DEF HostKeyDecision, PromptInv, Waiting
    <3> QED BY <3>3, <3>4
  <2> QED BY <2>3, <2>4 DEF PromptInv
<1>20. CASE KbdAnswer
  <2> DEFINE s == Head(modals).session
  <2>1. /\ Len(modals') = Len(modals) - 1
        /\ \A i \in 1..Len(modals') : modals'[i] = modals[i + 1]
        /\ Head(modals) = modals[1] /\ Len(modals) \in Nat \ {0}
    BY <1>c, <1>20 DEF KbdAnswer
  <2>2. s \in Sessions /\ modals[1].kind = "kbd" /\ modals[1].session = s
    BY <1>20, <1>b, <2>1 DEF KbdAnswer, Dialog
  <2>3. /\ task[s] = "ask" /\ kbdRx[s] = 0 /\ modals[1].round = round[s]
        /\ \A j \in 2..Len(modals) : IsRound(j) => modals[j].session # s
    BY <2>1, <2>2 DEF PromptInv, DialogsCurrent, IsRound
  <2>4. s \in kbdTx /\ kbdRx' = [kbdRx EXCEPT ![s] = round[s]]
    BY <1>20, <2>1, <2>2, <2>3 DEF KbdAnswer, PromptInv, Waiting
  <2>5. DialogsCurrent'
    <3>1. ASSUME NEW i \in 1..Len(modals'), IsRound(i)'
          PROVE  /\ i + 1 \in 2..Len(modals) /\ modals'[i] = modals[i + 1] /\ IsRound(i + 1)
                 /\ modals'[i].session \in Sessions /\ modals'[i].session # s
      BY <1>b, <2>1, <2>3, <3>1 DEF IsRound, Dialog
    <3>2. ASSUME NEW i \in 1..Len(modals'), IsRound(i)'
          PROVE  /\ task'[modals'[i].session] = "ask"
                 /\ kbdRx'[modals'[i].session] = 0
                 /\ modals'[i].round = round'[modals'[i].session]
      <4>1. /\ task[modals'[i].session] = "ask" /\ kbdRx[modals'[i].session] = 0
            /\ modals'[i].round = round[modals'[i].session]
        BY <3>1, <3>2 DEF PromptInv, DialogsCurrent
      <4> QED BY <1>20, <1>a, <2>4, <3>1, <3>2, <4>1 DEF KbdAnswer
    <3>3. ASSUME NEW i \in 1..Len(modals'), IsRound(i)', NEW j \in 1..Len(modals'),
                 IsRound(j)', modals'[j].session = modals'[i].session
          PROVE  j = i
      <4>1. j + 1 = i + 1
        BY <3>1, <3>3 DEF PromptInv, DialogsCurrent
      <4> QED BY <4>1
    <3> QED BY <3>2, <3>3 DEF DialogsCurrent
  <2>6. ASSUME NEW r \in Sessions PROVE Waiting(r)'
    <3>1. ASSUME NEW d \in {HostKey(r), KbdRound(r, round[r])}, d # modals[1],
                 \E i \in 1..Len(modals) : modals[i] = d
          PROVE  \E i \in 1..Len(modals') : modals'[i] = d
      <4>1. PICK i \in 1..Len(modals) : modals[i] = d
        BY <3>1
      <4>2. i - 1 \in 1..Len(modals') /\ modals'[i - 1] = d
        BY <2>1, <3>1, <4>1
      <4> QED BY <4>2
    <3>2. HostKey(r) # modals[1]
      BY <2>2 DEF HostKey
    <3>3. CASE r = s
      BY <1>20, <1>a, <2>2, <2>3, <2>4, <3>1, <3>2, <3>3 DEF KbdAnswer, PromptInv, Waiting
    <3>4. CASE r # s
      <4>1. KbdRound(r, round[r]) # modals[1]
        BY <2>2, <3>4 DEF KbdRound
      <4> QED
        BY <1>20, <1>a, <2>2, <2>4, <3>1, <3>2, <3>4, <4>1 DEF KbdAnswer, PromptInv, Waiting
    <3> QED BY <3>3, <3>4
  <2> QED BY <2>5, <2>6 DEF PromptInv
<1>21. CASE DisconnectAll \/ Exit \/ Rest \/ UNCHANGED vars
  BY <1>21 DEF DisconnectAll, Exit, Rest, vars, promptVars, PromptInv, DialogsCurrent,
               Waiting, IsRound
<1> QED
  BY <1>1, <1>2, <1>3, <1>4, <1>5, <1>6, <1>7, <1>8, <1>9, <1>10, <1>11, <1>12, <1>13, <1>14,
     <1>15, <1>16, <1>17, <1>18, <1>19, <1>20, <1>21
  DEF Next, TaskStep, ServerStep, UserStep

(* The senders of PendingPrompts, the answers on their way and the dialogs of
   the renderer always belong to the prompt the task of their session waits on. *)
THEOREM PromptsHold == Spec => []PromptInv
<1>1. Init => PromptInv
  BY PromptInit
<1>2. TypeOK /\ Lifecycle /\ PromptInv /\ [Next]_vars => PromptInv'
  BY PromptStep
<1> QED BY <1>1, <1>2, TypeCorrect, LifecycleHolds, PTL DEF Spec

(* The answers a task takes were given to the prompt it waits on. *)
THEOREM AnswersAreMatched == Spec => []AnswersMatchPrompt
<1>1. PromptInv => AnswersMatchPrompt
  BY DEF PromptInv, Waiting, AnswersMatchPrompt
<1> QED BY <1>1, PromptsHold, PTL

(* No sender outlives the wait of its task: drain_session has nothing to do. *)
THEOREM NoOrphanPrompt == Spec => []PromptsAreAwaited
<1>1. PromptInv => PromptsAreAwaited
  BY DEF PromptInv, Waiting, PromptsAreAwaited
<1> QED BY <1>1, PromptsHold, PTL

(* The serialised dialogs lose no prompt. *)
THEOREM PromptsAreShown == Spec => []EveryPromptHasADialog
<1>1. PromptInv => EveryPromptHasADialog
  BY DEF PromptInv, Waiting, EveryPromptHasADialog
<1> QED BY <1>1, PromptsHold, PTL

------------------------------------------------------------------------------
(* The keystrokes. *)

Lost == {"leaving"} \cup Ending

(* Nothing is typed before the first ssh_connect. *)
LEMMA KeyInit == Init => KeyInv
  BY DEF Init, KeyInv, Keys, InHand, Queued, Owed, Ordered, Complete, Through, NoCommand, Cmd

(* A step that leaves the queues alone and brings no task back from the end. *)
LEMMA KeyFrame ==
    ASSUME TypeOK, KeyInv, NEW s \in Sessions, NEW to,
           task[s] # "sending", to # "sending", task[s] \in Lost => to \in Lost,
           task' = [task EXCEPT ![s] = to], UNCHANGED queueVars
    PROVE  KeyInv'
<1>1. task \in [Sessions -> Before \cup AfterLogin \cup Ending]
  BY DEF TypeOK
<1>2. ASSUME NEW r \in Sessions
      PROVE  Keys(r)'
  <2>1. InHand(r)' /\ (\A i \in 1..Len(shell[r]) : shell[r][i] = i)'
    BY <1>1 DEF KeyInv, Keys, InHand, queueVars
  <2>2. Queued(r) => Queued(r)'
    BY DEF Queued, Owed, Ordered, Complete, Through, queueVars
  <2>3. task'[r] \notin {"leaving"} \cup Ending => task[r] \notin {"leaving"} \cup Ending
    BY <1>1 DEF Lost
  <2> QED BY <2>1, <2>2, <2>3 DEF KeyInv, Keys
<1> QED BY <1>2 DEF KeyInv

(* A session none of whose keys, commands and task moved. *)
LEMMA KeySame ==
    ASSUME NEW s \in Sessions, Keys(s), inbox'[s] = inbox[s], hand'[s] = hand[s],
           typed'[s] = typed[s], shell'[s] = shell[s], task'[s] = task[s]
    PROVE  Keys(s)'
<1>1. InHand(s)' /\ (\A i \in 1..Len(shell[s]) : shell[s][i] = i)'
  BY DEF Keys, InHand
<1>2. Through(s)' = Through(s)
  BY DEF Through
<1>3. Queued(s) => Queued(s)'
  BY <1>2 DEF Queued, Owed, Ordered, Complete
<1> QED BY <1>1, <1>3 DEF Keys

(* The types of the counters and queues of one session. *)
LEMMA KeyTypes ==
    ASSUME TypeOK, NEW s \in Sessions
    PROVE  /\ typed[s] \in Nat /\ Len(shell[s]) \in Nat /\ Through(s) \in Nat
           /\ inbox[s] \in Seq(Command) /\ Len(inbox[s]) \in Nat
           /\ \A i \in 1..Len(inbox[s]) : inbox[s][i].key \in Nat
<1>1. MaxKeys \in Nat /\ typed[s] \in 0..MaxKeys
  BY BoundsAssumption DEF TypeOK
<1>2. shell[s] \in Seq(0..MaxKeys) /\ inbox[s] \in Seq(Command)
  BY DEF TypeOK
<1>3. Len(shell[s]) \in Nat /\ Len(inbox[s]) \in Nat
  BY <1>2
<1>4. ASSUME NEW i \in 1..Len(inbox[s]) PROVE inbox[s][i].key \in Nat
  <2>1. inbox[s][i] \in Command
    BY <1>2
  <2> QED BY <1>1, <2>1 DEF Command
<1>5. Through(s) \in Nat
  <2>1. CASE hand[s].op = "write"
    BY <1>3, <2>1 DEF Through
  <2>2. CASE ~(hand[s].op = "write")
    BY <1>3, <2>2 DEF Through
  <2> QED BY <2>1, <2>2
<1> QED BY <1>1, <1>2, <1>3, <1>4, <1>5

(* The first keystroke in an inbox is the next one the shell is owed. *)
LEMMA HeadIsNext ==
    ASSUME TypeOK, NEW s \in Sessions, Queued(s), Len(inbox[s]) # 0,
           inbox[s][1].op = "write"
    PROVE  inbox[s][1].key = Through(s) + 1
<1> DEFINE n == Through(s) + 1
           q == inbox[s]
<1>1. /\ typed[s] \in Nat /\ Through(s) \in Nat /\ Len(q) \in Nat
      /\ \A i \in 1..Len(q) : q[i].key \in Nat
  BY KeyTypes
<1>2. 1 \in 1..Len(q)
  BY <1>1
<1>3. Through(s) < q[1].key /\ q[1].key <= typed[s]
  BY <1>2 DEF Queued, Owed, Ordered, Complete
<1>4. n \in 1..typed[s] /\ Through(s) < n
  BY <1>1, <1>2, <1>3
<1>5. PICK i \in 1..Len(q) : q[i].op = "write" /\ q[i].key = n
  BY <1>4 DEF Queued, Owed, Ordered, Complete
<1>6. 1 < i => q[1].key < q[i].key
  BY <1>2, <1>5 DEF Queued, Owed, Ordered, Complete
<1> QED BY <1>1, <1>2, <1>3, <1>5, <1>6

(* A command other than a keystroke may join any inbox. *)
LEMMA KeyAppend ==
    ASSUME TypeOK, NEW s \in Sessions, Queued(s), NEW c \in Command, c.op # "write",
           inbox'[s] = Append(inbox[s], c), UNCHANGED <<hand, typed, shell>>
    PROVE  Queued(s)'
<1>1. inbox[s] \in Seq(Command)
  BY DEF TypeOK
<1>2. /\ Len(inbox'[s]) = Len(inbox[s]) + 1 /\ Len(inbox[s]) \in Nat
      /\ inbox'[s][Len(inbox[s]) + 1] = c
      /\ \A i \in 1..Len(inbox[s]) : inbox'[s][i] = inbox[s][i]
  BY <1>1
<1>3. Through(s)' = Through(s)
  BY DEF Through
<1>4. Owed(s)' /\ Ordered(s)'
  BY <1>2, <1>3 DEF Queued, Owed, Ordered
<1>5. Complete(s)'
  BY <1>2, <1>3 DEF Queued, Complete
<1> QED BY <1>3, <1>4, <1>5 DEF Queued

(* Every command and every step of a task keeps the keystrokes of a session in
   order: through, in hand, or waiting in the inbox. *)
LEMMA KeyStep ==
    ASSUME TypeOK, Lifecycle, KeyInv, [Next]_vars
    PROVE  KeyInv'
<1> USE DEF mainVars, promptVars, storeVars, Goto
<1>a. /\ task \in [Sessions -> Before \cup AfterLogin \cup Ending]
      /\ inbox \in [Sessions -> Seq(Command)]
      /\ hand \in [Sessions -> Command \cup {NoCommand}]
      /\ typed \in [Sessions -> 0..MaxKeys]
      /\ shell \in [Sessions -> Seq(0..MaxKeys)]
      /\ MaxKeys \in Nat
  BY BoundsAssumption DEF TypeOK
<1>b. \A r \in Sessions : Keys(r)
  BY DEF KeyInv
<1>c. Cmd("resize") \in Command /\ Cmd("disconnect") \in Command
  BY <1>a DEF Cmd, Command
<1>1. ASSUME NEW s \in Sessions, Request(s) PROVE KeyInv'
  <2>1. CASE Connect(s)
    <3>1. task[s] = "idle"
      BY <2>1 DEF Connect, Lifecycle
    <3> QED BY <2>1, <3>1, KeyFrame DEF Connect, Lost, Ending
  <2>2. CASE Input(s)
    <3> DEFINE n == Len(inbox[s])
    <3>1. /\ inbox' = [inbox EXCEPT ![s] = Append(@, [op |-> "write", key |-> typed[s] + 1])]
          /\ typed' = [typed EXCEPT ![s] = @ + 1]
          /\ UNCHANGED <<hand, shell, task>>
      BY <2>2 DEF Input, Send
    <3>2. [op |-> "write", key |-> typed[s] + 1] \in Command
      BY <1>a, <2>2 DEF Input, Command
    <3>3. /\ Len(inbox'[s]) = n + 1 /\ n \in Nat
          /\ inbox'[s][n + 1] = [op |-> "write", key |-> typed[s] + 1]
          /\ \A i \in 1..n : inbox'[s][i] = inbox[s][i]
          /\ typed'[s] = typed[s] + 1 /\ typed[s] \in Nat
      BY <1>a, <3>1, <3>2
    <3>4. ASSUME NEW r \in Sessions PROVE Keys(r)'
      <4>1. CASE r # s
        BY <1>a, <1>b, <3>1, <4>1, KeySame
      <4>2. CASE r = s
        <5>1. InHand(s)' /\ (\A i \in 1..Len(shell[s]) : shell[s][i] = i)'
          BY <1>b, <3>1 DEF Keys, InHand
        <5>2. ASSUME Queued(s) PROVE Queued(s)'
          <6>1. Through(s)' = Through(s) /\ Through(s) \in Nat /\ Through(s) <= typed[s]
            BY <3>1, <5>2, KeyTypes DEF Through, Queued
          <6>2. \A i \in 1..n : inbox[s][i].key \in Nat
            BY KeyTypes
          <6>3. Owed(s)'
            <7>1. ASSUME NEW i \in 1..Len(inbox'[s]), inbox'[s][i].op = "write"
                  PROVE  Through(s)' < inbox'[s][i].key /\ inbox'[s][i].key <= typed'[s]
              <8>1. CASE i = n + 1
                <9>1. inbox'[s][i].key = typed[s] + 1
                  BY <3>3, <8>1
                <9> QED BY <3>3, <6>1, <9>1
              <8>2. CASE i \in 1..n
                <9>1. inbox'[s][i] = inbox[s][i] /\ inbox[s][i].op = "write"
                  BY <3>3, <7>1, <8>2
                <9>2. Through(s) < inbox[s][i].key /\ inbox[s][i].key <= typed[s]
                  BY <5>2, <8>2, <9>1 DEF Queued, Owed
                <9>3. inbox[s][i].key <= typed[s] + 1
                  BY <3>3, <6>2, <8>2, <9>2
                <9> QED BY <3>3, <6>1, <9>1, <9>2, <9>3
              <8> QED BY <3>3, <8>1, <8>2
            <7> QED BY <7>1 DEF Owed
          <6>4. Ordered(s)'
            <7>1. ASSUME NEW i \in 1..Len(inbox'[s]), NEW j \in 1..Len(inbox'[s]),
                         i < j, inbox'[s][i].op = "write", inbox'[s][j].op = "write"
                  PROVE  inbox'[s][i].key < inbox'[s][j].key
              <8>1. i \in 1..n /\ inbox'[s][i] = inbox[s][i]
                BY <3>3, <7>1
              <8>2. CASE j = n + 1
                <9>1. inbox[s][i].key <= typed[s]
                  BY <5>2, <7>1, <8>1 DEF Queued, Owed
                <9> QED BY <3>3, <6>2, <8>1, <8>2, <9>1
              <8>3. CASE j \in 1..n
                BY <3>3, <5>2, <7>1, <8>1, <8>3 DEF Queued, Ordered
              <8> QED BY <3>3, <8>2, <8>3
            <7> QED BY <7>1 DEF Ordered
          <6>5. Complete(s)'
            <7>1. ASSUME NEW k \in 1..typed'[s], Through(s)' < k
                  PROVE  \E i \in 1..Len(inbox'[s]) :
                            inbox'[s][i].op = "write" /\ inbox'[s][i].key = k
              <8>1. CASE k = typed[s] + 1
                <9>1. n + 1 \in 1..Len(inbox'[s])
                  BY <3>3
                <9> QED BY <3>3, <8>1, <9>1
              <8>2. CASE k \in 1..typed[s]
                <9>1. PICK i \in 1..n : inbox[s][i].op = "write" /\ inbox[s][i].key = k
                  BY <5>2, <6>1, <7>1, <8>2 DEF Queued, Complete
                <9>2. i \in 1..Len(inbox'[s]) /\ inbox'[s][i] = inbox[s][i]
                  BY <3>3
                <9> QED BY <9>1, <9>2
              <8> QED BY <3>3, <8>1, <8>2
            <7> QED BY <7>1 DEF Complete
          <6> QED BY <3>3, <6>1, <6>3, <6>4, <6>5 DEF Queued
        <5> QED BY <1>b, <3>1, <4>2, <5>1, <5>2 DEF Keys
      <4> QED BY <4>1, <4>2
    <3> QED BY <3>4 DEF KeyInv
  <2>3. CASE Resize(s) \/ Disconnect(s)
    <3>1. PICK c \in {Cmd("resize"), Cmd("disconnect")} :
             /\ inbox' = [inbox EXCEPT ![s] = Append(@, c)]
             /\ UNCHANGED <<hand, typed, shell, task>>
      BY <2>3 DEF Resize, Disconnect, Send
    <3>2. ASSUME NEW r \in Sessions PROVE Keys(r)'
      <4>1. CASE r # s
        BY <1>a, <1>b, <3>1, <4>1, KeySame
      <4>2. CASE r = s
        <5>1. Queued(s) => Queued(s)'
          BY <1>a, <1>c, <3>1, KeyAppend DEF Cmd
        <5> QED BY <1>b, <3>1, <4>2, <5>1 DEF Keys, InHand
      <4> QED BY <4>1, <4>2
    <3> QED BY <3>2 DEF KeyInv
  <2> QED BY <1>1, <2>1, <2>2, <2>3 DEF Request
<1>2. ASSUME UNCHANGED <<queueVars, task>> PROVE KeyInv'
  BY <1>2, KeySame DEF KeyInv, queueVars
<1>3. ASSUME NEW s \in Sessions, TaskStep(s) PROVE KeyInv'
  <2>1. CASE TcpConnected(s) \/ TcpFailed(s)
    BY <2>1, KeyFrame DEF TcpConnected, TcpFailed, OnlyTask, Lost, Ending
  <2>2. CASE HostKeyAnswered(s)
    BY <2>2, KeyFrame DEF HostKeyAnswered, Lost, Ending
  <2>3. CASE HostKeyTimedOut(s) \/ HostKeyVerdict(s)
    BY <2>3, KeyFrame DEF HostKeyTimedOut, HostKeyVerdict, OnlyTask, Lost, Ending
  <2>4. CASE KbdAnswered(s) \/ SaveSecret(s) \/ RecordRecent(s) \/ Announce(s)
    BY <2>4, KeyFrame DEF KbdAnswered, SaveSecret, RecordRecent, Announce, Lost, Ending
  <2>5. CASE Fail(s)
    BY <2>5, KeyFrame DEF Fail, Lost, Ending
  <2>6. CASE Take(s)
    BY <2>6, KeyFrame DEF Take, Lost, Ending
  <2>7. CASE DropSave(s) \/ DropRecent(s)
    BY <2>7, KeyFrame DEF DropSave, DropRecent, Lost, Ending
  <2>8. CASE Drain(s)
    <3>1. ASSUME NEW r \in Sessions PROVE Keys(r)'
      <4>1. CASE r = s
        BY <1>a, <1>b, <2>8, <4>1 DEF Drain, Keys, InHand, Ending
      <4>2. CASE r # s
        BY <1>a, <1>b, <2>8, <4>2, KeySame DEF Drain
      <4> QED BY <4>1, <4>2
    <3> QED BY <3>1 DEF KeyInv
  <2>9. CASE TakeCommand(s)
    <3> DEFINE c == Head(inbox[s])
    <3>1. /\ Len(inbox[s]) \in Nat \ {0} /\ c = inbox[s][1] /\ c \in Command
          /\ Len(inbox'[s]) = Len(inbox[s]) - 1
          /\ \A i \in 1..Len(inbox'[s]) : inbox'[s][i] = inbox[s][i + 1]
      BY <1>a, <2>9 DEF TakeCommand
    <3>2. /\ hand'[s] = c /\ typed' = typed /\ shell' = shell /\ task'[s] = "sending"
          /\ task[s] = "loop" /\ hand[s] = NoCommand
      BY <1>a, <1>b, <2>9 DEF TakeCommand, Keys, InHand
    <3>3. Queued(s) /\ Through(s) = Len(shell[s]) /\ Len(shell[s]) \in Nat
      BY <1>b, <3>2, KeyTypes DEF Keys, Ending, Through, NoCommand, Cmd
    <3>4. typed[s] \in Nat /\ \A i \in 1..Len(inbox[s]) : inbox[s][i].key \in Nat
      BY KeyTypes
    <3>5. InHand(s)'
      <4>1. ASSUME c.op = "write" PROVE c.key = Len(shell[s]) + 1
        BY <3>1, <3>3, <4>1, HeadIsNext
      <4> QED BY <3>2, <4>1 DEF InHand
    <3>0. Ordered(s)'
      <4>1. ASSUME NEW i \in 1..Len(inbox'[s]), NEW j \in 1..Len(inbox'[s]),
                   i < j, inbox'[s][i].op = "write", inbox'[s][j].op = "write"
            PROVE  inbox'[s][i].key < inbox'[s][j].key
        <5>0. /\ i \in Nat /\ j \in Nat /\ Len(inbox[s]) \in Nat /\ 1 <= i /\ 1 <= j
              /\ i <= Len(inbox[s]) - 1 /\ j <= Len(inbox[s]) - 1 /\ i < j
          <6>1. Len(inbox[s]) \in Nat /\ Len(inbox'[s]) = Len(inbox[s]) - 1
            BY <3>1
          <6> QED BY <4>1, <6>1
        <5>a. i + 1 \in 1..Len(inbox[s]) /\ j + 1 \in 1..Len(inbox[s]) /\ i + 1 < j + 1
          BY <5>0
        <5>b. inbox'[s][i] = inbox[s][i + 1] /\ inbox'[s][j] = inbox[s][j + 1]
          BY <3>1
        <5>1. /\ i + 1 \in 1..Len(inbox[s]) /\ j + 1 \in 1..Len(inbox[s]) /\ i + 1 < j + 1
              /\ inbox'[s][i] = inbox[s][i + 1] /\ inbox'[s][j] = inbox[s][j + 1]
          BY <5>a, <5>b
        <5>2. inbox[s][i + 1].op = "write" /\ inbox[s][j + 1].op = "write"
          BY <4>1, <5>1
        <5>3. Ordered(s)
          BY <3>3 DEF Queued
        <5>4. inbox[s][i + 1].key < inbox[s][j + 1].key
          BY <5>1, <5>2, <5>3 DEF Ordered
        <5> QED BY <5>1, <5>4
      <4> QED BY <4>1 DEF Ordered
    <3>6. Queued(s)'
      <4>1. CASE c.op # "write"
        <5>1. Through(s)' = Through(s)
          BY <3>2, <3>3, <4>1 DEF Through, NoCommand, Cmd
        <5>2. Owed(s)'
          <6>1. ASSUME NEW i \in 1..Len(inbox'[s]), inbox'[s][i].op = "write"
                PROVE  Through(s)' < inbox'[s][i].key /\ inbox'[s][i].key <= typed'[s]
            <7>1. i + 1 \in 1..Len(inbox[s]) /\ inbox'[s][i] = inbox[s][i + 1]
              BY <3>1
            <7> QED BY <3>2, <3>3, <5>1, <6>1, <7>1 DEF Queued, Owed
          <6> QED BY <6>1 DEF Owed
        <5>3. Ordered(s)'
          BY <3>0
        <5>4. Complete(s)'
          <6>1. ASSUME NEW k \in 1..typed'[s], Through(s)' < k
                PROVE  \E i \in 1..Len(inbox'[s]) :
                          inbox'[s][i].op = "write" /\ inbox'[s][i].key = k
            <7>1. PICK i \in 1..Len(inbox[s]) : inbox[s][i].op = "write" /\ inbox[s][i].key = k
              BY <3>2, <3>3, <5>1, <6>1 DEF Queued, Complete
            <7>2. i - 1 \in 1..Len(inbox'[s]) /\ inbox'[s][i - 1] = inbox[s][i]
              BY <3>1, <4>1, <7>1
            <7> QED BY <7>1, <7>2
          <6> QED BY <6>1 DEF Complete
        <5> QED BY <3>2, <3>3, <5>1, <5>2, <5>3, <5>4 DEF Queued
      <4>2. CASE c.op = "write"
        <5>1. Through(s)' = Through(s) + 1 /\ c.key = Through(s) + 1
          BY <3>2, <3>3, <3>5, <4>2 DEF Through, InHand
        <5>2. Through(s)' <= typed'[s]
          BY <3>1, <3>2, <3>3, <4>2, <5>1 DEF Queued, Owed
        <5>3. Owed(s)'
          <6>1. ASSUME NEW i \in 1..Len(inbox'[s]), inbox'[s][i].op = "write"
                PROVE  Through(s)' < inbox'[s][i].key /\ inbox'[s][i].key <= typed'[s]
            <7>1. /\ i + 1 \in 1..Len(inbox[s]) /\ 1 \in 1..Len(inbox[s]) /\ 1 < i + 1
                  /\ inbox'[s][i] = inbox[s][i + 1]
              BY <3>1
            <7>2. inbox[s][1].key < inbox[s][i + 1].key /\ inbox[s][i + 1].key <= typed[s]
              BY <3>1, <3>3, <4>2, <6>1, <7>1 DEF Queued, Owed, Ordered
            <7> QED BY <3>1, <3>2, <3>3, <3>4, <5>1, <7>1, <7>2
          <6> QED BY <6>1 DEF Owed
        <5>4. Ordered(s)'
          BY <3>0
        <5>5. Complete(s)'
          <6>1. ASSUME NEW k \in 1..typed'[s], Through(s)' < k
                PROVE  \E i \in 1..Len(inbox'[s]) :
                          inbox'[s][i].op = "write" /\ inbox'[s][i].key = k
            <7>1. Through(s) < k /\ k \in 1..typed[s] /\ k # c.key
              BY <3>2, <3>3, <5>1, <6>1
            <7>2. PICK i \in 1..Len(inbox[s]) : inbox[s][i].op = "write" /\ inbox[s][i].key = k
              BY <3>3, <7>1 DEF Queued, Complete
            <7>3. i # 1
              BY <3>1, <7>1, <7>2
            <7>4. i - 1 \in 1..Len(inbox'[s]) /\ inbox'[s][i - 1] = inbox[s][i]
              BY <3>1, <7>3
            <7> QED BY <7>2, <7>4
          <6> QED BY <6>1 DEF Complete
        <5> QED BY <5>2, <5>3, <5>4, <5>5 DEF Queued
      <4> QED BY <4>1, <4>2
    <3>7. ASSUME NEW r \in Sessions PROVE Keys(r)'
      <4>1. CASE r = s
        BY <1>b, <3>2, <3>5, <3>6, <4>1 DEF Keys
      <4>2. CASE r # s
        BY <1>a, <1>b, <2>9, <4>2, KeySame DEF TakeCommand
      <4> QED BY <4>1, <4>2
    <3> QED BY <3>7 DEF KeyInv
  <2> QED BY <1>3, <2>1, <2>2, <2>3, <2>4, <2>5, <2>6, <2>7, <2>8, <2>9 DEF TaskStep
<1>4. ASSUME NEW s \in Sessions, Sent(s) PROVE KeyInv'
  <2>1. /\ task[s] = "sending" /\ hand[s] # NoCommand => hand[s] \in Command
        /\ hand'[s] = NoCommand /\ typed' = typed /\ inbox' = inbox
        /\ task'[s] # "sending" /\ Queued(s) /\ InHand(s)
    BY <1>a, <1>b, <1>4 DEF Sent, Keys, Ending
  <2>2. Keys(s)'
    <3>1. CASE hand[s].op = "write"
      <4>1. hand[s].key = Len(shell[s]) + 1 /\ hand[s].key \in 1..MaxKeys
        BY <1>a, <2>1, <3>1, KeyTypes DEF InHand, Command, NoCommand, Cmd
      <4>2. shell'[s] = Append(shell[s], hand[s].key)
        BY <1>a, <1>4, <3>1 DEF Sent
      <4>3. /\ Len(shell'[s]) = Len(shell[s]) + 1 /\ Len(shell[s]) \in Nat
            /\ shell'[s][Len(shell[s]) + 1] = hand[s].key
            /\ \A i \in 1..Len(shell[s]) : shell'[s][i] = shell[s][i]
        BY <1>a, <4>1, <4>2
      <4>4. Through(s)' = Through(s)
        BY <2>1, <3>1, <4>3 DEF Through, NoCommand, Cmd
      <4>5. Queued(s)'
        BY <2>1, <4>4 DEF Queued, Owed, Ordered, Complete
      <4>6. \A i \in 1..Len(shell'[s]) : shell'[s][i] = i
        <5>1. \A i \in 1..Len(shell[s]) : shell[s][i] = i
          BY <1>b DEF Keys
        <5> QED BY <4>1, <4>3, <5>1
      <4> QED BY <2>1, <4>5, <4>6 DEF Keys, InHand, NoCommand, Cmd
    <3>2. CASE hand[s].op # "write"
      <4>1. shell' = shell
        BY <1>4, <3>2 DEF Sent
      <4>2. Through(s)' = Through(s)
        BY <2>1, <3>2, <4>1 DEF Through, NoCommand, Cmd
      <4>3. Queued(s)'
        BY <2>1, <4>2 DEF Queued, Owed, Ordered, Complete
      <4> QED BY <1>b, <2>1, <4>1, <4>3 DEF Keys, InHand, NoCommand, Cmd
    <3> QED BY <3>1, <3>2
  <2>3. ASSUME NEW r \in Sessions, r # s PROVE Keys(r)'
    BY <1>a, <1>b, <1>4, <2>3, KeySame DEF Sent
  <2> QED BY <2>2, <2>3 DEF KeyInv
<1>5. ASSUME NEW s \in Sessions, SendFailed(s) PROVE KeyInv'
  <2>1. /\ task[s] = "sending" /\ Queued(s) /\ shell' = shell
        /\ hand'[s] = NoCommand /\ typed' = typed /\ inbox' = inbox
        /\ task'[s] = IF hand[s].op = "resize" THEN "loop" ELSE "leaving"
    BY <1>a, <1>b, <1>5 DEF SendFailed, Keys, Ending
  <2>2. Keys(s)'
    <3>1. CASE hand[s].op = "resize"
      <4>1. Through(s)' = Through(s)
        BY <2>1, <3>1 DEF Through, NoCommand, Cmd
      <4>2. Queued(s)'
        BY <2>1, <4>1 DEF Queued, Owed, Ordered, Complete
      <4> QED BY <1>b, <2>1, <3>1, <4>2 DEF Keys, InHand, NoCommand, Cmd
    <3>2. CASE hand[s].op # "resize"
      BY <1>b, <2>1, <3>2 DEF Keys, InHand, NoCommand, Cmd
    <3> QED BY <3>1, <3>2
  <2>3. ASSUME NEW r \in Sessions, r # s PROVE Keys(r)'
    BY <1>a, <1>b, <1>5, <2>3, KeySame DEF SendFailed
  <2> QED BY <2>2, <2>3 DEF KeyInv
<1>6. ASSUME NEW s \in Sessions, ServerStep(s), ~Sent(s), ~SendFailed(s) PROVE KeyInv'
  <2>1. CASE KeyMatches(s) \/ KexFailed(s)
    BY <2>1, KeyFrame DEF KeyMatches, KexFailed, OnlyTask, Lost, Ending
  <2>2. CASE AskHostKey(s) \/ AskKbd(s)
    BY <2>2, KeyFrame DEF AskHostKey, AskKbd, Lost, Ending
  <2>3. CASE PrimaryOk(s) \/ PrimaryFailed(s) \/ AuthError(s)
    BY <2>3, KeyFrame DEF PrimaryOk, PrimaryFailed, AuthError, OnlyTask, Lost, Ending
  <2>4. CASE KbdSuccess(s) \/ KbdFailed(s)
    BY <2>4, KeyFrame DEF KbdSuccess, KbdFailed, OnlyTask, Lost, Ending
  <2>5. CASE ShellOpened(s) \/ ShellFailed(s) \/ Leave(s)
    BY <2>5, KeyFrame DEF ShellOpened, ShellFailed, Leave, OnlyTask, Lost, Ending
  <2> QED BY <1>6, <2>1, <2>2, <2>3, <2>4, <2>5 DEF ServerStep
<1>7. ASSUME NEW s \in Sessions, ChannelClosed(s) PROVE KeyInv'
  BY <1>7, KeyFrame DEF ChannelClosed, OnlyTask, Lost, Ending
<1>8. CASE DisconnectAll
  <2>1. /\ UNCHANGED <<hand, typed, shell, task>>
        /\ \A r \in Sessions : inbox'[r] = IF r \in registry
                                            THEN Append(inbox[r], Cmd("disconnect"))
                                            ELSE inbox[r]
    BY <1>8 DEF DisconnectAll
  <2>2. ASSUME NEW r \in Sessions PROVE Keys(r)'
    <3>1. CASE r \in registry
      <4>1. Queued(r) => Queued(r)'
        BY <1>a, <1>c, <2>1, <3>1, KeyAppend DEF Cmd
      <4> QED BY <1>b, <2>1, <4>1 DEF Keys, InHand
    <3>2. CASE r \notin registry
      BY <1>b, <2>1, <3>2, KeySame
    <3> QED BY <3>1, <3>2
  <2> QED BY <2>2 DEF KeyInv
<1>9. ASSUME (\E s \in Sessions : CallStep(s)) \/ UserStep \/ Exit \/ Rest \/ UNCHANGED vars
      PROVE  UNCHANGED <<queueVars, task>>
  BY <1>9 DEF CallStep, QueueSave, QueueRecent, UserStep, HostKeyDecision, KbdAnswer, Exit,
              Rest, vars
<1> QED BY <1>1, <1>2, <1>3, <1>4, <1>5, <1>6, <1>7, <1>8, <1>9 DEF Next

(* Keystrokes reach the shell in the order typed, none twice, none skipped. *)
THEOREM KeysArriveInOrder == Spec => []KeysInOrder
<1>1. Init => KeyInv
  BY KeyInit
<1>2. TypeOK /\ Lifecycle /\ KeyInv /\ [Next]_vars => KeyInv'
  BY KeyStep
<1>3. KeyInv => KeysInOrder
  BY DEF KeyInv, Keys, KeysInOrder
<1> QED BY <1>1, <1>2, <1>3, TypeCorrect, LifecycleHolds, PTL DEF Spec

==============================================================================
