---------------------------- MODULE SessionManager ----------------------------
(***************************************************************************)
(* The session lifecycle of simple-ssh: the Tauri commands of the main     *)
(* thread, the per-session tokio tasks of run_session, the maps they       *)
(* share, and the prompts that make a round trip through the renderer.     *)
(*                                                                         *)
(* Interleaving: commands are synchronous and run one at a time on the     *)
(* main thread; session tasks run on worker threads. Each action is one    *)
(* critical section, or one await, of the code; ssh_connect, which spawns  *)
(* the task before it has filled the pending maps, is several.             *)
(*                                                                         *)
(* External: the SSH server and russh (any outcome of a network call), the *)
(* user behind the dialogs, and the OS keystore (it may refuse a write).   *)
(* Port forwards, the rounds of authentication that need no dialog, and    *)
(* the contents of the stores are left to other modules.                   *)
(***************************************************************************)
EXTENDS Naturals, Sequences, FiniteSets

CONSTANTS
    Sessions,    \* the session ids ssh_connect may hand out (UUIDs, never reused)
    Ops,         \* bound: the session commands the renderer sends
    MayQuit,     \* bound: whether the user may quit the program
    MaxQueue,    \* bound: commands waiting in one session's channel
    MaxKeys,     \* bound: keystroke commands sent to one session
    MaxRounds    \* bound: dialogs one server's keyboard-interactive login opens

ASSUME BoundsAssumption ==
    /\ Ops \subseteq {"write", "resize", "disconnect"}
    /\ MayQuit \in BOOLEAN
    /\ MaxQueue \in Nat \ {0}
    /\ MaxKeys \in Nat
    /\ MaxRounds \in Nat

VARIABLES
    app,             \* the process: "running", "quitting" (ExitRequested handled), "exited"
    call,            \* call[s]: where ssh_connect of s is on the main thread
    optedIn,         \* the sessions whose request asks to save a secret and holds one
    registry,        \* SessionManager.sessions
    inbox,           \* inbox[s]: the cmd_tx/cmd_rx channel
    hand,            \* hand[s]: the command the task has received and is carrying out
    typed,           \* typed[s]: keystroke commands sent so far, numbered from 1
    shell,           \* shell[s]: the keystrokes the remote shell received, in order
    task,            \* task[s]: where run_session of s is
    outcome,         \* outcome[s]: the terminal status handed to cleanup
    hostKeyTx,       \* PendingPrompts.host_key: sessions with a sender in the map
    hostKeyRx,       \* hostKeyRx[s]: what the oneshot holds
    kbdTx,           \* PendingPrompts.kbd
    kbdRx,           \* kbdRx[s]: the round whose dialog filled the oneshot, 0 while empty
    round,           \* round[s]: keyboard-interactive dialogs asked for so far
    modals,          \* modalChain of the renderer: dialogs in the order they open
    pendingSaves,    \* AppState.pending_secret_saves
    pendingRecents,  \* AppState.pending_recents
    saved,           \* sessions whose secret reached the keystore
    recorded,        \* sessions whose target was recorded into the recents
    events           \* events[s]: ssh:status and ssh:error events emitted for s

mainVars   == <<app, call, optedIn>>
queueVars  == <<inbox, hand, typed, shell>>
promptVars == <<hostKeyTx, hostKeyRx, kbdTx, kbdRx, round, modals>>
storeVars  == <<pendingSaves, pendingRecents, saved, recorded>>
vars == <<mainVars, registry, queueVars, task, outcome, promptVars, storeVars, events>>

(* SessionCmd. Only a write carries a key; the size of a resize is left out. *)
Command   == [op : {"write", "resize", "disconnect"}, key : 0..MaxKeys]
Cmd(op)   == [op |-> op, key |-> 0]
NoCommand == Cmd("none")

(* A dialog of the renderer: the prompt's session, and for a keyboard-
   interactive one the round that asked for it (which the code does not keep). *)
Dialog        == [kind : {"hostkey", "kbd"}, session : Sessions, round : 0..MaxRounds]
HostKey(s)    == [kind |-> "hostkey", session |-> s, round |-> 0]
KbdRound(s, n) == [kind |-> "kbd", session |-> s, round |-> n]

Init ==
    /\ app = "running"
    /\ call = [s \in Sessions |-> "none"]
    /\ optedIn = {}
    /\ registry = {}
    /\ inbox = [s \in Sessions |-> << >>]
    /\ hand = [s \in Sessions |-> NoCommand]
    /\ typed = [s \in Sessions |-> 0]
    /\ shell = [s \in Sessions |-> << >>]
    /\ task = [s \in Sessions |-> "idle"]
    /\ outcome = [s \in Sessions |-> "none"]
    /\ hostKeyTx = {} /\ kbdTx = {}
    /\ hostKeyRx = [s \in Sessions |-> "empty"]
    /\ kbdRx = [s \in Sessions |-> 0]
    /\ round = [s \in Sessions |-> 0]
    /\ modals = << >>
    /\ pendingSaves = {} /\ pendingRecents = {}
    /\ saved = {} /\ recorded = {}
    /\ events = [s \in Sessions |-> << >>]

------------------------------------------------------------------------------
(* Helpers. *)

Emit(s, word) == events' = [events EXCEPT ![s] = Append(@, word)]

(* The task of s moves on; nothing moves once the process is gone. *)
Goto(s, from, to) ==
    /\ app # "exited"
    /\ task[s] = from
    /\ task' = [task EXCEPT ![s] = to]

(* No ssh_connect is half done, so the main thread can run the next command. *)
MainIdle ==
    /\ app = "running"
    /\ \A s \in Sessions : call[s] \in {"none", "returned"}

Finished(s) == task[s] = "done"

------------------------------------------------------------------------------
(* The main thread: ssh_connect. *)

(* SessionManager::connect: register, announce, spawn the task. From here on
   the task runs, while the rest of ssh_connect is still to come. *)
Connect(s) ==
    /\ MainIdle
    /\ call[s] = "none"
    /\ call' = [call EXCEPT ![s] = "connected"]
    /\ optedIn' \in {optedIn, optedIn \cup {s}}
    /\ registry' = registry \cup {s}
    /\ Emit(s, "connecting")
    /\ task' = [task EXCEPT ![s] = "tcp"]
    /\ UNCHANGED <<app, queueVars, outcome, promptVars, storeVars>>

(* Mutant of QueueSave: the save_secret flag of the request is not looked at. *)
QueueSaveAlways(s) ==
    /\ app # "exited"
    /\ call[s] = "connected"
    /\ call' = [call EXCEPT ![s] = "saved"]
    /\ pendingSaves' = pendingSaves \cup {s}
    /\ UNCHANGED <<app, optedIn, registry, queueVars, task, outcome, promptVars,
                   pendingRecents, saved, recorded, events>>

QueueSave(s) ==
    /\ app # "exited"
    /\ call[s] = "connected"
    /\ call' = [call EXCEPT ![s] = "saved"]
    /\ pendingSaves' = pendingSaves \cup ({s} \cap optedIn)
    /\ UNCHANGED <<app, optedIn, registry, queueVars, task, outcome, promptVars,
                   pendingRecents, saved, recorded, events>>

QueueRecent(s) ==
    /\ app # "exited"
    /\ call[s] = "saved"
    /\ call' = [call EXCEPT ![s] = "returned"]
    /\ pendingRecents' = pendingRecents \cup {s}
    /\ UNCHANGED <<app, optedIn, registry, queueVars, task, outcome, promptVars,
                   pendingSaves, saved, recorded, events>>

------------------------------------------------------------------------------
(* The main thread: the other commands. Each looks the session up and does
   nothing when it is not there. *)

Send(s, cmd) ==
    /\ MainIdle
    /\ cmd.op \in Ops
    /\ s \in registry
    /\ Len(inbox[s]) < MaxQueue
    /\ inbox' = [inbox EXCEPT ![s] = Append(@, cmd)]

Input(s) ==
    /\ typed[s] < MaxKeys
    /\ typed' = [typed EXCEPT ![s] = @ + 1]
    /\ Send(s, [op |-> "write", key |-> typed[s] + 1])
    /\ UNCHANGED <<mainVars, registry, hand, shell, task, outcome, promptVars,
                   storeVars, events>>

Resize(s) ==
    /\ Send(s, Cmd("resize"))
    /\ UNCHANGED <<mainVars, registry, hand, typed, shell, task, outcome, promptVars,
                   storeVars, events>>

(* Mutant of Disconnect: it also takes the session out of the registry, which
   is where cleanup looks to decide whether a status is still owed. *)
DisconnectAndForget(s) ==
    /\ Send(s, Cmd("disconnect"))
    /\ registry' = registry \ {s}
    /\ UNCHANGED <<mainVars, hand, typed, shell, task, outcome, promptVars,
                   storeVars, events>>

Disconnect(s) ==
    /\ Send(s, Cmd("disconnect"))
    /\ UNCHANGED <<mainVars, registry, hand, typed, shell, task, outcome, promptVars,
                   storeVars, events>>

(* The user answers the dialog that is open, the head of the chain, and the
   decision command runs. The sender may be gone: then nobody hears it. *)
HostKeyDecision(answer) ==
    LET s == Head(modals).session IN
    /\ MainIdle
    /\ modals # << >> /\ Head(modals).kind = "hostkey"
    /\ modals' = Tail(modals)
    /\ hostKeyTx' = hostKeyTx \ {s}
    /\ hostKeyRx' = IF s \in hostKeyTx THEN [hostKeyRx EXCEPT ![s] = answer] ELSE hostKeyRx
    /\ UNCHANGED <<mainVars, registry, queueVars, task, outcome, kbdTx, kbdRx, round,
                   storeVars, events>>

KbdAnswer ==
    LET s == Head(modals).session IN
    /\ MainIdle
    /\ modals # << >> /\ Head(modals).kind = "kbd"
    /\ modals' = Tail(modals)
    /\ kbdTx' = kbdTx \ {s}
    /\ kbdRx' = IF s \in kbdTx THEN [kbdRx EXCEPT ![s] = Head(modals).round] ELSE kbdRx
    /\ UNCHANGED <<mainVars, registry, queueVars, task, outcome, hostKeyTx, hostKeyRx,
                   round, storeVars, events>>

(* RunEvent::ExitRequested: ask every live session to disconnect. *)
DisconnectAll ==
    /\ MayQuit
    /\ MainIdle
    /\ app' = "quitting"
    /\ inbox' = [s \in Sessions |-> IF s \in registry
                                    THEN Append(inbox[s], Cmd("disconnect"))
                                    ELSE inbox[s]]
    /\ UNCHANGED <<call, optedIn, registry, hand, typed, shell, task, outcome, promptVars,
                   storeVars, events>>

(* The event loop returns and the process ends; no one waited for the tasks. *)
Exit ==
    /\ app = "quitting"
    /\ app' = "exited"
    /\ UNCHANGED <<call, optedIn, registry, queueVars, task, outcome, promptVars,
                   storeVars, events>>

------------------------------------------------------------------------------
(* The session task: connection and host key. *)

OnlyTask == UNCHANGED <<mainVars, registry, queueVars, outcome, promptVars, storeVars, events>>

TcpConnected(s) == Goto(s, "tcp", "kex") /\ OnlyTask

(* Refused, unreachable, or 20 seconds gone. *)
TcpFailed(s) == Goto(s, "tcp", "failing") /\ OnlyTask

(* The key exchange ends without the question put to the user: the stored key
   matches, or the exchange breaks (a key that cannot be encoded included). *)
KeyMatches(s) == Goto(s, "kex", "auth") /\ OnlyTask
KexFailed(s)  == Goto(s, "kex", "failing") /\ OnlyTask

(* Mutant of AskHostKey: the dialog replaces the one that is open. *)
ReplaceDialog(s) ==
    /\ Goto(s, "kex", "hostkey")
    /\ hostKeyTx' = hostKeyTx \cup {s}
    /\ modals' = <<HostKey(s)>>
    /\ UNCHANGED <<mainVars, registry, queueVars, outcome, hostKeyRx, kbdTx, kbdRx, round,
                   storeVars, events>>

(* check_server_key: unknown or changed; file the sender, emit the prompt. The
   renderer queues a dialog for it behind those already asked for. *)
AskHostKey(s) ==
    /\ Goto(s, "kex", "hostkey")
    /\ hostKeyTx' = hostKeyTx \cup {s}
    /\ modals' = Append(modals, HostKey(s))
    /\ UNCHANGED <<mainVars, registry, queueVars, outcome, hostKeyRx, kbdTx, kbdRx, round,
                   storeVars, events>>

HostKeyAnswered(s) ==
    /\ hostKeyRx[s] # "empty"
    /\ Goto(s, "hostkey", IF hostKeyRx[s] = "accept" THEN "trusting" ELSE "refusing")
    /\ hostKeyRx' = [hostKeyRx EXCEPT ![s] = "empty"]
    /\ UNCHANGED <<mainVars, registry, queueVars, outcome, hostKeyTx, kbdTx, kbdRx, round,
                   modals, storeVars, events>>

(* Mutant of HostKeyTimedOut: give up without taking the sender out of the map. *)
GiveUpOnHostKey(s) ==
    /\ hostKeyRx[s] = "empty"
    /\ Goto(s, "hostkey", "failing")
    /\ OnlyTask

(* Mutant of HostKeyTimedOut: await the answer without a timeout. *)
WaitForHostKey(s) == FALSE /\ Goto(s, "hostkey", "refusing") /\ OnlyTask

(* PROMPT_TIMEOUT, counted from the emission of the prompt. *)
HostKeyTimedOut(s) ==
    /\ hostKeyRx[s] = "empty"
    /\ Goto(s, "hostkey", "refusing")
    /\ OnlyTask

(* Take the sender out of the map (it is there after a timeout), then trust
   the key and go on, or refuse it, which ends the key exchange. *)
HostKeyVerdict(s) ==
    /\ Goto(s, "trusting", "auth") \/ Goto(s, "refusing", "failing")
    /\ hostKeyTx' = hostKeyTx \ {s}
    /\ UNCHANGED <<mainVars, registry, queueVars, outcome, hostKeyRx, kbdTx, kbdRx, round,
                   modals, storeVars, events>>

------------------------------------------------------------------------------
(* The session task: authentication, then the PTY and the shell. *)

PrimaryOk(s)     == Goto(s, "auth", "shell") /\ OnlyTask
PrimaryFailed(s) == Goto(s, "auth", "kbd") /\ OnlyTask

(* A transport error, an unreadable key file, no agent: no fallback. *)
AuthError(s) == Goto(s, "auth", "failing") /\ OnlyTask

KbdSuccess(s) == Goto(s, "kbd", "shell") /\ OnlyTask
KbdFailed(s)  == Goto(s, "kbd", "failing") /\ OnlyTask

(* ask_renderer: a round with prompts for the user. The map has one slot per
   session and the answer names the session alone. *)
AskKbd(s) ==
    /\ round[s] < MaxRounds
    /\ Goto(s, "kbd", "ask")
    /\ round' = [round EXCEPT ![s] = @ + 1]
    /\ kbdTx' = kbdTx \cup {s}
    /\ kbdRx' = [kbdRx EXCEPT ![s] = 0]
    /\ modals' = Append(modals, KbdRound(s, round[s] + 1))
    /\ UNCHANGED <<mainVars, registry, queueVars, outcome, hostKeyTx, hostKeyRx,
                   storeVars, events>>

(* Mutant of KbdAnswered: the prompt gets the timeout the host key has. *)
KbdAnsweredOrTimedOut(s) ==
    /\ Goto(s, "ask", "kbd")
    /\ kbdTx' = kbdTx \ {s}
    /\ kbdRx' = [kbdRx EXCEPT ![s] = 0]
    /\ UNCHANGED <<mainVars, registry, queueVars, outcome, hostKeyTx, hostKeyRx, round,
                   modals, storeVars, events>>

(* rx.await has no timeout; only an answer (or a cancel) moves it. *)
KbdAnswered(s) ==
    /\ kbdRx[s] # 0
    /\ Goto(s, "ask", "kbd")
    /\ kbdTx' = kbdTx \ {s}
    /\ kbdRx' = [kbdRx EXCEPT ![s] = 0]
    /\ UNCHANGED <<mainVars, registry, queueVars, outcome, hostKeyTx, hostKeyRx, round,
                   modals, storeVars, events>>

(* Mutant of ShellFailed: reported like the end of a session, not with fail. *)
ShellClosed(s) == Goto(s, "shell", "leaving") /\ OnlyTask

ShellOpened(s) == Goto(s, "shell", "saving") /\ OnlyTask
ShellFailed(s) == Goto(s, "shell", "failing") /\ OnlyTask

------------------------------------------------------------------------------
(* The session task: on_ready. *)

(* The keystore may refuse the secret; its verdict is not looked at. *)
SaveSecret(s) ==
    /\ Goto(s, "saving", "recording")
    /\ pendingSaves' = pendingSaves \ {s}
    /\ saved' \in {saved, saved \cup ({s} \cap pendingSaves)}
    /\ UNCHANGED <<mainVars, registry, queueVars, outcome, promptVars, pendingRecents,
                   recorded, events>>

RecordRecent(s) ==
    /\ Goto(s, "recording", "announcing")
    /\ pendingRecents' = pendingRecents \ {s}
    /\ recorded' = recorded \cup ({s} \cap pendingRecents)
    /\ UNCHANGED <<mainVars, registry, queueVars, outcome, promptVars, pendingSaves,
                   saved, events>>

Announce(s) ==
    /\ Goto(s, "announcing", "loop")
    /\ Emit(s, "ready")
    /\ UNCHANGED <<mainVars, registry, queueVars, outcome, promptVars, storeVars>>

------------------------------------------------------------------------------
(* The session task: the select loop. Either branch may win; a command that
   was received is carried out before the loop looks again. *)

(* Eof, Close, or the end of the channel. Commands left in the inbox are lost. *)
ChannelClosed(s) == Goto(s, "loop", "leaving") /\ OnlyTask

TakeCommand(s) ==
    /\ inbox[s] # << >>
    /\ Goto(s, "loop", "sending")
    /\ hand' = [hand EXCEPT ![s] = Head(inbox[s])]
    /\ inbox' = [inbox EXCEPT ![s] = Tail(@)]
    /\ UNCHANGED <<mainVars, registry, typed, shell, outcome, promptVars, storeVars, events>>

(* The command in hand went out: keystrokes reach the shell, eof ends the loop. *)
Sent(s) ==
    /\ Goto(s, "sending", IF hand[s].op = "disconnect" THEN "leaving" ELSE "loop")
    /\ shell' = IF hand[s].op = "write"
                THEN [shell EXCEPT ![s] = Append(@, hand[s].key)] ELSE shell
    /\ hand' = [hand EXCEPT ![s] = NoCommand]
    /\ UNCHANGED <<mainVars, registry, inbox, typed, outcome, promptVars, storeVars, events>>

(* Mutant of SendFailed: the error of a write is ignored like the others. *)
IgnoreSendError(s) ==
    /\ Goto(s, "sending", IF hand[s].op = "disconnect" THEN "leaving" ELSE "loop")
    /\ hand' = [hand EXCEPT ![s] = NoCommand]
    /\ UNCHANGED <<mainVars, registry, inbox, typed, shell, outcome, promptVars, storeVars,
                   events>>

(* It did not: a failed write ends the session, a failed resize is ignored. *)
SendFailed(s) ==
    /\ Goto(s, "sending", IF hand[s].op = "resize" THEN "loop" ELSE "leaving")
    /\ hand' = [hand EXCEPT ![s] = NoCommand]
    /\ UNCHANGED <<mainVars, registry, inbox, typed, shell, outcome, promptVars, storeVars,
                   events>>

------------------------------------------------------------------------------
(* The session task: fail, the end of run_session, and cleanup. *)

(* Mutant of Leave: cleanup is not told with which status the session ended. *)
LeaveUntold(s) == Goto(s, "leaving", "taking") /\ OnlyTask

Leave(s) ==
    /\ Goto(s, "leaving", "taking")
    /\ outcome' = [outcome EXCEPT ![s] = "closed"]
    /\ UNCHANGED <<mainVars, registry, queueVars, promptVars, storeVars, events>>

(* Mutant of Fail: report the message and return, without cleanup. *)
FailWithoutCleanup(s) ==
    /\ Goto(s, "failing", "done")
    /\ outcome' = [outcome EXCEPT ![s] = "error"]
    /\ Emit(s, "message")
    /\ UNCHANGED <<mainVars, registry, queueVars, promptVars, storeVars>>

Fail(s) ==
    /\ Goto(s, "failing", IF s \in registry THEN "taking" ELSE "done")
    /\ outcome' = [outcome EXCEPT ![s] = "error"]
    /\ IF s \in registry THEN Emit(s, "message") ELSE UNCHANGED events
    /\ UNCHANGED <<mainVars, registry, queueVars, promptVars, storeVars>>

(* cleanup: only who removes the session goes on to announce its end. *)
Take(s) ==
    /\ Goto(s, "taking", IF s \in registry THEN "dropSave" ELSE "done")
    /\ registry' = registry \ {s}
    /\ UNCHANGED <<mainVars, queueVars, outcome, promptVars, storeVars, events>>

DropSave(s) ==
    /\ Goto(s, "dropSave", "dropRecent")
    /\ pendingSaves' = pendingSaves \ {s}
    /\ UNCHANGED <<mainVars, registry, queueVars, outcome, promptVars, pendingRecents,
                   saved, recorded, events>>

DropRecent(s) ==
    /\ Goto(s, "dropRecent", "draining")
    /\ pendingRecents' = pendingRecents \ {s}
    /\ UNCHANGED <<mainVars, registry, queueVars, outcome, promptVars, pendingSaves,
                   saved, recorded, events>>

(* drain_session answers what is still pending, the last status goes out, and
   the task returns; commands it never read go with its receiver. *)
Drain(s) ==
    /\ Goto(s, "draining", "done")
    /\ hostKeyTx' = hostKeyTx \ {s}
    /\ hostKeyRx' = IF s \in hostKeyTx THEN [hostKeyRx EXCEPT ![s] = "reject"] ELSE hostKeyRx
    /\ kbdTx' = kbdTx \ {s}
    /\ kbdRx' = IF s \in kbdTx THEN [kbdRx EXCEPT ![s] = round[s]] ELSE kbdRx
    /\ Emit(s, outcome[s])
    /\ inbox' = [inbox EXCEPT ![s] = << >>]
    /\ UNCHANGED <<mainVars, registry, hand, typed, shell, outcome, round, modals, storeVars>>

------------------------------------------------------------------------------
(* The specification, and what may be assumed to happen. *)

UserStep == (\E answer \in {"accept", "reject"} : HostKeyDecision(answer)) \/ KbdAnswer

CallStep(s) == QueueSave(s) \/ QueueRecent(s)

(* What a task does by itself once scheduled, its two timers included. *)
TaskStep(s) ==
    \/ TcpConnected(s) \/ TcpFailed(s)
    \/ HostKeyAnswered(s) \/ HostKeyTimedOut(s) \/ HostKeyVerdict(s)
    \/ KbdAnswered(s)
    \/ SaveSecret(s) \/ RecordRecent(s) \/ Announce(s)
    \/ TakeCommand(s)
    \/ Fail(s) \/ Take(s) \/ DropSave(s) \/ DropRecent(s) \/ Drain(s)

(* What it can do only when the server, or the connection to it, moves. *)
ServerStep(s) ==
    \/ KeyMatches(s) \/ KexFailed(s) \/ AskHostKey(s)
    \/ PrimaryOk(s) \/ PrimaryFailed(s) \/ AuthError(s)
    \/ KbdSuccess(s) \/ KbdFailed(s) \/ AskKbd(s)
    \/ ShellOpened(s) \/ ShellFailed(s)
    \/ Sent(s) \/ SendFailed(s) \/ Leave(s)

Request(s) == Connect(s) \/ Input(s) \/ Resize(s) \/ Disconnect(s)

(* Nothing is left to run: the process is gone, or every task has ended and
   no dialog is open. *)
Rest ==
    /\ app # "running" \/ modals = << >>
    /\ app = "exited" \/ \A s \in Sessions : task[s] \in {"idle", "done"}
    /\ UNCHANGED vars

Next ==
    \/ \E s \in Sessions :
          Request(s) \/ CallStep(s) \/ TaskStep(s) \/ ServerStep(s) \/ ChannelClosed(s)
    \/ UserStep
    \/ DisconnectAll
    \/ Exit
    \/ Rest

Spec == Init /\ [][Next]_vars

(* The runtime schedules every task that can run, and the main thread finishes
   the command it is in. Neither the server nor the user owes anything. *)
FairSpec == Spec /\ \A s \in Sessions : WF_vars(CallStep(s)) /\ WF_vars(TaskStep(s))

(* A server that keeps answering and a user who answers every dialog. *)
Responsive == WF_vars(UserStep) /\ \A s \in Sessions : WF_vars(ServerStep(s))

------------------------------------------------------------------------------
(* Safety. *)

AfterLogin == {"saving", "recording", "announcing", "loop", "sending", "leaving"}
Ending     == {"taking", "dropSave", "dropRecent", "draining", "done"}
Before     == {"idle", "tcp", "kex", "hostkey", "trusting", "refusing", "auth", "kbd", "ask",
               "shell", "failing"}

(* Every variable keeps its type. *)
TypeOK ==
    /\ app \in {"running", "quitting", "exited"}
    /\ call \in [Sessions -> {"none", "connected", "saved", "returned"}]
    /\ optedIn \subseteq Sessions /\ registry \subseteq Sessions
    /\ inbox \in [Sessions -> Seq(Command)]
    /\ hand \in [Sessions -> Command \cup {NoCommand}]
    /\ typed \in [Sessions -> 0..MaxKeys]
    /\ shell \in [Sessions -> Seq(0..MaxKeys)]
    /\ task \in [Sessions -> Before \cup AfterLogin \cup Ending]
    /\ outcome \in [Sessions -> {"none", "closed", "error"}]
    /\ hostKeyTx \subseteq Sessions /\ kbdTx \subseteq Sessions
    /\ hostKeyRx \in [Sessions -> {"empty", "accept", "reject"}]
    /\ kbdRx \in [Sessions -> 0..MaxRounds]
    /\ round \in [Sessions -> 0..MaxRounds]
    /\ modals \in Seq(Dialog)
    /\ pendingSaves \subseteq Sessions /\ pendingRecents \subseteq Sessions
    /\ saved \subseteq Sessions /\ recorded \subseteq Sessions
    /\ events \in [Sessions -> Seq({"connecting", "ready", "message", "error", "closed"})]

(* The backend keeps its promise to the renderer (SessionContract): one order
   of events for a session that came up, one for a session that did not, the
   last status once and after deregistration, nothing stored for a failure. *)
Contract == INSTANCE SessionContract WITH live <- registry
ContractKept == Contract!Spec

(* kbd_answer names a session and not a prompt, and the dialogs open one after
   the other, perhaps long after their prompts: the answers a task takes are
   nevertheless those given to the prompt it is waiting for. *)
AnswersMatchPrompt ==
    \A s \in Sessions : task[s] = "ask" /\ kbdRx[s] # 0 => kbdRx[s] = round[s]

(* A sender is filed only while its own task waits, so none outlives its
   session, and drain_session finds nothing to abort. *)
PromptsAreAwaited ==
    \A s \in Sessions :
        /\ s \in hostKeyTx => task[s] \in {"hostkey", "trusting", "refusing"}
        /\ s \in kbdTx => task[s] = "ask"

(* A task that waits for the user has its dialog in the renderer's chain: the
   serialised modals lose no prompt. *)
EveryPromptHasADialog ==
    \A s \in Sessions :
        /\ task[s] = "hostkey" /\ hostKeyRx[s] = "empty" =>
             \E i \in 1..Len(modals) : modals[i] = HostKey(s)
        /\ task[s] = "ask" /\ kbdRx[s] = 0 =>
             \E i \in 1..Len(modals) : modals[i] = KbdRound(s, round[s])

(* A secret is in the keystore only for a session that asked for it and has
   logged in (README.md:116), however ssh_connect and the task interleave. *)
SavedByConsent ==
    \A s \in saved : s \in optedIn /\ task[s] \in AfterLogin \cup Ending

(* As long as a task runs, its session can be found and told to disconnect. *)
LiveIsReachable ==
    \A s \in Sessions :
        task[s] \notin {"idle", "dropSave", "dropRecent", "draining", "done"} => s \in registry

(* Keystrokes reach the shell in the order typed, none twice and none skipped;
   only a tail can be lost, when the session ends. *)
KeysInOrder ==
    \A s \in Sessions : \A i \in 1..Len(shell[s]) : shell[s][i] = i

------------------------------------------------------------------------------
(* Liveness. *)

Over(s) == events[s] # << >> /\ events[s][Len(events[s])] \in {"closed", "error"}

(* A host-key prompt ends although neither user nor server does anything. *)
HostKeyPromptEnds ==
    \A s \in Sessions : task[s] = "hostkey" ~> task[s] # "hostkey" \/ app = "exited"

(* Once a session has failed or left its loop's network calls, the renderer
   gets its last status, whoever else holds a map at that moment. *)
EndIsTold ==
    \A s \in Sessions : task[s] \in {"failing", "taking"} ~> Over(s) \/ app = "exited"

(* A disconnect, requested at any time after ssh_connect, ends the session,
   given a server that answers and a user who does. *)
DisconnectEnds ==
    Responsive =>
        \A s \in Sessions :
            Cmd("disconnect") \in {inbox[s][i] : i \in 1..Len(inbox[s])}
                ~> Over(s) \/ app # "running"

(* A prompt during login has a timeout of its own (the comment at
   src-tauri/src/session/auth.rs:33): it does not wait for the user for ever. *)
KbdPromptEnds ==
    \A s \in Sessions : task[s] = "ask" ~> task[s] # "ask" \/ app # "running"

==============================================================================
