# Verification of simple-ssh

TLA+ models of [simple-ssh](../src/README.md), an SSH client made of a Rust backend
(Tauri, tokio, russh) and a TypeScript renderer; the TLC runs that check them; and
proofs, checked by TLAPS, of the invariants that hold for every size of system.
`PROJECT.json` maps every definition to the lines it translates, and every property to a
mutant of the code that breaks it. Paths below are relative to `src/`.

## 1. The system

The **main thread** of the backend runs Tauri commands one at a time (all of them are
synchronous functions). Each SSH session is a **tokio task** on a worker thread; each
port forward and each tunneled connection is a task of its own. They share maps behind
mutexes (`AppState`, `SessionManager`), talk through channels, and reach the
**renderer** by events. The renderer is one JavaScript thread whose handlers interleave
at every `await`.

| component | state it keeps | operations | talks to |
|---|---|---|---|
| session manager and task, `src-tauri/src/session/mod.rs` | registry of senders, one command channel per session, tokens of forwards, where each task is | connect, write, resize, disconnect, disconnect_all, add/stop forward; on_ready, fail, cleanup | commands (calls), renderer (events), every store |
| commands, `src-tauri/src/commands.rs` | none of its own | ssh_*, hostkey_decision, kbd_answer, forward_*, secret_*, profiles_*, recents_list, ssh_config_import | renderer (invoke), everything behind it |
| application state, `src-tauri/src/state.rs` | prompt maps, pending secrets, pending recents, stores | drain_session, migration of old files | shared by all tasks |
| host-key check, `src-tauri/src/session/handler.rs` | a oneshot per prompt | check_server_key: look up, ask, wait 300 s, trust | known hosts, renderer |
| known hosts, `src-tauri/src/known_hosts.rs` | entries, JSON file | check, trust, save, load | handler |
| authentication, `src-tauri/src/session/auth.rs` | a oneshot per round, whether the password has answered a prompt | TCP connect with timeout, primary method, keyboard-interactive fallback | server, renderer |
| forwards, `src-tauri/src/session/forward.rs` | listener, connections | bind, accept, tunnel, cancel | operating system, server, renderer |
| profiles and recents, `src-tauri/src/profiles.rs` | profiles, 8 recents, JSON file | save, delete, record_recent, load | commands, on_ready |
| importer, `src-tauri/src/ssh_config.rs` | none | parse | ssh_config_import |
| secrets, `src-tauri/src/secrets.rs` | the OS keystore | has, set, get, delete | commands, on_ready |
| tabs, `src/renderer/tabs.ts` | array of tabs, bar, active tab, map from session to tab, each tab's session and forwards | new, activate, close, duplicate, drag, connect, setStatus, dispose | backend (invoke, events) |
| routing and dialogs, `src/renderer/main.ts` | modalChain, a promise that serialises dialogs | show prompt, answer | tabs, backend |
| connect form, `src/renderer/connect-form.ts` | fields, hint, list of profiles | submit, activate, edit, delete, import, refresh | backend, its tab, the other forms |
| terminal pane, `src/renderer/terminal.ts`, `ssh-api.ts` | the grid of xterm.js, a ResizeObserver, a channel per session | fit, resize, write, apply settings | its tab, backend |
| forwards panel, `src/renderer/forwards-panel.ts` | what it shows of the tab it was rendered for | open, render, add, stop | active tab, backend |
| settings, `src/renderer/settings.ts`, `settings-dialog.ts`, `themes.ts` | current settings, localStorage, the dialog's controls | load, update, notify | page, every terminal, dialog |
| context menu, find bar, clipboard | open or not | presentation | — |

**What is hard here**, and what makes each part correct:

* *A task is spawned before its creator is done.* ssh_connect calls connect, which
  spawns, and only then fills the pending maps; the task may log in, fail or clean up in
  between. Correct means: events in one fixed order, last status once and after
  deregistration, secrets stored only for a session that logged in and asked for it.
* *Prompts make a round trip.* A login files a oneshot sender under its session id, emits
  an event, waits; the renderer opens dialogs one after another for all sessions; the
  answer names the session only. One prompt has a timeout, the other has none. Correct
  means: answers reach the prompt they were given to, no prompt is lost, nobody waits
  for an answer that cannot come.
* *Check, wait minutes, act.* Known hosts are read before the question and written after
  the answer, while other handshakes do the same, and the file is truncated in place.
  Correct means: no key trusted without consent, no consent lost without a failed write.
* *Forwards have lives of their own.* Token, listener, tunnels and the row in the list
  belong to four tasks. Correct means: cancelling reaches all of them, none outlives its
  session, the list shows what listens.
* *The tab may be gone when the answer comes.* connect, saved-secret lookups and drags
  span awaits and callbacks, during which tabs close, reconnect and move. Correct means:
  the bar and the array agree, and events of a session reach the tab that shows it.
* *A store written in place by several users.* Profiles change from any form and from an
  import of many, recents from session tasks, and every write may fail silently or be
  cut short by a crash. Correct means: file, recents and forms follow the store.

* *A form is read twice.* handleSubmit and the buttons of saved profiles check fields,
  ask the backend whether a secret is saved, and read fields again after the answer,
  while the user types, other answers arrive and other tabs' logins save secrets. Correct
  means: a password request goes out only with a password typed or saved, whatever is edited
  meanwhile; the hint, once it has settled, tells the truth.
* *A secret passes through many hands.* Typed in a form or taken from the keystore, it is
  put into the request, offered by up to three methods, used to answer a prompt by itself,
  and saved under an id, the text `pw:user@host:port`. Correct means: it reaches only the target
  or file it was typed for, whatever "@" and ":" the texts have in them, and what is saved
  has logged in.
* *One stream, three paths.* Output comes by a channel, statuses by events, the session
  id by a promise; sizes go back by commands while the tab is hidden, connecting or
  reconnecting. Correct means: the terminal misses nothing in between, and the remote PTY
  ends up with the size of the grid.
* *Settings come from anywhere.* localStorage holds what an earlier version left, or an
  editor; a write may fail. Correct means: every field is within its type and bounds,
  everything that shows the settings agrees, and a restart brings them back. The scheme falls
  short of the first: `sanitize` lets an inherited name through.

## 2. Modules

| module | what it is | code |
|---|---|---|
| `SessionContract` | what the renderer may rely on, per session: order of events, registry, what is stored when | abstract |
| `SessionManager` | lifecycle, command channels, prompts, dialogs, pending maps, quitting | session/mod.rs, state.rs, commands.rs, auth.rs, handler.rs, lib.rs, main.ts |
| `HostKeyTrust` | the verdict, the question and the store, with crashes | handler.rs, known_hosts.rs, state.rs |
| `Authentication` | which secret a login uses, whom it is given to, which one is saved | auth.rs, commands.rs, secrets.rs, session/mod.rs |
| `ForwardContract` | what a forward promises: order of its events, one forward to a port, what may stop it and what must have by the end of its session | abstract |
| `PortForwards` | tokens, accept loops, tunnels, status events, the list of the tab, the panel | session/mod.rs 260-322, forward.rs, forwards-panel.ts, tabs.ts |
| `TabManager` | tabs, bar, routing, awaits of connect and of clicks, drag | tabs.ts, main.ts, connect-form.ts |
| `ConnectForm` | fields, hint, lookups, and the request that comes of them | connect-form.ts, commands.rs |
| `TerminalPane` | pane, grid, remote PTY, output and its routing | terminal.ts, tabs.ts, ssh-api.ts |
| `Settings` | the values of each field, repair, palettes: operators only | settings.ts, themes.ts |
| `Appearance` | the store, its copy in localStorage, and what shows it; EXTENDS `Settings` | settings.ts, settings-dialog.ts, main.ts, tabs.ts, terminal.ts |
| `SshConfig` | the parser, a recursive function of the lines, and what a text says | ssh_config.rs |
| `ProfileStore` | profiles, recents, file, import, the forms' lists; EXTENDS `SshConfig` | profiles.rs, commands.rs 174-256, connect-form.ts |
| `MC*` | instances for TLC | |
| `*Proofs` | theorems and their proofs | |

`SessionManager` composes the backend with the renderer's dialogs, and implements
`SessionContract` (`Contract == INSTANCE SessionContract WITH live <- registry`, the
other variables having the same names). In the same way `PortForwards` implements
`ForwardContract`: its `phase` is the task's place with queued, spawned and bound taken as one,
its `revoked` the cancelled tokens, its `connections` the tunnels however far they have got. `HostKeyTrust` refines one place of it: its pc
`asking` is the task's `hostkey`, its `trusting`, `saving` and `writing` the task's `trusting`.
`PortForwards` and `TabManager` use a session as the contract presents it: it may become
ready, it ends once. `PortForwards` and `TabManager` both have `Tab.setStatus` and
`Tab.dispose`, the first for the list of forwards, the second for routing; `TerminalPane`
has `Tab.connect` and `Tab.setStatus` a third time, for sizes and output, of one tab
that is never closed. `Authentication` is the inside of the step of `SessionManager`
in which a login succeeds or fails; there prompts are messages, here they are questions
with a secret for an answer. `ConnectForm` is one form with the keystore reduced to what
is saved; what its request contains is what `Authentication` starts from.

### How state and actions correspond to code

* A task's place (`task`, `session`, `pc`) is the `await` or the critical section it is
  at. One action is what runs from there to the next: a lock region, or a network call
  with its outcome. The map entry of the action names those lines.
* A command is one action, since commands are synchronous and Tauri runs them on the main
  thread. `ssh_connect` is the exception: the task it spawned runs meanwhile, so it is
  `Connect`, `QueueSave`, `QueueRecent`.
* A oneshot is two pieces of state: the sender in the map (`hostKeyTx`, `kbdTx`) and what
  the receiver will find (`hostKeyRx`, `kbdRx`). For keyboard-interactive the model also
  numbers the rounds, which the code does not, to state that answers are not mixed up.
* A JavaScript handler is one action up to its first `await`, and another after it.
* A file is `disk`, with a value for a file that does not parse. A save may succeed, be
  refused, or be cut short, and the process may die within it.
* In `ProfileStore` an operation is the sequence of values it saves (an import saves after
  each host), and a crash leaves any of them in the file.
* A queue of `invoke`s (`calls` of `ConnectForm` and `ProfileStore`) has each command with
  what its handler captured before the await; a handler goes on with that record and with
  the fields as they are then, as the closures of the code do.
* A grid is known by how large it is. Sizes only grow, so that a resize that was lost
  stays lost and cannot be made good by returning to an earlier size.
* A text whose parts matter (user, host, the ids of saved secrets) is a sequence of words
  and of the characters "@" and ":" between them, so that `PasswordId` concatenates as
  `password_id` does, and two ids are equal exactly if the strings are.
* An object of settings is a function from fields to values, a stored document one with
  any of the fields and any values; the spread operator is `Merge`.
* FORWARDS_CHANGED and the settings store's listeners run within the handler that
  dispatches to them, so rendering is part of that handler's action.
* History variables (`consents`, `used`, `stale`, `typed`, ...) are marked as such or
  count what was sent; no guard of the code's model depends on them except for bounds.

## 3. Runs

All state counts are of distinct states with the constants of the `.cfg`. Passing runs
check for deadlock; systems that may come to rest have an explicit `Rest` step that
says when.

| run | module | question | states |
|---|---|---|---|
| `session_pair` | SessionManager | two sessions in all interleavings: types, AnswersMatchPrompt, PromptsAreAwaited, EveryPromptHasADialog, SavedByConsent, LiveIsReachable, and refinement of the contract | 203,698 |
| `session_single` | SessionManager | one session, three kinds of commands, quitting: KeysInOrder, HostKeyPromptEnds, EndIsTold, DisconnectEnds | 90,582 |
| `host_keys` | HostKeyTrust | two handshakes, two hosts, three keys, crashes and restarts: OnlyConsented, AcceptedByConsent, StoreIsCurrent | 678,721 |
| `auth` | Authentication | two logins at targets that differ by their port only, or whose ids are the same: SecretsStayHome, SavedSecretsWork | 896,510 |
| `forwards` | PortForwards | NoOrphanForward, ListFollowsForwards, PanelShowsList, CancelReleases, EveryAddHasAnOutcome, and refinement of the contract (PromiseKept) | 312,345 |
| `tabs` | TabManager | BarShowsTabs, RoutesAgree, WaitsForSomething, ActiveIsOpen | 984,706 |
| `connect_form` | ConnectForm | edits, submits, profiles and logins overlapping with lookups: HintIsTrue, RequestIsChecked | 1,012,400 |
| `terminal` | TerminalPane | window, font, tab and session changing in any order: SizesFollow, OutputHasNoGap | 5,537,848 |
| `appearance` | Appearance, Settings | malformed documents, failed writes, restarts: AppearanceTypeOK, ShownEverywhere, RestartKeepsSettings, PaletteIsDefined | 165,960 |
| `profiles` | ProfileStore, SshConfig | types, FileFollows, RecentsAreLatest, FormsShowProfiles, ImportAddsEachOnce, ParsesAsWritten | 123,156 |

### Bounds

* `session_pair`: two sessions are what it takes for one task to run during the other's
  ssh_connect and for one dialog to wait behind another; two rounds of
  keyboard-interactive, for an answer to be late by one. Sessions are symmetric. Queues
  hold one command (only `disconnect` is sent; order in the queue is the other run's).
* `session_single`: three keystrokes and a queue of three, so that a failing send can be
  followed by more; every command; the user may quit at any moment.
* `host_keys`: two handshakes suffice for a verdict to be stale; three keys for
  a third to replace what two agreed on; two hosts for entries of one to be lost with the other's.
  The run starts from every possible file, so earlier history needs no steps.
* `auth`: two logins, so that one saves what the other finds; user `ann@bob` of host `web` by
  two ports, since ids that forget a part of the target are what could mix secrets up, and
  user `ann` of host `bob@web`, whose id is that of `ann@bob` of `web`; one key
  file, that may be encrypted or not; two secrets, one right and one wrong anywhere; two
  rounds, for a password that has answered a prompt to meet another. Sessions and secrets
  are symmetric. Deadlock is
  not checked: when all logins are over nothing is left to do.
* `forwards`: one session, since tokens and lists are per session and sessions share only
  ports, with a second tab that has no session, for the panel to be rendered for the
  wrong one; two forwards on two ports, which include two on one (the first asks for
  `p1`: ports are interchangeable, and liveness rules symmetry out); two queued commands,
  so that a stop follows an add in the channel; one connection at a time, each having
  its own task and no state in common with others. Ids are used once, as UUIDs are.
* `tabs`: three tabs for a drag to have a middle, two sessions; `MaxMade` bounds tabs and
  sessions together at four, `MaxAsked` lookups of saved secrets at two. Closing a tab,
  its replacement, and a late answer fit.
* `connect_form`: two targets, one key file, both boxes; users act while at most two
  commands are unanswered, which with the two of `Activate` lets three lookups overlap. A secret may
  be saved for anything at first and by any tab later.
* `terminal`: two sessions, for a reconnect to meet the end of the one before; two sizes of
  the window and two of the font, so that each change can come before, between and after
  the other's; three chunks, for a gap to have two sides.
* `appearance`: two tabs, which may be closed and opened again; font sizes 8 to 10 out of
  8 to 32, the shortcuts step through all of them; the other numbers keep the bounds of the
  code. The documents a renderer may find have every field malformed, numbers below and above their
  bounds, fields missing, or the inherited scheme name. The dialog enters numbers out of
  bounds, blank text, and valid values of the other kinds of field.
* `profiles`: two forms; two profiles or three recorded connections, or one of each (the
  two share nothing but the file), with a recents list of two, so that it overflows,
  and two commands under way at once. The parser is checked on all 11,111 texts of up to
  four of ten lines (two Host blocks with shared and case-folded names, a pattern, a
  Match, a Port that does not parse and two that do, other directives), four lines
  being enough for a block to be followed by another with one directive in each.
  `ReadsAsWritten` is a fact about the operators; `ParsesAsWritten` states it where an
  import is called for, which makes it an invariant TLC can refute.

### Runs that disagree with what the repository says

| run | property | what TLC shows |
|---|---|---|
| `kbd_prompt` | KbdPromptEnds | a keyboard-interactive dialog nobody answers keeps its login alive for ever; `src-tauri/src/session/auth.rs:33` says the prompts have "their own timeouts" |
| `silent_change` | NoSilentChange | two handshakes with a new host that offers different keys: the second acceptance replaces the first key with no changed-key warning; `README.md:118` |

### Also seen while modelling

These are in the models, where the properties name them as exceptions, or follow from
the code next to them. None has a run of its own.

* A task that fails before ssh_connect fills the pending maps cleans up too early: the
  secret stays in memory (`src-tauri/src/commands.rs:66`). It is never stored, which `SavedByConsent` says.
* After a failed save of a changed host key, a restart brings the superseded key back
  without a word (`StoreIsCurrent` holds only until a save fails; `AUDIT.md:20` considers
  only that the new key is asked about again).
* A mistyped password is saved when keyboard-interactive then succeeds by other means
  (`src-tauri/src/commands.rs:50`; `unproved` in `SavedSecretsWork`).
* Ids of saved passwords can collide (`src-tauri/src/secrets.rs:13`, `AUDIT.md:19`): `ann@bob` of
  `web` and `ann` of `bob@web` share one, and the password saved for one is then given to the other.
  `ShareEntry` is the exception in `SecretsStayHome` and `SavedSecretsWork`, and needs an "@" in a
  host, which no name service is known to resolve, though nothing in the code forbids it: an
  "@" or ":" in a user alone makes no collision, as `SecretsGoHomeExactly` proves.
* Two connects can start from one form; the tab keeps the session that answers last, and
  nothing in it can end the other (`src/renderer/tabs.ts:225`).
* A prompt for a tab that was closed while it connected brings the closed tab to the
  front; closing the last tab then leaves none (`src/renderer/main.ts:79`,
  `src/renderer/tabs.ts:447`). So does a click on the button of a tab that was closed
  while it was dragged, which the next pointermove puts back. `ActiveIsOpen` says that these are the only two ways.
* A status that overtakes the answer to ssh_connect is dropped; if it was the last, the tab
  shows "connecting" for good (`early` in `WaitsForSomething`).
* A resize between Tab.connect and its answer reaches no session (`missed` in `SizesFollow`).
* Fields edited while a submit waits for its lookup go into the request unchecked
  (`edited` in `RequestIsChecked`); the hint can be set past a lookup that is still under
  way (`overtaken` in `HintIsTrue`).
* A scheme stored as "toString" or another inherited name has an undefined palette
  (`src/renderer/themes.ts:187`), and such settings are not the "valid settings"
  `src/renderer/settings.ts:57` says sanitize makes, nor of the type `AppSettings`. `AppearanceTypeOK`
  lets the scheme be such a name; `PaletteIsDefined` says that nothing but storage can bring one in, and
  `SettingsHaveTheirType` that without one in storage the settings are of their type.
* The forwards panel adds to the session of the active tab, which need not be the one whose
  rows it shows; the Dismiss button of a forward whose bind failed does nothing
  (`src/renderer/forwards-panel.ts:104`, `117`).
* "Save as profile" always makes a new profile, so a second submit of one form saves two
  of the same name, unlike an import.

### Fairness

* `SessionManager` (`FairSpec`): weak fairness of `CallStep` (the main thread finishes the
  command it is in) and of `TaskStep` (the runtime polls every task whose future is
  ready, and the 300-second timeout of the host-key prompt fires). Nothing is assumed of
  the server or the user; `DisconnectEnds` needs both, and says so with `Responsive` as
  its antecedent, since the task reads its channel only between network calls.
* `PortForwards` (`FairSpec`): weak fairness of the forward's own task, of a tunnel that
  waits for its cancelled token, and of the renderer's event loop. No fairness of the
  server: a tunnel whose channel is being opened may stay there, and `CancelReleases`
  speaks of the listener, the open tunnels and the list. `EveryAddHasAnOutcome` has the
  fairness of the session's task as its antecedent, because that task answers commands
  only after the server has let it in.
* The other modules state safety only.

## 4. Proofs

All theorems are proved from the `ASSUME`s of the modules (bounds are naturals, `NoKey`
is not a key), for every set of sessions, hosts, keys, forwards, ports, tabs, targets,
secrets, profiles, forms, texts and all bounds. Each component has its proofs in a module of
its own, but for the terminal and the settings, which share `ViewProofs`.

* **Session lifecycle** (`SessionManagerProofs`). `TypeOK` is not inductive: `Finish`
  emits `outcome[s]`, so the type needs `OutcomeKnown`, that a task in cleanup has an
  outcome. `LifecycleHolds` proves `Lifecycle`: the place of the task determines which events
  are out, whether the session is registered, and what can be stored. From it follow
  `SavesAreConsented`, `RunningIsReachable`, and `ContractImplemented`: initial states
  map to initial states and each step is a step of `SessionContract` or leaves its
  variables alone. The contract's `Report` demands that nothing was stored for a failed session, which
  holds only because `Lifecycle` says that nothing is stored before login.
* **Prompts and keystrokes** (same module). `PromptInv` ties each place where a
  task waits to its sender, its oneshot and its dialog, and says that a dialog of an
  earlier round cannot be in the chain when a later round waits; hence
  `AnswersAreMatched`, `NoOrphanPrompt`, `PromptsAreShown`. `KeyInv` says that shell, hand and
  inbox hold consecutive keystrokes until the session leaves its loop: `KeysArriveInOrder`.
* **Host keys** (`HostKeyTrustProofs`). `TrustInv`, the conjunction of the run's invariants
  and the types (`TrustTypes`), is inductive as it stands, the mutex (`StoreUnlocked`) and what each pc implies being part
  of them: `StoredByConsent`, `HandshakesAreConsented`, `RestartIsNeutral`.
* **Secrets** (`AuthenticationProofs`). `SecretsStayHome` speaks of what was offered, and is
  preserved only if what may be offered next was typed for a place with the same id. `AuthInv`
  says so of the three places that hold secrets: the request of each login, its pending
  save, and the keystore under the id of the target or file. From ids back to places leads
  `SameIdIsShared`: the "@" after the longer of two users would be in the other's host, so
  without an "@" in a host users, hosts and ports of one id are equal (`LongestUser`,
  `PasswordIdsDiffer`): `SecretsGoHome` and `SecretsGoHomeExactly`. `SavedSecretsWork` needs
  of `AuthInv` only that a pending save is the secret of
  the login's own request: whether that is right is known at the step that saves it.
* **Forwards** (`PortForwardsProofs`). `ForwardInv` adds to `NoOrphanForward` that an
  `AddForward` waits in the channel of its own session (a token must land with the session
  that will cancel it) and that tunnels are counted once: `ForwardTypes`, `NoForwardIsOrphaned`.
  `PanelIsTrue`: every change of a list either renders the panel or is of a tab that is
  closed; this is checked with one session and proved for any number. `ListIsTrue` needs
  `ListInv`, which says what is on the wire: events about a forward travel with those of
  its session, what they tell has happened, a stop comes after all else, and what a list
  does not say yet is on its way to it.
* **The contract of forwards** (same module). `PromiseIsKept` needs `PromiseInv` besides:
  rows are shown for the session of their forwards, so a stop waits in that session's channel and
  revokes nothing of another; tokens are of forwards that were begun, in a session that has
  not ended; no two forwards hold one port. That no session ends with a forward serving that nobody
  revoked is `NoOrphanForward` once more, at the step of `Cleanup`.
* **Tabs** (`TabManagerProofs`). `LinkInv` is `RoutesAgree` with the types of the two
  maps; each step sets both in the same way, or leaves a session out of both: `EventsAreRouted`.
  `BarInv` adds to `BarShowsTabs` that array, bar and drag are of tabs there have been and
  that no tab is twice in the array, without which closing one would leave its double; a drop
  sorts the array by the bar, of which the proof uses only that it keeps the members and puts
  them in the bar's order: `BarAndArrayAgree`. `AnswerInv` says that a session nobody has
  answered for still has something to report, or has reported too early, and that none
  whose end was handled is routed: `NoTabWaitsForNothing`. `MadeInv` keeps all of it off
  tabs still to be made. All parts together, `TabInv`, are inductive; `TheActiveTabIsOpen`
  and `TabsTyped` follow.
* **Connect form** (`ConnectFormProofs`). `FormInv` says what each pending call still knows
  when its answer comes, whatever the user did meanwhile: `RequestsAreChecked`. For
  `HintTellsTruth`, `HintInv` follows the last lookup for the hint: calls run in
  order, so once a secret was saved and a later lookup ran, the later answer is the true
  one; that lookup is about the fields as they are, since every change of them asks again.
* **Terminal** (`ViewProofs`). `SizesDoFollow` needs `AllFollow`, the same for every
  live session and not only the tab's own, since an answer may make any of them its own. `NoGapInOutput`
  needs `Abreast`: of a session that is routed, what was written reaches up to the chunk taken last.
* **Settings** (`ViewProofs`). Two facts about `Sanitize`, that of any document it makes settings
  it lets through, and leaves these as they are, give `SettingsAreValid` and
  `SettingsSurvive`; `SettingsAreShown` needs that a closed tab has no terminal.
  `PalettesAreDefined` and `SettingsHaveTheirType` need `InheritedIsStored`: an inherited name
  is in use only while it is stored, and stored only if it was there from the start.
* **Profiles** (`ProfileStoreProofs`). `StoreInv` has two halves. `StoresGood` is about the
  backend: profiles have ids that were handed out, none twice; recents are distinct and
  newest first; and so it is in the file, even one a failed or interrupted save has left
  behind, for a restart makes it memory: `StoreTyped`, `TheFileFollows`,
  `TheRecentsAreLatest`. `UIGood` is about the forms: an open one shows the profiles there
  are, or a list on its way to it does, or it is going to ask for one (`FormFollows`):
  `EveryFormShowsTheProfiles`. `AnImportAddsEachOnce` is an action property, from what
  `Importing` makes of a store, host by host (`ImportGood`).
* **The importer** (same module). `TheConfigIsReadAsWritten` says of every text, of any
  length, that the parser returns what its lines say. The argument is the parser's own
  loop: after n lines the blocks read so far, and the one being read, are those of the
  first n lines (`ReadUpTo`), and each kind of line preserves that (`ReadOneMore`).

The parser, the import and the removal of an element are recursions over sequences. The
library's induction theorems take a predicate and cannot be instantiated, so the proofs use
`InductionOnSets`, a first-order form of it: the set of the numbers at which a claim fails has a least
element if it has any (`WFMin`), and that one cannot be. From it come what each recursion
computes (`KeepIs`, `ParseIs`, `ImportingIs`, `FlattenIs`, `FirstValueIs`), stated once and cited.

`ConnectForm`, `TerminalPane`, `TabManager`, `PortForwards` and `HostKeyTrust` have their type
invariants proved and not in a run.

Every safety and action property that a passing run checks has a theorem. Only
model-checked is liveness (`HostKeyPromptEnds`, `EndIsTold`, `DisconnectEnds`,
`CancelReleases`, `EveryAddHasAnOutcome`): the prover handles neither fairness over a
quantified action nor `ENABLED`.

## 5. Assumptions and limits

* russh calls `check_server_key` once per connection: the first key exchange decides.
* Synchronous commands run one at a time on the main thread, in the order of their
  invokes, and their answers arrive in that order; events of one task arrive in order.
  A session's output and its statuses are not ordered with one another.
* `ssh_connect` returns a `String`, so its invoke is never rejected.
* One pointer drags at a time; the click that follows a drag (`dragJustEnded`) is not modelled.
* Mutex poisoning is out: nothing in a lock region panics.
* A server takes one password for a target, and a key file one passphrase; neither changes.
* External, and free to do anything they can: servers, users, the keystore, the file
  system, localStorage, the layout of the WebView, the ports of the machine, local clients
  of forwards.

Not modelled: the find bar, the clipboard, context menus, titles and their renaming, the
text of the status bar, styles and the look of dialogs (presentation, without state that
anything else reads); validation of the forwards panel's fields; which of an agent's
identities logs in; the formats of files, fingerprints and config lines;
`secret_forget_password` and `secret_forget_passphrase`, which ssh-api.ts wraps and
nothing calls; window creation, build and signing, and the scripts and test server
beside the program.
`PROJECT.json` has a row for each.

## 6. Plan

Done, in the order of writing:

1. `SessionContract`, `SessionManager`: the core, its prompts, the refinement.
2. `HostKeyTrust`: the store behind the first prompt.
3. `PortForwards`: the other half of the select loop, with its list and the panel.
4. `TabManager`: the renderer's half of a session.
5. `SshConfig`, `ProfileStore`: the persisted connection data.
6. `Settings`, `Appearance`; `ConnectForm`; `TerminalPane`; `Authentication`: what the
   renderer shows, what it asks for, and which secret goes where.
7. `ForwardContract`, which `PortForwards` implements.
8. Proofs of the safety of all of these.

Left:

9. What `TabManager` and `PortForwards` take a session to be (ready once, ended once, in
   that order) stated as `SessionContract` seen from the renderer, and proved of both.
