----------------------------- MODULE ProfileStore -----------------------------
(***************************************************************************)
(* Saved profiles and recent connections (src-tauri/src/profiles.rs), the  *)
(* file they are kept in, the commands on them, the import of              *)
(* ~/.ssh/config, and the connect forms that show the profiles.            *)
(*                                                                         *)
(* The commands are synchronous: the main thread runs them one at a time,  *)
(* in the order of the invokes, and answers in that order. record_recent   *)
(* is called by session tasks. The mutex around the store makes each of    *)
(* them one step, within which the process may still die.                  *)
(***************************************************************************)
EXTENDS SshConfig, FiniteSets

CONSTANTS
    Forms,        \* bound: connect forms (one per tab), each closed at most for a while
    Targets,      \* recent_key: user@host:port of the connections made
    Inputs,       \* what users enter to be saved: profiles without their id
    Configs,      \* what ~/.ssh/config may hold
    Folded,       \* to_ascii_lowercase, of the names in use
    LocalUser,    \* the name of the local user
    MaxRecents,   \* MAX_RECENTS
    MaxMade,      \* bound: profiles made, when no connection is recorded
    MaxUses,      \* bound: connections recorded, when no profile is made
    MaxCalls      \* bound: commands invoked and not yet answered when a user clicks

ASSUME StoreBounds == MaxRecents \in Nat \ {0} /\ {MaxMade, MaxUses, MaxCalls} \subseteq Nat

(* Folded has every name that users enter or the files hold. *)
ASSUME NamesAssumption ==
    /\ \A input \in Inputs : input.name \in DOMAIN Folded
    /\ \A text \in Configs :
          /\ IsText(text)
          /\ \A i \in DOMAIN text : text[i].key = "host" =>
                Range(text[i].aliases) \subseteq DOMAIN Folded \cup Patterns

ASSUME FormsAssumption == IsFiniteSet(Forms)

VARIABLES
    data,      \* PersistShape, with, for history, the last use of each target
    disk,      \* what profiles.json holds, or Corrupt
    stale,     \* history: the last write of the file failed
    made,      \* ids handed out so far, by Uuid::new_v4
    uses,      \* connections recorded so far
    open,      \* the connect forms that listen for PROFILES_CHANGED
    shown,     \* shown[f]: the profile list f renders
    calls,     \* commands the renderer has invoked and the main thread not run
    replies    \* answers the renderer has not handled

storeVars == <<data, disk, stale, made, uses>>
vars == <<storeVars, open, shown, calls, replies>>

(* A file that does not parse: no store. *)
Corrupt == [garbage |-> TRUE]

Empty == [profiles |-> << >>, recents |-> << >>, used |-> [t \in Targets |-> 0]]

(* ProfileStore::new: a file that does not parse counts as empty. *)
Loaded(file) == IF file = Corrupt THEN Empty ELSE file

(* refreshLists, of the form f. *)
ListFor(f) == [op |-> "list", form |-> f]

(* The first tab shows its form. *)
Init ==
    /\ data = Empty /\ disk = Empty /\ stale = FALSE
    /\ made = 0 /\ uses = 0
    /\ \E f \in Forms : open = {f} /\ calls = <<ListFor(f)>>
    /\ shown = [f \in Forms |-> << >>] /\ replies = << >>

(* Bound: n more profiles and u more connections can be made; saves invoked
   already count, and what is made of one kind cuts what can be of the other. *)
RoomFor(n, u) ==
    LET saves == Cardinality({i \in DOMAIN calls : calls[i].op = "save"})
    IN  (made + saves + n) * MaxUses + (uses + u) * MaxMade <= MaxMade * MaxUses

------------------------------------------------------------------------------
(* The store. An operation is the sequence of values it saves, one after the
   other; it saves none when it changes nothing. *)

(* save: replace the profile that has the id, or add the profile. *)
Upserted(d, profile) ==
    [d EXCEPT !.profiles =
        IF \E i \in DOMAIN @ : @[i].id = profile.id
        THEN [i \in DOMAIN @ |-> IF @[i].id = profile.id THEN profile ELSE @[i]]
        ELSE Append(@, profile)]

Saving(input) ==
    <<Upserted(data, [id |-> made + 1, name |-> input.name, host |-> input.host,
                      port |-> input.port, user |-> input.user, auth |-> input.auth])>>

Deleting(id) ==
    LET kept == Keep(data.profiles, {p \in Range(data.profiles) : p.id # id}) IN
    IF Len(kept) = Len(data.profiles) THEN << >> ELSE <<[data EXCEPT !.profiles = kept]>>

(* Mutant of Recorded: the older entry of the target stays. *)
RecordedAgain(d, t, use) ==
    [d EXCEPT !.recents = SubSeq(<<[target |-> t, use |-> use]>> \o @, 1,
                                 IF Len(@) < MaxRecents THEN Len(@) + 1 ELSE MaxRecents),
              !.used[t] = use]

(* Mutant of Recorded: the list is not cut. *)
RecordedUncut(d, t, use) ==
    LET others == Keep(d.recents, {r \in Range(d.recents) : r.target # t}) IN
    [d EXCEPT !.recents = <<[target |-> t, use |-> use]>> \o others, !.used[t] = use]

(* record_recent: the entry of the target moves to the head with the data of
   this use, and the list is cut. *)
Recorded(d, t, use) ==
    LET others == Keep(d.recents, {r \in Range(d.recents) : r.target # t})
        all    == <<[target |-> t, use |-> use]>> \o others
    IN  [d EXCEPT !.recents = SubSeq(all, 1, IF Len(all) < MaxRecents THEN Len(all) ELSE MaxRecents),
                  !.used[t] = use]

Recording(t) == <<Recorded(data, t, uses + 1)>>

AsProfile(id, host) ==
    [id |-> id, name |-> host.name, host |-> host.host, port |-> host.port,
     user |-> IF host.user = Unset THEN LocalUser ELSE host.user,
     auth |-> IF host.key = Unset THEN "agent" ELSE host.key]

(* Mutant of Import: the names taken are not added to. *)
ImportKnown(st, host) ==
    IF Folded[host.name] \in st.names THEN st
    ELSE [st EXCEPT !.steps = Append(@, Upserted(Last(<<data>> \o @),
                                                 AsProfile(made + 1 + Len(@), host)))]

Import(st, host) ==
    IF Folded[host.name] \in st.names THEN st
    ELSE [names |-> st.names \cup {Folded[host.name]},
          steps |-> Append(st.steps, Upserted(Last(<<data>> \o st.steps),
                                              AsProfile(made + 1 + Len(st.steps), host)))]

(* ssh_config_import: one save for each host whose name is not taken. *)
Importing(text) ==
    LET names == {Folded[data.profiles[i].name] : i \in DOMAIN data.profiles}
        hosts == Parse(text)
        after[i \in 0..Len(hosts)] ==
            IF i = 0 THEN [names |-> names, steps |-> << >>] ELSE Import(after[i - 1], hosts[i])
    IN  after[Len(hosts)].steps

(* persist, after each of the steps. A write that fails leaves what was there,
   or a file cut short; nobody is told. *)
Persist(steps) ==
    /\ data' = Last(<<data>> \o steps)
    /\ \/ steps = << >> /\ UNCHANGED <<disk, stale>>
       \/ steps # << >> /\ disk' = Last(steps) /\ stale' = FALSE
       \/ /\ steps # << >> /\ stale' = TRUE
          /\ disk' \in {disk, Corrupt} \cup ToSet(Front(steps))

------------------------------------------------------------------------------
(* The main thread. *)

Called(op) == calls # << >> /\ Head(calls).op = op

Answer(reply) ==
    /\ calls' = Tail(calls)
    /\ replies' = Append(replies, reply)
    /\ UNCHANGED <<open, shown>>

ProfilesSave ==
    /\ Called("save")
    /\ Persist(Saving(Head(calls).input))
    /\ made' = made + 1
    /\ Answer([op |-> "changed"])
    /\ UNCHANGED uses

(* Mutant of ProfilesDelete: the file is left as it is. *)
ProfilesDeleteUnsaved ==
    /\ Called("delete")
    /\ data' = Last(<<data>> \o Deleting(Head(calls).id))
    /\ Answer([op |-> "changed"])
    /\ UNCHANGED <<made, uses, disk, stale>>

ProfilesDelete ==
    /\ Called("delete")
    /\ Persist(Deleting(Head(calls).id))
    /\ Answer([op |-> "changed"])
    /\ UNCHANGED <<made, uses>>

ProfilesList ==
    /\ Called("list")
    /\ Answer([op |-> "listed", form |-> Head(calls).form, profiles |-> data.profiles])
    /\ UNCHANGED storeVars

SshConfigImport(text) ==
    LET steps == Importing(text) IN
    /\ Called("import")
    /\ RoomFor(Len(steps), 0)
    /\ Persist(steps)
    /\ made' = made + Len(steps)
    /\ Answer([op |-> IF steps = << >> THEN "unchanged" ELSE "changed"])
    /\ UNCHANGED uses

(* No home directory, or no such file. *)
SshConfigUnreadable ==
    /\ Called("import")
    /\ Answer([op |-> "unchanged"])
    /\ UNCHANGED storeVars

(* on_ready, in a session task. *)
RecordRecent(t) ==
    /\ RoomFor(0, 1)
    /\ Persist(Recording(t))
    /\ uses' = uses + 1
    /\ UNCHANGED <<made, open, shown, calls, replies>>

(* The operations that may be under way. *)
Running ==
    {Recording(t) : t \in IF RoomFor(0, 1) THEN Targets ELSE {}}
      \cup (IF Called("save") THEN {Saving(Head(calls).input)} ELSE {})
      \cup (IF Called("delete") THEN {Deleting(Head(calls).id)} ELSE {})
      \cup {steps \in {Importing(text) : text \in IF Called("import") THEN Configs ELSE {}} :
                RoomFor(Len(steps), 0)}

(* The process dies, perhaps while it writes the file, and is started again: the
   store is what the file holds, and the first tab shows its form. *)
Restart(f) ==
    /\ disk' \in {disk, Corrupt} \cup UNION {ToSet(steps) : steps \in Running}
    /\ data' = Loaded(disk') /\ stale' = FALSE
    /\ made' = Max({made} \cup {p.id : p \in Range(data'.profiles)})
    /\ uses' = Max({uses} \cup Range(data'.used))
    /\ open' = {f} /\ shown' = [g \in Forms |-> << >>]
    /\ calls' = <<ListFor(f)>> /\ replies' = << >>

------------------------------------------------------------------------------
(* The connect forms. *)

Room == Len(calls) + Len(replies) < MaxCalls
Invoke(cs) == calls' = calls \o cs

(* A form that comes to the front refreshes its list. *)
Show(f) ==
    /\ Room
    /\ open' = open \cup {f}
    /\ Invoke(<<ListFor(f)>>)
    /\ UNCHANGED <<storeVars, shown, replies>>

CloseForm(f) ==
    /\ f \in open
    /\ open' = open \ {f} /\ shown' = [shown EXCEPT ![f] = << >>]
    /\ UNCHANGED <<storeVars, calls, replies>>

(* Save as profile, on the way to a connection: always as a new one. *)
Submit(f, input) ==
    /\ f \in open /\ Room
    /\ RoomFor(1, 0)
    /\ Invoke(<<[op |-> "save", input |-> input]>>)
    /\ UNCHANGED <<storeVars, open, shown, replies>>

ClickDelete(f, i) ==
    /\ f \in open /\ Room
    /\ i \in DOMAIN shown[f]
    /\ Invoke(<<[op |-> "delete", id |-> shown[f][i].id]>>)
    /\ UNCHANGED <<storeVars, open, shown, replies>>

(* The button is disabled until the answer; the other forms have their own. *)
ClickImport(f) ==
    /\ f \in open /\ Room
    /\ Invoke(<<[op |-> "import"]>>)
    /\ UNCHANGED <<storeVars, open, shown, replies>>

Reply(op) ==
    /\ replies # << >> /\ Head(replies).op = op
    /\ replies' = Tail(replies)
    /\ UNCHANGED <<storeVars, open>>

(* Mutant of Announce: only one form refreshes, its own or another. *)
AnnounceOne ==
    /\ Reply("changed")
    /\ \E f \in Forms : Invoke(<<ListFor(f)>>)
    /\ UNCHANGED shown

(* announceProfilesChanged: every form that listens refreshes its list. *)
Announce ==
    /\ Reply("changed")
    /\ Invoke(LET fs == SetToSeq(open) IN [i \in DOMAIN fs |-> ListFor(fs[i])])
    /\ UNCHANGED shown

Unannounced == Reply("unchanged") /\ UNCHANGED <<shown, calls>>

(* A form that is gone by now renders for nobody. *)
Render ==
    /\ Reply("listed")
    /\ shown' = [f \in Forms |-> IF f = Head(replies).form /\ f \in open
                                THEN Head(replies).profiles ELSE shown[f]]
    /\ UNCHANGED calls

Next ==
    \/ ProfilesSave \/ ProfilesDelete \/ ProfilesList
    \/ \E text \in Configs : SshConfigImport(text)
    \/ SshConfigUnreadable
    \/ \E t \in Targets : RecordRecent(t)
    \/ \E f \in Forms :
          \/ Restart(f) \/ Show(f) \/ CloseForm(f) \/ ClickImport(f)
          \/ \E input \in Inputs : Submit(f, input)
          \/ \E i \in DOMAIN shown[f] : ClickDelete(f, i)
    \/ Announce \/ Unannounced \/ Render

Spec == Init /\ [][Next]_vars

------------------------------------------------------------------------------
ProfilesOK(ps) ==
    \A i \in DOMAIN ps :
        /\ ps[i].id \in 1..made /\ ps[i].name \in DOMAIN Folded
        /\ \A j \in DOMAIN ps : ps[j].id = ps[i].id => i = j

StoreOK(d) ==
    /\ ProfilesOK(d.profiles)
    /\ Len(d.recents) <= MaxRecents
    /\ \A i \in DOMAIN d.recents : d.recents[i].target \in Targets /\ d.recents[i].use \in 1..uses
    /\ d.used \in [Targets -> 0..uses]

(* Every variable keeps its type: in particular no two profiles share an id,
   in the store, in its file or in a list on screen. *)
TypeOK ==
    /\ StoreOK(data) /\ (disk # Corrupt => StoreOK(disk)) /\ stale \in BOOLEAN
    /\ {made, uses} \subseteq Nat
    /\ open \subseteq Forms /\ \A f \in Forms : ProfilesOK(shown[f])
    /\ \A i \in DOMAIN calls : calls[i].op \in {"save", "delete", "list", "import"}
    /\ \A i \in DOMAIN replies : replies[i].op \in {"changed", "unchanged", "listed"}

(* The store is in its file, through saves, deletions, imports of several hosts,
   recorded connections, crashes and restarts, until a write fails, and again
   from the next one on (persist, profiles.rs:43). *)
FileFollows == ~stale => Loaded(disk) = data

(* The recents are the targets used last, latest first, each once with the data
   of its last use; a target is missing only when the list is full of later
   ones (profiles.rs:85). *)
RecentsAreLatest ==
    /\ \A i \in DOMAIN data.recents :
          /\ data.recents[i].use = data.used[data.recents[i].target]
          /\ \A j \in 1..i-1 : data.recents[j].use > data.recents[i].use
    /\ \A t \in Targets :
          data.used[t] > 0 /\ (\A i \in DOMAIN data.recents : data.recents[i].target # t) =>
             /\ Len(data.recents) = MaxRecents
             /\ \A i \in DOMAIN data.recents : data.recents[i].use > data.used[t]

(* With no command and no answer on its way, every connect form shows the
   profiles there are, whichever form or import changed them
   (connect-form.ts:21, "so every open connect form refreshes its saved-profile list"). *)
FormsShowProfiles ==
    calls = << >> /\ replies = << >> => \A f \in open : shown[f] = data.profiles

Named(ps, n) == {i \in DOMAIN ps : Folded[ps[i].name] = n}

(* An import leaves every profile there was as it was, and each host of the file
   under exactly one name, unless several profiles had it before: importing
   again "never duplicates or overwrites" (commands.rs:203). *)
ImportAddsEachOnce ==
    [][\A text \in Configs : SshConfigImport(text) =>
          /\ IsPrefix(data.profiles, data'.profiles)
          /\ \A i \in DOMAIN AsWritten(text) :
                LET n == Folded[AsWritten(text)[i].name]
                    before == Cardinality(Named(data.profiles, n))
                IN  Cardinality(Named(data'.profiles, n)) = IF before = 0 THEN 1 ELSE before]_vars

(* Whatever the file says when an import is asked for, the parser's one pass
   finds, for each concrete name of each Host line, the first usable value of
   each directive of that block, and lets none in from the blocks around it or
   those it skips (ssh_config.rs:6, "first value wins"). *)
ParsesAsWritten == Called("import") => ReadsAsWritten

==============================================================================
