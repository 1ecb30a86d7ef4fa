------------------------------ MODULE Appearance ------------------------------
(***************************************************************************)
(* The settings store with the copy localStorage keeps, and what shows the *)
(* settings: the page, the font size in the status bar, the terminal of    *)
(* every tab, and the settings dialog (settings.ts, settings-dialog.ts,    *)
(* main.ts, and the parts of tabs.ts and terminal.ts that apply settings,  *)
(* all of src/renderer). Every handler here runs to completion, so each is *)
(* one action; what may go wrong is a write to localStorage, and a restart *)
(* that finds what an earlier version, or somebody's editor, left there.   *)
(***************************************************************************)
EXTENDS Settings

CONSTANTS
    Tabs,        \* bound: tabs (closed tabs may be opened again as new ones)
    Documents,   \* what localStorage may hold at first: some fields, of any value
    Entries,     \* what users choose or type in the dialog: <<field, value>>
    Blank        \* an empty control

DialogFields == Fields \ {"fontSize", "theme"}

(* No fields: what the store reads when nothing is stored, or nothing that JSON.parse
   accepts; also a terminal, or a dialog, that is not there. *)
Nothing == [f \in {} |-> Null]

(* What a control may be set to. *)
Offered(f) ==
    CASE f \in Numeric      -> Int \cup {Null}
      [] f = "fontFamily"   -> Families \cup {Blank}
      [] OTHER              -> Values(f)

ASSUME AppearanceAssumption ==
    /\ \A d \in Documents : DOMAIN d \subseteq Fields /\ \A f \in DOMAIN d : Storable(f, d[f])
    /\ \A e \in Entries : e[1] \in DialogFields /\ e[2] \in Offered(e[1])
    /\ Blank \notin Families \cup SchemeNames

VARIABLES
    settings,    \* SettingsStore.settings
    storage,     \* localStorage[STORAGE_KEY]
    unsaved,     \* history: the last setItem threw
    page,        \* the settings shown by document.body and the font size readout
    open,        \* TabManager.tabs
    look,        \* look[t]: the settings the terminal of t was last given, or Nothing
    controls     \* controls[f]: what the open dialog shows for f; Nothing if it is closed

appearanceVars == <<settings, storage, unsaved, page, open, look, controls>>

(* The constructor of SettingsStore. *)
Load(stored) == Sanitize(stored)

(* bootstrap: the page takes the settings, and a first tab is opened. *)
Start ==
    /\ settings' = Load(storage)
    /\ page' = Load(storage)
    /\ open' \in {{t} : t \in Tabs}
    /\ look' = [t \in Tabs |-> Nothing]
    /\ controls' = Nothing

AppearanceInit ==
    /\ storage \in Documents \cup {Nothing}
    /\ settings = Load(storage) /\ page = settings
    /\ unsaved = FALSE
    /\ open \in {{t} : t \in Tabs}
    /\ look = [t \in Tabs |-> Nothing]
    /\ controls = Nothing

(* The window is closed, or reloaded, and opened again. *)
Restart == Start /\ UNCHANGED <<storage, unsaved>>

------------------------------------------------------------------------------
(* Mutant of Notify: terminals keep what they were made with. *)
NotifyPage(next) == page' = next /\ UNCHANGED look

(* applySettings of main.ts, the one listener of the store: the page and the
   terminals of the tabs in the array. *)
Notify(next) ==
    /\ page' = next
    /\ look' = [t \in Tabs |-> IF t \in open /\ look[t] # Nothing THEN next ELSE look[t]]

(* setItem, which throws when storage is full or denied. *)
Save(next) ==
    \/ storage' = next /\ unsaved' = FALSE
    \/ unsaved' = TRUE /\ UNCHANGED storage

(* Mutant of Update: it writes what it was given, not all there is. *)
UpdateStoringPatch(patch) ==
    LET next == Sanitize(Merge(settings, patch)) IN
    \/ next = settings /\ UNCHANGED <<settings, storage, unsaved, page, look>>
    \/ /\ next # settings
       /\ settings' = next
       /\ Save(patch)
       /\ Notify(next)

(* SettingsStore.update: nothing happens if nothing changes. *)
Update(patch) ==
    LET next == Sanitize(Merge(settings, patch)) IN
    \/ next = settings /\ UNCHANGED <<settings, storage, unsaved, page, look>>
    \/ /\ next # settings
       /\ settings' = next
       /\ Save(next)
       /\ Notify(next)

------------------------------------------------------------------------------
SetFontSize(px) == Update([f \in {"fontSize"} |-> Clamp("fontSize", px)])

(* Ctrl+plus, Ctrl+minus and the buttons of the status bar; Ctrl+0. *)
BumpFont(delta) ==
    /\ SetFontSize(settings["fontSize"] + delta)
    /\ UNCHANGED <<open, controls>>
ResetFont == SetFontSize(Defaults["fontSize"]) /\ UNCHANGED <<open, controls>>

ToggleTheme ==
    /\ Update([f \in {"theme"} |-> IF settings["theme"] = "dark" THEN "light" ELSE "dark"])
    /\ UNCHANGED <<open, controls>>

------------------------------------------------------------------------------
(* The dialog. *)

(* A select can only show one of its options. *)
Shown(s) == [f \in DialogFields |-> IF f = "scheme" /\ s[f] \in Inherited THEN Blank ELSE s[f]]

(* open(): every control is refreshed. *)
OpenDialog ==
    /\ controls' = Shown(settings)
    /\ UNCHANGED <<settings, storage, unsaved, page, open, look>>

CloseDialog ==
    /\ controls # Nothing
    /\ controls' = Nothing
    /\ UNCHANGED <<settings, storage, unsaved, page, open, look>>

(* A control's change event. A number is read back as the store has it; an empty
   font family stands for the default, and stays empty. *)
Enter(f, v) ==
    /\ controls # Nothing
    /\ Update([g \in {f} |-> IF f = "fontFamily" /\ v = Blank THEN Defaults[f] ELSE v])
    /\ controls' = [controls EXCEPT ![f] = IF f \in Numeric THEN settings'[f] ELSE v]
    /\ UNCHANGED open

------------------------------------------------------------------------------
(* Tabs and their terminals. *)

NewTab(t) ==
    /\ t \notin open
    /\ open' = open \cup {t}
    /\ UNCHANGED <<settings, storage, unsaved, page, look, controls>>

(* ensureTerminal, on the first connect of a tab: terminalInit reads the store. *)
EnsureTerminal(t) ==
    /\ t \in open /\ look[t] = Nothing
    /\ look' = [look EXCEPT ![t] = settings]
    /\ UNCHANGED <<settings, storage, unsaved, page, open, controls>>

(* closeTab: dispose ends the terminal with its tab; the last tab is replaced. *)
CloseTab(t) ==
    /\ t \in open /\ open # {t}
    /\ open' = open \ {t}
    /\ look' = [look EXCEPT ![t] = Nothing]
    /\ UNCHANGED <<settings, storage, unsaved, page, controls>>

AppearanceNext ==
    \/ Restart \/ ResetFont \/ ToggleTheme
    \/ \E delta \in {-1, 1} : BumpFont(delta)
    \/ OpenDialog \/ CloseDialog
    \/ \E e \in Entries : Enter(e[1], e[2])
    \/ \E t \in Tabs : NewTab(t) \/ EnsureTerminal(t) \/ CloseTab(t)

AppearanceSpec == AppearanceInit /\ [][AppearanceNext]_appearanceVars

------------------------------------------------------------------------------
(* Whatever was stored and whatever is entered, the settings in use are of the type
   AppSettings and within their bounds in every field but the scheme, which may also
   be a name every object inherits; settings with such a name are not the "valid
   settings" of the comment on sanitize. *)
AppearanceTypeOK ==
    /\ IsSanitized(settings) /\ IsSanitized(page)
    /\ unsaved \in BOOLEAN
    /\ open \subseteq Tabs
    /\ \A t \in Tabs : look[t] = Nothing \/ IsSanitized(look[t])

(* All that shows settings shows those of the store: the page, the readout, every
   open terminal whenever it was made, and each control of the dialog but those
   that show nothing. *)
ShownEverywhere ==
    /\ page = settings
    /\ \A t \in open : look[t] \in {Nothing, settings}
    /\ controls # Nothing =>
          \A f \in DialogFields : controls[f] \in {Blank, settings[f]}

(* A restart brings back the settings there were, unless the last write failed. *)
RestartKeepsSettings == ~unsaved => Load(storage) = settings

(* Only a scheme stored before the program started leaves terminals without a
   palette, and only while it is the one that is stored: choosing settings never
   does, and choosing another scheme ends it. *)
PaletteIsDefined ==
    Palette(settings["scheme"], settings["theme"]) = Undefined =>
        "scheme" \in DOMAIN storage /\ storage["scheme"] = settings["scheme"]

==============================================================================
