------------------------------- MODULE Settings -------------------------------
(***************************************************************************)
(* The values of the settings and how stored ones are repaired             *)
(* (src/renderer/settings.ts), and the palette a scheme stands for         *)
(* (src/renderer/themes.ts). Numbers are in the unit they are rounded to:  *)
(* pixels, lines, hundredths for the line height.                          *)
(***************************************************************************)
EXTENDS Integers

CONSTANTS
    Defaults,    \* DEFAULTS: a value for each field
    Low, High,   \* MIN_FONT, MAX_FONT and so on, by field
    Schemes,     \* the keys of SCHEMES
    Inherited,   \* names the in operator finds in any object, such as "toString"
    Families,    \* font families: strings that are not blank
    Null,        \* JSON's null, which it also writes for NaN
    Undefined    \* no palette

Numeric == {"fontSize", "scrollback", "lineHeight"}
Fields  == Numeric \cup {"theme", "fontFamily", "cursorStyle", "cursorBlink", "scheme"}

(* The values the type AppSettings allows a field. *)
Values(f) ==
    CASE f \in Numeric     -> Low[f]..High[f]
      [] f = "theme"       -> {"dark", "light"}
      [] f = "fontFamily"  -> Families
      [] f = "cursorStyle" -> {"block", "bar", "underline"}
      [] f = "cursorBlink" -> BOOLEAN
      [] f = "scheme"      -> {"auto"} \cup Schemes

(* isSchemeName: value in SCHEMES also finds what SCHEMES inherits. *)
SchemeNames == {"auto"} \cup Schemes \cup Inherited

(* The values sanitize lets through: for a scheme, more than its type allows. *)
Accepted(f) == IF f = "scheme" THEN SchemeNames ELSE Values(f)

IsAppSettings(s) == s = [f \in Fields |-> s[f]] /\ \A f \in Fields : s[f] \in Values(f)
IsSanitized(s)   == s = [f \in Fields |-> s[f]] /\ \A f \in Fields : s[f] \in Accepted(f)

(* What may be found in a field before it is repaired: anything, but what is no number
   counts as Null where a number is due, and anything is true or false. *)
Storable(f, v) ==
    /\ f \in Numeric => v \in Int \cup {Null}
    /\ f = "cursorBlink" => v \in BOOLEAN \cup {Null}

ASSUME SettingsAssumption ==
    /\ \A f \in Numeric : Low[f] \in Int /\ High[f] \in Int /\ Low[f] <= High[f]
    /\ Null \notin Int \cup BOOLEAN \cup Families \cup SchemeNames
    /\ IsAppSettings(Defaults)
    /\ Inherited \cap (Schemes \cup {"auto"}) = {}
    /\ Undefined \notin Schemes \cup {"dark", "light"}

------------------------------------------------------------------------------
(* Mutant of Clamp: only what is too large is cut. *)
ClampAbove(f, v) ==
    IF v = Null THEN Defaults[f] ELSE IF v > High[f] THEN High[f] ELSE v

(* clampFont, clampScrollback, clampLineHeight. *)
Clamp(f, v) ==
    IF v = Null THEN Defaults[f]
    ELSE IF v < Low[f] THEN Low[f]
    ELSE IF v > High[f] THEN High[f]
    ELSE v

(* One field of sanitize. *)
Repaired(f, v) ==
    CASE f \in Numeric       -> Clamp(f, v)
      [] f = "cursorBlink"   -> v # Null /\ v
      [] OTHER               -> IF v \in Accepted(f) THEN v ELSE Defaults[f]

(* { ...base, ...patch } *)
Merge(base, patch) == [f \in Fields |-> IF f \in DOMAIN patch THEN patch[f] ELSE base[f]]

Sanitize(raw) == LET s == Merge(Defaults, raw) IN [f \in Fields |-> Repaired(f, s[f])]

(* resolveTheme; an inherited name has no palette of its own. *)
Palette(scheme, theme) ==
    CASE scheme = "auto"       -> theme
      [] scheme \in Inherited  -> Undefined
      [] OTHER                 -> scheme

==============================================================================
