----------------------------- MODULE MCAppearance -----------------------------
(* A TLC instance of Appearance: the fields, each with a value that is valid   *)
(* and one that is not, and the font sizes of the code cut to three.           *)
EXTENDS Appearance, TLC

MCDefaults ==
    ("fontSize" :> 9) @@ ("scrollback" :> 5000) @@ ("lineHeight" :> 100) @@
    ("theme" :> "dark") @@ ("fontFamily" :> "Cascadia") @@ ("cursorStyle" :> "block") @@
    ("cursorBlink" :> TRUE) @@ ("scheme" :> "auto")
MCLow  == ("fontSize" :> 8)  @@ ("scrollback" :> 200)    @@ ("lineHeight" :> 100)
MCHigh == ("fontSize" :> 10) @@ ("scrollback" :> 200000) @@ ("lineHeight" :> 200)

MCDocuments ==
    { [f \in Fields |-> Null],
      ("fontSize" :> 99) @@ ("lineHeight" :> 0) @@ ("theme" :> "light"),
      ("scheme" :> "toString") @@ ("cursorBlink" :> FALSE) @@ ("scrollback" :> -1) }

MCEntries ==
    {<<"scrollback", 0>>, <<"lineHeight", 900>>, <<"cursorBlink", FALSE>>,
     <<"fontFamily", Blank>>, <<"fontFamily", "Consolas">>, <<"scheme", "dracula">>}

TabSymmetry == Permutations(Tabs)

==============================================================================
