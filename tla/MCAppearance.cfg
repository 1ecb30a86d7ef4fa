CONSTANTS
    Defaults <- MCDefaults
    Low <- MCLow
    High <- MCHigh
    Schemes = {"dracula"}
    Inherited = {"toString"}
    Families = {"Cascadia", "Consolas"}
    Null = Null
    Undefined = Undefined
    Tabs = {t1, t2}
    Documents <- MCDocuments
    Entries <- MCEntries
    Blank = Blank
SYMMETRY TabSymmetry
SPECIFICATION AppearanceSpec
INVARIANTS AppearanceTypeOK ShownEverywhere RestartKeepsSettings PaletteIsDefined
