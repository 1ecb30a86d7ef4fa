------------------------------- MODULE SshConfig -------------------------------
(***************************************************************************)
(* The importer's reading of ~/.ssh/config (src-tauri/src/ssh_config.rs): *)
(* lines in, one profile candidate per concrete Host alias out.            *)
(*                                                                         *)
(* A line is what split_directive returns of it: a Host with its names, a  *)
(* Match, or a directive with its value, a Port that is no u16 having the  *)
(* value Unset. Lines that split_directive drops are not in a text.        *)
(***************************************************************************)
EXTENDS Naturals, Sequences, SequencesExt

CONSTANTS
    Patterns,     \* the Host names is_pattern rejects: *, ? and !name
    DefaultPort,  \* 22
    Unset,        \* None, of an Option
    Texts         \* bound: the texts the parser is checked on

Directives == {"hostname", "port", "user", "identityfile"}

(* A text is a sequence of lines, a Host line has a sequence of names. *)
IsText(text) ==
    /\ text \in Seq(Range(text))
    /\ \A i \in DOMAIN text : text[i].key = "host" => text[i].aliases \in Seq(Range(text[i].aliases))

ASSUME TextsAssumption == \A text \in Texts : IsText(text)

(* The elements of s that are in S, in their order: retain, and filter. *)
Keep(s, S) ==
    LET kept[i \in 0..Len(s)] ==
            IF i = 0 THEN << >>
            ELSE IF s[i] \in S THEN Append(kept[i - 1], s[i]) ELSE kept[i - 1]
    IN  kept[Len(s)]

Header(line) == line.key \in {"host", "match"}
Concrete(aliases) == Keep(aliases, Range(aliases) \ Patterns)

(* A Block without an alias stands for None: outside any Host, or skipped. *)
Opened(aliases) == [aliases |-> aliases, values |-> [d \in Directives |-> Unset]]
Skipped == Opened(<< >>)

(* HostName falls back on the alias, Port on 22. *)
Candidate(alias, values) ==
    [name |-> alias,
     host |-> IF values["hostname"] = Unset THEN alias ELSE values["hostname"],
     port |-> IF values["port"] = Unset THEN DefaultPort ELSE values["port"],
     user |-> values["user"],
     key  |-> values["identityfile"]]

Finish(hosts, block) ==
    hosts \o [i \in DOMAIN block.aliases |-> Candidate(block.aliases[i], block.values)]

(* Mutant of Read: a Match leaves the block before it open. *)
ReadThroughMatch(st, line) ==
    IF line.key = "host"
    THEN [hosts |-> Finish(st.hosts, st.block), block |-> Opened(Concrete(line.aliases))]
    ELSE IF /\ line.key \in Directives
            /\ st.block.aliases # << >> /\ st.block.values[line.key] = Unset
         THEN [st EXCEPT !.block.values[line.key] = line.value]
         ELSE st

(* One line: a header ends the block before it, a directive that the block has
   no value for yet gets one, and everything else is passed over. *)
Read(st, line) ==
    IF Header(line)
    THEN [hosts |-> Finish(st.hosts, st.block),
          block |-> IF line.key = "host" THEN Opened(Concrete(line.aliases)) ELSE Skipped]
    ELSE IF /\ line.key \in Directives
            /\ st.block.aliases # << >> /\ st.block.values[line.key] = Unset
         THEN [st EXCEPT !.block.values[line.key] = line.value]
         ELSE st

Parse(text) ==
    LET scan[i \in 0..Len(text)] ==
            IF i = 0 THEN [hosts |-> << >>, block |-> Skipped] ELSE Read(scan[i - 1], text[i])
        end == scan[Len(text)]
    IN  Finish(end.hosts, end.block)

------------------------------------------------------------------------------
(* What the text says, read from its Host lines instead of line by line: a
   block reaches to the next header, and its first usable value counts. *)
Extent(text, i) ==
    {j \in i+1..Len(text) : \A k \in i+1..j : ~Header(text[k])}

FirstValue(text, i, d) ==
    LET given == {j \in Extent(text, i) : text[j].key = d /\ text[j].value # Unset}
    IN  IF given = {} THEN Unset
        ELSE text[CHOOSE j \in given : \A k \in given : j <= k].value

AsWritten(text) ==
    FlattenSeq([i \in DOMAIN text |->
        IF text[i].key # "host" THEN << >>
        ELSE LET aliases == Concrete(text[i].aliases) IN
             [n \in DOMAIN aliases |->
                 Candidate(aliases[n], [d \in Directives |-> FirstValue(text, i, d)])]])

(* The two agree, on every text in question. *)
ReadsAsWritten == \A text \in Texts : Parse(text) = AsWritten(text)

==============================================================================
