---------------------------- MODULE MCProfileStore ----------------------------
(* A TLC instance of ProfileStore: the parser on every short text, the store on *)
(* a few. Targets are interchangeable: nothing compares them but for equality.  *)
EXTENDS ProfileStore

TargetSymmetry == Permutations(Targets)

FoldedNames == [web |-> "web", WEB |-> "web", db |-> "db"]

Host(aliases) == [key |-> "host", aliases |-> aliases]
Set(d, v)     == [key |-> d, value |-> v]

Lines == {Host(<<"web">>), Host(<<"*", "WEB", "db">>), Host(<<"*">>), [key |-> "match"],
          Set("hostname", "h"), Set("port", Unset), Set("port", 2222), Set("port", 23),
          Set("user", "u"), Set("proxyjump", "j")}

AllTexts == UNION {[1..n -> Lines] : n \in 0..4}

SomeConfigs == {<<Host(<<"web">>)>>,
                <<Host(<<"*", "WEB", "db">>), Set("hostname", "h")>>,
                <<Host(<<"web">>), Set("user", "u"), Host(<<"WEB">>)>>}

SomeInputs == {[name |-> "WEB", host |-> "h", port |-> 22, user |-> "u", auth |-> "password"]}

==============================================================================
