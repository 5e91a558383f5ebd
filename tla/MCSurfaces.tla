---- MODULE MCSurfaces ----
EXTENDS Surfaces

\* Words: plain ones, a verb, a slashed one, one with a comma, a short and a long number, one
\* only pflag reads, and JSON numbers that are no integer or lose their last digit.
MCWords == {"", "x", "y", "domain", "a/b", "a", "b", "u,v", "u", "v", "7", "2000000", "2e+06", "7/8", "8",
            "0x10", "16", "7.5", "7.0", "9007199254740993", "9007199254740992", "9.007199254740992e+15", "[x y]"}
MCNumerals == {"7", "8", "16", "2000000", "9007199254740993", "9007199254740992"}
MCFlagInt == [w \in MCNumerals \cup {"0x10"} |-> IF w = "0x10" THEN "16" ELSE w]
MCNumbers == MCNumerals \cup {"7.5", "7.0", "2e+06", "9.007199254740992e+15"}
MCSprinted == [w \in MCNumbers |->
    CASE w = "2000000" -> "2e+06" [] w = "7.0" -> "7"
      [] w \in {"9007199254740993", "9007199254740992"} -> "9.007199254740992e+15" [] OTHER -> w]
MCConverted == [w \in MCNumbers |->
    CASE w \in {"7.5", "7.0"} -> "7" [] w = "2e+06" -> "2000000"
      [] w \in {"9007199254740993", "9.007199254740992e+15"} -> "9007199254740992" [] OTHER -> w]
MCSegments == [w \in MCWords |-> CASE w = "" -> <<>> [] w = "a/b" -> <<"a", "b">>
                                [] w = "7/8" -> <<"7", "8">> [] OTHER -> <<w>>]
MCCommas == [w \in MCWords |-> CASE w = "" -> <<>> [] w = "u,v" -> <<"u", "v">> [] OTHER -> <<w>>]

Op(parent, name, aliases, write, noCLI) ==
    [parent |-> parent, name |-> name, aliases |-> aliases, write |-> write, noCLI |-> noCLI]
rank == Op("", "rank", {}, FALSE, FALSE)                  \* rank [word...]
rankDomain == Op("rank", "domain", {}, TRUE, FALSE)       \* rank domain, a write
rankFlat == Op("", "rank_domain", {}, FALSE, FALSE)       \* spelled like the tool of the one above
get == Op("", "get", {}, FALSE, FALSE)                    \* the one with every kind of parameter
search == Op("", "search", {"get"}, FALSE, FALSE)         \* an alias that is another's name
find == Op("", "find", {"search"}, TRUE, FALSE)
raw == Op("", "raw", {}, FALSE, TRUE)                     \* its command line is hand-written
nameless == Op("", "", {}, FALSE, FALSE)
MCMetas == {rank, rankDomain, rankFlat, get, search, find, raw, nameless}

Cmd(parent, name) == [parent |-> parent, name |-> name, aliases |-> {}]
MCCommands == {Cmd("", "raw"), Cmd("rank", "domain"), Cmd("raw", "more")}

Field(name, head, renamed, options, go, def) ==
    [name |-> name, head |-> head, renamed |-> renamed, options |-> options, go |-> go,
     def |-> def, exported |-> TRUE, tagged |-> TRUE]
WordFields == <<Field("words", "arg", "", {"variadic"}, "[]string", "")>>
GetFields == <<
    Field("client", "inject", "", {}, "any", ""),
    [Field("hidden", "arg", "", {}, "string", "") EXCEPT !.exported = FALSE],
    Field("id", "arg", "ref", {}, "string", ""),
    [Field("note", "", "", {}, "string", "") EXCEPT !.tagged = FALSE],
    Field("page", "arg", "", {}, "int", ""),
    Field("rest", "arg", "", {"variadic"}, "[]string", ""),
    Field("tags", "flag", "", {}, "[]string", "u,v"),
    Field("depth", "", "", {}, "int", "7"),
    Field("max", "flag", "limit", {"inherit"}, "int", ""),
    Field("st", "inject", "", {}, "store", "")>>
FindFields == <<
    Field("query", "arg", "q", {}, "string", ""),
    Field("page", "arg", "", {}, "int", ""),
    Field("words", "arg", "", {"variadic"}, "[]string", "")>>
MCFieldsOf == [m \in MCMetas |->
    CASE m = get -> GetFields [] m = rank -> WordFields [] m \in {search, find} -> FindFields [] OTHER -> <<>>]

\* Meta.Args of get and rank lines up with the struct, search leaves it out, and find has it in
\* another order.
Arg(name, variadic, optional) == [name |-> name, variadic |-> variadic, optional |-> optional]
MCDeclOf == [m \in MCMetas |->
    CASE m = get -> <<Arg("ref", FALSE, FALSE), Arg("page", FALSE, TRUE), Arg("rest", TRUE, FALSE)>>
      [] m = rank -> <<Arg("words", TRUE, FALSE)>>
      [] m = find -> <<Arg("words", TRUE, FALSE), Arg("q", FALSE, FALSE)>>
      [] OTHER -> <<>>]
\* The arguments vary while the flags are left out, then the flags beside one argument.
Given(r, p, w, t, d) == <<<<>>, r, p, w, t, d, <<>>, <<>>>>
GetGivens ==
    {Given(r, p, w, <<>>, <<>>) : r \in {<<>>, <<"x">>, <<"a/b">>},
        p \in {<<>>, <<"7">>, <<"2000000">>}, w \in {<<>>, <<"u,v">>, <<"x", "y">>}}
    \cup {Given(<<"x">>, <<>>, <<>>, t, d) : t \in {<<>>, <<"u,v">>, <<"x", "y">>}, d \in {<<>>, <<"y">>}}
    \cup {Given(<<"x">>, <<>>, <<>>, <<>>, d) : d \in {<<"0x10">>, <<"7.5">>, <<"9007199254740993">>}}
    \cup {Given(r, p, <<>>, <<>>, <<>>) : r \in {<<"x">>, <<"">>}, p \in {<<"7/8">>, <<"7.0">>}}
FindGivens ==
    {<<q, p, w>> : q \in {<<>>, <<"x">>}, p \in {<<>>, <<"7">>}, w \in {<<>>, <<"x", "y">>}}
    \cup {<<<<"">>, <<"y">>, <<>>>>, <<<<"x">>, <<>>, <<"u,v">>>>}
MCGivens == [m \in MCMetas |->
    CASE m = get -> GetGivens
      [] m = rank -> {<<v>> : v \in {<<>>, <<"domain">>, <<"x", "y">>}}
      [] m = search -> FindGivens
      [] m = find -> {<<<<"x">>, p, w>> : p \in {<<>>, <<"7">>}, w \in {<<>>, <<"x", "y">>}}
      [] OTHER -> {<<>>}]
MCContexts == {[limit |-> <<"7">>, handles |-> {"client", "store"}],
               [limit |-> <<>>, handles |-> {"store"}]}
====
