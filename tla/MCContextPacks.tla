--------------------------- MODULE MCContextPacks ---------------------------
(* An instance of ContextPacks for TLC.                                      *)
EXTENDS ContextPacks

\* A file with a credential in its last byte that the second commit changes, a
\* configuration file in another encoding that it deletes, a guidance file of two
\* characters of two bytes that it changes, and a file no prompt may hold.
MCListing == <<"api", "yaml", "adr", "env">>
MCContent == [api |-> <<1, 2>>, yaml |-> <<1, 0>>, adr |-> <<1, 2>>, env |-> <<1, 1>>]
MCKind == [api |-> "code", yaml |-> "config", adr |-> "design", env |-> "unsafe"]
MCSize == [api |-> 3, yaml |-> 1, adr |-> 4, env |-> 1]

MCUtf8 == {"api", "adr", "env"}
MCBytes(text) == [n \in 0..Len(text) - 1 |-> text[n + 1]]
MCDecoded == [api |-> MCBytes(<<0, 1, 2, 3>>), yaml |-> MCBytes(<<0, 3>>),
              adr |-> MCBytes(<<0, 3, 2, 5, 4>>), env |-> MCBytes(<<0, 1>>)]
MCRedacted == [api |-> MCBytes(<<0, 0, 0, 1>>), yaml |-> MCBytes(<<0, 0>>),
               adr |-> MCBytes(<<0, 0, 0, 0, 0>>), env |-> MCBytes(<<0, 0>>)]

MCLimits == [pack |-> 5, code |-> 3, guidance |-> 3, changed |-> 3, files |-> 1,
             guides |-> 1, low |-> 2, future |-> 2, pr |-> 2, some |-> 1]

MCPackTypes == <<"high_level_design", "future_improvements">>

\* Two requests beside one build of two packs; two builds of one pack each.
MCLoads == {[profiles |-> {1}, requests |-> {1, 2}, builds |-> 1, types |-> 2],
            [profiles |-> {}, requests |-> {}, builds |-> 2, types |-> 1]}

\* No reference; one with each hash or none; one of the wrong type.
MCRef(kind, p, type, hash) == [uri |-> <<kind, p>>, type |-> type, hash |-> hash]
MCCitations ==
    {{}, {MCRef("code", "api", "guidance", 0)},
     {MCRef("code", "api", "code", 0), MCRef("guidance", "adr", "guidance", 2)}}
    \union {{MCRef("code", "api", "code", h)} : h \in 1..2}
=============================================================================
