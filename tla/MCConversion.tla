----------------------------- MODULE MCConversion -----------------------------
EXTENDS Conversion
CONSTANT Words      \* what most texts are made of

MCEvidence == <<"d1", "d2">>
MCRoles == <<"REQ", "COMP">>
MCFixedSlots == <<[name |-> "mode", kind |-> "enum", allowed |-> {"x", "y"}, required |-> TRUE],
                  [name |-> "hours", kind |-> "int", allowed |-> {}, required |-> FALSE]>>

Enum(name, labels) == [name |-> name, kind |-> "enum", allowed |-> labels]
Plain(name, kind) == [name |-> name, kind |-> kind, allowed |-> {}]

MCProposals == {
    <<>>,
    <<Enum("phase", {"v", "w"})>>,
    <<Enum("phase", {"v", "Bad"})>>,
    <<Enum("phase", {"v", "c"}), Plain("phase", "bool")>>,
    <<Plain("facts", "bool"), Plain("open", "bool")>>,
    <<Plain("conclusion", "int"), Plain("open", "text")>>,
    <<Plain("note", "text"), Enum("phase", {"v", "w", "Bad"}), Plain("open", "bool")>> }

Literal(prefix, literal) == [prefix |-> prefix, literal |-> literal]
MCTargets == <<Literal("PROJ", <<"a">>), Literal("PROJ", <<"a", "b">>), Literal("SYS", <<"b", "a">>)>>
MCNumerals == <<"1", "2", "3">>
MCPieces == Words \cup Brackets \cup {"CTX", "PROJ", "SYS", "1", "2", "3"}
Sentences(n) == UNION {[1..k -> Words] : k \in 0..n}

\* Texts that are cut, that hold brackets, and that hold a symbol.
Odd == {<<"b", "a", "b", "a", "b">>, <<"<", "a", "b", ">">>, <<"<", "PROJ", "a", ">">>,
        <<"<", "<", "a", "1">>, <<"<", "PROJ", "1", ">", "a">>, <<"a", ">", "b">>}
MCTexts == {<<s, t>> : s \in Sentences(1), t \in Sentences(4) \cup Odd}
             \cup {<<<<"c">>, s, t>> : s, t \in Sentences(1)}
MCSpans == {<<>>} \cup {<<s>> : s \in Sentences(2) \ {<<>>}}
             \cup {<<s, t>> : s \in Sentences(1) \ {<<>>}, t \in Sentences(2) \ {<<>>}}
=============================================================================
