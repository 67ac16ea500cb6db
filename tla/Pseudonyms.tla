------------------------------ MODULE Pseudonyms ------------------------------
(***************************************************************************)
(* How an internal text is masked and how an answer is read back:           *)
(* pseudonymizer.apply and apply_conservative, PseudonymTargets,            *)
(* merge_mappings and rehydrator.rehydrate_text.                            *)
(*                                                                          *)
(* A text is a sequence of the pieces that literals, spans and symbols are  *)
(* made of.  A symbol such as <PROJ_1> is four pieces, so that a literal    *)
(* that reads like a part of a symbol is found inside it, as str.replace    *)
(* finds it.                                                                *)
(***************************************************************************)
EXTENDS Naturals, Sequences, FiniteSets, Functions

CONSTANTS
    Pieces,     \* what texts, literals and symbols are made of
    Numerals,   \* the pieces that count: "1", "2", ...
    Targets,    \* pseudonyms.json: a sequence of [prefix, literal]
    Technical,  \* literals that are never replaced
    MaxPieces,  \* EXCERPT_MAX_CHARS
    MaxSpans    \* _EXAONE_SPAN_MAX

Brackets == {"<", ">"}

\* The prefixes of pseudonyms.json are PROJ, SYS, PERSON and PATH.
ASSUME TargetsAssumption ==
    /\ MaxPieces \in Nat /\ MaxSpans \in Nat
    /\ Brackets \cup {"CTX"} \subseteq Pieces
    /\ Targets \in Seq([prefix  : Pieces \ (Brackets \cup {"CTX"}),
                        literal : Seq(Pieces) \ {<<>>}])

\* Two counts never read the same, and there are enough of them.
ASSUME NumeralsAssumption ==
    /\ Numerals \in Seq(Pieces \ Brackets)
    /\ Len(Targets) <= Len(Numerals)
    /\ \A m, n \in 1..Len(Numerals) : Numerals[m] = Numerals[n] => m = n

StandsAt(s, t, i) == i + Len(s) - 1 <= Len(t) /\ SubSeq(t, i, i + Len(s) - 1) = s
Occurs(s, t) == \E i \in 1..Len(t) : StandsAt(s, t, i)

\* str.replace: from the left, without overlaps, and not in what was put in.
Replaced(t, s, by) ==
    LET from[i \in 1..Len(t) + Len(s)] ==
          IF i > Len(t) THEN <<>>
          ELSE IF StandsAt(s, t, i) THEN by \o from[i + Len(s)]
          ELSE <<t[i]>> \o from[i + 1]
    IN  from[1]

\* One after the other, each in what the one before has left.
ReplacedAll(t, what, by) ==
    LET body[k \in 0..Len(what)] ==
          IF k = 0 THEN t ELSE Replaced(body[k - 1], what[k], by[k])
    IN  body[Len(what)]

\* all_literals, of the pairs that are chosen: the longest literals first, those of
\* equal length in the order they have.
LongestFirst(pairs, chosen) ==
    LET upTo(n) == {m \in chosen : \/ Len(pairs[m].literal) > Len(pairs[n].literal)
                                   \/ Len(pairs[m].literal) = Len(pairs[n].literal) /\ m <= n}
    IN  [k \in 1..Cardinality(chosen) |->
            pairs[CHOOSE n \in chosen : Cardinality(upTo(n)) = k]]

Symbol(prefix, n) == <<"<", prefix, Numerals[n], ">">>

\* Mutant: the counter of a prefix is not advanced.
NumberedOnce(pairs) ==
    [k \in 1..Len(pairs) |-> [symbol |-> Symbol(pairs[k].prefix, 1), literal |-> pairs[k].literal]]

\* The numbers are given before anything is replaced, per prefix.
Numbered(pairs) ==
    LET count(k) == Cardinality({j \in 1..k : pairs[j].prefix = pairs[k].prefix})
    IN  [k \in 1..Len(pairs) |->
            [symbol |-> Symbol(pairs[k].prefix, count(k)), literal |-> pairs[k].literal]]

\* Every literal that is in a text, before the text is cut, gets its symbol, once.
Assigned(texts) ==
    LET chosen == {n \in 1..Len(Targets) :
                     /\ Targets[n].literal \notin Technical
                     /\ \E i \in 1..Len(texts) : Occurs(Targets[n].literal, texts[i])
                     /\ \A m \in 1..(n - 1) : Targets[m].literal # Targets[n].literal}
    IN  Numbered(LongestFirst(Targets, chosen))

Cut(t) == SubSeq(t, 1, IF Len(t) <= MaxPieces THEN Len(t) ELSE MaxPieces)

Masked(t, table) == ReplacedAll(t, [k \in 1..Len(table) |-> table[k].literal],
                                   [k \in 1..Len(table) |-> table[k].symbol])

\* apply.  A literal that is listed twice is replaced twice in the code, the second
\* time in vain unless it reads like a part of its own symbol.
Apply(texts) ==
    LET table == Assigned(texts)
    IN  [texts |-> [i \in 1..Len(texts) |-> Masked(Cut(texts[i]), table)], table |-> table]

\* A span the model proposes: it must stand in a masked text, hold no bracket and be
\* no technical term.  That it is no part of a symbol is not checked.
ValidSpan(s, bodies) ==
    /\ s # <<>> /\ s \notin Technical
    /\ \A i \in 1..Len(s) : s[i] \notin Brackets
    /\ \E i \in 1..Len(bodies) : Occurs(s, bodies[i])

\* apply_conservative, after the model has answered: the first MaxSpans valid spans,
\* each once.  Those of equal length are numbered as they were proposed; the code
\* orders them by their text.
Conservative(base, spans) ==
    LET valid == {n \in 1..Len(spans) : /\ ValidSpan(spans[n], base.texts)
                                        /\ \A m \in 1..(n - 1) : spans[m] # spans[n]}
        taken == {n \in valid : Cardinality({m \in valid : m < n}) < MaxSpans}
        pairs == [n \in 1..Len(spans) |-> [prefix |-> "CTX", literal |-> spans[n]]]
        more  == Numbered(LongestFirst(pairs, taken))
    IN  [texts |-> [i \in 1..Len(base.texts) |-> Masked(base.texts[i], more)],
         table |-> base.table \o more]

\* rehydrate_text: symbol after symbol.  The longest are first in the code, so that
\* none is found inside another; here a symbol ends with its bracket and cannot be,
\* and the order is the table's.
Rehydrated(t, table) == ReplacedAll(t, [k \in 1..Len(table) |-> table[k].symbol],
                                       [k \in 1..Len(table) |-> table[k].literal])

\* symbols_in what came out: reported and left standing.
Prefixes == {"CTX"} \cup {Targets[n].prefix : n \in 1..Len(Targets)}
Unresolved(t) == {i \in 1..Len(t) : \E p \in Prefixes, n \in 1..Len(Numerals) :
                                       StandsAt(Symbol(p, n), t, i)}
=============================================================================
