----------------------------- MODULE MCJudgement -----------------------------
(* Judgement for TLC: one word that is banned, one that names a target and one *)
(* that only a protocol knows, which is also how a text ends; a customer's     *)
(* directory and a public one; an answer edited into a banned word since it    *)
(* was approved, and one approved as public.                                   *)
EXTENDS Judgement

CONSTANTS banned, name, other, customer, public, own, ext

MCProtocols ==
    LET P(k, p, b, e, d, o) == [keywords |-> k, patterns |-> p, broken |-> b, extensions |-> e,
                                directories |-> d, open |-> o]
    IN {P({}, {}, FALSE, {ext}, {}, {}), P({other}, {}, FALSE, {}, {}, {}),
        P({}, {other}, FALSE, {}, {own}, {}), P({other}, {}, TRUE, {}, {}, {}),
        P({}, {}, FALSE, {}, {}, {own})}

MCEnding == [e \in {ext} |-> other]

T(w, d, pre, h) == [words |-> w, dirs |-> d, prefixes |-> pre, header |-> h]

MCDocuments ==
    {T({name}, {}, {public}, "open"), T({other}, {own}, {own}, "open"),
     T({banned}, {}, {public}, "open"), T({}, {customer}, {}, "none")}

MCVerifiedQAs ==
    {[text |-> T({banned, name}, {}, {}, "none"), tier |-> "internal"],
     [text |-> T({other}, {}, {}, "none"), tier |-> "open"]}

MCQuestions == {T({banned, name}, {}, {}, "none"), T({other}, {}, {}, "none")}
MCTasked == {T({other}, {}, {}, "none")}
MCLong == {T({}, {customer}, {}, "none")}
=============================================================================
