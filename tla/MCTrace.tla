------------------------------ MODULE MCTrace ------------------------------
EXTENDS Trace, TLC

Decided(rule, reason, ruleTier, ex) ==
    [rule |-> rule, reason |-> reason, ruleTier |-> ruleTier, ex |-> ex]

\* Evidence in a customer's directory; a mark that lowers nothing next to an
\* approved answer; a document the model could not judge.
MCJudgings ==
    {[question |-> Decided(6, "default", "internal", "internal"),
      evidence |-> {Decided(1, "glob", "secret", "skipped")}],
     [question |-> Decided(4, "lowered", "internal", "open"),
      evidence |-> {Decided(5, "ownGlob", "internal", "internal"),
                    Decided(0, "none", "internal", "none")}],
     [question |-> Decided(2, "literal", "secret", "skipped"),
      evidence |-> {Decided(6, "default", "internal", "failed")}]}

MCCalls == Permutations(Calls)
=============================================================================
