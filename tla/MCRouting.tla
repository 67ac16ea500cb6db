----------------------------- MODULE MCRouting -----------------------------
EXTENDS Routing, TLC

Card(topics, words, title, focus, units, leads) ==
  [topics |-> topics, words |-> words, title |-> title, focus |-> focus,
   units |-> units, leads |-> leads]

None == Card(0, 0, FALSE, FALSE, 0, FALSE)

\* Three sets of cards: near the threshold from both sides, ties, and a
\* person only the model can find.
MCProfiles == {
  1 :> Card(1, 1, FALSE, FALSE, 0, FALSE) @@
  2 :> Card(0, 2, FALSE, FALSE, 1, FALSE) @@
  3 :> Card(0, 1, FALSE, FALSE, 0, FALSE),
  1 :> None @@ 2 :> Card(0, 0, FALSE, TRUE, 0, FALSE) @@
  3 :> Card(0, 0, FALSE, FALSE, 2, TRUE),
  1 :> Card(0, 0, TRUE, FALSE, 1, TRUE) @@ 2 :> None @@
  3 :> Card(3, 0, FALSE, FALSE, 0, FALSE)}

\* The first peer claims a person of this node, and both claim person 3.
MCPeers == <<{1, 3}, {2, 3}>>
MCPurposes == <<{"list"}, {"broadcast"}>>

MCFull == {<<2, "local">>, <<3, "remote">>}

Pick(card, code) == [card |-> card, code |-> code]

\* The model fails or finds nobody, repeats a person, invents a person or a
\* code.
MCRawAnswers == {
  <<>>, <<Pick(<<3, "remote">>, "guess"), Pick(<<3, "remote">>, "adjacent")>>,
  <<Pick(<<9, "local">>, "topic_match"), Pick(<<2, "local">>, "topic_match"),
    Pick(<<2, "remote">>, "topic_match")>>}
============================================================================
