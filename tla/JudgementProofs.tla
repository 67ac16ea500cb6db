--------------------------- MODULE JudgementProofs ---------------------------
(***************************************************************************)
(* What holds of Judgement whatever the words, the directories, the         *)
(* protocols and the documents are: types, what a text that crosses rests   *)
(* on, that a model that fails lets nothing through but structure, and that *)
(* the company's protocol counts from the moment it is saved.               *)
(***************************************************************************)
EXTENDS Judgement, TLAPS

\* A text that what is built in, or its own header, calls SECRET.
BuiltIn(x) ==
    x.words \cap BaseBanned # {} \/ x.dirs \cap BaseSecret # {} \/ x.header = "secret"

\* The shape a call of each tier crosses in; a SECRET one has none.
Shape(t) == CASE t = "open" -> "verbatim" [] t = "internal" -> "pseudonymized"
              [] t = "secret" -> "none"

\* What is known of the evidence judged so far.
JudgedInv ==
    /\ \A d \in unanswered : judged[d] = "secret" /\ d \notin todo
    /\ \A d \in Documents : BuiltIn(d) => judged[d] \in {"none", "secret"}
    /\ \A d \in Documents : judged[d] = "open" => d.header = "open"

\* While the model is awaited: the rules have not called the text SECRET.
AwaitInv ==
    /\ stage = "documentModel" => /\ subject \in todo /\ ~ BuiltIn(subject)
                                  /\ floor = "open" => subject.header = "open"
    /\ stage \in {"idle", "question", "questionModel", "select"} => unanswered = {}
    /\ stage = "documents" => todo # {}
    /\ stage \in {"planned", "ready", "sent"} => EvidenceTiers # {}

\* What crosses has the shape of its call's tier, and that tier is not SECRET.
EnvelopeInv ==
    Crossing =>
      /\ CallTier # "secret" /\ representation = Shape(CallTier)
      /\ representation = "pseudonymized" => payload \cap Identifiers = {}
      /\ question \in Tasked => payload \cap BaseBanned = {}

IInv == TypeOK /\ JudgedInv /\ AwaitInv /\ EnvelopeInv

-----------------------------------------------------------------------------
(* The rules *)

LEMMA Ranks ==
    /\ Rank["open"] = 0 /\ Rank["internal"] = 1 /\ Rank["secret"] = 2
    /\ \A t \in Tiers : Rank[t] \in Nat
BY DEF Rank, Tiers

LEMMA HigherType ==
    ASSUME NEW s \in Tiers, NEW t \in Tiers
    PROVE  /\ Higher(s, t) \in {s, t}
           /\ Rank[Higher(s, t)] >= Rank[s] /\ Rank[Higher(s, t)] >= Rank[t]
BY Ranks DEF Higher, Tiers

LEMMA Verdicts ==
    ASSUME NEW x \in Text
    PROVE  /\ Verdict(x) \in Tiers \cup {"raises"}
           /\ BuiltIn(x) => Verdict(x) \in {"secret", "raises"}
           /\ Verdict(x) = "open" => x.header = "open"
<1> DEFINE rules == RulesInForce
<1>1. /\ BaseLiterals \subseteq rules.literals /\ BasePatterns \subseteq rules.patterns
      /\ BaseSecret \subseteq rules.directories
  BY DEF RulesInForce, Merge
<1> HIDE DEF rules
<1>2. RuleTier(x, rules) \in Tiers \cup {"raises"}
  BY DEF RuleTier, Tiers
<1>3. ASSUME BuiltIn(x) PROVE RuleTier(x, rules) \in {"secret", "raises"}
  <2>1. \/ x.dirs \cap rules.directories # {} \/ x.words \cap rules.literals # {}
        \/ x.words \cap rules.patterns # {} \/ x.header = "secret"
    BY <1>1, <1>3 DEF BuiltIn, BaseBanned
  <2> QED
    BY <2>1 DEF RuleTier
<1>4. RuleTier(x, rules) = "open" => x.header = "open"
  BY DEF RuleTier
<1> QED
  BY <1>2, <1>3, <1>4 DEF Verdict, rules

LEMMA Answers ==
    ASSUME NEW answer \in Tiers \cup {"failure"}, floor \in Tiers
    PROVE  /\ Classified(answer) \in Tiers
           /\ answer = "failure" => Classified(answer) = "secret"
           /\ Classified(answer) = "open" => floor = "open"
BY HigherType, Ranks DEF Classified, Higher, Tiers

\* The call's tier is the tier of some evidence, and no evidence has a higher one.
LEMMA TopTier ==
    ASSUME TypeOK, EvidenceTiers # {}
    PROVE  CallTier \in EvidenceTiers /\ \A s \in EvidenceTiers : Rank[s] <= Rank[CallTier]
<1>1. EvidenceTiers \subseteq Tiers
  <2>1. \A d \in Evidence : judged[d] \in Tiers
    BY DEF Evidence, TypeOK
  <2>2. \A a \in recalled : a.tier \in Tiers
    BY TextsAssumption DEF TypeOK, VerifiedQA
  <2> QED
    BY <2>1, <2>2 DEF EvidenceTiers
<1>2. \E t \in EvidenceTiers : \A s \in EvidenceTiers : Rank[s] <= Rank[t]
  <2>1. CASE "secret" \in EvidenceTiers
    BY <2>1, <1>1, Ranks DEF Tiers
  <2>2. CASE "secret" \notin EvidenceTiers /\ "internal" \in EvidenceTiers
    BY <2>2, <1>1, Ranks DEF Tiers
  <2>3. CASE "secret" \notin EvidenceTiers /\ "internal" \notin EvidenceTiers
    <3>1. EvidenceTiers = {"open"}
      BY <2>3, <1>1 DEF Tiers
    <3> QED
      BY <3>1, Ranks
  <2> QED
    BY <2>1, <2>2, <2>3
<1> QED
  BY <1>2 DEF CallTier

\* What a call whose tier is not SECRET may rest on.
LEMMA NotAbove ==
    ASSUME TypeOK, CallTier # "secret", NEW t \in EvidenceTiers
    PROVE  CallTier \in Tiers /\ t # "secret" /\ (CallTier = "open" => t = "open")
<1>1. EvidenceTiers \subseteq Tiers
  <2>1. \A d \in Evidence : judged[d] \in Tiers
    BY DEF Evidence, TypeOK
  <2>2. \A a \in recalled : a.tier \in Tiers
    BY TextsAssumption DEF TypeOK, VerifiedQA
  <2> QED
    BY <2>1, <2>2 DEF EvidenceTiers
<1>2. CallTier \in Tiers /\ t \in Tiers /\ Rank[t] <= Rank[CallTier]
  BY <1>1, TopTier
<1> QED
  BY <1>2, Ranks DEF Tiers

LEMMA SameEvidence ==
    judged' = judged /\ recalled' = recalled
      => Evidence' = Evidence /\ EvidenceTiers' = EvidenceTiers /\ CallTier' = CallTier
BY DEF Evidence, EvidenceTiers, CallTier

-----------------------------------------------------------------------------
(* Types *)

LEMMA TextParts ==
    ASSUME NEW x \in Text
    PROVE  x.words \subseteq Words
BY DEF Text

LEMMA Texts == Documents \subseteq Text /\ Questions \subseteq Text /\ NoText \in Text
BY TextsAssumption DEF Text, NoText

\* What the envelope holds are words.
LEMMA WordsOnly ==
    ASSUME TypeOK, NEW masked
    PROVE  Masked(masked) \subseteq Words /\ Excerpts \subseteq Words
                /\ question.words \subseteq Words
<1>1. question.words \subseteq Words
  BY TextParts DEF TypeOK
<1>2. Excerpts \subseteq Words
  <2>1. Originals \subseteq Text
    BY Texts, TextsAssumption DEF Originals, Evidence, VerifiedQA, TypeOK
  <2> QED
    BY <2>1, TextParts DEF Excerpts
<1> QED
  BY <1>1, <1>2 DEF Masked

LEMMA ForgottenType == TypeOK /\ Forgotten =>
    /\ question' \in Text /\ questionTier' \in Tiers /\ todo' \subseteq Documents
    /\ judged' \in [Documents -> Tiers \cup {"none"}] /\ unanswered' \subseteq Documents
    /\ recalled' \subseteq VerifiedQAs
    /\ subject' \in Text /\ floor' \in Tiers
    /\ representation' \in Representations /\ payload' \subseteq Words
BY Texts DEF Forgotten, Tiers, Representations

LEMMA TypeInit == Init => TypeOK
BY Texts DEF Init, TypeOK, Files, Tiers, Stages, Representations

LEMMA TypeStep == TypeOK /\ AwaitInv /\ [Next]_vars => TypeOK'
<1> SUFFICES ASSUME TypeOK, AwaitInv, [Next]_vars PROVE TypeOK'
  OBVIOUS
<1> USE DEF TypeOK, protocolVars, textVars, modelVars, envelopeVars
<1>1. ASSUME NEW o \in Files, BeginSave(o) \/ Delete(o) PROVE TypeOK'
  BY <1>1 DEF BeginSave, Delete
<1>2. ASSUME NEW p \in Protocols, EndSave(p) PROVE TypeOK'
  BY <1>2 DEF EndSave
<1>3. CASE FailSave
  BY <1>3 DEF FailSave
<1>4. CASE Restart
  BY <1>4, ForgottenType DEF Restart, Stages
<1>5. ASSUME NEW q \in Questions, Ask(q) PROVE TypeOK'
  BY <1>5, Texts DEF Ask, Stages
<1>6. CASE JudgeQuestion
  <2>1. CASE Raises(question)
    BY <1>6, <2>1 DEF JudgeQuestion, Raises, Stages
  <2>2. CASE Settled(question) /\ QuestionIs(Verdict(question))
    BY <1>6, <2>2, Verdicts DEF JudgeQuestion, Settled, QuestionIs, Stages
  <2>3. CASE AsksModel(question, "questionModel")
    BY <1>6, <2>3, Verdicts DEF JudgeQuestion, AsksModel, Stages
  <2> QED
    BY <1>6, <2>1, <2>2, <2>3 DEF JudgeQuestion
<1>7. ASSUME NEW answer \in Tiers \cup {"failure"}, QuestionAnswered(answer) PROVE TypeOK'
  BY <1>7, Answers DEF QuestionAnswered, QuestionIs, Stages
<1>8. ASSUME NEW found \in SUBSET Documents, NEW approved \in SUBSET VerifiedQAs,
             Select(found, approved)
      PROVE TypeOK'
  BY <1>8 DEF Select, Stages
<1>9. ASSUME NEW d \in Documents, JudgeDocument(d) PROVE TypeOK'
  <2>1. d \in Text
    BY Texts
  <2>2. CASE Raises(d)
    BY <1>9, <2>2 DEF JudgeDocument, Raises, Stages
  <2>3. CASE Settled(d) /\ DocumentIs(d, Verdict(d)) /\ UNCHANGED unanswered
    BY <1>9, <2>1, <2>3, Verdicts DEF JudgeDocument, Settled, DocumentIs, Stages
  <2>4. CASE AsksModel(d, "documentModel")
    BY <1>9, <2>1, <2>4, Verdicts DEF JudgeDocument, AsksModel, Stages
  <2> QED
    BY <1>9, <2>2, <2>3, <2>4 DEF JudgeDocument
<1>10. ASSUME NEW answer \in Tiers \cup {"failure"}, DocumentAnswered(answer)
       PROVE TypeOK'
  BY <1>10, Answers DEF DocumentAnswered, DocumentIs, Stages, AwaitInv
<1>11. CASE AnswerInZone
  BY <1>11 DEF AnswerInZone, Blocked, Stages
<1>12. ASSUME NEW masked \in SUBSET Words, Convert(masked) \/ PassThrough(masked) PROVE TypeOK'
  BY <1>12, WordsOnly DEF Convert, PassThrough, Validated, Made, Blocked, Stages, Representations
<1>13. CASE Send \/ Done
  BY <1>13, ForgottenType DEF Send, Done, Stages
<1>14. CASE UNCHANGED vars
  BY <1>14 DEF vars
<1> QED
  BY <1>1, <1>2, <1>3, <1>4, <1>5, <1>6, <1>7, <1>8, <1>9, <1>10, <1>11, <1>12, <1>13, <1>14
  DEF Next

-----------------------------------------------------------------------------
(* What the evidence is judged *)

\* The steps that judge no document and await none.
Elsewhere ==
    \/ UNCHANGED <<judged, recalled, unanswered, todo, stage, subject, floor>>
    \/ /\ UNCHANGED <<judged, recalled, unanswered, todo>>
       /\ \/ /\ stage \in {"idle", "question", "questionModel"}
             /\ stage' \in {"question", "questionModel", "select"}
          \/ stage \in {"planned", "ready"} /\ stage' \in {"ready", "sent"}
          \/ stage' = "inZone"
    \/ Forgotten /\ stage' = "idle"

LEMMA Steps ==
    ASSUME TypeOK, [Next]_vars
    PROVE  \/ Elsewhere
           \/ \E found \in SUBSET Documents, approved \in SUBSET VerifiedQAs :
                Select(found, approved)
           \/ \E d \in Documents : JudgeDocument(d)
           \/ \E answer \in Tiers \cup {"failure"} : DocumentAnswered(answer)
<1> USE DEF Elsewhere, vars, protocolVars, textVars, modelVars, envelopeVars
<1>1. ASSUME NEW o \in Files, BeginSave(o) \/ Delete(o) PROVE Elsewhere
  BY <1>1 DEF BeginSave, Delete
<1>2. ASSUME NEW p \in Protocols, EndSave(p) PROVE Elsewhere
  BY <1>2 DEF EndSave
<1>3. CASE FailSave \/ UNCHANGED vars
  BY <1>3 DEF FailSave
<1>4. CASE Restart \/ Done
  BY <1>4 DEF Restart, Done
<1>5. ASSUME NEW q \in Questions, Ask(q) PROVE Elsewhere
  BY <1>5 DEF Ask
<1>6. CASE JudgeQuestion
  BY <1>6 DEF JudgeQuestion, Raises, QuestionIs, AsksModel
<1>7. ASSUME NEW answer \in Tiers \cup {"failure"}, QuestionAnswered(answer) PROVE Elsewhere
  BY <1>7 DEF QuestionAnswered, QuestionIs
<1>8. CASE AnswerInZone
  BY <1>8 DEF AnswerInZone, Blocked
<1>9. ASSUME NEW masked \in SUBSET Words, Convert(masked) \/ PassThrough(masked) PROVE Elsewhere
  BY <1>9 DEF Convert, PassThrough, Validated, Made, Blocked
<1>10. CASE Send
  BY <1>10 DEF Send
<1> QED
  BY <1>1, <1>2, <1>3, <1>4, <1>5, <1>6, <1>7, <1>8, <1>9, <1>10 DEF Next

LEMMA JudgedInit == Init => JudgedInv /\ AwaitInv
BY DEF Init, JudgedInv, AwaitInv

LEMMA JudgedStep == TypeOK /\ JudgedInv /\ AwaitInv /\ [Next]_vars => JudgedInv' /\ AwaitInv'
<1> SUFFICES ASSUME TypeOK, JudgedInv, AwaitInv, [Next]_vars PROVE JudgedInv' /\ AwaitInv'
  OBVIOUS
<1>1. CASE Elsewhere
  <2>1. CASE Forgotten /\ stage' = "idle"
    BY <2>1 DEF Forgotten, JudgedInv, AwaitInv
  <2>2. CASE UNCHANGED <<judged, recalled, unanswered, todo>>
    <3>1. JudgedInv' /\ EvidenceTiers' = EvidenceTiers
      BY <2>2, SameEvidence DEF JudgedInv, BuiltIn
    <3>2. CASE UNCHANGED <<stage, subject, floor>>
      BY <2>2, <3>1, <3>2 DEF AwaitInv, BuiltIn
    <3>3. CASE stage' \in {"question", "questionModel", "select"}
               /\ stage \in {"idle", "question", "questionModel"}
      BY <2>2, <3>1, <3>3 DEF AwaitInv
    <3>4. CASE \/ stage \in {"planned", "ready"} /\ stage' \in {"ready", "sent"}
               \/ stage' = "inZone"
      BY <2>2, <3>1, <3>4 DEF AwaitInv
    <3>5. CASE Forgotten /\ stage' = "idle"
      BY <2>1, <3>5
    <3> QED
      BY <1>1, <3>2, <3>3, <3>4, <3>5 DEF Elsewhere
  <2> QED
    BY <1>1, <2>1, <2>2 DEF Elsewhere
<1>2. ASSUME NEW found \in SUBSET Documents, NEW approved \in SUBSET VerifiedQAs,
             Select(found, approved)
      PROVE JudgedInv' /\ AwaitInv'
  <2>1. /\ judged' = judged /\ unanswered' = unanswered /\ todo' = found
        /\ recalled' = approved /\ subject' = subject /\ floor' = floor
        /\ stage = "select" /\ stage' = IF found # {} THEN "documents"
                                        ELSE IF approved # {} THEN "planned" ELSE "inZone"
    BY <1>2 DEF Select, modelVars
  <2>2. approved # {} => EvidenceTiers' # {}
    BY <2>1 DEF EvidenceTiers
  <2> QED
    BY <2>1, <2>2 DEF JudgedInv, AwaitInv, BuiltIn
<1>3. ASSUME NEW d \in Documents, NEW t \in Tiers, d \in todo, DocumentIs(d, t),
             BuiltIn(d) => t = "secret", t = "open" => d.header = "open",
             unanswered' \in {unanswered, unanswered \cup {d}},
             unanswered' # unanswered => t = "secret",
             stage \in {"documents", "documentModel"}
      PROVE JudgedInv' /\ AwaitInv'
  <2>1. judged' = [judged EXCEPT ![d] = t] /\ todo' = todo \ {d}
    BY <1>3 DEF DocumentIs
  <2>2. judged'[d] = t /\ \A e \in Documents \ {d} : judged'[e] = judged[e]
    BY <2>1 DEF TypeOK
  <2>3. JudgedInv'
    BY <1>3, <2>1, <2>2 DEF JudgedInv, BuiltIn, TypeOK
  <2>4. judged'[d] \in EvidenceTiers'
    BY <2>2 DEF Evidence, EvidenceTiers, Tiers
  <2>5. stage' = (IF todo' = {} THEN "planned" ELSE "documents")
    BY <1>3 DEF DocumentIs
  <2> QED
    BY <2>3, <2>4, <2>5 DEF AwaitInv
<1>4. ASSUME NEW d \in Documents, JudgeDocument(d) PROVE JudgedInv' /\ AwaitInv'
  <2>1. /\ Verdict(d) \in Tiers \cup {"raises"}
        /\ BuiltIn(d) => Verdict(d) \in {"secret", "raises"}
        /\ Verdict(d) = "open" => d.header = "open"
    BY Texts, Verdicts
  <2>2. CASE Raises(d)
    BY <1>4, <2>2 DEF JudgeDocument, Raises, textVars, modelVars, JudgedInv, AwaitInv, BuiltIn
  <2>3. CASE Settled(d) /\ DocumentIs(d, Verdict(d)) /\ UNCHANGED unanswered
    <3>1. Verdict(d) \in Tiers /\ (BuiltIn(d) => Verdict(d) = "secret")
      BY <2>1, <2>3 DEF Settled, Tiers
    <3> QED
      BY <1>3, <1>4, <2>1, <2>3, <3>1 DEF JudgeDocument
  <2>4. CASE AsksModel(d, "documentModel")
    <3>1. ~ BuiltIn(d)
      BY <2>1, <2>4 DEF AsksModel
    <3>2. JudgedInv'
      BY <2>4 DEF AsksModel, textVars, JudgedInv, BuiltIn
    <3>3. stage' = "documentModel" /\ subject' = d /\ floor' = Verdict(d) /\ todo' = todo
      BY <2>4 DEF AsksModel, textVars
    <3>4. d \in todo
      BY <1>4 DEF JudgeDocument
    <3>5. AwaitInv'
      BY <2>1, <3>1, <3>3, <3>4 DEF AwaitInv, BuiltIn
    <3> QED
      BY <3>2, <3>5
  <2> QED
    BY <1>4, <2>2, <2>3, <2>4 DEF JudgeDocument
<1>5. ASSUME NEW answer \in Tiers \cup {"failure"}, DocumentAnswered(answer)
      PROVE JudgedInv' /\ AwaitInv'
  <2>1. /\ subject \in todo /\ subject \in Documents /\ ~ BuiltIn(subject)
        /\ floor = "open" => subject.header = "open"
    BY <1>5 DEF DocumentAnswered, AwaitInv, TypeOK
  <2>2. /\ Classified(answer) \in Tiers
        /\ answer = "failure" => Classified(answer) = "secret"
        /\ Classified(answer) = "open" => floor = "open"
    BY Answers DEF TypeOK
  <2> QED
    BY <1>3, <1>5, <2>1, <2>2 DEF DocumentAnswered
<1> QED
  BY <1>1, <1>2, <1>4, <1>5, Steps

-----------------------------------------------------------------------------
(* The envelope *)

LEMMA Envelopes ==
    ASSUME [Next]_vars, Crossing'
    PROVE  /\ UNCHANGED <<judged, recalled, question>>
           /\ \/ \E masked : Convert(masked) \/ PassThrough(masked)
              \/ Crossing /\ UNCHANGED envelopeVars
<1> USE DEF Crossing, vars, protocolVars, textVars, modelVars, envelopeVars
<1>1. ASSUME NEW o \in Files, BeginSave(o) \/ Delete(o)
      PROVE UNCHANGED <<judged, recalled, question>> /\ Crossing /\ UNCHANGED envelopeVars
  BY <1>1 DEF BeginSave, Delete
<1>2. ASSUME NEW p \in Protocols, EndSave(p)
      PROVE UNCHANGED <<judged, recalled, question>> /\ Crossing /\ UNCHANGED envelopeVars
  BY <1>2 DEF EndSave
<1>3. CASE FailSave \/ Send \/ UNCHANGED vars
  BY <1>3 DEF FailSave, Send
<1>4. ~ Restart /\ ~ Done
  BY DEF Restart, Done
<1>5. ASSUME NEW q PROVE ~ Ask(q)
  BY DEF Ask
<1>6. ~ JudgeQuestion
  BY DEF JudgeQuestion, Raises, QuestionIs, AsksModel
<1>7. ASSUME NEW answer PROVE ~ QuestionAnswered(answer) /\ ~ DocumentAnswered(answer)
  BY DEF QuestionAnswered, QuestionIs, DocumentAnswered, DocumentIs
<1>8. ASSUME NEW found, NEW approved PROVE ~ Select(found, approved)
  BY DEF Select
<1>9. ASSUME NEW d PROVE ~ JudgeDocument(d)
  BY DEF JudgeDocument, Raises, DocumentIs, AsksModel
<1>10. ~ AnswerInZone
  BY DEF AnswerInZone, Blocked
<1>11. ASSUME NEW masked, Convert(masked) \/ PassThrough(masked) PROVE UNCHANGED <<judged, recalled, question>>
  BY <1>11 DEF Convert, PassThrough
<1> QED
  BY <1>1, <1>2, <1>3, <1>4, <1>5, <1>6, <1>7, <1>8, <1>9, <1>10, <1>11 DEF Next

LEMMA EnvelopeStep == EnvelopeInv /\ [Next]_vars => EnvelopeInv'
<1> SUFFICES ASSUME EnvelopeInv, [Next]_vars, Crossing'
             PROVE  /\ CallTier # "secret" /\ representation' = Shape(CallTier)
                    /\ representation' = "pseudonymized" => payload' \cap Identifiers = {}
                    /\ question \in Tasked => payload' \cap BaseBanned = {}
  BY Envelopes, SameEvidence DEF EnvelopeInv, Shape
<1>1. ASSUME NEW masked, Convert(masked) \/ PassThrough(masked)
      PROVE  /\ \/ /\ CallTier = "internal" /\ representation' = "pseudonymized"
                   /\ payload' = Masked(masked)
                \/ CallTier = "open" /\ representation' = "verbatim"
             /\ question \in Tasked => payload' \cap BaseBanned = {}
  BY <1>1 DEF Convert, PassThrough, Validated, Passes, Made, Blocked, Crossing
<1>2. CASE Crossing /\ UNCHANGED envelopeVars
  BY <1>2 DEF EnvelopeInv, envelopeVars
<1> QED
  BY <1>1, <1>2, Envelopes DEF Shape, Masked, envelopeVars

LEMMA IInvInit == Init => IInv
BY TypeInit, JudgedInit DEF IInv, EnvelopeInv, Crossing, Init

LEMMA IInvStep == IInv /\ [Next]_vars => IInv'
BY TypeStep, JudgedStep, EnvelopeStep DEF IInv

LEMMA Inductive == Spec => []IInv
BY IInvInit, IInvStep, PTL DEF Spec

-----------------------------------------------------------------------------
(* Theorems *)

\* TypeOK: every variable keeps its type.  The document the model is asked of is
\* one that is still to judge, so a failure is recorded of a document only.
THEOREM JudgementTypes == Spec => []TypeOK
BY Inductive, PTL DEF IInv

\* TextThatCrosses: what crosses has the shape of the highest tier of its evidence,
\* the judged one and the approved answers; what is built in makes a file SECRET
\* whatever protocols are saved; and validation keeps banned words out of a task.
THEOREM WhatCrosses == Spec => []TextThatCrosses
<1>1. IInv => TextThatCrosses
  <2> SUFFICES ASSUME IInv, Crossing
               PROVE  /\ \A d \in Evidence : ~ BuiltIn(d)
                      /\ \A a \in recalled : a.tier # "secret"
                      /\ representation = "verbatim" =>
                           /\ \A d \in Evidence : d.header = "open"
                           /\ \A a \in recalled : a.tier = "open"
                      /\ representation = "pseudonymized" => payload \cap Identifiers = {}
                      /\ question \in Tasked => payload \cap BaseBanned = {}
    BY DEF TextThatCrosses, BuiltIn
  <2>1. CallTier # "secret" /\ representation = Shape(CallTier)
    BY DEF IInv, EnvelopeInv
  <2>2. EvidenceTiers # {}
    BY DEF IInv, AwaitInv, Crossing
  <2>3. CallTier \in Tiers /\ (representation = "verbatim" => CallTier = "open")
    <3>1. CallTier \in Tiers
      BY <2>1, <2>2, NotAbove DEF IInv
    <3> QED
      BY <2>1, <3>1 DEF Shape, Tiers
  <2>4. ASSUME NEW d \in Evidence
        PROVE  ~ BuiltIn(d) /\ (representation = "verbatim" => d.header = "open")
    <3>1. judged[d] \in EvidenceTiers /\ d \in Documents /\ judged[d] # "none"
      BY DEF Evidence, EvidenceTiers
    <3>2. judged[d] # "secret" /\ (CallTier = "open" => judged[d] = "open")
      BY <2>1, <3>1, NotAbove DEF IInv
    <3> QED
      BY <2>3, <3>1, <3>2 DEF IInv, JudgedInv
  <2>5. ASSUME NEW a \in recalled
        PROVE  a.tier # "secret" /\ (representation = "verbatim" => a.tier = "open")
    <3>1. a.tier \in EvidenceTiers
      BY DEF EvidenceTiers
    <3> QED
      BY <2>1, <2>3, <3>1, NotAbove DEF IInv
  <2> QED
    BY <2>4, <2>5 DEF IInv, EnvelopeInv
<1> QED
  BY <1>1, Inductive, PTL

\* FailClosed: one document that the model failed to judge makes the call SECRET,
\* and a SECRET call has no envelope.
THEOREM FailureIsSecret == Spec => []FailClosed
<1>1. IInv => FailClosed
  <2> SUFFICES ASSUME IInv, Crossing, NEW d \in unanswered PROVE FALSE
    BY DEF FailClosed
  <2>1. judged[d] = "secret" /\ judged[d] \in EvidenceTiers
    BY DEF IInv, TypeOK, JudgedInv, Evidence, EvidenceTiers
  <2> QED
    BY <2>1, NotAbove DEF IInv, EnvelopeInv
<1> QED
  BY <1>1, Inductive, PTL

LEMMA HitIsSecret ==
    ASSUME NEW x, NEW p \in Got(Company), Hits(x, p)
    PROVE  Verdict(x) \in {"secret", "raises"}
<1> DEFINE rules == RulesInForce
<1>1. /\ p.keywords \subseteq rules.literals /\ p.directories \subseteq rules.directories
      /\ p.patterns \cup Endings(p) \subseteq rules.patterns
  BY DEF RulesInForce, Merge
<1> HIDE DEF rules
<1>2. \/ x.dirs \cap rules.directories # {} \/ x.words \cap rules.literals # {}
      \/ x.words \cap rules.patterns # {}
  BY <1>1 DEF Hits
<1>3. RuleTier(x, rules) \in {"secret", "raises"}
  BY <1>2 DEF RuleTier
<1> QED
  BY <1>3 DEF Verdict, rules

\* The part of AppliesAtOnce that is about one document.
DocumentApplies(d, p) ==
    stage = "documents" /\ Hits(d, p) =>
      \/ stage' \in {"inZone", "idle"} \/ judged'[d] = "secret"
      \/ d \in todo' /\ ~ (stage' = "documentModel" /\ subject' = d)

QuestionApplies(p) ==
    stage = "question" /\ Hits(question, p) =>
      stage' \in {"question", "inZone", "idle"} \/ questionTier' = "secret"

LEMMA QuestionStep ==
    ASSUME TypeOK, [Next]_vars, NEW p \in Got(Company) PROVE QuestionApplies(p)
<1> SUFFICES ASSUME stage = "question", Hits(question, p)
             PROVE stage' \in {"question", "inZone", "idle"} \/ questionTier' = "secret"
  BY DEF QuestionApplies
<1>1. CASE JudgeQuestion
  BY <1>1, HitIsSecret DEF JudgeQuestion, Raises, Settled, QuestionIs, AsksModel
<1>2. CASE Restart \/ Done
  BY <1>2 DEF Restart, Done
<1>3. CASE UNCHANGED stage
  BY <1>3
<1>4. ASSUME NEW o \in Files, BeginSave(o) \/ Delete(o) PROVE UNCHANGED stage
  BY <1>4 DEF BeginSave, Delete
<1>5. ASSUME NEW q \in Protocols, EndSave(q) PROVE UNCHANGED stage
  BY <1>5 DEF EndSave
<1>6. FailSave \/ UNCHANGED vars => UNCHANGED stage
  BY DEF FailSave, vars
<1>7. ASSUME NEW a, NEW b
      PROVE ~ (Ask(a) \/ QuestionAnswered(a) \/ Select(a, b) \/ JudgeDocument(a)
                      \/ DocumentAnswered(a) \/ Convert(a) \/ PassThrough(a))
  BY DEF Ask, QuestionAnswered, Select, JudgeDocument, DocumentAnswered, Convert, PassThrough
<1>8. ~ AnswerInZone /\ ~ Send
  BY DEF AnswerInZone, Send
<1> QED
  BY <1>1, <1>2, <1>3, <1>4, <1>5, <1>6, <1>7, <1>8 DEF Next

LEMMA DocumentStep ==
    ASSUME TypeOK, [Next]_vars, NEW p \in Got(Company), NEW d \in todo PROVE DocumentApplies(d, p)
<1> SUFFICES ASSUME stage = "documents", Hits(d, p)
             PROVE \/ stage' \in {"inZone", "idle"} \/ judged'[d] = "secret"
                   \/ d \in todo' /\ ~ (stage' = "documentModel" /\ subject' = d)
  BY DEF DocumentApplies
<1>1. ASSUME NEW e \in Documents, JudgeDocument(e)
      PROVE \/ stage' = "inZone" \/ judged'[d] = "secret"
            \/ d \in todo' /\ ~ (stage' = "documentModel" /\ subject' = d)
  <2>1. CASE e = d
    BY <1>1, <2>1, HitIsSecret DEF JudgeDocument, Raises, Settled, DocumentIs, AsksModel, TypeOK
  <2>2. CASE e # d
    BY <1>1, <2>2 DEF JudgeDocument, Raises, DocumentIs, AsksModel, textVars, TypeOK
  <2> QED
    BY <2>1, <2>2
<1>2. CASE Restart \/ Done
  BY <1>2 DEF Restart, Done
<1>3. CASE UNCHANGED <<stage, todo>>
  BY <1>3
<1>4. ASSUME NEW o \in Files, BeginSave(o) \/ Delete(o) PROVE UNCHANGED <<stage, todo>>
  BY <1>4 DEF BeginSave, Delete, textVars
<1>5. ASSUME NEW q \in Protocols, EndSave(q) PROVE UNCHANGED <<stage, todo>>
  BY <1>5 DEF EndSave, textVars
<1>6. FailSave \/ UNCHANGED vars => UNCHANGED <<stage, todo>>
  BY DEF FailSave, vars, textVars
<1>7. ASSUME NEW a, NEW b
      PROVE ~ (Ask(a) \/ QuestionAnswered(a) \/ Select(a, b)
                      \/ DocumentAnswered(a) \/ Convert(a) \/ PassThrough(a))
  BY DEF Ask, QuestionAnswered, Select, DocumentAnswered, Convert, PassThrough
<1>8. ~ JudgeQuestion /\ ~ AnswerInZone /\ ~ Send
  BY DEF JudgeQuestion, AnswerInZone, Send
<1> QED
  BY <1>1, <1>2, <1>3, <1>4, <1>5, <1>6, <1>7, <1>8 DEF Next

\* AppliesAtOnce: a text judged after the company's protocol is saved is SECRET if it
\* holds what the protocol names, and is not put to the model; saved while the model
\* is awaited for another text, it counts for those that come after.
THEOREM CompanyApplies == Spec => AppliesAtOnce
<1>1. TypeOK /\ [Next]_vars => Applies
  <2> SUFFICES ASSUME TypeOK, [Next]_vars, NEW p \in Got(Company)
               PROVE  QuestionApplies(p) /\ \A d \in todo : DocumentApplies(d, p)
    BY DEF Applies, QuestionApplies, DocumentApplies
  <2> QED
    BY QuestionStep, DocumentStep
<1> QED
  BY <1>1, JudgementTypes, PTL DEF Spec, AppliesAtOnce

\* protocol_schemas.py:8, "the stricter side wins": more protocols never make a
\* text less secret, if they open no directory and every pattern compiles.
THEOREM StricterWins ==
    ASSUME NEW few \in SUBSET Protocol, NEW more \in SUBSET Protocol, few \subseteq more,
           \A p \in more : ~ p.broken, \A p \in more \ few : p.open = {}, NEW x \in Text
    PROVE  Rank[RuleTier(x, Merge(few))] <= Rank[RuleTier(x, Merge(more))]
<1> DEFINE r == Merge(few)  s == Merge(more)
<1>1. r.literals \subseteq s.literals /\ r.patterns \subseteq s.patterns
      /\ r.directories \subseteq s.directories
  BY DEF Merge
<1>2. s.open \subseteq r.open
  BY DEF Merge
<1>3. ~ r.broken /\ ~ s.broken
  BY DEF Merge
<1> HIDE DEF r, s
<1>4. RuleTier(x, r) \in Tiers /\ RuleTier(x, s) \in Tiers
  BY <1>3 DEF RuleTier, Tiers
<1>5. RuleTier(x, r) = "secret" => RuleTier(x, s) = "secret"
  BY <1>1, <1>3 DEF RuleTier
<1>6. RuleTier(x, s) = "open" => RuleTier(x, r) \in {"open", "secret"}
  BY <1>2, <1>3 DEF RuleTier
<1>7. RuleTier(x, s) = "open" => RuleTier(x, r) = "open"
  BY <1>5, <1>6
<1>8. Rank[RuleTier(x, r)] <= Rank[RuleTier(x, s)]
  BY <1>4, <1>5, <1>7, Ranks DEF Tiers
<1> QED
  BY <1>8 DEF r, s
=============================================================================
