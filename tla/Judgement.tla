------------------------------ MODULE Judgement ------------------------------
(***************************************************************************)
(* Which tier a text gets, and what may cross the trust boundary because of *)
(* it: the security protocols on disk (ProtocolStore), the rules they are   *)
(* merged into, Classifier, and the part of Orchestrator._prepare_inner     *)
(* that judges one question and its evidence and makes the envelope.        *)
(*                                                                          *)
(* The editors of the protocols and the question share one event loop.  The *)
(* model of the trusted zone is awaited for every text the rules do not     *)
(* call SECRET; protocols are saved and deleted meanwhile, and a save can   *)
(* be cut short after the file is truncated.                                *)
(*                                                                          *)
(* A text is what the rules can tell of it.  A word stands for whatever a   *)
(* keyword or a pattern matches, a glob for whatever is under a directory.  *)
(* The name of a file is read by no rule but those for directories.         *)
(* internal_path_globs are left out: they give INTERNAL, as does the        *)
(* default that follows them.                                               *)
(***************************************************************************)
EXTENDS Naturals

CONSTANTS
    Words, Globs,
    Company,        \* the owner of the company's protocol
    Owners,         \* the teams and persons that have one of their own
    Protocols,      \* what editors save
    Documents,      \* what selected files hold
    Questions,      \* what is asked: texts without a path
    VerifiedQAs,    \* approved answers: a text, which its owner may have edited, and a tier
    Tasked,         \* the questions that choose_schema finds a task for
    Long,           \* the texts too long for a payload
    Extensions,     \* what secret_extensions may list
    Ending,         \* the word that stands for "the text ends in this extension"
    BaseLiterals, BasePatterns,     \* data.banned
    BaseSecret, BaseOpen,   \* the globs written into _merge_to_rules
    Identifiers,    \* what PseudonymTargets replaces
    Absent, Torn    \* a file that is not there, and one that a cut write left empty

Tiers == {"open", "internal", "secret"}
Rank == [t \in Tiers |-> CASE t = "open" -> 0 [] t = "internal" -> 1 [] t = "secret" -> 2]

Text == [words : SUBSET Words, dirs : SUBSET Globs, prefixes : SUBSET Globs,
         header : Tiers \cup {"none"}]

VerifiedQA == [text : Text, tier : Tiers]

\* patterns holds secret_patterns and secret_content_patterns; broken says that one
\* of them is no regular expression.  The internal keywords and extensions and the
\* hints of a protocol are used nowhere.
Protocol == [keywords : SUBSET Words, patterns : SUBSET Words, broken : BOOLEAN,
             extensions : SUBSET Extensions,
             directories : SUBSET Globs, open : SUBSET Globs]

ASSUME CompanyAssumption == Company \notin Owners
ASSUME ProtocolsAssumption ==
    Protocols \subseteq Protocol /\ {Absent, Torn} \cap Protocols = {} /\ Absent # Torn
ASSUME TextsAssumption ==
    /\ Documents \subseteq Text
    /\ Questions \subseteq {x \in Text : x.dirs = {} /\ x.prefixes = {}}
    /\ VerifiedQAs \subseteq VerifiedQA
    /\ Tasked \subseteq Questions /\ Long \subseteq Text
ASSUME EndingAssumption == Ending \in [Extensions -> Words]
ASSUME BaseAssumption ==
    /\ BaseLiterals \subseteq Words /\ BasePatterns \subseteq Words
    /\ BaseSecret \subseteq Globs /\ BaseOpen \subseteq Globs

BaseBanned == BaseLiterals \cup BasePatterns
Files == {Company} \cup Owners
NoText == [words |-> {}, dirs |-> {}, prefixes |-> {}, header |-> "none"]

VARIABLES
    file,           \* what each owner's file holds
    saving,         \* the file the running handler has truncated, if any
    useExaone,      \* cfg: whether the model is asked at all
    stage,          \* where the question is
    question,       \* its text
    questionTier,   \* its tier
    todo,           \* evidence still to judge
    judged,         \* the tier of the evidence judged so far
    recalled,       \* the approved answers among the evidence
    subject,        \* the text the model is judging
    floor,          \* what the rules said of it
    unanswered,     \* evidence the model failed to judge
    representation, \* of the envelope
    payload         \* the words in it

protocolVars == <<file, saving>>
textVars == <<question, questionTier, todo, judged, recalled, unanswered>>
modelVars == <<subject, floor>>
envelopeVars == <<representation, payload>>
vars == <<protocolVars, useExaone, stage, textVars, modelVars, envelopeVars>>

Stages == {"idle", "question", "questionModel", "select", "documents", "documentModel",
           "planned", "ready", "sent", "inZone"}
Representations == {"none", "pseudonymized", "verbatim"}

TypeOK ==
    /\ file \in [Files -> Protocols \cup {Absent, Torn}]
    /\ saving \subseteq Files
    /\ useExaone \in BOOLEAN
    /\ stage \in Stages
    /\ question \in Text
    /\ questionTier \in Tiers
    /\ todo \subseteq Documents
    /\ judged \in [Documents -> Tiers \cup {"none"}]
    /\ recalled \subseteq VerifiedQAs
    /\ subject \in Text
    /\ floor \in Tiers
    /\ unanswered \subseteq Documents
    /\ representation \in Representations
    /\ payload \subseteq Words

Forgotten ==
    /\ question' = NoText /\ questionTier' = "open"
    /\ todo' = {} /\ judged' = [d \in Documents |-> "none"] /\ recalled' = {} /\ unanswered' = {}
    /\ subject' = NoText /\ floor' = "open"
    /\ representation' = "none" /\ payload' = {}

Init ==
    /\ file \in [Files -> Protocols \cup {Absent}]
    /\ saving = {}
    /\ useExaone \in BOOLEAN
    /\ stage = "idle"
    /\ question = NoText /\ questionTier = "open"
    /\ todo = {} /\ judged = [d \in Documents |-> "none"] /\ recalled = {} /\ unanswered = {}
    /\ subject = NoText /\ floor = "open"
    /\ representation = "none" /\ payload = {}

-----------------------------------------------------------------------------
(* The rules *)

\* An extension becomes the pattern "\.ext$", and patterns are searched in the text:
\* what it finds is a text that ends in the extension, whatever its file is called.
Endings(p) == {Ending[e] : e \in p.extensions}

\* _merge_to_rules: the union of what the protocols say and of what is built in.
Merge(protocols) ==
    [literals    |-> BaseLiterals \cup UNION {p.keywords : p \in protocols},
     patterns    |-> BasePatterns \cup UNION {p.patterns \cup Endings(p) : p \in protocols},
     broken      |-> \E p \in protocols : p.broken,
     directories |-> BaseSecret \cup UNION {p.directories : p \in protocols},
     open        |-> BaseOpen \cup UNION {p.open : p \in protocols}]

\* ProtocolStore.get: a file that is missing or does not load is no protocol.
Got(o) == {file[o]} \cap Protocols

\* Mutant: the rules loaded at the start are kept.
RulesNeverRead == Merge({})

\* data.rules: merged_rules is called without a team and without a person.
RulesInForce == Merge(Got(Company))

\* rule_tier: the first rule that applies.  The patterns are compiled only when no
\* directory and no literal has matched, and one that does not compile raises.
\* OPEN takes two signals, the header and the path.
RuleTier(x, rules) ==
    IF x.dirs \cap rules.directories # {} \/ x.words \cap rules.literals # {} THEN "secret"
    ELSE IF rules.broken THEN "raises"
    ELSE IF x.words \cap rules.patterns # {} \/ x.header = "secret" THEN "secret"
    ELSE IF x.header = "open" /\ x.prefixes \cap rules.open # {} THEN "open"
    ELSE "internal"

Higher(s, t) == IF Rank[s] >= Rank[t] THEN s ELSE t

\* Mutant: a model that does not answer is left out.
FailedOpen(answer) == IF answer = "failure" THEN floor ELSE Higher(floor, answer)

\* Classifier.classify after the model: it can raise the tier, never lower it; any
\* failure of it is SECRET.
Classified(answer) == IF answer = "failure" THEN "secret" ELSE Higher(floor, answer)

-----------------------------------------------------------------------------
(* Editing the protocols *)

\* upsert_protocol: the file is truncated, then filled, in one turn of the loop.
BeginSave(o) ==
    /\ saving = {}
    /\ saving' = {o}
    /\ file' = [file EXCEPT ![o] = Torn]
    /\ UNCHANGED <<useExaone, stage, textVars, modelVars, envelopeVars>>

EndSave(p) ==
    /\ saving # {}
    /\ saving' = {}
    /\ file' = [o \in Files |-> IF o \in saving THEN p ELSE file[o]]
    /\ UNCHANGED <<useExaone, stage, textVars, modelVars, envelopeVars>>

\* The write raises; the file stays truncated and no longer loads.
FailSave ==
    /\ saving # {}
    /\ saving' = {}
    /\ UNCHANGED <<file, useExaone, stage, textVars, modelVars, envelopeVars>>

\* delete_protocol
Delete(o) ==
    /\ saving = {}
    /\ file[o] # Absent
    /\ file' = [file EXCEPT ![o] = Absent]
    /\ UNCHANGED <<saving, useExaone, stage, textVars, modelVars, envelopeVars>>

\* The process ends and is started again, with or without the model.
Restart ==
    /\ saving' = {}
    /\ useExaone' \in BOOLEAN
    /\ stage' = "idle"
    /\ Forgotten
    /\ UNCHANGED file

-----------------------------------------------------------------------------
(* Judging the question and its evidence *)

Ask(q) ==
    /\ saving = {} /\ stage = "idle"
    /\ stage' = "question"
    /\ question' = q
    /\ UNCHANGED <<protocolVars, useExaone, questionTier, todo, judged, recalled, unanswered,
                   modelVars, envelopeVars>>

\* Classifier.classify up to its await: the rules are those of this moment.
Verdict(x) == RuleTier(x, RulesInForce)

Raises(x) ==
    /\ Verdict(x) = "raises"
    /\ stage' = "inZone"
    /\ UNCHANGED <<textVars, modelVars>>

\* Decided without the model.
Settled(x) ==
    /\ Verdict(x) = "secret" \/ (Verdict(x) # "raises" /\ ~ useExaone)
    /\ UNCHANGED modelVars

AsksModel(x, waiting) ==
    /\ Verdict(x) \notin {"raises", "secret"} /\ useExaone
    /\ stage' = waiting
    /\ subject' = x /\ floor' = Verdict(x)
    /\ UNCHANGED textVars

QuestionIs(t) ==
    /\ stage' = "select"
    /\ questionTier' = t
    /\ UNCHANGED <<question, todo, judged, recalled, unanswered>>

JudgeQuestion ==
    /\ saving = {} /\ stage = "question"
    /\ \/ Raises(question)
       \/ Settled(question) /\ QuestionIs(Verdict(question))
       \/ AsksModel(question, "questionModel")
    /\ UNCHANGED <<protocolVars, useExaone, envelopeVars>>

QuestionAnswered(answer) ==
    /\ saving = {} /\ stage = "questionModel"
    /\ QuestionIs(Classified(answer))
    /\ UNCHANGED <<protocolVars, useExaone, modelVars, envelopeVars>>

\* select_paths and read, and the newest approved answers; if there is neither,
\* kb_search_and_save; no evidence is ExtractionFailed.  An approved answer brings
\* the tier its question had, and is not judged.
Select(found, approved) ==
    /\ saving = {} /\ stage = "select"
    /\ stage' = IF found # {} THEN "documents"
                ELSE IF approved # {} THEN "planned" ELSE "inZone"
    /\ todo' = found /\ recalled' = approved
    /\ UNCHANGED <<protocolVars, useExaone, question, questionTier, judged, unanswered, modelVars,
                   envelopeVars>>

DocumentIs(d, t) ==
    /\ todo' = todo \ {d}
    /\ judged' = [judged EXCEPT ![d] = t]
    /\ stage' = IF todo' = {} THEN "planned" ELSE "documents"
    /\ UNCHANGED <<question, questionTier, recalled>>

JudgeDocument(d) ==
    /\ saving = {} /\ stage = "documents"
    /\ d \in todo
    /\ \/ Raises(d)
       \/ Settled(d) /\ DocumentIs(d, Verdict(d)) /\ UNCHANGED unanswered
       \/ AsksModel(d, "documentModel")
    /\ UNCHANGED <<protocolVars, useExaone, envelopeVars>>

DocumentAnswered(answer) ==
    /\ saving = {} /\ stage = "documentModel"
    /\ DocumentIs(subject, Classified(answer))
    /\ unanswered' = IF answer = "failure" THEN unanswered \cup {subject} ELSE unanswered
    /\ UNCHANGED <<protocolVars, useExaone, modelVars, envelopeVars>>

-----------------------------------------------------------------------------
(* The envelope *)

Evidence == {d \in Documents : judged[d] # "none"}

EvidenceTiers == {judged[d] : d \in Evidence} \cup {a.tier : a \in recalled}

\* Mutant: the tier of the lowest evidence.
LowestTier == CHOOSE t \in EvidenceTiers : \A s \in EvidenceTiers : Rank[s] >= Rank[t]

\* plan_calls: the highest tier of the evidence; the question's counts only when
\* there is none.
CallTier == CHOOSE t \in EvidenceTiers : \A s \in EvidenceTiers : Rank[s] <= Rank[t]

Originals == Evidence \cup {a.text : a \in recalled}
Excerpts == UNION {x.words : x \in Originals}

\* apply_conservative: the targets are replaced, and what the model proposes besides.
Masked(masked) == (question.words \cup Excerpts) \ (Identifiers \cup masked)

\* Gatekeeper.validate: no key but the task's, and question is none of them; no word
\* of data.banned; no more than the limit.  The comparison with the originals finds
\* nothing: a word is replaced wherever it stands.
Passes(words, asks) == ~ asks /\ words \cap BaseBanned = {} /\ Originals \cap Long = {}

Made(shape, words) ==
    stage' = "ready" /\ representation' = shape /\ payload' = words

\* Nothing crosses: the owner's own model answers, or nobody does.
Blocked == stage' = "inZone" /\ UNCHANGED envelopeVars

Validated(shape, words, asks) ==
    \/ Passes(words, asks) /\ Made(shape, words)
    \/ ~ Passes(words, asks) /\ Blocked

\* SECRET evidence: slots of a schema are filled and checked, and whatever comes of
\* it the envelope is discarded (AskFlow has how) and the answer is given here.
AnswerInZone ==
    /\ saving = {} /\ stage = "planned" /\ CallTier = "secret"
    /\ Blocked
    /\ UNCHANGED <<protocolVars, useExaone, textVars, modelVars>>

\* to_payload, for a question with a task.  The pseudonymized one has the question
\* added to it, the verbatim one has not.
Convert(masked) ==
    /\ saving = {} /\ stage = "planned" /\ question \in Tasked
    /\ \/ CallTier = "internal" /\ Validated("pseudonymized", Masked(masked), TRUE)
       \/ CallTier = "open" /\ Validated("verbatim", Excerpts, FALSE)
    /\ UNCHANGED <<protocolVars, useExaone, textVars, modelVars>>

\* to_payload_passthrough, for one without; passthrough_validation passes it.
PassThrough(masked) ==
    /\ saving = {} /\ stage = "planned" /\ question \notin Tasked
    /\ \/ CallTier = "internal" /\ Made("pseudonymized", Masked(masked))
       \/ CallTier = "open" /\ Made("verbatim", question.words \cup Excerpts)
    /\ UNCHANGED <<protocolVars, useExaone, textVars, modelVars>>

\* The asker approves; or leaves it, or asks again after a failure.
Send ==
    /\ saving = {} /\ stage = "ready"
    /\ stage' = "sent"
    /\ UNCHANGED <<protocolVars, useExaone, textVars, modelVars, envelopeVars>>

Done ==
    /\ saving = {} /\ stage \in {"ready", "sent", "inZone"}
    /\ stage' = "idle"
    /\ Forgotten
    /\ UNCHANGED <<protocolVars, useExaone>>

Next ==
    \/ \E o \in Files : BeginSave(o)
    \/ \E p \in Protocols : EndSave(p)
    \/ FailSave
    \/ \E o \in Files : Delete(o)
    \/ Restart
    \/ \E q \in Questions : Ask(q)
    \/ JudgeQuestion
    \/ \E answer \in Tiers \cup {"failure"} : QuestionAnswered(answer)
    \/ \E found \in SUBSET Documents, approved \in SUBSET VerifiedQAs : Select(found, approved)
    \/ \E d \in Documents : JudgeDocument(d)
    \/ \E answer \in Tiers \cup {"failure"} : DocumentAnswered(answer)
    \/ AnswerInZone
    \/ \E masked \in SUBSET Words : Convert(masked) \/ PassThrough(masked)
    \/ Send
    \/ Done

Spec == Init /\ [][Next]_vars

-----------------------------------------------------------------------------
(* Properties *)

Crossing == stage \in {"ready", "sent"}

\* FR-03 to FR-06, BR-G-04: whatever the protocols and the model do meanwhile, text
\* that crosses rests on no file that anything built in calls SECRET and on no answer
\* approved as SECRET; verbatim text only on files headed as public and on answers
\* approved as OPEN; pseudonymized text names no target, in the question either; and
\* a banned word, which no such file holds, is in no payload made for a task.  (What an
\* approved answer says is not judged: an owner's edit keeps the tier, and crosses
\* with it where there is no task.)
TextThatCrosses ==
    Crossing =>
      /\ \A d \in Evidence : /\ d.words \cap BaseBanned = {}
                             /\ d.dirs \cap BaseSecret = {}
                             /\ d.header # "secret"
      /\ \A a \in recalled : a.tier # "secret"
      /\ representation = "verbatim" =>
           (\A d \in Evidence : d.header = "open") /\ (\A a \in recalled : a.tier = "open")
      /\ representation = "pseudonymized" => payload \cap Identifiers = {}
      /\ question \in Tasked => payload \cap BaseBanned = {}

\* BR-G-01: nothing crosses of a question with a document the model failed to judge.
FailClosed == Crossing => unanswered = {}

\* DataBundle.rules: what the company's file says when a text is judged counts for
\* it, however late it was saved: no text that holds one of its keywords or matches one
\* of its patterns, that is under one of its directories, or that ends in one of its
\* extensions (the file's name is not looked at) gets past the rules.
Hits(x, p) ==
    \/ x.dirs \cap p.directories # {}
    \/ x.words \cap (p.keywords \cup p.patterns \cup Endings(p)) # {}

Applies ==
    \A p \in Got(Company) :
      /\ stage = "question" /\ Hits(question, p) =>
           stage' \in {"question", "inZone", "idle"} \/ questionTier' = "secret"
      /\ \A d \in todo : stage = "documents" /\ Hits(d, p) =>
           \/ stage' \in {"inZone", "idle"} \/ judged'[d] = "secret"
           \/ d \in todo' /\ ~ (stage' = "documentModel" /\ subject' = d)

AppliesAtOnce == [][Applies]_vars

=============================================================================
