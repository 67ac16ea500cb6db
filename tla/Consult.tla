------------------------------- MODULE Consult -------------------------------
(***************************************************************************)
(* One question for which the server itself chooses whom to ask:            *)
(* Orchestrator.consult (the asker's own Agent first, then those that       *)
(* broadcast() finds relevant) and Orchestrator.hub_ask (one external call  *)
(* with the asker's documents, then everybody through BroadcastService).    *)
(*                                                                          *)
(* Both go through prepare() and send() for each Agent they ask.  AskFlow   *)
(* models those; here they are what their caller can tell of them: a call   *)
(* is blocked with a fallback answer, or crosses, and then comes back with  *)
(* an answer, a fallback or an exception.  A step is what runs between two  *)
(* awaits.  A call is a pair <<request, agent>>.                            *)
(***************************************************************************)
EXTENDS Naturals, FiniteSets

CONSTANTS
    Requests,    \* questions put to /api/ask/consult and /api/hub/ask
    Agents,      \* everyone whose card can be shown
    Me,          \* the asker, whose own Agent may be asked too
    Remote,      \* Agents of another node
    Limit,       \* AgentConfig.daily_limit
    MaxTargets,  \* min(request.max_targets, CONSULT_MAX_TARGETS)
    MaxRelevant  \* BROADCAST_MAX_RELEVANT

ASSUME AgentsAssumption ==
    IsFiniteSet(Agents) /\ Me \in Agents /\ Remote \subseteq Agents \ {Me}
ASSUME BoundsAssumption == Limit \in Nat /\ MaxTargets \in Nat \ {0} /\ MaxRelevant \in Nat

VARIABLES
    stage,      \* how far each request is
    cards,      \* the candidates broadcast() read as available
    relevant,   \* those triage left relevant
    chosen,     \* whom consult asks
    skipped,    \* ConsultResult.skipped
    ask,        \* where prepare/send of each call is
    heard,      \* what the latest ask of each call brought
    escalated,  \* the latest ask returned an escalation
    contexts,   \* calls whose PendingRequest is in Orchestrator._pending
    crossed,    \* how often a question of the call crossed the boundary
    items,      \* inbox items made for the call
    requestRows,\* rows of kind 'request' in the audit log, per Agent
    count,      \* AuditLog.count_today, per Agent
    consulted,  \* ConsultResult.consulted
    reported,   \* escalations in the result, per call
    digest      \* what the digest says

choiceVars == <<cards, relevant, chosen, skipped>>
callVars == <<ask, heard, escalated>>
ledgerVars == <<requestRows, count>>
resultVars == <<consulted, reported, digest>>
vars == <<stage, cards, relevant, chosen, skipped, ask, heard, escalated, contexts,
          crossed, items, requestRows, count, consulted, reported, digest>>

Calls == Requests \X Agents
CallsOf(r) == {r} \X Agents
Others == Agents \ {Me}
Local == Agents \ Remote

ConsultStages == {"self", "screening", "asking", "done"}
HubStages == {"hubzone", "hubasking", "hubdigest", "hubdone"}
AskStates == {"idle", "relevance", "preparing", "out", "answered", "failed", "notasked"}
Ended == {"idle", "answered", "failed", "notasked"}

\* An answer with high confidence and citations, one in the middle, one below
\* CONFIDENCE_ESCALATE, one that says there is nothing on the question (or has
\* next to no confidence); and a trusted-zone answer, whose confidence is 0.5,
\* with or without something on the question.
AgentGrades == {"sure", "unsure", "low", "unfit"}
ZoneGrades == {"zone", "zoneunfit"}
Grades == AgentGrades \cup ZoneGrades

\* _looks_irrelevant, or below IRRELEVANT_CONFIDENCE.
Unfit == {"unfit", "zoneunfit"}

TypeOK ==
    /\ stage \in [Requests -> {"new"} \cup ConsultStages \cup HubStages]
    /\ cards \in [Requests -> SUBSET Others]
    /\ relevant \in [Requests -> SUBSET Others]
    /\ chosen \in [Requests -> SUBSET Agents]
    /\ skipped \in [Requests -> SUBSET Agents]
    /\ ask \in [Calls -> AskStates]
    /\ heard \in [Calls -> Grades \cup {"none"}]
    /\ escalated \in [Calls -> BOOLEAN]
    /\ contexts \subseteq Calls
    /\ crossed \in [Calls -> Nat]
    /\ items \in [Calls -> Nat]
    /\ requestRows \in [Agents -> Nat]
    /\ count \in [Agents -> Nat]
    /\ consulted \in [Requests -> SUBSET Agents]
    /\ reported \in [Calls -> {0, 1}]
    /\ digest \in [Requests -> {"none", "answers", "nobody", "nothing", "silence", "error"}]

Init ==
    /\ stage = [r \in Requests |-> "new"]
    /\ cards = [r \in Requests |-> {}]
    /\ relevant = [r \in Requests |-> {}]
    /\ chosen = [r \in Requests |-> {}]
    /\ skipped = [r \in Requests |-> {}]
    /\ ask = [c \in Calls |-> "idle"]
    /\ heard = [c \in Calls |-> "none"]
    /\ escalated = [c \in Calls |-> FALSE]
    /\ contexts = {}
    /\ crossed = [c \in Calls |-> 0]
    /\ items = [c \in Calls |-> 0]
    /\ requestRows = [a \in Agents |-> 0]
    /\ count = [a \in Agents |-> 0]
    /\ consulted = [r \in Requests |-> {}]
    /\ reported = [c \in Calls |-> 0]
    /\ digest = [r \in Requests |-> "none"]

-----------------------------------------------------------------------------
(* Whom to ask *)

LimitReached(a) == a \notin Remote /\ count[a] >= Limit

\* agent_cards: the other node's cards are missing while it does not answer.
\* An Agent at its limit is a candidate that is not available.
Shown == {Others, Others \ Remote}
Available(shown) == {a \in shown : ~ LimitReached(a)}

\* A list in the order of its scores is cut after n names.
CutAt(n, s) == {t \in SUBSET s : Cardinality(t) = IF Cardinality(s) <= n THEN Cardinality(s) ELSE n}

\* Mutant: the asker's Agent is put in front without cutting the list again.
InFrontUncut(first) == {first \cup {Me}}

\* [request.asker, *chosen][:limit]: the last of the list makes room for the
\* asker's own Agent and is then neither chosen nor skipped.
InFront(first) == {t \cup {Me} : t \in CutAt(MaxTargets - 1, first \ {Me})}

\* consult starts prepare() for everyone chosen.
Asked(r, who) == [c \in Calls |-> IF c[1] = r /\ c[2] \in who THEN "preparing" ELSE ask[c]]

\* Targets the person picked on the chart, at most eight and all different.
ConsultNamed(r, ts) ==
    /\ stage[r] = "new"
    /\ \E first \in CutAt(MaxTargets, ts) :
         /\ chosen' = [chosen EXCEPT ![r] = first]
         /\ skipped' = [skipped EXCEPT ![r] = ts \ first]
         /\ ask' = Asked(r, first)
    /\ stage' = [stage EXCEPT ![r] = "asking"]
    /\ UNCHANGED <<cards, relevant, heard, escalated, contexts, crossed, items, ledgerVars,
                   resultVars>>

\* The asker has documents: the asker's Agent tries first.
ConsultSelf(r) ==
    /\ stage[r] = "new"
    /\ stage' = [stage EXCEPT ![r] = "self"]
    /\ ask' = Asked(r, {Me})
    /\ UNCHANGED <<choiceVars, heard, escalated, contexts, crossed, items, ledgerVars,
                   resultVars>>

ReadCards(r) ==
    /\ \E shown \in Shown : cards' = [cards EXCEPT ![r] = Available(shown)]
    /\ stage' = [stage EXCEPT ![r] = "screening"]

\* force_broadcast, no documents, or a session that cannot be read.
ConsultOpen(r) ==
    /\ stage[r] = "new"
    /\ ReadCards(r)
    /\ UNCHANGED <<relevant, chosen, skipped, callVars, contexts, crossed, items, ledgerVars,
                   resultVars>>

Sufficient(c) == ask[c] = "answered" /\ heard[c] \in {"sure", "unsure", "zone"}

SelfEnough(r) ==
    /\ stage[r] = "self"
    /\ Sufficient(<<r, Me>>)
    /\ stage' = [stage EXCEPT ![r] = "done"]
    /\ consulted' = [consulted EXCEPT ![r] = {Me}]
    /\ reported' = [reported EXCEPT ![<<r, Me>>] = IF escalated[<<r, Me>>] THEN 1 ELSE 0]
    /\ digest' = [digest EXCEPT ![r] = "answers"]
    /\ UNCHANGED <<choiceVars, callVars, contexts, crossed, items, ledgerVars>>

\* What the asker's own Agent escalated in this attempt is not in the result.
SelfShort(r) ==
    /\ stage[r] = "self"
    /\ ask[<<r, Me>>] \in {"answered", "failed"}
    /\ ~ Sufficient(<<r, Me>>)
    /\ ReadCards(r)
    /\ UNCHANGED <<relevant, chosen, skipped, callVars, contexts, crossed, items, ledgerVars,
                   resultVars>>

\* Triage answers.  An asker whose own Agent said something is asked once more.
Screened(r, found) ==
    /\ stage[r] = "screening"
    /\ found \subseteq cards[r] /\ Cardinality(found) <= MaxRelevant
    /\ relevant' = [relevant EXCEPT ![r] = found]
    /\ \E first \in CutAt(MaxTargets, found) :
         \E all \in IF ask[<<r, Me>>] = "answered" THEN InFront(first) ELSE {first} :
           /\ skipped' = [skipped EXCEPT ![r] = found \ first]
           /\ chosen' = [chosen EXCEPT ![r] = all]
           /\ ask' = Asked(r, all)
           /\ stage' = [stage EXCEPT ![r] = IF all = {} THEN "done" ELSE "asking"]
           /\ digest' = [digest EXCEPT ![r] = IF all = {} THEN "nobody" ELSE @]
    /\ UNCHANGED <<cards, heard, escalated, contexts, crossed, items, ledgerVars, consulted,
                   reported>>

-----------------------------------------------------------------------------
(* One ask: prepare() and send(), for consult and for BroadcastService *)

\* Mutant: consult forgets the context too.
DroppedNever(c, forgets) == contexts \cup {c}

\* A card that came back blocked, or an envelope that send() refuses because
\* the limit has been reached meanwhile: a trusted-zone answer takes its place.
\* consult drops the context of a blocked card, BroadcastService forgets it.
Dropped(c, forgets) == IF forgets THEN contexts \cup {c} ELSE contexts

PrepareBlocked(c, grade) ==
    /\ ask[c] = "preparing"
    /\ grade \in ZoneGrades
    /\ ask' = [ask EXCEPT ![c] = "answered"]
    /\ heard' = [heard EXCEPT ![c] = grade]
    /\ escalated' = [escalated EXCEPT ![c] = FALSE]
    /\ \E refused \in BOOLEAN :
         contexts' = Dropped(c, stage[c[1]] \in HubStages /\ ~ refused)
    /\ count' = [count EXCEPT ![c[2]] = @ + IF c[2] \in Remote THEN 0 ELSE 1]
    /\ UNCHANGED <<stage, choiceVars, crossed, items, requestRows, resultVars>>

\* prepare() or send() raises: no card, no fallback.
AskRaises(c) ==
    /\ ask[c] \in {"preparing", "out"}
    /\ ask' = [ask EXCEPT ![c] = "failed"]
    /\ heard' = [heard EXCEPT ![c] = "none"]
    /\ escalated' = [escalated EXCEPT ![c] = FALSE]
    /\ contexts' = contexts \ {c}
    /\ UNCHANGED <<stage, choiceVars, crossed, items, ledgerVars, resultVars>>

\* The prepared envelope is approved in the asker's name and sent in the turn
\* in which prepare() returns; the other node keeps its own ledger.
SendsAtOnce(c) ==
    /\ ask[c] = "preparing"
    /\ ~ LimitReached(c[2])
    /\ ask' = [ask EXCEPT ![c] = "out"]
    /\ crossed' = [crossed EXCEPT ![c] = @ + 1]
    /\ LET one == IF c[2] \in Remote THEN 0 ELSE 1
       IN  /\ requestRows' = [requestRows EXCEPT ![c[2]] = @ + one]
           /\ count' = [count EXCEPT ![c[2]] = @ + one]
    /\ UNCHANGED <<stage, choiceVars, heard, escalated, contexts, items, resultVars>>

\* The answer arrives.  What is not certain is drafted, which is one more row,
\* and put into its owner's inbox; an answer that finds nothing is not spared.
Answers(c, grade, uncertain) ==
    /\ ask[c] = "out"
    /\ grade \in AgentGrades
    /\ uncertain \in IF grade = "unfit" THEN BOOLEAN ELSE {grade # "sure"}
    /\ LET item == uncertain /\ c[2] \notin Remote
       IN  /\ items' = [items EXCEPT ![c] = @ + IF item THEN 1 ELSE 0]
           /\ count' = [count EXCEPT ![c[2]] = @ + IF item THEN 1 ELSE 0]
           /\ escalated' = [escalated EXCEPT ![c] = item]
    /\ heard' = [heard EXCEPT ![c] = grade]
    /\ ask' = [ask EXCEPT ![c] = "answered"]
    /\ UNCHANGED <<stage, choiceVars, contexts, crossed, requestRows, resultVars>>

\* The broker fails, or the time limit of send() fires, perhaps after the item
\* of an uncertain answer was added: the trusted zone answers instead.
FallsBack(c, grade, late) ==
    /\ ask[c] = "out"
    /\ grade \in ZoneGrades
    /\ late => c[2] \notin Remote
    /\ items' = [items EXCEPT ![c] = @ + IF late THEN 1 ELSE 0]
    /\ count' = [count EXCEPT ![c[2]] = @ + (IF late THEN 1 ELSE 0)
                                          + (IF c[2] \in Remote THEN 0 ELSE 1)]
    /\ heard' = [heard EXCEPT ![c] = grade]
    /\ escalated' = [escalated EXCEPT ![c] = FALSE]
    /\ ask' = [ask EXCEPT ![c] = "answered"]
    /\ UNCHANGED <<stage, choiceVars, contexts, crossed, requestRows, resultVars>>

-----------------------------------------------------------------------------
(* What consult makes of it *)

\* Mutant: gather() without return_exceptions.
AllEndedOrOneFailed(r) ==
    \/ \A c \in CallsOf(r) : ask[c] \in Ended
    \/ \E c \in CallsOf(r) : ask[c] = "failed"

AllEnded(r) == \A c \in CallsOf(r) : ask[c] \in Ended

\* An answer that finds nothing is left out, unless it is the asker's own.
Kept(r) == {a \in chosen[r] : ask[<<r, a>>] = "answered"
                                /\ (a = Me \/ heard[<<r, a>>] \notin Unfit)}

\* Mutant: the escalations of the answers that are kept.
ReportedKept(r) == {a \in Kept(r) : escalated[<<r, a>>]}

\* Every outcome's escalations, those of answers left out included.
Reported(r) == {a \in chosen[r] : escalated[<<r, a>>]}

\* Mutant: `irrelevant` is tested before `failed`.
DigestBlind(r) ==
    IF Kept(r) # {} THEN "answers"
    ELSE IF \E a \in chosen[r] : heard[<<r, a>>] \in Unfit THEN "nothing" ELSE "silence"

Digest(r) ==
    IF Kept(r) # {} THEN "answers"
    ELSE IF /\ \E a \in chosen[r] : heard[<<r, a>>] \in Unfit
            /\ ~ \E a \in chosen[r] : ask[<<r, a>>] = "failed"
    THEN "nothing" ELSE "silence"

Gathered(r) ==
    /\ stage[r] = "asking"
    /\ AllEnded(r)
    /\ stage' = [stage EXCEPT ![r] = "done"]
    /\ consulted' = [consulted EXCEPT ![r] = Kept(r)]
    /\ reported' = [c \in Calls |-> IF c[1] = r /\ c[2] \in Reported(r) THEN 1 ELSE reported[c]]
    /\ digest' = [digest EXCEPT ![r] = Digest(r)]
    /\ UNCHANGED <<choiceVars, callVars, contexts, crossed, items, ledgerVars>>

-----------------------------------------------------------------------------
(* hub_ask *)

\* BroadcastService asks every Agent of this node but the asker's, after asking
\* the zone model of each whether the question concerns its expertise.
HubBroadcast(r) ==
    /\ stage' = [stage EXCEPT ![r] = "hubasking"]
    /\ ask' = [c \in Calls |-> IF c[1] = r /\ c[2] \in Local \ {Me} THEN "relevance" ELSE ask[c]]

\* The row of the crossing is written, and then invoke() is called with two
\* arguments it does not take: it raises before anything crosses.  The payload
\* may be refused earlier, without a row.  Both end in _hub_exaone_fallback,
\* which answers in the zone first if the asker has documents.
HubAsk(r, documents, recorded) ==
    /\ stage[r] = "new"
    /\ requestRows' = [requestRows EXCEPT ![Me] = @ + IF recorded THEN 1 ELSE 0]
    /\ count' = [count EXCEPT ![Me] = @ + IF recorded THEN 1 ELSE 0]
    /\ IF documents
       THEN stage' = [stage EXCEPT ![r] = "hubzone"] /\ UNCHANGED ask
       ELSE HubBroadcast(r)
    /\ UNCHANGED <<choiceVars, heard, escalated, contexts, crossed, items, resultVars>>

\* The confidence of a zone answer is below CONFIDENCE_AUTO, so it is thrown
\* away, as an exception would be.
HubZone(r, counted) ==
    /\ stage[r] = "hubzone"
    /\ count' = [count EXCEPT ![Me] = @ + IF counted THEN 1 ELSE 0]
    /\ HubBroadcast(r)
    /\ UNCHANGED <<choiceVars, heard, escalated, contexts, crossed, items, requestRows,
                   resultVars>>

\* A relevance model that fails counts as a yes.
Relevance(c, yes) ==
    /\ ask[c] = "relevance"
    /\ ask' = [ask EXCEPT ![c] = IF yes THEN "preparing" ELSE "notasked"]
    /\ UNCHANGED <<stage, choiceVars, heard, escalated, contexts, crossed, items, ledgerVars,
                   resultVars>>

HubGathered(r) ==
    /\ stage[r] = "hubasking"
    /\ AllEnded(r)
    /\ LET answered == {a \in Agents : ask[<<r, a>>] = "answered"}
       IN  /\ stage' = [stage EXCEPT ![r] = IF answered = {} THEN "hubdone" ELSE "hubdigest"]
           /\ consulted' = [consulted EXCEPT ![r] = answered]
           /\ digest' = [digest EXCEPT ![r] = IF answered = {} THEN "error" ELSE @]
    /\ UNCHANGED <<choiceVars, callVars, contexts, crossed, items, ledgerVars, reported>>

\* The zone model puts the answers together, or the first of them is returned.
HubAnswers(r, counted) ==
    /\ stage[r] = "hubdigest"
    /\ stage' = [stage EXCEPT ![r] = "hubdone"]
    /\ count' = [count EXCEPT ![Me] = @ + IF counted THEN 1 ELSE 0]
    /\ digest' = [digest EXCEPT ![r] = "answers"]
    /\ UNCHANGED <<choiceVars, callVars, contexts, crossed, items, requestRows, consulted,
                   reported>>

Over(r) == stage[r] \in {"done", "hubdone"}

-----------------------------------------------------------------------------
\* Mutant: send() without its time limit.
AskEndsUnlimited(c) == \/ \E grade \in Grades : PrepareBlocked(c, grade)
                       \/ ask[c] = "preparing" /\ AskRaises(c)

AskEnds(c) == \/ \E grade \in Grades : PrepareBlocked(c, grade)
              \/ AskRaises(c)
              \/ \E grade \in Grades, late \in BOOLEAN : FallsBack(c, grade, late)

ScreeningEnds(r) == \E found \in SUBSET Others : Screened(r, found)

Next ==
    \/ \E r \in Requests :
          \/ \E ts \in SUBSET Agents \ {{}} : ConsultNamed(r, ts)
          \/ ConsultSelf(r)
          \/ ConsultOpen(r)
          \/ SelfEnough(r)
          \/ SelfShort(r)
          \/ ScreeningEnds(r)
          \/ Gathered(r)
          \/ \E documents, recorded \in BOOLEAN : HubAsk(r, documents, recorded)
          \/ \E counted \in BOOLEAN : HubZone(r, counted)
          \/ HubGathered(r)
          \/ \E counted \in BOOLEAN : HubAnswers(r, counted)
    \/ \E c \in Calls :
          \/ AskEnds(c)
          \/ SendsAtOnce(c)
          \/ \E grade \in Grades, uncertain \in BOOLEAN : Answers(c, grade, uncertain)
          \/ \E yes \in BOOLEAN : Relevance(c, yes)
    \/ (\A r \in Requests : Over(r)) /\ UNCHANGED vars   \* nobody asks any more

Spec == Init /\ [][Next]_vars

\* The zone model answers or times out and the loop runs what is ready; the
\* time limit of send() ends an ask whose answer does not come.
Fairness ==
    /\ \A r \in Requests : /\ WF_vars(SelfEnough(r))
                            /\ WF_vars(SelfShort(r))
                            /\ WF_vars(ScreeningEnds(r))
                            /\ WF_vars(Gathered(r))
                            /\ WF_vars(\E counted \in BOOLEAN : HubZone(r, counted))
                            /\ WF_vars(HubGathered(r))
                            /\ WF_vars(\E counted \in BOOLEAN : HubAnswers(r, counted))
    /\ \A c \in Calls : WF_vars(AskEnds(c)) /\ WF_vars(\E yes \in BOOLEAN : Relevance(c, yes))

FairSpec == Spec /\ Fairness

-----------------------------------------------------------------------------
(* Properties *)

ConsultOver(r) == stage[r] = "done"

\* The two caps of consult (orchestrator.py:583): however the first attempt of
\* the asker's own Agent and the list of relevant ones combine, one question
\* crosses to at most MaxTargets Agents, once to each, and to the asker's own
\* once more.
AskBudget ==
    \A r \in Requests : stage[r] \notin HubStages =>
        /\ Cardinality({a \in Others : crossed[<<r, a>>] > 0}) <= MaxTargets
        /\ \A a \in Others : crossed[<<r, a>>] <= 1
        /\ crossed[<<r, Me>>] <= 2
        /\ crossed[<<r, Me>>] = 2 =>
             Cardinality({a \in Others : crossed[<<r, a>>] > 0}) < MaxTargets

\* Whoever answered, with whatever was left out of the digest: the result names
\* the escalation of every answer that came back, so the asker learns that
\* somebody else's inbox has an item (orchestrator.py:755).
EscalationsTold ==
    \A r \in Requests : ConsultOver(r) => \A a \in Others :
        heard[<<r, a>>] \in AgentGrades
          /\ ask[<<r, a>>] = "answered" => reported[<<r, a>>] = items[<<r, a>>]

\* R-02, orchestrator.py:687-689: one Agent's failure costs nobody else's
\* answer, and when the result is returned nothing is still being asked.
FailureIsOneAgents ==
    \A r \in Requests : ConsultOver(r) =>
        /\ \A a \in Agents : ask[<<r, a>>] \notin {"preparing", "out"}
        /\ \A a \in chosen[r] : heard[<<r, a>>] \in {"sure", "unsure", "low"}
                                   /\ ask[<<r, a>>] = "answered" => a \in consulted[r]

\* orchestrator.py:760-763 and 769-771: "nobody had anything on it" is said
\* only if everybody asked has answered so, "nobody was found" only if nobody
\* else was asked.
DigestTrue ==
    \A r \in Requests :
        /\ digest[r] = "nothing" => \A a \in chosen[r] : /\ ask[<<r, a>>] = "answered"
                                                         /\ heard[<<r, a>>] \in Unfit
        /\ digest[r] = "nobody" => \A a \in Others : crossed[<<r, a>>] = 0

\* orchestrator.py:831: a finished consult leaves no context in _pending that
\* nobody will send.
ContextsReturned == \A c \in contexts : stage[c[1]] \in HubStages

\* Every question that is asked is answered, though no broker owes an answer.
ConsultEnds == \A r \in Requests : stage[r] # "new" ~> Over(r)

=============================================================================
