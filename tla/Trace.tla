-------------------------------- MODULE Trace --------------------------------
(***************************************************************************)
(* The trace of a question (trace.py): what "경과 보기" opens under an       *)
(* answer.  prepare() makes a TraceRecorder for each target and every stage  *)
(* of the pipeline writes into it; what is recorded so far is put into the   *)
(* TraceStore when a card is returned, when something stopped the call, and  *)
(* in the `finally` of a send.  The store forgets: by age, and at its limit. *)
(*                                                                          *)
(* A call is one target of one question on its own node.  What a stage shows *)
(* is a set of kinds of content; wording and order on the screen are left    *)
(* out.  The envelopes, limits and rows behind the events are in AskFlow.    *)
(***************************************************************************)
EXTENDS Naturals, FiniteSets

CONSTANTS
    Calls,      \* the calls whose traces share the store
    Judgings,   \* judged evidence: [question |-> a decision, evidence |-> decisions]
    MaxTraces,  \* MAX_TRACES
    TTL         \* TRACE_TTL_SECONDS, in ticks

ASSUME MaxTracesAssumption == MaxTraces \in Nat \ {0}
ASSUME TTLAssumption == TTL \in Nat

VARIABLES
    step,    \* where prepare() or send() is with a call
    rec,     \* the TraceRecorder of each call
    sent,    \* calls with a row of kind 'request' in audit
    held,    \* the keys of TraceStore._items
    kept,    \* the trace last put under each key
    age,     \* its age, saturating above TTL
    handed   \* calls whose trace_id a response carried

vars == <<step, rec, sent, held, kept, age, handed>>

Steps == {"asked", "judged", "zone", "failed", "blocked", "card",
          "out", "sendfailed", "answered", "fellback", "cut"}
Tiers == {"open", "internal", "secret"}
StageIds == {"classify", "select", "transform", "validate", "dispatch", "rehydrate"}
Statuses == {"pass", "warn", "fail", "blocked"}

-----------------------------------------------------------------------------
(* A decision of the Classifier, and the table that explains it. *)

\* What a rule gives as its reason.  Two of rule 4's have no category of their
\* own ("헤더 'x' 이지만 …", "헤더 'x' + 공개 경로"): both are "lowered" here.
RuleReasons ==
    <<{"glob"}, {"literal"}, {"pattern"}, {"header", "lowered"}, {"ownGlob"}, {"default"}>>

\* Reasons with a matched path, word or mark in them.
Valued == {"glob", "literal", "pattern", "header", "lowered", "ownGlob", "verdict"}
Plain == {"default", "skipped", "failed", "none"}
Reasons == Valued \cup Plain

\* The rules end at the first that hits; SECRET needs no second opinion.
Decisions ==
    {d \in [rule : 1 .. 6, reason : Reasons, ruleTier : Tiers,
            ex : Tiers \cup {"skipped", "failed"}] :
        /\ d.reason \in RuleReasons[d.rule]
        /\ d.rule <= 3 => d.ruleTier = "secret"
        /\ d.ruleTier = "secret" => d.ex = "skipped"}

\* An approved answer has its tier already: nothing judged it.
Verified == [rule : {0}, reason : {"none"}, ruleTier : Tiers, ex : {"none"}]

ASSUME JudgingsAssumption ==
    Judgings \subseteq [question : Decisions, evidence : SUBSET (Decisions \cup Verified)]

MaxTier(ts) ==
    IF "secret" \in ts THEN "secret" ELSE IF "internal" \in ts THEN "internal" ELSE "open"

FinalTier(d) == IF d.ex = "failed" THEN "secret" ELSE MaxTier({d.ruleTier, d.ex} \cap Tiers)

\* The reasons of a TierDecision: the rule's, and what became of the model.
DecisionReasons(d) ==
    IF d.rule = 0 THEN {} ELSE {d.reason, IF d.ex \in Tiers THEN "verdict" ELSE d.ex}

Categories == {"glob", "literal", "pattern", "header", "ownGlob"}

\* A known reason becomes its category; an unknown one with a value in it is
\* hidden whole; the rest is shown as it is.
RedactReasons(reasons) ==
    {IF r \in Categories THEN "category" ELSE IF r \in Valued THEN "hidden" ELSE r
        : r \in reasons}

\* One row per rule, the model's row and the final one.
RuleStepRows(d) ==
    [rules |-> [n \in 1 .. 6 |->
                  CASE d.rule = 0 -> [verdict |-> "dash", status |-> "info"]
                    [] d.rule # 0 /\ n < d.rule -> [verdict |-> "miss", status |-> "pass"]
                    [] n = d.rule -> [verdict |-> "hit",
                                      status |-> IF d.ruleTier = "secret" THEN "warn" ELSE "pass"]
                    [] d.rule # 0 /\ n > d.rule -> [verdict |-> "unchecked", status |-> "info"]],
     detail |-> RedactReasons(DecisionReasons(d)),
     model |-> [verdict |-> d.ex, status |-> IF d.ex = "failed" THEN "warn"
                                             ELSE IF d.ex \in Tiers THEN "pass" ELSE "info"],
     final |-> FinalTier(d)]

\* Every decision the Classifier can make is explained by its table: one rule
\* row is the one that hit, a document ends SECRET exactly when that row warns,
\* the model said so, or the model failed (rule_step_rows), and no path, word or
\* mark that a rule matched is in it (redact_reasons).
TableExplains ==
    \A d \in Decisions :
      LET t == RuleStepRows(d)
      IN  /\ \E n \in 1 .. 6 : \A m \in 1 .. 6 : t.rules[m].verdict = "hit" <=> m = n
          /\ t.final = "secret" <=> \/ \E n \in 1 .. 6 : t.rules[n].status = "warn"
                                    \/ t.model.status = "warn"
                                    \/ t.model.verdict = "secret"
          /\ t.detail \cap Valued = {}

-----------------------------------------------------------------------------
(* The recorder.  An empty stage is one nothing has recorded. *)

Contents == {"title", "category", "hidden", "payload", "symbols", "checks", "count",
             "envelope", "line", "masked", "values", "why", "offending"} \cup Reasons

NotRecorded == [status |-> "none", shows |-> {}]
Stages == [status : Statuses, shows : SUBSET Contents] \cup {NotRecorded}
Recorders == [tier : Tiers \cup {"none"}, crossed : BOOLEAN, stages : [StageIds -> Stages]]

NewTrace == [tier |-> "none", crossed |-> FALSE, stages |-> [s \in StageIds |-> NotRecorded]]

\* A stage recorded again replaces what was there.
PutStage(r, id, status, shows) ==
    [r EXCEPT !.stages[id] = [status |-> status, shows |-> shows]]

HasBlocked(r) == \E id \in StageIds : r.stages[id].status = "blocked"

AddSelect(r) == PutStage(r, "select", "pass", {"title"})

AddClassify(r, j) ==
    LET tables == {RuleStepRows(d) : d \in j.evidence \cup {j.question}}
        effective == MaxTier({FinalTier(d) : d \in j.evidence})
    IN  [PutStage(r, "classify", "pass", {"title"} \cup UNION {t.detail : t \in tables})
            EXCEPT !.tier = effective]

\* The payload in full, and the symbols in it without what they stand for.  A
\* payload that is not clean has a fragment of an original in it.
AddTransform(r, clean) ==
    PutStage(r, "transform", "pass",
             {"payload", "symbols"} \cup IF clean THEN {} ELSE {"offending"})

\* Of the fragments a check found only their number is shown.
AddValidate(r, clean) ==
    PutStage(r, "validate", IF clean THEN "pass" ELSE "fail",
             {"checks"} \cup IF clean THEN {} ELSE {"count"})

\* crosses_boundary, the line on the screen and the words "sent", and the trace's
\* crossed_boundary are not the same: no caller of add_dispatch says sent=False, so
\* the stage has the line whether anything left or not.
Drawn(r) == "line" \in r.stages["dispatch"].shows

\* Mutant: the line is drawn for an answer only.
AddDispatchAnswered(r, failed) ==
    [PutStage(r, "dispatch", IF failed THEN "fail" ELSE "warn",
              {"envelope"} \cup IF failed THEN {} ELSE {"line"})
        EXCEPT !.crossed = ~ failed]

\* The stage is recorded after the call, whatever came of it (note_dispatch).
AddDispatch(r, failed) ==
    [PutStage(r, "dispatch", IF failed THEN "fail" ELSE "warn", {"envelope", "line"})
        EXCEPT !.crossed = ~ failed]

\* The answer before and after, and what its symbols stand for; the values of
\* the symbols that are not in the answer are shown as well.
AddRehydrate(r, unresolved) ==
    PutStage(r, "rehydrate", IF unresolved THEN "warn" ELSE "pass",
             {"masked", "symbols", "values"})

AddBlocked(r, id) ==
    [PutStage(r, id, "blocked", {"why"}) EXCEPT !.crossed = FALSE]

-----------------------------------------------------------------------------
(* The store. *)

TypeOK ==
    /\ step \in [Calls -> Steps]
    /\ rec \in [Calls -> Recorders]
    /\ sent \subseteq Calls
    /\ held \subseteq Calls
    /\ kept \in [Calls -> Recorders]
    /\ age \in [Calls -> 0 .. TTL + 1]
    /\ handed \subseteq Calls

Init ==
    /\ step = [c \in Calls |-> "asked"]
    /\ rec = [c \in Calls |-> NewTrace]
    /\ sent = {}
    /\ held = {}
    /\ kept = [c \in Calls |-> NewTrace]
    /\ age = [c \in Calls |-> 0]
    /\ handed = {}

Dead == {c \in held : age[c] > TTL}
Swept == held \ Dead

\* Mutant: the newest makes room.
Newest == {c \in Swept : \A d \in Swept : age[c] <= age[d]}

\* Of several put in one tick any may be the one min() returns.
Oldest == {c \in Swept : \A d \in Swept : age[c] >= age[d]}

\* TraceStore.put: a full store gives up its oldest even for a key it holds.
StorePut(c, trace) ==
    \E out \in IF Cardinality(Swept) >= MaxTraces THEN {{d} : d \in Oldest} ELSE {{}} :
        /\ held' = (Swept \ out) \cup {c}
        /\ kept' = [kept EXCEPT ![c] = trace]
        /\ age' = [age EXCEPT ![c] = 0]

KeepTrace(c, r) ==
    /\ rec' = [rec EXCEPT ![c] = r]
    /\ StorePut(c, r)

RecordOnly(c, r) ==
    /\ rec' = [rec EXCEPT ![c] = r]
    /\ UNCHANGED <<held, kept, age>>

Goto(c, from, to) ==
    /\ step[c] = from
    /\ step' = [step EXCEPT ![c] = to]

-----------------------------------------------------------------------------
(* prepare() *)

\* Nothing to read: the recorder says so before the exception is raised.
NoEvidence(c) ==
    /\ Goto(c, "asked", "failed")
    /\ KeepTrace(c, AddBlocked(rec[c], "select"))
    /\ UNCHANGED <<sent, handed>>

\* The evidence is chosen, read and judged.
Judge(c, j) ==
    /\ Goto(c, "asked", "judged")
    /\ RecordOnly(c, AddClassify(AddSelect(rec[c]), j))
    /\ UNCHANGED <<sent, handed>>

\* The daily limit, a session that cannot be loaded, any exception no branch
\* below is for: _prepare_one passes the recorder on with it.
PrepareFails(c) ==
    /\ \E from \in {"asked", "judged"} : Goto(c, from, "failed")
    /\ UNCHANGED <<rec, sent, held, kept, age, handed>>

\* No task fits evidence below SECRET: the text goes as it is, under a
\* validation that passes by itself, and the card is returned.
Passthrough(c) ==
    /\ rec[c].tier # "secret"
    /\ Goto(c, "judged", "card")
    /\ KeepTrace(c, AddValidate(AddTransform(rec[c], TRUE), TRUE))
    /\ handed' = handed \cup {c}
    /\ UNCHANGED sent

\* SECRET evidence without a structure never goes as text.
ExtractionFails(c) ==
    /\ rec[c].tier = "secret"
    /\ Goto(c, "judged", "failed")
    /\ KeepTrace(c, AddBlocked(rec[c], "transform"))
    /\ UNCHANGED <<sent, handed>>

Converted(c, clean) == AddValidate(AddTransform(rec[c], clean), clean)

ValidationFails(c) ==
    /\ Goto(c, "judged", "failed")
    /\ KeepTrace(c, AddBlocked(Converted(c, FALSE), "dispatch"))
    /\ UNCHANGED <<sent, handed>>

ValidationPasses(c) ==
    /\ rec[c].tier # "secret"
    /\ Goto(c, "judged", "card")
    /\ KeepTrace(c, Converted(c, TRUE))
    /\ handed' = handed \cup {c}
    /\ UNCHANGED sent

\* SECRET evidence waits for the trusted-zone model.
ToZone(c) ==
    /\ rec[c].tier = "secret"
    /\ Goto(c, "judged", "zone")
    /\ RecordOnly(c, Converted(c, TRUE))
    /\ UNCHANGED <<sent, handed>>

\* record_local refuses the reason "secret_tier_local" (AskFlow!ZoneAnswer), so
\* the stage that would tell how a SECRET question was answered is never added.
ZoneRaises(c) ==
    /\ Goto(c, "zone", "failed")
    /\ UNCHANGED <<rec, sent, held, kept, age, handed>>

\* Mutant: the reason is written over whatever stopped the call.
StoppedTwice(r) == AddBlocked(r, "dispatch")

\* _blocked_call: one reason, that of the stage that stopped the call.
Stopped(r) == IF HasBlocked(r) THEN r ELSE AddBlocked(r, "dispatch")

BlockedCall(c) ==
    /\ Goto(c, "failed", "blocked")
    /\ KeepTrace(c, Stopped(rec[c]))
    /\ handed' = handed \cup {c}
    /\ UNCHANGED sent

-----------------------------------------------------------------------------
(* send() *)

\* The envelope is gone: no dispatch is noted, and nothing is put.
SendExpired(c) ==
    /\ Goto(c, "card", "sendfailed")
    /\ UNCHANGED <<rec, sent, held, kept, age, handed>>

\* AgentClient.ask: the row is written and the envelope is out.
SendOut(c) ==
    /\ Goto(c, "card", "out")
    /\ sent' = sent \cup {c}
    /\ UNCHANGED <<rec, held, kept, age, handed>>

\* Mutant: only an answer is put into the store.
EndSendOnSuccess(c, r) == IF r.crossed THEN KeepTrace(c, r) ELSE RecordOnly(c, r)

\* The `finally` of _send_local puts whatever was recorded.
EndSend(c, r) == KeepTrace(c, r)

\* The daily limit, checked again in ask(), raises before the row is written; the
\* stage is recorded, with its line, for a call that never left.
SendLimited(c) ==
    /\ Goto(c, "card", "sendfailed")
    /\ EndSend(c, AddDispatch(rec[c], TRUE))
    /\ UNCHANGED <<sent, handed>>

\* A broker error, or the cancellation of the whole send by its time-out.
BrokerFails(c) ==
    /\ \E to \in {"sendfailed", "cut"} : Goto(c, "out", to)
    /\ EndSend(c, AddDispatch(rec[c], TRUE))
    /\ UNCHANGED <<sent, handed>>

BrokerAnswers(c, unresolved) ==
    /\ Goto(c, "out", "answered")
    /\ EndSend(c, AddRehydrate(AddDispatch(rec[c], FALSE), unresolved))
    /\ handed' = handed \cup {c}
    /\ UNCHANGED sent

\* The answer arrived and cannot be turned back into names.
RehydrateFails(c) ==
    /\ Goto(c, "out", "sendfailed")
    /\ EndSend(c, AddDispatch(rec[c], FALSE))
    /\ UNCHANGED <<sent, handed>>

\* The trusted-zone answer carries the trace of the failed call.
Fallback(c) ==
    /\ Goto(c, "sendfailed", "fellback")
    /\ handed' = handed \cup {c}
    /\ UNCHANGED <<rec, sent, held, kept, age>>

\* GET /api/trace/{trace_id}
OpenTrace(c) ==
    /\ c \in handed
    /\ held' = Swept
    /\ UNCHANGED <<step, rec, sent, kept, age, handed>>

Tick ==
    /\ age' = [c \in Calls |-> IF c \in held /\ age[c] <= TTL THEN age[c] + 1 ELSE age[c]]
    /\ UNCHANGED <<step, rec, sent, held, kept, handed>>

Next ==
    \/ \E c \in Calls :
          \/ NoEvidence(c)
          \/ \E j \in Judgings : Judge(c, j)
          \/ PrepareFails(c)
          \/ Passthrough(c)
          \/ ExtractionFails(c)
          \/ ValidationFails(c)
          \/ ValidationPasses(c)
          \/ ToZone(c)
          \/ ZoneRaises(c)
          \/ BlockedCall(c)
          \/ SendExpired(c)
          \/ SendOut(c)
          \/ SendLimited(c)
          \/ BrokerFails(c)
          \/ \E unresolved \in BOOLEAN : BrokerAnswers(c, unresolved)
          \/ RehydrateFails(c)
          \/ Fallback(c)
          \/ OpenTrace(c)
    \/ Tick

Spec == Init /\ [][Next]_vars

-----------------------------------------------------------------------------
\* A trace id in the asker's hands opens everything recorded for the call, or
\* nothing any more: no stage is recorded behind the one that was put
\* (_keep_trace after every way prepare() and send() end a call).
LatestKept == \A c \in handed \cap held : kept[c] = rec[c]

-----------------------------------------------------------------------------
(* The inductive invariant the theorems rest on. *)

\* What holds of a recorder whenever a step ends.
WellKept(r) ==
    /\ r.crossed => Drawn(r)
    /\ Drawn(r) => r.crossed \/ r.stages["dispatch"].status = "fail"
    /\ HasBlocked(r) =>
         /\ ~ r.crossed /\ ~ Drawn(r)
         /\ \E id \in StageIds : \A other \in StageIds :
              r.stages[other].status = "blocked" <=> other = id

BeforeSend == {"asked", "judged", "zone", "failed", "blocked", "card"}

\* How far a call is, and what its recorder can have in it by then.
Progress(c) ==
    /\ step[c] \in BeforeSend => c \notin sent /\ ~ Drawn(rec[c])
    /\ step[c] \notin {"failed", "blocked"} => ~ HasBlocked(rec[c])
    /\ step[c] = "out" => c \in sent /\ ~ Drawn(rec[c])
    /\ c \in sent /\ step[c] # "out" => Drawn(rec[c])
    /\ step[c] = "answered" => rec[c].crossed
    /\ rec[c].crossed => c \in sent
    /\ step[c] \in {"asked", "judged", "zone", "failed"} <=> c \notin handed

\* The store has what the recorder had when it was put, and never more.
KeptBefore(c) ==
    /\ WellKept(kept[c])
    /\ kept[c].crossed => c \in sent
    /\ HasBlocked(kept[c]) => step[c] \in {"failed", "blocked"}

Inv == /\ TypeOK
       /\ \A c \in Calls : WellKept(rec[c]) /\ Progress(c)
       /\ \A c \in held : KeptBefore(c)
       /\ LatestKept

-----------------------------------------------------------------------------
(* Properties *)

\* What a kept trace says of the boundary and what the audit says (note_dispatch,
\* orchestrator.py:1753-1778: the stage is recorded for a failed call too, because it
\* left).  No crossing goes untold: once the broker has answered, failed or been given
\* up, the trace of a call with a row has the line, an answered one's says "crossed",
\* and it says so of no call without a row.  A line without a row is that of a stage
\* marked failed: a call the daily limit refused is drawn as one that left.
CrossedIsTrue ==
    \A c \in held :
        /\ c \in sent /\ step[c] # "out" => Drawn(kept[c])
        /\ step[c] = "answered" => kept[c].crossed
        /\ kept[c].crossed => c \in sent
        /\ Drawn(kept[c]) /\ c \notin sent =>
             kept[c].stages["dispatch"].status = "fail" /\ ~ kept[c].crossed

\* "Two reasons, and the reader does not know which is real" (has_blocked): a
\* trace that says where a call stopped says it once, and of that call nothing
\* crossed, nothing is drawn as crossing and the audit has no row.
StoppedIsTrue ==
    \A c \in held : HasBlocked(kept[c]) =>
        /\ c \notin sent
        /\ ~ kept[c].crossed /\ ~ Drawn(kept[c])
        /\ \E id \in StageIds : \A other \in StageIds :
             kept[c].stages[other].status = "blocked" <=> other = id

\* TraceStore: a trace leaves for its age, or alone and as the oldest of those of a
\* full store that are not too old; the one being put is never the one that leaves.
\* That a put under a key the store holds makes room too is what the code does.
LeavesForCause ==
    [][/\ \A c \in held \ held' :
            \/ age[c] > TTL
            \/ /\ Cardinality(Swept) >= MaxTraces
               /\ \A d \in Swept \cap held' : age[d] <= age[c]
               /\ \A d \in Swept \ held' : d = c
       /\ \A c \in Calls : kept'[c] # kept[c] => c \in held']_vars

=============================================================================
