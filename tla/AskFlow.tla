------------------------------- MODULE AskFlow -------------------------------
(***************************************************************************)
(* A question put to one or two persons' Agents: Orchestrator.prepare and   *)
(* Orchestrator.send, with the EnvelopeCache, the audit database and the    *)
(* inbox they write.                                                        *)
(*                                                                          *)
(* The process is one asyncio loop, so a step of this module is what runs   *)
(* between two awaits.  prepare() converts each target's evidence into an   *)
(* envelope and keeps the context in _pending; the asker looks at the       *)
(* preview and approves; send() takes each envelope out of the cache, lets  *)
(* it cross the trust boundary, puts the originals back into the answer and *)
(* escalates what is not certain.  Requests of several askers interleave.   *)
(*                                                                          *)
(* A call is a pair <<request, target>>; the envelope, its cache entry, its *)
(* Mapping and its PendingCall are all named by it.                         *)
(***************************************************************************)
EXTENDS Naturals, Sequences, FiniteSets, Functions

CONSTANTS
    Requests,   \* the requests asked of the server
    Targets,    \* the persons whose Agents can be named
    Limit,      \* AgentConfig.daily_limit, the same for every target
    TTL         \* 300 seconds, in ticks of the clock

ASSUME LimitAssumption == Limit \in Nat
ASSUME TTLAssumption == TTL \in Nat

VARIABLES
    phase,        \* where each request is
    state,        \* where each call is
    shape,        \* tiers of the evidence a call assembled
    error,        \* the exception a failed call carries
    calls,        \* PendingRequest.calls, in the order they were appended
    pending,      \* the keys of Orchestrator._pending
    pendingAge,   \* age of each PendingRequest, saturating above TTL
    approved,     \* the targets whose envelopes send() selected
    cache,        \* the keys of EnvelopeCache._items
    cacheAge,     \* age of each CacheEntry, saturating above TTL
    mappings,     \* the calls whose Mapping table is still filled
    crossed,      \* the calls whose question crossed the trust boundary
    asks, drafts, \* rows of kind 'request' in audit, per target
    locals,       \* rows of local_queries, per target
    disposition,  \* _CallOutcome.disposition
    items,        \* open inbox items with thread r and owner t
    answers,      \* targets whose own answer the response of send() carries
    reported,     \* targets whose escalation the response of send() carries
    outcome       \* the disposition recorded in outcomes

prepareVars == <<calls, pending, pendingAge>>
boundaryVars == <<cache, cacheAge, mappings, crossed>>
ledgerVars == <<asks, drafts, locals>>
resultVars == <<answers, reported, outcome>>
vars == <<phase, state, shape, error, calls, pending, pendingAge, approved,
          cache, cacheAge, mappings, crossed, asks, drafts, locals,
          disposition, items, answers, reported, outcome>>

Calls == Requests \X Targets
CallsOf(r) == {r} \X Targets

TTL_SECONDS == TTL          \* EnvelopeCache.TTL_SECONDS
PENDING_TTL_SECONDS == TTL  \* Orchestrator.PENDING_TTL_SECONDS

Tiers == {"none", "below", "mixed", "secret"}
Errors == {"none", "ExtractionFailed", "ValidationBlocked",
           "DailyLimitReached", "GatekeeperError", "BrokerError", "other"}
Dispositions == {"auto", "unverified", "escalate", "blocked"}
Phases == {"new", "preparing", "prepared", "sending", "timedout", "done", "raised"}
CallStates == {"idle", "assembling", "zone", "failed", "blocked", "ready",
               "inflight", "sendfailed", "fellback", "answered", "drafting",
               "escalated", "cut"}
SentStates == {"inflight", "sendfailed", "fellback", "answered", "drafting", "escalated", "cut"}

TypeOK ==
    /\ phase \in [Requests -> Phases]
    /\ state \in [Calls -> CallStates]
    /\ shape \in [Calls -> Tiers]
    /\ error \in [Calls -> Errors]
    /\ calls \in [Requests -> Seq(Targets)]
    /\ pending \subseteq Requests
    /\ pendingAge \in [Requests -> 0 .. TTL + 1]
    /\ approved \in [Requests -> SUBSET Targets]
    /\ cache \subseteq Calls
    /\ cacheAge \in [Calls -> 0 .. TTL + 1]
    /\ mappings \subseteq Calls
    /\ crossed \subseteq Calls
    /\ asks \in [Targets -> Nat]
    /\ drafts \in [Targets -> Nat]
    /\ locals \in [Targets -> Nat]
    /\ disposition \in [Calls -> Dispositions \cup {"none"}]
    /\ items \in [Calls -> Nat]
    /\ answers \in [Requests -> SUBSET Targets]
    /\ reported \in [Requests -> SUBSET Targets]
    /\ outcome \in [Requests -> Dispositions \cup {"none"}]

Init ==
    /\ phase = [r \in Requests |-> "new"]
    /\ state = [c \in Calls |-> "idle"]
    /\ shape = [c \in Calls |-> "none"]
    /\ error = [c \in Calls |-> "none"]
    /\ calls = [r \in Requests |-> << >>]
    /\ pending = {}
    /\ pendingAge = [r \in Requests |-> 0]
    /\ approved = [r \in Requests |-> {}]
    /\ cache = {}
    /\ cacheAge = [c \in Calls |-> 0]
    /\ mappings = {}
    /\ crossed = {}
    /\ asks = [t \in Targets |-> 0]
    /\ drafts = [t \in Targets |-> 0]
    /\ locals = [t \in Targets |-> 0]
    /\ disposition = [c \in Calls |-> "none"]
    /\ items = [c \in Calls |-> 0]
    /\ answers = [r \in Requests |-> {}]
    /\ reported = [r \in Requests |-> {}]
    /\ outcome = [r \in Requests |-> "none"]

-----------------------------------------------------------------------------
(* The audit database. *)

count_today(t) == asks[t] + drafts[t] + locals[t]

\* AgentClient.check_daily_limit raises DailyLimitReached.
LimitReached(t) == count_today(t) >= Limit

\* Mutants: the missing code added to the list; a used one dropped from it.
ReasonCodesWithSecret ==
    {"extraction_failed", "validation_blocked", "broker_unavailable", "user_cancelled",
     "open_tier_local", "policy_no_external", "secret_tier_local"}
ReasonCodesWithoutPolicy ==
    {"extraction_failed", "validation_blocked", "broker_unavailable", "user_cancelled",
     "open_tier_local"}

\* What audit.record_local accepts, and what answer_in_zone has a label for.
LOCAL_REASON_CODES == {"extraction_failed", "validation_blocked", "broker_unavailable",
                       "user_cancelled", "open_tier_local", "policy_no_external"}
LOCAL_REASON_LABELS == {"extraction_failed", "validation_blocked", "broker_unavailable",
                        "user_cancelled", "open_tier_local", "policy_no_external",
                        "secret_tier_local"}

\* A reason without a label is replaced; one with a label goes to record_local
\* as it is, and record_local raises on a code it does not list.
RecordedReason(reason) ==
    IF reason \in LOCAL_REASON_LABELS THEN reason ELSE "policy_no_external"
ZoneRaises(reason) == RecordedReason(reason) \notin LOCAL_REASON_CODES

BlockedReason(e) ==
    CASE e = "ExtractionFailed"  -> "extraction_failed"
      [] e = "ValidationBlocked" -> "validation_blocked"
      [] OTHER                   -> "policy_no_external"

\* DailyLimitReached is a BrokerError.
LocalReason(e) ==
    IF e \in {"BrokerError", "DailyLimitReached"} THEN "broker_unavailable"
                                                  ELSE BlockedReason(e)

-----------------------------------------------------------------------------
(* EnvelopeCache: every access but discard sweeps first. *)

Expired == {c \in cache : cacheAge[c] > TTL_SECONDS}
Swept == cache \ Expired

CachePut(c) ==
    /\ cache' = Swept \cup {c}
    /\ cacheAge' = [cacheAge EXCEPT ![c] = 0]
    /\ mappings' = (mappings \ Expired) \cup {c}

-----------------------------------------------------------------------------
(* prepare() *)

\* The first turn of prepare(): old contexts are swept, and the task of each
\* target checks the daily limit before its first await.
Prepare(r, named) ==
    /\ phase[r] = "new"
    /\ LET stale == {q \in pending : pendingAge[q] > PENDING_TTL_SECONDS}
           refused == {c \in {r} \X named : LimitReached(c[2])}
       IN  /\ pending' = pending \ stale
           /\ state' = [c \in Calls |->
                          IF c \in refused THEN "failed"
                          ELSE IF c \in {r} \X named THEN "assembling" ELSE state[c]]
           /\ error' = [c \in Calls |->
                          IF c \in refused THEN "DailyLimitReached" ELSE error[c]]
    /\ phase' = [phase EXCEPT ![r] = "preparing"]
    /\ UNCHANGED <<shape, calls, pendingAge, approved, boundaryVars, ledgerVars,
                   disposition, items, resultVars>>

\* Evidence below SECRET: structured or passed through, validated, cached.
AssembleReady(c) ==
    /\ state[c] = "assembling"
    /\ state' = [state EXCEPT ![c] = "ready"]
    /\ shape' = [shape EXCEPT ![c] = "below"]
    /\ calls' = [calls EXCEPT ![c[1]] = Append(@, c[2])]
    /\ CachePut(c)
    /\ UNCHANGED <<phase, error, pending, pendingAge, approved, crossed,
                   ledgerVars, disposition, items, resultVars>>

\* Mutant: a mixed call is sent like any other, without the zone.
AssembleMixedReady(c) ==
    /\ state[c] = "assembling"
    /\ state' = [state EXCEPT ![c] = "ready"]
    /\ shape' = [shape EXCEPT ![c] = "mixed"]
    /\ calls' = [calls EXCEPT ![c[1]] = Append(@, c[2])]
    /\ CachePut(c)
    /\ UNCHANGED <<phase, error, pending, pendingAge, approved, crossed,
                   ledgerVars, disposition, items, resultVars>>

\* SECRET and lower evidence together: the envelope is cached and listed while
\* the trusted-zone model answers from the SECRET chunks.
AssembleMixed(c) ==
    /\ state[c] = "assembling"
    /\ state' = [state EXCEPT ![c] = "zone"]
    /\ shape' = [shape EXCEPT ![c] = "mixed"]
    /\ calls' = [calls EXCEPT ![c[1]] = Append(@, c[2])]
    /\ CachePut(c)
    /\ UNCHANGED <<phase, error, pending, pendingAge, approved, crossed,
                   ledgerVars, disposition, items, resultVars>>

\* SECRET evidence only: the put, the append, the discard and the pop happen in
\* one turn, so what remains of them is the sweep of the cache.
AssembleSecret(c) ==
    /\ state[c] = "assembling"
    /\ state' = [state EXCEPT ![c] = "zone"]
    /\ shape' = [shape EXCEPT ![c] = "secret"]
    /\ cache' = Swept
    /\ mappings' = mappings \ Expired
    /\ UNCHANGED <<phase, error, calls, pending, pendingAge, approved, cacheAge,
                   crossed, ledgerVars, disposition, items, resultVars>>

\* No evidence, SECRET evidence no schema fits, a failed validation stage, or
\* any other exception: nothing was cached.
AssembleFails(c, e) ==
    /\ state[c] = "assembling"
    /\ e \in {"ExtractionFailed", "ValidationBlocked", "other"}
    /\ state' = [state EXCEPT ![c] = "failed"]
    /\ error' = [error EXCEPT ![c] = e]
    /\ UNCHANGED <<phase, shape, calls, pending, pendingAge, approved, boundaryVars,
                   ledgerVars, disposition, items, resultVars>>

PopLast(s) == SubSeq(s, 1, Len(s) - 1)

\* The trusted-zone model has answered and answer_in_zone records it.  If
\* record_local raises, nothing after it runs.  Otherwise a mixed call is
\* answered from its lower chunks too, synthesized (both awaits are folded into
\* this step), its envelope discarded and the last PendingCall popped.
ZoneAnswer(c) ==
    /\ state[c] = "zone"
    /\ IF ZoneRaises("secret_tier_local")
       THEN /\ state' = [state EXCEPT ![c] = "failed"]
            /\ error' = [error EXCEPT ![c] = "GatekeeperError"]
            /\ UNCHANGED <<calls, cache, mappings, locals>>
       ELSE /\ state' = [state EXCEPT ![c] = "blocked"]
            /\ locals' = [locals EXCEPT ![c[2]] = @ + IF shape[c] = "mixed" THEN 2 ELSE 1]
            /\ cache' = cache \ {c}
            /\ mappings' = mappings \ {c}
            /\ calls' = [calls EXCEPT ![c[1]] =
                           IF shape[c] = "mixed" THEN PopLast(@) ELSE @]
            /\ UNCHANGED error
    /\ UNCHANGED <<phase, shape, pending, pendingAge, approved, cacheAge, crossed,
                   asks, drafts, disposition, items, resultVars>>

Gathered(r) == \A c \in CallsOf(r) : state[c] \notin {"assembling", "zone"}

\* _blocked_call: after the gather, a failed target gets a trusted-zone answer.
\* counted: its row names the target; without any chunk, which a call that got
\* as far as validation always has, it names "person:unknown".
BlockedCall(c, counted) ==
    /\ phase[c[1]] = "preparing"
    /\ Gathered(c[1])
    /\ state[c] = "failed"
    /\ counted \/ error[c] \notin {"ValidationBlocked", "GatekeeperError"}
    /\ IF ZoneRaises(BlockedReason(error[c]))
       THEN /\ phase' = [phase EXCEPT ![c[1]] = "raised"]
            /\ UNCHANGED <<state, error, locals>>
       ELSE /\ state' = [state EXCEPT ![c] = "blocked"]
            /\ error' = [error EXCEPT ![c] = "none"]
            /\ locals' = IF counted THEN [locals EXCEPT ![c[2]] = @ + 1] ELSE locals
            /\ UNCHANGED phase
    /\ UNCHANGED <<shape, prepareVars, approved, boundaryVars, asks, drafts,
                   disposition, items, resultVars>>

PrepareDone(r) ==
    /\ phase[r] = "preparing"
    /\ \A c \in CallsOf(r) : state[c] \in {"idle", "ready", "blocked"}
    /\ phase' = [phase EXCEPT ![r] = "prepared"]
    /\ pending' = pending \cup {r}
    /\ UNCHANGED <<state, shape, error, calls, pendingAge, approved, boundaryVars,
                   ledgerVars, disposition, items, resultVars>>

-----------------------------------------------------------------------------
(* send() *)

\* Mutant: send() lets every prepared call go.
SelectedAll(r, ids) == {r} \X Range(calls[r])

\* The calls whose envelope id is among those the asker approved.
Selected(r, ids) == {r} \X (ids \cap Range(calls[r]))

\* Mutant: get instead of pop.
PeekedPending(r) == pending

\* self._pending.pop(request_id)
Popped(r) == pending \ {r}

\* Mutant: take does not sweep.
TakenUnswept(selected) == selected \cap cache

\* EnvelopeCache.take sweeps, then removes what it returns.
Taken(selected) == selected \cap Swept

\* Mutant: ask() trusts the check prepare() made.
LimitedNever(taken) == {}

\* AgentClient.ask checks the limit again, in the turn that writes the row.
Limited(taken) == {c \in taken : LimitReached(c[2])}

\* Mutant: no `finally`.
ClearedNever(ended) == mappings

\* The `finally` of _send_local clears the tables of the calls that end.
Cleared(ended) == mappings \ ended

\* The context is popped, whatever its age, and every selected task runs to its
\* first await: it takes its envelope, checks the limit, writes the audit row
\* and lets the envelope cross.  ids are envelope ids the asker holds, by
\* target; the empty set stands for ids that name no call of this request.
\* A request that is not in _pending answers 410 and changes nothing.
Send(r, ids) ==
    /\ r \in pending
    /\ \A t \in ids : state[<<r, t>>] \in {"ready"} \cup SentStates
    /\ pending' = Popped(r)
    /\ approved' = [approved EXCEPT ![r] = ids]
    /\ LET selected == Selected(r, ids)
           taken    == Taken(selected)
           limited  == Limited(taken)
           crossing == taken \ limited
       IN  IF selected = {}
           THEN /\ phase' = [phase EXCEPT ![r] = "raised"]
                /\ UNCHANGED <<state, error, cache, mappings, crossed, asks>>
           ELSE /\ phase' = [phase EXCEPT ![r] = "sending"]
                /\ state' = [c \in Calls |->
                               IF c \in crossing THEN "inflight"
                               ELSE IF c \in selected THEN "sendfailed" ELSE state[c]]
                /\ error' = [c \in Calls |->
                               IF c \in limited THEN "DailyLimitReached"
                               ELSE IF c \in selected \ taken THEN "GatekeeperError"
                               ELSE error[c]]
                /\ cache' = Swept \ taken
                /\ mappings' = Cleared(limited) \ Expired
                /\ crossed' = crossed \cup crossing
                /\ asks' = [t \in Targets |->
                              asks[t] + IF <<r, t>> \in crossing THEN 1 ELSE 0]
    /\ UNCHANGED <<shape, calls, pendingAge, cacheAge, drafts, locals,
                   disposition, items, resultVars>>

\* The Agent's answer: result row, mirror, rehydration, and in `finally` the
\* Mapping is cleared.  The class d is branch() of this one answer.
BrokerAnswers(c, d) ==
    /\ state[c] = "inflight"
    /\ state' = [state EXCEPT ![c] = "answered"]
    /\ disposition' = [disposition EXCEPT ![c] = d]
    /\ mappings' = Cleared({c})
    /\ cache' = cache \ {c}
    /\ UNCHANGED <<phase, shape, error, prepareVars, approved, cacheAge, crossed,
                   ledgerVars, items, resultVars>>

\* The broker fails, or rehydration does: the same `finally` runs.
BrokerFails(c, e) ==
    /\ state[c] = "inflight"
    /\ e \in {"BrokerError", "other"}
    /\ state' = [state EXCEPT ![c] = "sendfailed"]
    /\ error' = [error EXCEPT ![c] = e]
    /\ mappings' = Cleared({c})
    /\ cache' = cache \ {c}
    /\ UNCHANGED <<phase, shape, prepareVars, approved, cacheAge, crossed,
                   ledgerVars, disposition, items, resultVars>>

SelectedStates(r) == {state[c] : c \in Selected(r, approved[r])}

\* The gather of _send_all is over: each failed call is answered in the zone.
Fallback(c) ==
    /\ phase[c[1]] = "sending"
    /\ "inflight" \notin SelectedStates(c[1])
    /\ state[c] = "sendfailed"
    /\ IF ZoneRaises(LocalReason(error[c]))
       THEN /\ phase' = [phase EXCEPT ![c[1]] = "raised"]
            /\ UNCHANGED <<state, error, disposition, locals>>
       ELSE /\ state' = [state EXCEPT ![c] = "fellback"]
            /\ error' = [error EXCEPT ![c] = "none"]
            /\ disposition' = [disposition EXCEPT ![c] = "blocked"]
            /\ locals' = [locals EXCEPT ![c[2]] = @ + 1]
            /\ UNCHANGED phase
    /\ UNCHANGED <<shape, prepareVars, approved, boundaryVars, asks, drafts,
                   items, resultVars>>

\* Mutant: unverified answers are shown with their badge and not escalated.
NeedsReviewLow(c) == state[c] = "answered" /\ disposition[c] = "escalate"

NeedsReview(c) == state[c] = "answered" /\ disposition[c] \in {"unverified", "escalate"}

\* Mutant: ask_draft() invokes the broker without a record.
EscalateDraftUnrecorded(c) ==
    /\ phase[c[1]] = "sending"
    /\ SelectedStates(c[1]) \cap {"inflight", "sendfailed", "drafting"} = {}
    /\ NeedsReview(c)
    /\ state' = [state EXCEPT ![c] = "drafting"]
    /\ UNCHANGED <<phase, shape, error, prepareVars, approved, boundaryVars, ledgerVars,
                   disposition, items, resultVars>>

\* Escalations run one at a time once every outcome is known.  The envelope that
\* was answered crosses again for the draft: ask_draft() records it, and looks
\* neither at the cache nor at the daily limit.
EscalateDraft(c) ==
    /\ phase[c[1]] = "sending"
    /\ SelectedStates(c[1]) \cap {"inflight", "sendfailed", "drafting"} = {}
    /\ NeedsReview(c)
    /\ state' = [state EXCEPT ![c] = "drafting"]
    /\ drafts' = [drafts EXCEPT ![c[2]] = @ + 1]
    /\ UNCHANGED <<phase, shape, error, prepareVars, approved, boundaryVars, asks, locals,
                   disposition, items, resultVars>>

\* With the drafted text, or the fixed one when the draft failed.
EscalateAdd(c) ==
    /\ state[c] = "drafting"
    /\ state' = [state EXCEPT ![c] = "escalated"]
    /\ items' = [items EXCEPT ![c] = @ + 1]
    /\ UNCHANGED <<phase, shape, error, prepareVars, approved, boundaryVars, ledgerVars,
                   disposition, resultVars>>

\* merge(): the class of the weakest answer.  A trusted-zone answer has the
\* fixed confidence 0.5 and cites its chunks: it is in the middle class.
ZoneClass == "unverified"
ClassOf(d) == IF d = "blocked" THEN ZoneClass ELSE d
Branch(ds) ==
    IF "escalate" \in ds THEN "escalate" ELSE IF "unverified" \in ds THEN "unverified" ELSE "auto"
MergedDisposition(r) == Branch({ClassOf(disposition[c]) : c \in Selected(r, approved[r])})

\* _send_all returns; the outcome is recorded and the response is built.
Finish(r) ==
    /\ phase[r] = "sending"
    /\ SelectedStates(r) \subseteq {"answered", "fellback", "escalated"}
    /\ \A c \in Selected(r, approved[r]) : ~ NeedsReview(c)
    /\ phase' = [phase EXCEPT ![r] = "done"]
    /\ answers' = [answers EXCEPT ![r] = {c[2] : c \in Selected(r, approved[r])}]
    /\ reported' = [reported EXCEPT ![r] =
                      {t \in Targets : state[<<r, t>>] = "escalated"}]
    /\ outcome' = [outcome EXCEPT ![r] = MergedDisposition(r)]
    /\ UNCHANGED <<state, shape, error, prepareVars, approved, boundaryVars, ledgerVars,
                   disposition, items>>

\* Mutant: send() awaits _send_all without wait_for.
TimeoutMissing(r) == phase[r] = "missing" /\ UNCHANGED vars

\* wait_for cancels _send_all: the calls still out run their `finally`, the
\* escalation being drafted is abandoned.
Timeout(r) ==
    /\ phase[r] = "sending"
    /\ LET out == {c \in CallsOf(r) : state[c] = "inflight"}
           cut == {c \in CallsOf(r) : state[c] \in {"inflight", "drafting"}}
       IN  /\ state' = [c \in Calls |-> IF c \in cut THEN "cut" ELSE state[c]]
           /\ mappings' = Cleared(out)
           /\ cache' = cache \ out
    /\ phase' = [phase EXCEPT ![r] = "timedout"]
    /\ UNCHANGED <<shape, error, prepareVars, approved, cacheAge, crossed, ledgerVars,
                   disposition, items, resultVars>>

\* After a timeout one trusted-zone answer, from the first call's chunks, is
\* the whole response.
TimeoutFallback(r) ==
    /\ phase[r] = "timedout"
    /\ IF ZoneRaises("broker_unavailable")
       THEN /\ phase' = [phase EXCEPT ![r] = "raised"]
            /\ UNCHANGED <<locals, outcome>>
       ELSE /\ phase' = [phase EXCEPT ![r] = "done"]
            /\ locals' = [locals EXCEPT ![Head(calls[r])] = @ + 1]
            /\ outcome' = [outcome EXCEPT ![r] = Branch({ZoneClass})]
    /\ UNCHANGED <<state, shape, error, prepareVars, approved, boundaryVars, asks, drafts,
                   disposition, items, answers, reported>>

-----------------------------------------------------------------------------
\* The clock.  An age above TTL is all an expired entry is, so ages stop there.
Older(age) == IF age <= TTL THEN age + 1 ELSE age
Aging(r) == phase[r] = "preparing" \/ r \in pending
Tick ==
    /\ cacheAge' = [c \in Calls |-> IF c \in cache THEN Older(cacheAge[c]) ELSE cacheAge[c]]
    /\ pendingAge' = [r \in Requests |->
                        IF Aging(r) THEN Older(pendingAge[r]) ELSE pendingAge[r]]
    /\ UNCHANGED <<phase, state, shape, error, calls, pending, approved, cache, mappings,
                   crossed, ledgerVars, disposition, items, resultVars>>

-----------------------------------------------------------------------------
Assemble(c) == \/ AssembleReady(c)
               \/ AssembleMixed(c)
               \/ AssembleSecret(c)
               \/ \E e \in Errors : AssembleFails(c, e)

Block(c) == \E counted \in BOOLEAN : BlockedCall(c, counted)

Next ==
    \/ \E r \in Requests :
          \/ \E ts \in SUBSET Targets \ {{}} : Prepare(r, ts)
          \/ PrepareDone(r)
          \/ \E ts \in SUBSET Targets : Send(r, ts)
          \/ Finish(r)
          \/ Timeout(r)
          \/ TimeoutFallback(r)
    \/ \E c \in Calls :
          \/ Assemble(c)
          \/ ZoneAnswer(c)
          \/ Block(c)
          \/ \E d \in {"auto", "unverified", "escalate"} : BrokerAnswers(c, d)
          \/ \E e \in Errors : BrokerFails(c, e)
          \/ Fallback(c)
          \/ EscalateDraft(c)
          \/ EscalateAdd(c)
    \/ Tick

Spec == Init /\ [][Next]_vars

\* The trusted-zone model answers or times out (10 s), the event loop runs what
\* is ready, wait_for fires, time passes.  Nobody owes a question or an
\* approval, and the broker owes no answer.
Fairness ==
    /\ \A c \in Calls : /\ WF_vars(Assemble(c))
                         /\ WF_vars(ZoneAnswer(c))
                         /\ WF_vars(Block(c))
                         /\ WF_vars(Fallback(c))
                         /\ WF_vars(EscalateDraft(c))
                         /\ WF_vars(EscalateAdd(c))
    /\ \A r \in Requests : /\ WF_vars(PrepareDone(r))
                            /\ WF_vars(Finish(r))
                            /\ WF_vars(Timeout(r))
                            /\ WF_vars(TimeoutFallback(r))
    /\ WF_vars(Tick)

FairSpec == Spec /\ Fairness

-----------------------------------------------------------------------------
(* Safety *)

\* "Confidential originals stay home" (gatekeeper.py, ask_agent; BR-G-05): no
\* envelope that rests on SECRET evidence crosses, not even the one an
\* unfinished mixed answer leaves behind in the cache and in calls.
SecretStaysHome == \A c \in crossed : shape[c] = "below"

\* A card the asker sees as "ready" can be sent while its request is pending:
\* the two stores of prepare() agree on it.  Its PendingCall is listed and its
\* envelope is cached, unless the envelope is older than its TTL.
StoresAgree ==
    \A r \in pending : \A c \in CallsOf(r) : state[c] = "ready" =>
        /\ c[2] \in Range(calls[r])
        /\ c \in cache \/ cacheAge[c] > TTL_SECONDS

\* BR-G-06: a Mapping table is filled only while its envelope waits in the
\* cache or is out at the broker; an answer, a failure, a refusal by the daily
\* limit, a timeout and an expiry each leave none behind.
MappingHygiene == \A c \in mappings : c \in cache \/ state[c] = "inflight"

\* BR-O-10: however requests interleave, no target is asked more often than
\* its daily limit, although prepare() checked the limit long before.  (A draft
\* waits for no limit; its row takes a question away from those that follow.)
DailyLimitHolds == \A t \in Targets : asks[t] <= Limit

\* FR-09, BR-O-03: what was not approved neither crosses nor reaches an inbox.
NothingBeforeApproval ==
    \A c \in Calls : c \in crossed \/ items[c] > 0 => c[2] \in approved[c[1]]

-----------------------------------------------------------------------------
(* The inductive invariant the safety theorems rest on. *)

\* A request not yet prepared has no call; one in _pending has only cards to show.
PhaseStates ==
    \A r \in Requests :
        /\ phase[r] = "new" => \A c \in CallsOf(r) : state[c] = "idle"
        /\ phase[r] = "prepared" =>
             \A c \in CallsOf(r) : state[c] \in {"idle", "ready", "blocked"}
        /\ r \in pending => phase[r] = "prepared"

\* What may be sent or was sent has no SECRET evidence and, once sent, approval.
SentCalls ==
    \A c \in Calls :
        /\ state[c] \in SentStates \cup {"ready"} => shape[c] = "below"
        /\ state[c] \in SentStates => c[2] \in approved[c[1]]
        /\ c \in crossed => state[c] \in SentStates
        /\ items[c] > 0 => state[c] = "escalated"

\* The stores of a ready call, whether its context is pending or not.
ReadyStored ==
    \A c \in Calls : state[c] = "ready" =>
        /\ c[2] \in Range(calls[c[1]])
        /\ c \in cache \/ cacheAge[c] > TTL_SECONDS

\* What evidence a call has is known when it is assembled, and only then cached.
ShapeKnown ==
    \A c \in Calls :
        /\ state[c] \in {"idle", "assembling"} => shape[c] = "none"
        /\ c \in cache => shape[c] # "none"
        /\ state[c] \in SentStates => c \notin cache

Inv == /\ TypeOK
       /\ PhaseStates
       /\ ShapeKnown
       /\ SentCalls
       /\ ReadyStored
       /\ MappingHygiene
       /\ DailyLimitHolds

-----------------------------------------------------------------------------
(* Action properties *)

\* BR-G-09: a question crosses out of the cache, never after its TTL.
FreshCrossing ==
    [][\A c \in crossed' \ crossed : c \in cache /\ cacheAge[c] <= TTL]_vars

\* An approval sent twice (a retry of POST /send) cannot touch an answer that
\* has arrived: it is kept, and only its escalation may follow.
AnswerStands ==
    [][\A c \in Calls : state[c] = "answered" =>
         /\ state'[c] \in {"answered", "drafting"}
         /\ disposition'[c] = disposition[c]]_vars

\* BR-O-05, BR-I-04: when send() returns in time, exactly the uncertain answers
\* have an item in their owner's inbox, one each, and the asker is told of
\* exactly those; every approved target is among the answers (R-02).
EscalationExact ==
    [][\A r \in Requests : phase[r] = "sending" /\ phase'[r] = "done" =>
         /\ answers'[r] = approved[r]
         /\ \A t \in Targets :
              /\ t \in reported'[r] <=> items[<<r, t>>] = 1
              /\ t \in reported'[r] <=> disposition[<<r, t>>] \in {"unverified", "escalate"}
      ]_vars

\* Boundary is what the boundary promises; this module keeps the promise.  An
\* envelope is named by its call; ask_draft() hands the same one to the broker.
Life(c) ==
    IF state[c] = "inflight" THEN "out"
    ELSE IF NeedsReview(c) THEN "doubted"
    ELSE IF state[c] = "drafting" THEN "again"
    ELSE IF c \in cache THEN "held"
    ELSE IF shape[c] = "none" THEN "none" ELSE "over"

B == INSTANCE Boundary WITH
        life <- [c \in Calls |-> Life(c)],
        approved <- {c \in Calls : c[2] \in approved[c[1]]},
        secret <- {c \in Calls : shape[c] \in {"mixed", "secret"}},
        rows <- [t \in Targets |-> count_today(t)]

\* Every step of prepare() and send() is a step of the boundary or a stutter:
\* an envelope crosses once as a question, once more only for the draft of an
\* escalation, approved, recorded and without SECRET evidence both times.
BoundaryKept == B!Spec

-----------------------------------------------------------------------------
(* Liveness *)

\* prepare() returns a card for every target, whatever fails on the way.
PrepareEnds == \A r \in Requests : phase[r] = "preparing" ~> phase[r] = "prepared"

\* send() answers even when the broker never does (BR-O-08), and when it has, the
\* table of every approved call is empty, whether the call was answered, failed,
\* was refused, had expired or was cut.  Tables of calls nobody approved are
\* left to the sweep of the cache.
SendEnds ==
    \A r \in Requests :
      phase[r] = "sending" ~> /\ phase[r] = "done"
                              /\ \A t \in approved[r] : <<r, t>> \notin mappings

-----------------------------------------------------------------------------
(* What comments and documents say and the code does not do *)

\* gatekeeper.py:1234: no exception leaves answer_in_zone, which exists to answer
\* "in any case".  Its own record_local raises on "secret_tier_local".
AnswerInZoneAnswers ==
    \A c \in Calls : ~ (state[c] = "failed" /\ error[c] = "GatekeeperError")

=============================================================================
