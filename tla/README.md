# A formal model of MIA (`src/src/mesh`)

MIA ("MIA; But AI got you") answers questions for a person who is away. Everyone has an
*Agent* that knows that person's documents. A question put to an Agent is answered by an
external model (Claude, behind a broker), but the person's confidential text stays in the
*trusted zone* (a machine with a local model, EXAONE): a *gatekeeper* turns evidence into an
*envelope* that may leave, the asker looks at the envelope and approves it, and only then does
it cross. What is not certain is escalated to the owner's inbox, and what the owner approves
there becomes evidence for the next question.

This directory holds TLA+ modules of that system, the TLC configurations that check them on
small instances, and TLAPS proofs of the safety properties for every instance. Paths below are
relative to `src/src/mesh/` unless they begin with `src/`; `BR-…` are the rules of
`src/aidlc-docs/construction/*/functional-design/business-rules.md`.

Contents: [1 Inventory](#1-inventory) · [2 Modules and code](#2-modules-and-code) ·
[3 Runs](#3-runs) · [4 Bounds](#4-bounds) · [5 Fairness](#5-fairness) ·
[6 Proofs](#6-proofs) · [7 Disagreements](#7-where-the-code-and-its-documents-disagree) ·
[8 Not modelled](#8-what-is-abstracted-and-what-is-not-modelled) · [9 Plan](#9-plan)

    tlc -workers 2 -config AskOne.cfg MCAskFlow.tla
    tlapm AskFlowProofs.tla

## 1 Inventory

The server is one Python process with one asyncio loop: two handlers interleave only where
they await. Handlers await the zone model, the broker, the audit mirror and other nodes; the
database (SQLite) and the JSON files are used synchronously. State that a handler reads before
an await and uses after it is therefore where the difficulty is, together with exceptions
between two writes, cancellation by `asyncio.wait_for`, expiry, the end of the process, and
other nodes and windows that keep going on their own.

| Component | State it keeps | Operations | Talks to | What is hard | What makes it correct |
|---|---|---|---|---|---|
| **Orchestrator** `orchestrator.py` | `_pending` (contexts of prepared requests, TTL 300 s) | `prepare`, `send`, escalation, merging | everything below | two targets share one `calls` list over awaits; fallbacks of fallbacks; one limit of 30 s over all calls | what was not approved never crosses; every target gets a card and every approved one an answer; exactly the uncertain answers are escalated |
| **Broadcast, hub, consult** `orchestrator.py`, `agent_broadcast.py` | – | `consult`, `hub_ask`, `BroadcastService.ask` | prepare and send of the same process, triage | a request that makes requests; a fallback that repeats them; the asker's own Agent asked twice | at most `max_targets` Agents, once each; one Agent's failure costs nobody else's answer; what the digest says is so |
| **Gatekeeper, EnvelopeCache** `gatekeeper.py` | one-shot envelopes with their Mapping tables (TTL 300 s), schemas generated for a question | `plan_calls`, `to_payload`, `to_payload_passthrough`, `validate`, `ask_agent`, `ask_draft`, `answer_in_zone` | classifier, extractor, validator, pseudonymizer, broker, zone model, audit | expiry, cleanup on every way out, the last fallback must not raise | no envelope resting on SECRET evidence crosses, none twice as a question, none late; no Mapping outlives its envelope |
| **Extractor** `extractor.py` | – | `assign_refs`, `extract` in batches, `coerce`, `assemble`, `build_text_payload` | zone model | retries and a second schema after partial failures; labels and texts in two orders | only values of the schema; each document's label has that document's facts |
| **Pseudonymizer, rehydrator** | Mapping tables | `apply`, `apply_conservative`, `rehydrate_text` | zone model | literals and spans that overlap, spans that look like a part of a symbol | rehydration undoes pseudonymization |
| **Validator** `validator.py` | – | schema, vocabulary, ranges, banned words, PII, n-grams, size, compliance | – | stages that are reported and not run | no banned word crosses; what the extractor builds is not blocked for its shape |
| **Agent client** `agent.py` | – | `check_daily_limit`, `ask`, `draft_escalation` | gatekeeper, audit | the limit is checked twice, minutes apart | the daily limit holds under interleaving |
| **Audit log** `audit.py` | SQLite tables `audit`, `local_queries`, `outcomes`, `inbox` | `record`, `record_local`, `count_today`, search, statistics | – | rejects codes others hand it | a crossing has a row, written before it |
| **Inbox** `inbox.py` | items: open, approved, edited, redirected | `add`, `resolve`, `to_verified_qa` | orchestrator, store | doubled and retried resolutions | one approval feeds one answer, with its tier |
| **Knowledge store** `store.py` | `data/` files, `session.json`, `verified.json`, a cache by mtime | `load_session`, `attach_path`, `detach_path`, `append_verified`, `verified_chunks`, `kb_search_and_save`, `read` | zone model | files rewritten in place; a cache by the mtime of one file for the content of two; edits by hand | what is served is what is stored; nothing approved is lost, nothing deleted is a candidate |
| **Document service** `documents.py` | – | `upload`, `delete`, `list_for` | store, classifier | unlink and rewrite are two writes | as above |
| **Classifier** `classifier.py` | judgements by content hash | `rule_tier`, `exaone_tier`, `classify` | zone model, rules | the model fails or lies; rules change during a question | fails closed; the model can only raise a tier |
| **Security protocols** `protocol_store.py`, `protocol_schemas.py` | one JSON file for the company, each team, each person | save, delete, `merged_rules` | `DataBundle.rules` | torn files, a pattern that is no regular expression, levels that are never merged | a saved protocol counts at once; more protocols never make a text less confidential |
| **Triage** `triage.py` | – | `find_targets` by rule, model and default | zone model | ties, a model that names no one or someone twice | the best are kept, in number, and nobody who cannot answer is offered |
| **Peers** `peer.py`, `main.py` | `peer_pending`, cached cards and owners of other nodes | `/api/peer/prepare`, `/api/peer/send`, `remote_cards`, `node_of` | another node | time-outs on both sides of one call; two nodes that wait for each other; two lists loaded at once | what crosses at the owner's node was approved at the asker's; a card leads to the node that showed it |
| **HTTP application** `main.py` | semaphore of 5, event-stream queues | routes, error mapping, origin gate | all | slots held while waiting for peers; queues that overflow | every request ends; no window keeps a stale highlight |
| **Trace** `trace.py` | 200 traces, 30 min | recorder stages, `put`, `get`, `sweep` | – | a call stops in a dozen places and each must have been put | a trace shows what happened to its call, and nothing it must not |
| **Web console** `web/app.js` | threads, the active thread, selection, highlights | ask, change thread, select, reset, restart, events | HTTP application | responses and events that come when another thread is open or the screen was reset | an answer is in the thread its question was put in |
| **Clients** `llm/exaone.py`, `llm/broker.py` | fixtures on disk | `complete_json`, `invoke` | outside | retries, silence | every failure reaches the caller as an exception it handles |
| Configuration, organisation chart, desktop shell, scripts, corpus | – | read once, or only shown | – | – | – |

`PROJECT.json` lists each with its status, and every hazard at the line where it bites.

## 2 Modules and code

### `AskFlow` – one question, from prepare to send (`Boundary` is what it promises)

A step is what runs between two awaits. A *call* is a pair `<<request, target>>`: its envelope,
its cache entry, its Mapping and its `PendingCall` are all named by it.

| Variables | Code |
|---|---|
| `phase`, `state`, `shape`, `error` | where `prepare`/`send` and each `_prepare_one`/`_send_local` task are, the tiers of the evidence, the exception `gather` kept |
| `calls`, `pending`, `pendingAge`, `approved` | `PendingRequest.calls`, `Orchestrator._pending`, its clock, the ids `send` selected |
| `cache`, `cacheAge`, `mappings` | `EnvelopeCache._items`, its clock, the Mapping tables not yet cleared |
| `crossed`, `asks`, `drafts`, `locals` | envelopes handed to the broker; rows of `audit` and `local_queries` that `count_today` adds up |
| `disposition`, `items`, `answers`, `reported`, `outcome` | `_CallOutcome`, inbox rows, the response of `send`, the row of `outcomes` |

| Action | Code |
|---|---|
| `Prepare` | `prepare` until its tasks first await: sweep of `_pending`, the limit of each target |
| `AssembleReady`, `AssembleMixed`, `AssembleSecret`, `AssembleFails` | how `_prepare_inner` ends or reaches the zone model: evidence below SECRET, SECRET with lower evidence, SECRET only, any exception |
| `ZoneAnswer` | `answer_in_zone` returning into `_prepare_inner`, with the row `record_local` accepts or refuses |
| `BlockedCall`, `PrepareDone` | `_blocked_call` for each failure after the gather, and the context's way into `_pending` |
| `Send` | `send` pops the context; each selected task takes its envelope (which sweeps), checks the limit again, writes its row and lets the envelope go |
| `BrokerAnswers`, `BrokerFails` | the broker's answer or error, with the `finally` of `_send_local` |
| `Fallback`, `EscalateDraft`, `EscalateAdd`, `Finish` | the rest of `_send_all` and of `send` |
| `Timeout`, `TimeoutFallback` | `wait_for` cancelling `_send_all`, and the one answer given then |
| `Tick` | time for both clocks; it removes nothing, since only an access sweeps |

`Boundary` is the abstract specification. An envelope is held and goes out from there at most once
as a question, below its target's limit; when an uncertain answer has come back it goes out at
most once more, as the request for an escalation draft (`ask_draft`, which neither takes it from
the cache nor looks at the limit). Both times the asker approved it, no SECRET evidence is behind
it and a row says so. `AskFlow` maps onto it by `Life`, the approved calls, those with SECRET
evidence, and `count_today`; `BoundaryKept == B!Spec` is checked as a property and proved.

### `Knowledge` – one person's files and inbox

Each handler runs in one turn of the loop but writes two things one after the other, and
`_write_json` truncates before it fills. So a turn is split at each write (`turn` says what is
left of it), no other handler runs while it is open, and `FailIO` or `Crash` may end it at any
split. `Upload`, `KbSave`, `DeleteUpload` begin a turn that `BeginRewrite`/`EndRewrite`
(`_rewrite_open_paths`) go on with; `Resolve` begins one that `BeginAppend`/`EndAppend`
(`append_verified`) go on with. `Load` and `StartAsk` are `load_session` with its cache;
`ReadEvidence` is `read` and `verified_chunks` after the awaits of `_prepare_inner`.
`EditSession` is the person's editor, which BR-S-08 invites to use (external).
`owed` is a history variable: the items and the deleted files whose own turn was cut short.

### `Judgement` – which tier a text gets, and what leaves because of it

`file` holds the protocols on disk, saved in two steps (`BeginSave`, `EndSave` or `FailSave`).
A question is judged, then its evidence one document at a time (`JudgeQuestion`,
`QuestionAnswered`, `Select`, `JudgeDocument`, `DocumentAnswered`); the rules are those of the
moment each text is judged, the zone model may answer any tier or fail, and editors work
while it is awaited. `CallTier` is `plan_calls`; `Convert` is `to_payload` with `validate` for
a question with a task, `PassThrough` is `to_payload_passthrough`, which validates nothing;
`AnswerInZone` is a SECRET call, whose envelope is discarded. A text is the words, directories
and header the rules can tell of it, and the ending it has in place of a listed extension.
`Select` also adds the approved answers (`recalled`), which are not judged: they take part in
`CallTier` with the tier they are stored with, and their text in what is sent. A protocol's secret
extensions become patterns that are searched in the text (`Endings`), as in the code.

### `Consult` – the server chooses whom to ask

`consult` asks the asker's own Agent first and those triage finds relevant if that is not
enough, or the named ones at once; `hub_ask` asks one external model with the asker's documents
and, when that fails, the zone model and everybody. Both go through prepare and send for each
Agent, which are here what their caller can tell of them: `PrepareBlocked`, `AskRaises`,
`SendsAtOnce`, then `Answers` or `FallsBack` (late or not).

| Variables | Code |
|---|---|
| `stage`, `cards`, `relevant`, `chosen`, `skipped` | how far a request is; the available candidates, triage's result, whom it asks, `ConsultResult.skipped` |
| `ask`, `heard`, `escalated`, `contexts`, `crossed`, `items` | each call's prepare/send: where it is, what came back, whether with an escalation, its context in `_pending`, how often it crossed, items it made |
| `requestRows`, `count` | rows of `audit`, `count_today` |
| `consulted`, `reported`, `digest` | the result |

`ConsultNamed`, `ConsultSelf`, `ConsultOpen` are how `consult` begins; `SelfEnough`, `SelfShort`
what it makes of the first answer; `Screened` is triage and the cut, `Gathered` the gather of
`_consult_one` and the digest. `HubAsk`, `HubZone`, `Relevance`, `HubGathered`, `HubAnswers` are
`hub_ask`, `_hub_exaone_fallback` and `BroadcastService.ask` with its relevance questions.

### `PeerMesh` – a question to a person on another node

One variable per side of a call: `phase` at the asker's node, `serving` at the owner's, `reply`
between them. `Prepare` and `Approve` begin a call, `TakeSlot` is the semaphore of the owner's
node, `Serve` is `PeerPrepare` (or its failure) and `PeerSend`, `PeerAnswers` and `PeerLimit` end
the send, `PrepareReturns` and `SendReturns` hand the response back, `CallFails` is the asker's
time-out or a broken connection: the other node does not notice and goes on. `Lapse` is the
expiry of the owner's context, `Restart` loses a node's memory (`peer_pending`, `contexts`, its
requests) and keeps its inbox.

### `Conversion` and `Pseudonyms` – what is made of evidence before it crosses

`Conversion` is `to_payload`. For SECRET evidence: `BeginSecret` (`choose_schema`), `Generate`
(`generate_dynamic_schema`), `FillBatch`/`FillDocument` (one call of the model per batch
of slots and document, coerced and assembled), `TooLittle`, `NoJson`, `CallFails` (retries, a
second try with a schema of the owner's own, or nothing). For INTERNAL and OPEN evidence:
`BeginInternal`, `Mask`/`MaskFails`, `BeginOpen`. `Validate` is the chain of checks, `Done` the
end of the envelope. `Pseudonyms` is the algebra: texts are sequences of pieces, a symbol such
as `<PROJ_1>` is four of them, so that `str.replace` finds a literal inside a symbol if the code
would. `Replaced` is `str.replace`, `ReplacedAll` the loops that call it one literal or symbol after
the other; `Assigned` and `Numbered` build the table, `Masked` and `Rehydrated` use it. It is written
with recursive functions only, so that it can be reasoned about.

### `Routing` – who can be asked, and where they live

`Start`, `Reply`, `ReadLocal`, `LocalFails`, `ShowList`, `ShowBroadcast` are two loads of the
list of people, with awaits between the answers of the peers; `Refresh` is
`POST /api/agents/refresh`, `Expire` the cache of cards, `PeerChanges` another node's life.
Triage is operators: `Score`, `RulePass`, `ParsePicks`, `ModelPass`, `Capped`.

### `Console` – the screen and its event stream

`active`, `threads`, `flight`, `selected`, `broadcast`, `dots`, `communicating` are the fields of
`state` in `app.js`; `consult` is what the server does with each question, `listed` and `queue`
are this window's place in `_sse_clients` and its `asyncio.Queue`. An action is a handler of the
screen, of the server or of the stream.

### `Trace` – what "경과 보기" shows of a call

`rec` is the `TraceRecorder` of a call, `held`, `kept`, `age` the `TraceStore`, `handed` the trace
ids in responses. Each action records the stages the code records there and puts the trace
(`_keep_trace`) if the code does; `OpenTrace` is `GET /api/trace`, `Tick` the clock. The
decision table (`add_classify`, `redact_reasons`) is operators over every decision the
classifier can make.

### How they compose

`Judgement` decides what `AskFlow` leaves open as the choice among its four `Assemble…`
actions, `Conversion` how the envelope of `AssembleReady` looks; `Knowledge` provides the
evidence `Judgement`'s `Select` may find and takes the items `AskFlow`'s `EscalateAdd` makes.
`Consult` and `PeerMesh` are the two callers of prepare and send, and assume of them what
`AskFlow` proves (one crossing per approval, one item per uncertain answer); `Routing` says which
of the two a name leads to. `Trace` follows the calls of `AskFlow` from the side, `Console` is
what a person sees of `Consult`. They are kept apart because they share no variable a property
relates, and their product is out of TLC's reach; `AskFlow` and `Boundary` are composed by
refinement.

## 3 Runs

| Run | Distinct states | What it asks |
|---|---|---|
| `ask_one` | 12 008 | one request, two Agents. `SecretStaysHome`: no envelope resting on SECRET evidence crosses, not even the one an interrupted mixed answer leaves in the cache. `StoresAgree`: a card shown as ready is listed and cached until its TTL. `MappingHygiene`, `NothingBeforeApproval`. `EscalationExact`: a response given in time reports exactly the uncertain answers, each with one inbox item. `PrepareEnds`: every prepare ends with a card per target; `SendEnds`: send returns even if the broker never does, and the table of every call it was to send is empty, however the call ended |
| `ask_two` | 75 300 | two requests, one Agent with a limit of 1. `DailyLimitHolds` though the limit was checked before other requests wrote their rows; `FreshCrossing`: what crosses is in the cache and not older than its TTL; `AnswerStands`: a repeated send touches no answer; `BoundaryKept`: refinement of `Boundary`, with the second crossing of an escalated envelope |
| `know` | 2 573 505 | `FeedbackFaithful`: an approved answer comes from one approval and has its item's tier, however resolutions are repeated and turns cut; `LoadsWhatIsStored`: a question starts from the files, not from an older cache; `FeedbackKept`, `NoDangling`: a turn cut short costs the approval or the deletion it was about and no other, unless it leaves `verified.json` torn |
| `judge` | 1 068 354 | `TextThatCrosses`: what crosses has the shape its documents, as judged, and its approved answers, by their stored tier, allow, whatever protocols are saved meanwhile and whatever the model says; `FailClosed`; `AppliesAtOnce`: the company's protocol counts for each text judged after it is saved |
| `consult` | 37 575 | one question over all ways to ask. `AskBudget`: it crosses to at most `max_targets` people, once to each, though the asker's own Agent may be asked twice; `EscalationsTold`: the result names every escalation of an answer that came back, used or not; `FailureIsOneAgents`; `DigestTrue`: "nobody had anything" and "nobody was found" are said only if so; `ContextsReturned`: nothing is left in `_pending`; `ConsultEnds` |
| `mesh` | 264 821 | two nodes asking each other. `CrossesOnceApproved`: what was not approved on one node does not cross on the other, and nothing crosses twice, through lost calls, late handlers and a restart; `ToldIsTrue`: who is told that the owner was asked can count on the item; `RequestsEnd`: no two nodes wait for each other's slots for ever |
| `convert` | 105 600 | `FactsClosed`: whatever the model says, a payload holds its schema's own values, and one that passes nothing banned or out of range; `OwnFacts`: each document has its own label, and under it what was read in it; `ChecksAgree`: no payload the assembly builds is blocked for its shape; `RoundTrip`: an answer that repeats what was sent is read back word for word |
| `routing` | 2 009 340 | `CardsRoute`: who was of this node at its start is asked here and shown as nobody else's; a person shown as another node's is asked there, or here once they are local, whatever another load of the list, a refresh, the caches and the peers did since; `TriageKeepsBest`: whoever could answer is left out only for `max_relevant` people at least as good |
| `console` | 2 980 238 | `AnswerInOwnThread`: an answer is in the thread its question was put in, once and after it, whatever was opened, reset or begun while it was awaited; `HighlightTrue`: nobody stays highlighted when no consult runs, unless events were lost, and then until the next one ends |
| `trace` | 782 460 | `LatestKept`: a trace id in the asker's hands opens all that was recorded for the call, or nothing any more; `CrossedIsTrue`, `StoppedIsTrue`: what it says and draws of crossing and stopping agrees with the audit, but for the line of a stage marked failed; `LeavesForCause`: a trace leaves for its age, or alone and as the oldest of a full store |

The two runs `ask_zone_raises` and `convert_refs` each end in a counterexample: section 7. Type
invariants are in no run: they are proved (section 6), `Conversion`'s as a part of the invariant of
its proofs. Every
property of a passing run has a mutant in `PROJECT.json`, a changed form of one definition such
as a plausible slip in the code would give, under which TLC finds it violated.

## 4 Bounds

* *Requests, Targets* (`ask_one`, `ask_two`). A single request with two targets has all
  interleavings of two calls that share `calls`, the cache and the time limit. Two requests with
  one target have all interleavings over a shared limit, cache and audit log. The limit is 2 where
  it should not stop both calls and 1 where it should.
* *TTL* is one tick: an age is 0, at the TTL (still valid, the comparison is strict) or above it,
  and ages stop there. No code distinguishes two ages above the TTL.
* `know`. Two items and `VerifiedLimit = 1`, so that the limit cuts; one upload and one generated
  file, so that one path can dangle while another is attached.
* `judge`. A banned word, a word that names a pseudonym target and a word only protocols know; a
  built-in SECRET directory, a built-in public one, and one only protocols know; five protocols
  (an extension, a keyword, a pattern and a directory, a pattern that does not compile, an opened
  directory); four documents and two approved answers, in every set, one of the answers edited
  into a banned word; two questions, one with a task.
* `consult`. One question: questions share only the daily limit, which `ask_two` covers. The
  asker, two others here and one on another node, `MaxTargets = 2` so that the cut has someone to
  leave out with and without the asker, `MaxRelevant = 3` above it, a limit of 2 so that the
  asker's second ask may be refused.
* `mesh`. Two nodes with one slot each, two questions one way and one the other: a node can be
  full of its own request while it is asked, with another waiting. `MaxRestarts = 1`.
* `convert`. Two documents, of two roles with the fixed schema and of one with a generated one;
  batches of one slot, so that a document takes two calls; two attempts; seven proposals of the
  model (empty, ill-formed, repeated, more than `MaxSlots`, a structural key's name, a banned
  label, a name the answer format uses). All texts of up to four pieces over three literals that
  overlap and share a prefix, cut at four; six odd ones: longer than the cut, with brackets as in
  markup, with a symbol of their own or with the halves of one; up to two spans, some of them part
  of a symbol.
* `routing`. Two peers that both claim a person and one that claims a person of this node; two
  loads; three sets of cards on both sides of the threshold, with a tie and someone only the model
  can find; answers of the model that repeat, invent or misname a card; `MaxRelevant = 1`;
  `MaxMoves` bounds the changes of peers to one.
* `console`. Two persons (symmetric), two questions on the screen (so that one begins while the
  other's consult goes on), a queue of three, which one consult of two people overfills.
* `trace`. Three calls (symmetric) and room for two traces, so that eviction and expiry meet;
  three judgings, with a decision of every kind of reason.

There are no state constraints: every model is finite by itself. Deadlock is checked except in
`mesh`, whose system rests when nobody asks any more (`Consult` has a step for that).
Symmetry is declared in `console` and `trace` only, over people and calls that the modules treat
alike, and there only state invariants and one action property are checked.

## 5 Fairness

`ask_one`, `consult` and `mesh` assume weak fairness of the steps the code owes, and nothing of
people or of the broker.

* `AskFlow`: a task that is ready is run; the zone model's client has a time-out of its own, after
  which its caller goes on (`Assemble`, `ZoneAnswer`, `Block`, `Fallback`); the escalation's
  broker call is under `wait_for`; `wait_for` fires (`Timeout`); time passes (`Tick`). None for
  `Prepare` and `Send` (nobody owes a question or an approval) nor for `BrokerAnswers` and
  `BrokerFails`: the broker may be silent for ever, and `SendEnds` holds because of the time limit
  alone.
* `Consult`: what the server does by itself goes on; each ask ends (`AskEnds` is the disjunction
  of its ways to end without an answer, justified by `SendEnds`), while `Answers` is owed by
  nobody.
* `PeerMesh`: slots are handed on in the order of asking (asyncio's semaphore queues its waiters),
  handlers end by their own limits, and a call has a time-out (`CallFails`). None for
  `PeerAnswers`, `Approve`, `Leave` and `Lapse`.

## 6 Proofs

All theorems are for any sets of requests, targets, files, items, words, protocols, documents,
nodes, questions and calls (`Consult`'s Agents and the people on the screen are finitely many), and
for any limit and TTL under the named assumptions.

**`AskFlowProofs`**: `TypeCorrect`, `Invariance`, `SecretSafe`, `StoresSafe`, `MappingSafe`,
`LimitSafe`, `ApprovalSafe`, `FreshSafe`, `AnswersKept`, `EscalationsExact`. None of the safety
properties is inductive. `Inv` adds
what they rest on: a prepared request has only cards (`PhaseStates`); the shape of a call is
known once it is assembled, and a call that has been sent is no longer cached (`ShapeKnown`);
what may be or was sent rests on evidence below SECRET and, once sent, was approved
(`SentCalls`); a ready call is stored whether or not its context is (`ReadyStored`). There is
one lemma per part, one step per action. `AnswerInv` adds what the two theorems about answers
need: the item and the class of a call follow its state (`Outcomes`), and what a sending request
approved is listed (`ApprovedListed`). `ReadyStored` needs
`SecretRaises`, that `record_local` refuses `secret_tier_local`: only because of that is
`_prepare_inner`'s `pop()` of the *last* entry never reached, and it would pop another target's
entry. The proof thus depends on what section 7 lists as a bug, and a repair of the bug needs a
repair of the `pop()`.

The same module proves `Refinement`, that `AskFlow` implements `Boundary`. `LifeMoves` gives the
legal moves of an envelope per action, `SecretsGrow` and `RowsGrow` the monotone parts, and
`OutIsSafe` and `AgainIsSafe` the guards of going out and of going out again.

**`KnowledgeProofs`**: `KnowledgeTypes`, `FeedbackIsFaithful`, `LoadsAreCurrent`,
`FeedbackIsKept`, `NothingDangles`. `Inv` follows every copy of an approved answer (on disk, in the
cache, in a question in progress, used) back to an approved item (`GenuineCopies`), with
`OnTheWay` for the turn between the inbox and the file, `OneEach` against doubling, and
`CacheCoherent` for the cache. `Whole`, for the last two theorems, says that a path that dangles or
an approval that is missing belongs to the running turn or to one that was cut, and that a file
torn for good holds nothing.

**`JudgementProofs`**: `JudgementTypes`, `WhatCrosses`, `FailureIsSecret`, `CompanyApplies`, and
`StricterWins`, which is about the rules alone: more protocols never lower a text's tier unless
they open a directory or hold a pattern that does not compile. `IInv` adds to the types what is
known of the evidence judged so far (`JudgedInv`), of the text the model is judging
(`AwaitInv`) and of an envelope (`EnvelopeInv`).

**`ConsultProofs`**: `ConsultTypes`, `BudgetKept`, `EscalationsReachTheAsker`,
`OneAgentsFailure`, `DigestIsTrue`, `NoContextLeft`. `Inv` says of each consult what its stage
implies for the asker's own Agent (`MeOK`), for everyone else (`OtherOK`), while nothing is being
asked (`Resting`) and when the result is there (`DoneOK`). The budget is a count: `CutAtBounds` and
`InFrontBounds` give the size of the two cuts, and what crossed is a subset of what was chosen.

**`PeerMeshProofs`**: `MeshInvariance`, `MeshTypes`, `PeersCrossOnce`, `EscalationsAreBacked`.
Per question: after approval the asker's phase never returns to where it could approve again
(`ApprovalLast`); a crossing uses up the owner's entry, context and request (`CrossingSpends`);
a response or a display that says "escalated" has its item (`EscalationBacked`).

**`ConversionProofs`**: `ConversionInvariance`, `FactsAreClosed`, `FactsAreOwn`, `ChecksDoAgree`.
The invariant is one equation, that the facts of a document are what `Assembled` makes of what was
said of it, with the order in which documents are filled (`Filling`), and that a generated schema
lists well-formed labels (`OwnSchema`).

* `MaskingAlways`, `RoundTripAlways`: the texts of `Pseudonyms`, for any literals, texts, spans and
  cut. The invariant `Masking` says that what is sent is what `Apply`, and `Conservative` once more at
  most, make of the originals; the rest is about `str.replace`. A masked text and its original are
  *aligned* (`Aligned`): place by place they hold the same piece, or a symbol on one side and its
  literal on the other. Masking one more literal keeps them aligned, because a literal without
  brackets that is no part of a symbol stands in none and over the edge of none (`OutsideSymbols`,
  `MaskStep`), however it overlaps with other literals. Reading one symbol back keeps them
  aligned with one symbol fewer, because a symbol that is not in the original stands only where it
  was put (`ReadBackStep`). Aligned without symbols, two texts are the same (`NothingMasked`).
  `AssignedTable` and `AddedTable` show that no symbol is given twice, by `apply` or by
  `apply_conservative` after it; `SymbolShape` that symbols are four pieces with brackets at the
  ends only.
* What the functions defined by themselves compute is reached without induction theorems: every set
  of naturals has a least number (`LeastNumber`, from the library's well-foundedness of `<`), so what
  is passed on from one number to the next holds up to any (`UpTo`). With it, `Replaced` and
  `ReplacedAll` are shown to satisfy their equations (`ReplacedUnfolds`, `ReplacedAllUnfolds`), and
  `ReplacedWalks` turns the first into a walk along the text and its output.
* The assumptions: literals are not empty; prefixes hold no bracket, and none is `CTX`
  (`TargetsAssumption`); numerals read differently and hold no bracket, and there is one for every
  literal and span (`NumeralsAssumption`, `TextsAssumption`). `pseudonyms.json` and the code's
  decimal counts satisfy all of them.

**`TraceProofs`**: `TableIsTrue`, `TraceInvariance`, `TraceTypes`, `TracesAreCurrent`,
`CrossingsAreTrue`, `StopsAreTrue`, `LeavingIsJustified`. `Inv` says which stages a
recorder can hold (`WellKept`) and which it must at each step of its call (`Progress`), and that a
kept trace was once the recorder's (`KeptBefore`). `TableIsTrue` is about the decision table
alone: one rule hit, every SECRET has its reason, and nothing a rule matched is named.

**`ScreenProofs`** is about both halves of the screen and extends both modules, which is why
`Console` calls its specification `ConsoleSpec`.

* `RoutingTypes`, `CardsRouteAlways`. What the screen shows says nothing of where a question goes;
  `OwnersKept` relates the two: whoever a load has taken from a peer is not one of this node and has
  that peer as owner. It is inductive because an owner once learnt is never replaced
  (`LearntKeeps`), whichever of two loads comes first and whatever `Refresh` and `Expire` do.
* `CapKeepsBest`, `TriageKeepsBestAlways`. Triage is a fixed order of passes over a finite set.
  `PassFinds` says whom the rules and the model find, `ShownKeepsBest` what the one step that shows a
  broadcast makes of it. `CapKeepsBest` is a count: each person's rank is the number of those ahead,
  and of those left out the first has only kept people ahead, `max_relevant` of them. Least and
  greatest elements come from the well-foundedness of `<` on the naturals.
* `ConsoleTypes`, `AnswerInOwnThreadAlways`. `InThread` says of each thread that it holds only what
  was put in it (`PutHere`), no outcome yet of the question in flight (`NoneYet`), an outcome of
  every other (`Closed`), and each outcome once and below its question (`InOrder`); `FlightInv` ties
  the question in flight to the thread it was put in, not to the one that is open.
* `HighlightTrueAlways`. `StreamInv` looks ahead in the queue: every event that shows somebody is
  followed by one that hides them, or their consult is still asking (`Balanced`), and so is every
  highlight on the screen (`ToBeHidden`). `PushKeeps` shows that appending an event keeps this, or
  that the full queue marks the stream as broken.

Checked by TLC only: liveness (`PrepareEnds`, `SendEnds`, `ConsultEnds`, `RequestsEnd`), since
neither fairness nor `ENABLED` is in the prover's reach. Every other property of a passing run, each
safety invariant and each action property, is stated by a theorem.

## 7 Where the code and its documents disagree

| Run | What it shows |
|---|---|
| `ask_zone_raises` | `answer_in_zone` must not raise (gatekeeper.py:1234), and raises for every SECRET answer: `LOCAL_REASON_LABELS_KO` has `secret_tier_local`, `LOCAL_REASON_CODES` (audit.py:173-180) has not. The answer is lost and asked for again as `policy_no_external`. |
| `convert_refs` | A text stands under the label of its document, so that a citation can be checked (extractor.py:588-590). The labels are given in the order of the paths and the texts come in the order of selection (gatekeeper.py:724): two documents can go out under each other's label. |

Others, seen while modelling and not kept as runs.

*Ask and send.* BR-O-08 returns the answers that have arrived when the time limit fires; the code
cancels them all (orchestrator.py:1571-1577). A context and its envelope do not expire
together (orchestrator.py:411-413 against two clocks started at two moments); the Mapping of an
abandoned request stays filled until somebody touches the cache (gatekeeper.py:403-404); an
envelope that has expired is answered in the zone with 200 and not with 410
(gatekeeper.py:428-430); a question that is escalated or falls back counts twice against the
daily limit, `count_today` being documented as the number of questions (audit.py:372).

*Consult and hub.* `hub_ask` passes arguments `BrokerClient.invoke` does not take
(orchestrator.py:2013-2014), after writing an audit row for the crossing that then does not happen.
A relevant person who is displaced by the cut is in neither list of the result
(orchestrator.py:668-673 against api_models.py:501-503).

*Peers.* People added by a refresh are not among `local_ids` (main.py:213 against
peer.py:298-302), so a peer that lists them takes them over. `CardsRoute` therefore demands
local-first of the people at start only; a registry that keeps up with a refresh satisfies it too
(checked with `LocalIds == agents`).

*Knowledge and inbox.* BR-I-02: an approval becomes a VerifiedQA; the inbox commits first, and a
failure before `append_verified` loses the answer for good (main.py:787-789). store.py:550-552 has
the text of an approved answer judged again, and the higher tier win; orchestrator.py:1107-1109 does
not judge a chunk that has a tier, so an owner's edit crosses in the shape of the old tier, and
`TextThatCrosses` says no more of it. A torn `verified.json` takes the
append-only history with it (store.py:161, BR-S-05); the newest answer to a question does not
displace the older one (store.py:554 against 425-426).

*Judgement and conversion.* main.py:1189 and protocol_schemas.py:8-9 say saved protocols of every
level are applied; those of teams and persons never are (config.py:729). A file with a listed
extension is SECRET (protocol_schemas.py:50-51); protocol_store.py:171-176 makes the extension a
pattern that is looked for in the text, where the file's name does not stand. A task's
pseudonymized payload passes validation in tests/unit/test_gatekeeper.py:335-352; `to_payload`
adds a `question` key (gatekeeper.py:717) that `check_schema` refuses. No banned word crosses in
any tier (validator.py:396-400); a passed-through payload is not validated and may hold one
(orchestrator.py:1181). The tier of a call is not the maximum with the question's
(gatekeeper.py:597 against 614-623). A span the model proposes may be a part of a symbol (`PROJ`)
and is then replaced inside it (pseudonymizer.py:210-214); a text that holds what reads like one
of its symbols to begin with gets a literal in its place when it is read back. Both are the
exceptions of `RoundTrip`, and the only ones besides a literal with a bracket: the proof needs no
other.

*Trace.* The trace of a blocked call shows its payload in full, and its transform stage the fragments
that were found (trace.py:743 against 27-36); a call
refused by the daily limit has its dispatch stage drawn as sent (agent.py:128), and one that left
and failed is headed as not handed to the Agent (app.js:1287); `put` of a trace
already held in a full store evicts another one; a mixed answer's trace speaks of one path only
(orchestrator.py:1410-1418).

## 8 What is abstracted, and what is not modelled

`AskFlow`: the await that mirrors an audit row is part of `BrokerAnswers`; fallbacks,
escalations and blocked calls are taken in any order though the code goes through them one by
one; the later awaits of a mixed answer are part of `ZoneAnswer` (this commit never reaches
them); the day does not change, so `count_today` only grows; a zone answer has the fixed
confidence 0.5, which makes it unverified; a request id that is not pending is a refusal that
changes nothing; targets are on this node. An item added in the moment the time limit fires is in
the inbox and not in the response: the model has it and no rule speaks of it.

`Knowledge`: one owner. A cache entry whose mtime is no longer current is no entry. The person
edits between turns and lists files that exist. A torn `verified.json` stays torn, as nothing
repairs it. `verified_at` follows the order of the approvals. Text of files, scoring, path checks
and scope are abstracted.

`Judgement`: `internal_*` rules never change a result, INTERNAL being the default. The glob match
and the prefix match of a path are independent (`dirs`, `prefixes`), as they are in the code. A cut
write leaves an empty file (the files are smaller than one buffer). A text file the store generates
for a question counts as a document. The stage that compares with the originals finds nothing, since
masking replaces a word wherever it stands; size is the constant `Long`; what is extracted for
SECRET evidence is discarded with its envelope in any case. Any approved answers may be recalled:
how they came to be is in `Knowledge`.

`Consult`: what one ask does inside is `AskFlow`, the second crossing for a draft included, which
`AskBudget` does not count; `EscalationsTold` is about the others, not the asker's own first
attempt. Grades stand for confidence, citations and the wording `_looks_irrelevant` looks for.
Another node's limit is that node's. The tool loop of the hub's model is not there, as the call
never gets that far.

`PeerMesh`: one target per question; the draft's crossing is in `AskFlow` and not counted again;
addresses and the shared token are fixed; the lists of people are in `Routing`. An entry of
`peer_pending` under a blocked card's name is left out: nobody asks for it.

`Conversion`: `assign_refs` raises for more than 26 documents of one role, and at most 12 labels are
read of a generated slot: neither bound is reached. Spans of equal length are numbered in the order
they were proposed in, where the code sorts them by their text; a literal that is listed twice is
replaced once, where the code tries a second time, in vain unless it is a part of its own symbol;
symbols are read back in the table's order, where the code takes the longest first: as each ends
with its bracket, none is found in another. A cut between the characters of a literal is a cut
between pieces.
`Gatekeeper._dynamic` grows by a schema per question and is never emptied: the model keeps one.
PII patterns, n-grams and size are one free choice (`others`).

`Routing`: scores are hundredths; keyword matching is what a profile says. An expired list is no
list.

`Console`: of what is drawn, threads, the loading bubble and highlights. A second bubble after a
restart and a trace that comes late for a closed modal (app.js:1269) are left out.

`Trace`: wording, order and links on the screen. The line of a stage across the boundary
(`crosses_boundary`) is modelled, its colours are not.

Hazards in `PROJECT.json` without a property: the two clocks of a context and its envelope
(orchestrator.py:413) and a secret extension that is looked for in the text
(protocol_store.py:175); each has its reason there. Some are covered but for what the code does
anyway, which their notes name: a torn `verified.json` (store.py:161), an approval or a deletion
that was itself cut (main.py:789, store.py:733), an approved answer's stored tier
(orchestrator.py:1107), a call refused by the limit (agent.py:128), a put under a held key
(trace.py:1042), a window taken off the list for its full queue (main.py:141). Also not covered,
one reading or one file system race each: a document that is deleted while the list awaits another
one's tier (documents.py:167); a document id that is a hash of a path (documents.py:78); two
questions to one person in one second with the same first forty characters (store.py:983); two
approvals of one question (store.py:554); two editors of one protocol (protocol_store.py:73); an
envelope judged under rules that were tightened while it waits (gatekeeper.py:826); a time limit
that fires after an inbox item was added and before it was reported (orchestrator.py:1845); the
`pop()` of the last card (orchestrator.py:1422), which this commit never reaches (section 6).

Not modelled: the organisation chart (read once, pure lookups), the desktop shell (starts the server
and opens a window), scripts and launchers, the demonstration corpus and its evaluation; the
broker's own Lambda, whose source is not in the repository; search, statistics and the leak sweep
of the audit, static routes and the origin gate, which change no state. Inside modelled components:
the retry loop within one call of a client, prompts, and the repair of JSON, whose results are free
choices of the modules that call them.

## 9 Plan

Done: `AskFlow` with `Boundary`, `Knowledge`, `Judgement`, `Consult`, `PeerMesh`, `Conversion` with
`Pseudonyms`, `Routing`, `Console`, `Trace`, and the proofs of section 6.

| Next | Modules | What for |
|---|---|---|
| 1 | `PeerMesh` as a refinement of what `Boundary` promises of one question | one abstract specification for local and remote asks |
| 2 | `Knowledge` with two owners and the reassignment of an item | redirection of an inbox item |
| 3 | rules that change between judging and sending | the envelope's tier against the rules of the moment it crosses |

Modules to be proved about hold no `RECURSIVE` operator; constants carry named assumptions; an
invariant is a conjunction of named parts.
