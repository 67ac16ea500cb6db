----------------------------- MODULE TraceProofs -----------------------------
(***************************************************************************)
(* Theorems about Trace, for any calls, any judged evidence, any limit of    *)
(* the store and any age traces are kept to.                                *)
(***************************************************************************)
EXTENDS Trace, TLAPS

-----------------------------------------------------------------------------
(* The table of a decision. *)

LEMMA FinalTiers ==
    ASSUME NEW d \in Decisions \cup Verified
    PROVE  /\ FinalTier(d) \in Tiers
           /\ d \in Decisions =>
                (FinalTier(d) = "secret" <=> d.ex \in {"failed", "secret"} \/ d.ruleTier = "secret")
  BY DEF Decisions, Verified, FinalTier, MaxTier, Tiers

LEMMA DetailHides ==
    ASSUME NEW d \in Decisions \cup Verified
    PROVE  /\ RuleStepRows(d).detail \subseteq Contents
           /\ RuleStepRows(d).detail \cap (Valued \cup {"line"}) = {}
<1>1. RuleStepRows(d).detail = RedactReasons(DecisionReasons(d))
  BY DEF RuleStepRows
<1>2. DecisionReasons(d) \subseteq Reasons
  BY DEF Decisions, Verified, DecisionReasons, Reasons, Valued, Plain, Tiers
<1>3. \A r \in Reasons :
        LET shown == IF r \in Categories THEN "category" ELSE IF r \in Valued THEN "hidden" ELSE r
        IN  shown \in Contents /\ shown \notin Valued \cup {"line"}
  BY DEF Reasons, Valued, Plain, Categories, Contents
<1> QED  BY <1>1, <1>2, <1>3 DEF RedactReasons

\* However the rules and the model decide, the table that is shown has one rule
\* that hit, gives the reason of every SECRET and hides what a rule matched
\* (rule_step_rows, redact_reasons).
THEOREM TableIsTrue == TableExplains
<1> SUFFICES ASSUME NEW d \in Decisions
             PROVE  LET t == RuleStepRows(d)
                    IN  /\ \E n \in 1 .. 6 : \A m \in 1 .. 6 : t.rules[m].verdict = "hit" <=> m = n
                        /\ t.final = "secret" <=> \/ \E n \in 1 .. 6 : t.rules[n].status = "warn"
                                                  \/ t.model.status = "warn"
                                                  \/ t.model.verdict = "secret"
                        /\ t.detail \cap Valued = {}
  BY DEF TableExplains
<1> DEFINE t == RuleStepRows(d)
<1>1. d.rule \in 1 .. 6 /\ d.ruleTier \in Tiers /\ d.ex \in Tiers \cup {"skipped", "failed"}
  BY DEF Decisions
<1>2. \A n \in 1 .. 6 : /\ t.rules[n].verdict = "hit" <=> n = d.rule
                        /\ t.rules[n].status = "warn" <=> n = d.rule /\ d.ruleTier = "secret"
  <2> TAKE n \in 1 .. 6
  <2>1. CASE n < d.rule
    BY <1>1, <2>1 DEF RuleStepRows
  <2>2. CASE n = d.rule
    BY <1>1, <2>2 DEF RuleStepRows
  <2>3. CASE n > d.rule
    BY <1>1, <2>3 DEF RuleStepRows
  <2> QED  BY <1>1, <2>1, <2>2, <2>3
<1>3. /\ t.model.status = "warn" <=> d.ex = "failed"
      /\ t.model.verdict = d.ex
      /\ t.final = FinalTier(d)
  BY <1>1 DEF RuleStepRows, Tiers
<1>4. t.final = "secret" <=> d.ex \in {"failed", "secret"} \/ d.ruleTier = "secret"
  BY <1>3, FinalTiers
<1>5. t.detail \cap Valued = {}
  BY DetailHides
<1> HIDE DEF t
<1> QED  BY <1>1, <1>2, <1>3, <1>4, <1>5 DEF t

-----------------------------------------------------------------------------
(* The recorder. *)

LEMMA PutStageFacts ==
    ASSUME NEW r \in Recorders, NEW id \in StageIds, NEW status \in Statuses, NEW shows \in SUBSET Contents
    PROVE  LET p == PutStage(r, id, status, shows)
           IN  /\ p \in Recorders
               /\ p.tier = r.tier
               /\ p.crossed = r.crossed
               /\ p.stages[id] = [status |-> status, shows |-> shows]
               /\ \A other \in StageIds \ {id} : p.stages[other] = r.stages[other]
  BY DEF PutStage, Recorders, Stages

\* A recorder before the call: nothing is stopped and nothing is drawn as crossing.
Early(r) ==
    /\ r \in Recorders
    /\ ~ r.crossed /\ ~ Drawn(r) /\ ~ HasBlocked(r)

LEMMA EarlyKept == \A r : Early(r) => r \in Recorders /\ WellKept(r)
  BY DEF Early, WellKept

\* A stage that stops nothing and is not the one of the call.
LEMMA PlainEarly ==
    ASSUME NEW r, Early(r),
           NEW id \in StageIds \ {"dispatch"}, NEW status \in Statuses \ {"blocked"},
           NEW shows \in SUBSET Contents
    PROVE  LET p == PutStage(r, id, status, shows)
           IN  Early(p) /\ p.tier = r.tier
<1> DEFINE p == PutStage(r, id, status, shows)
<1>0. "dispatch" \in StageIds \ {id}
  BY DEF StageIds
<1>1. /\ p \in Recorders /\ p.tier = r.tier /\ p.crossed = r.crossed
      /\ p.stages[id] = [status |-> status, shows |-> shows]
      /\ \A other \in StageIds \ {id} : p.stages[other] = r.stages[other]
  BY PutStageFacts, id \in StageIds, status \in Statuses DEF Early
<1> HIDE DEF p
<1>2. ~ Drawn(p) /\ ~ HasBlocked(p)
  BY <1>0, <1>1 DEF Early, Drawn, HasBlocked
<1> QED  BY <1>1, <1>2 DEF Early, p

LEMMA BlockedFacts ==
    ASSUME NEW r, Early(r), NEW id \in StageIds
    PROVE  LET b == AddBlocked(r, id)
           IN  b \in Recorders /\ WellKept(b) /\ ~ Drawn(b)
<1> DEFINE p == PutStage(r, id, "blocked", {"why"})
           b == AddBlocked(r, id)
<1>0. "blocked" \in Statuses /\ {"why"} \in SUBSET Contents /\ "dispatch" \in StageIds
  BY DEF Statuses, Contents, StageIds
<1>1. /\ p \in Recorders
      /\ p.stages[id] = [status |-> "blocked", shows |-> {"why"}]
      /\ \A other \in StageIds \ {id} : p.stages[other] = r.stages[other]
  BY <1>0 DEF Early, PutStage, Recorders, Stages
<1>2. b = [p EXCEPT !.crossed = FALSE]
  BY DEF AddBlocked
<1> HIDE DEF p, b
<1>3. b \in Recorders /\ b.stages = p.stages /\ b.crossed = FALSE
  BY <1>1, <1>2 DEF Recorders
<1>4. \A other \in StageIds : b.stages[other].status = "blocked" <=> other = id
  BY <1>1, <1>3 DEF HasBlocked, Early
<1>5. ~ Drawn(b)
  BY <1>0, <1>1, <1>3 DEF Drawn, Early
<1> QED  BY <1>3, <1>4, <1>5 DEF WellKept, b

LEMMA SelectFacts ==
    ASSUME NEW r, Early(r)
    PROVE  Early(AddSelect(r))
<1> DEFINE shows == {"title"}
<1>1. /\ "select" \in StageIds \ {"dispatch"} /\ "pass" \in Statuses \ {"blocked"}
      /\ shows \in SUBSET Contents
  BY DEF StageIds, Statuses, Contents
<1> HIDE DEF shows
<1>2. Early(PutStage(r, "select", "pass", shows))
  BY <1>1, PlainEarly
<1> QED  BY <1>2 DEF AddSelect, shows

LEMMA ClassifyFacts ==
    ASSUME NEW r, Early(r), NEW j \in Judgings
    PROVE  Early(AddClassify(r, j))
<1> DEFINE tables == {RuleStepRows(d) : d \in j.evidence \cup {j.question}}
           shows == {"title"} \cup UNION {t.detail : t \in tables}
           effective == MaxTier({FinalTier(d) : d \in j.evidence})
           p == PutStage(r, "classify", "pass", shows)
<1>1. \A d \in j.evidence \cup {j.question} : d \in Decisions \cup Verified
  BY JudgingsAssumption
<1>2. \A t \in tables : t.detail \subseteq Contents
  BY <1>1, DetailHides
<1>3. /\ "classify" \in StageIds \ {"dispatch"} /\ "pass" \in Statuses \ {"blocked"}
      /\ shows \in SUBSET Contents
  <2>1. "title" \in Contents
    BY DEF Contents
  <2> HIDE DEF tables
  <2>2. shows \in SUBSET Contents
    BY <1>2, <2>1
  <2> QED  BY <2>2 DEF StageIds, Statuses
<1>4. effective \in Tiers
  BY DEF MaxTier, Tiers
<1> HIDE DEF tables, shows, effective, p
<1>5. Early(p)
  BY <1>3, PlainEarly DEF p
<1>6. AddClassify(r, j) = [p EXCEPT !.tier = effective]
  BY DEF AddClassify, p, shows, tables, effective
<1>7. /\ AddClassify(r, j) \in Recorders
      /\ AddClassify(r, j).stages = p.stages
      /\ AddClassify(r, j).crossed = p.crossed
  BY <1>4, <1>5, <1>6 DEF Early, Recorders
<1> QED  BY <1>5, <1>7 DEF Early, Drawn, HasBlocked

LEMMA ConvertedFacts ==
    ASSUME NEW r, Early(r), NEW clean \in BOOLEAN
    PROVE  Early(AddValidate(AddTransform(r, clean), clean))
<1> DEFINE payload == {"payload", "symbols"} \cup IF clean THEN {} ELSE {"offending"}
           checks == {"checks"} \cup IF clean THEN {} ELSE {"count"}
           verdict == IF clean THEN "pass" ELSE "fail"
           a == AddTransform(r, clean)
<1>1. /\ payload \in SUBSET Contents /\ checks \in SUBSET Contents
      /\ verdict \in Statuses \ {"blocked"} /\ "pass" \in Statuses \ {"blocked"}
      /\ {"transform", "validate"} \subseteq StageIds \ {"dispatch"}
  BY DEF Contents, Statuses, StageIds
<1>2. a = PutStage(r, "transform", "pass", payload)
      /\ AddValidate(a, clean) = PutStage(a, "validate", verdict, checks)
  BY DEF AddTransform, AddValidate
<1> HIDE DEF payload, checks, verdict, a
<1>3. Early(a)
  BY <1>1, <1>2, PlainEarly
<1>4. Early(AddValidate(a, clean))
  BY <1>1, <1>2, <1>3, PlainEarly
<1> QED  BY <1>4 DEF a

\* A recorder with the stage of a call that was made, or refused.
After(r) ==
    /\ r \in Recorders
    /\ WellKept(r) /\ ~ HasBlocked(r) /\ Drawn(r)

LEMMA DispatchFacts ==
    ASSUME NEW r, Early(r), NEW failed \in BOOLEAN
    PROVE  After(AddDispatch(r, failed)) /\ AddDispatch(r, failed).crossed = ~ failed
<1> DEFINE shows == {"envelope", "line"}
           status == IF failed THEN "fail" ELSE "warn"
           p == PutStage(r, "dispatch", status, shows)
           d == AddDispatch(r, failed)
<1>1. /\ "dispatch" \in StageIds /\ status \in Statuses \ {"blocked"}
      /\ shows \in SUBSET Contents /\ "line" \in shows
      /\ failed => status = "fail"
  BY DEF StageIds, Statuses, Contents
<1>2. d = [p EXCEPT !.crossed = ~ failed]
  BY DEF AddDispatch
<1> HIDE DEF shows, status, d
<1>3. /\ p \in Recorders
      /\ p.stages["dispatch"] = [status |-> status, shows |-> shows]
      /\ \A other \in StageIds \ {"dispatch"} : p.stages[other] = r.stages[other]
  BY <1>1, PutStageFacts DEF Early
<1> HIDE DEF p
<1>4. d \in Recorders /\ d.stages = p.stages /\ d.crossed = ~ failed
  BY <1>2, <1>3 DEF Recorders
<1>5. Drawn(d) /\ ~ HasBlocked(d)
  BY <1>1, <1>3, <1>4 DEF Drawn, HasBlocked, Early
<1>6. d.crossed \/ d.stages["dispatch"].status = "fail"
  <2>1. CASE failed
    BY <1>1, <1>3, <1>4, <2>1
  <2>2. CASE ~ failed
    BY <1>4, <2>2
  <2> QED  BY <2>1, <2>2
<1> QED  BY <1>4, <1>5, <1>6 DEF WellKept, After, d

LEMMA RehydrateFacts ==
    ASSUME NEW r, After(r), NEW unresolved \in BOOLEAN
    PROVE  After(AddRehydrate(r, unresolved)) /\ AddRehydrate(r, unresolved).crossed = r.crossed
<1> DEFINE shows == {"masked", "symbols", "values"}
           status == IF unresolved THEN "warn" ELSE "pass"
           a == PutStage(r, "rehydrate", status, shows)
<1>1. /\ "rehydrate" \in StageIds /\ "dispatch" \in StageIds \ {"rehydrate"}
      /\ status \in Statuses /\ status # "blocked" /\ shows \in SUBSET Contents
  BY DEF StageIds, Statuses, Contents
<1>2. AddRehydrate(r, unresolved) = a
  BY DEF AddRehydrate
<1> HIDE DEF shows, status
<1>3. /\ a \in Recorders /\ a.crossed = r.crossed
      /\ a.stages["rehydrate"] = [status |-> status, shows |-> shows]
      /\ \A other \in StageIds \ {"rehydrate"} : a.stages[other] = r.stages[other]
  BY <1>1, PutStageFacts DEF After
<1> HIDE DEF a
<1>4. ~ HasBlocked(a)
  BY <1>1, <1>3 DEF HasBlocked, After
<1>5. Drawn(a) /\ a.stages["dispatch"] = r.stages["dispatch"]
  BY <1>1, <1>3 DEF Drawn, After
<1> QED  BY <1>2, <1>3, <1>4, <1>5 DEF After, WellKept

-----------------------------------------------------------------------------
(* The steps.  An action moves one call and, mostly, puts its recorder. *)

\* What is put under c replaces what was there; others may only leave.
LEMMA KeepFacts ==
    ASSUME TypeOK, NEW c \in Calls, NEW r \in Recorders, KeepTrace(c, r)
    PROVE  /\ rec' = [rec EXCEPT ![c] = r]
           /\ kept' = [kept EXCEPT ![c] = r]
           /\ age' = [age EXCEPT ![c] = 0]
           /\ held' \subseteq held \cup {c}
  BY DEF KeepTrace, StorePut, Swept

LEMMA KeepStep ==
    ASSUME Inv, NEW c \in Calls, NEW r \in Recorders, WellKept(r), KeepTrace(c, r),
           NEW to \in Steps, step' = [step EXCEPT ![c] = to],
           sent' \in {sent, sent \cup {c}}, handed' \in {handed, handed \cup {c}},
           Progress(c)',
           HasBlocked(r) => to \in {"failed", "blocked"}
    PROVE  Inv'
<1>1. /\ rec' = [rec EXCEPT ![c] = r]
      /\ kept' = [kept EXCEPT ![c] = r]
      /\ age' = [age EXCEPT ![c] = 0]
      /\ held' \subseteq held \cup {c}
  BY KeepFacts DEF Inv
<1>2. TypeOK'
  BY <1>1, TTLAssumption DEF Inv, TypeOK
<1>3. rec'[c] = r /\ kept'[c] = r /\ step'[c] = to
  BY <1>1 DEF Inv, TypeOK
<1>4. \A d \in Calls \ {c} : /\ rec'[d] = rec[d] /\ kept'[d] = kept[d] /\ step'[d] = step[d]
                             /\ d \in sent' <=> d \in sent
                             /\ d \in handed' <=> d \in handed
  BY <1>1 DEF Inv, TypeOK
<1>5. \A d \in Calls : WellKept(rec'[d])
  BY <1>3, <1>4 DEF Inv
<1>6. \A d \in Calls : Progress(d)'
  BY <1>4 DEF Inv, Progress
<1>7. \A d \in held' : KeptBefore(d)'
  <2> TAKE d \in held'
  <2>1. CASE d = c
    BY <1>3, <2>1 DEF KeptBefore, Progress
  <2>2. CASE d # c
    <3>1. d \in held /\ d \in Calls
      BY <1>1, <2>2 DEF Inv, TypeOK
    <3> QED  BY <1>4, <2>2, <3>1 DEF Inv, KeptBefore
  <2> QED  BY <2>1, <2>2
<1>8. LatestKept'
  BY <1>1, <1>2, <1>3, <1>4 DEF Inv, LatestKept, TypeOK
<1>9. \A d \in Calls : WellKept(rec[d])'
  BY <1>5
<1> QED  BY <1>2, <1>6, <1>7, <1>8, <1>9 DEF Inv

\* A step that puts nothing: what is recorded without a put is not handed out.
LEMMA RecordStep ==
    ASSUME Inv, NEW c \in Calls, NEW r \in Recorders, WellKept(r),
           rec' = [rec EXCEPT ![c] = r], UNCHANGED <<held, kept, age>>,
           NEW to \in Steps, step' = [step EXCEPT ![c] = to],
           sent' \in {sent, sent \cup {c}}, handed' \in {handed, handed \cup {c}},
           Progress(c)',
           c \in handed' \cap held => kept[c] = r,
           c \in held /\ HasBlocked(kept[c]) => to \in {"failed", "blocked"}
    PROVE  Inv'
<1>2. TypeOK'
  BY DEF Inv, TypeOK
<1>3. rec'[c] = r /\ step'[c] = to
  BY DEF Inv, TypeOK
<1>4. \A d \in Calls \ {c} : /\ rec'[d] = rec[d] /\ step'[d] = step[d]
                             /\ d \in sent' <=> d \in sent
                             /\ d \in handed' <=> d \in handed
  BY DEF Inv, TypeOK
<1>5. \A d \in Calls : WellKept(rec'[d])
  BY <1>3, <1>4 DEF Inv
<1>6. \A d \in Calls : Progress(d)'
  BY <1>4 DEF Inv, Progress
<1>7. \A d \in held' : KeptBefore(d)'
  <2> TAKE d \in held'
  <2>0. d \in held /\ d \in Calls /\ kept' = kept /\ KeptBefore(d)
    BY DEF Inv, TypeOK
  <2>1. CASE d = c
    BY <1>3, <2>0, <2>1 DEF KeptBefore
  <2>2. CASE d # c
    BY <1>4, <2>0, <2>2 DEF KeptBefore
  <2> QED  BY <2>1, <2>2
<1>8. LatestKept'
  BY <1>3, <1>4 DEF Inv, LatestKept, TypeOK
<1>9. \A d \in Calls : WellKept(rec[d])'
  BY <1>5
<1> QED  BY <1>2, <1>6, <1>7, <1>8, <1>9 DEF Inv

LEMMA AtWork ==
    ASSUME Inv, NEW c \in Calls
    PROVE  /\ rec[c] \in Recorders /\ WellKept(rec[c]) /\ Progress(c)
           /\ step[c] \in {"asked", "judged", "zone", "card", "out"} => Early(rec[c])
           /\ step[c] = "failed" /\ ~ HasBlocked(rec[c]) => Early(rec[c])
<1>1. rec[c] \in Recorders /\ WellKept(rec[c]) /\ Progress(c)
  BY DEF Inv, TypeOK
<1> QED  BY <1>1 DEF Progress, BeforeSend, Early, WellKept

\* An action that leaves the recorder and the store alone.
LEMMA MoveStep ==
    ASSUME Inv, NEW c \in Calls, UNCHANGED <<rec, held, kept, age>>,
           NEW to \in Steps, step' = [step EXCEPT ![c] = to],
           sent' \in {sent, sent \cup {c}}, handed' \in {handed, handed \cup {c}},
           Progress(c)',
           c \in handed' => c \in handed \/ kept[c] = rec[c] \/ c \notin held,
           c \in held /\ HasBlocked(kept[c]) => to \in {"failed", "blocked"}
    PROVE  Inv'
<1>1. rec[c] \in Recorders /\ WellKept(rec[c])
  BY AtWork
<1>2. rec' = [rec EXCEPT ![c] = rec[c]]
  BY DEF Inv, TypeOK
<1>3. c \in handed' \cap held => kept[c] = rec[c]
  BY DEF Inv, LatestKept
<1> QED  BY <1>1, <1>2, <1>3, RecordStep

\* Every step of prepare() keeps the invariant.
LEMMA PrepareKeeps ==
    ASSUME Inv, NEW c \in Calls,
           \/ NoEvidence(c)
           \/ \E j \in Judgings : Judge(c, j)
           \/ PrepareFails(c)
           \/ Passthrough(c)
           \/ ExtractionFails(c)
           \/ ValidationFails(c)
           \/ ValidationPasses(c)
           \/ ToZone(c)
           \/ ZoneRaises(c)
           \/ BlockedCall(c)
    PROVE  Inv'
<1>0. /\ step \in [Calls -> Steps] /\ rec \in [Calls -> Recorders] /\ TypeOK
      /\ c \in held => KeptBefore(c)
  BY DEF Inv, TypeOK
<1>a. /\ {"failed", "blocked", "judged", "card", "zone"} \subseteq Steps
      /\ {"select", "transform", "dispatch"} \subseteq StageIds
      /\ TRUE \in BOOLEAN /\ FALSE \in BOOLEAN
  BY DEF Steps, StageIds
<1>1. CASE NoEvidence(c)
  <2> DEFINE r == AddBlocked(rec[c], "select")
  <2>1. Early(rec[c]) /\ Progress(c)
    BY <1>1, AtWork DEF NoEvidence, Goto
  <2>2. r \in Recorders /\ WellKept(r) /\ ~ Drawn(r)
    BY <1>a, <2>1, BlockedFacts
  <2> HIDE DEF r
  <2>3. KeepTrace(c, r) /\ rec'[c] = r /\ step[c] = "asked"
        /\ step' = [step EXCEPT ![c] = "failed"] /\ sent' = sent /\ handed' = handed
    BY <1>0, <1>1, <2>2, KeepFacts DEF NoEvidence, Goto, r
  <2>4. Progress(c)'
    BY <1>0, <2>1, <2>2, <2>3 DEF Progress, BeforeSend, WellKept, Drawn
  <2> QED  BY <1>a, <2>2, <2>3, <2>4, KeepStep
<1>2. ASSUME NEW j \in Judgings, Judge(c, j) PROVE Inv'
  <2> DEFINE r == AddClassify(AddSelect(rec[c]), j)
  <2>1. Early(rec[c]) /\ Progress(c)
    BY <1>2, AtWork DEF Judge, Goto
  <2>2. Early(r)
    BY <2>1, SelectFacts, ClassifyFacts
  <2> HIDE DEF r
  <2>3. rec' = [rec EXCEPT ![c] = r] /\ rec'[c] = r /\ step[c] = "asked"
        /\ step' = [step EXCEPT ![c] = "judged"] /\ sent' = sent /\ handed' = handed
        /\ UNCHANGED <<held, kept, age>>
    BY <1>0, <1>2 DEF Judge, Goto, RecordOnly, r
  <2>4. c \notin handed' /\ c \notin sent' /\ (c \in held => ~ HasBlocked(kept[c]))
    BY <1>0, <2>1, <2>3 DEF Progress, BeforeSend, KeptBefore
  <2>5. ~ Drawn(rec'[c]) /\ ~ HasBlocked(rec'[c]) /\ ~ rec'[c].crossed
    BY <2>2, <2>3 DEF Early
  <2>6. Progress(c)'
    BY <1>0, <2>3, <2>4, <2>5 DEF Progress, BeforeSend
  <2> QED  BY <1>a, <2>2, <2>3, <2>4, <2>6, EarlyKept, RecordStep
<1>3. CASE PrepareFails(c)
  <2>1. Early(rec[c]) /\ Progress(c)
    BY <1>3, AtWork DEF PrepareFails, Goto
  <2>2. /\ step[c] \in {"asked", "judged"} /\ step' = [step EXCEPT ![c] = "failed"]
        /\ UNCHANGED <<rec, sent, held, kept, age, handed>>
    BY <1>3 DEF PrepareFails, Goto
  <2>3. Progress(c)'
    BY <1>0, <2>1, <2>2 DEF Progress, BeforeSend, WellKept, Drawn
  <2> QED  BY <1>a, <2>2, <2>3, MoveStep
<1>4. ASSUME NEW r, Early(r), step[c] = "judged",
             step' = [step EXCEPT ![c] = "card"], KeepTrace(c, r), sent' = sent,
             handed' = handed \cup {c}
      PROVE  Inv'
  <2>1. rec'[c] = r
    BY <1>0, <1>4, KeepFacts DEF Early
  <2>2. ~ Drawn(rec'[c]) /\ ~ HasBlocked(rec'[c]) /\ ~ rec'[c].crossed
    BY <1>4, <2>1 DEF Early
  <2>3. c \notin sent
    BY <1>4, AtWork DEF Progress, BeforeSend
  <2>4. Progress(c)'
    BY <1>0, <1>4, <2>2, <2>3 DEF Progress, BeforeSend
  <2> QED  BY <1>a, <1>4, <2>2, <2>1, <2>4, EarlyKept, KeepStep
<1>5. CASE Passthrough(c)
  <2>1. Early(rec[c])
    BY <1>5, AtWork DEF Passthrough, Goto
  <2> DEFINE r == AddValidate(AddTransform(rec[c], TRUE), TRUE)
  <2>2. Early(r)
    BY <1>a, <2>1, ConvertedFacts
  <2> QED  BY <1>4, <1>5, <2>2 DEF Passthrough, Goto
<1>6. CASE ExtractionFails(c)
  <2> DEFINE r == AddBlocked(rec[c], "transform")
  <2>1. Early(rec[c]) /\ Progress(c)
    BY <1>6, AtWork DEF ExtractionFails, Goto
  <2>2. r \in Recorders /\ WellKept(r) /\ ~ Drawn(r)
    BY <1>a, <2>1, BlockedFacts
  <2> HIDE DEF r
  <2>3. KeepTrace(c, r) /\ rec'[c] = r /\ step[c] = "judged"
        /\ step' = [step EXCEPT ![c] = "failed"] /\ sent' = sent /\ handed' = handed
    BY <1>0, <1>6, <2>2, KeepFacts DEF ExtractionFails, Goto, r
  <2>4. Progress(c)'
    BY <1>0, <2>1, <2>2, <2>3 DEF Progress, BeforeSend, WellKept, Drawn
  <2> QED  BY <1>a, <2>2, <2>3, <2>4, KeepStep
<1>7. CASE ValidationFails(c)
  <2> DEFINE r == AddBlocked(Converted(c, FALSE), "dispatch")
  <2>1. Early(rec[c]) /\ Progress(c)
    BY <1>7, AtWork DEF ValidationFails, Goto
  <2>2. Early(Converted(c, FALSE))
    BY <1>a, <2>1, ConvertedFacts DEF Converted
  <2>3. r \in Recorders /\ WellKept(r) /\ ~ Drawn(r)
    BY <1>a, <2>2, BlockedFacts
  <2> HIDE DEF r
  <2>4. KeepTrace(c, r) /\ step[c] = "judged"
        /\ step' = [step EXCEPT ![c] = "failed"] /\ sent' = sent /\ handed' = handed
    BY <1>7 DEF ValidationFails, Goto, r
  <2>a. rec'[c] = r
    BY <1>0, <2>3, <2>4, KeepFacts
  <2>5. Progress(c)'
    BY <1>0, <2>1, <2>3, <2>4, <2>a DEF Progress, BeforeSend, WellKept, Drawn
  <2> QED  BY <1>a, <2>3, <2>4, <2>5, KeepStep
<1>8. CASE ValidationPasses(c)
  <2>1. Early(rec[c])
    BY <1>8, AtWork DEF ValidationPasses, Goto
  <2>2. Early(Converted(c, TRUE))
    BY <1>a, <2>1, ConvertedFacts DEF Converted
  <2> QED  BY <1>4, <1>8, <2>2 DEF ValidationPasses, Goto
<1>9. CASE ToZone(c)
  <2> DEFINE r == Converted(c, TRUE)
  <2>1. Early(rec[c]) /\ Progress(c)
    BY <1>9, AtWork DEF ToZone, Goto
  <2>2. Early(r)
    BY <1>a, <2>1, ConvertedFacts DEF Converted
  <2> HIDE DEF r
  <2>3. rec' = [rec EXCEPT ![c] = r] /\ rec'[c] = r /\ step[c] = "judged"
        /\ step' = [step EXCEPT ![c] = "zone"] /\ sent' = sent /\ handed' = handed
        /\ UNCHANGED <<held, kept, age>>
    BY <1>0, <1>9 DEF ToZone, Goto, RecordOnly, r
  <2>4. c \notin handed' /\ c \notin sent' /\ (c \in held => ~ HasBlocked(kept[c]))
    BY <1>0, <2>1, <2>3 DEF Progress, BeforeSend, KeptBefore
  <2>5. ~ Drawn(rec'[c]) /\ ~ HasBlocked(rec'[c]) /\ ~ rec'[c].crossed
    BY <2>2, <2>3 DEF Early
  <2>6. Progress(c)'
    BY <1>0, <2>3, <2>4, <2>5 DEF Progress, BeforeSend
  <2> QED  BY <1>a, <2>2, <2>3, <2>4, <2>6, EarlyKept, RecordStep
<1>10. CASE ZoneRaises(c)
  <2>1. Early(rec[c]) /\ Progress(c)
    BY <1>10, AtWork DEF ZoneRaises, Goto
  <2>2. /\ step[c] = "zone" /\ step' = [step EXCEPT ![c] = "failed"]
        /\ UNCHANGED <<rec, sent, held, kept, age, handed>>
    BY <1>10 DEF ZoneRaises, Goto
  <2>3. Progress(c)'
    BY <1>0, <2>1, <2>2 DEF Progress, BeforeSend, WellKept, Drawn
  <2> QED  BY <1>a, <2>2, <2>3, MoveStep
<1>11. CASE BlockedCall(c)
  <2> DEFINE r == Stopped(rec[c])
  <2>1. /\ rec[c] \in Recorders /\ WellKept(rec[c]) /\ Progress(c)
        /\ step[c] = "failed" /\ step' = [step EXCEPT ![c] = "blocked"]
        /\ sent' = sent /\ handed' = handed \cup {c}
    BY <1>11, AtWork DEF BlockedCall, Goto
  <2>2. ~ Drawn(rec[c]) /\ c \notin sent
    BY <2>1 DEF Progress, BeforeSend, WellKept, Drawn
  <2>3. r \in Recorders /\ WellKept(r) /\ ~ Drawn(r)
    <3>1. CASE HasBlocked(rec[c])
      BY <2>1, <2>2, <3>1 DEF Stopped
    <3>2. CASE ~ HasBlocked(rec[c])
      <4>1. Early(rec[c])
        BY <2>1, <3>2, AtWork
      <4> QED  BY <1>a, <3>2, <4>1, BlockedFacts DEF Stopped
    <3> QED  BY <3>1, <3>2
  <2> HIDE DEF r
  <2>4. KeepTrace(c, r) /\ rec'[c] = r
    <3>1. KeepTrace(c, r)
      BY <1>11 DEF BlockedCall, r
    <3> QED  BY <1>0, <2>3, <3>1, KeepFacts
  <2>5. Progress(c)'
    BY <1>0, <2>1, <2>3, <2>4 DEF Progress, BeforeSend, WellKept, Drawn
  <2> QED  BY <1>a, <2>1, <2>3, <2>4, <2>5, KeepStep
<1> QED  BY <1>1, <1>2, <1>3, <1>5, <1>6, <1>7, <1>8, <1>9, <1>10, <1>11

\* Every step of send() keeps it, and so do the store's own.
LEMMA SendKeeps ==
    ASSUME Inv, NEW c \in Calls,
           \/ SendExpired(c)
           \/ SendOut(c)
           \/ SendLimited(c)
           \/ BrokerFails(c)
           \/ \E unresolved \in BOOLEAN : BrokerAnswers(c, unresolved)
           \/ RehydrateFails(c)
           \/ Fallback(c)
           \/ OpenTrace(c)
    PROVE  Inv'
<1>0. /\ step \in [Calls -> Steps] /\ rec \in [Calls -> Recorders] /\ TypeOK
      /\ c \in held => KeptBefore(c)
      /\ Progress(c)
  BY AtWork DEF Inv, TypeOK
<1>a. /\ {"sendfailed", "out", "cut", "answered", "fellback"} \subseteq Steps
      /\ TRUE \in BOOLEAN /\ FALSE \in BOOLEAN
  BY DEF Steps
<1>1. CASE SendExpired(c)
  <2>1. /\ step[c] = "card" /\ step' = [step EXCEPT ![c] = "sendfailed"]
        /\ UNCHANGED <<rec, sent, held, kept, age, handed>>
    BY <1>1 DEF SendExpired, Goto
  <2>2. Progress(c)' /\ (c \in held => ~ HasBlocked(kept[c]))
    BY <1>0, <2>1 DEF Progress, BeforeSend, KeptBefore
  <2> QED  BY <1>a, <2>1, <2>2, MoveStep
<1>2. CASE SendOut(c)
  <2>1. /\ step[c] = "card" /\ step' = [step EXCEPT ![c] = "out"]
        /\ sent' = sent \cup {c} /\ UNCHANGED <<rec, held, kept, age, handed>>
    BY <1>2 DEF SendOut, Goto
  <2>2. Progress(c)' /\ (c \in held => ~ HasBlocked(kept[c]))
    BY <1>0, <2>1 DEF Progress, BeforeSend, KeptBefore
  <2> QED  BY <1>a, <2>1, <2>2, MoveStep
<1>3. ASSUME NEW failed \in BOOLEAN, step[c] \in {"card", "out"}, ~ failed => c \in sent,
             NEW to \in {"sendfailed", "cut"}, step' = [step EXCEPT ![c] = to],
             KeepTrace(c, AddDispatch(rec[c], failed)), sent' = sent, handed' = handed
      PROVE  Inv'
  <2> DEFINE r == AddDispatch(rec[c], failed)
  <2>1. After(r) /\ r.crossed = ~ failed
    BY <1>3, AtWork, DispatchFacts
  <2> HIDE DEF r
  <2>2. rec'[c] = r /\ KeepTrace(c, r)
    <3>1. KeepTrace(c, r)
      BY <1>3 DEF r
    <3> QED  BY <1>0, <2>1, <3>1, KeepFacts DEF After
  <2>3. Progress(c)'
    BY <1>0, <1>3, <2>1, <2>2 DEF Progress, BeforeSend, After, WellKept, Drawn
  <2> QED  BY <1>a, <1>3, <2>1, <2>2, <2>3, KeepStep DEF After
<1>4. CASE SendLimited(c)
  BY <1>3, <1>4, <1>a DEF SendLimited, EndSend, Goto
<1>5. CASE BrokerFails(c)
  BY <1>3, <1>5, <1>a DEF BrokerFails, EndSend, Goto
<1>6. CASE RehydrateFails(c)
  <2>1. step[c] = "out" /\ c \in sent
    BY <1>0, <1>6 DEF RehydrateFails, Goto, Progress
  <2> QED  BY <1>3, <1>6, <1>a, <2>1 DEF RehydrateFails, EndSend, Goto
<1>7. ASSUME NEW unresolved \in BOOLEAN, BrokerAnswers(c, unresolved) PROVE Inv'
  <2> DEFINE d == AddDispatch(rec[c], FALSE)
             r == AddRehydrate(d, unresolved)
  <2>1. step[c] = "out" /\ step' = [step EXCEPT ![c] = "answered"]
        /\ sent' = sent /\ handed' = handed \cup {c} /\ KeepTrace(c, r)
    BY <1>7 DEF BrokerAnswers, EndSend, Goto
  <2>2. After(d) /\ d.crossed
    BY <1>a, <2>1, AtWork, DispatchFacts
  <2> HIDE DEF d
  <2>3. After(r) /\ r.crossed
    BY <1>7, <2>2, RehydrateFacts
  <2> HIDE DEF r
  <2>4. rec'[c] = r
    BY <1>0, <2>1, <2>3, KeepFacts DEF After
  <2>5. Progress(c)'
    BY <1>0, <2>1, <2>3, <2>4 DEF Progress, BeforeSend, After, WellKept, Drawn
  <2> QED  BY <1>a, <2>1, <2>3, <2>5, KeepStep DEF After
<1>8. CASE Fallback(c)
  <2>1. /\ step[c] = "sendfailed" /\ step' = [step EXCEPT ![c] = "fellback"]
        /\ UNCHANGED <<rec, sent, held, kept, age>> /\ handed' = handed \cup {c}
    BY <1>8 DEF Fallback, Goto
  <2>2. Progress(c)' /\ c \in handed /\ (c \in held => ~ HasBlocked(kept[c]))
    BY <1>0, <2>1 DEF Progress, BeforeSend, KeptBefore
  <2> QED  BY <1>a, <2>1, <2>2, MoveStep
<1>9. CASE OpenTrace(c)
  <2>1. held' \subseteq held /\ UNCHANGED <<step, rec, sent, kept, age, handed>>
    BY <1>9 DEF OpenTrace, Swept
  <2> QED  BY <2>1 DEF Inv, TypeOK, Progress, KeptBefore, LatestKept
<1> QED  BY <1>1, <1>2, <1>4, <1>5, <1>6, <1>7, <1>8, <1>9

LEMMA TickKeeps ==
    ASSUME Inv, Tick
    PROVE  Inv'
<1>1. age' \in [Calls -> 0 .. TTL + 1]
  BY TTLAssumption DEF Inv, TypeOK, Tick
<1> QED  BY <1>1 DEF Inv, TypeOK, Tick, Progress, KeptBefore, LatestKept

LEMMA InitInv == Init => Inv
<1> SUFFICES ASSUME Init PROVE Inv
  OBVIOUS
<1>1. NewTrace \in Recorders
  BY DEF NewTrace, Recorders, Stages
<1>2. WellKept(NewTrace) /\ ~ HasBlocked(NewTrace) /\ ~ NewTrace.crossed /\ ~ Drawn(NewTrace)
  BY DEF NewTrace, WellKept, HasBlocked, Drawn, NotRecorded, StageIds
<1>3. TypeOK
  BY <1>1, TTLAssumption DEF Init, TypeOK, Steps
<1>4. \A c \in Calls : WellKept(rec[c]) /\ Progress(c)
  BY <1>2 DEF Init, Progress, BeforeSend
<1> QED  BY <1>3, <1>4 DEF Init, Inv, LatestKept

LEMMA NextInv == Inv /\ [Next]_vars => Inv'
<1> SUFFICES ASSUME Inv, [Next]_vars PROVE Inv'
  OBVIOUS
<1>1. CASE Tick
  BY <1>1, TickKeeps
<1>2. CASE UNCHANGED vars
  BY <1>2 DEF vars, Inv, TypeOK, Progress, KeptBefore, LatestKept
<1>3. CASE Next /\ ~ Tick
  BY <1>3, PrepareKeeps, SendKeeps DEF Next
<1> QED  BY <1>1, <1>2, <1>3

-----------------------------------------------------------------------------
(* Theorems *)

\* The strengthening: what a recorder can have in it at each point of a call,
\* and that the store has nothing the recorder did not have.
THEOREM TraceInvariance == Spec => []Inv
<1> QED  BY InitInv, NextInv, PTL DEF Spec

THEOREM TraceTypes == Spec => []TypeOK
<1>1. Inv => TypeOK
  BY DEF Inv
<1> QED  BY <1>1, TraceInvariance, PTL

\* A trace id in the asker's hands opens everything that was recorded.
THEOREM TracesAreCurrent == Spec => []LatestKept
<1>1. Inv => LatestKept
  BY DEF Inv
<1> QED  BY <1>1, TraceInvariance, PTL

\* No crossing goes untold in a trace, no call without a row is said to have crossed,
\* and a line drawn without a row is that of a failed stage (note_dispatch).
THEOREM CrossingsAreTrue == Spec => []CrossedIsTrue
<1>1. Inv => CrossedIsTrue
  <2> SUFFICES ASSUME Inv, NEW c \in held
               PROVE  /\ c \in sent /\ step[c] # "out" => Drawn(kept[c])
                      /\ step[c] = "answered" => kept[c].crossed
                      /\ kept[c].crossed => c \in sent
                      /\ Drawn(kept[c]) /\ c \notin sent =>
                           kept[c].stages["dispatch"].status = "fail" /\ ~ kept[c].crossed
    BY DEF CrossedIsTrue
  <2>1. KeptBefore(c) /\ Progress(c) /\ c \in Calls
    BY DEF Inv, TypeOK
  <2>2. c \in handed => kept[c] = rec[c]
    BY DEF Inv, LatestKept
  <2>3. c \in sent \/ step[c] = "answered" => c \in handed
    BY <2>1 DEF Progress, BeforeSend, WellKept, Drawn
  <2> QED  BY <2>1, <2>2, <2>3 DEF KeptBefore, Progress, WellKept
<1> QED  BY <1>1, TraceInvariance, PTL

\* A call that was stopped is said to be stopped once, and has no row and no line.
THEOREM StopsAreTrue == Spec => []StoppedIsTrue
<1>1. Inv => StoppedIsTrue
  <2> SUFFICES ASSUME Inv, NEW c \in held, HasBlocked(kept[c])
               PROVE  /\ c \notin sent
                      /\ ~ kept[c].crossed /\ ~ Drawn(kept[c])
                      /\ \E id \in StageIds : \A other \in StageIds :
                           kept[c].stages[other].status = "blocked" <=> other = id
    BY DEF StoppedIsTrue
  <2>1. KeptBefore(c) /\ Progress(c)
    BY DEF Inv, TypeOK
  <2> QED  BY <2>1 DEF KeptBefore, WellKept, Progress, BeforeSend
<1> QED  BY <1>1, TraceInvariance, PTL

\* What LeavesForCause says of one step.
Caused ==
    /\ \A c \in held \ held' :
         \/ age[c] > TTL
         \/ /\ Cardinality(Swept) >= MaxTraces
            /\ \A d \in Swept \cap held' : age[d] <= age[c]
            /\ \A d \in Swept \ held' : d = c
    /\ \A c \in Calls : kept'[c] # kept[c] => c \in held'

LEMMA KeepCauses ==
    ASSUME TypeOK, NEW c \in Calls, NEW r, KeepTrace(c, r)
    PROVE  Caused
<1>1. PICK out \in IF Cardinality(Swept) >= MaxTraces THEN {{d} : d \in Oldest} ELSE {{}} :
         /\ held' = (Swept \ out) \cup {c}
         /\ kept' = [kept EXCEPT ![c] = r]
  BY DEF KeepTrace, StorePut
<1>2. ASSUME NEW e \in held \ held'
      PROVE  \/ age[e] > TTL
             \/ /\ Cardinality(Swept) >= MaxTraces
                /\ \A d \in Swept \cap held' : age[d] <= age[e]
                /\ \A d \in Swept \ held' : d = e
  <2>1. CASE e \in Dead
    BY <2>1 DEF Dead
  <2>2. CASE e \in Swept
    <3>1. e \in out
      BY <1>1, <1>2, <2>2
    <3>2. Cardinality(Swept) >= MaxTraces /\ e \in Oldest
      BY <3>1
    <3>4. out = {e} /\ \A d \in Swept \ held' : d \in out
      BY <1>1, <3>1
    <3>3. \A d \in Swept : age[d] <= age[e]
      BY <3>2, TTLAssumption DEF Oldest, TypeOK, Swept
    <3> QED  BY <1>1, <3>2, <3>3, <3>4
  <2> QED  BY <2>1, <2>2 DEF Swept
<1> QED  BY <1>1, <1>2 DEF Caused, TypeOK

LEMMA OtherCauses ==
    ASSUME held' \in {held, Swept}, kept' = kept
    PROVE  Caused
  BY DEF Caused, Swept, Dead

LEMMA NextCauses ==
    ASSUME TypeOK, Next
    PROVE  Caused
<1>1. CASE Tick
  BY <1>1, OtherCauses DEF Tick
<1>2. ASSUME NEW c \in Calls,
             \/ NoEvidence(c) \/ Passthrough(c) \/ ExtractionFails(c)
             \/ ValidationFails(c) \/ ValidationPasses(c) \/ BlockedCall(c)
             \/ SendLimited(c) \/ BrokerFails(c) \/ RehydrateFails(c)
             \/ \E unresolved \in BOOLEAN : BrokerAnswers(c, unresolved)
      PROVE  Caused
  <2>1. \E r : KeepTrace(c, r)
    BY <1>2, Zenon DEF NoEvidence, Passthrough, ExtractionFails, ValidationFails,
       ValidationPasses, BlockedCall, SendLimited, BrokerFails, RehydrateFails,
       BrokerAnswers, EndSend
  <2> QED  BY <2>1, KeepCauses
<1>3. ASSUME NEW c \in Calls,
             \/ \E j \in Judgings : Judge(c, j)
             \/ PrepareFails(c) \/ ToZone(c) \/ ZoneRaises(c) \/ SendExpired(c)
             \/ SendOut(c) \/ Fallback(c) \/ OpenTrace(c)
      PROVE  Caused
  <2>1. held' \in {held, Swept} /\ kept' = kept
    BY <1>3 DEF Judge, PrepareFails, ToZone, ZoneRaises, SendExpired, SendOut, Fallback,
       OpenTrace, RecordOnly
  <2> QED  BY <2>1, OtherCauses
<1> QED  BY <1>1, <1>2, <1>3 DEF Next

\* A trace leaves the store for its age or as its oldest (TraceStore.put), in
\* every step of every behaviour.
THEOREM LeavingIsJustified == Spec => LeavesForCause
<1>1. TypeOK /\ [Next]_vars => [Caused]_vars
  BY NextCauses
<1>2. Caused <=> /\ \A c \in held \ held' :
                      \/ age[c] > TTL
                      \/ /\ Cardinality(Swept) >= MaxTraces
                         /\ \A d \in Swept \cap held' : age[d] <= age[c]
                         /\ \A d \in Swept \ held' : d = c
                 /\ \A c \in Calls : kept'[c] # kept[c] => c \in held'
  BY DEF Caused
<1> QED  BY <1>1, <1>2, TraceTypes, PTL DEF Spec, LeavesForCause

=============================================================================
