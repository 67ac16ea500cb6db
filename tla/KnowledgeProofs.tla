--------------------------- MODULE KnowledgeProofs ---------------------------
(***************************************************************************)
(* Theorems about Knowledge, for any files and inbox items, however turns    *)
(* are cut short.                                                           *)
(***************************************************************************)
EXTENDS Knowledge, TLAPS

\* What a list of approved answers may hold: answers of approved items, with the
\* tier of the item.
Genuine(answered, statusOf, tierOf) ==
    \A k \in DOMAIN answered : /\ statusOf[answered[k].item] \in Approved
                               /\ answered[k].tier = tierOf[answered[k].item]

\* Every copy of verified.json: on disk, cached, loaded by a question, used by one.
GenuineCopies ==
    /\ Genuine(verified, status, tier)
    /\ Genuine(cache.verified, status, tier)
    /\ Genuine(asked.verified, status, tier)
    /\ Genuine(evidence, status, tier)

\* An item on its way to verified.json is approved and not there yet.
OnTheWay ==
    turn.do \in {"append", "appending"} =>
        /\ status[turn.on] \in Approved
        /\ \A k \in DOMAIN verified : verified[k].item # turn.on

OneEach == \A k, l \in DOMAIN verified : verified[k].item = verified[l].item => k = l

\* A file that is torn for good holds nothing; a dangling path or a missing answer is
\* the business of the running turn, or of one that was cut short.
Whole ==
    /\ session = "torn" => open = {} \/ turn.do \in {"attaching", "detaching"}
    /\ session = "absent" => open = {}
    /\ turn.do \in {"attach", "attaching"} => turn.on \in files
    /\ \A n \in open \ files :
         n \in owed \/ (turn.do \in {"detach", "detaching"} /\ turn.on = n)
    /\ \A i \in Items : status[i] \in Approved /\ text[i] # "empty" =>
         \/ \E k \in DOMAIN verified : verified[k].item = i
         \/ turn.do \in {"append", "appending"} /\ turn.on = i
         \/ i \in owed
         \/ answers = "torn" /\ turn.do # "appending"

Inv == TypeOK /\ CacheCoherent /\ GenuineCopies /\ OnTheWay /\ OneEach

\* An item that has been approved keeps its status and its tier.
Settled ==
    \A i \in Items : status[i] \in Approved => status'[i] = status[i] /\ tier'[i] = tier[i]

\* Where each copy comes from.
Handed ==
    /\ \/ verified' \in {verified, << >>}
       \/ turn.do = "appending" /\ verified' = Append(verified, ToVerifiedQA(turn.on))
    /\ cache'.verified \in {cache.verified, verified, << >>}
    /\ asked'.verified \in {asked.verified, cache.verified, verified, << >>}
    /\ evidence' \in {evidence, VerifiedChunks(asked.verified)}

-----------------------------------------------------------------------------
(* Types *)

LEMMA TurnParts ==
    ASSUME turn \in Turns
    PROVE  /\ turn.do \in {"attach", "detach", "attaching", "detaching"} => turn.on \in Names
           /\ turn.do \in {"append", "appending"} => turn.on \in Items
           /\ turn = Idle => turn.do = "idle"
BY DEF Turns, Idle

LEMMA TodoTurns ==
    /\ \A n \in Names, do \in {"attach", "attaching", "detach", "detaching"} : Todo(do, n) \in Turns
    /\ \A i \in Items, do \in {"append", "appending"} : Todo(do, i) \in Turns
    /\ Idle \in Turns
BY DEF Turns, Todo

LEMMA NoSessionType == NoSession \in Sessions
BY DEF NoSession, Sessions

\* verified_chunks returns answers of the list it is given.
LEMMA Chunks ==
    ASSUME NEW S, NEW s \in Seq(S)
    PROVE  /\ VerifiedChunks(s) \in Seq(S)
           /\ \A k \in DOMAIN VerifiedChunks(s) : \E l \in DOMAIN s : VerifiedChunks(s)[k] = s[l]
<1> DEFINE n == IF Len(s) < VerifiedLimit THEN Len(s) ELSE VerifiedLimit
<1>1. n \in 0 .. Len(s)
  BY LimitAssumption
<1>2. Reverse(s) \in Seq(S) /\ Len(Reverse(s)) = Len(s)
      /\ \A k \in 1 .. Len(s) : Reverse(s)[k] = s[Len(s) - k + 1]
  BY DEF Reverse
<1>3. VerifiedChunks(s) = SubSeq(Reverse(s), 1, n)
  BY DEF VerifiedChunks
<1> HIDE DEF n
<1>4. /\ SubSeq(Reverse(s), 1, n) \in Seq(S) /\ Len(SubSeq(Reverse(s), 1, n)) = n
      /\ \A k \in 1 .. n : SubSeq(Reverse(s), 1, n)[k] = Reverse(s)[k]
  BY <1>1, <1>2
<1>5. \A k \in 1 .. n : SubSeq(Reverse(s), 1, n)[k] = s[Len(s) - k + 1]
                        /\ Len(s) - k + 1 \in DOMAIN s
  BY <1>1, <1>2, <1>4
<1>6. DOMAIN SubSeq(Reverse(s), 1, n) = 1 .. n
  BY <1>4
<1>7. ASSUME NEW k \in 1 .. n PROVE \E l \in DOMAIN s : SubSeq(Reverse(s), 1, n)[k] = s[l]
  BY <1>5
<1> QED
  BY <1>3, <1>4, <1>6, <1>7

LEMMA EmptySeq == ASSUME NEW S PROVE << >> \in Seq(S)
OBVIOUS

LEMMA TypeInit == Init => TypeOK
<1> SUFFICES ASSUME Init PROVE TypeOK
  OBVIOUS
<1>1. files \subseteq Names /\ open \subseteq Names /\ turn \in Turns
  BY DEF Init, Turns
<1>2. verified \in Seq(VerifiedQA) /\ evidence \in Seq(VerifiedQA)
  BY EmptySeq DEF Init
<1>3. status \in [Items -> Statuses] /\ tier \in [Items -> Tiers] /\ text \in [Items -> Texts]
  BY DEF Init, Statuses, Tiers, Texts
<1> QED
  BY <1>1, <1>2, <1>3, NoSessionType DEF Init, TypeOK, FileStates

LEMMA LoadedType == TypeOK => LoadedSession \in Sessions
BY DEF TypeOK, LoadedSession, Sessions

LEMMA LosingType ==
    TypeOK /\ LoseTorn => open' \subseteq Names /\ verified' \in Seq(VerifiedQA)
BY EmptySeq DEF TypeOK, LoseTorn

LEMMA OwedType == TypeOK => OwedBy(turn) \subseteq Names \cup Items
BY TurnParts DEF TypeOK, OwedBy

LEMMA TypeStep == TypeOK /\ [Next]_vars => TypeOK'
<1> SUFFICES ASSUME TypeOK, [Next]_vars PROVE TypeOK'
  OBVIOUS
<1> USE TurnParts, TodoTurns, NoSessionType DEF TypeOK, FileStates
<1>1. ASSUME NEW n \in Uploads, NEW attach \in BOOLEAN, Upload(n, attach) PROVE TypeOK'
  BY <1>1 DEF Upload, cacheVars, inboxVars, askVars, Names
<1>2. ASSUME NEW n \in KbFiles, KbSave(n) PROVE TypeOK'
  BY <1>2 DEF KbSave, cacheVars, inboxVars, askVars, Names
<1>3. ASSUME NEW n \in Uploads, DeleteUpload(n) PROVE TypeOK'
  BY <1>3 DEF DeleteUpload, cacheVars, inboxVars, askVars, Names
<1>4. CASE BeginRewrite
  <2>1. turn' \in Turns
    BY <1>4 DEF BeginRewrite
  <2> QED
    BY <1>4, <2>1 DEF BeginRewrite, CacheOutdated, cacheVars, inboxVars, askVars
<1>5. CASE EndRewrite
  BY <1>5 DEF EndRewrite, CachePopped, inboxVars, askVars
<1>6. ASSUME NEW paths \in SUBSET Names, EditSession(paths) PROVE TypeOK'
  BY <1>6 DEF EditSession, CacheOutdated, inboxVars, askVars
<1>7. ASSUME NEW i \in Items, NEW t \in Tiers, NEW x \in Texts, Escalate(i, t, x) PROVE TypeOK'
  BY <1>7 DEF Escalate, diskVars, cacheVars, askVars, Statuses
<1>8. ASSUME NEW i \in Items, NEW action \in Actions, NEW x \in Texts, Resolve(i, action, x)
      PROVE  TypeOK'
  BY <1>8 DEF Resolve, ACTION_STATUS, diskVars, cacheVars, askVars, Statuses
<1>9. CASE BeginAppend
  BY <1>9 DEF BeginAppend, cacheVars, inboxVars, askVars
<1>10. CASE EndAppend
  <2>1. ToVerifiedQA(turn.on) \in VerifiedQA
    BY <1>10 DEF EndAppend, ToVerifiedQA, VerifiedQA
  <2>2. verified' \in Seq(VerifiedQA)
    BY <1>10, <2>1 DEF EndAppend
  <2> QED
    BY <1>10, <2>2 DEF EndAppend, CachePopped, inboxVars, askVars
<1>11. CASE Load
  BY <1>11, LoadedType DEF Load, diskVars, inboxVars, askVars
<1>12. CASE StartAsk
  BY <1>12, LoadedType DEF StartAsk, diskVars, inboxVars
<1>13. CASE ReadEvidence
  <2>1. asked.verified \in Seq(VerifiedQA)
    BY DEF Sessions
  <2>2. evidence' \in Seq(VerifiedQA)
    BY <1>13, <2>1, Chunks DEF ReadEvidence
  <2> QED
    BY <1>13, <2>2 DEF ReadEvidence, diskVars, cacheVars, inboxVars
<1>14. CASE FailIO
  BY <1>14, LosingType, OwedType DEF FailIO, LoseTorn, cacheVars, inboxVars, askVars
<1>15. CASE Crash
  BY <1>15, LosingType, OwedType DEF Crash, LoseTorn, CacheOutdated, inboxVars
<1>16. CASE UNCHANGED vars
  BY <1>16 DEF vars, diskVars, cacheVars, inboxVars, askVars
<1> QED
  BY <1>1, <1>2, <1>3, <1>4, <1>5, <1>6, <1>7, <1>8, <1>9, <1>10, <1>11, <1>12, <1>13, <1>14,
     <1>15, <1>16 DEF Next

\* Every variable keeps its type.
THEOREM KnowledgeTypes == Spec => []TypeOK
BY TypeInit, TypeStep, PTL DEF Spec

-----------------------------------------------------------------------------
(* The cache *)

LEMMA CoherentStep == TypeOK /\ CacheCoherent /\ [Next]_vars => CacheCoherent'
<1> SUFFICES ASSUME TypeOK, CacheCoherent, [Next]_vars PROVE CacheCoherent'
  OBVIOUS
<1> USE DEF CacheCoherent
<1>1. CASE \/ \E n \in Uploads, attach \in BOOLEAN : Upload(n, attach)
           \/ \E n \in KbFiles : KbSave(n)
           \/ \E n \in Uploads : DeleteUpload(n)
  BY <1>1 DEF Upload, KbSave, DeleteUpload, cacheVars
<1>2. CASE BeginRewrite \/ EndRewrite \/ \E paths \in SUBSET Names : EditSession(paths)
  BY <1>2 DEF BeginRewrite, EndRewrite, EditSession, CacheOutdated, CachePopped, cacheVars
<1>3. CASE \/ \E i \in Items, t \in Tiers, x \in Texts : Escalate(i, t, x)
           \/ \E i \in Items, action \in Actions, x \in Texts \ {"empty"} : Resolve(i, action, x)
  BY <1>3 DEF Escalate, Resolve, diskVars, cacheVars
<1>4. CASE BeginAppend \/ EndAppend
  BY <1>4 DEF BeginAppend, EndAppend, CachePopped, cacheVars
<1>5. CASE Load \/ StartAsk
  <2>1. /\ cache' = LoadedSession /\ Loadable
        /\ UNCHANGED <<session, open, answers, verified>>
    BY <1>5 DEF Load, StartAsk, diskVars
  <2> QED
    BY <2>1 DEF LoadedSession, Loadable
<1>6. CASE ReadEvidence \/ UNCHANGED vars
  BY <1>6 DEF ReadEvidence, vars, diskVars, cacheVars
<1>7. CASE FailIO
  BY <1>7 DEF FailIO, LoseTorn, cacheVars
<1>8. CASE Crash
  BY <1>8 DEF Crash, CacheOutdated
<1> QED
  BY <1>1, <1>2, <1>3, <1>4, <1>5, <1>6, <1>7, <1>8 DEF Next

LEMMA AskLoads ==
    ASSUME TypeOK, CacheCoherent, [Next]_vars, ~ asking, asking'
    PROVE  asked'.open = open /\ (answers # "torn" => asked'.verified = verified)
<1>1. StartAsk
  BY DEF TypeOK, Next, vars, askVars, Upload, KbSave, DeleteUpload, BeginRewrite, EndRewrite,
         EditSession, Escalate, Resolve, BeginAppend, EndAppend, Load, ReadEvidence, FailIO, Crash
<1>2. asked' = LoadedSession /\ Loadable
  BY <1>1 DEF StartAsk
<1> QED
  BY <1>2 DEF LoadedSession, Loadable, CacheCoherent

-----------------------------------------------------------------------------
(* The feedback from the inbox *)

LEMMA SettledStays == TypeOK /\ [Next]_vars => Settled
<1> SUFFICES ASSUME TypeOK, [Next]_vars PROVE Settled
  OBVIOUS
<1> USE DEF Settled, Approved
<1>1. ASSUME NEW i \in Items, NEW t \in Tiers, NEW x \in Texts, Escalate(i, t, x) PROVE Settled
  BY <1>1 DEF Escalate, TypeOK
<1>2. ASSUME NEW i \in Items, NEW action \in Actions, NEW x \in Texts, Resolve(i, action, x)
      PROVE  Settled
  BY <1>2 DEF Resolve, TypeOK
<1>3. CASE UNCHANGED <<status, tier>>
  BY <1>3
<1> QED
  BY <1>1, <1>2, <1>3
  DEF Next, vars, inboxVars, Upload, KbSave, DeleteUpload, BeginRewrite, EndRewrite,
      EditSession, BeginAppend, EndAppend, Load, StartAsk, ReadEvidence, FailIO, Crash

LEMMA HandedOn == TypeOK /\ [Next]_vars => Handed
<1> SUFFICES ASSUME TypeOK, [Next]_vars PROVE Handed
  OBVIOUS
<1> USE DEF Handed
<1>1. CASE Load \/ StartAsk
  <2>1. LoadedSession.verified \in {cache.verified, verified}
    BY DEF LoadedSession
  <2> QED
    BY <1>1, <2>1 DEF Load, StartAsk, diskVars, askVars
<1>2. CASE EndAppend
  BY <1>2 DEF EndAppend, CachePopped, NoSession, askVars
<1>3. CASE ReadEvidence
  BY <1>3 DEF ReadEvidence, NoSession, diskVars, cacheVars
<1>4. CASE FailIO \/ Crash
  BY <1>4 DEF FailIO, Crash, LoseTorn, CacheOutdated, NoSession, cacheVars, askVars
<1>5. CASE BeginRewrite \/ EndRewrite \/ \E paths \in SUBSET Names : EditSession(paths)
  BY <1>5 DEF BeginRewrite, EndRewrite, EditSession, CacheOutdated, CachePopped, NoSession,
              cacheVars, askVars
<1>6. CASE UNCHANGED <<verified, cacheVars, askVars>>
  BY <1>6 DEF cacheVars, askVars
<1> QED
  BY <1>1, <1>2, <1>3, <1>4, <1>5, <1>6
  DEF Next, vars, diskVars, Upload, KbSave, DeleteUpload, Escalate, Resolve, BeginAppend

LEMMA StillGenuine ==
    ASSUME Settled, NEW s \in Seq(VerifiedQA), Genuine(s, status, tier)
    PROVE  Genuine(s, status', tier')
<1> SUFFICES ASSUME NEW k \in DOMAIN s
             PROVE  status'[s[k].item] \in Approved /\ s[k].tier = tier'[s[k].item]
  BY DEF Genuine
<1>1. s[k] \in VerifiedQA
  OBVIOUS
<1>2. s[k].item \in Items
  BY <1>1 DEF VerifiedQA
<1>3. status[s[k].item] \in Approved /\ s[k].tier = tier[s[k].item]
  BY DEF Genuine
<1> QED
  BY <1>2, <1>3 DEF Settled

LEMMA GenuineStep == TypeOK /\ GenuineCopies /\ OnTheWay /\ [Next]_vars => GenuineCopies'
<1> SUFFICES ASSUME TypeOK, GenuineCopies, OnTheWay, [Next]_vars PROVE GenuineCopies'
  OBVIOUS
<1> DEFINE G(s) == Genuine(s, status', tier')
<1>1. Settled /\ Handed
  BY SettledStays, HandedOn
<1>2. /\ verified \in Seq(VerifiedQA) /\ cache.verified \in Seq(VerifiedQA)
      /\ asked.verified \in Seq(VerifiedQA) /\ evidence \in Seq(VerifiedQA)
  BY DEF TypeOK, Sessions
<1>3. G(verified) /\ G(cache.verified) /\ G(asked.verified) /\ G(evidence)
  BY <1>1, <1>2, StillGenuine DEF GenuineCopies
<1>4. G(<< >>)
  BY DEF Genuine
<1>5. G(VerifiedChunks(asked.verified))
  BY <1>2, <1>3, Chunks DEF Genuine
<1>6. ASSUME turn.do = "appending" PROVE G(Append(verified, ToVerifiedQA(turn.on)))
  <2>1. turn.on \in Items /\ status[turn.on] \in Approved
    BY <1>6, TurnParts DEF TypeOK, OnTheWay
  <2>2. status'[turn.on] \in Approved /\ tier'[turn.on] = tier[turn.on]
    BY <1>1, <2>1 DEF Settled
  <2>3. ToVerifiedQA(turn.on).item = turn.on /\ ToVerifiedQA(turn.on).tier = tier[turn.on]
    BY DEF ToVerifiedQA
  <2> QED
    BY <1>2, <1>3, <2>2, <2>3 DEF Genuine
<1>7. G(verified') /\ G(cache'.verified) /\ G(asked'.verified) /\ G(evidence')
  BY <1>1, <1>3, <1>4, <1>5, <1>6 DEF Handed
<1> QED
  BY <1>7 DEF GenuineCopies

LEMMA WayStep == TypeOK /\ GenuineCopies /\ OnTheWay /\ [Next]_vars => OnTheWay'
<1> SUFFICES ASSUME TypeOK, GenuineCopies, OnTheWay, [Next]_vars,
                    turn'.do \in {"append", "appending"}
             PROVE  /\ status'[turn'.on] \in Approved
                    /\ \A k \in DOMAIN verified' : verified'[k].item # turn'.on
  BY DEF OnTheWay
<1> USE DEF Idle, Todo
<1>1. ASSUME NEW i \in Items, NEW action \in Actions, NEW x \in Texts, Resolve(i, action, x)
      PROVE  /\ status'[turn'.on] \in Approved
             /\ \A k \in DOMAIN verified' : verified'[k].item # turn'.on
  <2>1. Feeds(i) /\ turn'.on = i /\ verified' = verified /\ status[i] = "open"
    BY <1>1 DEF Resolve, diskVars
  <2>2. status'[i] \in Approved
    BY <2>1 DEF Feeds
  <2>3. \A k \in DOMAIN verified : verified[k].item # i
    BY <2>1 DEF GenuineCopies, Genuine, Approved
  <2> QED
    BY <2>1, <2>2, <2>3
<1>2. CASE BeginAppend
  BY <1>2 DEF BeginAppend, OnTheWay, inboxVars
<1>3. CASE UNCHANGED vars
  BY <1>3 DEF OnTheWay, vars, diskVars, inboxVars
<1>4. CASE Load \/ StartAsk \/ ReadEvidence
  BY <1>4 DEF Load, StartAsk, ReadEvidence
<1>5. CASE \/ \E paths \in SUBSET Names : EditSession(paths)
           \/ \E i \in Items, t \in Tiers, x \in Texts : Escalate(i, t, x)
  BY <1>5 DEF EditSession, Escalate
<1>6. CASE \/ \E n \in Uploads, attach \in BOOLEAN : Upload(n, attach)
           \/ \E n \in KbFiles : KbSave(n)
           \/ \E n \in Uploads : DeleteUpload(n)
  BY <1>6 DEF Upload, KbSave, DeleteUpload
<1>7. CASE BeginRewrite \/ EndRewrite \/ EndAppend \/ FailIO \/ Crash
  BY <1>7 DEF BeginRewrite, EndRewrite, EndAppend, FailIO, Crash
<1> QED
  BY <1>1, <1>2, <1>3, <1>4, <1>5, <1>6, <1>7 DEF Next

LEMMA OneEachStep == TypeOK /\ OneEach /\ OnTheWay /\ [Next]_vars => OneEach'
<1> SUFFICES ASSUME TypeOK, OneEach, OnTheWay, [Next]_vars PROVE OneEach'
  OBVIOUS
<1>1. CASE verified' \in {verified, << >>}
  BY <1>1 DEF OneEach
<1>2. ASSUME turn.do = "appending", verified' = Append(verified, ToVerifiedQA(turn.on))
      PROVE  OneEach'
  <2>1. ToVerifiedQA(turn.on).item = turn.on
    BY DEF ToVerifiedQA
  <2>2. \A k \in DOMAIN verified : verified[k].item # turn.on
    BY <1>2 DEF OnTheWay
  <2>3. /\ DOMAIN verified' = DOMAIN verified \cup {Len(verified) + 1}
        /\ \A k \in DOMAIN verified : verified'[k] = verified[k] /\ k # Len(verified) + 1
        /\ verified'[Len(verified) + 1] = ToVerifiedQA(turn.on)
    BY <1>2 DEF TypeOK
  <2> QED
    BY <2>1, <2>2, <2>3 DEF OneEach
<1> QED
  BY <1>1, <1>2, HandedOn DEF Handed

-----------------------------------------------------------------------------
(* The invariant and what follows from it *)

LEMMA InvInit == Init => Inv
<1> SUFFICES ASSUME Init PROVE Inv
  OBVIOUS
<1>1. CacheCoherent /\ OnTheWay /\ OneEach
  BY DEF Init, CacheCoherent, OnTheWay, OneEach, Idle
<1>2. GenuineCopies
  BY DEF Init, GenuineCopies, Genuine, NoSession
<1> QED
  BY <1>1, <1>2, TypeInit DEF Inv

LEMMA InvStep == Inv /\ [Next]_vars => Inv'
BY TypeStep, CoherentStep, GenuineStep, WayStep, OneEachStep DEF Inv

LEMMA InvAlways == Spec => []Inv
BY InvInit, InvStep, PTL DEF Spec

\* Every answer that can be evidence was approved, once, with the tier it had.
THEOREM FeedbackIsFaithful == Spec => []FeedbackFaithful
<1>1. Inv => FeedbackFaithful
  BY DEF Inv, OneEach, GenuineCopies, Genuine, FeedbackFaithful, Range
<1> QED
  BY <1>1, InvAlways, PTL

\* However turns are cut short, the cache never serves a session that is out of date.
THEOREM LoadsAreCurrent == Spec => LoadsWhatIsStored
<1>1. Inv /\ [Next]_vars =>
        [~ asking /\ asking' =>
           /\ asked'.open = open
           /\ answers # "torn" => asked'.verified = verified]_vars
  BY AskLoads DEF Inv
<1> QED
  BY <1>1, InvAlways, PTL DEF Spec, LoadsWhatIsStored

-----------------------------------------------------------------------------
(* What a fault costs *)

LEMMA WholeInit == Init => Whole
BY DEF Init, Whole, Idle, Approved

LEMMA WholeStep == TypeOK /\ Whole /\ [Next]_vars => Whole'
<1> SUFFICES ASSUME TypeOK, Whole, [Next]_vars PROVE Whole'
  OBVIOUS
<1> USE DEF Whole, Idle, Todo
<1>1. ASSUME NEW n \in Uploads, NEW attach \in BOOLEAN, Upload(n, attach) PROVE Whole'
  BY <1>1 DEF Upload, inboxVars
<1>2. ASSUME NEW n \in KbFiles, KbSave(n) PROVE Whole'
  BY <1>2 DEF KbSave, inboxVars
<1>3. ASSUME NEW n \in Uploads, DeleteUpload(n) PROVE Whole'
  BY <1>3 DEF DeleteUpload, inboxVars
<1>4. CASE BeginRewrite
  BY <1>4 DEF BeginRewrite, inboxVars, TypeOK, FileStates
<1>5. CASE EndRewrite
  BY <1>5 DEF EndRewrite, inboxVars
<1>6. ASSUME NEW paths \in SUBSET Names, EditSession(paths) PROVE Whole'
  BY <1>6 DEF EditSession, inboxVars
<1>7. ASSUME NEW i \in Items, NEW t \in Tiers, NEW x \in Texts, Escalate(i, t, x) PROVE Whole'
  BY <1>7 DEF Escalate, diskVars, TypeOK, Approved
<1>8. ASSUME NEW i \in Items, NEW action \in Actions, NEW x \in Texts, Resolve(i, action, x)
      PROVE  Whole'
  BY <1>8 DEF Resolve, Feeds, diskVars, TypeOK
<1>9. CASE BeginAppend
  BY <1>9 DEF BeginAppend, inboxVars
<1>10. CASE EndAppend
  <2>1. \A i \in Items : (\E k \in DOMAIN verified : verified[k].item = i) \/ turn.on = i
                           => \E k \in DOMAIN verified' : verified'[k].item = i
    <3>1. /\ DOMAIN verified' = DOMAIN verified \cup {Len(verified) + 1}
          /\ \A k \in DOMAIN verified : verified'[k] = verified[k]
          /\ verified'[Len(verified) + 1].item = turn.on
      BY <1>10 DEF EndAppend, ToVerifiedQA, TypeOK
    <3> QED
      BY <3>1
  <2> QED
    BY <1>10, <2>1 DEF EndAppend, inboxVars
<1>11. CASE Load \/ StartAsk \/ ReadEvidence
  BY <1>11 DEF Load, StartAsk, ReadEvidence, diskVars, inboxVars
<1>12. CASE FailIO \/ Crash
  <2>1. /\ turn' = Idle /\ owed' = owed \cup OwedBy(turn)
        /\ LoseTorn /\ UNCHANGED <<status, text>>
    BY <1>12 DEF FailIO, Crash, inboxVars
  <2>2. \A n \in open' \ files' : n \in owed'
    BY <2>1 DEF LoseTorn, OwedBy
  <2>3. (session' = "torn" => open' = {}) /\ (session' = "absent" => open' = {})
    BY <2>1 DEF LoseTorn
  <2>4. ASSUME NEW i \in Items, status'[i] \in Approved, text'[i] # "empty", answers' # "torn"
        PROVE  (\E k \in DOMAIN verified' : verified'[k].item = i) \/ i \in owed'
    BY <2>1, <2>4 DEF LoseTorn, OwedBy
  <2> QED
    BY <2>1, <2>2, <2>3, <2>4
<1>13. CASE UNCHANGED vars
  BY <1>13 DEF vars, diskVars, inboxVars
<1> QED
  BY <1>1, <1>2, <1>3, <1>4, <1>5, <1>6, <1>7, <1>8, <1>9, <1>10, <1>11, <1>12, <1>13 DEF Next

LEMMA WholeAlways == Spec => [](TypeOK /\ Whole)
BY TypeInit, TypeStep, WholeInit, WholeStep, PTL DEF Spec

\* However turns are cut short, an approval that is missing from verified.json is the
\* one whose own turn was cut, or the file is torn.
THEOREM FeedbackIsKept == Spec => []FeedbackKept
<1>1. Whole => FeedbackKept
  BY DEF Whole, FeedbackKept, Idle, Range
<1> QED
  BY <1>1, WholeAlways, PTL

\* However turns are cut short, a deleted file that is still a candidate is one whose
\* own deletion was cut.
THEOREM NothingDangles == Spec => []NoDangling
<1>1. Whole => NoDangling
  BY DEF Whole, NoDangling, Idle
<1> QED
  BY <1>1, WholeAlways, PTL
=============================================================================
