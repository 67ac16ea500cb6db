----------------------------- MODULE ConsultProofs -----------------------------
(***************************************************************************)
(* Theorems about Consult, for any requests and Agents on any number of     *)
(* nodes, any daily limit and any bounds on whom to ask.                    *)
(***************************************************************************)
EXTENDS Consult, FiniteSetTheorems, TLAPS

-----------------------------------------------------------------------------
(* The inductive invariant.  It is about the requests of consult: hub_ask   *)
(* has its own stages and never leaves them.                                *)

Private(r) == stage[r] \notin HubStages

\* Whoever else is asked was chosen, is asked once, and has one item at most.
OtherOK(r, a) ==
    /\ ask[<<r, a>>] \in {"idle", "preparing", "out", "answered", "failed"}
    /\ ask[<<r, a>>] = "idle" <=> a \notin chosen[r]
    /\ crossed[<<r, a>>] \in {0, 1}
    /\ crossed[<<r, a>>] = 1 => a \in chosen[r] /\ ask[<<r, a>>] # "preparing"
    /\ ask[<<r, a>>] \in {"idle", "preparing", "out"} => items[<<r, a>>] = 0
    /\ ask[<<r, a>>] = "answered" /\ heard[<<r, a>>] \in AgentGrades =>
         items[<<r, a>>] = IF escalated[<<r, a>>] THEN 1 ELSE 0

\* The asker's own Agent may be asked before anybody is chosen, and again.
MeOK(r) ==
    /\ ask[<<r, Me>>] \in {"idle", "preparing", "out", "answered", "failed"}
    /\ Me \in chosen[r] => ask[<<r, Me>>] # "idle"
    /\ crossed[<<r, Me>>] \in {0, 1, 2}
    /\ crossed[<<r, Me>>] = 2 => Me \in chosen[r] /\ ask[<<r, Me>>] # "preparing"
    /\ crossed[<<r, Me>>] = 1 /\ ask[<<r, Me>>] = "preparing" => Me \in chosen[r]
    /\ stage[r] = "new" => crossed[<<r, Me>>] = 0

Resting(r) == \A a \in Agents : ask[<<r, a>>] \notin {"preparing", "out"}

\* What a result says, of calls that do not change any more.
DoneOK(r) ==
    /\ \A a \in Others : ask[<<r, a>>] = "answered" =>
                           reported[<<r, a>>] = IF escalated[<<r, a>>] THEN 1 ELSE 0
    /\ \A a \in chosen[r] : heard[<<r, a>>] \in {"sure", "unsure", "low"}
                               /\ ask[<<r, a>>] = "answered" => a \in consulted[r]
    /\ digest[r] = "nothing" => \A a \in chosen[r] : /\ ask[<<r, a>>] = "answered"
                                                     /\ heard[<<r, a>>] \in Unfit
    /\ digest[r] = "nobody" => \A a \in Others : crossed[<<r, a>>] = 0

RequestOK(r) ==
    /\ \A a \in Others : OtherOK(r, a)
    /\ MeOK(r)
    /\ stage[r] \in {"new", "self", "screening"} => chosen[r] = {}
    /\ stage[r] \in {"new", "screening", "done"} => Resting(r)
    /\ Cardinality(chosen[r]) <= MaxTargets
    /\ stage[r] # "done" => digest[r] = "none" /\ \A a \in Others : reported[<<r, a>>] = 0
    /\ stage[r] = "done" => DoneOK(r)

Inv ==
    /\ TypeOK
    /\ \A r \in Requests : Private(r) => RequestOK(r)
    /\ \A r \in Requests : ~ Private(r) => digest[r] \notin {"nothing", "nobody"}
    /\ ContextsReturned

LEMMA InitInv == Init => Inv
<1> SUFFICES ASSUME Init PROVE Inv
  OBVIOUS
<1>1. TypeOK
  BY DEF Init, TypeOK, AskStates
<1>2. \A r \in Requests : RequestOK(r) /\ Private(r)
  <2> TAKE r \in Requests
  <2>1. \A a \in Agents : <<r, a>> \in Calls
    BY DEF Calls
  <2>2. \A a \in Agents : ask[<<r, a>>] = "idle" /\ crossed[<<r, a>>] = 0 /\ items[<<r, a>>] = 0
                           /\ reported[<<r, a>>] = 0
    BY <2>1 DEF Init
  <2>3. stage[r] = "new" /\ chosen[r] = {} /\ digest[r] = "none"
    BY DEF Init
  <2>4. Cardinality(chosen[r]) <= MaxTargets
    BY <2>3, FS_EmptySet, BoundsAssumption
  <2>5. Me \in Agents /\ Others \subseteq Agents
    BY AgentsAssumption DEF Others
  <2> QED  BY <2>2, <2>3, <2>4, <2>5
           DEF RequestOK, OtherOK, MeOK, Resting, Private, HubStages
<1>3. ContextsReturned
  BY DEF Init, ContextsReturned
<1> QED  BY <1>1, <1>2, <1>3 DEF Inv

-----------------------------------------------------------------------------
(* What a step leaves of a request it is not about. *)

SameCall(c) ==
    /\ ask'[c] = ask[c] /\ heard'[c] = heard[c] /\ escalated'[c] = escalated[c]
    /\ crossed'[c] = crossed[c] /\ items'[c] = items[c]

SameRequest(r) ==
    /\ stage'[r] = stage[r] /\ chosen'[r] = chosen[r] /\ consulted'[r] = consulted[r]
    /\ digest'[r] = digest[r]
    /\ \A a \in Agents : reported'[<<r, a>>] = reported[<<r, a>>]

LEMMA RequestStays ==
    ASSUME TypeOK, NEW r \in Requests, RequestOK(r), SameRequest(r),
           \A a \in Agents : SameCall(<<r, a>>)
    PROVE  RequestOK(r)'
<1>1. Me \in Agents /\ Others \subseteq Agents /\ chosen[r] \subseteq Agents
  BY AgentsAssumption DEF Others, TypeOK
<1>2. \A a \in Others : OtherOK(r, a)'
  BY <1>1 DEF RequestOK, OtherOK, SameRequest, SameCall
<1>3. MeOK(r)'
  BY <1>1 DEF RequestOK, MeOK, SameRequest, SameCall
<1>4. Resting(r) => Resting(r)'
  BY DEF Resting, SameCall
<1>5. DoneOK(r) => DoneOK(r)'
  BY <1>1 DEF DoneOK, SameRequest, SameCall
<1>6. \A a \in Others : reported'[<<r, a>>] = reported[<<r, a>>]
  BY <1>1 DEF SameRequest
<1> QED  BY <1>2, <1>3, <1>4, <1>5, <1>6 DEF RequestOK, SameRequest

-----------------------------------------------------------------------------
(* The steps of one ask. *)

\* A step of an ask: it begins to wait, or it ends.
Moves(c) ==
    /\ ask[c] \in {"preparing", "out"} /\ ask'[c] \in {"out", "answered", "failed"}
    /\ crossed'[c] = IF ask'[c] = "out" THEN crossed[c] + 1 ELSE crossed[c]
    /\ ask'[c] = "out" => ask[c] = "preparing" /\ items'[c] = items[c]
    /\ ask'[c] = "answered" /\ heard'[c] \in AgentGrades =>
         items'[c] = items[c] + IF escalated'[c] THEN 1 ELSE 0

LEMMA MoveKeeps ==
    ASSUME Inv, NEW r \in Requests, NEW a \in Agents, TypeOK',
           UNCHANGED <<stage, chosen, consulted, reported, digest>>,
           \A d \in Calls \ {<<r, a>>} : SameCall(d),
           Private(r) => Moves(<<r, a>>),
           \A d \in contexts' \ contexts : stage[d[1]] \in HubStages
    PROVE  Inv'
<1>1. ASSUME NEW s \in Requests, Private(s) PROVE RequestOK(s)'
  <2>0. RequestOK(s) /\ SameRequest(s) /\ \A b \in Agents : <<s, b>> \in Calls
    BY <1>1 DEF Inv, SameRequest, Calls
  <2>1. CASE s # r
    <3>1. \A b \in Agents : SameCall(<<s, b>>)
      BY <2>0, <2>1
    <3> QED  BY <2>0, <3>1, RequestStays DEF Inv
  <2>2. CASE s = r
    <3>1. Moves(<<r, a>>) /\ RequestOK(r)
      BY <1>1, <2>0, <2>2
    <3>2. \A b \in Agents \ {a} : SameCall(<<r, b>>)
      BY <2>0, <2>2
    <3>3. stage[r] \notin {"new", "screening", "done"}
      BY <3>1 DEF RequestOK, Resting, Moves
    <3>4. \A b \in Others : OtherOK(r, b)'
      <4> TAKE b \in Others
      <4>1. OtherOK(r, b) /\ b \in Agents /\ items[<<r, b>>] \in Nat
        BY <2>0, <2>2, <3>1 DEF RequestOK, Others, Inv, TypeOK
      <4>2. CASE b # a
        BY <3>2, <4>1, <4>2 DEF OtherOK, SameCall
      <4>3. CASE b = a
        BY <3>1, <4>1, <4>3 DEF OtherOK, Moves
      <4> QED  BY <4>2, <4>3
    <3>5. MeOK(r)'
      <4>1. MeOK(r) /\ Me \in Agents
        BY <3>1, AgentsAssumption DEF RequestOK
      <4>2. CASE Me # a
        BY <3>2, <4>1, <4>2 DEF MeOK, SameCall
      <4>3. CASE Me = a
        BY <3>1, <3>3, <4>1, <4>3 DEF MeOK, Moves
      <4> QED  BY <4>2, <4>3
    <3> QED  BY <2>2, <3>1, <3>3, <3>4, <3>5 DEF RequestOK
  <2> QED  BY <2>1, <2>2
<1>2. ContextsReturned'
  BY DEF Inv, ContextsReturned
<1> QED  BY <1>1, <1>2 DEF Inv, Private

LEMMA AskStep ==
    ASSUME Inv, NEW r \in Requests, NEW a \in Agents,
           \/ AskEnds(<<r, a>>)
           \/ SendsAtOnce(<<r, a>>)
           \/ \E grade \in Grades, uncertain \in BOOLEAN : Answers(<<r, a>>, grade, uncertain)
           \/ \E yes \in BOOLEAN : Relevance(<<r, a>>, yes)
    PROVE  Inv'
<1> DEFINE c == <<r, a>>
<1>0. /\ TypeOK /\ c \in Calls /\ c[1] = r /\ c[2] = a
  BY DEF Inv, Calls
<1> HIDE DEF c
<1>1. ASSUME NEW grade \in Grades, PrepareBlocked(c, grade)
      PROVE  Inv'
  <2>1. TypeOK'
    BY <1>0, <1>1 DEF PrepareBlocked, Dropped, TypeOK, AskStates, choiceVars, resultVars
  <2>2. Moves(c) /\ \A d \in Calls \ {c} : SameCall(d)
    BY <1>0, <1>1 DEF PrepareBlocked, Moves, SameCall, TypeOK, ZoneGrades, AgentGrades
  <2>3. \A d \in contexts' \ contexts : stage[d[1]] \in HubStages
    BY <1>0, <1>1 DEF PrepareBlocked, Dropped
  <2>4. UNCHANGED <<stage, chosen, consulted, reported, digest>>
    BY <1>1 DEF PrepareBlocked, choiceVars, resultVars
  <2> QED  BY <2>1, <2>2, <2>3, <2>4, MoveKeeps DEF c
<1>2. CASE AskRaises(c)
  <2>1. TypeOK'
    BY <1>0, <1>2 DEF AskRaises, TypeOK, AskStates, choiceVars, ledgerVars, resultVars
  <2>2. Moves(c) /\ \A d \in Calls \ {c} : SameCall(d)
    BY <1>0, <1>2 DEF AskRaises, Moves, SameCall, TypeOK
  <2>3. UNCHANGED <<stage, chosen, consulted, reported, digest>> /\ contexts' \subseteq contexts
    BY <1>2 DEF AskRaises, choiceVars, resultVars
  <2> QED  BY <2>1, <2>2, <2>3, MoveKeeps DEF c
<1>3. CASE SendsAtOnce(c)
  <2>1. TypeOK'
    BY <1>0, <1>3 DEF SendsAtOnce, TypeOK, AskStates, choiceVars, resultVars
  <2>2. Moves(c) /\ \A d \in Calls \ {c} : SameCall(d)
    BY <1>0, <1>3 DEF SendsAtOnce, Moves, SameCall, TypeOK
  <2>3. UNCHANGED <<stage, chosen, consulted, reported, digest>> /\ contexts' = contexts
    BY <1>3 DEF SendsAtOnce, choiceVars, resultVars
  <2> QED  BY <2>1, <2>2, <2>3, MoveKeeps DEF c
<1>4. ASSUME NEW grade \in Grades, NEW uncertain \in BOOLEAN, Answers(c, grade, uncertain)
      PROVE  Inv'
  <2>1. TypeOK'
    BY <1>0, <1>4 DEF Answers, TypeOK, AskStates, choiceVars, resultVars
  <2>2. Moves(c) /\ \A d \in Calls \ {c} : SameCall(d)
    BY <1>0, <1>4 DEF Answers, Moves, SameCall, TypeOK
  <2>3. UNCHANGED <<stage, chosen, consulted, reported, digest>> /\ contexts' = contexts
    BY <1>4 DEF Answers, choiceVars, resultVars
  <2> QED  BY <2>1, <2>2, <2>3, MoveKeeps DEF c
<1>5. ASSUME NEW grade \in Grades, NEW late \in BOOLEAN, FallsBack(c, grade, late)
      PROVE  Inv'
  <2>1. TypeOK'
    BY <1>0, <1>5 DEF FallsBack, TypeOK, AskStates, choiceVars, resultVars
  <2>2. Moves(c) /\ \A d \in Calls \ {c} : SameCall(d)
    BY <1>0, <1>5 DEF FallsBack, Moves, SameCall, TypeOK, ZoneGrades, AgentGrades
  <2>3. UNCHANGED <<stage, chosen, consulted, reported, digest>> /\ contexts' = contexts
    BY <1>5 DEF FallsBack, choiceVars, resultVars
  <2> QED  BY <2>1, <2>2, <2>3, MoveKeeps DEF c
<1>6. ASSUME NEW yes \in BOOLEAN, Relevance(c, yes)
      PROVE  Inv'
  <2>1. TypeOK'
    BY <1>0, <1>6 DEF Relevance, TypeOK, AskStates, choiceVars, ledgerVars, resultVars
  <2>2. \A d \in Calls \ {c} : SameCall(d)
    BY <1>0, <1>6 DEF Relevance, SameCall, TypeOK
  <2>4. ask[<<r, a>>] = "relevance"
    BY <1>6 DEF Relevance, c
  <2>5. ~ Private(r)
    <3> SUFFICES ASSUME Private(r) PROVE FALSE
      OBVIOUS
    <3>1. RequestOK(r)
      BY DEF Inv
    <3>2. CASE a = Me
      BY <2>4, <3>1, <3>2 DEF RequestOK, MeOK
    <3>3. CASE a # Me
      <4>1. OtherOK(r, a)
        BY <3>1, <3>3 DEF RequestOK, Others
      <4> QED  BY <2>4, <4>1 DEF OtherOK
    <3> QED  BY <3>2, <3>3
  <2>3. UNCHANGED <<stage, chosen, consulted, reported, digest>> /\ contexts' = contexts
    BY <1>6 DEF Relevance, choiceVars, resultVars
  <2> QED  BY <2>1, <2>2, <2>3, <2>5, MoveKeeps DEF c
<1> QED  BY <1>1, <1>2, <1>3, <1>4, <1>5, <1>6 DEF AskEnds, c

-----------------------------------------------------------------------------
(* Whom a request asks. *)

\* A list that is cut has at most so many names, all of them of the list.
LEMMA CutAtBounds ==
    ASSUME NEW n \in Nat, NEW s, s \subseteq Agents, NEW t \in CutAt(n, s)
    PROVE  t \subseteq s /\ IsFiniteSet(t) /\ Cardinality(t) \in Nat /\ Cardinality(t) <= n
<1>1. IsFiniteSet(s)
  BY AgentsAssumption, FS_Subset
<1>2. t \subseteq s
  BY DEF CutAt
<1>3. IsFiniteSet(t) /\ Cardinality(t) \in Nat /\ Cardinality(s) \in Nat
  BY <1>1, <1>2, FS_Subset, FS_CardinalityType
<1> QED  BY <1>2, <1>3 DEF CutAt

\* The asker's own Agent in front of a list that is cut again.
LEMMA InFrontBounds ==
    ASSUME NEW first, first \subseteq Agents, NEW all \in InFront(first)
    PROVE  all \subseteq first \cup {Me} /\ Me \in all /\ Cardinality(all) <= MaxTargets
<1>1. PICK t \in CutAt(MaxTargets - 1, first \ {Me}) : all = t \cup {Me}
  BY DEF InFront
<1>2. MaxTargets - 1 \in Nat /\ MaxTargets \in Nat
  BY BoundsAssumption
<1>3. t \subseteq first \ {Me} /\ IsFiniteSet(t) /\ Cardinality(t) \in Nat
        /\ Cardinality(t) <= MaxTargets - 1
  BY <1>1, <1>2, CutAtBounds
<1>4. Cardinality(t \cup {Me}) = Cardinality(t) + 1
  BY <1>3, FS_AddElement
<1> QED  BY <1>1, <1>2, <1>3, <1>4

-----------------------------------------------------------------------------
(* The steps of a request. *)

LEMMA RequestMoves ==
    ASSUME Inv, TypeOK', NEW r \in Requests,
           \A s \in Requests \ {r} : SameRequest(s) /\ \A a \in Agents : SameCall(<<s, a>>),
           Private(r)' => RequestOK(r)',
           ~ Private(r)' => digest'[r] \notin {"nothing", "nobody"},
           ~ Private(r) => ~ Private(r)',
           contexts' = contexts
    PROVE  Inv'
<1>1. ASSUME NEW s \in Requests, s # r
      PROVE  /\ Private(s)' => RequestOK(s)'
             /\ ~ Private(s)' => digest'[s] \notin {"nothing", "nobody"}
  <2>1. SameRequest(s) /\ \A a \in Agents : SameCall(<<s, a>>)
    BY <1>1
  <2>2. Private(s)' = Private(s) /\ digest'[s] = digest[s]
    BY <2>1 DEF Private, SameRequest
  <2>3. /\ TypeOK
        /\ Private(s) => RequestOK(s)
        /\ ~ Private(s) => digest[s] \notin {"nothing", "nobody"}
    BY DEF Inv
  <2> QED  BY <2>1, <2>2, <2>3, RequestStays
<1>2. ContextsReturned'
  <2> SUFFICES ASSUME NEW d \in contexts PROVE stage'[d[1]] \in HubStages
    BY DEF ContextsReturned
  <2>1. d[1] \in Requests /\ stage[d[1]] \in HubStages
    BY DEF Inv, TypeOK, Calls, ContextsReturned
  <2>2. CASE d[1] # r
    BY <2>1, <2>2 DEF SameRequest
  <2>3. CASE d[1] = r
    BY <2>1, <2>3 DEF Private
  <2> QED  BY <2>2, <2>3
<1> QED  BY <1>1, <1>2 DEF Inv

LEMMA AskedFacts ==
    ASSUME NEW r \in Requests, NEW who, ask' = Asked(r, who)
    PROVE  \A s \in Requests, a \in Agents :
             ask'[<<s, a>>] = IF s = r /\ a \in who THEN "preparing" ELSE ask[<<s, a>>]
BY DEF Asked, Calls

\* Everyone chosen is asked.
LEMMA Dispatched ==
    ASSUME TypeOK, NEW r \in Requests, RequestOK(r), stage[r] \in {"new", "screening"},
           NEW who, who \subseteq Agents, Cardinality(who) <= MaxTargets,
           ask' = Asked(r, who), UNCHANGED <<heard, escalated, crossed, items>>,
           chosen'[r] = who, stage'[r] = "asking", digest'[r] = digest[r],
           reported' = reported
    PROVE  RequestOK(r)'
<1>1. \A a \in Agents : ask'[<<r, a>>] = IF a \in who THEN "preparing" ELSE ask[<<r, a>>]
  BY AskedFacts
<1>2. chosen[r] = {} /\ Resting(r) /\ digest[r] = "none"
  BY DEF RequestOK
<1>3. ASSUME NEW a \in Others PROVE OtherOK(r, a)'
  <2>1. OtherOK(r, a) /\ a \in Agents
    BY DEF RequestOK, Others
  <2>2. ask[<<r, a>>] = "idle" /\ crossed[<<r, a>>] = 0 /\ items[<<r, a>>] = 0
    BY <1>2, <2>1 DEF OtherOK
  <2> QED  BY <1>1, <2>1, <2>2 DEF OtherOK
<1>4. MeOK(r)'
  <2>1. MeOK(r) /\ Me \in Agents /\ ask[<<r, Me>>] \notin {"preparing", "out"}
    BY <1>2, AgentsAssumption DEF RequestOK, Resting
  <2> QED  BY <1>1, <1>2, <2>1 DEF MeOK
<1> QED  BY <1>2, <1>3, <1>4 DEF RequestOK

LEMMA NamedKeeps ==
    ASSUME Inv, NEW r \in Requests, NEW ts \in SUBSET Agents, ConsultNamed(r, ts)
    PROVE  Inv'
<1>0. TypeOK /\ RequestOK(r)
  BY DEF Inv, ConsultNamed, Private, HubStages
<1>1. PICK first \in CutAt(MaxTargets, ts) : /\ chosen' = [chosen EXCEPT ![r] = first]
                                             /\ skipped' = [skipped EXCEPT ![r] = ts \ first]
                                             /\ ask' = Asked(r, first)
  BY DEF ConsultNamed
<1>2. first \subseteq Agents /\ Cardinality(first) <= MaxTargets
  BY CutAtBounds, BoundsAssumption
<1>3. TypeOK'
  BY <1>0, <1>1, <1>2
  DEF ConsultNamed, TypeOK, Asked, ConsultStages, AskStates, ledgerVars, resultVars
<1>4. RequestOK(r)'
  BY <1>0, <1>1, <1>2, Dispatched DEF ConsultNamed, TypeOK, resultVars
<1>5. \A s \in Requests \ {r} : SameRequest(s) /\ \A a \in Agents : SameCall(<<s, a>>)
  BY <1>0, <1>1, AskedFacts DEF ConsultNamed, SameRequest, SameCall, TypeOK, resultVars
<1>6. Private(r) /\ Private(r)' /\ contexts' = contexts
  BY <1>0 DEF ConsultNamed, Private, HubStages, TypeOK
<1> QED  BY <1>3, <1>4, <1>5, <1>6, RequestMoves

LEMMA SelfKeeps ==
    ASSUME Inv, NEW r \in Requests, ConsultSelf(r)
    PROVE  Inv'
<1>0. TypeOK /\ RequestOK(r) /\ Me \in Agents
  BY AgentsAssumption DEF Inv, ConsultSelf, Private, HubStages
<1>1. TypeOK'
  BY <1>0 DEF ConsultSelf, TypeOK, Asked, ConsultStages, AskStates, choiceVars, ledgerVars,
              resultVars
<1>2. \A s \in Requests, a \in Agents :
        ask'[<<s, a>>] = IF s = r /\ a = Me THEN "preparing" ELSE ask[<<s, a>>]
  <2>1. ask' = Asked(r, {Me})
    BY DEF ConsultSelf
  <2> QED  BY <2>1 DEF Asked, Calls
<1>3. \A s \in Requests \ {r} : SameRequest(s) /\ \A a \in Agents : SameCall(<<s, a>>)
  BY <1>0, <1>2 DEF ConsultSelf, SameRequest, SameCall, TypeOK, choiceVars, resultVars
<1>4. RequestOK(r)'
  <2>1. /\ stage[r] = "new" /\ stage'[r] = "self" /\ chosen'[r] = chosen[r] /\ chosen[r] = {}
        /\ digest'[r] = digest[r] /\ reported' = reported /\ UNCHANGED <<heard, escalated, crossed, items>>
    BY <1>0 DEF ConsultSelf, TypeOK, RequestOK, choiceVars, resultVars
  <2>2. \A a \in Others : OtherOK(r, a)'
    BY <1>0, <1>2, <2>1 DEF RequestOK, OtherOK, Others
  <2>3. MeOK(r)'
    BY <1>0, <1>2, <2>1 DEF RequestOK, MeOK
  <2> QED  BY <1>0, <2>1, <2>2, <2>3 DEF RequestOK
<1>5. Private(r) /\ Private(r)' /\ contexts' = contexts
  BY <1>0 DEF ConsultSelf, Private, HubStages, TypeOK
<1> QED  BY <1>1, <1>3, <1>4, <1>5, RequestMoves

\* Nobody is being asked while the cards are read.
LEMMA ReadsKeeps ==
    ASSUME Inv, NEW r \in Requests, ConsultOpen(r) \/ SelfShort(r)
    PROVE  Inv'
<1>0. TypeOK /\ RequestOK(r) /\ Me \in Agents /\ stage[r] \in {"new", "self"}
  BY AgentsAssumption DEF Inv, ConsultOpen, SelfShort, Private, HubStages
<1>1. UNCHANGED <<relevant, chosen, skipped, callVars, contexts, crossed, items, ledgerVars,
                  resultVars>> /\ ReadCards(r)
  BY DEF ConsultOpen, SelfShort
<1>2. TypeOK'
  BY <1>0, <1>1 DEF ReadCards, Shown, Available, Others, TypeOK, ConsultStages, callVars,
                    ledgerVars, resultVars
<1>3. \A s \in Requests \ {r} : SameRequest(s) /\ \A a \in Agents : SameCall(<<s, a>>)
  BY <1>0, <1>1 DEF ReadCards, SameRequest, SameCall, TypeOK, callVars, resultVars
<1>4. RequestOK(r)'
  <2>1. /\ stage'[r] = "screening" /\ chosen'[r] = chosen[r] /\ chosen[r] = {}
        /\ digest'[r] = digest[r] /\ reported' = reported /\ UNCHANGED <<ask, heard, escalated, crossed, items>>
    BY <1>0, <1>1 DEF ReadCards, TypeOK, RequestOK, callVars, resultVars
  <2>2. \A a \in Others : OtherOK(r, a) /\ OtherOK(r, a)'
    BY <1>0, <2>1 DEF RequestOK, OtherOK
  <2>3. MeOK(r)'
    BY <1>0, <2>1 DEF RequestOK, MeOK
  <2>4. Resting(r)'
    <3>1. ask[<<r, Me>>] \notin {"preparing", "out"}
      BY <1>0 DEF ConsultOpen, SelfShort, RequestOK, Resting
    <3>2. \A a \in Others : ask[<<r, a>>] = "idle"
      BY <2>1, <2>2 DEF OtherOK
    <3> QED  BY <2>1, <3>1, <3>2 DEF Resting, Others
  <2> QED  BY <1>0, <2>1, <2>2, <2>3, <2>4 DEF RequestOK
<1>5. Private(r) /\ Private(r)' /\ contexts' = contexts
  BY <1>0, <1>1 DEF ReadCards, Private, HubStages, TypeOK
<1> QED  BY <1>2, <1>3, <1>4, <1>5, RequestMoves

\* The asker's own Agent answers, and nobody else is asked.
LEMMA EnoughKeeps ==
    ASSUME Inv, NEW r \in Requests, SelfEnough(r)
    PROVE  Inv'
<1>0. TypeOK /\ RequestOK(r) /\ Me \in Agents /\ Others = Agents \ {Me}
  BY AgentsAssumption DEF Inv, SelfEnough, Private, HubStages, Others
<1>1. TypeOK'
  BY <1>0 DEF SelfEnough, TypeOK, ConsultStages, Calls, choiceVars, callVars, ledgerVars
<1>2. \A s \in Requests \ {r} : SameRequest(s) /\ \A a \in Agents : SameCall(<<s, a>>)
  BY <1>0 DEF SelfEnough, SameRequest, SameCall, TypeOK, choiceVars, callVars
<1>3. RequestOK(r)'
  <2>1. /\ stage[r] = "self" /\ stage'[r] = "done" /\ chosen'[r] = {} /\ chosen[r] = {}
        /\ digest'[r] = "answers" /\ UNCHANGED <<chosen, ask, heard, escalated, crossed, items>>
    BY <1>0 DEF SelfEnough, TypeOK, RequestOK, choiceVars, callVars
  <2>2. \A a \in Others : OtherOK(r, a) /\ OtherOK(r, a)' /\ ask[<<r, a>>] = "idle"
    BY <1>0, <2>1 DEF RequestOK, OtherOK
  <2>3. MeOK(r)'
    BY <1>0, <2>1 DEF RequestOK, MeOK
  <2>4. Resting(r)'
    BY <1>0, <2>1, <2>2 DEF SelfEnough, Sufficient, Resting
  <2>5. DoneOK(r)'
    BY <1>0, <2>1, <2>2 DEF DoneOK
  <2> QED  BY <1>0, <2>1, <2>2, <2>3, <2>4, <2>5 DEF RequestOK
<1>4. Private(r) /\ Private(r)' /\ contexts' = contexts
  BY <1>0 DEF SelfEnough, Private, HubStages, TypeOK
<1> QED  BY <1>1, <1>2, <1>3, <1>4, RequestMoves

LEMMA ScreenedKeeps ==
    ASSUME Inv, NEW r \in Requests, NEW found \in SUBSET Others, Screened(r, found)
    PROVE  Inv'
<1>0. TypeOK /\ RequestOK(r) /\ Me \in Agents /\ Others \subseteq Agents
  BY AgentsAssumption DEF Inv, Screened, Private, HubStages, Others
<1> DEFINE Whom(first) == IF ask[<<r, Me>>] = "answered" THEN InFront(first) ELSE {first}
           Choice(first, all) ==
             /\ skipped' = [skipped EXCEPT ![r] = found \ first]
             /\ chosen' = [chosen EXCEPT ![r] = all]
             /\ ask' = Asked(r, all)
             /\ stage' = [stage EXCEPT ![r] = IF all = {} THEN "done" ELSE "asking"]
             /\ digest' = [digest EXCEPT ![r] = IF all = {} THEN "nobody" ELSE @]
<1>9. PICK first \in CutAt(MaxTargets, found) : \E all \in Whom(first) : Choice(first, all)
  BY DEF Screened
<1>10. PICK all \in Whom(first) : Choice(first, all)
  BY <1>9
<1>1. Choice(first, all)
  BY <1>10
<1>2. first \subseteq found /\ first \subseteq Agents /\ Cardinality(first) <= MaxTargets
  BY <1>0, CutAtBounds, BoundsAssumption
<1>3. all \subseteq Agents /\ Cardinality(all) <= MaxTargets
  <2>1. CASE ask[<<r, Me>>] = "answered"
    <3>1. all \in InFront(first)
      BY <1>10, <2>1
    <3> QED  BY <1>0, <1>2, <3>1, InFrontBounds
  <2>2. CASE ask[<<r, Me>>] # "answered"
    BY <1>2, <1>10, <2>2
  <2> QED  BY <2>1, <2>2
<1>4. /\ stage[r] = "screening" /\ relevant' = [relevant EXCEPT ![r] = found]
      /\ UNCHANGED <<cards, heard, escalated, contexts, crossed, items, requestRows, count,
                     consulted, reported>>
  BY DEF Screened, ledgerVars
<1>5. TypeOK'
  <2>1. ask' \in [Calls -> AskStates]
    BY <1>0, <1>1 DEF TypeOK, Asked, AskStates
  <2>2. /\ skipped' \in [Requests -> SUBSET Agents] /\ chosen' \in [Requests -> SUBSET Agents]
        /\ relevant' \in [Requests -> SUBSET Others]
    BY <1>0, <1>1, <1>2, <1>3, <1>4 DEF TypeOK
  <2>3. /\ stage' \in [Requests -> {"new"} \cup ConsultStages \cup HubStages]
        /\ digest' \in [Requests -> {"none", "answers", "nobody", "nothing", "silence", "error"}]
    BY <1>0, <1>1 DEF TypeOK, ConsultStages
  <2> QED  BY <1>0, <1>4, <2>1, <2>2, <2>3 DEF TypeOK
<1>6. \A s \in Requests \ {r} : SameRequest(s) /\ \A a \in Agents : SameCall(<<s, a>>)
  <2>1. \A s \in Requests \ {r} : SameRequest(s)
    BY <1>0, <1>1, <1>4 DEF SameRequest, TypeOK
  <2>2. \A s \in Requests \ {r}, a \in Agents : ask'[<<s, a>>] = ask[<<s, a>>]
    <3>1. ask' = Asked(r, all)
      BY <1>1
    <3> QED  BY <3>1 DEF Asked, Calls
  <2> QED  BY <1>4, <2>1, <2>2 DEF SameCall
<1>7. RequestOK(r)'
  <2>1. CASE all # {}
    <3>1. chosen'[r] = all /\ stage'[r] = "asking" /\ digest'[r] = digest[r]
      BY <1>0, <1>1, <2>1 DEF TypeOK
    <3> QED  BY <1>0, <1>1, <1>3, <1>4, <3>1, Dispatched
  <2>2. CASE all = {}
    <3>1. /\ chosen'[r] = {} /\ chosen[r] = {} /\ stage'[r] = "done" /\ digest'[r] = "nobody"
          /\ Resting(r) /\ \A a \in Agents : ask'[<<r, a>>] = ask[<<r, a>>]
      BY <1>0, <1>1, <1>4, <2>2, AskedFacts DEF TypeOK, RequestOK
    <3>2. \A a \in Others : /\ OtherOK(r, a)' /\ ask[<<r, a>>] = "idle"
                            /\ crossed[<<r, a>>] = 0
      BY <1>0, <1>4, <3>1 DEF RequestOK, OtherOK
    <3>3. MeOK(r)' /\ Resting(r)' /\ DoneOK(r)'
      BY <1>0, <1>4, <3>1, <3>2 DEF RequestOK, MeOK, Resting, DoneOK
    <3>4. Cardinality(chosen'[r]) <= MaxTargets
      BY <1>3, <2>2, <3>1
    <3> QED  BY <3>1, <3>2, <3>3, <3>4 DEF RequestOK
  <2> QED  BY <2>1, <2>2
<1>8. Private(r) /\ Private(r)' /\ contexts' = contexts
  BY <1>0, <1>1, <1>4 DEF Private, HubStages, TypeOK
<1> QED  BY <1>5, <1>6, <1>7, <1>8, RequestMoves

\* All have ended: the answers are kept or left out, and the digest is written.
LEMMA GatheredKeeps ==
    ASSUME Inv, NEW r \in Requests, Gathered(r)
    PROVE  Inv'
<1>0. TypeOK /\ RequestOK(r) /\ Me \in Agents /\ Others = Agents \ {Me}
  BY AgentsAssumption DEF Inv, Gathered, Private, HubStages, Others
<1>1. /\ stage[r] = "asking" /\ stage'[r] = "done" /\ consulted'[r] = Kept(r)
      /\ digest'[r] = Digest(r)
      /\ UNCHANGED <<chosen, ask, heard, escalated, contexts, crossed, items>>
  BY <1>0 DEF Gathered, TypeOK, choiceVars, callVars
<1>2. \A s \in Requests, a \in Agents :
        reported'[<<s, a>>] = IF s = r /\ a \in Reported(r) THEN 1 ELSE reported[<<s, a>>]
  <2> TAKE s \in Requests, a \in Agents
  <2>1. <<s, a>> \in Calls /\ <<s, a>>[1] = s /\ <<s, a>>[2] = a
    BY DEF Calls
  <2> QED  BY <2>1 DEF Gathered
<1>3. TypeOK'
  <2>1. reported' \in [Calls -> {0, 1}]
    BY <1>0 DEF Gathered, TypeOK
  <2>2. consulted' \in [Requests -> SUBSET Agents]
    BY <1>0 DEF Gathered, TypeOK, Kept
  <2>3. digest' \in [Requests -> {"none", "answers", "nobody", "nothing", "silence", "error"}]
    BY <1>0 DEF Gathered, TypeOK, Digest
  <2> QED  BY <1>0, <2>1, <2>2, <2>3
           DEF Gathered, TypeOK, ConsultStages, choiceVars, callVars, ledgerVars
<1>4. \A s \in Requests \ {r} : SameRequest(s) /\ \A a \in Agents : SameCall(<<s, a>>)
  BY <1>0, <1>1, <1>2 DEF Gathered, SameRequest, SameCall, TypeOK
<1>5. RequestOK(r)'
  <2>1. \A a \in Agents : ask[<<r, a>>] \in Ended
    BY DEF Gathered, AllEnded, CallsOf
  <2>2. \A a \in Others : OtherOK(r, a) /\ OtherOK(r, a)' /\ a \in Agents
    BY <1>0, <1>1 DEF RequestOK, OtherOK
  <2>3. MeOK(r) /\ MeOK(r)'
    BY <1>0, <1>1 DEF RequestOK, MeOK
  <2>4. Resting(r)'
    BY <1>1, <2>1 DEF Resting, Ended
  <2>5. \A a \in chosen[r] : a \in Agents /\ ask[<<r, a>>] \in {"answered", "failed"}
    <3> TAKE a \in chosen[r]
    <3>1. a \in Agents /\ ask[<<r, a>>] \in Ended
      BY <1>0, <2>1 DEF TypeOK
    <3>2. ask[<<r, a>>] \notin {"idle", "notasked"}
      BY <1>0, <2>2, <2>3, <3>1 DEF OtherOK, MeOK
    <3> QED  BY <3>1, <3>2 DEF Ended
  <2>6. DoneOK(r)'
    <3>1. ASSUME NEW a \in Others, ask[<<r, a>>] = "answered"
          PROVE  reported'[<<r, a>>] = IF escalated[<<r, a>>] THEN 1 ELSE 0
      <4>1. a \in chosen[r] /\ a \in Agents /\ reported[<<r, a>>] = 0
        BY <1>0, <1>1, <2>2, <3>1 DEF OtherOK, RequestOK
      <4>2. a \in Reported(r) <=> escalated[<<r, a>>]
        BY <4>1 DEF Reported
      <4> QED  BY <1>2, <4>1, <4>2
    <3>2. ASSUME NEW a \in chosen[r], heard[<<r, a>>] \in {"sure", "unsure", "low"},
                 ask[<<r, a>>] = "answered"
          PROVE  a \in Kept(r)
      BY <3>2 DEF Kept, Unfit
    <3>3. ASSUME Digest(r) = "nothing", NEW a \in chosen[r]
          PROVE  ask[<<r, a>>] = "answered" /\ heard[<<r, a>>] \in Unfit
      <4>3. Kept(r) # {} => Digest(r) = "answers"
        BY DEF Digest
      <4>4. Kept(r) = {} /\ (\E b \in chosen[r] : ask[<<r, b>>] = "failed") => Digest(r) = "silence"
        BY DEF Digest
      <4>1. Kept(r) = {} /\ ask[<<r, a>>] # "failed"
        BY <3>3, <4>3, <4>4
      <4>2. ask[<<r, a>>] = "answered"
        BY <2>5, <4>1
      <4> QED  BY <4>1, <4>2 DEF Kept
    <3>4. Digest(r) # "nobody"
      BY DEF Digest
    <3> QED  BY <1>1, <3>1, <3>2, <3>3, <3>4 DEF DoneOK
  <2> QED  BY <1>0, <1>1, <2>2, <2>3, <2>4, <2>6 DEF RequestOK
<1>6. Private(r) /\ Private(r)' /\ contexts' = contexts
  BY <1>0, <1>1 DEF Private, HubStages
<1> QED  BY <1>3, <1>4, <1>5, <1>6, RequestMoves

\* hub_ask leaves the stages of consult for good, and its digest is one of
\* the other two.
LEMMA HubKeeps ==
    ASSUME Inv, NEW r \in Requests,
           \/ \E documents, recorded \in BOOLEAN : HubAsk(r, documents, recorded)
           \/ \E counted \in BOOLEAN : HubZone(r, counted)
           \/ HubGathered(r)
           \/ \E counted \in BOOLEAN : HubAnswers(r, counted)
    PROVE  Inv'
<1> DEFINE Leaves == /\ TypeOK' /\ stage'[r] \in HubStages
                     /\ digest'[r] \notin {"nothing", "nobody"} /\ contexts' = contexts
                     /\ \A s \in Requests \ {r} : SameRequest(s)
                                                    /\ \A a \in Agents : SameCall(<<s, a>>)
<1>0. /\ TypeOK /\ Me \in Agents
      /\ stage[r] = "new" => digest[r] = "none"
      /\ stage[r] \in HubStages => digest[r] \notin {"nothing", "nobody"}
  BY AgentsAssumption DEF Inv, RequestOK, Private, HubStages
<1>1. ASSUME NEW documents \in BOOLEAN, NEW recorded \in BOOLEAN, HubAsk(r, documents, recorded)
      PROVE  Leaves
  <2>1. PICK one \in {0, 1} : /\ requestRows' = [requestRows EXCEPT ![Me] = @ + one]
                              /\ count' = [count EXCEPT ![Me] = @ + one]
    BY <1>1 DEF HubAsk
  <2>2. /\ stage[r] = "new" /\ UNCHANGED <<choiceVars, heard, escalated, contexts, crossed,
                                           items, resultVars>>
        /\ \/ stage' = [stage EXCEPT ![r] = "hubzone"] /\ UNCHANGED ask
           \/ HubBroadcast(r)
    BY <1>1 DEF HubAsk
  <2>3. /\ ask' \in [Calls -> AskStates]
        /\ \A s \in Requests \ {r}, a \in Agents : ask'[<<s, a>>] = ask[<<s, a>>]
    BY <1>0, <2>2 DEF HubBroadcast, TypeOK, Calls, AskStates
  <2>4. stage' = [stage EXCEPT ![r] = "hubzone"] \/ stage' = [stage EXCEPT ![r] = "hubasking"]
    BY <2>2 DEF HubBroadcast
  <2>5. TypeOK'
    BY <1>0, <2>1, <2>2, <2>3, <2>4 DEF TypeOK, HubStages, choiceVars, resultVars
  <2>6. \A s \in Requests \ {r} : SameRequest(s) /\ \A a \in Agents : SameCall(<<s, a>>)
    BY <1>0, <2>2, <2>3, <2>4 DEF SameRequest, SameCall, TypeOK, choiceVars, resultVars
  <2> QED  BY <1>0, <2>2, <2>4, <2>5, <2>6 DEF TypeOK, HubStages, resultVars
<1>2. ASSUME NEW counted \in BOOLEAN, HubZone(r, counted) PROVE Leaves
  <2>1. PICK one \in {0, 1} : count' = [count EXCEPT ![Me] = @ + one]
    BY <1>2 DEF HubZone
  <2>2. /\ stage[r] = "hubzone" /\ HubBroadcast(r)
        /\ UNCHANGED <<choiceVars, heard, escalated, contexts, crossed, items, requestRows,
                       resultVars>>
    BY <1>2 DEF HubZone
  <2>3. /\ ask' \in [Calls -> AskStates]
        /\ \A s \in Requests \ {r}, a \in Agents : ask'[<<s, a>>] = ask[<<s, a>>]
        /\ stage' = [stage EXCEPT ![r] = "hubasking"]
    BY <1>0, <2>2 DEF HubBroadcast, TypeOK, Calls, AskStates
  <2>5. TypeOK'
    BY <1>0, <2>1, <2>2, <2>3 DEF TypeOK, HubStages, choiceVars, resultVars
  <2>6. \A s \in Requests \ {r} : SameRequest(s) /\ \A a \in Agents : SameCall(<<s, a>>)
    BY <1>0, <2>2, <2>3 DEF SameRequest, SameCall, TypeOK, choiceVars, resultVars
  <2> QED  BY <1>0, <2>2, <2>3, <2>5, <2>6 DEF TypeOK, HubStages, resultVars
<1>3. ASSUME HubGathered(r) PROVE Leaves
  <2>1. PICK answered \in SUBSET Agents :
          /\ stage' = [stage EXCEPT ![r] = IF answered = {} THEN "hubdone" ELSE "hubdigest"]
          /\ consulted' = [consulted EXCEPT ![r] = answered]
          /\ digest' = [digest EXCEPT ![r] = IF answered = {} THEN "error" ELSE @]
    BY <1>3 DEF HubGathered
  <2>2. /\ stage[r] = "hubasking"
        /\ UNCHANGED <<choiceVars, callVars, contexts, crossed, items, ledgerVars, reported>>
    BY <1>3 DEF HubGathered
  <2>3. TypeOK'
    BY <1>0, <2>1, <2>2 DEF TypeOK, HubStages, choiceVars, callVars, ledgerVars
  <2>4. \A s \in Requests \ {r} : SameRequest(s) /\ \A a \in Agents : SameCall(<<s, a>>)
    <3>1. \A s \in Requests \ {r} : /\ stage'[s] = stage[s] /\ consulted'[s] = consulted[s]
                                    /\ digest'[s] = digest[s]
      BY <1>0, <2>1 DEF TypeOK
    <3> QED  BY <2>2, <3>1 DEF SameRequest, SameCall, choiceVars, callVars
  <2>5. stage'[r] \in HubStages /\ digest'[r] \notin {"nothing", "nobody"}
    BY <1>0, <2>1, <2>2 DEF TypeOK, HubStages
  <2>6. contexts' = contexts
    BY <2>2
  <2> QED  BY <2>3, <2>4, <2>5, <2>6
<1>4. ASSUME NEW counted \in BOOLEAN, HubAnswers(r, counted) PROVE Leaves
  <2>1. PICK one \in {0, 1} : count' = [count EXCEPT ![Me] = @ + one]
    BY <1>4 DEF HubAnswers
  <2>2. TypeOK'
    BY <1>0, <1>4, <2>1 DEF HubAnswers, TypeOK, HubStages, choiceVars, callVars
  <2>3. \A s \in Requests \ {r} : SameRequest(s) /\ \A a \in Agents : SameCall(<<s, a>>)
    BY <1>0, <1>4 DEF HubAnswers, SameRequest, SameCall, TypeOK, choiceVars, callVars
  <2> QED  BY <1>0, <1>4, <2>2, <2>3 DEF HubAnswers, TypeOK, HubStages
<1>5. Leaves
  <2> HIDE DEF Leaves
  <2>1. CASE \E documents, recorded \in BOOLEAN : HubAsk(r, documents, recorded)
    BY <1>1, <2>1
  <2>2. CASE \E counted \in BOOLEAN : HubZone(r, counted)
    BY <1>2, <2>2
  <2>3. CASE \E counted \in BOOLEAN : HubAnswers(r, counted)
    BY <1>4, <2>3
  <2> QED  BY <1>3, <2>1, <2>2, <2>3
<1> QED  BY <1>5, RequestMoves DEF Private

LEMMA StutterKeeps ==
    ASSUME Inv, UNCHANGED vars
    PROVE  Inv'
<1>1. TypeOK' /\ ContextsReturned'
  BY DEF Inv, vars, TypeOK, ContextsReturned
<1>2. ASSUME NEW r \in Requests
      PROVE  /\ Private(r)' => RequestOK(r)'
             /\ ~ Private(r)' => digest'[r] \notin {"nothing", "nobody"}
  <2>1. /\ TypeOK
        /\ Private(r) => RequestOK(r)
        /\ ~ Private(r) => digest[r] \notin {"nothing", "nobody"}
    BY DEF Inv
  <2>2. SameRequest(r) /\ \A a \in Agents : SameCall(<<r, a>>)
    BY DEF vars, SameRequest, SameCall
  <2>3. stage' = stage /\ digest' = digest
    BY DEF vars
  <2>4. Private(r)' <=> Private(r)
    BY <2>3 DEF Private
  <2>5. Private(r) => RequestOK(r)'
    BY <1>2, <2>1, <2>2, RequestStays
  <2> QED  BY <2>1, <2>3, <2>4, <2>5
<1> QED  BY <1>1, <1>2 DEF Inv

LEMMA NextInv == Inv /\ [Next]_vars => Inv'
<1> SUFFICES ASSUME Inv, [Next]_vars PROVE Inv'
  OBVIOUS
<1>1. ASSUME NEW r \in Requests,
             \/ \E ts \in SUBSET Agents \ {{}} : ConsultNamed(r, ts)
             \/ ConsultSelf(r)
             \/ ConsultOpen(r)
             \/ SelfEnough(r)
             \/ SelfShort(r)
             \/ ScreeningEnds(r)
             \/ Gathered(r)
      PROVE  Inv'
  BY <1>1, NamedKeeps, SelfKeeps, ReadsKeeps, EnoughKeeps, ScreenedKeeps, GatheredKeeps
  DEF ScreeningEnds
<1>2. ASSUME NEW r \in Requests,
             \/ \E documents, recorded \in BOOLEAN : HubAsk(r, documents, recorded)
             \/ \E counted \in BOOLEAN : HubZone(r, counted)
             \/ HubGathered(r)
             \/ \E counted \in BOOLEAN : HubAnswers(r, counted)
      PROVE  Inv'
  BY <1>2, HubKeeps
<1>3. ASSUME NEW c \in Calls,
             \/ AskEnds(c)
             \/ SendsAtOnce(c)
             \/ \E grade \in Grades, uncertain \in BOOLEAN : Answers(c, grade, uncertain)
             \/ \E yes \in BOOLEAN : Relevance(c, yes)
      PROVE  Inv'
  <2>1. PICK r \in Requests, a \in Agents : c = <<r, a>>
    BY DEF Calls
  <2> QED  BY <1>3, <2>1, AskStep
<1>4. CASE UNCHANGED vars
  BY <1>4, StutterKeeps
<1> QED  BY <1>1, <1>2, <1>3, <1>4 DEF Next

LEMMA ConsultInvariance == Spec => []Inv
<1> QED  BY InitInv, NextInv, PTL DEF Spec

-----------------------------------------------------------------------------
(* The theorems. *)

\* Every variable keeps its type, for any number of questions and Agents.
THEOREM ConsultTypes == Spec => []TypeOK
<1>1. Inv => TypeOK
  BY DEF Inv
<1> QED  BY <1>1, ConsultInvariance, PTL

\* consult's two caps hold together (orchestrator.py:583, 662): a question
\* crosses to at most MaxTargets Agents, once to each, and a second time to the
\* asker's own only in place of one of them.
THEOREM BudgetKept == Spec => []AskBudget
<1>1. Inv => AskBudget
  <2> SUFFICES ASSUME Inv, NEW r \in Requests, Private(r)
               PROVE  /\ Cardinality({a \in Others : crossed[<<r, a>>] > 0}) <= MaxTargets
                      /\ \A a \in Others : crossed[<<r, a>>] <= 1
                      /\ crossed[<<r, Me>>] <= 2
                      /\ crossed[<<r, Me>>] = 2 =>
                           Cardinality({a \in Others : crossed[<<r, a>>] > 0}) < MaxTargets
    BY DEF AskBudget, Private
  <2> DEFINE asked == {a \in Others : crossed[<<r, a>>] > 0}
  <2>1. RequestOK(r) /\ chosen[r] \subseteq Agents /\ MaxTargets \in Nat
    BY BoundsAssumption DEF Inv, TypeOK
  <2>2. \A a \in Others : crossed[<<r, a>>] \in {0, 1} /\ (crossed[<<r, a>>] = 1 => a \in chosen[r])
    BY <2>1 DEF RequestOK, OtherOK
  <2>3. asked \subseteq chosen[r] \ {Me}
    BY <2>2 DEF Others
  <2>4. IsFiniteSet(chosen[r]) /\ Cardinality(chosen[r]) \in Nat
          /\ Cardinality(chosen[r]) <= MaxTargets
    BY <2>1, AgentsAssumption, FS_Subset, FS_CardinalityType DEF RequestOK
  <2>5. IsFiniteSet(chosen[r] \ {Me})
          /\ Cardinality(chosen[r] \ {Me}) =
               IF Me \in chosen[r] THEN Cardinality(chosen[r]) - 1 ELSE Cardinality(chosen[r])
    BY <2>4, FS_RemoveElement
  <2>6. Cardinality(asked) <= Cardinality(chosen[r] \ {Me}) /\ Cardinality(asked) \in Nat
    BY <2>3, <2>5, FS_Subset, FS_CardinalityType
  <2>7. crossed[<<r, Me>>] \in {0, 1, 2} /\ (crossed[<<r, Me>>] = 2 => Me \in chosen[r])
    BY <2>1 DEF RequestOK, MeOK
  <2> HIDE DEF asked
  <2>8. /\ Cardinality(asked) <= MaxTargets
        /\ crossed[<<r, Me>>] = 2 => Cardinality(asked) < MaxTargets
    BY <2>1, <2>4, <2>5, <2>6, <2>7
  <2> QED  BY <2>2, <2>7, <2>8 DEF asked
<1> QED  BY <1>1, ConsultInvariance, PTL

\* Of every answer that came back, its escalation is named in the result
\* (orchestrator.py:755), whether the digest used the answer or not.
THEOREM EscalationsReachTheAsker == Spec => []EscalationsTold
<1>1. Inv => EscalationsTold
  <2> SUFFICES ASSUME Inv, NEW r \in Requests, stage[r] = "done", NEW a \in Others,
                      heard[<<r, a>>] \in AgentGrades, ask[<<r, a>>] = "answered"
               PROVE  reported[<<r, a>>] = items[<<r, a>>]
    BY DEF EscalationsTold, ConsultOver
  <2>1. RequestOK(r)
    BY DEF Inv, Private, HubStages
  <2> QED  BY <2>1 DEF RequestOK, OtherOK, DoneOK
<1> QED  BY <1>1, ConsultInvariance, PTL

\* R-02: when a result is returned nobody is still being asked, and one Agent's
\* failure has taken nobody else's answer out of it.
THEOREM OneAgentsFailure == Spec => []FailureIsOneAgents
<1>1. Inv => FailureIsOneAgents
  <2> SUFFICES ASSUME Inv, NEW r \in Requests, stage[r] = "done"
               PROVE  /\ \A a \in Agents : ask[<<r, a>>] \notin {"preparing", "out"}
                      /\ \A a \in chosen[r] : heard[<<r, a>>] \in {"sure", "unsure", "low"}
                                                 /\ ask[<<r, a>>] = "answered"
                                                 => a \in consulted[r]
    BY DEF FailureIsOneAgents, ConsultOver
  <2>1. RequestOK(r)
    BY DEF Inv, Private, HubStages
  <2> QED  BY <2>1 DEF RequestOK, Resting, DoneOK
<1> QED  BY <1>1, ConsultInvariance, PTL

\* "Nobody had anything on it" and "nobody was found" are said only when so.
THEOREM DigestIsTrue == Spec => []DigestTrue
<1>1. Inv => DigestTrue
  <2> SUFFICES ASSUME Inv, NEW r \in Requests, digest[r] \in {"nothing", "nobody"}
               PROVE  /\ digest[r] = "nothing" => \A a \in chosen[r] :
                            ask[<<r, a>>] = "answered" /\ heard[<<r, a>>] \in Unfit
                      /\ digest[r] = "nobody" => \A a \in Others : crossed[<<r, a>>] = 0
    BY DEF DigestTrue
  <2>1. RequestOK(r) /\ stage[r] = "done"
    BY DEF Inv, RequestOK
  <2> QED  BY <2>1 DEF RequestOK, DoneOK
<1> QED  BY <1>1, ConsultInvariance, PTL

\* No finished consult leaves a context behind that nobody will send.
THEOREM NoContextLeft == Spec => []ContextsReturned
<1>1. Inv => ContextsReturned
  BY DEF Inv
<1> QED  BY <1>1, ConsultInvariance, PTL

=============================================================================
