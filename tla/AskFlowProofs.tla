---------------------------- MODULE AskFlowProofs ----------------------------
(***************************************************************************)
(* Theorems about AskFlow, for any sets of requests and targets, any daily  *)
(* limit and any TTL.                                                       *)
(***************************************************************************)
EXTENDS AskFlow, TLAPS

\* EXCEPT at one call, and the pairs a call is made of.
LEMMA CallParts ==
    /\ \A c \in Calls : c = <<c[1], c[2]>> /\ c[1] \in Requests /\ c[2] \in Targets
    /\ \A r \in Requests, t \in Targets : <<r, t>> \in Calls
    /\ \A r \in Requests : CallsOf(r) \subseteq Calls
BY DEF Calls, CallsOf

LEMMA PopLastType == ASSUME NEW S, NEW s \in Seq(S) PROVE PopLast(s) \in Seq(S)
BY DEF PopLast

LEMMA OlderType == ASSUME NEW age \in 0 .. TTL + 1 PROVE Older(age) \in 0 .. TTL + 1
BY TTLAssumption DEF Older

LEMMA BumpType ==
    ASSUME NEW D, NEW f \in [D -> Nat], NEW t, NEW n \in Nat
    PROVE  [f EXCEPT ![t] = @ + n] \in [D -> Nat]
<1>1. \A u \in D : f[u] \in Nat /\ f[u] + n \in Nat
    OBVIOUS
<1>2. \A u \in D : [f EXCEPT ![t] = @ + n][u] \in Nat
    BY <1>1
<1> QED
    BY <1>2

LEMMA TypeInit == Init => TypeOK
BY TTLAssumption DEF Init, TypeOK, Phases, CallStates, Tiers, Errors

\* The typing of the state is preserved by every action.
LEMMA TypeStep == TypeOK /\ [Next]_vars => TypeOK'
<1> SUFFICES ASSUME TypeOK, [Next]_vars PROVE TypeOK'
    OBVIOUS
<1> USE CallParts, TTLAssumption DEF TypeOK
<1>1. ASSUME NEW r \in Requests, NEW ts \in SUBSET Targets, Prepare(r, ts) PROVE TypeOK'
    BY <1>1 DEF Prepare, Phases, CallStates, Errors, boundaryVars, ledgerVars, resultVars
<1>2. ASSUME NEW r \in Requests, PrepareDone(r) PROVE TypeOK'
    BY <1>2 DEF PrepareDone, Phases, boundaryVars, ledgerVars, resultVars
<1>3. ASSUME NEW r \in Requests, NEW ts \in SUBSET Targets, Send(r, ts) PROVE TypeOK'
  <2>1. /\ state' \in [Calls -> CallStates]
        /\ error' \in [Calls -> Errors]
    BY <1>3 DEF Send, CallStates, Errors
  <2>5. asks' \in [Targets -> Nat]
    <3>1. \A X, t : t \in Targets => asks[t] + (IF <<r, t>> \in X THEN 1 ELSE 0) \in Nat
        OBVIOUS
    <3> DEFINE crossing == Taken(Selected(r, ts)) \ Limited(Taken(Selected(r, ts)))
    <3>2. \/ asks' = asks
          \/ asks' = [t \in Targets |-> asks[t] + IF <<r, t>> \in crossing THEN 1 ELSE 0]
        BY <1>3 DEF Send
    <3> HIDE DEF crossing
    <3>3. [t \in Targets |-> asks[t] + IF <<r, t>> \in crossing THEN 1 ELSE 0]
            \in [Targets -> Nat]
        BY <3>1
    <3> QED
        BY <3>2, <3>3
  <2>2. /\ phase' \in [Requests -> Phases]
        /\ approved' \in [Requests -> SUBSET Targets]
        /\ pending' \subseteq Requests
    BY <1>3 DEF Send, Popped, Phases
  <2>3. cache' \subseteq Calls /\ mappings' \subseteq Calls
    BY <1>3 DEF Send, Cleared, Swept
  <2>4. crossed' \subseteq Calls
    <3>1. Selected(r, ts) \subseteq Calls
        BY DEF Selected
    <3> QED
        BY <1>3, <3>1 DEF Send, Taken
  <2> QED
    BY <1>3, <2>1, <2>2, <2>3, <2>4, <2>5 DEF Send, resultVars
<1>4. ASSUME NEW r \in Requests, Finish(r) PROVE TypeOK'
  <2>1. {c[2] : c \in Selected(r, approved[r])} \subseteq Targets
    BY CallParts DEF Selected
  <2>2. /\ phase' \in [Requests -> Phases]
        /\ answers' \in [Requests -> SUBSET Targets]
        /\ reported' \in [Requests -> SUBSET Targets]
    BY <1>4, <2>1 DEF Finish, Phases
  <2>3. UNCHANGED <<state, shape, error, prepareVars, approved, boundaryVars, ledgerVars,
                    disposition, items>>
    BY <1>4 DEF Finish
  <2>4. outcome' = [outcome EXCEPT ![r] = MergedDisposition(r)]
    BY <1>4 DEF Finish
  <2> QED
    BY <2>2, <2>3, <2>4 DEF MergedDisposition, Branch, Dispositions,
                prepareVars, boundaryVars, ledgerVars
<1>5. ASSUME NEW r \in Requests, Timeout(r) PROVE TypeOK'
    BY <1>5 DEF Timeout, Cleared, Phases, CallStates, prepareVars, ledgerVars, resultVars
<1>6. ASSUME NEW r \in Requests, TimeoutFallback(r) PROVE TypeOK'
  <2>1. phase' \in [Requests -> Phases]
    BY <1>6 DEF TimeoutFallback, Phases
  <2>2. locals' \in [Targets -> Nat]
    BY <1>6, BumpType, SMTT(60) DEF TimeoutFallback
  <2>3. outcome' \in [Requests -> Dispositions \cup {"none"}]
    BY <1>6 DEF TimeoutFallback, Branch, ZoneClass, Dispositions
  <2> QED
    BY <1>6, <2>1, <2>2, <2>3 DEF TimeoutFallback, prepareVars, boundaryVars
<1>7. ASSUME NEW c \in Calls, Assemble(c) PROVE TypeOK'
  <2>1. ASSUME CachePut(c)
        PROVE  /\ cache' \subseteq Calls
               /\ mappings' \subseteq Calls
               /\ cacheAge' \in [Calls -> 0 .. TTL + 1]
    BY <2>1 DEF CachePut, Swept
  <2>2. ASSUME calls' = [calls EXCEPT ![c[1]] = Append(@, c[2])]
        PROVE  calls' \in [Requests -> Seq(Targets)]
    BY <2>2
  <2>3. CASE AssembleReady(c)
    BY <2>1, <2>2, <2>3 DEF AssembleReady, CallStates, Tiers, ledgerVars, resultVars
  <2>4. CASE AssembleMixed(c)
    BY <2>1, <2>2, <2>4 DEF AssembleMixed, CallStates, Tiers, ledgerVars, resultVars
  <2>5. CASE AssembleSecret(c)
    BY <2>5 DEF AssembleSecret, Swept, CallStates, Tiers, ledgerVars, resultVars
  <2>6. ASSUME NEW e \in Errors, AssembleFails(c, e) PROVE TypeOK'
    BY <2>6 DEF AssembleFails, CallStates, boundaryVars, ledgerVars, resultVars
  <2> QED
    BY <1>7, <2>3, <2>4, <2>5, <2>6 DEF Assemble
<1>8. ASSUME NEW c \in Calls, ZoneAnswer(c) PROVE TypeOK'
  <2>1. /\ state' \in [Calls -> CallStates]
        /\ error' \in [Calls -> Errors]
        /\ cache' \subseteq Calls
        /\ mappings' \subseteq Calls
    BY <1>8 DEF ZoneAnswer, CallStates, Errors
  <2>2. locals' \in [Targets -> Nat]
    <3> DEFINE n == IF shape[c] = "mixed" THEN 2 ELSE 1
    <3>1. n \in Nat
        OBVIOUS
    <3>2. locals' = locals \/ locals' = [locals EXCEPT ![c[2]] = @ + n]
        BY <1>8 DEF ZoneAnswer
    <3>3. [locals EXCEPT ![c[2]] = @ + n] \in [Targets -> Nat]
        BY <3>1, BumpType
    <3> QED
        BY <3>2, <3>3
  <2>3. calls' \in [Requests -> Seq(Targets)]
    <3>1. PopLast(calls[c[1]]) \in Seq(Targets)
        BY PopLastType
    <3>2. \/ calls' = calls
          \/ calls' = [calls EXCEPT ![c[1]] = PopLast(calls[c[1]])]
        BY <1>8 DEF ZoneAnswer
    <3> QED
        BY <3>1, <3>2
  <2> QED
    BY <1>8, <2>1, <2>2, <2>3 DEF ZoneAnswer, resultVars
<1>9. ASSUME NEW c \in Calls, NEW counted \in BOOLEAN, BlockedCall(c, counted)
      PROVE  TypeOK'
  <2>1. /\ phase' \in [Requests -> Phases]
        /\ state' \in [Calls -> CallStates]
        /\ error' \in [Calls -> Errors]
    BY <1>9, ZenonT(60) DEF BlockedCall, Phases, CallStates, Errors
  <2>2. locals' \in [Targets -> Nat]
    <3>1. locals' = locals \/ locals' = [locals EXCEPT ![c[2]] = @ + 1]
        BY <1>9 DEF BlockedCall
    <3>2. [locals EXCEPT ![c[2]] = @ + 1] \in [Targets -> Nat]
        BY BumpType
    <3> QED
        BY <3>1, <3>2
  <2> QED
    BY <1>9, <2>1, <2>2 DEF BlockedCall, prepareVars, boundaryVars, resultVars
<1>10. ASSUME NEW c \in Calls, NEW d \in {"auto", "unverified", "escalate"},
              BrokerAnswers(c, d)
       PROVE  TypeOK'
    BY <1>10 DEF BrokerAnswers, Cleared, CallStates, Dispositions, prepareVars, ledgerVars,
                 resultVars
<1>11. ASSUME NEW c \in Calls, NEW e \in Errors, BrokerFails(c, e) PROVE TypeOK'
    BY <1>11 DEF BrokerFails, Cleared, CallStates, prepareVars, ledgerVars, resultVars
<1>12. ASSUME NEW c \in Calls, Fallback(c) PROVE TypeOK'
  <2>1. /\ phase' \in [Requests -> Phases]
        /\ state' \in [Calls -> CallStates]
        /\ error' \in [Calls -> Errors]
        /\ disposition' \in [Calls -> Dispositions \cup {"none"}]
    BY <1>12, ZenonT(60) DEF Fallback, Phases, CallStates, Errors, Dispositions
  <2>2. locals' \in [Targets -> Nat]
    <3>1. locals' = locals \/ locals' = [locals EXCEPT ![c[2]] = @ + 1]
        BY <1>12 DEF Fallback
    <3>2. [locals EXCEPT ![c[2]] = @ + 1] \in [Targets -> Nat]
        BY BumpType
    <3> QED
        BY <3>1, <3>2
  <2> QED
    BY <1>12, <2>1, <2>2 DEF Fallback, prepareVars, boundaryVars, resultVars
<1>13. ASSUME NEW c \in Calls, EscalateDraft(c) PROVE TypeOK'
  <2>1. drafts' \in [Targets -> Nat]
    BY <1>13, BumpType DEF EscalateDraft
  <2> QED
    BY <1>13, <2>1 DEF EscalateDraft, CallStates, prepareVars, boundaryVars, resultVars
<1>14. ASSUME NEW c \in Calls, EscalateAdd(c) PROVE TypeOK'
  <2>1. items' \in [Calls -> Nat]
    BY <1>14, BumpType DEF EscalateAdd
  <2> QED
    BY <1>14, <2>1 DEF EscalateAdd, CallStates, prepareVars, boundaryVars, ledgerVars, resultVars
<1>15. CASE Tick
    BY <1>15, OlderType DEF Tick, ledgerVars, resultVars
<1>16. CASE UNCHANGED vars
    BY <1>16 DEF vars
<1> QED
    BY <1>1, <1>2, <1>3, <1>4, <1>5, <1>6, <1>7, <1>8, <1>9, <1>10, <1>11, <1>12, <1>13,
       <1>14, <1>15, <1>16 DEF Next, Block

\* The state of prepare() and send() is well typed, whatever the interleaving.
THEOREM TypeCorrect == Spec => []TypeOK
BY TypeInit, TypeStep, PTL DEF Spec

LEMMA RangeAppend ==
    ASSUME NEW S, NEW s \in Seq(S), NEW e \in S
    PROVE  Range(Append(s, e)) = Range(s) \cup {e}
BY SMTT(60) DEF Range

\* answer_in_zone cannot record the reason both SECRET paths give it.
LEMMA SecretRaises == ZoneRaises("secret_tier_local")
BY DEF ZoneRaises, RecordedReason, LOCAL_REASON_LABELS, LOCAL_REASON_CODES

\* The phase of a request bounds the states of its calls.
LEMMA PhaseStatesStep ==
    TypeOK /\ PhaseStates /\ [Next]_vars => PhaseStates'
<1> SUFFICES ASSUME TypeOK, PhaseStates, [Next]_vars PROVE PhaseStates'
    OBVIOUS
<1> USE CallParts DEF TypeOK, PhaseStates, CallsOf, Calls
<1>1. ASSUME NEW r \in Requests, NEW ts \in SUBSET Targets, Prepare(r, ts)
      PROVE  PhaseStates'
    BY <1>1 DEF Prepare, boundaryVars, ledgerVars, resultVars
<1>2. ASSUME NEW r \in Requests, PrepareDone(r)
      PROVE  PhaseStates'
    BY <1>2 DEF PrepareDone, boundaryVars, ledgerVars, resultVars
<1>3. ASSUME NEW r \in Requests, NEW ts \in SUBSET Targets, Send(r, ts)
      PROVE  PhaseStates'
  <2> DEFINE selected == Selected(r, ts)
             taken == Taken(selected)
             crossing == taken \ Limited(taken)
  <2>1. /\ selected \subseteq Calls
        /\ \A b \in selected : b[1] = r /\ b[2] \in ts
        /\ crossing \subseteq taken /\ taken \subseteq selected
    BY DEF Selected, Taken
  <2>2. \A b \in Calls : b \notin selected => state'[b] = state[b]
    BY <1>3, <2>1 DEF Send
  <2>3. /\ \A q \in Requests : q # r => phase'[q] = phase[q]
        /\ phase'[r] \in {"raised", "sending"}
        /\ pending' = pending \ {r}
    BY <1>3 DEF Send, Popped
  <2> HIDE DEF selected, taken, crossing
  <2> QED
    BY <2>1, <2>2, <2>3
<1>4. ASSUME NEW r \in Requests, Finish(r)
      PROVE  PhaseStates'
    BY <1>4 DEF Finish, prepareVars, boundaryVars, ledgerVars
<1>5. ASSUME NEW r \in Requests, Timeout(r)
      PROVE  PhaseStates'
    BY <1>5 DEF Timeout, prepareVars, ledgerVars, resultVars
<1>6. ASSUME NEW r \in Requests, TimeoutFallback(r)
      PROVE  PhaseStates'
  <2>1. /\ state' = state /\ pending' = pending
        /\ \A q \in Requests : q # r => phase'[q] = phase[q]
        /\ phase'[r] \in {"done", "raised"} /\ r \notin pending
    BY <1>6 DEF TimeoutFallback, prepareVars
  <2>2. ASSUME NEW q \in Requests
        PROVE  /\ phase'[q] = "new" => \A b \in CallsOf(q) : state'[b] = "idle"
               /\ phase'[q] = "prepared" =>
                    \A b \in CallsOf(q) : state'[b] \in {"idle", "ready", "blocked"}
               /\ q \in pending' => phase'[q] = "prepared"
    <3>1. CASE q = r
        BY <2>1, <3>1
    <3>2. CASE q # r
        BY <2>1, <3>2
    <3> QED
        BY <3>1, <3>2
  <2> QED
    BY <2>2
<1>7. ASSUME NEW c \in Calls, AssembleReady(c)
      PROVE  PhaseStates'
    BY <1>7 DEF AssembleReady, ledgerVars, resultVars
<1>8. ASSUME NEW c \in Calls, AssembleMixed(c)
      PROVE  PhaseStates'
    BY <1>8 DEF AssembleMixed, ledgerVars, resultVars
<1>9. ASSUME NEW c \in Calls, AssembleSecret(c)
      PROVE  PhaseStates'
    BY <1>9 DEF AssembleSecret, ledgerVars, resultVars
<1>10. ASSUME NEW c \in Calls, NEW e \in Errors, AssembleFails(c, e)
      PROVE  PhaseStates'
    BY <1>10 DEF AssembleFails, boundaryVars, ledgerVars, resultVars
<1>11. ASSUME NEW c \in Calls, ZoneAnswer(c)
      PROVE  PhaseStates'
  <2>1. phase[c[1]] \notin {"new", "prepared"}
    <3>1. c \in CallsOf(c[1]) /\ c[1] \in Requests
        OBVIOUS
    <3> QED
        BY <1>11, <3>1, ZenonT(60) DEF ZoneAnswer
  <2>2. /\ \A b \in Calls : b # c => state'[b] = state[b]
        /\ pending' = pending
        /\ phase' = phase
    BY <1>11 DEF ZoneAnswer
  <2>3. \A q \in Requests : c \in CallsOf(q) => q = c[1]
    OBVIOUS
  <2>4. ASSUME NEW q \in Requests
        PROVE  /\ phase'[q] = "new" => \A b \in CallsOf(q) : state'[b] = "idle"
               /\ phase'[q] = "prepared" =>
                    \A b \in CallsOf(q) : state'[b] \in {"idle", "ready", "blocked"}
               /\ q \in pending' => phase'[q] = "prepared"
    <3>1. CASE q = c[1]
        BY <2>1, <2>2, <2>3, <3>1
    <3>2. CASE q # c[1]
        BY <2>1, <2>2, <2>3, <3>2, ZenonT(60)
    <3> QED
        BY <3>1, <3>2
  <2> QED
    BY <2>4
<1>12. ASSUME NEW c \in Calls, NEW counted \in BOOLEAN, BlockedCall(c, counted)
      PROVE  PhaseStates'
  <2>1. phase[c[1]] \notin {"new", "prepared"}
    <3>1. c \in CallsOf(c[1]) /\ c[1] \in Requests
        OBVIOUS
    <3> QED
        BY <1>12, <3>1 DEF BlockedCall
  <2>2. /\ \A b \in Calls : b # c => state'[b] = state[b]
        /\ pending' = pending
        /\ \A q \in Requests : phase'[q] = phase[q] \/ (q = c[1] /\ phase'[q] = "raised")
    BY <1>12 DEF BlockedCall, prepareVars
  <2>3. \A q \in Requests : c \in CallsOf(q) => q = c[1]
    OBVIOUS
  <2>4. ASSUME NEW q \in Requests
        PROVE  /\ phase'[q] = "new" => \A b \in CallsOf(q) : state'[b] = "idle"
               /\ phase'[q] = "prepared" =>
                    \A b \in CallsOf(q) : state'[b] \in {"idle", "ready", "blocked"}
               /\ q \in pending' => phase'[q] = "prepared"
    <3>1. CASE q = c[1]
        BY <2>1, <2>2, <2>3, <3>1
    <3>2. CASE q # c[1]
        BY <2>1, <2>2, <2>3, <3>2, SMTT(60)
    <3> QED
        BY <3>1, <3>2
  <2> QED
    BY <2>4
<1>13. ASSUME NEW c \in Calls, NEW d \in {"auto", "unverified", "escalate"},
              BrokerAnswers(c, d)
      PROVE  PhaseStates'
    BY <1>13 DEF BrokerAnswers, prepareVars, ledgerVars, resultVars
<1>14. ASSUME NEW c \in Calls, NEW e \in Errors, BrokerFails(c, e)
      PROVE  PhaseStates'
    BY <1>14 DEF BrokerFails, prepareVars, ledgerVars, resultVars
<1>15. ASSUME NEW c \in Calls, Fallback(c)
      PROVE  PhaseStates'
  <2>1. phase[c[1]] \notin {"new", "prepared"}
    <3>1. c \in CallsOf(c[1]) /\ c[1] \in Requests
        OBVIOUS
    <3> QED
        BY <1>15, <3>1 DEF Fallback
  <2>2. /\ \A b \in Calls : b # c => state'[b] = state[b]
        /\ pending' = pending
        /\ \A q \in Requests : phase'[q] = phase[q] \/ (q = c[1] /\ phase'[q] = "raised")
    BY <1>15 DEF Fallback, prepareVars
  <2>3. \A q \in Requests : c \in CallsOf(q) => q = c[1]
    OBVIOUS
  <2>4. ASSUME NEW q \in Requests
        PROVE  /\ phase'[q] = "new" => \A b \in CallsOf(q) : state'[b] = "idle"
               /\ phase'[q] = "prepared" =>
                    \A b \in CallsOf(q) : state'[b] \in {"idle", "ready", "blocked"}
               /\ q \in pending' => phase'[q] = "prepared"
    <3>1. CASE q = c[1]
        BY <2>1, <2>2, <2>3, <3>1
    <3>2. CASE q # c[1]
        BY <2>1, <2>2, <2>3, <3>2, SMTT(60)
    <3> QED
        BY <3>1, <3>2
  <2> QED
    BY <2>4
<1>16. ASSUME NEW c \in Calls, EscalateDraft(c)
      PROVE  PhaseStates'
    BY <1>16 DEF EscalateDraft, NeedsReview, prepareVars, boundaryVars, resultVars
<1>17. ASSUME NEW c \in Calls, EscalateAdd(c)
      PROVE  PhaseStates'
    BY <1>17 DEF EscalateAdd, prepareVars, boundaryVars, ledgerVars, resultVars
<1>18. CASE Tick
    BY <1>18 DEF Tick, Older, ledgerVars, resultVars
<1>19. CASE UNCHANGED vars
    BY <1>19 DEF vars
<1> HIDE CallParts DEF TypeOK, PhaseStates, CallsOf, Calls
<1> QED
  <2>1. ASSUME NEW c \in Calls, Assemble(c) PROVE PhaseStates'
    BY <1>7, <1>8, <1>9, <1>10, <2>1 DEF Assemble
  <2>2. ASSUME NEW c \in Calls, Block(c) PROVE PhaseStates'
    BY <1>12, <2>2 DEF Block
  <2> QED
    BY <1>1, <1>2, <1>3, <1>4, <1>5, <1>6, <1>11, <1>13, <1>14, <1>15, <1>16, <1>17,
       <1>18, <1>19, <2>1, <2>2 DEF Next

\* An envelope enters the cache once, when its evidence is known, and a sent one has left.
LEMMA ShapeKnownStep ==
    TypeOK /\ PhaseStates /\ ShapeKnown /\ [Next]_vars => ShapeKnown'
<1> SUFFICES ASSUME TypeOK, PhaseStates, ShapeKnown, [Next]_vars PROVE ShapeKnown'
    OBVIOUS
<1> USE CallParts DEF TypeOK, PhaseStates, ShapeKnown, SentStates, CallsOf, Calls
<1>1. ASSUME NEW r \in Requests, NEW ts \in SUBSET Targets, Prepare(r, ts)
      PROVE  ShapeKnown'
    BY <1>1 DEF Prepare, boundaryVars, ledgerVars, resultVars
<1>2. ASSUME NEW r \in Requests, PrepareDone(r)
      PROVE  ShapeKnown'
    BY <1>2 DEF PrepareDone, boundaryVars, ledgerVars, resultVars
<1>3. ASSUME NEW r \in Requests, NEW ts \in SUBSET Targets, Send(r, ts)
      PROVE  ShapeKnown'
  <2> DEFINE selected == Selected(r, ts)
             taken == Taken(selected)
             crossing == taken \ Limited(taken)
  <2>1. /\ selected \subseteq Calls
        /\ \A b \in selected : b[1] = r /\ b[2] \in ts
        /\ crossing \subseteq taken /\ taken \subseteq selected
    BY DEF Selected, Taken
  <2>2. /\ \A b \in Calls : b \notin selected => state'[b] = state[b]
        /\ \A b \in selected : state'[b] \in {"inflight", "sendfailed"}
    BY <1>3, <2>1 DEF Send
  <2>3. shape' = shape /\ cache' \subseteq cache
    BY <1>3 DEF Send, Swept
  <2>4. selected # {} => cache' \cap selected = {}
    BY <1>3 DEF Send, Taken
  <2> HIDE DEF selected, taken, crossing
  <2> QED
    BY <2>1, <2>2, <2>3, <2>4
<1>4. ASSUME NEW r \in Requests, Finish(r)
      PROVE  ShapeKnown'
    BY <1>4 DEF Finish, prepareVars, boundaryVars, ledgerVars
<1>5. ASSUME NEW r \in Requests, Timeout(r)
      PROVE  ShapeKnown'
    BY <1>5 DEF Timeout, prepareVars, ledgerVars, resultVars
<1>6. ASSUME NEW r \in Requests, TimeoutFallback(r)
      PROVE  ShapeKnown'
    BY <1>6 DEF TimeoutFallback, prepareVars, boundaryVars
<1>7. ASSUME NEW c \in Calls, AssembleReady(c)
      PROVE  ShapeKnown'
    BY <1>7 DEF AssembleReady, CachePut, Swept, ledgerVars, resultVars
<1>8. ASSUME NEW c \in Calls, AssembleMixed(c)
      PROVE  ShapeKnown'
    BY <1>8 DEF AssembleMixed, CachePut, Swept, ledgerVars, resultVars
<1>9. ASSUME NEW c \in Calls, AssembleSecret(c)
      PROVE  ShapeKnown'
    BY <1>9 DEF AssembleSecret, Swept, ledgerVars, resultVars
<1>10. ASSUME NEW c \in Calls, NEW e \in Errors, AssembleFails(c, e)
      PROVE  ShapeKnown'
    BY <1>10 DEF AssembleFails, boundaryVars, ledgerVars, resultVars
<1>11. ASSUME NEW c \in Calls, ZoneAnswer(c)
      PROVE  ShapeKnown'
    BY <1>11 DEF ZoneAnswer, resultVars
<1>12. ASSUME NEW c \in Calls, NEW counted \in BOOLEAN, BlockedCall(c, counted)
      PROVE  ShapeKnown'
    BY <1>12 DEF BlockedCall, prepareVars, boundaryVars, resultVars
<1>13. ASSUME NEW c \in Calls, NEW d \in {"auto", "unverified", "escalate"},
              BrokerAnswers(c, d)
      PROVE  ShapeKnown'
    BY <1>13 DEF BrokerAnswers, prepareVars, ledgerVars, resultVars
<1>14. ASSUME NEW c \in Calls, NEW e \in Errors, BrokerFails(c, e)
      PROVE  ShapeKnown'
    BY <1>14 DEF BrokerFails, prepareVars, ledgerVars, resultVars
<1>15. ASSUME NEW c \in Calls, Fallback(c)
      PROVE  ShapeKnown'
    BY <1>15 DEF Fallback, prepareVars, boundaryVars, resultVars
<1>16. ASSUME NEW c \in Calls, EscalateDraft(c)
      PROVE  ShapeKnown'
    BY <1>16 DEF EscalateDraft, NeedsReview, prepareVars, boundaryVars, resultVars
<1>17. ASSUME NEW c \in Calls, EscalateAdd(c)
      PROVE  ShapeKnown'
    BY <1>17 DEF EscalateAdd, prepareVars, boundaryVars, ledgerVars, resultVars
<1>18. CASE Tick
    BY <1>18 DEF Tick, Older, ledgerVars, resultVars
<1>19. CASE UNCHANGED vars
    BY <1>19 DEF vars
<1> HIDE CallParts DEF TypeOK, PhaseStates, ShapeKnown, SentStates, CallsOf, Calls
<1> QED
  <2>1. ASSUME NEW c \in Calls, Assemble(c) PROVE ShapeKnown'
    BY <1>7, <1>8, <1>9, <1>10, <2>1 DEF Assemble
  <2>2. ASSUME NEW c \in Calls, Block(c) PROVE ShapeKnown'
    BY <1>12, <2>2 DEF Block
  <2> QED
    BY <1>1, <1>2, <1>3, <1>4, <1>5, <1>6, <1>11, <1>13, <1>14, <1>15, <1>16, <1>17,
       <1>18, <1>19, <2>1, <2>2 DEF Next

\* Nothing above the line between ready and sent holds without shape and approval.
LEMMA SentCallsStep ==
    TypeOK /\ PhaseStates /\ SentCalls /\ [Next]_vars => SentCalls'
<1> SUFFICES ASSUME TypeOK, PhaseStates, SentCalls, [Next]_vars PROVE SentCalls'
    OBVIOUS
<1> USE CallParts DEF TypeOK, PhaseStates, SentCalls, SentStates, CallsOf, Calls
<1>1. ASSUME NEW r \in Requests, NEW ts \in SUBSET Targets, Prepare(r, ts)
      PROVE  SentCalls'
    BY <1>1 DEF Prepare, boundaryVars, ledgerVars, resultVars
<1>2. ASSUME NEW r \in Requests, PrepareDone(r)
      PROVE  SentCalls'
    BY <1>2 DEF PrepareDone, boundaryVars, ledgerVars, resultVars
<1>3. ASSUME NEW r \in Requests, NEW ts \in SUBSET Targets, Send(r, ts)
      PROVE  SentCalls'
  <2> DEFINE selected == Selected(r, ts)
             taken == Taken(selected)
             crossing == taken \ Limited(taken)
  <2>1. /\ selected \subseteq Calls
        /\ \A b \in selected : b[1] = r /\ b[2] \in ts
        /\ crossing \subseteq taken /\ taken \subseteq selected
    BY DEF Selected, Taken
  <2>2. /\ \A b \in Calls : b \notin selected => state'[b] = state[b]
        /\ \A b \in selected : state'[b] \in {"inflight", "sendfailed"}
    BY <1>3, <2>1 DEF Send
  <2>3. /\ approved' = [approved EXCEPT ![r] = ts]
        /\ crossed' \subseteq crossed \cup crossing
        /\ shape' = shape /\ items' = items
    BY <1>3 DEF Send
  <2>4. phase[r] = "prepared" /\ \A t \in ts : state[<<r, t>>] = "ready"
    <3>1. r \in pending /\ \A t \in ts : state[<<r, t>>] \in {"ready"} \cup SentStates
        BY <1>3 DEF Send
    <3>2. phase[r] = "prepared"
        BY <3>1
    <3>3. \A t \in ts : state[<<r, t>>] \in {"idle", "ready", "blocked"}
        BY <3>2
    <3> QED
        BY <3>1, <3>2, <3>3
  <2>5. \A b \in Calls : b[1] = r => /\ state[b] \in {"idle", "ready", "blocked"}
                                   /\ b \notin crossed
                                   /\ ~ (items[b] > 0)
    <3>1. \A b \in Calls : b[1] = r => state[b] \in {"idle", "ready", "blocked"}
        BY <2>4
    <3> QED
        BY <3>1, ZenonT(60)
  <2>6. \A b \in selected : state[b] = "ready"
    BY <2>1, <2>4
  <2> HIDE DEF selected, taken, crossing
  <2>7. ASSUME NEW b \in Calls, b \in selected
        PROVE  /\ shape'[b] = "below" /\ state'[b] \in SentStates
               /\ b[2] \in approved'[b[1]] /\ ~ (items'[b] > 0)
    BY <2>1, <2>2, <2>3, <2>5, <2>6, <2>7
  <2>8. ASSUME NEW b \in Calls, b \notin selected
        PROVE  /\ state'[b] = state[b] /\ shape'[b] = shape[b] /\ items'[b] = items[b]
               /\ b \in crossed' => b \in crossed
               /\ state[b] \in SentStates => approved'[b[1]] = approved[b[1]]
    BY <2>1, <2>2, <2>3, <2>5, <2>8
  <2> QED
    BY <2>7, <2>8
<1>4. ASSUME NEW r \in Requests, Finish(r)
      PROVE  SentCalls'
    BY <1>4 DEF Finish, prepareVars, boundaryVars, ledgerVars
<1>5. ASSUME NEW r \in Requests, Timeout(r)
      PROVE  SentCalls'
    BY <1>5 DEF Timeout, prepareVars, ledgerVars, resultVars
<1>6. ASSUME NEW r \in Requests, TimeoutFallback(r)
      PROVE  SentCalls'
    BY <1>6 DEF TimeoutFallback, prepareVars, boundaryVars
<1>7. ASSUME NEW c \in Calls, AssembleReady(c)
      PROVE  SentCalls'
    BY <1>7 DEF AssembleReady, CachePut, ledgerVars, resultVars
<1>8. ASSUME NEW c \in Calls, AssembleMixed(c)
      PROVE  SentCalls'
    BY <1>8 DEF AssembleMixed, CachePut, ledgerVars, resultVars
<1>9. ASSUME NEW c \in Calls, AssembleSecret(c)
      PROVE  SentCalls'
    BY <1>9 DEF AssembleSecret, ledgerVars, resultVars
<1>10. ASSUME NEW c \in Calls, NEW e \in Errors, AssembleFails(c, e)
      PROVE  SentCalls'
    BY <1>10 DEF AssembleFails, boundaryVars, ledgerVars, resultVars
<1>11. ASSUME NEW c \in Calls, ZoneAnswer(c)
      PROVE  SentCalls'
    BY <1>11 DEF ZoneAnswer, resultVars
<1>12. ASSUME NEW c \in Calls, NEW counted \in BOOLEAN, BlockedCall(c, counted)
      PROVE  SentCalls'
    BY <1>12, SMTT(60) DEF BlockedCall, prepareVars, boundaryVars, resultVars
<1>13. ASSUME NEW c \in Calls, NEW d \in {"auto", "unverified", "escalate"},
              BrokerAnswers(c, d)
      PROVE  SentCalls'
    BY <1>13 DEF BrokerAnswers, prepareVars, ledgerVars, resultVars
<1>14. ASSUME NEW c \in Calls, NEW e \in Errors, BrokerFails(c, e)
      PROVE  SentCalls'
    BY <1>14 DEF BrokerFails, prepareVars, ledgerVars, resultVars
<1>15. ASSUME NEW c \in Calls, Fallback(c)
      PROVE  SentCalls'
    BY <1>15 DEF Fallback, prepareVars, boundaryVars, resultVars
<1>16. ASSUME NEW c \in Calls, EscalateDraft(c)
      PROVE  SentCalls'
    BY <1>16 DEF EscalateDraft, NeedsReview, prepareVars, boundaryVars, resultVars
<1>17. ASSUME NEW c \in Calls, EscalateAdd(c)
      PROVE  SentCalls'
    BY <1>17, SMTT(60) DEF EscalateAdd, prepareVars, boundaryVars, ledgerVars, resultVars
<1>18. CASE Tick
    BY <1>18 DEF Tick, Older, ledgerVars, resultVars
<1>19. CASE UNCHANGED vars
    BY <1>19 DEF vars
<1> HIDE CallParts DEF TypeOK, PhaseStates, SentCalls, SentStates, CallsOf, Calls
<1> QED
  <2>1. ASSUME NEW c \in Calls, Assemble(c) PROVE SentCalls'
    BY <1>7, <1>8, <1>9, <1>10, <2>1 DEF Assemble
  <2>2. ASSUME NEW c \in Calls, Block(c) PROVE SentCalls'
    BY <1>12, <2>2 DEF Block
  <2> QED
    BY <1>1, <1>2, <1>3, <1>4, <1>5, <1>6, <1>11, <1>13, <1>14, <1>15, <1>16, <1>17,
       <1>18, <1>19, <2>1, <2>2 DEF Next

\* Only the sweep and take remove the entry of a ready call, and only a mixed call's
\* pop, which is not reached, could remove its PendingCall.
LEMMA ReadyStoredStep ==
    TypeOK /\ PhaseStates /\ ReadyStored /\ [Next]_vars => ReadyStored'
<1> SUFFICES ASSUME TypeOK, PhaseStates, ReadyStored, [Next]_vars PROVE ReadyStored'
    OBVIOUS
<1> USE CallParts DEF TypeOK, PhaseStates, ReadyStored, CallsOf, Calls, TTL_SECONDS
<1>1. ASSUME NEW r \in Requests, NEW ts \in SUBSET Targets, Prepare(r, ts)
      PROVE  ReadyStored'
    BY <1>1 DEF Prepare, boundaryVars, ledgerVars, resultVars
<1>2. ASSUME NEW r \in Requests, PrepareDone(r)
      PROVE  ReadyStored'
    BY <1>2 DEF PrepareDone, boundaryVars, ledgerVars, resultVars
<1>3. ASSUME NEW r \in Requests, NEW ts \in SUBSET Targets, Send(r, ts)
      PROVE  ReadyStored'
  <2> DEFINE selected == Selected(r, ts)
             taken == Taken(selected)
             crossing == taken \ Limited(taken)
  <2>1. /\ selected \subseteq Calls
        /\ \A b \in selected : b[1] = r /\ b[2] \in ts
        /\ crossing \subseteq taken /\ taken \subseteq selected
    BY DEF Selected, Taken
  <2>2. /\ \A b \in Calls : b \notin selected => state'[b] = state[b]
        /\ \A b \in selected : state'[b] \in {"inflight", "sendfailed"}
    BY <1>3, <2>1 DEF Send
  <2>3. calls' = calls /\ cacheAge' = cacheAge
    BY <1>3 DEF Send
  <2>4. \A b \in cache : b \in cache' \/ b \in taken \/ cacheAge[b] > TTL
    BY <1>3 DEF Send, Swept, Expired
  <2> HIDE DEF selected, taken, crossing
  <2> QED
    BY <2>1, <2>2, <2>3, <2>4, ZenonT(60)
<1>4. ASSUME NEW r \in Requests, Finish(r)
      PROVE  ReadyStored'
    BY <1>4 DEF Finish, prepareVars, boundaryVars, ledgerVars
<1>5. ASSUME NEW r \in Requests, Timeout(r)
      PROVE  ReadyStored'
    BY <1>5 DEF Timeout, prepareVars, ledgerVars, resultVars
<1>6. ASSUME NEW r \in Requests, TimeoutFallback(r)
      PROVE  ReadyStored'
    BY <1>6 DEF TimeoutFallback, prepareVars, boundaryVars
<1>7. ASSUME NEW c \in Calls, AssembleReady(c)
      PROVE  ReadyStored'
  <2>1. \A r \in Requests : Range(calls[r]) \subseteq Range(calls'[r])
        /\ c[2] \in Range(calls'[c[1]])
    <3>1. calls' = [calls EXCEPT ![c[1]] = Append(calls[c[1]], c[2])]
        BY <1>7 DEF AssembleReady
    <3>2. Range(Append(calls[c[1]], c[2])) = Range(calls[c[1]]) \cup {c[2]}
        BY RangeAppend
    <3> QED
        BY <3>1, <3>2
  <2>2. /\ cache' = (cache \ {b \in cache : cacheAge[b] > TTL}) \cup {c}
        /\ cacheAge' = [cacheAge EXCEPT ![c] = 0]
        /\ \A b \in Calls : b # c => state'[b] = state[b]
    BY <1>7 DEF AssembleReady, CachePut, Swept, Expired
  <2>3. ASSUME NEW b \in Calls, b # c, state'[b] = "ready"
        PROVE  b[2] \in Range(calls'[b[1]]) /\ (b \in cache' \/ cacheAge'[b] > TTL)
    BY <2>1, <2>2, <2>3
  <2> QED
    BY <2>1, <2>2, <2>3
<1>8. ASSUME NEW c \in Calls, AssembleMixed(c)
      PROVE  ReadyStored'
  <2>1. \A r \in Requests : Range(calls[r]) \subseteq Range(calls'[r])
        /\ c[2] \in Range(calls'[c[1]])
    <3>1. calls' = [calls EXCEPT ![c[1]] = Append(calls[c[1]], c[2])]
        BY <1>8 DEF AssembleMixed
    <3>2. Range(Append(calls[c[1]], c[2])) = Range(calls[c[1]]) \cup {c[2]}
        BY RangeAppend
    <3> QED
        BY <3>1, <3>2
  <2>2. /\ cache' = (cache \ {b \in cache : cacheAge[b] > TTL}) \cup {c}
        /\ cacheAge' = [cacheAge EXCEPT ![c] = 0]
        /\ \A b \in Calls : b # c => state'[b] = state[b]
    BY <1>8 DEF AssembleMixed, CachePut, Swept, Expired
  <2>3. ASSUME NEW b \in Calls, b # c, state'[b] = "ready"
        PROVE  b[2] \in Range(calls'[b[1]]) /\ (b \in cache' \/ cacheAge'[b] > TTL)
    BY <2>1, <2>2, <2>3
  <2> QED
    BY <2>1, <2>2, <2>3
<1>9. ASSUME NEW c \in Calls, AssembleSecret(c)
      PROVE  ReadyStored'
    BY <1>9 DEF AssembleSecret, Swept, Expired, ledgerVars, resultVars
<1>10. ASSUME NEW c \in Calls, NEW e \in Errors, AssembleFails(c, e)
      PROVE  ReadyStored'
    BY <1>10 DEF AssembleFails, boundaryVars, ledgerVars, resultVars
<1>11. ASSUME NEW c \in Calls, ZoneAnswer(c)
      PROVE  ReadyStored'
    BY <1>11, SecretRaises DEF ZoneAnswer
<1>12. ASSUME NEW c \in Calls, NEW counted \in BOOLEAN, BlockedCall(c, counted)
      PROVE  ReadyStored'
    BY <1>12 DEF BlockedCall, prepareVars, boundaryVars, resultVars
<1>13. ASSUME NEW c \in Calls, NEW d \in {"auto", "unverified", "escalate"},
              BrokerAnswers(c, d)
      PROVE  ReadyStored'
    BY <1>13 DEF BrokerAnswers, prepareVars, ledgerVars, resultVars
<1>14. ASSUME NEW c \in Calls, NEW e \in Errors, BrokerFails(c, e)
      PROVE  ReadyStored'
    BY <1>14 DEF BrokerFails, prepareVars, ledgerVars, resultVars
<1>15. ASSUME NEW c \in Calls, Fallback(c)
      PROVE  ReadyStored'
  <2>1. UNCHANGED <<calls, cache, cacheAge>>
    BY <1>15 DEF Fallback, prepareVars, boundaryVars
  <2>2. state' = state \/ state' = [state EXCEPT ![c] = "fellback"]
    BY <1>15 DEF Fallback
  <2> QED
    BY <2>1, <2>2
<1>16. ASSUME NEW c \in Calls, EscalateDraft(c)
      PROVE  ReadyStored'
    BY <1>16 DEF EscalateDraft, NeedsReview, prepareVars, boundaryVars, resultVars
<1>17. ASSUME NEW c \in Calls, EscalateAdd(c)
      PROVE  ReadyStored'
    BY <1>17 DEF EscalateAdd, prepareVars, boundaryVars, ledgerVars, resultVars
<1>18. CASE Tick
    BY <1>18 DEF Tick, Older, ledgerVars, resultVars
<1>19. CASE UNCHANGED vars
    BY <1>19 DEF vars
<1> HIDE CallParts DEF TypeOK, PhaseStates, ReadyStored, CallsOf, Calls, TTL_SECONDS
<1> QED
  <2>1. ASSUME NEW c \in Calls, Assemble(c) PROVE ReadyStored'
    BY <1>7, <1>8, <1>9, <1>10, <2>1 DEF Assemble
  <2>2. ASSUME NEW c \in Calls, Block(c) PROVE ReadyStored'
    BY <1>12, <2>2 DEF Block
  <2> QED
    BY <1>1, <1>2, <1>3, <1>4, <1>5, <1>6, <1>11, <1>13, <1>14, <1>15, <1>16, <1>17,
       <1>18, <1>19, <2>1, <2>2 DEF Next

\* Each way a call leaves the cache or the broker empties its table.
LEMMA MappingHygieneStep ==
    TypeOK /\ PhaseStates /\ MappingHygiene /\ [Next]_vars => MappingHygiene'
<1> SUFFICES ASSUME TypeOK, PhaseStates, MappingHygiene, [Next]_vars PROVE MappingHygiene'
    OBVIOUS
<1> USE CallParts DEF TypeOK, PhaseStates, MappingHygiene, CallsOf, Calls
<1>1. ASSUME NEW r \in Requests, NEW ts \in SUBSET Targets, Prepare(r, ts)
      PROVE  MappingHygiene'
    BY <1>1 DEF Prepare, boundaryVars, ledgerVars, resultVars
<1>2. ASSUME NEW r \in Requests, PrepareDone(r)
      PROVE  MappingHygiene'
    BY <1>2 DEF PrepareDone, boundaryVars, ledgerVars, resultVars
<1>3. ASSUME NEW r \in Requests, NEW ts \in SUBSET Targets, Send(r, ts)
      PROVE  MappingHygiene'
  <2> DEFINE selected == Selected(r, ts)
             taken == Taken(selected)
             crossing == taken \ Limited(taken)
  <2>1. /\ selected \subseteq Calls
        /\ \A b \in selected : b[1] = r /\ b[2] \in ts
        /\ crossing \subseteq taken /\ taken \subseteq selected
    BY DEF Selected, Taken
  <2>2. CASE selected = {}
    BY <1>3, <2>2 DEF Send
  <2>3. CASE selected # {}
    <3>1. mappings' = (mappings \ Limited(taken)) \ Expired
        BY <1>3, <2>3 DEF Send, Cleared
    <3>2. cache' = (cache \ Expired) \ taken
        BY <1>3, <2>3 DEF Send, Swept
    <3>3. \A b \in crossing : state'[b] = "inflight"
        BY <1>3, <2>1, <2>3 DEF Send
    <3>5. \A b \in Calls : b \notin selected => state'[b] = state[b]
        BY <1>3, <2>1 DEF Send
    <3>4. \A b \in selected : state[b] = "ready"
        <4>1. r \in pending /\ \A t \in ts : state[<<r, t>>] \in {"ready"} \cup SentStates
            BY <1>3 DEF Send
        <4>2. \A t \in ts : state[<<r, t>>] \in {"idle", "ready", "blocked"}
            BY <4>1
        <4>3. \A t \in ts : state[<<r, t>>] = "ready"
            BY <4>1, <4>2 DEF SentStates
        <4> QED
            BY <2>1, <4>3
    <3> HIDE DEF selected, taken
    <3> QED
        BY <2>1, <3>1, <3>2, <3>3, <3>4, <3>5
  <2> QED
    BY <2>2, <2>3
<1>4. ASSUME NEW r \in Requests, Finish(r)
      PROVE  MappingHygiene'
    BY <1>4 DEF Finish, prepareVars, boundaryVars, ledgerVars
<1>5. ASSUME NEW r \in Requests, Timeout(r)
      PROVE  MappingHygiene'
    BY <1>5 DEF Timeout, Cleared, prepareVars, ledgerVars, resultVars
<1>6. ASSUME NEW r \in Requests, TimeoutFallback(r)
      PROVE  MappingHygiene'
    BY <1>6 DEF TimeoutFallback, prepareVars, boundaryVars
<1>7. ASSUME NEW c \in Calls, AssembleReady(c)
      PROVE  MappingHygiene'
    BY <1>7 DEF AssembleReady, CachePut, Swept, Expired, ledgerVars, resultVars
<1>8. ASSUME NEW c \in Calls, AssembleMixed(c)
      PROVE  MappingHygiene'
    BY <1>8 DEF AssembleMixed, CachePut, Swept, Expired, ledgerVars, resultVars
<1>9. ASSUME NEW c \in Calls, AssembleSecret(c)
      PROVE  MappingHygiene'
    BY <1>9 DEF AssembleSecret, Swept, Expired, ledgerVars, resultVars
<1>10. ASSUME NEW c \in Calls, NEW e \in Errors, AssembleFails(c, e)
      PROVE  MappingHygiene'
    BY <1>10 DEF AssembleFails, boundaryVars, ledgerVars, resultVars
<1>11. ASSUME NEW c \in Calls, ZoneAnswer(c)
      PROVE  MappingHygiene'
    BY <1>11 DEF ZoneAnswer, resultVars
<1>12. ASSUME NEW c \in Calls, NEW counted \in BOOLEAN, BlockedCall(c, counted)
      PROVE  MappingHygiene'
    BY <1>12 DEF BlockedCall, prepareVars, boundaryVars, resultVars
<1>13. ASSUME NEW c \in Calls, NEW d \in {"auto", "unverified", "escalate"},
              BrokerAnswers(c, d)
      PROVE  MappingHygiene'
    BY <1>13 DEF BrokerAnswers, Cleared, prepareVars, ledgerVars, resultVars
<1>14. ASSUME NEW c \in Calls, NEW e \in Errors, BrokerFails(c, e)
      PROVE  MappingHygiene'
    BY <1>14 DEF BrokerFails, Cleared, prepareVars, ledgerVars, resultVars
<1>15. ASSUME NEW c \in Calls, Fallback(c)
      PROVE  MappingHygiene'
    BY <1>15 DEF Fallback, prepareVars, boundaryVars, resultVars
<1>16. ASSUME NEW c \in Calls, EscalateDraft(c)
      PROVE  MappingHygiene'
    BY <1>16 DEF EscalateDraft, NeedsReview, prepareVars, boundaryVars, resultVars
<1>17. ASSUME NEW c \in Calls, EscalateAdd(c)
      PROVE  MappingHygiene'
    BY <1>17 DEF EscalateAdd, prepareVars, boundaryVars, ledgerVars, resultVars
<1>18. CASE Tick
    BY <1>18 DEF Tick, Older, ledgerVars, resultVars
<1>19. CASE UNCHANGED vars
    BY <1>19 DEF vars
<1> HIDE CallParts DEF TypeOK, PhaseStates, MappingHygiene, CallsOf, Calls
<1> QED
  <2>1. ASSUME NEW c \in Calls, Assemble(c) PROVE MappingHygiene'
    BY <1>7, <1>8, <1>9, <1>10, <2>1 DEF Assemble
  <2>2. ASSUME NEW c \in Calls, Block(c) PROVE MappingHygiene'
    BY <1>12, <2>2 DEF Block
  <2> QED
    BY <1>1, <1>2, <1>3, <1>4, <1>5, <1>6, <1>11, <1>13, <1>14, <1>15, <1>16, <1>17,
       <1>18, <1>19, <2>1, <2>2 DEF Next

\* The check and the row that counts are one step, so the limit is never passed.
LEMMA DailyLimitHoldsStep ==
    TypeOK /\ DailyLimitHolds /\ [Next]_vars => DailyLimitHolds'
<1> SUFFICES ASSUME TypeOK, DailyLimitHolds, [Next]_vars PROVE DailyLimitHolds'
    OBVIOUS
<1> USE CallParts DEF TypeOK, DailyLimitHolds, Calls
<1>1. ASSUME NEW r \in Requests, NEW ts \in SUBSET Targets, Prepare(r, ts)
      PROVE  DailyLimitHolds'
    BY <1>1 DEF Prepare, boundaryVars, ledgerVars, resultVars
<1>2. ASSUME NEW r \in Requests, PrepareDone(r)
      PROVE  DailyLimitHolds'
    BY <1>2 DEF PrepareDone, boundaryVars, ledgerVars, resultVars
<1>3. ASSUME NEW r \in Requests, NEW ts \in SUBSET Targets, Send(r, ts)
      PROVE  DailyLimitHolds'
  <2> DEFINE taken == Taken(Selected(r, ts))
             crossing == taken \ Limited(taken)
  <2>1. \A t \in Targets : <<r, t>> \in crossing => asks[t] + 1 <= Limit
    <3>1. \A t \in Targets : <<r, t>> \in crossing => ~ LimitReached(t)
        BY DEF Limited
    <3>2. \A t \in Targets : ~ LimitReached(t) => asks[t] + 1 <= Limit
        BY LimitAssumption DEF LimitReached, count_today
    <3> QED
        BY <3>1, <3>2
  <2>2. \/ asks' = asks
        \/ asks' = [t \in Targets |-> asks[t] + IF <<r, t>> \in crossing THEN 1 ELSE 0]
    BY <1>3 DEF Send
  <2> HIDE DEF taken, crossing
  <2>3. CASE asks' = asks
    BY <2>3
  <2>4. CASE asks' = [t \in Targets |-> asks[t] + IF <<r, t>> \in crossing THEN 1 ELSE 0]
    <3>1. ASSUME NEW t \in Targets PROVE asks'[t] <= Limit
      <4>1. CASE <<r, t>> \in crossing
        BY <2>1, <2>4, <4>1
      <4>2. CASE <<r, t>> \notin crossing
        BY <2>4, <4>2
      <4> QED
        BY <4>1, <4>2
    <3> QED
        BY <3>1
  <2> QED
    BY <2>2, <2>3, <2>4
<1>4. ASSUME NEW r \in Requests, Finish(r)
      PROVE  DailyLimitHolds'
    BY <1>4 DEF Finish, prepareVars, boundaryVars, ledgerVars
<1>5. ASSUME NEW r \in Requests, Timeout(r)
      PROVE  DailyLimitHolds'
    BY <1>5 DEF Timeout, prepareVars, ledgerVars, resultVars
<1>6. ASSUME NEW r \in Requests, TimeoutFallback(r)
      PROVE  DailyLimitHolds'
    BY <1>6 DEF TimeoutFallback, prepareVars, boundaryVars
<1>7. ASSUME NEW c \in Calls, AssembleReady(c)
      PROVE  DailyLimitHolds'
    BY <1>7 DEF AssembleReady, CachePut, ledgerVars, resultVars
<1>8. ASSUME NEW c \in Calls, AssembleMixed(c)
      PROVE  DailyLimitHolds'
    BY <1>8 DEF AssembleMixed, CachePut, ledgerVars, resultVars
<1>9. ASSUME NEW c \in Calls, AssembleSecret(c)
      PROVE  DailyLimitHolds'
    BY <1>9 DEF AssembleSecret, ledgerVars, resultVars
<1>10. ASSUME NEW c \in Calls, NEW e \in Errors, AssembleFails(c, e)
      PROVE  DailyLimitHolds'
    BY <1>10 DEF AssembleFails, boundaryVars, ledgerVars, resultVars
<1>11. ASSUME NEW c \in Calls, ZoneAnswer(c)
      PROVE  DailyLimitHolds'
    BY <1>11 DEF ZoneAnswer, resultVars
<1>12. ASSUME NEW c \in Calls, NEW counted \in BOOLEAN, BlockedCall(c, counted)
      PROVE  DailyLimitHolds'
    BY <1>12 DEF BlockedCall, prepareVars, boundaryVars, resultVars
<1>13. ASSUME NEW c \in Calls, NEW d \in {"auto", "unverified", "escalate"},
              BrokerAnswers(c, d)
      PROVE  DailyLimitHolds'
    BY <1>13 DEF BrokerAnswers, prepareVars, ledgerVars, resultVars
<1>14. ASSUME NEW c \in Calls, NEW e \in Errors, BrokerFails(c, e)
      PROVE  DailyLimitHolds'
    BY <1>14 DEF BrokerFails, prepareVars, ledgerVars, resultVars
<1>15. ASSUME NEW c \in Calls, Fallback(c)
      PROVE  DailyLimitHolds'
    BY <1>15 DEF Fallback, prepareVars, boundaryVars, resultVars
<1>16. ASSUME NEW c \in Calls, EscalateDraft(c)
      PROVE  DailyLimitHolds'
    BY <1>16 DEF EscalateDraft, NeedsReview, prepareVars, boundaryVars, resultVars
<1>17. ASSUME NEW c \in Calls, EscalateAdd(c)
      PROVE  DailyLimitHolds'
    BY <1>17 DEF EscalateAdd, prepareVars, boundaryVars, ledgerVars, resultVars
<1>18. CASE Tick
    BY <1>18 DEF Tick, Older, ledgerVars, resultVars
<1>19. CASE UNCHANGED vars
    BY <1>19 DEF vars
<1> HIDE CallParts DEF TypeOK, DailyLimitHolds, Calls
<1> QED
  <2>1. ASSUME NEW c \in Calls, Assemble(c) PROVE DailyLimitHolds'
    BY <1>7, <1>8, <1>9, <1>10, <2>1 DEF Assemble
  <2>2. ASSUME NEW c \in Calls, Block(c) PROVE DailyLimitHolds'
    BY <1>12, <2>2 DEF Block
  <2> QED
    BY <1>1, <1>2, <1>3, <1>4, <1>5, <1>6, <1>11, <1>13, <1>14, <1>15, <1>16, <1>17,
       <1>18, <1>19, <2>1, <2>2 DEF Next

LEMMA InvInit == Init => Inv
<1> SUFFICES ASSUME Init PROVE Inv
    OBVIOUS
<1>1. TypeOK
    BY TypeInit
<1>2. PhaseStates /\ ShapeKnown /\ SentCalls /\ ReadyStored /\ MappingHygiene
    BY DEF Init, PhaseStates, ShapeKnown, SentCalls, ReadyStored, MappingHygiene, SentStates,
           CallsOf, Calls
<1>3. DailyLimitHolds
    BY LimitAssumption DEF Init, DailyLimitHolds
<1> QED
    BY <1>1, <1>2, <1>3 DEF Inv

LEMMA InvStep == Inv /\ [Next]_vars => Inv'
BY TypeStep, PhaseStatesStep, ShapeKnownStep, SentCallsStep, ReadyStoredStep,
   MappingHygieneStep, DailyLimitHoldsStep DEF Inv

\* The strengthening all the results below rest on.
THEOREM Invariance == Spec => []Inv
BY InvInit, InvStep, PTL DEF Spec

\* No envelope that rests on SECRET evidence ever crosses (SecretStaysHome).
THEOREM SecretSafe == Spec => []SecretStaysHome
<1>1. Inv => SecretStaysHome
    BY DEF Inv, TypeOK, SentCalls, SecretStaysHome
<1> QED
    BY <1>1, Invariance, PTL

\* A card shown as ready can be sent while its request is pending (StoresAgree).
THEOREM StoresSafe == Spec => []StoresAgree
<1>1. Inv => StoresAgree
    BY DEF Inv, TypeOK, ReadyStored, StoresAgree, CallsOf, Calls
<1> QED
    BY <1>1, Invariance, PTL

\* A Mapping table outlives neither its cache entry nor its call (MappingHygiene).
THEOREM MappingSafe == Spec => []MappingHygiene
<1>1. Inv => MappingHygiene
    BY DEF Inv
<1> QED
    BY <1>1, Invariance, PTL

\* No target is asked more often than its daily limit (DailyLimitHolds).
THEOREM LimitSafe == Spec => []DailyLimitHolds
<1>1. Inv => DailyLimitHolds
    BY DEF Inv
<1> QED
    BY <1>1, Invariance, PTL

\* What was not approved neither crosses nor reaches an inbox (NothingBeforeApproval).
THEOREM ApprovalSafe == Spec => []NothingBeforeApproval
<1>1. Inv => NothingBeforeApproval
    BY DEF Inv, SentCalls, SentStates, NothingBeforeApproval
<1> QED
    BY <1>1, Invariance, PTL

\* An envelope crosses out of the cache and within its TTL (FreshCrossing).
THEOREM FreshSafe == Spec => FreshCrossing
<1> DEFINE Fresh == \A c \in crossed' \ crossed : c \in cache /\ cacheAge[c] <= TTL
<1>1. ASSUME Inv, [Next]_vars PROVE Fresh
  <2>1. ASSUME crossed' = crossed PROVE Fresh
    BY <2>1
  <2>2. ASSUME NEW r \in Requests, NEW ts \in SUBSET Targets, Send(r, ts) PROVE Fresh
    <3>1. crossed' \ crossed \subseteq Swept
        BY <2>2 DEF Send, Taken
    <3>2. \A c \in Swept : c \in cache /\ cacheAge[c] <= TTL
        BY <1>1, TTLAssumption DEF Inv, TypeOK, Swept, Expired, TTL_SECONDS
    <3> QED
        BY <3>1, <3>2
  <2>3. crossed' = crossed \/ \E r \in Requests, ts \in SUBSET Targets : Send(r, ts)
    BY <1>1 DEF Next, vars, boundaryVars, Prepare, PrepareDone, Finish, Timeout,
       TimeoutFallback, Assemble, AssembleReady, AssembleMixed, AssembleSecret, AssembleFails,
       ZoneAnswer, Block, BlockedCall, BrokerAnswers, BrokerFails, Fallback, EscalateDraft,
       EscalateAdd, Tick
  <2> QED
    BY <2>1, <2>2, <2>3
<1>2. Inv /\ [Next]_vars => [Fresh]_vars
    BY <1>1
<1> QED
    BY <1>2, Invariance, PTL DEF Spec, FreshCrossing

-----------------------------------------------------------------------------
(* What becomes of the answers. *)

\* An inbox item per escalated answer, and the class of each call that ended.
OutcomeOf(c) ==
    /\ items[c] = IF state[c] = "escalated" THEN 1 ELSE 0
    /\ state[c] \in {"drafting", "escalated"} => disposition[c] \in {"unverified", "escalate"}
    /\ state[c] = "fellback" => disposition[c] = "blocked"
    /\ state[c] \notin {"answered", "drafting", "escalated", "cut", "fellback"} =>
         disposition[c] = "none"
Outcomes == \A c \in Calls : OutcomeOf(c)

\* Everything a sending request approved is among its listed calls.
ApprovedListed ==
    \A r \in Requests : phase[r] = "sending" => approved[r] \subseteq Range(calls[r])

\* The item and the class of a call change with its state.
LEMMA OutcomesStep ==
    TypeOK /\ PhaseStates /\ Outcomes /\ [Next]_vars => Outcomes'
<1> SUFFICES ASSUME TypeOK, PhaseStates, Outcomes, [Next]_vars PROVE Outcomes'
    OBVIOUS
<1> USE CallParts DEF TypeOK, PhaseStates, Outcomes, OutcomeOf, CallsOf, Calls
<1>1. ASSUME NEW r \in Requests, NEW ts \in SUBSET Targets, Prepare(r, ts)
      PROVE  Outcomes'
    BY <1>1 DEF Prepare, boundaryVars, ledgerVars, resultVars
<1>2. ASSUME NEW r \in Requests, PrepareDone(r)
      PROVE  Outcomes'
    BY <1>2 DEF PrepareDone, boundaryVars, ledgerVars, resultVars
<1>3. ASSUME NEW r \in Requests, NEW ts \in SUBSET Targets, Send(r, ts)
      PROVE  Outcomes'
  <2> DEFINE selected == Selected(r, ts)
             taken == Taken(selected)
             crossing == taken \ Limited(taken)
  <2>1. /\ selected \subseteq Calls
        /\ \A b \in selected : b[1] = r
        /\ crossing \subseteq taken /\ taken \subseteq selected
    BY DEF Selected, Taken
  <2>2. /\ \A b \in Calls : b \notin selected => state'[b] = state[b]
        /\ \A b \in selected : state'[b] \in {"inflight", "sendfailed"}
    BY <1>3, <2>1 DEF Send
  <2>3. disposition' = disposition /\ items' = items
    BY <1>3 DEF Send
  <2>4. \A b \in Calls : b[1] = r => state[b] \in {"idle", "ready", "blocked"}
    <3>1. r \in pending
        BY <1>3 DEF Send
    <3>2. phase[r] = "prepared"
        BY <3>1
    <3> QED
        BY <3>2
  <2> HIDE DEF selected, taken, crossing
  <2>5. ASSUME NEW b \in selected PROVE OutcomeOf(b)'
    <3>1. /\ b \in Calls /\ b[1] = r
          /\ state'[b] \in {"inflight", "sendfailed"}
        BY <2>1, <2>2
    <3>2. disposition[b] = "none" /\ items[b] = 0
        BY <2>4, <3>1
    <3> QED
        BY <2>3, <3>1, <3>2 DEF OutcomeOf
  <2>6. ASSUME NEW b \in Calls, b \notin selected PROVE OutcomeOf(b)'
    BY <2>2, <2>3, <2>6
  <2> QED
    BY <2>5, <2>6
<1>4. ASSUME NEW r \in Requests, Finish(r)
      PROVE  Outcomes'
    BY <1>4 DEF Finish, prepareVars, boundaryVars, ledgerVars
<1>5. ASSUME NEW r \in Requests, Timeout(r)
      PROVE  Outcomes'
    BY <1>5 DEF Timeout, prepareVars, ledgerVars, resultVars
<1>6. ASSUME NEW r \in Requests, TimeoutFallback(r)
      PROVE  Outcomes'
    BY <1>6 DEF TimeoutFallback, prepareVars, boundaryVars
<1>7. ASSUME NEW c \in Calls, AssembleReady(c)
      PROVE  Outcomes'
    BY <1>7 DEF AssembleReady, CachePut, ledgerVars, resultVars
<1>8. ASSUME NEW c \in Calls, AssembleMixed(c)
      PROVE  Outcomes'
    BY <1>8 DEF AssembleMixed, CachePut, ledgerVars, resultVars
<1>9. ASSUME NEW c \in Calls, AssembleSecret(c)
      PROVE  Outcomes'
    BY <1>9 DEF AssembleSecret, ledgerVars, resultVars
<1>10. ASSUME NEW c \in Calls, NEW e \in Errors, AssembleFails(c, e)
      PROVE  Outcomes'
    BY <1>10 DEF AssembleFails, boundaryVars, ledgerVars, resultVars
<1>11. ASSUME NEW c \in Calls, ZoneAnswer(c)
      PROVE  Outcomes'
  <2>1. /\ state[c] = "zone" /\ state' = [state EXCEPT ![c] = "failed"]
        /\ disposition' = disposition /\ items' = items
    BY <1>11, SecretRaises DEF ZoneAnswer
  <2> QED
    BY <2>1
<1>12. ASSUME NEW c \in Calls, NEW counted \in BOOLEAN, BlockedCall(c, counted)
      PROVE  Outcomes'
    BY <1>12 DEF BlockedCall, prepareVars, boundaryVars, resultVars
<1>13. ASSUME NEW c \in Calls, NEW d \in {"auto", "unverified", "escalate"},
              BrokerAnswers(c, d)
      PROVE  Outcomes'
    BY <1>13 DEF BrokerAnswers, prepareVars, ledgerVars, resultVars
<1>14. ASSUME NEW c \in Calls, NEW e \in Errors, BrokerFails(c, e)
      PROVE  Outcomes'
    BY <1>14 DEF BrokerFails, prepareVars, ledgerVars, resultVars
<1>15. ASSUME NEW c \in Calls, Fallback(c)
      PROVE  Outcomes'
    BY <1>15 DEF Fallback, prepareVars, boundaryVars, resultVars
<1>16. ASSUME NEW c \in Calls, EscalateDraft(c)
      PROVE  Outcomes'
    BY <1>16 DEF EscalateDraft, NeedsReview, prepareVars, boundaryVars, resultVars
<1>17. ASSUME NEW c \in Calls, EscalateAdd(c)
      PROVE  Outcomes'
    BY <1>17 DEF EscalateAdd, prepareVars, boundaryVars, ledgerVars, resultVars
<1>18. CASE Tick
    BY <1>18 DEF Tick, Older, ledgerVars, resultVars
<1>19. CASE UNCHANGED vars
    BY <1>19 DEF vars
<1> HIDE CallParts DEF TypeOK, PhaseStates, Outcomes, OutcomeOf, CallsOf, Calls
<1> QED
  <2>1. ASSUME NEW c \in Calls, Assemble(c) PROVE Outcomes'
    BY <1>7, <1>8, <1>9, <1>10, <2>1 DEF Assemble
  <2>2. ASSUME NEW c \in Calls, Block(c) PROVE Outcomes'
    BY <1>12, <2>2 DEF Block
  <2> QED
    BY <1>1, <1>2, <1>3, <1>4, <1>5, <1>6, <1>11, <1>13, <1>14, <1>15, <1>16, <1>17,
       <1>18, <1>19, <2>1, <2>2 DEF Next

\* send() approves ready calls only, which are listed, and nothing unlists a call.
LEMMA ApprovedListedStep ==
    TypeOK /\ PhaseStates /\ ReadyStored /\ ApprovedListed /\ [Next]_vars => ApprovedListed'
<1> SUFFICES ASSUME TypeOK, PhaseStates, ReadyStored, ApprovedListed, [Next]_vars PROVE ApprovedListed'
    OBVIOUS
<1> USE CallParts DEF TypeOK, PhaseStates, ReadyStored, ApprovedListed, CallsOf, Calls
<1>1. ASSUME NEW r \in Requests, NEW ts \in SUBSET Targets, Prepare(r, ts)
      PROVE  ApprovedListed'
    BY <1>1 DEF Prepare, boundaryVars, ledgerVars, resultVars
<1>2. ASSUME NEW r \in Requests, PrepareDone(r)
      PROVE  ApprovedListed'
    BY <1>2 DEF PrepareDone, boundaryVars, ledgerVars, resultVars
<1>3. ASSUME NEW r \in Requests, NEW ts \in SUBSET Targets, Send(r, ts)
      PROVE  ApprovedListed'
  <2>1. ASSUME NEW t \in ts PROVE t \in Range(calls[r])
    <3>1. r \in pending /\ state[<<r, t>>] \in {"ready"} \cup SentStates
        BY <1>3 DEF Send
    <3>2. state[<<r, t>>] \in {"idle", "ready", "blocked"}
        BY <3>1
    <3>3. state[<<r, t>>] = "ready"
        BY <3>1, <3>2 DEF SentStates
    <3>4. <<r, t>> \in Calls /\ <<r, t>>[1] = r /\ <<r, t>>[2] = t
        OBVIOUS
    <3> QED
        BY <3>3, <3>4
  <2>2. /\ approved' = [approved EXCEPT ![r] = ts] /\ calls' = calls
        /\ \A q \in Requests : q # r => phase'[q] = phase[q]
    BY <1>3 DEF Send
  <2> QED
    BY <2>1, <2>2
<1>4. ASSUME NEW r \in Requests, Finish(r)
      PROVE  ApprovedListed'
    BY <1>4 DEF Finish, prepareVars, boundaryVars, ledgerVars
<1>5. ASSUME NEW r \in Requests, Timeout(r)
      PROVE  ApprovedListed'
    BY <1>5 DEF Timeout, prepareVars, ledgerVars, resultVars
<1>6. ASSUME NEW r \in Requests, TimeoutFallback(r)
      PROVE  ApprovedListed'
  <2>1. phase' = [phase EXCEPT ![r] = "raised"] \/ phase' = [phase EXCEPT ![r] = "done"]
    BY <1>6 DEF TimeoutFallback
  <2>2. calls' = calls /\ approved' = approved
    BY <1>6 DEF TimeoutFallback, prepareVars, boundaryVars
  <2>5. phase \in [Requests -> Phases]
    OBVIOUS
  <2>3. \A q \in Requests : phase'[q] = "sending" => phase[q] = "sending"
    BY ONLY <2>1, <2>5
  <2>4. \A q \in Requests : phase[q] = "sending" => approved[q] \subseteq Range(calls[q])
    OBVIOUS
  <2> QED
    BY ONLY <2>2, <2>3, <2>4 DEF ApprovedListed
<1>7. ASSUME NEW c \in Calls, AssembleReady(c)
      PROVE  ApprovedListed'
  <2>1. \A r \in Requests : Range(calls[r]) \subseteq Range(calls'[r])
    <3>1. calls' = [calls EXCEPT ![c[1]] = Append(calls[c[1]], c[2])]
        BY <1>7 DEF AssembleReady
    <3>2. Range(Append(calls[c[1]], c[2])) = Range(calls[c[1]]) \cup {c[2]}
        BY RangeAppend
    <3> QED
        BY <3>1, <3>2
  <2> QED
    BY <1>7, <2>1 DEF AssembleReady, ledgerVars, resultVars
<1>8. ASSUME NEW c \in Calls, AssembleMixed(c)
      PROVE  ApprovedListed'
  <2>1. \A r \in Requests : Range(calls[r]) \subseteq Range(calls'[r])
    <3>1. calls' = [calls EXCEPT ![c[1]] = Append(calls[c[1]], c[2])]
        BY <1>8 DEF AssembleMixed
    <3>2. Range(Append(calls[c[1]], c[2])) = Range(calls[c[1]]) \cup {c[2]}
        BY RangeAppend
    <3> QED
        BY <3>1, <3>2
  <2> QED
    BY <1>8, <2>1 DEF AssembleMixed, ledgerVars, resultVars
<1>9. ASSUME NEW c \in Calls, AssembleSecret(c)
      PROVE  ApprovedListed'
    BY <1>9 DEF AssembleSecret, ledgerVars, resultVars
<1>10. ASSUME NEW c \in Calls, NEW e \in Errors, AssembleFails(c, e)
      PROVE  ApprovedListed'
    BY <1>10 DEF AssembleFails, boundaryVars, ledgerVars, resultVars
<1>11. ASSUME NEW c \in Calls, ZoneAnswer(c)
      PROVE  ApprovedListed'
    BY <1>11, SecretRaises DEF ZoneAnswer, resultVars
<1>12. ASSUME NEW c \in Calls, NEW counted \in BOOLEAN, BlockedCall(c, counted)
      PROVE  ApprovedListed'
  <2>1. phase' = phase \/ phase' = [phase EXCEPT ![c[1]] = "raised"]
    BY <1>12 DEF BlockedCall
  <2>2. calls' = calls /\ approved' = approved
    BY <1>12 DEF BlockedCall, prepareVars, boundaryVars, resultVars
  <2>5. phase \in [Requests -> Phases]
    OBVIOUS
  <2>3. \A q \in Requests : phase'[q] = "sending" => phase[q] = "sending"
    BY ONLY <2>1, <2>5
  <2>4. \A q \in Requests : phase[q] = "sending" => approved[q] \subseteq Range(calls[q])
    OBVIOUS
  <2> QED
    BY ONLY <2>2, <2>3, <2>4 DEF ApprovedListed
<1>13. ASSUME NEW c \in Calls, NEW d \in {"auto", "unverified", "escalate"},
              BrokerAnswers(c, d)
      PROVE  ApprovedListed'
    BY <1>13 DEF BrokerAnswers, prepareVars, ledgerVars, resultVars
<1>14. ASSUME NEW c \in Calls, NEW e \in Errors, BrokerFails(c, e)
      PROVE  ApprovedListed'
    BY <1>14 DEF BrokerFails, prepareVars, ledgerVars, resultVars
<1>15. ASSUME NEW c \in Calls, Fallback(c)
      PROVE  ApprovedListed'
  <2>1. phase' = phase \/ phase' = [phase EXCEPT ![c[1]] = "raised"]
    BY <1>15 DEF Fallback
  <2>2. calls' = calls /\ approved' = approved
    BY <1>15 DEF Fallback, prepareVars, boundaryVars, resultVars
  <2>5. phase \in [Requests -> Phases]
    OBVIOUS
  <2>3. \A q \in Requests : phase'[q] = "sending" => phase[q] = "sending"
    BY ONLY <2>1, <2>5
  <2>4. \A q \in Requests : phase[q] = "sending" => approved[q] \subseteq Range(calls[q])
    OBVIOUS
  <2> QED
    BY ONLY <2>2, <2>3, <2>4 DEF ApprovedListed
<1>16. ASSUME NEW c \in Calls, EscalateDraft(c)
      PROVE  ApprovedListed'
    BY <1>16 DEF EscalateDraft, NeedsReview, prepareVars, boundaryVars, resultVars
<1>17. ASSUME NEW c \in Calls, EscalateAdd(c)
      PROVE  ApprovedListed'
    BY <1>17 DEF EscalateAdd, prepareVars, boundaryVars, ledgerVars, resultVars
<1>18. CASE Tick
    BY <1>18 DEF Tick, Older, ledgerVars, resultVars
<1>19. CASE UNCHANGED vars
    BY <1>19 DEF vars
<1> HIDE CallParts DEF TypeOK, PhaseStates, ReadyStored, ApprovedListed, CallsOf, Calls
<1> QED
  <2>1. ASSUME NEW c \in Calls, Assemble(c) PROVE ApprovedListed'
    BY <1>7, <1>8, <1>9, <1>10, <2>1 DEF Assemble
  <2>2. ASSUME NEW c \in Calls, Block(c) PROVE ApprovedListed'
    BY <1>12, <2>2 DEF Block
  <2> QED
    BY <1>1, <1>2, <1>3, <1>4, <1>5, <1>6, <1>11, <1>13, <1>14, <1>15, <1>16, <1>17,
       <1>18, <1>19, <2>1, <2>2 DEF Next

\* One step of AnswerStands.
Kept == \A c \in Calls : state[c] = "answered" =>
          /\ state'[c] \in {"answered", "drafting"}
          /\ disposition'[c] = disposition[c]

\* An answer that has arrived is touched by its escalation only.
LEMMA KeptStep ==
    TypeOK /\ PhaseStates /\ [Next]_vars => Kept
<1> SUFFICES ASSUME TypeOK, PhaseStates, [Next]_vars PROVE Kept
    OBVIOUS
<1> USE CallParts DEF TypeOK, PhaseStates, Kept, CallsOf, Calls
<1>1. ASSUME NEW r \in Requests, NEW ts \in SUBSET Targets, Prepare(r, ts)
      PROVE  Kept
    BY <1>1 DEF Prepare, boundaryVars, ledgerVars, resultVars
<1>2. ASSUME NEW r \in Requests, PrepareDone(r)
      PROVE  Kept
    BY <1>2 DEF PrepareDone, boundaryVars, ledgerVars, resultVars
<1>3. ASSUME NEW r \in Requests, NEW ts \in SUBSET Targets, Send(r, ts)
      PROVE  Kept
  <2> DEFINE selected == Selected(r, ts)
             taken == Taken(selected)
             crossing == taken \ Limited(taken)
  <2>1. /\ selected \subseteq Calls
        /\ \A b \in selected : b[1] = r
        /\ crossing \subseteq taken /\ taken \subseteq selected
    BY DEF Selected, Taken
  <2>2. /\ \A b \in Calls : b \notin selected => state'[b] = state[b]
        /\ \A b \in selected : state'[b] \in {"inflight", "sendfailed"}
    BY <1>3, <2>1 DEF Send
  <2>3. disposition' = disposition
    BY <1>3 DEF Send
  <2>4. \A b \in Calls : b[1] = r => state[b] \in {"idle", "ready", "blocked"}
    <3>1. r \in pending
        BY <1>3 DEF Send
    <3>2. phase[r] = "prepared"
        BY <3>1
    <3> QED
        BY <3>2
  <2> HIDE DEF selected, taken, crossing
  <2> QED
    BY <2>1, <2>2, <2>3, <2>4
<1>4. ASSUME NEW r \in Requests, Finish(r)
      PROVE  Kept
    BY <1>4 DEF Finish, prepareVars, boundaryVars, ledgerVars
<1>5. ASSUME NEW r \in Requests, Timeout(r)
      PROVE  Kept
    BY <1>5 DEF Timeout, prepareVars, ledgerVars, resultVars
<1>6. ASSUME NEW r \in Requests, TimeoutFallback(r)
      PROVE  Kept
    BY <1>6 DEF TimeoutFallback, prepareVars, boundaryVars
<1>7. ASSUME NEW c \in Calls, AssembleReady(c)
      PROVE  Kept
    BY <1>7 DEF AssembleReady, CachePut, ledgerVars, resultVars
<1>8. ASSUME NEW c \in Calls, AssembleMixed(c)
      PROVE  Kept
    BY <1>8 DEF AssembleMixed, CachePut, ledgerVars, resultVars
<1>9. ASSUME NEW c \in Calls, AssembleSecret(c)
      PROVE  Kept
    BY <1>9 DEF AssembleSecret, ledgerVars, resultVars
<1>10. ASSUME NEW c \in Calls, NEW e \in Errors, AssembleFails(c, e)
      PROVE  Kept
    BY <1>10 DEF AssembleFails, boundaryVars, ledgerVars, resultVars
<1>11. ASSUME NEW c \in Calls, ZoneAnswer(c)
      PROVE  Kept
    BY <1>11 DEF ZoneAnswer, resultVars
<1>12. ASSUME NEW c \in Calls, NEW counted \in BOOLEAN, BlockedCall(c, counted)
      PROVE  Kept
    BY <1>12 DEF BlockedCall, prepareVars, boundaryVars, resultVars
<1>13. ASSUME NEW c \in Calls, NEW d \in {"auto", "unverified", "escalate"},
              BrokerAnswers(c, d)
      PROVE  Kept
    BY <1>13 DEF BrokerAnswers, prepareVars, ledgerVars, resultVars
<1>14. ASSUME NEW c \in Calls, NEW e \in Errors, BrokerFails(c, e)
      PROVE  Kept
    BY <1>14 DEF BrokerFails, prepareVars, ledgerVars, resultVars
<1>15. ASSUME NEW c \in Calls, Fallback(c)
      PROVE  Kept
    BY <1>15 DEF Fallback, prepareVars, boundaryVars, resultVars
<1>16. ASSUME NEW c \in Calls, EscalateDraft(c)
      PROVE  Kept
    BY <1>16 DEF EscalateDraft, NeedsReview, prepareVars, boundaryVars, resultVars
<1>17. ASSUME NEW c \in Calls, EscalateAdd(c)
      PROVE  Kept
    BY <1>17 DEF EscalateAdd, prepareVars, boundaryVars, ledgerVars, resultVars
<1>18. CASE Tick
    BY <1>18 DEF Tick, Older, ledgerVars, resultVars
<1>19. CASE UNCHANGED vars
    BY <1>19 DEF vars
<1> HIDE CallParts DEF TypeOK, PhaseStates, Kept, CallsOf, Calls
<1> QED
  <2>1. ASSUME NEW c \in Calls, Assemble(c) PROVE Kept
    BY <1>7, <1>8, <1>9, <1>10, <2>1 DEF Assemble
  <2>2. ASSUME NEW c \in Calls, Block(c) PROVE Kept
    BY <1>12, <2>2 DEF Block
  <2> QED
    BY <1>1, <1>2, <1>3, <1>4, <1>5, <1>6, <1>11, <1>13, <1>14, <1>15, <1>16, <1>17,
       <1>18, <1>19, <2>1, <2>2 DEF Next

\* An approval sent twice touches no answer that has arrived (AnswerStands).
THEOREM AnswersKept == Spec => AnswerStands
<1>1. Inv /\ [Next]_vars => [Kept]_vars
    BY KeptStep DEF Inv
<1> QED
    BY <1>1, Invariance, PTL DEF Spec, AnswerStands, Kept

\* What the two theorems about answers rest on.
AnswerInv == Inv /\ Outcomes /\ ApprovedListed

\* The strengthening is kept by every step (Outcomes, ApprovedListed).
THEOREM AnswerInvariance == Spec => []AnswerInv
<1>1. Init => Outcomes /\ ApprovedListed
    BY DEF Init, Outcomes, OutcomeOf, ApprovedListed
<1>2. AnswerInv /\ [Next]_vars => AnswerInv'
    BY InvStep, OutcomesStep, ApprovedListedStep DEF AnswerInv, Inv
<1> QED
    BY <1>1, <1>2, InvInit, PTL DEF Spec, AnswerInv

LEMMA SecondsOf == \A r, A : {c[2] : c \in {r} \X A} = A
<1> SUFFICES ASSUME NEW r, NEW A PROVE {c[2] : c \in {r} \X A} = A
    OBVIOUS
<1>1. ASSUME NEW t \in A PROVE t \in {c[2] : c \in {r} \X A}
  <2>1. <<r, t>> \in {r} \X A /\ <<r, t>>[2] = t
    OBVIOUS
  <2> QED
    BY <2>1
<1>2. {c[2] : c \in {r} \X A} \subseteq A
    OBVIOUS
<1> QED
    BY <1>1, <1>2

\* When send() returns in time, exactly the uncertain answers have an item, one
\* each, and the asker is told of exactly those (EscalationExact).
THEOREM EscalationsExact == Spec => EscalationExact
<1> DEFINE Told(r) == phase[r] = "sending" /\ phase'[r] = "done" =>
             /\ answers'[r] = approved[r]
             /\ \A t \in Targets :
                  /\ t \in reported'[r] <=> items[<<r, t>>] = 1
                  /\ t \in reported'[r] <=> disposition[<<r, t>>] \in {"unverified", "escalate"}
<1>1. ASSUME AnswerInv, [Next]_vars, NEW r \in Requests PROVE Told(r)
  <2>1. ASSUME Finish(r) PROVE Told(r)
    <3>1. /\ approved[r] \subseteq Range(calls[r]) /\ approved[r] \subseteq Targets
          /\ phase[r] = "sending"
        BY <1>1, <2>1 DEF AnswerInv, ApprovedListed, Finish, Inv, TypeOK
    <3>2. Selected(r, approved[r]) = {r} \X approved[r]
        BY <3>1 DEF Selected
    <3>3. answers'[r] = approved[r]
      <4>1. answers'[r] = {c[2] : c \in {r} \X approved[r]}
        <5>1. answers' = [answers EXCEPT ![r] = {c[2] : c \in Selected(r, approved[r])}]
            BY <2>1 DEF Finish
        <5>2. answers \in [Requests -> SUBSET Targets]
            BY <1>1 DEF AnswerInv, Inv, TypeOK
        <5> QED
            BY <3>2, <5>1, <5>2
      <4> QED
          BY <4>1, SecondsOf
    <3>4. ASSUME NEW t \in Targets
          PROVE  /\ t \in reported'[r] <=> items[<<r, t>>] = 1
                 /\ t \in reported'[r] <=> disposition[<<r, t>>] \in {"unverified", "escalate"}
      <4> DEFINE c == <<r, t>>
      <4>1. c \in Calls /\ c[1] = r /\ c[2] = t
          BY CallParts
      <4>2. t \in reported'[r] <=> state[c] = "escalated"
          BY <1>1, <2>1 DEF Finish, AnswerInv, Inv, TypeOK
      <4>3. OutcomeOf(c)
          BY <1>1, <4>1 DEF AnswerInv, Outcomes
      <4>4. ASSUME state[c] \in SentStates
            PROVE  /\ state[c] \in {"answered", "fellback", "escalated"}
                   /\ ~ NeedsReview(c)
        <5>1. t \in approved[r]
            BY <1>1, <4>1, <4>4 DEF AnswerInv, Inv, SentCalls
        <5>2. c \in Selected(r, approved[r])
            BY <3>2, <5>1
        <5> QED
            BY <2>1, <5>2 DEF Finish, SelectedStates
      <4> HIDE DEF c
      <4>5. disposition[c] \in {"unverified", "escalate"} => state[c] = "escalated"
          BY <4>3, <4>4 DEF OutcomeOf, NeedsReview, SentStates
      <4>6. /\ items[c] = 1 <=> state[c] = "escalated"
            /\ state[c] = "escalated" => disposition[c] \in {"unverified", "escalate"}
          BY <4>3 DEF OutcomeOf
      <4> QED
          BY <4>2, <4>5, <4>6 DEF c
    <3> QED
        BY <3>3, <3>4
  <2>2. Finish(r) \/ ~ (phase[r] = "sending" /\ phase'[r] = "done")
    <3> USE DEF AnswerInv, Inv, TypeOK
    <3>1. CASE \E q \in Requests, ts \in SUBSET Targets : Prepare(q, ts)
        BY <1>1, <3>1 DEF Prepare
    <3>2. CASE \E q \in Requests, ts \in SUBSET Targets : Send(q, ts)
      <4>1. PICK q \in Requests, ts \in SUBSET Targets : Send(q, ts)
          BY <3>2
      <4>2. \/ phase' = [phase EXCEPT ![q] = "raised"] \/ phase' = [phase EXCEPT ![q] = "sending"]
          BY <4>1 DEF Send
      <4> QED
          BY <1>1, <4>2
    <3>3. CASE \E q \in Requests : PrepareDone(q) \/ Timeout(q)
        BY <1>1, <3>3 DEF PrepareDone, Timeout
    <3>4. CASE \E q \in Requests : TimeoutFallback(q)
      <4>1. PICK q \in Requests : TimeoutFallback(q)
          BY <3>4
      <4>2. phase[q] = "timedout" /\ \A p \in Requests : p # q => phase'[p] = phase[p]
          BY <1>1, <4>1 DEF TimeoutFallback
      <4> QED
          BY <4>2
    <3>5. CASE \E q \in Requests : Finish(q)
      <4>1. PICK q \in Requests : Finish(q)
          BY <3>5
      <4>2. \A p \in Requests : p # q => phase'[p] = phase[p]
          BY <1>1, <4>1 DEF Finish
      <4> QED
          BY <4>1, <4>2
    <3>6. CASE \E c \in Calls : Assemble(c) \/ ZoneAnswer(c) \/ Block(c) \/ Fallback(c)
      <4>1. PICK c \in Calls : Assemble(c) \/ ZoneAnswer(c) \/ Block(c) \/ Fallback(c)
          BY <3>6
      <4>2. \/ phase' = phase
            \/ phase' = [phase EXCEPT ![c[1]] = "raised"]
          BY <4>1 DEF Assemble, AssembleReady, AssembleMixed, AssembleSecret,
             AssembleFails, ZoneAnswer, Block, BlockedCall, Fallback
      <4> QED
          BY <1>1, <4>2
    <3>7. CASE phase' = phase
        BY <3>7
    <3> QED
        BY <1>1, <3>1, <3>2, <3>3, <3>4, <3>5, <3>6, <3>7
        DEF Next, BrokerAnswers, BrokerFails, EscalateDraft, EscalateAdd, Tick, vars
  <2> QED
    BY <2>1, <2>2
<1>2. AnswerInv /\ [Next]_vars => [\A r \in Requests : Told(r)]_vars
    BY <1>1
<1> QED
    BY <1>2, AnswerInvariance, PTL DEF Spec, EscalationExact

-----------------------------------------------------------------------------
(* prepare() and send() keep the promise of Boundary: every step of AskFlow is, for the *)
(* envelopes, a step of Boundary or a stutter.                                          *)

Secrets == {c \in Calls : shape[c] \in {"mixed", "secret"}}
Rows == [t \in Targets |-> count_today(t)]
Approvals == {c \in Calls : c[2] \in approved[c[1]]}

\* Where the broker stands in the life of an envelope; "home" is away from it.
Stage(c) == IF state[c] = "inflight" THEN "out"
            ELSE IF NeedsReview(c) THEN "doubted"
            ELSE IF state[c] = "drafting" THEN "again" ELSE "home"

StageMoves == {<<"out", "doubted">>, <<"out", "home">>,
               <<"doubted", "again">>, <<"again", "home">>}

\* When nothing is cached, the moves of the stage decide those of the life: a call
\* that was sent has evidence and is in the cache no more.
LEMMA StageDecides ==
    ASSUME Inv, NEW b \in Calls, cache' \subseteq cache, shape' = shape,
           Stage(b)' = Stage(b) \/ <<Stage(b), Stage(b)'>> \in StageMoves
    PROVE  Life(b)' = Life(b) \/ <<Life(b), Life(b)'>> \in B!Moves
<1>1. /\ Stage(b) # "home" => b \notin cache /\ shape[b] = "below"
      /\ b \in cache => shape[b] # "none"
    BY DEF Stage, NeedsReview, Inv, ShapeKnown, SentCalls, SentStates
<1>2. /\ Stage(b) # "home" => Life(b) = Stage(b)
      /\ Stage(b)' # "home" => Life(b)' = Stage(b)'
      /\ Stage(b) = "home" => Life(b) = IF b \in cache THEN "held"
                                        ELSE IF shape[b] = "none" THEN "none" ELSE "over"
      /\ Stage(b)' = "home" => Life(b)' = IF b \in cache' THEN "held"
                                          ELSE IF shape[b] = "none" THEN "none" ELSE "over"
    BY DEF Stage, Life
<1>3. CASE Stage(b)' = Stage(b) /\ Stage(b) # "home"
    BY <1>2, <1>3
<1>4. CASE Stage(b)' = Stage(b) /\ Stage(b) = "home"
    BY <1>1, <1>2, <1>4 DEF B!Moves
<1>5. CASE <<Stage(b), Stage(b)'>> \in StageMoves
    BY <1>1, <1>2, <1>5 DEF StageMoves, B!Moves
<1> QED
    BY <1>3, <1>4, <1>5

\* A step that keeps the state and the disposition of a call keeps its stage.
LEMMA StageKept ==
    ASSUME NEW b \in Calls, state'[b] = state[b], disposition' = disposition
    PROVE  Stage(b)' = Stage(b)
BY DEF Stage, NeedsReview

\* The life of an envelope takes one of the moves of Boundary, whatever the action.
LEMMA LifeMoves ==
    ASSUME Inv, Inv', [Next]_vars, NEW b \in Calls
    PROVE  Life(b)' = Life(b) \/ <<Life(b), Life(b)'>> \in B!Moves
<1> USE CallParts
<1>t. state \in [Calls -> CallStates] /\ disposition \in [Calls -> Dispositions \cup {"none"}]
    BY DEF Inv, TypeOK
<1>1. ASSUME NEW r \in Requests, NEW ts \in SUBSET Targets, Prepare(r, ts)
      PROVE  Life(b)' = Life(b) \/ <<Life(b), Life(b)'>> \in B!Moves
  <2>1. cache' = cache /\ shape' = shape /\ disposition' = disposition
    BY <1>1 DEF Prepare, boundaryVars
  <2>2. CASE b \in {r} \X ts
    <3>1. b \in CallsOf(r)
        BY <2>2 DEF CallsOf
    <3>2. state[b] = "idle" /\ state'[b] \in {"failed", "assembling"}
        BY <1>1, <2>2, <3>1 DEF Prepare, Inv, PhaseStates
    <3>3. Stage(b) = "home" /\ Stage(b)' = "home"
        BY <3>2 DEF Stage, NeedsReview
    <3> QED
        BY <2>1, <3>3, StageDecides
  <2>3. CASE b \notin {r} \X ts
    <3>1. state'[b] = state[b]
        BY <1>1, <2>3 DEF Prepare
    <3> QED
        BY <2>1, <3>1, StageKept, StageDecides
  <2> QED
    BY <2>2, <2>3
<1>2. ASSUME NEW r \in Requests, NEW ts \in SUBSET Targets, Send(r, ts)
      PROVE  Life(b)' = Life(b) \/ <<Life(b), Life(b)'>> \in B!Moves
  <2> DEFINE selected == Selected(r, ts)
             taken == Taken(selected)
             crossing == taken \ Limited(taken)
  <2>1. shape' = shape /\ cache' \subseteq cache /\ disposition' = disposition
    BY <1>2, ZenonT(60) DEF Send, Swept
  <2>4. r \in pending /\ \A t \in ts : state[<<r, t>>] \in {"ready"} \cup SentStates
    BY <1>2 DEF Send
  <2>5. \A t \in ts : state[<<r, t>>] \in {"idle", "ready", "blocked"}
    BY <2>4 DEF Inv, PhaseStates, CallsOf
  <2>6. \A a \in selected : state[a] = "ready"
    <3>1. \A t \in ts : state[<<r, t>>] = "ready"
      BY <2>4, <2>5 DEF SentStates
    <3>2. \A a \in selected : a[2] \in ts /\ a = <<r, a[2]>>
      BY DEF Selected
    <3> QED
      BY <3>1, <3>2
  <2>2. CASE b \in crossing
    <3>1. Life(b) = "held"
      <4>1. state[b] = "ready" /\ b \in cache
        BY <2>2, <2>6 DEF Taken, Swept
      <4> QED
        BY <4>1 DEF Life, NeedsReview
    <3>2. Life(b)' = "out"
        BY <1>2, <2>2 DEF Send, Taken, Life
    <3> QED
        BY <3>1, <3>2 DEF B!Moves
  <2>3. CASE b \notin crossing
    <3>1. state'[b] = state[b] \/ (state[b] = "ready" /\ state'[b] = "sendfailed")
      <4>1. b \in selected => state[b] = "ready"
        BY <2>6
      <4>2. CASE selected = {}
        BY <1>2, <4>2 DEF Send
      <4>3. CASE selected # {}
        <5>1. state'[b] = IF b \in selected THEN "sendfailed" ELSE state[b]
            BY <1>2, <2>3, <4>3 DEF Send
        <5> HIDE DEF selected, taken, crossing
        <5> QED
            BY <4>1, <5>1
      <4> QED
        BY <4>2, <4>3
    <3>2. Stage(b)' = Stage(b)
      <4>1. CASE state'[b] = state[b]
        BY <2>1, <4>1, StageKept
      <4>2. CASE state[b] = "ready" /\ state'[b] = "sendfailed"
        BY <4>2 DEF Stage, NeedsReview
      <4> QED
        BY <3>1, <4>1, <4>2
    <3> QED
        BY <2>1, <3>2, StageDecides
  <2> QED
    BY <2>2, <2>3
<1>3. ASSUME NEW c \in Calls, AssembleReady(c) \/ AssembleMixed(c)
      PROVE  Life(b)' = Life(b) \/ <<Life(b), Life(b)'>> \in B!Moves
  <2>1. cache' = (cache \ Expired) \cup {c} /\ disposition' = disposition
    BY <1>3 DEF AssembleReady, AssembleMixed, CachePut, Swept
  <2>2. /\ state[c] = "assembling" /\ state'[c] \in {"ready", "zone"}
        /\ b # c => state'[b] = state[b] /\ shape'[b] = shape[b]
    BY <1>3, <1>t, ZenonT(60) DEF AssembleReady, AssembleMixed, Inv, TypeOK
  <2>3. CASE b = c
    <3>1. Life(b) = "none"
      BY <2>2, <2>3 DEF Life, NeedsReview, Inv, ShapeKnown
    <3>2. Life(b)' = "held"
      BY <2>1, <2>2, <2>3 DEF Life, NeedsReview
    <3> QED
      BY <3>1, <3>2 DEF B!Moves
  <2>4. CASE b # c
    <3>1. b \in cache' => b \in cache
      BY <2>1, <2>4
    <3>2. Stage(b)' = Stage(b)
      BY <2>1, <2>2, <2>4, StageKept
    <3>3. state[b] \in SentStates => b \notin cache
      BY DEF Inv, ShapeKnown
    <3>4. b \in cache => shape[b] # "none"
      BY DEF Inv, ShapeKnown
    <3> QED
      BY <2>2, <2>4, <3>1, <3>2, <3>4 DEF Life, Stage, B!Moves
  <2> QED
    BY <2>3, <2>4
<1>4. ASSUME NEW c \in Calls, AssembleSecret(c)
      PROVE  Life(b)' = Life(b) \/ <<Life(b), Life(b)'>> \in B!Moves
  <2>1. cache' \subseteq cache /\ disposition' = disposition
    BY <1>4 DEF AssembleSecret, Swept
  <2>2. /\ state[c] = "assembling" /\ state'[c] = "zone"
        /\ b # c => state'[b] = state[b] /\ shape'[b] = shape[b]
    BY <1>4, <1>t DEF AssembleSecret, Inv, TypeOK
  <2>3. CASE b = c
    <3>1. Life(b) = "none" /\ b \notin cache
      BY <2>2, <2>3 DEF Life, NeedsReview, Inv, ShapeKnown
    <3>2. Life(b)' \in {"none", "over"}
      BY <2>1, <2>2, <2>3, <3>1 DEF Life, NeedsReview
    <3> QED
      BY <3>1, <3>2 DEF B!Moves
  <2>4. CASE b # c
    <3>1. Stage(b)' = Stage(b)
      BY <2>1, <2>2, <2>4, StageKept
    <3>2. b \in cache => shape[b] # "none"
      BY DEF Inv, ShapeKnown
    <3> QED
      BY <2>1, <2>2, <2>4, <3>1, <3>2 DEF Life, Stage, B!Moves
  <2> QED
    BY <2>3, <2>4
<1>5. ASSUME NEW c \in Calls, ZoneAnswer(c)
      PROVE  Life(b)' = Life(b) \/ <<Life(b), Life(b)'>> \in B!Moves
  <2>1. cache' \subseteq cache /\ shape' = shape /\ disposition' = disposition
    BY <1>5 DEF ZoneAnswer
  <2>2. state'[b] = state[b] \/ (state[b] = "zone" /\ state'[b] \in {"failed", "blocked"})
    BY <1>5, <1>t, ZenonT(60) DEF ZoneAnswer
  <2>3. Stage(b)' = Stage(b)
    BY <2>1, <2>2 DEF Stage, NeedsReview
  <2> QED
    BY <2>1, <2>3, StageDecides
<1>6. ASSUME NEW r \in Requests, Timeout(r)
      PROVE  Life(b)' = Life(b) \/ <<Life(b), Life(b)'>> \in B!Moves
  <2>1. cache' \subseteq cache /\ shape' = shape /\ disposition' = disposition
    BY <1>6 DEF Timeout
  <2>2. state'[b] = state[b] \/ (state[b] \in {"inflight", "drafting"} /\ state'[b] = "cut")
    BY <1>6 DEF Timeout
  <2>3. Stage(b)' = Stage(b) \/ <<Stage(b), Stage(b)'>> \in StageMoves
    BY <2>1, <2>2 DEF Stage, NeedsReview, StageMoves
  <2> QED
    BY <2>1, <2>3, StageDecides
<1>7. ASSUME NEW r \in Requests, Finish(r) \/ TimeoutFallback(r) \/ PrepareDone(r)
      PROVE  Life(b)' = Life(b) \/ <<Life(b), Life(b)'>> \in B!Moves
  <2>1. cache' = cache /\ shape' = shape /\ disposition' = disposition /\ state' = state
    BY <1>7 DEF Finish, TimeoutFallback, PrepareDone, boundaryVars
  <2> QED
    BY <2>1, StageKept, StageDecides
<1>8. ASSUME NEW c \in Calls, (\E e \in Errors : AssembleFails(c, e)) \/ Block(c) \/ Fallback(c)
      PROVE  Life(b)' = Life(b) \/ <<Life(b), Life(b)'>> \in B!Moves
  <2>1. cache' \subseteq cache /\ shape' = shape
    BY <1>8 DEF AssembleFails, Block, BlockedCall, Fallback, boundaryVars
  <2>2. \/ state' = state /\ disposition' = disposition
        \/ /\ state[c] \in {"assembling", "failed", "sendfailed"}
           /\ \E x \in {"failed", "blocked", "fellback"} : state' = [state EXCEPT ![c] = x]
           /\ b # c => disposition'[b] = disposition[b]
    BY <1>8, <1>t DEF AssembleFails, Block, BlockedCall, Fallback
  <2>3. Stage(b)' = Stage(b)
    BY <1>t, <2>2 DEF Stage, NeedsReview
  <2> QED
    BY <2>1, <2>3, StageDecides
<1>9. ASSUME NEW c \in Calls,
             \/ \E e \in Errors : BrokerFails(c, e)
             \/ \E d \in {"auto", "unverified", "escalate"} : BrokerAnswers(c, d)
             \/ EscalateDraft(c) \/ EscalateAdd(c)
      PROVE  Life(b)' = Life(b) \/ <<Life(b), Life(b)'>> \in B!Moves
  <2>1. cache' \subseteq cache /\ shape' = shape
    BY <1>9 DEF BrokerFails, BrokerAnswers, EscalateDraft, EscalateAdd, boundaryVars
  <2>2. \/ state[c] = "inflight" /\ state' = [state EXCEPT ![c] = "sendfailed"]
        \/ state[c] = "inflight" /\ state' = [state EXCEPT ![c] = "answered"]
        \/ NeedsReview(c) /\ state' = [state EXCEPT ![c] = "drafting"]
        \/ state[c] = "drafting" /\ state' = [state EXCEPT ![c] = "escalated"]
    BY <1>9 DEF BrokerFails, BrokerAnswers, EscalateDraft, EscalateAdd
  <2>3. b # c => disposition'[b] = disposition[b]
    BY <1>9, <1>t DEF BrokerFails, BrokerAnswers, EscalateDraft, EscalateAdd
  <2>4. CASE b # c
    <3>1. state'[b] = state[b]
      BY <1>t, <2>2, <2>4
    <3>2. Stage(b)' = Stage(b)
      BY <2>3, <2>4, <3>1 DEF Stage, NeedsReview
    <3> QED
      BY <2>1, <3>2, StageDecides
  <2>5. CASE b = c
    <3>1. <<Stage(b), Stage(b)'>> \in StageMoves
      BY <1>t, <2>2, <2>5 DEF Stage, NeedsReview, StageMoves
    <3> QED
      BY <2>1, <3>1, StageDecides
  <2> QED
    BY <2>4, <2>5
<1>10. CASE Tick \/ UNCHANGED vars
  <2>1. cache' = cache /\ shape' = shape /\ disposition' = disposition /\ state' = state
    BY <1>10 DEF Tick, vars
  <2> QED
    BY <2>1, StageKept, StageDecides
<1> QED
    BY <1>1, <1>2, <1>3, <1>4, <1>5, <1>6, <1>7, <1>8, <1>9, <1>10 DEF Next, Assemble

\* What is known to be SECRET stays known.
LEMMA SecretsGrow == Inv /\ [Next]_vars => Secrets \subseteq Secrets'
<1> SUFFICES ASSUME Inv, [Next]_vars PROVE Secrets \subseteq Secrets'
    OBVIOUS
<1>1. \/ shape' = shape
      \/ \E c \in Calls, x \in Tiers : /\ state[c] = "assembling"
                                     /\ shape' = [shape EXCEPT ![c] = x]
    BY ZenonT(60) DEF Next, vars, Prepare, PrepareDone, Send, Finish, Timeout, TimeoutFallback, Assemble,
       AssembleReady, AssembleMixed, AssembleSecret, AssembleFails, ZoneAnswer, Block,
       BlockedCall, BrokerAnswers, BrokerFails, Fallback, EscalateDraft, EscalateAdd, Tick, Tiers
<1> QED
    BY <1>1 DEF Secrets, Inv, TypeOK, ShapeKnown

\* Adding to one entry of a table of rows lowers none.
LEMMA BumpGrows ==
    ASSUME NEW f \in [Targets -> Nat], NEW t \in Targets, NEW n \in Nat, NEW u \in Targets
    PROVE  [f EXCEPT ![t] = @ + n][u] >= f[u]
OBVIOUS

\* No row is ever deleted.
LEMMA RowsGrow ==
    ASSUME Inv, Inv', [Next]_vars, NEW t \in Targets
    PROVE  asks'[t] >= asks[t] /\ drafts'[t] >= drafts[t] /\ locals'[t] >= locals[t]
<1>0. /\ asks \in [Targets -> Nat] /\ asks' \in [Targets -> Nat]
      /\ drafts \in [Targets -> Nat] /\ locals \in [Targets -> Nat]
      /\ locals' \in [Targets -> Nat]
      /\ \A c \in Calls : c[2] \in Targets
    BY CallParts DEF Inv, TypeOK
<1>1. asks'[t] >= asks[t]
  <2>1. ASSUME NEW r \in Requests, NEW ts \in SUBSET Targets, Send(r, ts)
        PROVE  asks'[t] >= asks[t]
    <3> DEFINE taken == Taken(Selected(r, ts))
               crossing == taken \ Limited(taken)
    <3>1. \/ asks' = asks
          \/ asks' = [u \in Targets |-> asks[u] + IF <<r, u>> \in crossing THEN 1 ELSE 0]
        BY <2>1 DEF Send
    <3> HIDE DEF taken, crossing
    <3>2. CASE asks' = asks
        BY <1>0, <3>2
    <3>3. CASE asks' = [u \in Targets |-> asks[u] + IF <<r, u>> \in crossing THEN 1 ELSE 0]
      <4>1. CASE <<r, t>> \in crossing
        BY <1>0, <3>3, <4>1
      <4>2. CASE <<r, t>> \notin crossing
        BY <1>0, <3>3, <4>2
      <4> QED
        BY <4>1, <4>2
    <3> QED
        BY <3>1, <3>2, <3>3
  <2>2. asks' = asks \/ \E r \in Requests, ts \in SUBSET Targets : Send(r, ts)
    BY DEF Next, vars, ledgerVars, Prepare, PrepareDone, Finish, Timeout, TimeoutFallback,
       Assemble, AssembleReady, AssembleMixed, AssembleSecret, AssembleFails, ZoneAnswer, Block,
       BlockedCall, BrokerAnswers, BrokerFails, Fallback, EscalateDraft, EscalateAdd, Tick
  <2> QED
    BY <1>0, <2>1, <2>2
<1>2. drafts'[t] >= drafts[t]
  <2>1. drafts' = drafts \/ \E c \in Calls : drafts' = [drafts EXCEPT ![c[2]] = @ + 1]
    BY ZenonT(60) DEF Next, vars, ledgerVars, Prepare, PrepareDone, Send, Finish, Timeout, TimeoutFallback,
       Assemble, AssembleReady, AssembleMixed, AssembleSecret, AssembleFails, ZoneAnswer, Block,
       BlockedCall, BrokerAnswers, BrokerFails, Fallback, EscalateDraft, EscalateAdd, Tick
  <2>2. ASSUME NEW c \in Calls, drafts' = [drafts EXCEPT ![c[2]] = @ + 1]
        PROVE  drafts'[t] >= drafts[t]
    <3>1. [drafts EXCEPT ![c[2]] = @ + 1][t] >= drafts[t]
        BY <1>0, BumpGrows
    <3> QED
        BY <2>2, <3>1
  <2> QED
    BY <1>0, <2>1, <2>2
<1>3. locals'[t] >= locals[t]
  <2>1. ASSUME NEW u \in Targets, NEW n \in Nat, locals' = [locals EXCEPT ![u] = @ + n]
        PROVE  locals'[t] >= locals[t]
    <3>1. [locals EXCEPT ![u] = @ + n][t] >= locals[t]
        BY <1>0, BumpGrows
    <3> QED
        BY <2>1, <3>1
  <2>2. ASSUME NEW c \in Calls, ZoneAnswer(c) PROVE locals'[t] >= locals[t]
    <3>1. \/ locals' = locals
          \/ locals' = [locals EXCEPT ![c[2]] = @ + IF shape[c] = "mixed" THEN 2 ELSE 1]
        BY <2>2 DEF ZoneAnswer
    <3>2. (IF shape[c] = "mixed" THEN 2 ELSE 1) \in Nat
        OBVIOUS
    <3>3. CASE locals' = locals
        BY <1>0, <3>3
    <3> QED
        BY <1>0, <2>1, <3>1, <3>2, <3>3
  <2>3. ASSUME NEW c \in Calls, Block(c) \/ Fallback(c) PROVE locals'[t] >= locals[t]
    <3>1. locals' = locals \/ locals' = [locals EXCEPT ![c[2]] = @ + 1]
        BY <2>3 DEF Block, BlockedCall, Fallback
    <3>2. CASE locals' = locals
        BY <1>0, <3>2
    <3> QED
        BY <1>0, <2>1, <3>1, <3>2
  <2>4. ASSUME NEW r \in Requests, TimeoutFallback(r) PROVE locals'[t] >= locals[t]
    <3>1. locals' = locals \/ locals' = [locals EXCEPT ![Head(calls[r])] = @ + 1]
        BY <2>4 DEF TimeoutFallback
    <3>2. locals' = [locals EXCEPT ![Head(calls[r])] = @ + 1] => locals'[t] >= locals[t]
        BY <1>0
    <3>3. CASE locals' = locals
        BY <1>0, <3>3
    <3> QED
        BY <3>1, <3>2, <3>3
  <2>5. \/ locals' = locals
        \/ \E c \in Calls : ZoneAnswer(c) \/ Block(c) \/ Fallback(c)
        \/ \E r \in Requests : TimeoutFallback(r)
    BY ZenonT(60) DEF Next, vars, ledgerVars, Prepare, PrepareDone, Send, Finish, Timeout, Assemble,
       AssembleReady, AssembleMixed, AssembleSecret, AssembleFails, BrokerAnswers,
       BrokerFails, EscalateDraft, EscalateAdd, Tick
  <2>6. CASE locals' = locals
    BY <1>0, <2>6
  <2> QED
    BY <2>2, <2>3, <2>4, <2>5, <2>6
<1> QED
    BY <1>1, <1>2, <1>3

\* A question goes out only in send(), approved, below the limit, and with its row.
LEMMA OutIsSafe ==
    ASSUME Inv, Inv', [Next]_vars, NEW b \in Calls, Life(b) = "held", Life(b)' = "out"
    PROVE  /\ b \in Approvals'
           /\ b \notin Secrets'
           /\ count_today(b[2]) < Limit
           /\ count_today(b[2])' > count_today(b[2])
<1>1. state[b] # "inflight" /\ state'[b] = "inflight"
    BY DEF Life
<1>2. b \notin Secrets' /\ b \in Approvals'
    BY <1>1 DEF Inv, SentCalls, SentStates, Secrets, Approvals
<1>3. PICK r \in Requests, ts \in SUBSET Targets : Send(r, ts)
  <2>1. \/ state' = state
        \/ \E c \in Calls, x \in CallStates \ {"inflight"} : state' = [state EXCEPT ![c] = x]
        \/ \E r \in Requests, ts \in SUBSET Targets : Send(r, ts) \/ Prepare(r, ts)
        \/ \E r \in Requests : Timeout(r)
    BY ZenonT(60) DEF Next, vars, PrepareDone, Finish, TimeoutFallback, Assemble, AssembleReady,
       AssembleMixed, AssembleSecret, AssembleFails, ZoneAnswer, Block, BlockedCall,
       BrokerAnswers, BrokerFails, Fallback, EscalateDraft, EscalateAdd, Tick, CallStates
  <2>2. ASSUME NEW c \in Calls, NEW x \in CallStates \ {"inflight"},
               state' = [state EXCEPT ![c] = x]
        PROVE  FALSE
    BY <1>1, <2>2 DEF Inv, TypeOK
  <2>3. ASSUME NEW r \in Requests, NEW ts \in SUBSET Targets, Prepare(r, ts) PROVE FALSE
    BY <1>1, <2>3 DEF Prepare
  <2>4. ASSUME NEW r \in Requests, Timeout(r) PROVE FALSE
    BY <1>1, <2>4 DEF Timeout
  <2> QED
    BY <1>1, <2>1, <2>2, <2>3, <2>4
<1> DEFINE selected == Selected(r, ts)
           taken == Taken(selected)
           crossing == taken \ Limited(taken)
<1>4. b \in crossing /\ selected # {}
    BY <1>1, <1>3 DEF Send
<1>5. b = <<r, b[2]>> /\ b[2] \in Targets
    BY <1>4, CallParts DEF Selected, Taken
<1>6. ~ LimitReached(b[2])
    BY <1>4 DEF Limited
<1>7. asks'[b[2]] = asks[b[2]] + 1 /\ drafts' = drafts /\ locals' = locals
  <2>1. /\ asks' = [t \in Targets |-> asks[t] + IF <<r, t>> \in crossing THEN 1 ELSE 0]
        /\ drafts' = drafts /\ locals' = locals
    BY <1>3, <1>4 DEF Send
  <2> HIDE DEF selected, taken, crossing
  <2> QED
    BY <1>4, <1>5, <2>1
<1> QED
    BY <1>2, <1>5, <1>6, <1>7, LimitAssumption, SMTT(60) DEF LimitReached, count_today, Inv, TypeOK

\* The envelope of an uncertain answer crosses again only for a draft, with its row.
LEMMA AgainIsSafe ==
    ASSUME Inv, Inv', [Next]_vars, NEW b \in Calls, Life(b) = "doubted", Life(b)' = "again"
    PROVE  /\ b \in Approvals'
           /\ b \notin Secrets'
           /\ count_today(b[2])' > count_today(b[2])
<1>1. state[b] = "answered" /\ state'[b] = "drafting"
    BY DEF Life, NeedsReview
<1>2. b \notin Secrets' /\ b \in Approvals'
    BY <1>1 DEF Inv, SentCalls, SentStates, Secrets, Approvals
<1>3. EscalateDraft(b)
  <2>1. \/ state' = state
        \/ \E c \in Calls, x \in CallStates \ {"drafting"} : state' = [state EXCEPT ![c] = x]
        \/ \E r \in Requests, ts \in SUBSET Targets : Send(r, ts) \/ Prepare(r, ts)
        \/ \E r \in Requests : Timeout(r)
        \/ \E c \in Calls : EscalateDraft(c)
    BY ZenonT(60) DEF Next, vars, PrepareDone, Finish, TimeoutFallback, Assemble, AssembleReady,
       AssembleMixed, AssembleSecret, AssembleFails, ZoneAnswer, Block, BlockedCall,
       BrokerAnswers, BrokerFails, Fallback, EscalateAdd, Tick, CallStates
  <2>2. ASSUME NEW c \in Calls, NEW x \in CallStates \ {"drafting"},
               state' = [state EXCEPT ![c] = x]
        PROVE  FALSE
    BY <1>1, <2>2 DEF Inv, TypeOK
  <2>3. ASSUME NEW r \in Requests, NEW ts \in SUBSET Targets, Prepare(r, ts) PROVE FALSE
    BY <1>1, <2>3 DEF Prepare
  <2>4. ASSUME NEW r \in Requests, NEW ts \in SUBSET Targets, Send(r, ts) PROVE FALSE
    <3>1. state'[b] \in {"inflight", "sendfailed", state[b]}
      BY <2>4 DEF Send
    <3> QED
      BY <1>1, <3>1
  <2>5. ASSUME NEW r \in Requests, Timeout(r) PROVE FALSE
    BY <1>1, <2>5 DEF Timeout
  <2>6. ASSUME NEW c \in Calls, EscalateDraft(c), c # b PROVE FALSE
    BY <1>1, <2>6 DEF EscalateDraft, Inv, TypeOK
  <2> QED
    BY <1>1, <2>1, <2>2, <2>3, <2>4, <2>5, <2>6
<1>4. drafts'[b[2]] = drafts[b[2]] + 1 /\ asks' = asks /\ locals' = locals
    BY <1>3, CallParts DEF EscalateDraft, Inv, TypeOK
<1> QED
    BY <1>2, <1>4, CallParts, SMTT(60) DEF count_today, Inv, TypeOK

LEMMA BoundaryInit == Init => B!Init
BY DEF Init, B!Init, B!Envelopes, Calls, Life, NeedsReview, count_today

LEMMA BoundaryStep == Inv /\ Inv' /\ [Next]_vars => B!Next
<1> SUFFICES ASSUME Inv, Inv', [Next]_vars PROVE B!Next
    OBVIOUS
<1> DEFINE life == [c \in Calls |-> Life(c)]
<1>1. life' \in [Calls -> B!Lives]
    BY DEF Life, B!Lives
<1>2. \A e \in Calls : life'[e] = life[e] \/ <<life[e], life'[e]>> \in B!Moves
    BY LifeMoves
<1>3. Secrets' \in SUBSET Calls /\ Secrets \subseteq Secrets' /\ Approvals' \in SUBSET Calls
    BY SecretsGrow DEF Secrets, Approvals
<1>4. \A t \in Targets : Rows'[t] \in Nat /\ Rows'[t] >= Rows[t]
  <2> SUFFICES ASSUME NEW t \in Targets PROVE Rows'[t] \in Nat /\ Rows'[t] >= Rows[t]
    OBVIOUS
  <2>1. /\ asks[t] \in Nat /\ drafts[t] \in Nat /\ locals[t] \in Nat
        /\ asks'[t] \in Nat /\ drafts'[t] \in Nat /\ locals'[t] \in Nat
    BY DEF Inv, TypeOK
  <2>2. asks'[t] >= asks[t] /\ drafts'[t] >= drafts[t] /\ locals'[t] >= locals[t]
    BY RowsGrow
  <2> QED
    BY <2>1, <2>2 DEF Rows, count_today
<1>5. \A e \in Calls : life[e] = "held" /\ life'[e] = "out" =>
        e \in Approvals' /\ e \notin Secrets' /\ Rows[e[2]] < Limit /\ Rows'[e[2]] > Rows[e[2]]
    BY OutIsSafe, CallParts DEF Rows
<1>6. \A e \in Calls : life[e] = "doubted" /\ life'[e] = "again" =>
        e \in Approvals' /\ e \notin Secrets' /\ Rows'[e[2]] > Rows[e[2]]
    BY AgainIsSafe, CallParts DEF Rows
<1> QED
    BY <1>1, <1>2, <1>3, <1>4, <1>5, <1>6
       DEF B!Next, B!Moved, B!Sendable, B!Envelopes, Calls, Secrets, Approvals, Rows

\* prepare() and send() implement the abstract boundary (BoundaryKept): whatever they do,
\* an envelope crosses once as a question and at most once more for a draft.
THEOREM Refinement == Spec => BoundaryKept
<1>1. Inv /\ Inv' /\ [Next]_vars
        => [B!Next]_<<[c \in Calls |-> Life(c)],
                      {c \in Calls : c[2] \in approved[c[1]]},
                      {c \in Calls : shape[c] \in {"mixed", "secret"}},
                      [t \in Targets |-> count_today(t)]>>
    BY BoundaryStep
<1> QED
    BY <1>1, BoundaryInit, Invariance, PTL DEF Spec, BoundaryKept, B!Spec
=============================================================================
