---------------------------- MODULE PeerMeshProofs ----------------------------
(***************************************************************************)
(* Theorems about PeerMesh, for any nodes and questions, any number of slots *)
(* and any number of restarts.                                              *)
(***************************************************************************)
EXTENDS PeerMesh, TLAPS

-----------------------------------------------------------------------------
(* The inductive invariant. *)

\* An approval comes after the other node's prepare is over.
ApprovalLast(q) ==
    /\ phase[q] \in {"new", "preparing", "card"} => q \notin approved
    /\ serving[q] \in {"prepare queued", "preparing"} =>
         phase[q] \in {"preparing", "over"} /\ q \notin approved
    /\ serving[q] \in {"send queued", "sending", "out"} => q \in approved
    /\ phase[q] \in {"new", "card"} => serving[q] = "none" /\ reply[q] = "none"
    /\ reply[q] = "card" => phase[q] = "preparing" /\ serving[q] = "none"

\* The context is spent by the crossing, and an item is made by an answer.
CrossingSpends(q) ==
    /\ crossed[q] \in {0, 1}
    /\ crossed[q] = 1 => q \in approved /\ q \notin contexts
    /\ serving[q] \in {"send queued", "sending"} => crossed[q] = 0
    /\ serving[q] = "out" => crossed[q] = 1 /\ items[q] = 0
    /\ items[q] <= crossed[q]

\* Nobody is told of an item before it is there.
EscalationBacked(q) == "escalated" \in {reply[q], told[q]} => items[q] = 1

Good(q) == ApprovalLast(q) /\ CrossingSpends(q) /\ EscalationBacked(q)

Inv == TypeOK /\ \A q \in Questions : Good(q)

-----------------------------------------------------------------------------
(* The steps. *)

LEMMA InitInv == Init => Inv
  BY CountsAssumption DEF Init, Inv, TypeOK, Good, ApprovalLast, CrossingSpends, EscalationBacked,
     Phases, Told, Serving, Replies

\* What a step about one question leaves of another.
Same(p) ==
    /\ phase'[p] = phase[p] /\ told'[p] = told[p]
    /\ serving'[p] = serving[p] /\ reply'[p] = reply[p]
    /\ crossed'[p] = crossed[p] /\ items'[p] = items[p]
    /\ p \in approved' <=> p \in approved
    /\ p \in contexts' <=> p \in contexts

\* The actions of one question.
Step(q) ==
    \/ Prepare(q) \/ TakeSlot(q) \/ Serve(q) \/ CallFails(q) \/ PrepareReturns(q)
    \/ Approve(q) \/ Leave(q) \/ SendReturns(q) \/ Lapse(q)
    \/ \E uncertain \in BOOLEAN : PeerAnswers(q, uncertain)

LEMMA SameIsGood ==
    ASSUME NEW p \in Questions, Good(p), Same(p)
    PROVE  Good(p)'
  BY DEF Same, Good, ApprovalLast, CrossingSpends, EscalationBacked

\* The asker's own steps.
LEMMA AskerStep ==
    ASSUME Inv, NEW q \in Questions,
           \/ Prepare(q) \/ CallFails(q) \/ PrepareReturns(q) \/ Approve(q) \/ Leave(q)
           \/ SendReturns(q)
    PROVE  TypeOK' /\ Good(q)' /\ \A p \in Questions \ {q} : Same(p)
<1> USE DEF Inv, TypeOK, Good, ApprovalLast, CrossingSpends, EscalationBacked, Same, ownerVars,
            Phases, Told, Serving, Replies, Waiting
<1>1. CASE Prepare(q)
  BY <1>1 DEF Prepare
<1>2. CASE CallFails(q)
  <2>1. /\ reply' = [reply EXCEPT ![q] = "unavailable"]
        /\ UNCHANGED <<phase, approved, told, serving, ownerVars, restarts>>
        /\ Waiting(q)
    BY ONLY <1>2 DEF CallFails
  <2>2. TypeOK'
    BY ONLY TypeOK, <2>1 DEF TypeOK, Replies, ownerVars
  <2>3. Good(q)'
    BY <2>1
  <2>4. \A p \in Questions \ {q} : Same(p)
    BY ONLY TypeOK, <2>1 DEF TypeOK, Same, ownerVars
  <2> QED
    BY ONLY <2>2, <2>3, <2>4
<1>3. CASE PrepareReturns(q)
  BY <1>3 DEF PrepareReturns
<1>4. CASE Approve(q)
  BY <1>4 DEF Approve
<1>5. CASE Leave(q)
  BY <1>5 DEF Leave
<1>6. CASE SendReturns(q)
  <2>1. /\ phase' = [phase EXCEPT ![q] = "over"]
        /\ reply' = [reply EXCEPT ![q] = "none"]
        /\ \/ told' = [told EXCEPT ![q] = reply[q]] /\ reply[q] \in {"answer", "escalated"}
           \/ told' = [told EXCEPT ![q] = "fallback"]
        /\ UNCHANGED <<approved, serving, ownerVars, restarts>>
        /\ phase[q] = "sending"
    BY <1>6 DEF SendReturns
  <2>2. TypeOK
    OBVIOUS
  <2>3. TypeOK'
    <3>1. phase' \in [Questions -> Phases]
        BY ONLY <2>1, <2>2 DEF TypeOK, Phases
    <3>2. told' \in [Questions -> Told]
        BY ONLY <2>1, <2>2 DEF TypeOK, Told
    <3>3. reply' \in [Questions -> Replies]
        BY ONLY <2>1, <2>2 DEF TypeOK, Replies
    <3> QED
        BY ONLY <2>1, <2>2, <3>1, <3>2, <3>3 DEF TypeOK, ownerVars
  <2>4. Good(q)'
    BY <2>1
  <2>5. \A p \in Questions \ {q} : Same(p)
    BY ONLY <2>1, <2>2 DEF TypeOK, Same, ownerVars
  <2> QED
    BY ONLY <2>3, <2>4, <2>5
<1> QED  BY <1>1, <1>2, <1>3, <1>4, <1>5, <1>6

\* A response: what a waiting asker's node gets, and nothing else.
LEMMA RespondFacts ==
    ASSUME TypeOK, NEW q \in Questions, NEW answer \in Replies, Respond(q, answer)
    PROVE  /\ serving' \in [Questions -> Serving] /\ reply' \in [Questions -> Replies]
           /\ serving'[q] = "none"
           /\ reply'[q] = reply[q] \/ (Waiting(q) /\ reply'[q] = answer)
           /\ \A p \in Questions \ {q} : serving'[p] = serving[p] /\ reply'[p] = reply[p]
  BY DEF TypeOK, Respond, Serving

\* The steps of the node that answers.
LEMMA OwnerStep ==
    ASSUME Inv, NEW q \in Questions,
           \/ TakeSlot(q) \/ Serve(q) \/ Lapse(q)
           \/ \E uncertain \in BOOLEAN : PeerAnswers(q, uncertain)
    PROVE  TypeOK' /\ Good(q)' /\ \A p \in Questions \ {q} : Same(p)
<1> USE DEF Phases, Told, Serving, Replies, ownerVars
<1>0. TypeOK /\ Good(q)
  BY DEF Inv
<1>1. /\ phase \in [Questions -> Phases] /\ told \in [Questions -> Told]
      /\ serving \in [Questions -> Serving] /\ reply \in [Questions -> Replies]
      /\ crossed \in [Questions -> Nat] /\ items \in [Questions -> Nat]
  BY <1>0 DEF TypeOK
\* An item or none, and a response.
<1>2. ASSUME NEW more \in {0, 1}, NEW answer \in {"answer", "escalated"},
             serving[q] = "out", Respond(q, answer), answer = "escalated" => more = 1,
             items' = [items EXCEPT ![q] = items[q] + more],
             UNCHANGED <<phase, approved, told, peerPending, contexts, crossed, restarts>>
      PROVE  TypeOK' /\ Good(q)' /\ \A p \in Questions \ {q} : Same(p)
  <2>1. crossed[q] = 1 /\ items[q] = 0 /\ q \in approved
    BY <1>0, <1>2 DEF Good, ApprovalLast, CrossingSpends
  <2>2. items' = [items EXCEPT ![q] = more]
    BY <1>2, <2>1
  <2>3. items' \in [Questions -> Nat] /\ items'[q] = more
    <3>1. more \in Nat
      BY <1>2
    <3> QED  BY <1>1, <2>2, <3>1
  <2>4. answer \in Replies
    OBVIOUS
  <2>5. /\ serving' \in [Questions -> Serving] /\ reply' \in [Questions -> Replies]
        /\ serving'[q] = "none" /\ reply'[q] \in {reply[q], answer}
        /\ \A p \in Questions \ {q} : serving'[p] = serving[p] /\ reply'[p] = reply[p]
    BY <1>0, <1>2, <2>4, RespondFacts
  <2>6. TypeOK'
    BY <1>0, <1>2, <2>3, <2>5 DEF TypeOK
  <2>7. ApprovalLast(q)'
    BY <1>0, <1>2, <2>1, <2>5 DEF Good, ApprovalLast
  <2>8. CrossingSpends(q)'
    <3>1. crossed'[q] = 1 /\ items'[q] \in {0, 1}
      BY <1>2, <2>1, <2>3
    <3>2. items'[q] <= 1
      BY <3>1
    <3> QED  BY <1>0, <1>2, <2>1, <2>5, <3>1, <3>2 DEF Good, CrossingSpends
  <2>9. EscalationBacked(q)'
    BY <1>0, <1>2, <2>1, <2>3, <2>5 DEF Good, EscalationBacked
  <2>10. \A p \in Questions \ {q} : Same(p)
    BY <1>1, <1>2, <2>5 DEF Same
  <2> QED  BY <2>6, <2>7, <2>8, <2>9, <2>10 DEF Good
<1>3. CASE TakeSlot(q)
  BY <1>0, <1>3 DEF TakeSlot, TypeOK, Good, ApprovalLast, CrossingSpends, EscalationBacked, Same
<1>4. ASSUME NEW ready \in BOOLEAN, PeerPrepare(q, ready)
      PROVE  TypeOK' /\ Good(q)' /\ \A p \in Questions \ {q} : Same(p)
  BY <1>0, <1>4 DEF PeerPrepare, Respond, Waiting, TypeOK, Good, ApprovalLast, CrossingSpends,
     EscalationBacked, Same
<1>5. CASE PeerPrepareFails(q)
  BY <1>0, <1>5 DEF PeerPrepareFails, Respond, Waiting, TypeOK, Good, ApprovalLast,
     CrossingSpends, EscalationBacked, Same
<1>6. ASSUME NEW refused \in BOOLEAN, PeerSend(q, refused)
      PROVE  TypeOK' /\ Good(q)' /\ \A p \in Questions \ {q} : Same(p)
  <2>0. serving[q] = "sending" /\ peerPending' = peerPending \ {q}
        /\ UNCHANGED <<phase, approved, told, items, restarts>>
    BY <1>6, Zenon DEF PeerSend
  <2>1. q \in approved /\ crossed[q] = 0 /\ items[q] = 0
    <3>1. q \in approved /\ crossed[q] = 0 /\ items[q] <= crossed[q]
      BY <1>0, <2>0 DEF Good, ApprovalLast, CrossingSpends
    <3>2. items[q] \in Nat
      BY <1>1
    <3> QED  BY <3>1, <3>2
  <2>2. CASE q \in peerPending /\ q \in contexts /\ ~ refused
    <3>1. /\ crossed' = [crossed EXCEPT ![q] = crossed[q] + 1]
          /\ serving' = [serving EXCEPT ![q] = "out"]
          /\ contexts' = contexts \ {q} /\ reply' = reply
      BY <1>6, <2>2, Zenon DEF PeerSend
    <3>2. crossed' = [crossed EXCEPT ![q] = 1]
      BY <2>1, <3>1
    <3>a. crossed' \in [Questions -> Nat] /\ crossed'[q] = 1
      BY <1>1, <3>2
    <3>b. serving'[q] = "out" /\ q \notin contexts' /\ items'[q] = 0
      BY <1>1, <2>0, <2>1, <3>1
    <3>3. TypeOK'
      BY <1>0, <2>0, <3>1, <3>a DEF TypeOK
    <3>4. Good(q)'
      <4>1. ApprovalLast(q)'
        BY <1>0, <2>0, <2>1, <3>1, <3>b DEF Good, ApprovalLast
      <4>2. CrossingSpends(q)'
        BY <2>0, <2>1, <3>a, <3>b DEF CrossingSpends
      <4>3. EscalationBacked(q)'
        BY <1>0, <2>0, <3>1 DEF Good, EscalationBacked
      <4> QED  BY <4>1, <4>2, <4>3 DEF Good
    <3>5. \A p \in Questions \ {q} : Same(p)
      BY <1>1, <2>0, <3>1, <3>2 DEF Same
    <3> QED  BY <3>3, <3>4, <3>5
  <2>3. CASE ~ (q \in peerPending /\ q \in contexts /\ ~ refused)
    <3>1. /\ Respond(q, "answer") \/ Respond(q, "gone")
          /\ contexts' = contexts \/ contexts' = contexts \ {q}
          /\ crossed' = crossed
      BY <1>6, <2>3, Zenon DEF PeerSend
    <3>2. /\ serving' \in [Questions -> Serving] /\ reply' \in [Questions -> Replies]
          /\ serving'[q] = "none" /\ reply'[q] \in {reply[q], "answer", "gone"}
          /\ \A p \in Questions \ {q} : serving'[p] = serving[p] /\ reply'[p] = reply[p]
      BY <1>0, <3>1, RespondFacts
    <3>3. TypeOK'
      BY <1>0, <2>0, <3>1, <3>2 DEF TypeOK
    <3>4. Good(q)'
      BY <1>0, <1>1, <2>0, <2>1, <3>1, <3>2
      DEF Good, ApprovalLast, CrossingSpends, EscalationBacked
    <3>5. \A p \in Questions \ {q} : Same(p)
      BY <1>1, <2>0, <3>1, <3>2 DEF Same
    <3> QED  BY <3>3, <3>4, <3>5
  <2> QED  BY <2>2, <2>3
<1>7. ASSUME NEW late \in BOOLEAN, PeerLimit(q, late)
      PROVE  TypeOK' /\ Good(q)' /\ \A p \in Questions \ {q} : Same(p)
  <2>1. serving[q] = "out" /\ Respond(q, "answer")
        /\ UNCHANGED <<phase, approved, told, peerPending, contexts, crossed, restarts>>
        /\ \E more \in {0, 1} : items' = [items EXCEPT ![q] = items[q] + more]
    BY <1>7, Zenon DEF PeerLimit
  <2> QED  BY <1>2, <2>1
<1>8. ASSUME NEW uncertain \in BOOLEAN, PeerAnswers(q, uncertain)
      PROVE  TypeOK' /\ Good(q)' /\ \A p \in Questions \ {q} : Same(p)
  <2>1. serving[q] = "out"
        /\ UNCHANGED <<phase, approved, told, peerPending, contexts, crossed, restarts>>
    BY <1>8, Zenon DEF PeerAnswers
  <2>2. CASE uncertain
    <3>1. Respond(q, "escalated") /\ items' = [items EXCEPT ![q] = items[q] + 1]
      BY <1>8, <2>2, Zenon DEF PeerAnswers, EscalatedBy
    <3> QED  BY <1>2, <2>1, <3>1
  <2>3. CASE ~ uncertain
    <3>1. Respond(q, "answer") /\ items' = [items EXCEPT ![q] = items[q] + 0]
      BY <1>8, <2>3, Zenon DEF PeerAnswers, EscalatedBy
    <3> QED  BY <1>2, <2>1, <3>1
  <2> QED  BY <2>2, <2>3
<1>9. CASE Lapse(q)
  BY <1>0, <1>9 DEF Lapse, TypeOK, Good, ApprovalLast, CrossingSpends, EscalationBacked, Same
<1> QED  BY <1>3, <1>4, <1>5, <1>6, <1>7, <1>8, <1>9 DEF Serve

\* A node that restarts forgets; nothing that is on disk changes.
LEMMA RestartStep ==
    ASSUME Inv, NEW n \in Nodes, Restart(n)
    PROVE  Inv'
<1>1. TypeOK'
  <2>1. restarts' \in 0 .. MaxRestarts
    BY CountsAssumption DEF Restart, Inv, TypeOK
  <2>2. /\ phase' \in [Questions -> Phases] /\ told' \in [Questions -> Told]
        /\ serving' \in [Questions -> Serving] /\ reply' \in [Questions -> Replies]
    BY DEF Restart, Inv, TypeOK, Phases, Told, Serving, Replies
  <2> QED  BY <2>1, <2>2 DEF Restart, Inv, TypeOK
<1>2. ASSUME NEW q \in Questions PROVE Good(q)'
  <2>1. /\ phase'[q] = IF Asker[q] = n /\ phase[q] # "new" THEN "over" ELSE phase[q]
        /\ told'[q] = IF Asker[q] = n /\ phase[q] \notin {"new", "over"} THEN "error" ELSE told[q]
        /\ serving'[q] = IF Owner[q] = n THEN "none" ELSE serving[q]
        /\ reply'[q] = IF Asker[q] = n THEN "none" ELSE reply[q]
        /\ q \in contexts' => q \in contexts
        /\ UNCHANGED <<approved, crossed, items>>
    BY DEF Restart
  <2> QED  BY <2>1 DEF Inv, TypeOK, Good, ApprovalLast, CrossingSpends, EscalationBacked
<1> QED  BY <1>1, <1>2 DEF Inv

LEMMA NextInv == Inv /\ [Next]_vars => Inv'
<1> SUFFICES ASSUME Inv, [Next]_vars PROVE Inv'
  OBVIOUS
<1>1. ASSUME NEW q \in Questions, Step(q) PROVE Inv'
  <2>1. TypeOK' /\ Good(q)' /\ \A p \in Questions \ {q} : Same(p)
    BY <1>1, AskerStep, OwnerStep DEF Step
  <2>2. \A p \in Questions \ {q} : Good(p)'
    BY <2>1, SameIsGood DEF Inv
  <2> QED  BY <2>1, <2>2 DEF Inv
<1>2. ASSUME NEW n \in Nodes, Restart(n) PROVE Inv'
  BY <1>2, RestartStep
<1>3. CASE UNCHANGED vars
  BY <1>3 DEF Inv, TypeOK, Good, ApprovalLast, CrossingSpends, EscalationBacked, vars
<1> QED  BY <1>1, <1>2, <1>3 DEF Next, Step

\* However requests, time-outs and restarts of the two nodes interleave, the
\* invariant holds (peer_prepare, peer_send, _prepare_remote, _send_remote).
THEOREM MeshInvariance == Spec => []Inv
  BY InitInv, NextInv, PTL DEF Spec

-----------------------------------------------------------------------------
(* The theorems. *)

\* Every variable keeps its type.
THEOREM MeshTypes == Spec => []TypeOK
<1>1. Inv => TypeOK
  BY DEF Inv
<1> QED  BY <1>1, MeshInvariance, PTL

\* A question crosses at its owner's node once at most, and only after the
\* asker's approval on another computer (peer_send pops what it sends).
THEOREM PeersCrossOnce == Spec => []CrossesOnceApproved
<1>1. ASSUME Inv, NEW q \in Questions
      PROVE  crossed[q] <= 1 /\ (crossed[q] > 0 => q \in approved)
  <2>1. crossed[q] \in {0, 1} /\ (crossed[q] = 1 => q \in approved)
    BY <1>1 DEF Inv, Good, CrossingSpends
  <2> QED  BY <2>1
<1>2. Inv => CrossesOnceApproved
  BY <1>1 DEF CrossesOnceApproved
<1> QED  BY <1>2, MeshInvariance, PTL

\* Who is told of an escalation finds one item in the owner's inbox, whatever
\* got lost on the way (peer_send, _send_remote).
THEOREM EscalationsAreBacked == Spec => []ToldIsTrue
<1>1. ASSUME Inv, NEW q \in Questions
      PROVE  items[q] <= 1 /\ (told[q] = "escalated" => items[q] = 1)
  <2>1. items[q] \in Nat /\ crossed[q] \in {0, 1} /\ items[q] <= crossed[q]
    BY <1>1 DEF Inv, TypeOK, Good, CrossingSpends
  <2>2. told[q] = "escalated" => items[q] = 1
    BY <1>1 DEF Inv, Good, EscalationBacked
  <2> QED  BY <2>1, <2>2
<1>2. Inv => ToldIsTrue
  BY <1>1 DEF ToldIsTrue
<1> QED  BY <1>2, MeshInvariance, PTL

=============================================================================
