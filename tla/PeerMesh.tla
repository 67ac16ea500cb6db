------------------------------ MODULE PeerMesh -------------------------------
(***************************************************************************)
(* A question to a person who lives on another computer: the asker's node   *)
(* calls /api/peer/prepare and, once the asker has approved the preview,    *)
(* /api/peer/send of the owner's node, which reads, converts, crosses the   *)
(* boundary and keeps the records.                                          *)
(*                                                                          *)
(* Every /api request holds one of the node's slots from its first handler  *)
(* step to its last, also while it waits for another node, and waits for a  *)
(* slot in between; a node that stopped waiting is not noticed by the one   *)
(* that serves it.  Node memory is lost with its process.                   *)
(***************************************************************************)
EXTENDS Naturals, FiniteSets

CONSTANTS
    Nodes,
    Questions,
    Asker, Owner,   \* the node of each question's asker and of its target
    Slots,          \* MAX_CONCURRENT_REQUESTS
    MaxRestarts     \* bound on the restarts of all nodes together

ASSUME PlacesAssumption ==
    /\ Asker \in [Questions -> Nodes] /\ Owner \in [Questions -> Nodes]
    /\ \A q \in Questions : Asker[q] # Owner[q]
ASSUME CountsAssumption == Slots \in Nat \ {0} /\ MaxRestarts \in Nat

VARIABLES
    phase,       \* where the asker's own request is
    approved,    \* questions whose preview the asker approved
    told,        \* what the asker was shown in the end
    serving,     \* where the owner's request is: queued, running, out, none
    reply,       \* the response on its way to the asker's node
    peerPending, \* questions in peer_pending of their owner's node
    contexts,    \* questions in Orchestrator._pending of their owner's node
    crossed,     \* how often the owner's node let the question cross
    items,       \* items in the owner's inbox
    restarts

ownerVars == <<peerPending, contexts, crossed, items>>
vars == <<phase, approved, told, serving, reply, peerPending, contexts, crossed, items, restarts>>

Phases == {"new", "preparing", "card", "sending", "over"}
Serving == {"none", "prepare queued", "preparing", "send queued", "sending", "out"}
Replies == {"none", "card", "blocked", "answer", "escalated", "gone", "unavailable"}
Told == {"none", "blocked", "fallback", "answer", "escalated", "error", "left"}

TypeOK ==
    /\ phase \in [Questions -> Phases]
    /\ approved \subseteq Questions
    /\ told \in [Questions -> Told]
    /\ serving \in [Questions -> Serving]
    /\ reply \in [Questions -> Replies]
    /\ peerPending \subseteq Questions
    /\ contexts \subseteq Questions
    /\ crossed \in [Questions -> Nat]
    /\ items \in [Questions -> Nat]
    /\ restarts \in 0 .. MaxRestarts

Init ==
    /\ phase = [q \in Questions |-> "new"]
    /\ approved = {}
    /\ told = [q \in Questions |-> "none"]
    /\ serving = [q \in Questions |-> "none"]
    /\ reply = [q \in Questions |-> "none"]
    /\ peerPending = {}
    /\ contexts = {}
    /\ crossed = [q \in Questions |-> 0]
    /\ items = [q \in Questions |-> 0]
    /\ restarts = 0

-----------------------------------------------------------------------------
(* The semaphore of the HTTP application *)

\* The requests a node is working on: its askers' and those it serves.
Asking(n) == {q \in Questions : Asker[q] = n /\ phase[q] \in {"preparing", "sending"}}
Served(n) == {q \in Questions : Owner[q] = n /\ serving[q] \in {"preparing", "sending", "out"}}
Free(n) == Cardinality(Asking(n)) + Cardinality(Served(n)) < Slots

Waiting(q) == phase[q] \in {"preparing", "sending"}

\* A response nobody waits for any more is dropped with its connection.
Respond(q, answer) ==
    /\ serving' = [serving EXCEPT ![q] = "none"]
    /\ reply' = [reply EXCEPT ![q] = IF Waiting(q) /\ @ = "none" THEN answer ELSE @]

-----------------------------------------------------------------------------
(* prepare *)

Prepare(q) ==
    /\ phase[q] = "new" /\ Free(Asker[q])
    /\ phase' = [phase EXCEPT ![q] = "preparing"]
    /\ serving' = [serving EXCEPT ![q] = "prepare queued"]
    /\ UNCHANGED <<approved, told, reply, ownerVars, restarts>>

TakeSlot(q) ==
    /\ Free(Owner[q])
    /\ \/ /\ serving[q] = "prepare queued"
          /\ serving' = [serving EXCEPT ![q] = "preparing"]
       \/ /\ serving[q] = "send queued"
          /\ serving' = [serving EXCEPT ![q] = "sending"]
    /\ UNCHANGED <<phase, approved, told, reply, ownerVars, restarts>>

\* Mutant: peer_prepare asks as consult does, and sends what it has prepared.
PeerPrepareSends(q, ready) ==
    /\ serving[q] = "preparing"
    /\ IF ready
       THEN /\ serving' = [serving EXCEPT ![q] = "out"]
            /\ crossed' = [crossed EXCEPT ![q] = @ + 1]
            /\ UNCHANGED reply
       ELSE Respond(q, "blocked") /\ UNCHANGED crossed
    /\ UNCHANGED <<phase, approved, told, peerPending, contexts, items, restarts>>

\* A blocked card has an entry in peer_pending too, by its target's name, which
\* nobody asks for: it is left out.
PeerPrepare(q, ready) ==
    /\ serving[q] = "preparing"
    /\ Respond(q, IF ready THEN "card" ELSE "blocked")
    /\ contexts' = contexts \cup {q}
    /\ peerPending' = IF ready THEN peerPending \cup {q} ELSE peerPending
    /\ UNCHANGED <<phase, approved, told, crossed, items, restarts>>

\* An unknown target, an exception in prepare().
PeerPrepareFails(q) ==
    /\ serving[q] = "preparing"
    /\ Respond(q, "unavailable")
    /\ UNCHANGED <<phase, approved, told, ownerVars, restarts>>

\* Mutant: a call without a time-out, which fails only if nobody serves it.
CallFailsWithoutTimeout(q) ==
    /\ Waiting(q) /\ reply[q] = "none" /\ serving[q] = "none"
    /\ reply' = [reply EXCEPT ![q] = "unavailable"]
    /\ UNCHANGED <<phase, approved, told, serving, ownerVars, restarts>>

\* Not reached, refused, no JSON: PeerUnavailable.  Not reached for want of a
\* slot until the client's time-out: the same, and the other node goes on.
CallFails(q) ==
    /\ Waiting(q) /\ reply[q] = "none"
    /\ reply' = [reply EXCEPT ![q] = "unavailable"]
    /\ UNCHANGED <<phase, approved, told, serving, ownerVars, restarts>>

\* _prepare_remote returns the other node's card, or prepare() makes a blocked
\* one with a fallback from no documents at all.
PrepareReturns(q) ==
    /\ phase[q] = "preparing" /\ reply[q] # "none"
    /\ phase' = [phase EXCEPT ![q] = IF reply[q] = "card" THEN "card" ELSE "over"]
    /\ told' = [told EXCEPT ![q] = CASE reply[q] = "card" -> "none"
                                     [] reply[q] = "blocked" -> "blocked"
                                     [] OTHER -> "fallback"]
    /\ reply' = [reply EXCEPT ![q] = "none"]
    /\ UNCHANGED <<approved, serving, ownerVars, restarts>>

-----------------------------------------------------------------------------
(* send *)

Approve(q) ==
    /\ phase[q] = "card" /\ Free(Asker[q])
    /\ phase' = [phase EXCEPT ![q] = "sending"]
    /\ approved' = approved \cup {q}
    /\ serving' = [serving EXCEPT ![q] = "send queued"]
    /\ UNCHANGED <<told, reply, ownerVars, restarts>>

\* The asker closes the preview, or its context expires.
Leave(q) ==
    /\ phase[q] = "card"
    /\ phase' = [phase EXCEPT ![q] = "over"]
    /\ told' = [told EXCEPT ![q] = "left"]
    /\ UNCHANGED <<approved, serving, reply, ownerVars, restarts>>

\* peer_send pops its entry; send() pops the context and the envelope goes out,
\* unless the daily limit has been reached: then the trusted zone answers.
PeerSend(q, refused) ==
    /\ serving[q] = "sending"
    /\ peerPending' = peerPending \ {q}
    /\ IF q \in peerPending /\ q \in contexts
       THEN /\ contexts' = contexts \ {q}
            /\ IF refused
               THEN Respond(q, "answer") /\ UNCHANGED crossed
               ELSE /\ serving' = [serving EXCEPT ![q] = "out"]
                    /\ crossed' = [crossed EXCEPT ![q] = @ + 1]
                    /\ UNCHANGED reply
       ELSE Respond(q, "gone") /\ UNCHANGED <<contexts, crossed>>
    /\ UNCHANGED <<phase, approved, told, items, restarts>>

\* Mutant: `escalated` from the confidence, which a zone answer lacks too.
EscalatedByConfidence(item) == "escalated"

EscalatedBy(item) == IF item THEN "escalated" ELSE "answer"

\* The answer, escalated to the inbox of this node if it is not certain; or
\* the time limit of send() with a zone answer, perhaps after the item of the
\* real one was added, of which nothing is then said.
PeerAnswers(q, uncertain) ==
    /\ serving[q] = "out"
    /\ items' = [items EXCEPT ![q] = @ + IF uncertain THEN 1 ELSE 0]
    /\ Respond(q, EscalatedBy(uncertain))
    /\ UNCHANGED <<phase, approved, told, peerPending, contexts, crossed, restarts>>

PeerLimit(q, late) ==
    /\ serving[q] = "out"
    /\ items' = [items EXCEPT ![q] = @ + IF late THEN 1 ELSE 0]
    /\ Respond(q, "answer")
    /\ UNCHANGED <<phase, approved, told, peerPending, contexts, crossed, restarts>>

\* _send_remote takes the other node's disposition; an exception, and the time
\* limit of the asker's own send(), which is shorter than SEND_TIMEOUT, end in
\* a fallback.
SendReturns(q) ==
    /\ phase[q] = "sending" /\ reply[q] # "none"
    /\ phase' = [phase EXCEPT ![q] = "over"]
    /\ told' = [told EXCEPT ![q] = IF reply[q] \in {"answer", "escalated"} THEN reply[q]
                                   ELSE "fallback"]
    /\ reply' = [reply EXCEPT ![q] = "none"]
    /\ UNCHANGED <<approved, serving, ownerVars, restarts>>

\* PENDING_TTL_SECONDS on the owner's node; peer_pending has no clock.
Lapse(q) ==
    /\ q \in contexts
    /\ contexts' = contexts \ {q}
    /\ UNCHANGED <<phase, approved, told, serving, reply, peerPending, crossed, items, restarts>>

\* A node's process ends and is started again, with the tables on disk alone.
Restart(n) ==
    /\ restarts < MaxRestarts
    /\ restarts' = restarts + 1
    /\ phase' = [q \in Questions |->
                   IF Asker[q] = n /\ phase[q] # "new" THEN "over" ELSE phase[q]]
    /\ told' = [q \in Questions |->
                  IF Asker[q] = n /\ phase[q] \notin {"new", "over"} THEN "error" ELSE told[q]]
    /\ serving' = [q \in Questions |-> IF Owner[q] = n THEN "none" ELSE serving[q]]
    /\ reply' = [q \in Questions |-> IF Asker[q] = n THEN "none" ELSE reply[q]]
    /\ peerPending' = {q \in peerPending : Owner[q] # n}
    /\ contexts' = {q \in contexts : Owner[q] # n}
    /\ UNCHANGED <<approved, crossed, items>>

-----------------------------------------------------------------------------
Serve(q) == \/ \E ready \in BOOLEAN : PeerPrepare(q, ready)
            \/ PeerPrepareFails(q)
            \/ \E refused \in BOOLEAN : PeerSend(q, refused)
            \/ \E late \in BOOLEAN : PeerLimit(q, late)

Next ==
    \/ \E q \in Questions :
          \/ Prepare(q) \/ TakeSlot(q) \/ Serve(q) \/ CallFails(q) \/ PrepareReturns(q)
          \/ Approve(q) \/ Leave(q) \/ SendReturns(q) \/ Lapse(q)
          \/ \E uncertain \in BOOLEAN : PeerAnswers(q, uncertain)
    \/ \E n \in Nodes : Restart(n)

Spec == Init /\ [][Next]_vars

\* Slots are handed on in the order of asking; the handlers end by their own
\* time limits, the clients' calls by theirs.  Nobody owes an approval, and no
\* broker owes an answer (PeerAnswers).
Fairness ==
    \A q \in Questions : /\ WF_vars(TakeSlot(q)) /\ WF_vars(Serve(q))
                         /\ WF_vars(CallFails(q))
                         /\ WF_vars(PrepareReturns(q)) /\ WF_vars(SendReturns(q))

FairSpec == Spec /\ Fairness

-----------------------------------------------------------------------------
(* Properties *)

\* What the asker did not approve never crosses at the owner's node, although
\* approval and crossing are on two computers and a request outlives the
\* patience of the one that made it; and it crosses once (main.py:214-223).
CrossesOnceApproved ==
    \A q \in Questions : crossed[q] <= 1 /\ (crossed[q] > 0 => q \in approved)

\* An asker who is told that the owner was asked to check can count on the
\* item in the owner's inbox, and there is never a second one for the question
\* (orchestrator.py:1671-1673): the asker's node makes none.
ToldIsTrue ==
    \A q \in Questions : items[q] <= 1 /\ (told[q] = "escalated" => items[q] = 1)

\* Two nodes that ask each other may each hold the slots the other waits for;
\* every request ends nevertheless, on both sides.
RequestsEnd ==
    \A q \in Questions : /\ phase[q] \in {"preparing", "sending"}
                              ~> phase[q] \notin {"preparing", "sending"}
                         /\ serving[q] # "none" ~> serving[q] = "none"
=============================================================================
