------------------------------ MODULE Boundary ------------------------------
(***************************************************************************)
(* What the trust boundary promises of an envelope, whatever prepare() and  *)
(* send() do in between.  It is held until it goes out or lapses.  It goes  *)
(* out once as a question, and once more at most, as the request for an     *)
(* escalation draft, when an uncertain answer has come back.  Both times it *)
(* is approved, no SECRET evidence is behind it, and a row says so.  Only   *)
(* the question waits for the daily limit; the row of a draft counts in it. *)
(* Several envelopes may move in one step.                                  *)
(***************************************************************************)
EXTENDS Naturals

CONSTANTS Requests, Targets, Limit

VARIABLES
    life,      \* where each envelope is
    approved,  \* the envelopes the asker approved
    secret,    \* envelopes known to rest on SECRET evidence
    rows       \* rows of the audit database that name each target

Envelopes == Requests \X Targets

\* "held" in the cache, "out" at the broker as a question, "doubted" once its
\* answer is back and uncertain, "again" at the broker for a draft.
Lives == {"none", "held", "out", "doubted", "again", "over"}

Moves == {<<"none", "held">>, <<"none", "over">>,
          <<"held", "out">>, <<"held", "over">>,
          <<"out", "doubted">>, <<"out", "over">>,
          <<"doubted", "again">>, <<"again", "over">>}

Moved(e, from, to) == life[e] = from /\ life'[e] = to

\* What must be true of any crossing of the boundary.
Sendable(e) ==
    /\ e \in approved'
    /\ e \notin secret'
    /\ rows'[e[2]] > rows[e[2]]

Init ==
    /\ life = [e \in Envelopes |-> "none"]
    /\ approved = {}
    /\ secret = {}
    /\ rows = [t \in Targets |-> 0]

Next ==
    /\ life' \in [Envelopes -> Lives]
    /\ \A e \in Envelopes : life'[e] = life[e] \/ <<life[e], life'[e]>> \in Moves
    /\ approved' \in SUBSET Envelopes
    /\ secret' \in SUBSET Envelopes /\ secret \subseteq secret'
    /\ \A t \in Targets : rows'[t] \in Nat /\ rows'[t] >= rows[t]
    /\ \A e \in Envelopes :
         /\ Moved(e, "held", "out") => Sendable(e) /\ rows[e[2]] < Limit
         /\ Moved(e, "doubted", "again") => Sendable(e)

Spec == Init /\ [][Next]_<<life, approved, secret, rows>>
=============================================================================
