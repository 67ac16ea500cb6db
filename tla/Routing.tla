------------------------------ MODULE Routing ------------------------------
(***************************************************************************)
(* Who can be asked and where they live.  A node lists its own people and  *)
(* those of its peers (PeerRegistry, src/src/mesh/peer.py, and             *)
(* Orchestrator.agent_cards, src/src/mesh/orchestrator.py), narrows the    *)
(* list for one question (triage, src/src/mesh/triage.py) and later sends  *)
(* a question to the node the registry remembers for the chosen person.    *)
(*                                                                         *)
(* Two screens load the list at once: between the steps of one load the    *)
(* peers change, cached lists expire, /api/agents/refresh reads the people *)
(* of this node again, and the other load finishes.  A peer's address in   *)
(* MESH_PEERS that is this node's own is left out, as is the time an entry *)
(* of the cache has left: an entry expires at any moment (Expire), and an  *)
(* expired entry, which the code never reads, is no entry.                 *)
(*                                                                         *)
(* A card is <<person, where>>, and the lists of cards are sets: their     *)
(* order matters for a person with two cards only, of which the remote one *)
(* is the later, and for the numbers the model picks by, which are here    *)
(* the cards themselves.                                                   *)
(***************************************************************************)
EXTENDS Integers, Sequences, FiniteSets

CONSTANTS
  People,       \* numbers: entity ids, in the order of their display names
  NumPeers,     \* cfg.peers has this many addresses, in this order
  Loads,        \* requests for the list in progress at one time
  AtStart,      \* data.agents when the node starts
  PeersAtStart, \* the people each of the peers lists at first
  Purposes,     \* what each of the loads is for
  Folder,       \* people a refresh may find in agents/ or agents.yaml
  Profiles,     \* what the cards of the people may say of one question
  Full,         \* <<person, where>> whose daily limit is reached
  RawAnswers,   \* what the routing model may answer: sequences of picks
  MaxRelevant,  \* min(request.max_relevant, cfg.broadcast_max_relevant)
  MaxMoves      \* bound: changes of the peers in one behaviour

Cards == People \X {"local", "remote"}

ASSUME PeopleAssumption ==
  /\ People \subseteq Nat /\ IsFiniteSet(People)
  /\ AtStart \subseteq People /\ Folder \subseteq People
ASSUME PeersAssumption ==
  /\ NumPeers \in Nat
  /\ PeersAtStart \in [1..NumPeers -> SUBSET People]
  /\ Purposes \in [Loads -> SUBSET {"list", "broadcast"}]
ASSUME TriageAssumption ==
  /\ \A card \in Profiles :
       card \in [People -> [topics : Nat, words : Nat, units : Nat, title : BOOLEAN,
                           focus : BOOLEAN, leads : BOOLEAN]]
  /\ \A raw \in RawAnswers : DOMAIN raw \subseteq Nat /\ IsFiniteSet(DOMAIN raw)
  /\ MaxRelevant \in Nat /\ MaxMoves \in Nat

Peers == 1..NumPeers
Here == 0                         \* node_of's None: the person is local
PeerStates == {"up", "down", "token", "malformed"}
Codes == {"topic_match", "expertise_match", "focus_match", "team_context",
          "adjacent"}

VARIABLES
  agents,    \* data.agents, the people of this node
  owner,     \* PeerRegistry._owner: person -> peer, Here if never seen
  cache,     \* PeerRegistry._cache: peer -> set of people, or NoList
  peer,      \* the other nodes: [state, people]
  load,      \* the requests of GET /api/agents and POST /api/ask/broadcast
  profile,   \* what the cards say of the question, fixed
  moves      \* counter for MaxMoves

vars == <<agents, owner, cache, peer, load, profile, moves>>

NoList == [known |-> FALSE, people |-> {}]
ListOf(s) == [known |-> TRUE, people |-> s]

(***************************************************************************)
(* The list of this node's people is read with awaits between two people   *)
(* (the summary of a focus asks a model), over the dict that data.agents   *)
(* was when it began.                                                      *)
(*   reading: that dict is still data.agents; apart: a refresh has put a   *)
(*   new dict in its place; torn: the dict grew under the iteration, which *)
(*   raises at its next step; read: finished                               *)
(***************************************************************************)
Reading == {"reading", "apart", "torn", "read"}
FetchStates == {"asked", "got", "raised"}

Idle == [ph |-> "idle", for |-> "list", local |-> "read", people |-> {},
         fetch |-> [u \in Peers |-> "got"], got |-> [u \in Peers |-> {}],
         remote |-> {}, known |-> {}, verdicts |-> << >>, picked |-> {}]

Verdict == [relevant : BOOLEAN, score : Int, code : Codes \cup {"no_match"},
            by : {"rule", "model", "rule+model"}]

TypeOK ==
  /\ agents \subseteq People
  /\ owner \in [People -> Peers \cup {Here}]
  /\ cache \in [Peers -> [known : BOOLEAN, people : SUBSET People]]
  /\ peer \in [Peers -> [state : PeerStates, people : SUBSET People]]
  /\ moves \in 0..MaxMoves
  /\ profile \in Profiles
  /\ \A l \in Loads :
       /\ load[l].ph \in {"idle", "gather", "shown", "failed"}
       /\ load[l].for \in {"list", "broadcast"}
       /\ load[l].local \in Reading
       /\ load[l].people \subseteq People
       /\ load[l].fetch \in [Peers -> FetchStates]
       /\ load[l].got \in [Peers -> SUBSET People]
       /\ load[l].remote \subseteq Peers \X People
       /\ load[l].known \subseteq People /\ load[l].picked \subseteq People
       /\ DOMAIN load[l].verdicts \subseteq People
       /\ \A p \in DOMAIN load[l].verdicts : load[l].verdicts[p] \in Verdict

Init ==
  /\ agents = AtStart
  /\ owner = [p \in People |-> Here]
  /\ cache = [u \in Peers |-> NoList]
  /\ peer = [u \in Peers |-> [state |-> "up", people |-> PeersAtStart[u]]]
  /\ load = [l \in Loads |-> Idle]
  /\ profile \in Profiles
  /\ moves = 0

(***************************************************************************)
(* The registry.  local_ids is a frozenset made when the node starts       *)
(* (main.py: Services); a refresh does not change it.                      *)
(***************************************************************************)
LocalIds == AtStart

NodeOf(p) == IF p \in LocalIds THEN Here ELSE owner[p]

(***************************************************************************)
(* The loop over the gathered lists, in the order of the peers: a card of  *)
(* a local id is ignored, a person belongs to the first node that ever     *)
(* showed them, and what other nodes say of that person is ignored too.    *)
(***************************************************************************)
ShownBy(got, p) == {u \in Peers : p \in got[u]}

First(nodes) == CHOOSE u \in nodes : \A w \in nodes : u <= w

\* Mutant: the node that shows a person now takes them over.
LearntAnew(got, own) ==
  [p \in People |-> IF p \in LocalIds \/ ShownBy(got, p) = {}
                    THEN own[p] ELSE First(ShownBy(got, p))]

\* _owner after the loop.
Learnt(got, own) ==
  [p \in People |-> IF p \in LocalIds \/ own[p] # Here \/ ShownBy(got, p) = {}
                    THEN own[p] ELSE First(ShownBy(got, p))]

\* pairs: the cards that stay, with the node of each.
Accepted(got, own) ==
  {c \in Peers \X People : /\ c[2] \in got[c[1]] /\ c[2] \notin LocalIds
                           /\ Learnt(got, own)[c[2]] = c[1]}

(***************************************************************************)
(* triage.py.  Scores are hundredths of the code's.  A card's profile says *)
(* how many topics, expertise words and units of the question it matches,  *)
(* whether its title and its focus do, and whether the person leads the    *)
(* unit; topics and leads come from this node's own configuration and are  *)
(* empty for people it does not know (Orchestrator._to_candidate).         *)
(***************************************************************************)
Threshold == 50
AtMost3(n) == IF n > 3 THEN 3 ELSE n

Candidate(card, known) ==
  LET p == card[1]
      s == profile[p] IN
  [topics |-> IF p \in known THEN s.topics ELSE 0,
   words |-> s.words, title |-> s.title, focus |-> s.focus,
   units |-> s.units,
   leads |-> p \in known /\ s.leads,
   available |-> card \notin Full]

Score(c) ==
    100 * AtMost3(c.topics)
  + (IF c.words = 1 THEN 30 ELSE 60 * AtMost3(c.words))
  + (IF c.title THEN 30 ELSE 0)
  + (IF c.focus THEN 50 ELSE 0)
  + 25 * c.units

ReasonCode(c) ==
  CASE c.topics > 0 -> "topic_match"
    [] c.topics = 0 /\ (c.words > 0 \/ c.title) -> "expertise_match"
    [] c.topics = 0 /\ c.words = 0 /\ ~c.title /\ c.focus -> "focus_match"
    [] Score(c) = 25 * c.units /\ c.units > 0 ->
         IF c.leads THEN "team_context" ELSE "adjacent"
    [] OTHER -> "no_match"

RuleVerdict(c) ==
  [relevant |-> c.available /\ Score(c) >= Threshold,
   score |-> Score(c), code |-> ReasonCode(c), by |-> "rule"]

\* rule_pass: one verdict per person, the last card of a person decides.
LastCard(cards, p) == IF <<p, "remote">> \in cards THEN <<p, "remote">>
                                                 ELSE <<p, "local">>

RulePass(cards, known) ==
  [p \in {c[1] : c \in cards} |-> RuleVerdict(Candidate(LastCard(cards, p), known))]

\* parse_picks: an index out of range or repeated is dropped, an unknown
\* code becomes "adjacent".
ParsePicks(raw, cards) ==
  [k \in {i \in DOMAIN raw : /\ raw[i].card \in cards
                             /\ \A j \in DOMAIN raw : j < i => raw[j].card # raw[i].card} |->
     [card |-> raw[k].card,
      code |-> IF raw[k].code \in Codes THEN raw[k].code ELSE "adjacent"]]

PicksOf(picks, p) == {k \in DOMAIN picks : picks[k].card[1] = p}

\* The picks of one person are worked off in turn: each adds to the score,
\* the first gives the reason if the rules gave none, the last decides.
ModelPass(cards, known, picks) ==
  [p \in {c[1] : c \in cards} |->
     LET rule == RulePass(cards, known)[p]
         mine == PicksOf(picks, p)
         last == CHOOSE k \in mine : \A j \in mine : j <= k
     IN  IF mine = {} THEN rule
         ELSE [relevant |-> Candidate(picks[last].card, known).available,
               score |-> rule.score + 80 * Cardinality(mine),
               code |-> IF rule.code # "no_match" THEN rule.code
                                                  ELSE picks[First(mine)].code,
               by |-> IF rule.score > 0 \/ Cardinality(mine) > 1
                      THEN "rule+model" ELSE "model"]]

Ahead(v, p, q) == v[p].score > v[q].score
                    \/ (v[p].score = v[q].score /\ p < q)

\* Mutant: the cap counts everyone ahead, not the relevant ones only.
CappedByRank(v) ==
  [p \in DOMAIN v |->
     [v[p] EXCEPT !.relevant =
        v[p].relevant
          /\ Cardinality({q \in DOMAIN v : Ahead(v, q, p)}) < MaxRelevant]]

\* The cap of the last loop: relevant people beyond the best max_relevant
\* stay in the list and are not relevant any more.
Capped(v) ==
  [p \in DOMAIN v |->
     [v[p] EXCEPT !.relevant =
        v[p].relevant
          /\ Cardinality({q \in DOMAIN v : v[q].relevant /\ Ahead(v, q, p)})
               < MaxRelevant]]

Triage(cards, known, picks) == Capped(ModelPass(cards, known, picks))

(***************************************************************************)
(* Loading the list.                                                       *)
(***************************************************************************)
\* remote_cards.one: a list that is cached is used, else the node is asked;
\* the tasks of the gather all begin before any of them waits.
Start(l, for) ==
  /\ load[l].ph \in {"idle", "shown", "failed"}
  /\ load' = [load EXCEPT ![l] =
       [Idle EXCEPT !.ph = "gather", !.for = for, !.local = "reading",
          !.people = agents,
          !.fetch = [u \in Peers |-> IF cache[u].known THEN "got" ELSE "asked"],
          !.got = [u \in Peers |-> cache[u].people]]]
  /\ UNCHANGED <<agents, owner, cache, peer, profile, moves>>

\* The answer, the refusal or the timeout.  A node that is down or refuses
\* the token is left out in silence; a list that is not cards raises
\* ValidationError, which is not PeerUnavailable.
Reply(l, u) ==
  /\ load[l].ph = "gather" /\ load[l].fetch[u] = "asked"
  /\ load' = [load EXCEPT
       ![l].fetch[u] = IF peer[u].state = "malformed" THEN "raised" ELSE "got",
       ![l].got[u] = IF peer[u].state = "up" THEN peer[u].people ELSE {}]
  /\ cache' = IF peer[u].state = "up"
              THEN [cache EXCEPT ![u] = ListOf(peer[u].people)]
              ELSE cache
  /\ UNCHANGED <<agents, owner, peer, profile, moves>>

\* store.list_agents comes to its end; over a dict that grew it raises.
ReadLocal(l) ==
  /\ load[l].ph = "gather" /\ load[l].local \in {"reading", "apart"}
  /\ load' = [load EXCEPT ![l].local = "read"]
  /\ UNCHANGED <<agents, owner, cache, peer, profile, moves>>

\* A list that raises ends the gather while other nodes are still asked;
\* their answers only fill the cache, here before the list is shown.
Settled(l) ==
  /\ load[l].ph = "gather"
  /\ load[l].local \in {"read", "torn"}
  /\ \A u \in Peers : load[l].fetch[u] \in {"got", "raised"}

AnyRaised(l) == \E u \in Peers : load[l].fetch[u] = "raised"

\* remote_cards after the gather: nothing of it runs when one list raised.
Gathered(l) == IF AnyRaised(l)
               THEN [own |-> owner, pairs |-> {}]
               ELSE [own |-> Learnt(load[l].got, owner),
                     pairs |-> Accepted(load[l].got, owner)]

CardsOf(l) == (load[l].people \X {"local"})
                \cup {<<c[2], "remote">> : c \in Gathered(l).pairs}

\* agent_cards raises what the local list raised; the owners that the
\* remote half learnt are kept all the same.
LocalFails(l) ==
  /\ Settled(l) /\ load[l].local = "torn"
  /\ owner' = Gathered(l).own
  /\ load' = [load EXCEPT ![l] = [Idle EXCEPT !.ph = "failed"]]
  /\ UNCHANGED <<agents, cache, peer, profile, moves>>

\* GET /api/agents: the list is on the screen.
ShowList(l) ==
  /\ Settled(l) /\ load[l].local = "read" /\ load[l].for = "list"
  /\ owner' = Gathered(l).own
  /\ load' = [load EXCEPT ![l] =
       [Idle EXCEPT !.ph = "shown", !.people = load[l].people,
                    !.remote = Gathered(l).pairs]]
  /\ UNCHANGED <<agents, cache, peer, profile, moves>>

\* POST /api/ask/broadcast: the asker is left out of the candidates, the
\* model picks (or fails: no picks) and every candidate gets a verdict.
ShowBroadcast(l, asker, raw) ==
  /\ Settled(l) /\ load[l].local = "read" /\ load[l].for = "broadcast"
  /\ owner' = Gathered(l).own
  /\ LET cards == {c \in CardsOf(l) : c[1] # asker}
         picks == ParsePicks(raw, cards)
     IN  load' = [load EXCEPT ![l] =
           [Idle EXCEPT !.ph = "shown", !.for = "broadcast",
                        !.people = load[l].people \ {asker},
                        !.remote = Gathered(l).pairs, !.known = agents,
                        !.verdicts = Triage(cards, agents, picks),
                        !.picked = {picks[k].card[1] : k \in DOMAIN picks}]]
  /\ UNCHANGED <<agents, cache, peer, profile, moves>>

(***************************************************************************)
(* POST /api/agents/refresh before it lists: data.agents becomes a new     *)
(* dict, unless agents.yaml cannot be read; then the people found in the   *)
(* folder are added to the dict that is there.                             *)
(***************************************************************************)
Refresh(found, yamlOk) ==
  /\ found \subseteq Folder
  /\ agents' = IF yamlOk THEN AtStart \cup found ELSE agents \cup found
  /\ load' = [l \in Loads |->
       IF load[l].ph = "gather" /\ load[l].local = "reading"
       THEN [load[l] EXCEPT !.local =
               IF yamlOk THEN "apart"
               ELSE IF found \subseteq agents THEN "reading" ELSE "torn"]
       ELSE load[l]]
  /\ UNCHANGED <<owner, cache, peer, profile, moves>>

Expire(u) ==
  /\ cache[u].known
  /\ cache' = [cache EXCEPT ![u] = NoList]
  /\ UNCHANGED <<agents, owner, peer, load, profile, moves>>

\* The other nodes: one stops, starts, changes its people or its token.
PeerChanges(u, state, people) ==
  /\ moves < MaxMoves
  /\ state # "up" => people = {}
  /\ moves' = moves + 1
  /\ peer' = [peer EXCEPT ![u] = [state |-> state, people |-> people]]
  /\ UNCHANGED <<agents, owner, cache, load, profile>>

Next ==
  \/ \E l \in Loads :
       \/ \E for \in Purposes[l] : Start(l, for)
       \/ \E u \in Peers : Reply(l, u)
       \/ ReadLocal(l) \/ LocalFails(l) \/ ShowList(l)
       \/ \E asker \in AtStart, raw \in RawAnswers : ShowBroadcast(l, asker, raw)
  \/ \E found \in SUBSET Folder, yamlOk \in BOOLEAN : Refresh(found, yamlOk)
  \/ \E u \in Peers :
       \/ Expire(u)
       \/ \E state \in PeerStates, people \in SUBSET People :
            PeerChanges(u, state, people)

Spec == Init /\ [][Next]_vars

----------------------------------------------------------------------------
(***************************************************************************)
(* Properties.                                                             *)
(***************************************************************************)
Shown(l) == load[l].ph = "shown"

(***************************************************************************)
(* Local comes first (PeerRegistry, peer.py:296-302), and a card leads     *)
(* where it says, however long the screen stays and whatever the other     *)
(* screen, the cache, a refresh and the peers do in between.  Somebody     *)
(* shown as another node's is asked on that node (PeerRegistry.node_of,    *)
(* read when the question is prepared, orchestrator.py:1003), or here once *)
(* they are one of this node's people; nobody is shown as of two other     *)
(* nodes; and whoever was of this node when it started is asked here and   *)
(* is nowhere shown as a peer's, whatever a peer claims.  The code keeps   *)
(* the last part for those people only, not for those of a later refresh.  *)
(***************************************************************************)
CardsRoute ==
  \A l \in Loads : Shown(l) =>
    /\ \A c \in load[l].remote :
         NodeOf(c[2]) = c[1] \/ (NodeOf(c[2]) = Here /\ c[2] \in agents)
    /\ \A c, d \in load[l].remote : c[2] = d[2] => c = d
    /\ \A p \in load[l].people \cap AtStart :
         NodeOf(p) = Here /\ \A c \in load[l].remote : c[2] # p

Eligible(l) ==
  LET card(p) == <<p, IF p \in load[l].people THEN "local" ELSE "remote">>
  IN  {p \in DOMAIN load[l].verdicts :
         /\ card(p) \notin Full
         /\ p \in load[l].picked \/ Score(Candidate(card(p), load[l].known)) >= Threshold}

(***************************************************************************)
(* Triage narrows, it does not lose (triage.py: the header of triage(),    *)
(* and the comment "목록에서 지우지 않는다"): everyone listed but the      *)
(* asker has a verdict, a person who can answer and whom the rules or the  *)
(* model found is left out only for max_relevant people at least as good,  *)
(* and nobody else is offered.  Lists that show a person twice, as this    *)
(* node's and as a peer's, are excepted.                                   *)
(***************************************************************************)
TriageKeepsBest ==
  \A l \in Loads : (Shown(l) /\ load[l].for = "broadcast") =>
    LET v == load[l].verdicts
        away == {c[2] : c \in load[l].remote}
        best == {p \in DOMAIN v : v[p].relevant}
        lost == Eligible(l) \ best
    IN  load[l].people \cap away = {} =>
          /\ load[l].people \subseteq DOMAIN v
          /\ best \subseteq Eligible(l)
          /\ lost # {} => Cardinality(best) = MaxRelevant
          /\ \A p \in best, q \in lost : v[p].score >= v[q].score

============================================================================
