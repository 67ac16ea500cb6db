---------------------------- MODULE ScreenProofs ----------------------------
(***************************************************************************)
(* Theorems about the two halves of the screen: Routing, the list of       *)
(* people, and Console, the threads and the event stream.                  *)
(***************************************************************************)
EXTENDS Routing, Console, FiniteSetTheorems, TLAPS

-----------------------------------------------------------------------------
(* Least and greatest elements. *)

LEMMA Least == \A T \in SUBSET Nat : T # {} => \E x \in T : \A y \in T : x <= y
<1> SUFFICES ASSUME NEW T \in SUBSET Nat, T # {} PROVE \E x \in T : \A y \in T : x <= y
    OBVIOUS
<1>1. \E x \in T : \A y \in T : <<y, x>> \notin OpToRel(<, Nat)
    BY NatLessThanWellFounded, WFMin
<1>2. \A x, y \in Nat : <<y, x>> \notin OpToRel(<, Nat) => x <= y
    BY DEF OpToRel
<1> QED
    BY <1>1, <1>2

LEMMA Greatest ==
    ASSUME NEW T \in SUBSET Nat, T # {}, NEW m \in Nat, \A x \in T : x < m
    PROVE  \E x \in T : \A y \in T : y <= x
<1> DEFINE U == {m - x : x \in T}
<1>1. U \in SUBSET Nat /\ U # {}
  <2>1. \A x \in T : m - x \in Nat
    OBVIOUS
  <2> QED
    BY <2>1
<1>2. PICK u \in U : \A y \in U : u <= y
    BY <1>1, Least
<1>3. PICK x \in T : u = m - x
    BY <1>2
<1>4. \A y \in T : m - y \in U
    OBVIOUS
<1> HIDE DEF U
<1>5. \A y \in T : y <= x
    BY <1>2, <1>3, <1>4
<1> QED
    BY <1>5

LEMMA FirstOf == ASSUME NEW T \in SUBSET Nat, T # {} PROVE First(T) \in T
    BY Least DEF First

-----------------------------------------------------------------------------
(* The cap of triage. *)

LEMMA CapKeepsBest ==
    ASSUME NEW D \in SUBSET People, NEW v \in [D -> Verdict]
    PROVE  LET best == {p \in D : Capped(v)[p].relevant}
               lost == {p \in D : v[p].relevant} \ best
           IN  /\ Capped(v) \in [D -> Verdict]
               /\ \A p \in D : Capped(v)[p].score = v[p].score
               /\ best \subseteq {p \in D : v[p].relevant}
               /\ lost # {} => Cardinality(best) = MaxRelevant
               /\ \A p \in best, q \in lost : v[p].score >= v[q].score
<1> DEFINE found == {p \in D : v[p].relevant}
           before(p) == {q \in D : v[q].relevant /\ Ahead(v, q, p)}
           rank(p) == Cardinality(before(p))
           best == {p \in D : Capped(v)[p].relevant}
           lost == found \ best
<1>1. /\ D \subseteq Nat /\ IsFiniteSet(D) /\ MaxRelevant \in Nat
      /\ \A p \in D : v[p].score \in Int /\ v[p].relevant \in BOOLEAN
    BY PeopleAssumption, TriageAssumption, FS_Subset DEF Verdict
<1>2. \A p \in D : /\ before(p) \in SUBSET D /\ IsFiniteSet(before(p))
                   /\ rank(p) \in Nat
  <2> SUFFICES ASSUME NEW p \in D
               PROVE  before(p) \in SUBSET D /\ IsFiniteSet(before(p)) /\ rank(p) \in Nat
      OBVIOUS
  <2>1. before(p) \in SUBSET D
      OBVIOUS
  <2>2. IsFiniteSet(before(p))
      BY <1>1, <2>1, FS_Subset
  <2> QED
      BY <2>1, <2>2, FS_CardinalityType
<1>3. \A p, q, r \in D :
         /\ ~ Ahead(v, p, p)
         /\ p = q \/ Ahead(v, p, q) \/ Ahead(v, q, p)
         /\ Ahead(v, p, q) /\ Ahead(v, q, r) => Ahead(v, p, r)
    BY <1>1 DEF Ahead
<1>4. ASSUME NEW p \in found, NEW q \in D, Ahead(v, p, q) PROVE rank(p) < rank(q)
  <2>1. before(p) \cup {p} \in SUBSET before(q) /\ p \notin before(p)
      BY <1>3, <1>4
  <2>2. Cardinality(before(p) \cup {p}) = rank(p) + 1
      BY <1>2, <2>1, FS_AddElement
  <2>3. Cardinality(before(p) \cup {p}) <= rank(q)
      BY <1>2, <2>1, FS_Subset
  <2>4. rank(p) \in Nat /\ rank(q) \in Nat
      BY <1>2
  <2> HIDE DEF rank, before
  <2> QED
      BY <2>2, <2>3, <2>4
<1>5. /\ Capped(v) \in [D -> Verdict]
      /\ \A p \in D : Capped(v)[p].score = v[p].score
  <2>1. \A p \in D, b \in BOOLEAN :
           /\ [v[p] EXCEPT !.relevant = b] \in Verdict
           /\ [v[p] EXCEPT !.relevant = b].score = v[p].score
      BY DEF Verdict
  <2> QED
      BY <1>1, <2>1 DEF Capped
<1>6. best = {p \in found : rank(p) < MaxRelevant}
  <2>1. \A p \in D : \A b : v[p] \in Verdict /\ [v[p] EXCEPT !.relevant = b].relevant = b
      BY DEF Verdict
  <2>2. \A p \in D : Capped(v)[p].relevant <=> v[p].relevant /\ rank(p) < MaxRelevant
      BY <2>1 DEF Capped
  <2> QED
      BY <2>2
<1> HIDE DEF best, before
<1>7. ASSUME NEW p \in best, NEW q \in lost PROVE Ahead(v, p, q)
  <2>1. p # q /\ p \in found /\ q \in found /\ rank(p) < MaxRelevant /\ ~ rank(q) < MaxRelevant
      BY <1>6
  <2>2. ~ Ahead(v, q, p)
      BY <1>1, <1>2, <1>4, <2>1
  <2> QED
      BY <1>3, <2>1, <2>2
<1>8. ASSUME lost # {} PROVE Cardinality(best) >= MaxRelevant
  <2>1. PICK q \in lost : \A x \in lost : rank(q) <= rank(x)
    <3> DEFINE T == {rank(x) : x \in lost}
    <3>1. T \in SUBSET Nat /\ T # {}
        BY <1>2, <1>8
    <3>2. PICK n \in T : \A m \in T : n <= m
        BY <3>1, Least
    <3> QED
        BY <3>2
  <2>2. before(q) = best
    <3>1. ASSUME NEW x \in before(q) PROVE x \in best
      <4>1. x \in found /\ Ahead(v, x, q)
          BY DEF before
      <4>2. rank(x) < rank(q)
          BY <1>4, <4>1
      <4> QED
          BY <1>2, <2>1, <4>1, <4>2
    <3>2. ASSUME NEW x \in best PROVE x \in before(q)
        BY <1>6, <1>7 DEF before
    <3> QED
        BY <3>1, <3>2
  <2>3. ~ rank(q) < MaxRelevant
      BY <1>6
  <2> QED
      BY <1>1, <1>2, <2>2, <2>3
<1>9. Cardinality(best) <= MaxRelevant
  <2>1. CASE best = {}
      BY <1>1, <2>1, FS_EmptySet
  <2>2. CASE best # {}
    <3>1. PICK p \in best : \A x \in best : rank(x) <= rank(p)
      <4> DEFINE T == {rank(x) : x \in best}
      <4>1. T \in SUBSET Nat /\ T # {} /\ \A n \in T : n < MaxRelevant
          BY <1>2, <1>6, <2>2
      <4>2. PICK n \in T : \A m \in T : m <= n
          BY <1>1, <4>1, Greatest
      <4> QED
          BY <4>2
    <3>2. best = before(p) \cup {p}
      <4>1. ASSUME NEW x \in best, x # p PROVE x \in before(p)
        <5>1. ~ Ahead(v, p, x)
            BY <1>2, <1>4, <1>6, <3>1
        <5> QED
            BY <1>3, <1>6, <4>1, <5>1 DEF before
      <4>2. ASSUME NEW x \in before(p) PROVE x \in best
        <5>1. x \in found /\ Ahead(v, x, p)
            BY DEF before
        <5>2. rank(x) < rank(p) /\ rank(p) < MaxRelevant
            BY <1>4, <1>6, <5>1
        <5> QED
            BY <1>1, <1>2, <1>6, <5>1, <5>2
      <4> QED
          BY <4>1, <4>2
    <3>3. p \notin before(p)
        BY <1>3, <1>6 DEF before
    <3>4. Cardinality(best) = rank(p) + 1
        BY <1>2, <1>6, <3>2, <3>3, FS_AddElement
    <3> QED
        BY <1>1, <1>2, <1>6, <3>4
  <2> QED
      BY <2>1, <2>2
<1>10. IsFiniteSet(best) /\ Cardinality(best) \in Nat
    BY <1>1, <1>6, FS_Subset, FS_CardinalityType
<1>11. \A p \in best, q \in lost : v[p].score >= v[q].score
    BY <1>1, <1>6, <1>7 DEF Ahead
<1>12. lost # {} => Cardinality(best) = MaxRelevant
    BY <1>1, <1>8, <1>9, <1>10
<1>13. best \subseteq found
    BY <1>6
<1> QED
    BY <1>5, <1>11, <1>12, <1>13 DEF best

-----------------------------------------------------------------------------
(* The model's picks. *)

\* A verdict of the rules, of a card of a known profile.
LEMMA RuleType ==
    ASSUME profile \in Profiles, NEW card \in Cards, NEW known
    PROVE  LET c == Candidate(card, known)
           IN  /\ RuleVerdict(c) \in Verdict
               /\ RuleVerdict(c).relevant <=> card \notin Full /\ Score(c) >= Threshold
<1> DEFINE c == Candidate(card, known)
<1>1. /\ c.topics \in Nat /\ c.words \in Nat /\ c.units \in Nat
      /\ c.available \in BOOLEAN /\ (c.available <=> card \notin Full)
  <2>1. card[1] \in People
      BY DEF Cards
  <2>2. /\ profile[card[1]].topics \in Nat /\ profile[card[1]].words \in Nat
        /\ profile[card[1]].units \in Nat
      BY <2>1, TriageAssumption
  <2> QED
      BY <2>2 DEF Candidate
<1> HIDE DEF c
<1>2. Score(c) \in Int
    BY <1>1 DEF Score, AtMost3
<1>3. ReasonCode(c) \in Codes \cup {"no_match"}
    BY DEF ReasonCode, Codes
<1>4. RuleVerdict(c) \in Verdict
    BY <1>1, <1>2, <1>3 DEF RuleVerdict, Verdict, Threshold
<1>5. RuleVerdict(c).relevant <=> card \notin Full /\ Score(c) >= Threshold
    BY <1>1 DEF RuleVerdict
<1> QED
    BY <1>4, <1>5 DEF c

\* Whoever has one card is found when the card can answer and the rules or the
\* model found it.
LEMMA PassFinds ==
    ASSUME profile \in Profiles, NEW cards \in SUBSET Cards, NEW known,
           NEW raw \in RawAnswers
    PROVE  LET D == {c[1] : c \in cards}
               picks == ParsePicks(raw, cards)
               m == ModelPass(cards, known, picks)
               picked == {picks[k].card[1] : k \in DOMAIN picks}
           IN  /\ m \in [D -> Verdict]
               /\ picked \subseteq D
               /\ (\A c, d \in cards : c[1] = d[1] => c = d) =>
                    \A c \in cards :
                      m[c[1]].relevant <=>
                        /\ c \notin Full
                        /\ c[1] \in picked \/ Score(Candidate(c, known)) >= Threshold
<1> DEFINE D == {c[1] : c \in cards}
           picks == ParsePicks(raw, cards)
           m == ModelPass(cards, known, picks)
           picked == {picks[k].card[1] : k \in DOMAIN picks}
           rule(p) == RulePass(cards, known)[p]
           mine(p) == PicksOf(picks, p)
           last(p) == CHOOSE k \in mine(p) : \A j \in mine(p) : j <= k
<1>1. /\ DOMAIN picks \subseteq DOMAIN raw
      /\ DOMAIN picks \subseteq Nat /\ IsFiniteSet(DOMAIN picks)
      /\ \A k \in DOMAIN picks :
           /\ picks[k].card \in cards
           /\ picks[k].code \in Codes
           /\ \A j \in DOMAIN picks : picks[j].card = picks[k].card => j = k
  <2>1. DOMAIN raw \subseteq Nat /\ IsFiniteSet(DOMAIN raw)
      BY TriageAssumption
  <2>2. DOMAIN picks = {i \in DOMAIN raw :
                          /\ raw[i].card \in cards
                          /\ \A j \in DOMAIN raw : j < i => raw[j].card # raw[i].card}
      BY DEF ParsePicks
  <2>3. \A k \in DOMAIN picks : /\ picks[k].card = raw[k].card
                                /\ picks[k].code \in Codes
      BY DEF ParsePicks, Codes
  <2>4. IsFiniteSet(DOMAIN picks)
      BY <2>1, <2>2, FS_Subset
  <2> HIDE DEF picks
  <2> QED
      BY <2>1, <2>2, <2>3, <2>4
<1> HIDE DEF picks
<1>2. \A c \in cards : c \in Cards /\ c[1] \in D
    OBVIOUS
<1>3. \A p \in D : /\ rule(p) \in Verdict
                   /\ \A c \in cards : c = LastCard(cards, p) =>
                        (rule(p).relevant <=>
                           c \notin Full /\ Score(Candidate(c, known)) >= Threshold)
  <2> SUFFICES ASSUME NEW p \in D
               PROVE  /\ rule(p) \in Verdict
                      /\ \A c \in cards : c = LastCard(cards, p) =>
                           (rule(p).relevant <=>
                              c \notin Full /\ Score(Candidate(c, known)) >= Threshold)
      OBVIOUS
  <2>1. rule(p) = RuleVerdict(Candidate(LastCard(cards, p), known))
      BY DEF RulePass
  <2>2. LastCard(cards, p) \in Cards
      BY <1>2 DEF LastCard, Cards
  <2> QED
      BY <2>1, <2>2, RuleType
<1>4. \A p \in D : /\ mine(p) \in SUBSET Nat /\ mine(p) \subseteq DOMAIN picks
                   /\ IsFiniteSet(mine(p)) /\ Cardinality(mine(p)) \in Nat
  <2> SUFFICES ASSUME NEW p \in D
               PROVE  /\ mine(p) \in SUBSET Nat /\ mine(p) \subseteq DOMAIN picks
                      /\ IsFiniteSet(mine(p)) /\ Cardinality(mine(p)) \in Nat
      OBVIOUS
  <2>1. mine(p) \in SUBSET DOMAIN picks
      BY DEF PicksOf
  <2> QED
      BY <1>1, <2>1, FS_Subset, FS_CardinalityType
<1>5. ASSUME NEW p \in D PROVE
        /\ mine(p) = {} => m[p] = rule(p)
        /\ mine(p) # {} =>
             m[p] = [relevant |-> Candidate(picks[last(p)].card, known).available,
                     score |-> rule(p).score + 80 * Cardinality(mine(p)),
                     code |-> IF rule(p).code # "no_match" THEN rule(p).code
                              ELSE picks[First(mine(p))].code,
                     by |-> IF rule(p).score > 0 \/ Cardinality(mine(p)) > 1
                            THEN "rule+model" ELSE "model"]
    BY DEF ModelPass
<1>6. m \in [D -> Verdict]
  <2>1. ASSUME NEW p \in D PROVE m[p] \in Verdict
    <3>1. CASE mine(p) = {}
        BY <1>3, <1>5, <3>1
    <3>2. CASE mine(p) # {}
      <4>1. picks[First(mine(p))].code \in Codes
          BY <1>1, <1>4, <3>2, FirstOf
      <4>2. rule(p).score \in Int /\ rule(p).code \in Codes \cup {"no_match"}
          BY <1>3 DEF Verdict
      <4>3. \A card : Candidate(card, known).available \in BOOLEAN
          BY DEF Candidate
      <4>4. rule(p).score + 80 * Cardinality(mine(p)) \in Int
          BY <1>4, <4>2
      <4>5. \A b \in BOOLEAN, n \in Int, code \in Codes \cup {"no_match"},
                by \in {"rule", "model", "rule+model"} :
              [relevant |-> b, score |-> n, code |-> code, by |-> by] \in Verdict
          BY DEF Verdict
      <4>6. m[p] = [relevant |-> Candidate(picks[last(p)].card, known).available,
                    score |-> rule(p).score + 80 * Cardinality(mine(p)),
                    code |-> IF rule(p).code # "no_match" THEN rule(p).code
                             ELSE picks[First(mine(p))].code,
                    by |-> IF rule(p).score > 0 \/ Cardinality(mine(p)) > 1
                           THEN "rule+model" ELSE "model"]
          BY <1>5, <3>2
      <4> HIDE DEF m, mine, rule, last, D, picked
      <4> QED
        <5> DEFINE b == Candidate(picks[last(p)].card, known).available
                   n == rule(p).score + 80 * Cardinality(mine(p))
                   code == IF rule(p).code # "no_match" THEN rule(p).code
                           ELSE picks[First(mine(p))].code
                   by == IF rule(p).score > 0 \/ Cardinality(mine(p)) > 1
                         THEN "rule+model" ELSE "model"
        <5>1. b \in BOOLEAN /\ n \in Int
            BY <4>3, <4>4
        <5>2. code \in Codes \cup {"no_match"}
            BY <4>1, <4>2
        <5>3. by \in {"rule", "model", "rule+model"}
            OBVIOUS
        <5>4. m[p] = [relevant |-> b, score |-> n, code |-> code, by |-> by]
            BY <4>6
        <5> HIDE DEF b, n, code, by
        <5> QED
            BY <4>5, <5>1, <5>2, <5>3, <5>4
    <3> QED
        BY <3>1, <3>2
  <2>2. m = [p \in D |-> m[p]]
      BY DEF ModelPass
  <2> HIDE DEF m, D
  <2> QED
      BY <2>1, <2>2
<1>7. picked \subseteq D
    BY <1>1
<1>8. ASSUME \A c, d \in cards : c[1] = d[1] => c = d, NEW c \in cards
      PROVE  m[c[1]].relevant <=> /\ c \notin Full
                                  /\ \/ c[1] \in picked
                                     \/ Score(Candidate(c, known)) >= Threshold
  <2> DEFINE p == c[1]
  <2>1. p \in D /\ c \in Cards
      BY <1>2
  <2>2. CASE mine(p) = {}
    <3>1. p \notin picked
        BY <2>2 DEF PicksOf
    <3>2. c = LastCard(cards, p)
        BY <1>8, <2>1 DEF LastCard, Cards
    <3>3. rule(p).relevant <=> c \notin Full /\ Score(Candidate(c, known)) >= Threshold
        BY <1>3, <2>1, <3>2
    <3>4. m[p] = rule(p)
        BY <1>5, <2>1, <2>2
    <3> HIDE DEF m, rule, picked
    <3> QED
        BY <3>1, <3>3, <3>4
  <2>3. CASE mine(p) # {}
    <3>1. PICK k \in mine(p) : TRUE
        BY <2>3
    <3>2. k \in DOMAIN picks /\ picks[k].card = c /\ k \in Nat
        BY <1>1, <1>8, <3>1 DEF PicksOf
    <3>3. \A j \in mine(p) : j = k
        BY <1>1, <1>8, <3>2 DEF PicksOf
    <3>4. last(p) = k
      <4>1. k \in mine(p) /\ \A j \in mine(p) : j <= k
          BY <3>1, <3>2, <3>3
      <4> HIDE DEF mine
      <4> QED
          BY <3>3, <4>1
    <3>5. p \in picked
        BY <3>2
    <3>6. Candidate(c, known).available <=> c \notin Full
        BY DEF Candidate
    <3>7. m[p].relevant = Candidate(picks[last(p)].card, known).available
      <4>1. m[p] = [relevant |-> Candidate(picks[last(p)].card, known).available,
                    score |-> rule(p).score + 80 * Cardinality(mine(p)),
                    code |-> IF rule(p).code # "no_match" THEN rule(p).code
                             ELSE picks[First(mine(p))].code,
                    by |-> IF rule(p).score > 0 \/ Cardinality(mine(p)) > 1
                           THEN "rule+model" ELSE "model"]
          BY <1>5, <2>1, <2>3
      <4> HIDE DEF m, mine, rule, last, D, picked
      <4> QED
          BY <4>1
    <3> HIDE DEF m, picked, last
    <3> QED
        BY <3>2, <3>4, <3>5, <3>6, <3>7
  <2> QED
      BY <2>2, <2>3
<1> QED
    BY <1>6, <1>7, <1>8 DEF picks

-----------------------------------------------------------------------------
(* Types of Routing. *)

VerdictMaps == UNION {[s -> Verdict] : s \in SUBSET People}

LoadType ==
  [ph : {"idle", "gather", "shown", "failed"}, for : {"list", "broadcast"},
   local : Reading, people : SUBSET People, fetch : [Peers -> FetchStates],
   got : [Peers -> SUBSET People], remote : SUBSET (Peers \X People),
   known : SUBSET People, verdicts : VerdictMaps, picked : SUBSET People]

ListType == [known : BOOLEAN, people : SUBSET People]
PeerType == [state : PeerStates, people : SUBSET People]

TypeInv ==
  /\ agents \subseteq People
  /\ owner \in [People -> Peers \cup {Here}]
  /\ cache \in [Peers -> ListType]
  /\ peer \in [Peers -> PeerType]
  /\ moves \in 0..MaxMoves
  /\ profile \in Profiles
  /\ load \in [Loads -> LoadType]

LEMMA MapsType ==
    /\ << >> \in VerdictMaps
    /\ \A D \in SUBSET People : \A v \in [D -> Verdict] : v \in VerdictMaps
<1>1. \A D \in SUBSET People : \A v \in [D -> Verdict] : v \in VerdictMaps
    BY DEF VerdictMaps
<1>2. << >> \in [{} -> Verdict]
    OBVIOUS
<1> QED
    BY <1>1, <1>2

LEMMA IdleType == Idle \in LoadType
    BY MapsType DEF Idle, LoadType, Reading, FetchStates

LEMMA TypesAgree == TypeInv => TypeOK
<1> SUFFICES ASSUME TypeInv PROVE TypeOK
    OBVIOUS
<1>1. ASSUME NEW l \in Loads
      PROVE  /\ DOMAIN load[l].verdicts \subseteq People
             /\ \A p \in DOMAIN load[l].verdicts : load[l].verdicts[p] \in Verdict
  <2>1. load[l].verdicts \in VerdictMaps
      BY DEF TypeInv, LoadType
  <2>2. PICK s \in SUBSET People : load[l].verdicts \in [s -> Verdict]
      BY <2>1 DEF VerdictMaps
  <2> QED
      BY <2>2
<1>2. \A l \in Loads :
       /\ load[l].ph \in {"idle", "gather", "shown", "failed"}
       /\ load[l].for \in {"list", "broadcast"}
       /\ load[l].local \in Reading
       /\ load[l].people \subseteq People
       /\ load[l].fetch \in [Peers -> FetchStates]
       /\ load[l].got \in [Peers -> SUBSET People]
       /\ load[l].remote \subseteq Peers \X People
       /\ load[l].known \subseteq People /\ load[l].picked \subseteq People
    BY DEF TypeInv, LoadType
<1> QED
    BY <1>1, <1>2 DEF TypeInv, TypeOK, ListType, PeerType

\* What the registry learns from the gathered lists: whoever has a node keeps
\* it, and a card that stays is of a person not of this node, on their node.
LEMMA LearntKeeps ==
    ASSUME NEW got \in [Peers -> SUBSET People], NEW own \in [People -> Peers \cup {Here}]
    PROVE  /\ Learnt(got, own) \in [People -> Peers \cup {Here}]
           /\ \A p \in People : own[p] # Here => Learnt(got, own)[p] = own[p]
           /\ Accepted(got, own) \subseteq Peers \X People
           /\ \A c \in Accepted(got, own) : /\ c[2] \notin LocalIds
                                            /\ Learnt(got, own)[c[2]] = c[1]
<1>1. \A p : /\ ShownBy(got, p) \in SUBSET Nat /\ ShownBy(got, p) \subseteq Peers
    BY PeersAssumption DEF ShownBy, Peers
<1>2. \A p : ShownBy(got, p) # {} => First(ShownBy(got, p)) \in Peers
    BY <1>1, FirstOf
<1>3. Learnt(got, own) \in [People -> Peers \cup {Here}]
    BY <1>2 DEF Learnt
<1> QED
    BY <1>3 DEF Learnt, Accepted

LEMMA GatheredType ==
    ASSUME TypeInv, NEW l \in Loads
    PROVE  /\ Gathered(l).own \in [People -> Peers \cup {Here}]
           /\ \A p \in People : owner[p] # Here => Gathered(l).own[p] = owner[p]
           /\ Gathered(l).pairs \subseteq Peers \X People
           /\ \A c \in Gathered(l).pairs : /\ c[2] \notin LocalIds
                                           /\ Gathered(l).own[c[2]] = c[1]
<1>1. /\ load[l].got \in [Peers -> SUBSET People]
      /\ owner \in [People -> Peers \cup {Here}]
    BY DEF TypeInv, LoadType
<1>2. CASE AnyRaised(l)
    BY <1>1, <1>2 DEF Gathered
<1>3. CASE ~ AnyRaised(l)
    BY <1>1, <1>3, LearntKeeps DEF Gathered
<1> QED
    BY <1>2, <1>3

LEMMA CardsOfType ==
    ASSUME TypeInv, NEW l \in Loads PROVE CardsOf(l) \subseteq Cards
<1>1. load[l].people \subseteq People /\ Gathered(l).pairs \subseteq Peers \X People
    BY GatheredType DEF TypeInv, LoadType
<1> QED
    BY <1>1 DEF CardsOf, Cards

\* One load changes and stays a load.
LEMMA OneLoad ==
    ASSUME TypeInv, NEW l \in Loads, NEW r \in LoadType,
           load' = [load EXCEPT ![l] = r]
    PROVE  load' \in [Loads -> LoadType]
    BY DEF TypeInv

LEMMA TypeInit == Init => TypeInv
<1> SUFFICES ASSUME Init PROVE TypeInv
    OBVIOUS
<1>1. cache \in [Peers -> ListType] /\ peer \in [Peers -> PeerType]
    BY PeersAssumption DEF Init, ListType, PeerType, NoList, PeerStates, Peers
<1>2. moves \in 0..MaxMoves
    BY TriageAssumption DEF Init
<1> QED
    BY <1>1, <1>2, IdleType, PeopleAssumption DEF Init, TypeInv

LEMMA LoadsStep ==
    ASSUME TypeInv, NEW l \in Loads,
           \/ \E for \in Purposes[l] : Start(l, for)
           \/ \E u \in Peers : Reply(l, u)
           \/ ReadLocal(l) \/ LocalFails(l) \/ ShowList(l)
    PROVE  load' \in [Loads -> LoadType]
<1>1. /\ load \in [Loads -> LoadType] /\ load[l] \in LoadType
      /\ Idle \in LoadType
    BY IdleType DEF TypeInv
<1>2. ASSUME NEW for \in Purposes[l], Start(l, for) PROVE load' \in [Loads -> LoadType]
  <2>1. for \in {"list", "broadcast"}
      BY PeersAssumption
  <2>2. /\ agents \subseteq People
        /\ [u \in Peers |-> IF cache[u].known THEN "got" ELSE "asked"] \in [Peers -> FetchStates]
        /\ [u \in Peers |-> cache[u].people] \in [Peers -> SUBSET People]
      BY DEF TypeInv, ListType, FetchStates
  <2>3. [Idle EXCEPT !.ph = "gather", !.for = for, !.local = "reading",
          !.people = agents,
          !.fetch = [u \in Peers |-> IF cache[u].known THEN "got" ELSE "asked"],
          !.got = [u \in Peers |-> cache[u].people]] \in LoadType
      BY <1>1, <2>1, <2>2 DEF LoadType, Reading
  <2> QED
      BY <1>2, <2>3, OneLoad DEF Start
<1>3. ASSUME NEW u \in Peers, Reply(l, u) PROVE load' \in [Loads -> LoadType]
  <2> DEFINE f == IF peer[u].state = "malformed" THEN "raised" ELSE "got"
             g == IF peer[u].state = "up" THEN peer[u].people ELSE {}
  <2>1. f \in FetchStates /\ g \subseteq People
      BY DEF TypeInv, PeerType, FetchStates
  <2>2. load' = [load EXCEPT ![l] = [load[l] EXCEPT !.fetch[u] = f, !.got[u] = g]]
      BY <1>1, <1>3 DEF Reply
  <2> HIDE DEF f, g
  <2>3. [load[l] EXCEPT !.fetch[u] = f, !.got[u] = g] \in LoadType
    <3>1. /\ [load[l].fetch EXCEPT ![u] = f] \in [Peers -> FetchStates]
          /\ [load[l].got EXCEPT ![u] = g] \in [Peers -> SUBSET People]
        BY <1>1, <2>1 DEF LoadType
    <3>2. [load[l] EXCEPT !.fetch[u] = f, !.got[u] = g]
            = [load[l] EXCEPT !.fetch = [load[l].fetch EXCEPT ![u] = f],
                              !.got = [load[l].got EXCEPT ![u] = g]]
        BY <1>1 DEF LoadType
    <3> QED
        BY <1>1, <3>1, <3>2 DEF LoadType
  <2> QED
      BY <2>2, <2>3, OneLoad
<1>4. CASE ReadLocal(l)
  <2>1. [load[l] EXCEPT !.local = "read"] \in LoadType
      BY <1>1 DEF LoadType, Reading
  <2>2. load' = [load EXCEPT ![l] = [load[l] EXCEPT !.local = "read"]]
      BY <1>4 DEF ReadLocal
  <2> QED
      BY <2>1, <2>2, OneLoad
<1>5. CASE LocalFails(l)
  <2>1. [Idle EXCEPT !.ph = "failed"] \in LoadType
      BY <1>1 DEF LoadType
  <2> QED
      BY <1>5, <2>1, OneLoad DEF LocalFails
<1>6. CASE ShowList(l)
  <2>1. [Idle EXCEPT !.ph = "shown", !.people = load[l].people,
                    !.remote = Gathered(l).pairs] \in LoadType
      BY <1>1, GatheredType DEF LoadType
  <2> QED
      BY <1>6, <2>1, OneLoad DEF ShowList
<1> QED
    BY <1>2, <1>3, <1>4, <1>5, <1>6

\* An answer changes one load, which goes on gathering.
LEMMA ReplyLoad ==
    ASSUME TypeInv, NEW l \in Loads, NEW u \in Peers, Reply(l, u)
    PROVE  /\ \A i \in Loads : i # l => load'[i] = load[i]
           /\ load'[l].ph = "gather" /\ load'[l].remote = load[l].remote
<1>1. load \in [Loads -> LoadType] /\ load[l] \in LoadType
    BY DEF TypeInv
<1>2. PICK f, g : load' = [load EXCEPT ![l].fetch[u] = f, ![l].got[u] = g]
    BY DEF Reply
<1>3. \A i \in Loads : i # l => load'[i] = load[i]
    BY <1>1, <1>2
<1>4. load'[l] = [load[l] EXCEPT !.fetch[u] = f, !.got[u] = g]
    BY <1>1, <1>2
<1>5. load[l].ph = "gather"
    BY DEF Reply
<1> QED
    BY <1>1, <1>3, <1>4, <1>5 DEF LoadType

LEMMA RefreshLoads ==
    ASSUME TypeInv, NEW found \in SUBSET Folder, NEW yamlOk \in BOOLEAN,
           Refresh(found, yamlOk)
    PROVE  /\ load' \in [Loads -> LoadType]
           /\ \A l \in Loads : load[l].ph = "gather" \/ load'[l] = load[l]
           /\ \A l \in Loads : load'[l].ph = load[l].ph /\ load'[l].remote = load[l].remote
<1>1. ASSUME NEW l \in Loads
      PROVE  /\ load'[l] \in LoadType
             /\ load[l].ph = "gather" \/ load'[l] = load[l]
             /\ load'[l].ph = load[l].ph /\ load'[l].remote = load[l].remote
  <2>1. load[l] \in LoadType
      BY DEF TypeInv
  <2>2. \A b \in Reading : /\ [load[l] EXCEPT !.local = b] \in LoadType
                           /\ [load[l] EXCEPT !.local = b].ph = load[l].ph
                           /\ [load[l] EXCEPT !.local = b].remote = load[l].remote
      BY <2>1 DEF LoadType
  <2>3. load'[l] = load[l] \/ (/\ load[l].ph = "gather"
                               /\ \E b \in Reading : load'[l] = [load[l] EXCEPT !.local = b])
      BY DEF Refresh, Reading
  <2> QED
      BY <2>1, <2>2, <2>3
<1>2. load' = [l \in Loads |-> load'[l]]
    BY DEF Refresh
<1> QED
    BY <1>1, <1>2

\* What a broadcast shows: the candidates, what the model picks and finds.
Candidates(l, asker) == {c \in CardsOf(l) : c[1] # asker}
Names(l, asker) == {c[1] : c \in Candidates(l, asker)}
Picks(l, asker, raw) == ParsePicks(raw, Candidates(l, asker))
Picked(l, asker, raw) ==
  {Picks(l, asker, raw)[k].card[1] : k \in DOMAIN Picks(l, asker, raw)}
Found(l, asker, raw) == ModelPass(Candidates(l, asker), agents, Picks(l, asker, raw))

LEMMA FoundType ==
    ASSUME TypeInv, NEW l \in Loads, NEW asker \in AtStart, NEW raw \in RawAnswers
    PROVE  /\ Candidates(l, asker) \in SUBSET Cards
           /\ Names(l, asker) \in SUBSET People
           /\ Found(l, asker, raw) \in [Names(l, asker) -> Verdict]
           /\ Picked(l, asker, raw) \subseteq Names(l, asker)
           /\ Capped(Found(l, asker, raw)) \in [Names(l, asker) -> Verdict]
<1>1. /\ Candidates(l, asker) \in SUBSET Cards
      /\ Names(l, asker) \in SUBSET People
    BY CardsOfType DEF Cards, Candidates, Names
<1>2. /\ Found(l, asker, raw) \in [Names(l, asker) -> Verdict]
      /\ Picked(l, asker, raw) \subseteq Names(l, asker)
    BY <1>1, PassFinds DEF TypeInv, Found, Names, Picked, Picks
<1> QED
    BY <1>1, <1>2, CapKeepsBest

LEMMA ShowStep ==
    ASSUME TypeInv, NEW l \in Loads, NEW asker \in AtStart, NEW raw \in RawAnswers,
           ShowBroadcast(l, asker, raw)
    PROVE  /\ load' \in [Loads -> LoadType]
           /\ load'[l].ph = "shown" /\ load'[l].for = "broadcast"
           /\ load'[l].people = load[l].people \ {asker}
           /\ load'[l].remote = Gathered(l).pairs
           /\ load'[l].known = agents
           /\ load'[l].verdicts = Capped(Found(l, asker, raw))
           /\ load'[l].picked = Picked(l, asker, raw)
           /\ \A i \in Loads : i # l => load'[i] = load[i]
<1> DEFINE v == Capped(Found(l, asker, raw))
           new == [Idle EXCEPT !.ph = "shown", !.for = "broadcast",
                        !.people = load[l].people \ {asker},
                        !.remote = Gathered(l).pairs, !.known = agents,
                        !.verdicts = v, !.picked = Picked(l, asker, raw)]
<1>1. load' = [load EXCEPT ![l] = new]
    BY DEF ShowBroadcast, Triage, Found, Picked, Picks, Candidates
<1>2. v \in VerdictMaps /\ Picked(l, asker, raw) \in SUBSET People
    BY FoundType, MapsType
<1> HIDE DEF v
<1>3. new \in LoadType
    BY <1>2, IdleType, GatheredType DEF LoadType, TypeInv
<1>4. /\ new.ph = "shown" /\ new.for = "broadcast"
      /\ new.people = load[l].people \ {asker}
      /\ new.remote = Gathered(l).pairs /\ new.known = agents
      /\ new.verdicts = v /\ new.picked = Picked(l, asker, raw)
    BY DEF Idle
<1> HIDE DEF new
<1>5. load' \in [Loads -> LoadType]
    BY <1>1, <1>3, OneLoad
<1>6. load'[l] = new /\ \A i \in Loads : i # l => load'[i] = load[i]
    BY <1>1 DEF TypeInv
<1> QED
    BY <1>4, <1>5, <1>6 DEF v

LEMMA TypeStep == TypeInv /\ [Next]_vars => TypeInv'
<1> SUFFICES ASSUME TypeInv, [Next]_vars PROVE TypeInv'
    OBVIOUS
<1>1. ASSUME NEW l \in Loads, NEW for \in Purposes[l], Start(l, for) PROVE TypeInv'
    BY <1>1, LoadsStep DEF TypeInv, Start
<1>2. ASSUME NEW l \in Loads, NEW u \in Peers, Reply(l, u) PROVE TypeInv'
  <2>1. load' \in [Loads -> LoadType]
      BY <1>2, LoadsStep
  <2>2. cache' \in [Peers -> ListType]
      BY <1>2 DEF TypeInv, Reply, ListOf, ListType, PeerType
  <2> QED
      BY <1>2, <2>1, <2>2 DEF TypeInv, Reply
<1>3. ASSUME NEW l \in Loads, ReadLocal(l) PROVE TypeInv'
    BY <1>3, LoadsStep DEF TypeInv, ReadLocal
<1>4. ASSUME NEW l \in Loads, LocalFails(l) PROVE TypeInv'
    BY <1>4, LoadsStep, GatheredType DEF TypeInv, LocalFails
<1>5. ASSUME NEW l \in Loads, ShowList(l) PROVE TypeInv'
    BY <1>5, LoadsStep, GatheredType DEF TypeInv, ShowList
<1>6. ASSUME NEW l \in Loads, NEW asker \in AtStart, NEW raw \in RawAnswers,
             ShowBroadcast(l, asker, raw)
      PROVE  TypeInv'
  <2>1. load' \in [Loads -> LoadType]
      BY <1>6, ShowStep
  <2> QED
      BY <1>6, <2>1, GatheredType DEF TypeInv, ShowBroadcast
<1>7. ASSUME NEW found \in SUBSET Folder, NEW yamlOk \in BOOLEAN, Refresh(found, yamlOk)
      PROVE  TypeInv'
  <2>1. load' \in [Loads -> LoadType]
      BY <1>7, RefreshLoads
  <2>2. agents' \subseteq People
      BY <1>7, PeopleAssumption DEF TypeInv, Refresh
  <2> QED
      BY <1>7, <2>1, <2>2 DEF TypeInv, Refresh
<1>8. ASSUME NEW u \in Peers, Expire(u) PROVE TypeInv'
    BY <1>8 DEF TypeInv, Expire, NoList, ListType
<1>9. ASSUME NEW u \in Peers, NEW state \in PeerStates, NEW people \in SUBSET People,
             PeerChanges(u, state, people)
      PROVE  TypeInv'
  <2>1. moves' \in 0..MaxMoves
      BY <1>9, TriageAssumption DEF TypeInv, PeerChanges
  <2>2. peer' \in [Peers -> PeerType]
      BY <1>9 DEF TypeInv, PeerChanges, PeerType
  <2> QED
      BY <1>9, <2>1, <2>2 DEF TypeInv, PeerChanges
<1>10. CASE UNCHANGED vars
    BY <1>10 DEF TypeInv, vars
<1> QED
    BY <1>1, <1>2, <1>3, <1>4, <1>5, <1>6, <1>7, <1>8, <1>9, <1>10 DEF Next

(***************************************************************************)
(* Whatever the peers list and the routing model answers, the registry,    *)
(* its cache, the loads and the verdicts keep their types (TypeOK of       *)
(* Routing; peer.py, PeerRegistry, and triage.py, triage).                 *)
(***************************************************************************)
THEOREM RoutingTypes == Spec => []TypeOK
<1>1. Spec => []TypeInv
    BY TypeInit, TypeStep, PTL DEF Spec
<1> QED
    BY <1>1, TypesAgree, PTL

-----------------------------------------------------------------------------
(* A card leads where it says, and this node's people stay here. *)

OwnersKept ==
  \A l \in Loads : \A c \in load[l].remote :
    c[2] \notin LocalIds /\ owner[c[2]] = c[1]

RouteInv == TypeInv /\ OwnersKept

LEMMA OwnersRoute == RouteInv => CardsRoute
<1> SUFFICES ASSUME RouteInv PROVE CardsRoute
    OBVIOUS
<1>1. \A l \in Loads : load[l].remote \subseteq Peers \X People
    BY DEF RouteInv, TypeInv, LoadType
<1> QED
    BY <1>1 DEF RouteInv, OwnersKept, CardsRoute, NodeOf, LocalIds

\* Nobody loses their node, and a load shows what it showed or cards whose
\* nodes are known.
LEMMA OwnersGrow ==
    ASSUME RouteInv, TypeInv',
           \A p \in People : owner[p] # Here => owner'[p] = owner[p],
           \A l \in Loads :
             \/ load'[l].remote \subseteq load[l].remote
             \/ \A c \in load'[l].remote : c[2] \notin LocalIds /\ owner'[c[2]] = c[1]
    PROVE  RouteInv'
<1>1. \A l \in Loads : load[l].remote \subseteq Peers \X People
    BY DEF RouteInv, TypeInv, LoadType
<1>2. Here \notin Peers
    BY DEF Here, Peers
<1>3. ASSUME NEW l \in Loads, load'[l].remote \subseteq load[l].remote,
             NEW c \in load'[l].remote
      PROVE  c[2] \notin LocalIds /\ owner'[c[2]] = c[1]
  <2>1. c \in load[l].remote /\ c \in Peers \X People
      BY <1>1, <1>3
  <2>2. c[2] \notin LocalIds /\ owner[c[2]] = c[1] /\ c[1] # Here /\ c[2] \in People
      BY <1>2, <2>1 DEF RouteInv, OwnersKept
  <2> QED
      BY <2>2
<1> QED
    BY <1>3 DEF RouteInv, OwnersKept, LocalIds

LEMMA RouteStep == RouteInv /\ [Next]_vars => RouteInv'
<1> SUFFICES ASSUME RouteInv, [Next]_vars PROVE RouteInv'
    OBVIOUS
<1>1. TypeInv /\ TypeInv'
    BY TypeStep DEF RouteInv
<1>2. \A l \in Loads : load[l] \in LoadType /\ load'[l] \in LoadType
    BY <1>1 DEF TypeInv
<1>3. ASSUME NEW l \in Loads, NEW for \in Purposes[l], Start(l, for) PROVE RouteInv'
  <2>1. load'[l].remote = {} /\ \A i \in Loads : i # l => load'[i] = load[i]
      BY <1>1, <1>3 DEF Start, Idle, TypeInv
  <2>2. owner' = owner
      BY <1>3 DEF Start
  <2> QED
      BY <1>1, <2>1, <2>2, OwnersGrow
<1>4. ASSUME NEW l \in Loads, NEW u \in Peers, Reply(l, u) PROVE RouteInv'
  <2>1. \A i \in Loads : load'[i].remote = load[i].remote
      BY <1>1, <1>4, ReplyLoad
  <2>2. owner' = owner
      BY <1>4 DEF Reply
  <2> QED
      BY <1>1, <2>1, <2>2, OwnersGrow
<1>5. ASSUME NEW l \in Loads, ReadLocal(l) PROVE RouteInv'
  <2>1. \A i \in Loads : load'[i].remote = load[i].remote
      BY <1>1, <1>2, <1>5 DEF ReadLocal, TypeInv, LoadType
  <2>2. owner' = owner
      BY <1>5 DEF ReadLocal
  <2> QED
      BY <1>1, <2>1, <2>2, OwnersGrow
<1>6. ASSUME NEW l \in Loads, LocalFails(l) PROVE RouteInv'
  <2>1. load'[l].remote = {} /\ \A i \in Loads : i # l => load'[i] = load[i]
      BY <1>1, <1>6 DEF LocalFails, Idle, TypeInv
  <2>2. \A p \in People : owner[p] # Here => owner'[p] = owner[p]
      BY <1>1, <1>6, GatheredType DEF LocalFails
  <2> QED
      BY <1>1, <2>1, <2>2, OwnersGrow
<1>7. ASSUME NEW l \in Loads, ShowList(l) PROVE RouteInv'
  <2>1. /\ load'[l].remote = Gathered(l).pairs
        /\ \A i \in Loads : i # l => load'[i] = load[i]
      BY <1>1, <1>7 DEF ShowList, Idle, TypeInv
  <2>2. /\ \A p \in People : owner[p] # Here => owner'[p] = owner[p]
        /\ \A c \in Gathered(l).pairs : c[2] \notin LocalIds /\ owner'[c[2]] = c[1]
      BY <1>1, <1>7, GatheredType DEF ShowList
  <2> QED
      BY <1>1, <2>1, <2>2, OwnersGrow
<1>8. ASSUME NEW l \in Loads, NEW asker \in AtStart, NEW raw \in RawAnswers,
             ShowBroadcast(l, asker, raw)
      PROVE  RouteInv'
  <2>1. /\ load'[l].remote = Gathered(l).pairs
        /\ \A i \in Loads : i # l => load'[i] = load[i]
      BY <1>1, <1>8, ShowStep
  <2>2. /\ \A p \in People : owner[p] # Here => owner'[p] = owner[p]
        /\ \A c \in Gathered(l).pairs : c[2] \notin LocalIds /\ owner'[c[2]] = c[1]
      BY <1>1, <1>8, GatheredType DEF ShowBroadcast
  <2> QED
      BY <1>1, <2>1, <2>2, OwnersGrow
<1>9. ASSUME NEW found \in SUBSET Folder, NEW yamlOk \in BOOLEAN, Refresh(found, yamlOk)
      PROVE  RouteInv'
  <2>1. \A i \in Loads : load'[i].remote = load[i].remote
      BY <1>1, <1>9, RefreshLoads
  <2>2. owner' = owner
      BY <1>9 DEF Refresh
  <2> QED
      BY <1>1, <2>1, <2>2, OwnersGrow
<1>10. CASE UNCHANGED <<owner, load>>
    BY <1>1, <1>10 DEF RouteInv, OwnersKept, LocalIds
<1> QED
    BY <1>3, <1>4, <1>5, <1>6, <1>7, <1>8, <1>9, <1>10 DEF Next, vars, Expire, PeerChanges

LEMMA RouteInvariant == Spec => []RouteInv
<1>1. Init => RouteInv
    BY TypeInit DEF Init, RouteInv, OwnersKept, Idle
<1> QED
    BY <1>1, RouteStep, PTL DEF Spec

(***************************************************************************)
(* CardsRoute for any number of people, nodes and loads: a person shown as *)
(* another node's is asked on that node or, as one of this node's, here,   *)
(* and no peer takes over whoever was of this node when it started         *)
(* (peer.py, PeerRegistry.remote_cards and node_of).                       *)
(***************************************************************************)
THEOREM CardsRouteAlways == Spec => []CardsRoute
    BY RouteInvariant, OwnersRoute, PTL

-----------------------------------------------------------------------------
(* Triage narrows and does not lose. *)

\* What TriageKeepsBest says of one load.
KeepsBest(l) ==
  (Shown(l) /\ load[l].for = "broadcast") =>
    LET v == load[l].verdicts
        away == {c[2] : c \in load[l].remote}
        best == {p \in DOMAIN v : v[p].relevant}
        lost == Eligible(l) \ best
    IN  load[l].people \cap away = {} =>
          /\ load[l].people \subseteq DOMAIN v
          /\ best \subseteq Eligible(l)
          /\ lost # {} => Cardinality(best) = MaxRelevant
          /\ \A p \in best, q \in lost : v[p].score >= v[q].score

LEMMA SameCandidates ==
    ASSUME profile' = profile
    PROVE  \A card, known : Candidate(card, known)' = Candidate(card, known)
    BY DEF Candidate

LEMMA KeptLoad ==
    ASSUME NEW l \in Loads, KeepsBest(l), profile' = profile,
           load'[l] = load[l] \/ load'[l].ph # "shown" \/ load'[l].for # "broadcast"
    PROVE  KeepsBest(l)'
<1>1. CASE load'[l] = load[l]
  <2>1. Eligible(l)' = Eligible(l)
      BY <1>1, SameCandidates DEF Eligible
  <2> QED
      BY <1>1, <2>1 DEF KeepsBest, Shown
<1>2. CASE load'[l].ph # "shown" \/ load'[l].for # "broadcast"
    BY <1>2 DEF KeepsBest, Shown
<1> QED
    BY <1>1, <1>2

\* The verdicts of a broadcast, when it is shown.
LEMMA ShownKeepsBest ==
    ASSUME TypeInv, NEW l \in Loads, NEW asker \in AtStart, NEW raw \in RawAnswers,
           ShowBroadcast(l, asker, raw)
    PROVE  KeepsBest(l)'
<1> DEFINE cards == Candidates(l, asker)
           D == Names(l, asker)
           m == Found(l, asker, raw)
           v == Capped(m)
           picked == Picked(l, asker, raw)
           away == {c[2] : c \in load'[l].remote}
           found == {p \in D : m[p].relevant}
           best == {p \in D : v[p].relevant}
           card(p) == <<p, IF p \in load'[l].people THEN "local" ELSE "remote">>
<1>1. /\ load'[l].people = load[l].people \ {asker}
      /\ load'[l].remote = Gathered(l).pairs
      /\ load'[l].known = agents /\ load'[l].verdicts = v /\ load'[l].picked = picked
    BY ShowStep
<1>2. /\ cards \in SUBSET Cards /\ D \in SUBSET People
      /\ m \in [D -> Verdict] /\ picked \subseteq D
    BY FoundType
<1>3. /\ v \in [D -> Verdict] /\ \A p \in D : v[p].score = m[p].score
      /\ best \subseteq found
      /\ found \ best # {} => Cardinality(best) = MaxRelevant
      /\ \A p \in best, q \in found \ best : m[p].score >= m[q].score
    BY <1>2, CapKeepsBest
<1>4. ASSUME load'[l].people \cap away = {}
      PROVE  load'[l].people \subseteq D /\ Eligible(l)' = found
  <2>1. \A c \in cards : c = card(c[1])
      BY <1>1, <1>4, GatheredType DEF CardsOf, Candidates
  <2>2. load'[l].people \subseteq D
    <3>1. ASSUME NEW p \in load[l].people, p # asker PROVE p \in D
      <4>1. <<p, "local">> \in cards
          BY <3>1 DEF CardsOf, Candidates
      <4> QED
          BY <4>1 DEF Names
    <3> QED
        BY <1>1, <3>1
  <2>3. \A c \in cards : m[c[1]].relevant <=> /\ c \notin Full
                                              /\ \/ c[1] \in picked
                                                 \/ Score(Candidate(c, agents)) >= Threshold
    <3>1. \A c, d \in cards : c[1] = d[1] => c = d
        BY <2>1
    <3>2. profile \in Profiles
        BY DEF TypeInv
    <3> QED
        BY <1>2, <3>1, <3>2, PassFinds DEF Found, Picked, Picks
  <2>4. Eligible(l)' = {p \in D : /\ card(p) \notin Full
                                  /\ \/ p \in picked
                                     \/ Score(Candidate(card(p), agents)) >= Threshold}
    <3>1. profile' = profile
        BY DEF ShowBroadcast
    <3>2. DOMAIN v = D
        BY <1>3
    <3> HIDE DEF v, picked, D
    <3> QED
        BY <1>1, <3>1, <3>2, SameCandidates DEF Eligible
  <2>5. \A p \in D : \E c \in cards : c[1] = p /\ c = card(p)
      BY <2>1 DEF Names
  <2> HIDE DEF m, cards, card, picked, D
  <2> QED
      BY <2>2, <2>3, <2>4, <2>5
<1>5. DOMAIN v = D /\ {p \in DOMAIN v : v[p].relevant} = best
    BY <1>3
<1> HIDE DEF v, m, D, picked, found, best
<1> QED
    BY <1>1, <1>3, <1>4, <1>5 DEF KeepsBest, found

BestInv == TypeInv /\ \A l \in Loads : KeepsBest(l)

LEMMA BestStep == BestInv /\ [Next]_vars => BestInv'
<1> SUFFICES ASSUME BestInv, [Next]_vars PROVE BestInv'
    OBVIOUS
<1>1. TypeInv /\ TypeInv' /\ \A l \in Loads : KeepsBest(l)
    BY TypeStep DEF BestInv
<1>2. \A l \in Loads : load[l] \in LoadType /\ load'[l] \in LoadType
    BY <1>1 DEF TypeInv
<1>3. ASSUME profile' = profile,
             \A i \in Loads : \/ load'[i] = load[i] \/ load'[i].ph # "shown"
                              \/ load'[i].for # "broadcast"
      PROVE  BestInv'
    BY <1>1, <1>3, KeptLoad DEF BestInv
<1>4. ASSUME NEW l \in Loads, NEW for \in Purposes[l], Start(l, for) PROVE BestInv'
  <2>1. load'[l].ph = "gather" /\ \A i \in Loads : i # l => load'[i] = load[i]
      BY <1>1, <1>4 DEF Start, Idle, TypeInv
  <2> QED
      BY <1>3, <1>4, <2>1 DEF Start
<1>5. ASSUME NEW l \in Loads, NEW u \in Peers, Reply(l, u) PROVE BestInv'
  <2>1. load'[l].ph = "gather" /\ \A i \in Loads : i # l => load'[i] = load[i]
      BY <1>1, <1>5, ReplyLoad
  <2> QED
      BY <1>3, <1>5, <2>1 DEF Reply
<1>6. ASSUME NEW l \in Loads, ReadLocal(l) PROVE BestInv'
  <2>1. load'[l].ph = "gather" /\ \A i \in Loads : i # l => load'[i] = load[i]
      BY <1>1, <1>2, <1>6 DEF ReadLocal, TypeInv, LoadType
  <2> QED
      BY <1>3, <1>6, <2>1 DEF ReadLocal
<1>7. ASSUME NEW l \in Loads, LocalFails(l) PROVE BestInv'
  <2>1. load'[l].ph = "failed" /\ \A i \in Loads : i # l => load'[i] = load[i]
      BY <1>1, <1>7 DEF LocalFails, Idle, TypeInv
  <2> QED
      BY <1>3, <1>7, <2>1 DEF LocalFails
<1>8. ASSUME NEW l \in Loads, ShowList(l) PROVE BestInv'
  <2>1. load'[l].for = "list" /\ \A i \in Loads : i # l => load'[i] = load[i]
      BY <1>1, <1>8 DEF ShowList, Idle, TypeInv
  <2> QED
      BY <1>3, <1>8, <2>1 DEF ShowList
<1>9. ASSUME NEW l \in Loads, NEW asker \in AtStart, NEW raw \in RawAnswers,
             ShowBroadcast(l, asker, raw)
      PROVE  BestInv'
  <2>1. \A i \in Loads : i # l => load'[i] = load[i]
      BY <1>1, <1>9, ShowStep
  <2>2. profile' = profile
      BY <1>9 DEF ShowBroadcast
  <2>3. KeepsBest(l)'
      BY <1>1, <1>9, ShownKeepsBest
  <2>4. \A i \in Loads : i # l => KeepsBest(i)'
      BY <1>1, <2>1, <2>2, KeptLoad
  <2> QED
      BY <1>1, <2>3, <2>4 DEF BestInv
<1>10. ASSUME NEW found \in SUBSET Folder, NEW yamlOk \in BOOLEAN, Refresh(found, yamlOk)
      PROVE  BestInv'
  <2>1. \A i \in Loads : load'[i] = load[i] \/ load'[i].ph # "shown"
      BY <1>1, <1>10, RefreshLoads
  <2> QED
      BY <1>3, <1>10, <2>1 DEF Refresh
<1>11. CASE UNCHANGED <<profile, load>>
    BY <1>3, <1>11
<1> QED
    BY <1>4, <1>5, <1>6, <1>7, <1>8, <1>9, <1>10, <1>11 DEF Next, vars, Expire, PeerChanges

(***************************************************************************)
(* TriageKeepsBest for any number of people, any cards, any answer of the  *)
(* routing model and any limit: nobody found is lost but for max_relevant  *)
(* people at least as good (triage.py, triage).                            *)
(***************************************************************************)
THEOREM TriageKeepsBestAlways == Spec => []TriageKeepsBest
<1>1. Init => BestInv
    BY TypeInit DEF Init, BestInv, KeepsBest, Shown, Idle
<1>2. BestInv => TriageKeepsBest
    BY DEF BestInv, KeepsBest, TriageKeepsBest
<1> QED
    BY <1>1, <1>2, BestStep, PTL DEF Spec

-----------------------------------------------------------------------------
(* The threads of the screen. *)

Message == [kind : Outcomes \cup {"user"}, q : Questions]
Flight == [kind : {"none", "consult", "prepare", "send"}, q : 0..MaxQuestions,
           who : Keys]
ConsultType == [st : {"none", "sent", "asking", "ended"}, todo : SUBSET Persons,
                targets : SUBSET Persons]

LEMMA PushedType ==
    ASSUME threads \in [Keys -> Seq(Message)], NEW key \in Keys, NEW kind \in Outcomes \cup {"user"},
           NEW q \in Questions
    PROVE  /\ Pushed(key, kind, q) \in [Keys -> Seq(Message)]
           /\ Pushed(key, kind, q)[key] = Append(threads[key], [kind |-> kind, q |-> q])
           /\ \A k \in Keys : k # key => Pushed(key, kind, q)[k] = threads[k]
<1>1. [kind |-> kind, q |-> q] \in Message
    BY DEF Message
<1>2. threads[key] \in Seq(Message)
    OBVIOUS
<1>3. Append(threads[key], [kind |-> kind, q |-> q]) \in Seq(Message)
    BY <1>1, <1>2
<1> HIDE DEF Message
<1> QED
    BY <1>3 DEF Pushed

\* What one step does to the threads and the question in flight.
Puts(kind) ==
  /\ flight.kind = "none" /\ asked < MaxQuestions
  /\ asked' = asked + 1
  /\ askedIn' = [askedIn EXCEPT ![asked'] = active]
  /\ flight' = [kind |-> kind, q |-> asked', who |-> active]
  /\ threads' = Pushed(active, "user", asked')

EndsWith(kind) ==
  /\ flight.kind # "none"
  /\ threads' = Pushed(flight.who, kind, flight.q)
  /\ flight' = NoFlight
  /\ UNCHANGED <<asked, askedIn>>

GoesOn == /\ flight.kind = "prepare"
          /\ flight' = [flight EXCEPT !.kind = "send"]
          /\ UNCHANGED <<threads, asked, askedIn>>

Clears == /\ threads' = [k \in Keys |-> <<>>]
          /\ UNCHANGED <<flight, asked, askedIn>>

ConsultIsMine == flight.kind = "consult" => flight.who = MyAgent

LEMMA ThreadSteps ==
    ASSUME ConsultIsMine, [ConsoleNext]_consoleVars
    PROVE  \/ \E kind \in {"consult", "prepare"} :
                Puts(kind) /\ (kind = "consult" => active = MyAgent)
           \/ \E kind \in Outcomes : EndsWith(kind)
           \/ GoesOn \/ Clears
           \/ UNCHANGED <<threads, flight, asked, askedIn>>
<1>1. CASE SubmitConsult
    BY <1>1 DEF SubmitConsult, Put, Busy, Puts
<1>2. CASE SubmitPerson
    BY <1>2 DEF SubmitPerson, Put, Busy, Puts
<1>3. ASSUME NEW found \in BOOLEAN, ConsultReturns(found) PROVE EndsWith("digest")
    BY <1>3 DEF ConsultReturns, EndsWith, ConsultIsMine
<1>4. CASE ConsultFails
    BY <1>4 DEF ConsultFails, EndsWith, ConsultIsMine, Outcomes
<1>5. CASE PrepareBlocked \/ PrepareFails \/ SendReturns \/ SendFails
    BY <1>5 DEF PrepareBlocked, PrepareFails, SendReturns, SendFails, Ends,
                EndsWith, Outcomes
<1>6. CASE PrepareReady
    BY <1>6 DEF PrepareReady, GoesOn
<1>7. CASE Restart
    BY <1>7 DEF Restart, Clears
<1>8. CASE \/ \E key \in Keys : OpenThread(key)
           \/ \E p \in Persons : ToggleSelect(p)
           \/ ClearSelection \/ ResetBroadcast
    BY <1>8 DEF OpenThread, ToggleSelect, ClearSelection, ResetBroadcast
<1>9. CASE \/ \E c \in Questions :
                \/ \E chosen \in SUBSET Persons : ConsultAsks(c, chosen)
                \/ \E p \in Persons : ConsultHears(c, p)
                \/ ConsultGathers(c)
           \/ Deliver \/ Reconnect \/ UNCHANGED consoleVars
    BY <1>9 DEF ConsultAsks, ConsultHears, ConsultGathers, Deliver, Reconnect,
                consoleVars, screen
<1> QED
    BY <1>1, <1>2, <1>3, <1>4, <1>5, <1>6, <1>7, <1>8, <1>9 DEF ConsoleNext, Outcomes

\* What is in flight is the last question put, in the thread it was put in.
FlightInv ==
  /\ flight.kind = "none" => flight = NoFlight
  /\ flight.kind # "none" => /\ flight.q = asked /\ asked \in Questions
                             /\ flight.who = askedIn[asked]
  /\ ConsultIsMine

ThreadTypes ==
  /\ threads \in [Keys -> Seq(Message)]
  /\ flight \in Flight
  /\ asked \in 0..MaxQuestions
  /\ askedIn \in [Questions -> Keys]

LEMMA ThreadTypesStep ==
    ASSUME ThreadTypes, active \in Keys, FlightInv, [ConsoleNext]_consoleVars
    PROVE  ThreadTypes' /\ FlightInv'
<1>1. ASSUME NEW kind \in {"consult", "prepare"}, Puts(kind),
             kind = "consult" => active = MyAgent
      PROVE  ThreadTypes' /\ FlightInv'
  <2>1. asked' \in Questions /\ asked' \in 0..MaxQuestions
      BY <1>1, ConsoleAssumption DEF Puts, Questions, ThreadTypes
  <2>2. threads' \in [Keys -> Seq(Message)]
      BY <1>1, <2>1, PushedType DEF Puts, ThreadTypes
  <2>3. askedIn' \in [Questions -> Keys] /\ askedIn'[asked'] = active
      BY <1>1, <2>1 DEF Puts, ThreadTypes
  <2>4. flight' \in Flight
      BY <1>1, <2>1 DEF Puts, Flight
  <2>5. FlightInv'
      BY <1>1, <2>1, <2>3 DEF Puts, FlightInv, ConsultIsMine
  <2> QED
      BY <2>1, <2>2, <2>3, <2>4, <2>5 DEF ThreadTypes
<1>2. ASSUME NEW kind \in Outcomes, EndsWith(kind) PROVE ThreadTypes' /\ FlightInv'
  <2>1. flight.who \in Keys /\ flight.q \in Questions
      BY <1>2 DEF EndsWith, FlightInv, ThreadTypes, Flight
  <2>2. threads' \in [Keys -> Seq(Message)]
      BY <1>2, <2>1, PushedType DEF EndsWith, ThreadTypes
  <2>3. flight' \in Flight
      BY <1>2, ConsoleAssumption DEF EndsWith, NoFlight, Flight, Keys
  <2> QED
      BY <1>2, <2>2, <2>3 DEF EndsWith, ThreadTypes, FlightInv, ConsultIsMine, NoFlight
<1>3. CASE GoesOn
  <2>1. flight' \in Flight /\ flight'.kind = "send"
        /\ flight'.q = flight.q /\ flight'.who = flight.who
      BY <1>3 DEF GoesOn, Flight, ThreadTypes
  <2> QED
      BY <1>3, <2>1 DEF GoesOn, ThreadTypes, FlightInv, ConsultIsMine
<1>4. CASE Clears
  <2>1. threads' \in [Keys -> Seq(Message)]
      BY <1>4 DEF Clears
  <2> QED
      BY <1>4, <2>1 DEF Clears, ThreadTypes, FlightInv, ConsultIsMine
<1>5. CASE UNCHANGED <<threads, flight, asked, askedIn>>
    BY <1>5 DEF ThreadTypes, FlightInv, ConsultIsMine
<1> QED
    BY <1>1, <1>2, <1>3, <1>4, <1>5, ThreadSteps DEF FlightInv

-----------------------------------------------------------------------------
(* Each answer is in the thread of its question. *)

IsOutcome(m) == m.kind \in Outcomes

\* Of the messages s of a thread k, when last is the last question put, in the
\* threads in, and now is the one in flight: its questions were put there, only
\* the one in flight waits for its outcome, and an outcome is one, below its
\* question.
PutHere(s, k, last, in) == \A i \in DOMAIN s : s[i].q <= last /\ in[s[i].q] = k
NoneYet(s, now) == \A i \in DOMAIN s : IsOutcome(s[i]) => now # s[i].q
Closed(s, now) == \A i \in DOMAIN s :
  (~ IsOutcome(s[i]) /\ now # s[i].q) =>
     \E j \in DOMAIN s : IsOutcome(s[j]) /\ s[j].q = s[i].q
InOrder(s) == \A i, j \in DOMAIN s :
  (IsOutcome(s[j]) /\ s[j].q = s[i].q) => IF IsOutcome(s[i]) THEN i = j ELSE i < j

InThread(s, k, last, in, now) ==
  PutHere(s, k, last, in) /\ NoneYet(s, now) /\ Closed(s, now) /\ InOrder(s)

Threads == \A k \in Keys : InThread(threads[k], k, asked, askedIn, flight.q)

LEMMA OneMore ==
    ASSUME NEW s \in Seq(Message), NEW m \in Message
    PROVE  LET t == Append(s, m)
               n == Len(s) + 1
           IN  /\ DOMAIN s \subseteq Nat /\ n \in Nat
               /\ DOMAIN t = DOMAIN s \cup {n} /\ n \notin DOMAIN s
               /\ t[n] = m
               /\ \A i \in DOMAIN s : i < n /\ t[i] = s[i] /\ s[i] \in Message
<1> HIDE DEF Message
<1> QED
    OBVIOUS

LEMMA QuestionsAre == Questions \subseteq Nat /\ 0 \notin Questions
    BY ConsoleAssumption DEF Questions

\* The question is put in the thread that is open.
LEMMA PutThread ==
    ASSUME NEW s \in Seq(Message), NEW k, NEW a \in Nat, NEW in, NEW on,
           a + 1 \in Questions, InThread(s, k, a, in, 0),
           on[a + 1] = k, \A q \in Questions : q <= a => on[q] = in[q]
    PROVE  InThread(Append(s, [kind |-> "user", q |-> a + 1]), k, a + 1, on, a + 1)
<1> DEFINE m == [kind |-> "user", q |-> a + 1]
           t == Append(s, m)
           n == Len(s) + 1
<1>1. m \in Message /\ m.q = a + 1 /\ ~ IsOutcome(m)
    BY DEF Message, IsOutcome, Outcomes
<1>2. /\ DOMAIN s \subseteq Nat /\ n \in Nat
      /\ DOMAIN t = DOMAIN s \cup {n} /\ n \notin DOMAIN s /\ t[n] = m
      /\ \A i \in DOMAIN s : i < n /\ t[i] = s[i] /\ s[i].q \in Nat
                             /\ s[i].q \in Questions
  <2>1. \A x \in Message : x.q \in Nat /\ x.q \in Questions
      BY QuestionsAre DEF Message
  <2> HIDE DEF m
  <2> QED
      BY <1>1, <2>1, OneMore
<1> HIDE DEF m, t, n
<1>3. \A i \in DOMAIN s : s[i].q <= a /\ in[s[i].q] = k
    BY DEF InThread, PutHere
<1>4. PutHere(t, k, a + 1, on)
    BY <1>1, <1>2, <1>3 DEF PutHere
<1>5. NoneYet(t, a + 1)
    BY <1>1, <1>2, <1>3 DEF NoneYet
<1>6. Closed(t, a + 1)
  <2>1. \A i \in DOMAIN s : ~ IsOutcome(s[i]) =>
           \E j \in DOMAIN s : IsOutcome(s[j]) /\ s[j].q = s[i].q
      BY QuestionsAre, <1>2 DEF InThread, Closed
  <2> QED
      BY <1>1, <1>2, <2>1 DEF Closed
<1>7. InOrder(t)
    BY <1>1, <1>2, <1>3 DEF InOrder, InThread
<1> QED
    BY <1>4, <1>5, <1>6, <1>7 DEF InThread, t, m

\* The outcome comes into the thread of the question in flight.
LEMMA EndThread ==
    ASSUME NEW s \in Seq(Message), NEW k, NEW a \in Questions, NEW in,
           NEW kind \in Outcomes, in[a] = k, InThread(s, k, a, in, a)
    PROVE  InThread(Append(s, [kind |-> kind, q |-> a]), k, a, in, 0)
<1> DEFINE m == [kind |-> kind, q |-> a]
           t == Append(s, m)
           n == Len(s) + 1
<1>1. m \in Message /\ m.q = a /\ IsOutcome(m)
    BY DEF Message, IsOutcome
<1>2. /\ DOMAIN s \subseteq Nat /\ n \in Nat
      /\ DOMAIN t = DOMAIN s \cup {n} /\ n \notin DOMAIN s /\ t[n] = m
      /\ \A i \in DOMAIN s : i < n /\ t[i] = s[i] /\ s[i].q \in Nat /\ s[i].q # 0
  <2>1. \A x \in Message : x.q \in Nat /\ x.q # 0
      BY QuestionsAre DEF Message
  <2> HIDE DEF m
  <2> QED
      BY <1>1, <2>1, OneMore
<1>3. a \in Nat /\ a # 0
    BY QuestionsAre
<1> HIDE DEF m, t, n
<1>4. PutHere(t, k, a, in)
    BY <1>1, <1>2, <1>3 DEF PutHere, InThread
<1>5. NoneYet(t, 0)
    BY <1>1, <1>2, <1>3 DEF NoneYet
<1>6. Closed(t, 0)
    BY <1>1, <1>2 DEF Closed, InThread
<1>7. InOrder(t)
    BY <1>1, <1>2 DEF InOrder, NoneYet, InThread
<1> QED
    BY <1>4, <1>5, <1>6, <1>7 DEF InThread, t, m

\* Other threads are left alone.
LEMMA OtherThread ==
    ASSUME NEW s \in Seq(Message), NEW k, NEW a \in Nat, NEW in,
           NEW b \in Nat, a <= b, NEW on, NEW now, NEW new,
           \A q \in Questions : q <= a => on[q] = in[q],
           InThread(s, k, a, in, now),
           \A i \in DOMAIN s : s[i].q # new /\ s[i].q # now
    PROVE  InThread(s, k, b, on, new)
<1>1. \A i \in DOMAIN s : s[i].q \in Nat /\ s[i].q \in Questions
  <2>1. \A x \in Message : x.q \in Nat /\ x.q \in Questions
      BY QuestionsAre DEF Message
  <2>2. \A i \in DOMAIN s : s[i] \in Message
      OBVIOUS
  <2> QED
      BY <2>1, <2>2
<1>2. PutHere(s, k, b, on)
    BY <1>1 DEF PutHere, InThread
<1> QED
    BY <1>2 DEF InThread, NoneYet, Closed, InOrder

LEMMA ThreadsStep ==
    ASSUME ThreadTypes, active \in Keys, FlightInv, Threads, [ConsoleNext]_consoleVars
    PROVE  Threads'
<1> SUFFICES ASSUME NEW k \in Keys
             PROVE  InThread(threads'[k], k, asked', askedIn', flight'.q)
    BY DEF Threads, Keys
<1>1. /\ threads[k] \in Seq(Message) /\ InThread(threads[k], k, asked, askedIn, flight.q)
      /\ asked \in Nat
      /\ \A i \in DOMAIN threads[k] :
           /\ threads[k][i].q \in Questions /\ threads[k][i].q # 0
           /\ threads[k][i].q <= asked /\ askedIn[threads[k][i].q] = k
  <2>1. threads[k] \in Seq(Message) /\ InThread(threads[k], k, asked, askedIn, flight.q)
      BY DEF ThreadTypes, Threads
  <2>2. \A i \in DOMAIN threads[k] : threads[k][i] \in Message
      BY <2>1
  <2> QED
      BY <2>1, <2>2, QuestionsAre, ConsoleAssumption DEF InThread, PutHere, Message, ThreadTypes
<1>2. ASSUME NEW kind \in {"consult", "prepare"}, Puts(kind)
      PROVE  InThread(threads'[k], k, asked', askedIn', flight'.q)
  <2>1. asked + 1 \in Questions
      BY <1>2, ConsoleAssumption DEF Puts, Questions, ThreadTypes
  <2>2. /\ flight.q = 0 /\ flight'.q = asked + 1 /\ asked' = asked + 1
        /\ askedIn'[asked + 1] = active
        /\ \A q \in Questions : q <= asked => askedIn'[q] = askedIn[q]
      BY <1>1, <1>2, <2>1, QuestionsAre DEF Puts, FlightInv, NoFlight, ThreadTypes
  <2>3. /\ threads'[active] = Append(threads[active], [kind |-> "user", q |-> asked + 1])
        /\ k # active => threads'[k] = threads[k]
    <3>1. threads' = Pushed(active, "user", asked + 1)
        BY <1>2, <2>2 DEF Puts
    <3>2. threads \in [Keys -> Seq(Message)]
        BY DEF ThreadTypes
    <3> DEFINE p == Pushed(active, "user", asked + 1)
    <3>3. /\ p[active] = Append(threads[active], [kind |-> "user", q |-> asked + 1])
          /\ \A j \in Keys : j # active => p[j] = threads[j]
        BY <3>2 DEF Pushed
    <3> HIDE DEF p
    <3> QED
        BY <3>1, <3>3 DEF p
  <2>4. CASE k = active
    <3>1. InThread(threads[k], k, asked, askedIn, 0)
        BY <1>1, <2>2
    <3>2. askedIn'[asked + 1] = k
        BY <2>2, <2>4
    <3>3. InThread(Append(threads[k], [kind |-> "user", q |-> asked + 1]),
                   k, asked + 1, askedIn', asked + 1)
        BY <1>1, <2>1, <2>2, <3>1, <3>2, PutThread
    <3> QED
        BY <2>2, <2>3, <2>4, <3>3
  <2>5. CASE k # active
    <3>1. \A i \in DOMAIN threads[k] : threads[k][i].q # asked + 1
        BY <1>1, QuestionsAre
    <3> QED
        BY <1>1, <2>2, <2>3, <2>5, <3>1, OtherThread
  <2> QED
      BY <2>4, <2>5
<1>3. ASSUME NEW kind \in Outcomes, EndsWith(kind)
      PROVE  InThread(threads'[k], k, asked', askedIn', flight'.q)
  <2>1. /\ flight.q = asked /\ asked \in Questions /\ flight.who = askedIn[asked]
        /\ flight.who \in Keys
      BY <1>3 DEF EndsWith, FlightInv, ThreadTypes
  <2>2. flight'.q = 0 /\ asked' = asked /\ askedIn' = askedIn
      BY <1>3 DEF EndsWith, NoFlight
  <2>3. /\ threads'[flight.who] = Append(threads[flight.who], [kind |-> kind, q |-> asked])
        /\ k # flight.who => threads'[k] = threads[k]
      BY <1>3, <2>1, PushedType DEF EndsWith, ThreadTypes
  <2>4. CASE k = flight.who
    <3>1. InThread(threads[k], k, asked, askedIn, asked) /\ askedIn[asked] = k
        BY <1>1, <2>1, <2>4
    <3>2. InThread(Append(threads[k], [kind |-> kind, q |-> asked]), k, asked, askedIn, 0)
        BY <1>1, <2>1, <3>1, EndThread
    <3> QED
        BY <2>2, <2>3, <2>4, <3>2
  <2>5. CASE k # flight.who
    <3>1. \A i \in DOMAIN threads[k] : threads[k][i].q # flight.q
        BY <1>1, <2>1, <2>5
    <3> QED
        BY <1>1, <2>2, <2>3, <2>5, <3>1, OtherThread
  <2> QED
      BY <2>4, <2>5
<1>4. CASE GoesOn
    BY <1>1, <1>4 DEF GoesOn, ThreadTypes, Flight
<1>5. CASE Clears
  <2>1. threads'[k] = <<>>
      BY <1>5 DEF Clears
  <2> QED
      BY <2>1 DEF InThread, PutHere, NoneYet, Closed, InOrder
<1>6. CASE UNCHANGED <<threads, flight, asked, askedIn>>
    BY <1>1, <1>6
<1> QED
    BY <1>2, <1>3, <1>4, <1>5, <1>6, ThreadSteps DEF FlightInv

LEMMA Answered ==
    ASSUME ThreadTypes, Threads PROVE AnswerInOwnThread
<1> SUFFICES ASSUME NEW q \in Questions, NEW k \in Keys
             PROVE  /\ About(k, q, Outcomes) # {} => askedIn[q] = k
                    /\ Cardinality(About(k, q, Outcomes)) <= 1
                    /\ \A i \in About(k, q, {"user"}) :
                         /\ \A j \in About(k, q, Outcomes) : i < j
                         /\ flight.q # q => About(k, q, Outcomes) # {}
    BY DEF AnswerInOwnThread
<1> DEFINE s == threads[k]
           outs == About(k, q, Outcomes)
<1>1. s \in Seq(Message) /\ InThread(s, k, asked, askedIn, flight.q)
    BY DEF ThreadTypes, Threads
<1>2. /\ outs = {i \in DOMAIN s : s[i].q = q /\ IsOutcome(s[i])}
      /\ About(k, q, {"user"}) = {i \in DOMAIN s : s[i].q = q /\ s[i].kind = "user"}
    BY DEF About, IsOutcome
<1>3. \A i \in DOMAIN s : s[i].kind = "user" => ~ IsOutcome(s[i])
    BY DEF IsOutcome, Outcomes
<1> HIDE DEF s, outs
<1>4. outs # {} => askedIn[q] = k
    BY <1>1, <1>2 DEF InThread, PutHere
<1>5. Cardinality(outs) <= 1
  <2>1. \A i, j \in outs : i = j
      BY <1>1, <1>2 DEF InThread, InOrder
  <2>2. CASE outs = {}
      BY <2>2, FS_EmptySet
  <2>3. ASSUME NEW i \in outs PROVE Cardinality(outs) <= 1
    <3>1. outs = {i}
        BY <2>1, <2>3
    <3>2. Cardinality({i}) = 1
        BY FS_Singleton
    <3> QED
        BY <3>1, <3>2
  <2> QED
      BY <2>2, <2>3
<1>6. \A i \in About(k, q, {"user"}) :
        /\ \A j \in outs : i < j
        /\ flight.q # q => outs # {}
    BY <1>1, <1>2, <1>3 DEF InThread, InOrder, Closed
<1> QED
    BY <1>4, <1>5, <1>6 DEF outs

-----------------------------------------------------------------------------
(* Nobody stays highlighted. *)

StreamTypes ==
  /\ communicating \subseteq Persons
  /\ consult \in [Questions -> ConsultType]
  /\ listed \in BOOLEAN /\ gap \in BOOLEAN
  /\ queue \in Seq(Events) /\ Len(queue) <= QueueSize

\* Somebody is asking p.
IsAsked(p) == \E c \in Questions : consult[c].st = "asking" /\ p \in consult[c].todo

Shows(ev, p) == ev.type = "broadcast_start" /\ p \in ev.agents
Hides(ev, p) ==
  ev.type = "broadcast_end" \/ (ev.type = "agent_responded" /\ p \in ev.agents)

\* Whoever the events of q show, from the first on, is being asked or hidden by
\* a later event of q.
Balanced(q) == \A i \in DOMAIN q, p \in Persons :
  Shows(q[i], p) => IsAsked(p) \/ \E j \in DOMAIN q : i < j /\ Hides(q[j], p)

ToBeHidden(q, p) == IsAsked(p) \/ \E j \in DOMAIN q : Hides(q[j], p)

StreamInv ==
  /\ ~ listed => gap
  /\ listed => Balanced(queue)
  /\ ~ gap => \A p \in communicating : ToBeHidden(queue, p)

NotYetPut == \A c \in Questions : c > asked => consult[c].st = "none"

LEMMA EventsAre ==
    /\ \A some \in SUBSET Persons : /\ Event("broadcast_start", some) \in Events
                                    /\ Event("broadcast_end", some) \in Events
    /\ \A p \in Persons : Event("agent_responded", {p}) \in Events
    /\ Event("agent_querying", {}) \in Events
    BY DEF Event, Events

LEMMA PushGives ==
    ASSUME StreamTypes, NEW evs \in Seq(Events), Push(evs)
    PROVE  /\ queue' \in Seq(Events) /\ Len(queue') <= QueueSize
           /\ listed' \in BOOLEAN /\ gap' \in BOOLEAN
           /\ \/ listed /\ listed' /\ queue' = queue \o evs /\ gap' = gap
              \/ ~ listed' /\ gap'
<1> DEFINE room == QueueSize - Len(queue)
<1>1. /\ queue \in Seq(Events) /\ Len(queue) \in Nat /\ QueueSize \in Nat
      /\ Len(evs) \in Nat /\ room \in Nat
    BY ConsoleAssumption DEF StreamTypes
<1>2. Fitting(evs) = IF Len(evs) <= room THEN evs ELSE SubSeq(evs, 1, room)
    BY DEF Fitting
<1> HIDE DEF room
<1>3. /\ Fitting(evs) \in Seq(Events) /\ Len(Fitting(evs)) <= room
  <2>1. CASE Len(evs) <= room
      BY <1>2, <2>1
  <2>2. CASE ~ Len(evs) <= room
    <3>1. 1 \in 1..(Len(evs) + 1) /\ room \in 0..Len(evs)
        BY <1>1, <2>2
    <3>2. SubSeq(evs, 1, room) \in Seq(Events) /\ Len(SubSeq(evs, 1, room)) = room
        BY <1>1, <3>1
    <3> QED
        BY <1>1, <1>2, <2>2, <3>2
  <2> QED
      BY <2>1, <2>2
<1>4. /\ queue \o Fitting(evs) \in Seq(Events)
      /\ Len(queue \o Fitting(evs)) <= QueueSize
  <2>1. Len(queue \o Fitting(evs)) = Len(queue) + Len(Fitting(evs))
      BY <1>1, <1>3
  <2> QED
      BY <1>1, <1>3, <2>1 DEF room
<1> QED
    BY <1>4 DEF Push, StreamTypes

LEMMA Joined ==
    ASSUME NEW s \in Seq(Events), NEW t \in Seq(Events)
    PROVE  /\ s \o t \in Seq(Events) /\ Len(s) \in Nat /\ Len(t) \in Nat
           /\ DOMAIN s = 1..Len(s) /\ DOMAIN t = 1..Len(t)
           /\ DOMAIN (s \o t) = 1..(Len(s) + Len(t))
           /\ \A i \in 1..(Len(s) + Len(t)) :
                (s \o t)[i] = IF i <= Len(s) THEN s[i] ELSE t[i - Len(s)]
    OBVIOUS

\* A server that goes on asking whom it shows keeps the stream right.
LEMMA PushKeeps ==
    ASSUME StreamTypes, StreamInv, NEW evs \in Seq(Events), Push(evs),
           communicating' = communicating,
           \A p \in Persons : IsAsked(p) => IsAsked(p)' \/ \E j \in DOMAIN evs : Hides(evs[j], p),
           \A p \in Persons, i \in DOMAIN evs : Shows(evs[i], p) => IsAsked(p)'
    PROVE  StreamInv'
<1>1. CASE ~ listed' /\ gap'
    BY <1>1 DEF StreamInv
<1>2. CASE listed /\ listed' /\ queue' = queue \o evs /\ gap' = gap
  <2> DEFINE n == Len(queue)
             q == queue \o evs
  <2>1. /\ n \in Nat /\ DOMAIN queue = 1..n /\ DOMAIN evs \subseteq Nat
        /\ \A i \in DOMAIN queue : i \in DOMAIN q /\ q[i] = queue[i]
        /\ \A j \in DOMAIN evs : n + j \in DOMAIN q /\ q[n + j] = evs[j] /\ n < n + j
        /\ \A i \in DOMAIN q : i \in DOMAIN queue \/ \E j \in DOMAIN evs : i = n + j
    <3>1. queue \in Seq(Events)
        BY DEF StreamTypes
    <3>2. /\ n \in Nat /\ DOMAIN queue = 1..n /\ Len(evs) \in Nat /\ DOMAIN evs = 1..Len(evs)
          /\ DOMAIN q = 1..(n + Len(evs))
          /\ \A i \in 1..(n + Len(evs)) : q[i] = IF i <= n THEN queue[i] ELSE evs[i - n]
        BY <3>1, Joined
    <3> HIDE DEF n, q
    <3>4. \A i \in DOMAIN q : i \notin DOMAIN queue => i - n \in DOMAIN evs /\ i = n + (i - n)
        BY <3>2
    <3> QED
        BY <3>2, <3>4
  <2> HIDE DEF n, q
  <2>2. \A p \in Persons : ToBeHidden(queue, p) =>
           IsAsked(p)' \/ \E j \in DOMAIN q : Hides(q[j], p)
      BY <2>1 DEF ToBeHidden
  <2>3. ~ gap' => \A p \in communicating' : ToBeHidden(queue, p)'
      BY <1>2, <2>2 DEF StreamInv, ToBeHidden, StreamTypes, q
  <2>4. ASSUME NEW i \in DOMAIN q, NEW p \in Persons, Shows(q[i], p)
        PROVE  IsAsked(p)' \/ \E j \in DOMAIN q : i < j /\ Hides(q[j], p)
    <3>1. CASE i \in DOMAIN queue
      <4>1. IsAsked(p) \/ \E j \in DOMAIN queue : i < j /\ Hides(queue[j], p)
          BY <1>2, <2>1, <2>4, <3>1 DEF StreamInv, Balanced
      <4>2. \A j \in DOMAIN evs : i < n + j
          BY <2>1, <3>1
      <4> QED
          BY <2>1, <4>1, <4>2
    <3>2. CASE \E j \in DOMAIN evs : i = n + j
        BY <2>1, <2>4, <3>2
    <3> QED
        BY <2>1, <3>1, <3>2
  <2>5. Balanced(queue)'
      BY <1>2, <2>4 DEF Balanced, q
  <2> QED
      BY <1>2, <2>3, <2>5 DEF StreamInv
<1> QED
    BY <1>1, <1>2, PushGives

\* Only the server changes who is asked.
LEMMA SameConsult ==
    ASSUME consult' = consult PROVE \A p : IsAsked(p)' <=> IsAsked(p)
    BY DEF IsAsked, Questions

LEMMA AsksStep ==
    ASSUME StreamTypes, StreamInv, NEW c \in Questions,
           NEW chosen \in SUBSET Persons, ConsultAsks(c, chosen)
    PROVE  StreamTypes' /\ StreamInv'
<1>1. /\ consult' \in [Questions -> ConsultType]
      /\ \A p : IsAsked(p) => IsAsked(p)'
      /\ chosen # {} => \A p \in chosen : IsAsked(p)'
  <2>1. /\ consult \in [Questions -> ConsultType] /\ consult[c].st = "sent"
        /\ consult' = [consult EXCEPT ![c].st = IF chosen = {} THEN "ended" ELSE "asking",
                                      ![c].todo = chosen]
      BY DEF ConsultAsks, StreamTypes
  <2>2. /\ consult'[c].st = (IF chosen = {} THEN "ended" ELSE "asking")
        /\ consult'[c].todo = chosen /\ consult'[c].targets = consult[c].targets
        /\ consult'[c] \in ConsultType
        /\ \A b \in Questions : b # c => consult'[b] = consult[b]
      BY <2>1 DEF ConsultType
  <2>3. consult' \in [Questions -> ConsultType]
      BY <2>1, <2>2
  <2> QED
      BY <2>1, <2>2, <2>3 DEF IsAsked, Questions
<1>2. CASE chosen = {}
  <2>1. communicating' = communicating /\ UNCHANGED <<queue, listed, gap>>
      BY <1>2 DEF ConsultAsks
  <2> QED
      BY <1>1, <2>1 DEF StreamTypes, StreamInv, Balanced, ToBeHidden
<1>3. CASE chosen # {}
  <2> DEFINE ev == Event("broadcast_start", chosen)
             start == <<ev>>
             rest == QueryingOf(chosen)
             evs == start \o rest
  <2>1. Push(evs) /\ communicating' = communicating
      BY <1>3 DEF ConsultAsks
  <2>2. /\ evs \in Seq(Events)
        /\ \A i \in DOMAIN evs, p \in Persons : Shows(evs[i], p) => p \in chosen
    <3>1. Cardinality(chosen) \in Nat
        BY FS_Subset, FS_CardinalityType, ConsoleAssumption
    <3>2. /\ rest \in Seq(Events) /\ \A i \in DOMAIN rest : rest[i].type = "agent_querying"
      <4>1. rest = [i \in 1..Cardinality(chosen) |-> Event("agent_querying", {})]
          BY DEF QueryingOf
      <4>2. Event("agent_querying", {}).type = "agent_querying"
          BY DEF Event
      <4> HIDE DEF rest
      <4> QED
          BY <3>1, <4>1, <4>2, EventsAre
    <3>3. start \in Seq(Events) /\ Len(start) = 1 /\ start[1].agents = chosen
      <4>1. ev \in Events /\ ev.agents = chosen
          BY EventsAre DEF Event
      <4> HIDE DEF ev
      <4> QED
          BY <4>1
    <3> HIDE DEF start, rest
    <3>4. evs \in Seq(Events)
        BY <3>2, <3>3
    <3>5. \A i \in DOMAIN evs : evs[i] = start[1] \/ \E j \in DOMAIN rest : evs[i] = rest[j]
      <4>1. start \in Seq(Events) /\ rest \in Seq(Events)
          BY <3>2, <3>3
      <4>2. /\ Len(rest) \in Nat /\ DOMAIN rest = 1..Len(rest)
            /\ DOMAIN evs = 1..(Len(start) + Len(rest))
            /\ \A i \in 1..(Len(start) + Len(rest)) :
                 evs[i] = IF i <= Len(start) THEN start[i] ELSE rest[i - Len(start)]
          BY <4>1, Joined
      <4> HIDE DEF evs
      <4>3. \A i \in 1..(1 + Len(rest)) : i = 1 \/ i - 1 \in DOMAIN rest
          BY <4>2
      <4> QED
          BY <3>3, <4>2, <4>3
    <3> QED
        BY <3>2, <3>3, <3>4, <3>5 DEF Shows
  <2> HIDE DEF evs
  <2>3. StreamInv'
      BY <1>1, <1>3, <2>1, <2>2, PushKeeps
  <2> QED
      BY <1>1, <2>1, <2>2, <2>3, PushGives DEF StreamTypes
<1> QED
    BY <1>2, <1>3

LEMMA HearsStep ==
    ASSUME StreamTypes, StreamInv, NEW c \in Questions, NEW who \in Persons,
           ConsultHears(c, who)
    PROVE  StreamTypes' /\ StreamInv'
<1> DEFINE evs == <<Event("agent_responded", {who})>>
<1>1. /\ evs \in Seq(Events) /\ DOMAIN evs = {1}
      /\ Hides(evs[1], who) /\ \A p : ~ Shows(evs[1], p)
    BY EventsAre DEF Event, Hides, Shows
<1>2. Push(evs) /\ communicating' = communicating
    BY DEF ConsultHears
<1>3. /\ consult' \in [Questions -> ConsultType]
      /\ \A p : IsAsked(p) => IsAsked(p)' \/ p = who
  <2>1. /\ consult \in [Questions -> ConsultType]
        /\ consult' = [consult EXCEPT ![c].todo = @ \ {who}]
      BY DEF ConsultHears, StreamTypes
  <2>2. /\ consult'[c].st = consult[c].st
        /\ consult'[c].todo = consult[c].todo \ {who}
        /\ consult'[c] \in ConsultType
        /\ \A b \in Questions : b # c => consult'[b] = consult[b]
      BY <2>1 DEF ConsultType
  <2>3. consult' \in [Questions -> ConsultType]
      BY <2>1, <2>2
  <2>4. ASSUME NEW p, IsAsked(p), p # who PROVE IsAsked(p)'
    <3>1. PICK b \in Questions : consult[b].st = "asking" /\ p \in consult[b].todo
        BY <2>4 DEF IsAsked
    <3>2. consult'[b].st = "asking" /\ p \in consult'[b].todo
        BY <2>2, <2>4, <3>1
    <3> QED
        BY <3>2 DEF IsAsked, Questions
  <2> QED
      BY <2>3, <2>4
<1> HIDE DEF evs
<1>4. StreamInv'
    BY <1>1, <1>2, <1>3, PushKeeps
<1> QED
    BY <1>1, <1>2, <1>3, <1>4, PushGives DEF StreamTypes

LEMMA GathersStep ==
    ASSUME StreamTypes, StreamInv, NEW c \in Questions, ConsultGathers(c)
    PROVE  StreamTypes' /\ StreamInv'
<1> DEFINE ev == Event("broadcast_end", {})
           evs == <<ev>>
<1>1. /\ evs \in Seq(Events) /\ DOMAIN evs = {1}
      /\ \A p : Hides(evs[1], p) /\ ~ Shows(evs[1], p)
  <2>1. ev \in Events /\ ev.type = "broadcast_end"
      BY EventsAre DEF Event
  <2> HIDE DEF ev
  <2> QED
      BY <2>1 DEF Hides, Shows
<1>2. Push(evs) /\ communicating' = communicating
    BY DEF ConsultGathers
<1>3. consult' \in [Questions -> ConsultType]
  <2>1. /\ consult \in [Questions -> ConsultType]
        /\ consult' = [consult EXCEPT ![c].st = "ended"]
      BY DEF ConsultGathers, StreamTypes
  <2> QED
      BY <2>1 DEF ConsultType
<1> HIDE DEF evs
<1>4. StreamInv'
    BY <1>1, <1>2, PushKeeps
<1> QED
    BY <1>1, <1>2, <1>3, <1>4, PushGives DEF StreamTypes

LEMMA DeliverStep ==
    ASSUME StreamTypes, StreamInv, Deliver
    PROVE  StreamTypes' /\ StreamInv'
<1> DEFINE ev == queue[1]
           n == Len(queue)
<1>1. /\ queue \in Seq(Events) /\ n \in Nat /\ n > 0 /\ ev \in Events
      /\ Head(queue) = ev /\ DOMAIN queue = 1..n
      /\ queue' = Tail(queue) /\ queue' \in Seq(Events) /\ Len(queue') = n - 1
      /\ DOMAIN queue' = 1..(n - 1)
      /\ \A i \in 1..(n - 1) : queue'[i] = queue[i + 1]
    BY DEF Deliver, StreamTypes
<1>2. /\ communicating' = Highlighted(ev)
      /\ gap' = (IF ev.type = "broadcast_end" THEN ~ listed ELSE gap)
      /\ listed' = listed /\ consult' = consult
    BY <1>1 DEF Deliver
<1>3. ev.agents \subseteq Persons
    BY <1>1 DEF Events
<1> HIDE DEF ev, n
<1>4. StreamTypes'
  <2>1. communicating' \subseteq Persons
      BY <1>2, <1>3 DEF Highlighted, StreamTypes
  <2>2. Len(queue') <= QueueSize
      BY <1>1, ConsoleAssumption DEF StreamTypes, n
  <2> QED
      BY <1>1, <1>2, <2>1, <2>2 DEF StreamTypes
<1>5. \A p : IsAsked(p)' <=> IsAsked(p)
    BY <1>2, SameConsult
<1>6. \A j \in DOMAIN queue : j = 1 \/ (j - 1 \in DOMAIN queue' /\ queue'[j - 1] = queue[j])
    BY <1>1
<1>7. listed' => Balanced(queue)'
  <2> SUFFICES ASSUME listed, NEW i \in DOMAIN queue', NEW p \in Persons, Shows(queue'[i], p)
               PROVE  IsAsked(p) \/ \E j \in DOMAIN queue' : i < j /\ Hides(queue'[j], p)
      BY <1>2, <1>5 DEF Balanced
  <2>1. i + 1 \in DOMAIN queue /\ queue[i + 1] = queue'[i] /\ i \in Nat
      BY <1>1
  <2>2. IsAsked(p) \/ \E j \in DOMAIN queue : i + 1 < j /\ Hides(queue[j], p)
      BY <2>1 DEF StreamInv, Balanced
  <2>3. ASSUME NEW j \in DOMAIN queue, i + 1 < j, Hides(queue[j], p)
        PROVE  \E h \in DOMAIN queue' : i < h /\ Hides(queue'[h], p)
    <3>1. j # 1 /\ j \in Nat /\ i < j - 1
        BY <1>1, <2>1, <2>3
    <3>2. j - 1 \in DOMAIN queue' /\ queue'[j - 1] = queue[j]
        BY <1>6, <3>1
    <3> QED
        BY <2>3, <3>1, <3>2
  <2> QED
      BY <2>2, <2>3
<1>8. ASSUME ~ gap', NEW p \in communicating' PROVE ToBeHidden(queue, p)'
  <2>1. p \in Persons /\ ev.type # "broadcast_end" /\ ~ gap /\ listed
      BY <1>2, <1>4, <1>8 DEF StreamTypes, StreamInv, Highlighted
  <2>2. ~ Hides(ev, p)
      BY <1>2, <1>8, <2>1 DEF Hides, Highlighted
  <2>3. ASSUME NEW j \in DOMAIN queue, Hides(queue[j], p) PROVE ToBeHidden(queue, p)'
    <3>1. j - 1 \in DOMAIN queue' /\ queue'[j - 1] = queue[j]
        BY <1>6, <2>2, <2>3 DEF ev
    <3> QED
        BY <2>3, <3>1 DEF ToBeHidden
  <2>4. p \in communicating \/ Shows(ev, p)
      BY <1>2, <1>8, <2>1 DEF Shows, Highlighted
  <2>5. CASE p \in communicating
      BY <1>5, <2>1, <2>3, <2>5 DEF StreamInv, ToBeHidden
  <2>6. CASE Shows(ev, p)
    <3>1. 1 \in DOMAIN queue
        BY <1>1
    <3>2. IsAsked(p) \/ \E j \in DOMAIN queue : Hides(queue[j], p)
        BY <2>1, <2>6, <3>1 DEF StreamInv, Balanced, ev
    <3> QED
        BY <1>5, <2>3, <3>2 DEF ToBeHidden
  <2> QED
      BY <2>4, <2>5, <2>6
<1> QED
    BY <1>2, <1>4, <1>7, <1>8 DEF StreamInv, StreamTypes

\* Every step keeps the stream right.
LEMMA StreamStep ==
    ASSUME ThreadTypes, FlightInv, StreamTypes, StreamInv, NotYetPut,
           selected \subseteq Persons, [ConsoleNext]_consoleVars
    PROVE  StreamTypes' /\ StreamInv' /\ NotYetPut'
<1> USE DEF stream
<1>1. ASSUME UNCHANGED <<communicating, listed, queue, gap>>,
             consult' \in [Questions -> ConsultType],
             \A p : IsAsked(p) => IsAsked(p)'
      PROVE  StreamTypes' /\ StreamInv'
    BY <1>1 DEF StreamTypes, StreamInv, Balanced, ToBeHidden
<1>2. CASE SubmitConsult
  <2>1. /\ UNCHANGED <<communicating, listed, queue, gap>>
        /\ asked' = asked + 1 /\ asked + 1 \in Questions /\ asked \in Nat
        /\ consult' = [consult EXCEPT ![asked + 1] = [st |-> "sent", todo |-> {},
                                                    targets |-> selected]]
        /\ consult \in [Questions -> ConsultType]
      BY <1>2, ConsoleAssumption DEF SubmitConsult, Put, Questions, ThreadTypes, StreamTypes
  <2>2. /\ consult' \in [Questions -> ConsultType]
        /\ \A c \in Questions : c # asked + 1 => consult'[c] = consult[c]
      BY <2>1 DEF ConsultType
  <2>3. consult[asked + 1].st = "none"
      BY <2>1 DEF NotYetPut
  <2>4. \A p : IsAsked(p) => IsAsked(p)'
      BY <2>2, <2>3 DEF IsAsked, Questions
  <2>5. NotYetPut'
      BY <2>1, <2>2, QuestionsAre DEF NotYetPut, Questions
  <2> QED
      BY <1>1, <2>1, <2>2, <2>4, <2>5
<1>3. ASSUME NEW found \in BOOLEAN, ConsultReturns(found)
      PROVE  StreamTypes' /\ StreamInv' /\ NotYetPut'
  <2>1. /\ UNCHANGED <<communicating, listed, queue, gap>> /\ asked' = asked
        /\ consult' = [consult EXCEPT ![flight.q].targets = {}]
        /\ consult \in [Questions -> ConsultType]
      BY <1>3 DEF ConsultReturns, StreamTypes
  <2>2. consult' \in [Questions -> ConsultType]
      BY <2>1 DEF ConsultType
  <2>3. \A c \in Questions : consult'[c].st = consult[c].st /\ consult'[c].todo = consult[c].todo
      BY <2>1 DEF ConsultType
  <2>4. \A p : IsAsked(p) => IsAsked(p)'
      BY <2>3 DEF IsAsked, Questions
  <2>5. NotYetPut'
      BY <2>1, <2>3 DEF NotYetPut, Questions
  <2> QED
      BY <1>1, <2>1, <2>2, <2>4, <2>5
<1>4. ASSUME UNCHANGED <<communicating, listed, queue, gap, consult>>,
             asked' \in Nat, asked' >= asked
      PROVE  StreamTypes' /\ StreamInv' /\ NotYetPut'
  <2>1. NotYetPut'
      BY <1>4, QuestionsAre DEF NotYetPut, Questions, ThreadTypes
  <2> QED
      BY <1>1, <1>4, <2>1, SameConsult DEF StreamTypes
<1>5. CASE Reconnect
  <2>1. /\ queue' = <<>> /\ listed' /\ listed' \in BOOLEAN /\ gap' /\ gap' \in BOOLEAN
        /\ UNCHANGED <<asked, communicating, consult>>
      BY <1>5 DEF Reconnect, screen
  <2> QED
      BY <2>1, ConsoleAssumption DEF StreamTypes, StreamInv, Balanced, NotYetPut, Questions
<1>6. ASSUME NEW c \in Questions, NEW chosen \in SUBSET Persons, ConsultAsks(c, chosen)
      PROVE  StreamTypes' /\ StreamInv' /\ NotYetPut'
  <2>1. /\ asked' = asked /\ consult[c].st = "sent"
        /\ \A b \in Questions : b # c => consult'[b] = consult[b]
      BY <1>6 DEF ConsultAsks, screen, StreamTypes
  <2>2. NotYetPut'
      BY <2>1 DEF NotYetPut, Questions
  <2> QED
      BY <1>6, <2>2, AsksStep
<1>7. ASSUME NEW c \in Questions, NEW p \in Persons, ConsultHears(c, p)
      PROVE  StreamTypes' /\ StreamInv' /\ NotYetPut'
  <2>1. /\ asked' = asked /\ consult[c].st = "asking"
        /\ \A b \in Questions : b # c => consult'[b] = consult[b]
      BY <1>7 DEF ConsultHears, screen, StreamTypes
  <2>2. NotYetPut'
      BY <2>1 DEF NotYetPut, Questions
  <2> QED
      BY <1>7, <2>2, HearsStep
<1>8. ASSUME NEW c \in Questions, ConsultGathers(c)
      PROVE  StreamTypes' /\ StreamInv' /\ NotYetPut'
  <2>1. /\ asked' = asked /\ consult[c].st = "asking"
        /\ \A b \in Questions : b # c => consult'[b] = consult[b]
      BY <1>8 DEF ConsultGathers, screen, StreamTypes
  <2>2. NotYetPut'
      BY <2>1 DEF NotYetPut, Questions
  <2> QED
      BY <1>8, <2>2, GathersStep
<1>9. CASE Deliver
  <2>1. asked' = asked /\ consult' = consult
      BY <1>9 DEF Deliver, screen
  <2> QED
      BY <1>9, <2>1, DeliverStep DEF NotYetPut, Questions
<1>10. asked \in Nat
    BY ConsoleAssumption DEF ThreadTypes
<1>11. CASE SubmitPerson
    BY <1>4, <1>10, <1>11 DEF SubmitPerson, Put
<1>12. CASE ConsultFails \/ PrepareBlocked \/ PrepareReady \/ PrepareFails
            \/ SendReturns \/ SendFails
  <2>1. UNCHANGED <<asked, communicating, listed, queue, gap, consult>>
      BY <1>12 DEF ConsultFails, PrepareBlocked, PrepareReady, PrepareFails,
                   SendReturns, SendFails, Ends
  <2> QED
      BY <1>4, <1>10, <2>1
<1>13. CASE \/ \E key \in Keys : OpenThread(key)
            \/ \E p \in Persons : ToggleSelect(p)
            \/ ClearSelection \/ ResetBroadcast \/ Restart \/ UNCHANGED consoleVars
  <2>1. UNCHANGED <<asked, communicating, listed, queue, gap, consult>>
      BY <1>13 DEF OpenThread, ToggleSelect, ClearSelection, ResetBroadcast,
                   Restart, consoleVars, screen
  <2> QED
      BY <1>4, <1>10, <2>1
<1> QED
    BY <1>2, <1>3, <1>5, <1>6, <1>7, <1>8, <1>9, <1>11, <1>12, <1>13 DEF ConsoleNext

-----------------------------------------------------------------------------
(* The theorems of Console. *)

ConsoleInv ==
  /\ ThreadTypes /\ StreamTypes
  /\ active \in Keys /\ selected \subseteq Persons
  /\ broadcast \in BOOLEAN /\ dots \in BOOLEAN
  /\ FlightInv /\ Threads /\ StreamInv /\ NotYetPut

LEMMA ConsoleBegins == ConsoleInit => ConsoleInv
<1> SUFFICES ASSUME ConsoleInit PROVE ConsoleInv
    OBVIOUS
<1>1. ThreadTypes
  <2>1. threads \in [Keys -> Seq(Message)]
      BY DEF ConsoleInit
  <2>2. flight \in Flight
      BY ConsoleAssumption DEF ConsoleInit, NoFlight, Flight, Keys
  <2> QED
      BY <2>1, <2>2, ConsoleAssumption DEF ConsoleInit, ThreadTypes, Keys
<1>2. StreamTypes
  <2>1. consult \in [Questions -> ConsultType]
      BY DEF ConsoleInit, NoConsult, ConsultType
  <2>2. queue \in Seq(Events) /\ Len(queue) <= QueueSize
      BY ConsoleAssumption DEF ConsoleInit
  <2> QED
      BY <2>1, <2>2 DEF ConsoleInit, StreamTypes
<1>3. FlightInv
    BY DEF ConsoleInit, NoFlight, FlightInv, ConsultIsMine
<1>4. Threads
    BY DEF ConsoleInit, Threads, InThread, PutHere, NoneYet, Closed, InOrder
<1>5. StreamInv /\ NotYetPut
    BY DEF ConsoleInit, StreamInv, Balanced, ToBeHidden, NotYetPut, NoConsult
<1> QED
    BY <1>1, <1>2, <1>3, <1>4, <1>5 DEF ConsoleInit, ConsoleInv, Keys

LEMMA ConsoleStep == ConsoleInv /\ [ConsoleNext]_consoleVars => ConsoleInv'
<1> SUFFICES ASSUME ConsoleInv, [ConsoleNext]_consoleVars PROVE ConsoleInv'
    OBVIOUS
<1>1. ThreadTypes' /\ FlightInv' /\ Threads'
    BY ThreadTypesStep, ThreadsStep DEF ConsoleInv
<1>2. StreamTypes' /\ StreamInv' /\ NotYetPut'
    BY StreamStep DEF ConsoleInv
<1>3. /\ active' \in Keys /\ selected' \subseteq Persons
      /\ broadcast' \in BOOLEAN /\ dots' \in BOOLEAN
  <2> USE DEF ConsoleInv
  <2>1. CASE SubmitConsult \/ SubmitPerson
      BY <2>1 DEF SubmitConsult, SubmitPerson, Put
  <2>2. ASSUME NEW found \in BOOLEAN, ConsultReturns(found)
        PROVE  /\ active' \in Keys /\ selected' \subseteq Persons
               /\ broadcast' \in BOOLEAN /\ dots' \in BOOLEAN
      BY <2>2 DEF ConsultReturns
  <2>3. CASE ConsultFails
      BY <2>3 DEF ConsultFails
  <2>4. CASE PrepareBlocked \/ PrepareFails \/ SendReturns \/ SendFails
      BY <2>4 DEF PrepareBlocked, PrepareFails, SendReturns, SendFails, Ends,
                  DotsAfterPush
  <2>5. CASE PrepareReady
      BY <2>5 DEF PrepareReady
  <2>6. CASE \/ \E key \in Keys : OpenThread(key)
             \/ \E p \in Persons : ToggleSelect(p)
             \/ ClearSelection \/ ResetBroadcast \/ Restart
      BY <2>6 DEF OpenThread, ToggleSelect, ClearSelection, ResetBroadcast,
                  Restart, Keys
  <2>7. CASE \/ \E c \in Questions :
                  \/ \E chosen \in SUBSET Persons : ConsultAsks(c, chosen)
                  \/ \E p \in Persons : ConsultHears(c, p)
                  \/ ConsultGathers(c)
             \/ Deliver \/ Reconnect \/ UNCHANGED consoleVars
      BY <2>7 DEF ConsultAsks, ConsultHears, ConsultGathers, Deliver, Reconnect,
                  consoleVars, screen
  <2> QED
      BY <2>1, <2>2, <2>3, <2>4, <2>5, <2>6, <2>7 DEF ConsoleNext
<1> QED
    BY <1>1, <1>2, <1>3 DEF ConsoleInv, Keys

LEMMA ConsoleInvariant == ConsoleSpec => []ConsoleInv
<1>1. ConsoleInit => ConsoleInv
    BY ConsoleBegins
<1>2. ConsoleInv /\ [ConsoleNext]_consoleVars => ConsoleInv'
    BY ConsoleStep
<1> QED
    BY <1>1, <1>2, PTL DEF ConsoleSpec

(***************************************************************************)
(* The screen and the event queue keep their types, and the queue its      *)
(* limit (ConsoleTypeOK; app.js, and main.py, _sse_push).                  *)
(***************************************************************************)
THEOREM ConsoleTypes == ConsoleSpec => []ConsoleTypeOK
<1>1. ConsoleInv => ConsoleTypeOK
    BY DEF ConsoleInv, ConsoleTypeOK, ThreadTypes, StreamTypes, Message, Flight, ConsultType
<1> QED
    BY <1>1, ConsoleInvariant, PTL

(***************************************************************************)
(* AnswerInOwnThread for any people and any number of questions: whatever  *)
(* thread is open when an answer comes, it is in the thread of its         *)
(* question, once and below it (app.js, doConsult, askPerson, pushMessage).*)
(***************************************************************************)
THEOREM AnswerInOwnThreadAlways == ConsoleSpec => []AnswerInOwnThread
<1>1. ConsoleInv => AnswerInOwnThread
    BY Answered DEF ConsoleInv
<1> QED
    BY <1>1, ConsoleInvariant, PTL

(***************************************************************************)
(* HighlightTrue for any people, any number of consults at once and a      *)
(* queue of any size: when no consult asks anybody, every event has        *)
(* arrived and the stream did not break off, nobody is shown as being      *)
(* asked (app.js, handleSseEvent; main.py, _sse_push).                     *)
(***************************************************************************)
THEOREM HighlightTrueAlways == ConsoleSpec => []HighlightTrue
<1>1. ConsoleInv => HighlightTrue
  <2> SUFFICES ASSUME ConsoleInv, ~ gap, queue = <<>>, ~ Running,
                      NEW p \in communicating
               PROVE  FALSE
      BY DEF HighlightTrue
  <2>1. ~ IsAsked(p)
      BY DEF IsAsked, Running
  <2> QED
      BY <2>1 DEF ConsoleInv, StreamInv, ToBeHidden
<1> QED
    BY <1>1, ConsoleInvariant, PTL
=============================================================================
