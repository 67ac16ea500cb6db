--------------------------- MODULE ConversionProofs ---------------------------
(***************************************************************************)
(* Theorems about Conversion, for any documents, vocabulary, schemas and    *)
(* answers of the model: what a structured payload can hold; and, for any   *)
(* literals, texts and spans, that masked texts are read back.              *)
(***************************************************************************)
EXTENDS Conversion, FiniteSetTheorems, SequenceTheorems, TLAPS

\* What assemble takes up of an answer is a slot's coerced value.
LEMMA AssembledFacts ==
    ASSUME NEW answers, NEW i \in DOMAIN Assembled(answers)
    PROVE  /\ i \in 1..Len(slots)
           /\ Assembled(answers)[i] = Coerced(slots[i], answers[i])
           /\ Assembled(answers)[i] # "drop"
BY DEF Assembled

\* coerce keeps a label of the slot, a number for an integer slot and a truth value
\* for a truth slot, and nothing else.
LEMMA CoercedValues ==
    ASSUME NEW slot, NEW value, Coerced(slot, value) # "drop"
    PROVE  \/ /\ slot.kind = "enum"
              /\ value \in slot.allowed
              /\ Coerced(slot, value) = value
           \/ /\ slot.kind = "int"
              /\ Coerced(slot, value) \in {"number", "huge"}
              /\ Coerced(slot, value) = value
                   \/ (value = "numeral" /\ Coerced(slot, value) = "number")
           \/ /\ slot.kind = "bool"
              /\ Coerced(slot, value) = "truth"
              /\ value \in {"truth", "word"}
BY DEF Coerced

\* A schema of the owner's own lists well-formed labels only.
LEMMA OwnLabels ==
    ASSUME NEW proposals \in Proposals, NEW i \in 1..Len(SlotsOf(proposals))
    PROVE  SlotsOf(proposals)[i].allowed \subseteq WellFormed
<1> DEFINE looked == 1..(IF Len(proposals) <= MaxSlots THEN Len(proposals) ELSE MaxSlots)
           kept == {k \in looked : /\ Usable(proposals[k])
                                   /\ \A j \in 1..(k - 1) :
                                        Usable(proposals[j]) => proposals[j].name # proposals[k].name}
           nth(k) == proposals[CHOOSE m \in kept : Cardinality({j \in kept : j <= m}) = k]
           slot(k) == [name |-> nth(k).name, kind |-> nth(k).kind,
                       allowed |-> nth(k).allowed \cap WellFormed, required |-> FALSE]
<1>1. IsFiniteSet(looked)
  <2>1. (IF Len(proposals) <= MaxSlots THEN Len(proposals) ELSE MaxSlots) \in Int
    BY LimitsAssumption, ProposalsAssumption
  <2> QED
    BY <2>1, FS_Interval
<1>2. Cardinality(kept) \in Nat
  <2>1. kept \in SUBSET looked
    OBVIOUS
  <2> HIDE DEF kept, looked
  <2>2. IsFiniteSet(kept)
    BY <1>1, <2>1, FS_Subset
  <2> QED
    BY <2>2, FS_CardinalityType
<1>3. SlotsOf(proposals) = [k \in 1..Cardinality(kept) |-> slot(k)]
    BY DEF SlotsOf
<1> HIDE DEF kept, nth
<1>4. Len(SlotsOf(proposals)) = Cardinality(kept)
    BY <1>2, <1>3
<1>5. SlotsOf(proposals)[i] = slot(i)
    BY <1>3, <1>4
<1>6. slot(i).allowed \subseteq WellFormed
    OBVIOUS
<1> QED
    BY <1>5, <1>6

\* A label names one document: along the documents of one role its count grows.
LEMMA RefsDiffer ==
    ASSUME NEW d \in Documents, NEW e \in Documents, d < e
    PROVE  Ref(d) # Ref(e)
<1> DEFINE Upto(n) == {k \in 1..n : RoleOf(k) = RoleOf(n)}
<1>1. d \in Nat /\ e \in Nat
    BY EvidenceAssumption DEF Documents
<1>2. CASE RoleOf(d) # RoleOf(e)
    BY <1>2 DEF Ref
<1>3. CASE RoleOf(d) = RoleOf(e)
  <2>1. Upto(d) \subseteq Upto(e) /\ e \in Upto(e) /\ e \notin Upto(d)
    BY <1>1, <1>3
  <2>2. Upto(e) \in SUBSET (1..e)
    OBVIOUS
  <2>3. IsFiniteSet(1..e)
    BY <1>1, FS_Interval
  <2>4. Ref(d) = <<RoleOf(d), Cardinality(Upto(d))>> /\ Ref(e) = <<RoleOf(e), Cardinality(Upto(e))>>
    BY DEF Ref
  <2> HIDE DEF Upto
  <2>5. IsFiniteSet(Upto(e))
    BY <2>2, <2>3, FS_Subset
  <2>6. Upto(d) \in SUBSET Upto(e) /\ Upto(d) # Upto(e)
    BY <2>1
  <2>7. Cardinality(Upto(d)) # Cardinality(Upto(e))
    BY <2>5, <2>6, FS_Subset
  <2> QED
    BY <2>4, <2>7
<1> QED
    BY <1>2, <1>3

-----------------------------------------------------------------------------
(* The invariant *)

LEMMA Started ==
    ASSUME StartFilling
    PROVE  /\ doc' \in Documents /\ DOMAIN said' = Documents /\ DOMAIN facts' = {}
BY EvidenceAssumption DEF StartFilling, Documents

LEMMA InvInit == Init => Inv
BY EvidenceAssumption DEF Init, Inv, Filling, OwnSchema, Documents, Built

\* After Failed, whatever called it, nothing is filled and no slot is left.
LEMMA FailedStep == ASSUME Failed PROVE Inv'
<1>1. Len(<<>>) = 0
    OBVIOUS
<1> QED
    BY <1>1, Started DEF Failed, Inv, Filling, OwnSchema, Built

\* The assembly depends on the schema only.
LEMMA AssembledSame ==
    ASSUME slots' = slots, NEW answers
    PROVE  Assembled(answers)' = Assembled(answers)
BY DEF Assembled

\* Going on to the next document, or to the payload, with one more document done.
LEMMA EndsStep ==
    ASSUME Inv, stage = "fill", NEW fs, Ends(fs),
           DOMAIN fs \subseteq DOMAIN facts \cup {doc},
           DOMAIN said' = Documents,
           \A d \in DOMAIN fs : fs[d] = Assembled(said'[d])
    PROVE  Inv'
<1>1. /\ slots' = slots /\ generated' = generated /\ facts' = fs
      /\ doc' \in {doc, doc + 1} /\ (stage' = "fill" => doc' = doc + 1)
      /\ stage' \in {"fill", "built"} /\ (doc' = doc + 1 => doc < Len(Evidence))
    BY DEF Ends, schemaVars, Inv
<1>2. doc \in Nat \ {0} /\ Len(Evidence) \in Nat /\ doc <= Len(Evidence)
    BY EvidenceAssumption DEF Inv, Filling, Documents
<1>3. doc' \in Documents
    BY <1>1, <1>2 DEF Documents
<1>4. DOMAIN facts' \subseteq Documents
    BY <1>1 DEF Inv, Filling
<1>5. stage' = "fill" => \A d \in DOMAIN facts' : d < doc'
  <2>1. \A d \in DOMAIN facts : d < doc /\ d \in Nat
    BY EvidenceAssumption DEF Inv, Filling, Documents
  <2> QED
    BY <1>1, <1>2, <2>1
<1>6. \A d \in DOMAIN facts' : facts'[d] = Assembled(said[d])'
    BY <1>1, AssembledSame
<1>7. OwnSchema'
    BY <1>1 DEF Inv, OwnSchema
<1> QED
    BY <1>1, <1>3, <1>4, <1>5, <1>6, <1>7 DEF Inv, Filling, Built

LEMMA InvStep == Inv /\ [Next]_vars => Inv'
<1> SUFFICES ASSUME Inv, [Next]_vars PROVE Inv'
    OBVIOUS
<1> USE DEF schemaVars, fillVars, textVars
\* Nothing the invariant speaks of changes.
<1>1. ASSUME UNCHANGED <<generated, slots, doc, said, facts>>,
             ~ Built' /\ stage' # "fill" => DOMAIN facts = {},
             stage' = "fill" => stage = "fill" \/ DOMAIN facts = {}
      PROVE  Inv'
    BY <1>1, AssembledSame DEF Inv, Filling, OwnSchema
<1>2. ASSUME NEW found \in BOOLEAN, BeginSecret(found) PROVE Inv'
  <2>1. Len(<<>>) = 0
    OBVIOUS
  <2>2. /\ stage' \in {"fill", "generate"} /\ StartFilling
        /\ generated' => slots' = <<>>
    BY <1>2 DEF BeginSecret
  <2>3. OwnSchema'
    BY <2>1, <2>2 DEF OwnSchema
  <2> QED
    BY <2>2, <2>3, Started DEF Inv, Filling, Built
<1>3. CASE CallFails
    BY <1>3, FailedStep DEF CallFails
<1>4. CASE NoJson
    BY <1>1, <1>4, FailedStep DEF NoJson, Inv, Filling, Built
<1>5. ASSUME NEW proposals \in Proposals, Generate(proposals) PROVE Inv'
  <2>1. CASE SlotsOf(proposals) = <<>>
    BY <1>5, <2>1, FailedStep DEF Generate
  <2>2. CASE SlotsOf(proposals) # <<>>
    <3>1. /\ stage = "generate" /\ stage' = "fill" /\ slots' = SlotsOf(proposals)
          /\ UNCHANGED <<doc, said, facts>>
        BY <1>5, <2>2 DEF Generate
    <3>2. DOMAIN facts = {}
        BY <3>1 DEF Inv, Filling, Built
    <3>3. OwnSchema'
        BY <3>1, OwnLabels DEF OwnSchema
    <3> QED
        BY <3>1, <3>2, <3>3 DEF Inv, Filling, Built
  <2> QED
    BY <2>1, <2>2
<1>6. ASSUME NEW answer, FillBatch(answer) PROVE Inv'
  <2>1. /\ stage = "fill" /\ stage' = "fill"
        /\ UNCHANGED <<generated, slots, doc, facts>>
        /\ said' = [said EXCEPT ![doc] = Answers(answer)]
    BY <1>6 DEF FillBatch
  <2>2. \A d \in DOMAIN facts : said'[d] = said[d] /\ d # doc
    BY <2>1, EvidenceAssumption DEF Inv, Filling, Documents
  <2>3. \A d \in DOMAIN facts' : facts'[d] = Assembled(said[d])'
    BY <2>1, <2>2, AssembledSame DEF Inv, Filling
  <2> QED
    BY <2>1, <2>3 DEF Inv, Filling, OwnSchema, Built
<1>7. ASSUME NEW answer, FillDocument(answer) PROVE Inv'
  <2> DEFINE answers == Answers(answer)
  <2>1. /\ stage = "fill" /\ Ends(Added(answers))
        /\ said' = [said EXCEPT ![doc] = answers]
    BY <1>7 DEF FillDocument
  <2>2. /\ DOMAIN said = Documents /\ doc \in Documents
        /\ \A d \in DOMAIN facts : d # doc /\ d \in Documents /\ facts[d] = Assembled(said[d])
    BY <2>1, EvidenceAssumption DEF Inv, Filling, Documents
  <2> HIDE DEF answers
  <2>3. /\ DOMAIN said' = Documents /\ said'[doc] = answers
        /\ \A d \in DOMAIN facts : said'[d] = said[d]
    BY <2>1, <2>2
  <2>4. DOMAIN Added(answers) \subseteq DOMAIN facts \cup {doc}
    BY DEF Added
  <2>5. \A d \in DOMAIN Added(answers) : Added(answers)[d] = Assembled(said'[d])
    BY <2>2, <2>3 DEF Added, FactsOf
  <2> QED
    BY <2>1, <2>3, <2>4, <2>5, EndsStep
<1>8. ASSUME NEW answer, TooLittle(answer) PROVE Inv'
    BY <1>8, FailedStep DEF TooLittle
<1>9. ASSUME NEW others \in BOOLEAN, Validate(others) PROVE Inv'
    BY <1>1, <1>9 DEF Validate, Built
<1>10. ASSUME NEW texts, NEW order, BeginInternal(texts, order) \/ BeginOpen(texts, order)
       PROVE  Inv'
    BY <1>1, <1>10 DEF BeginInternal, BeginOpen, Inv, Filling, Built
<1>11. ASSUME NEW spans, Mask(spans) PROVE Inv'
    BY <1>1, <1>11 DEF Mask, Built
<1>12. CASE MaskFails
    BY <1>1, <1>12 DEF MaskFails, Built
<1>13. CASE Done
  <2>1. Len(<<>>) = 0
    OBVIOUS
  <2> QED
    BY <1>13, <2>1, Started DEF Done, Inv, Filling, OwnSchema, Built
<1>14. CASE UNCHANGED vars
    BY <1>1, <1>14 DEF vars, Inv, Filling, Built
<1> QED
    BY <1>2, <1>3, <1>4, <1>5, <1>6, <1>7, <1>8, <1>9, <1>10, <1>11, <1>12, <1>13, <1>14
    DEF Next

\* What is filled is what the assembly makes of what was said (Filling, OwnSchema).
THEOREM ConversionInvariance == Spec => []Inv
BY InvInit, InvStep, PTL DEF Spec

-----------------------------------------------------------------------------
(* Theorems *)

\* What validation lets pass: the guard of Validate, kept until the next conversion.
Passed == stage = "passed" => Values \cap (Banned \cup {"huge"}) = {}

LEMMA PassedStep == Passed /\ [Next]_vars => Passed'
<1> SUFFICES ASSUME Passed, [Next]_vars, stage' = "passed"
             PROVE  (Values \cap (Banned \cup {"huge"}) = {})'
    BY DEF Passed
<1>1. ASSUME facts' = facts PROVE Values' = Values
    BY <1>1 DEF Values
<1>2. ASSUME NEW others \in BOOLEAN, Validate(others)
      PROVE  (Values \cap (Banned \cup {"huge"}) = {})'
  <2>1. RangesPass /\ BannedPasses /\ facts' = facts
    BY <1>2 DEF Validate, fillVars
  <2> QED
    BY <1>1, <2>1 DEF RangesPass, BannedPasses
<1>3. CASE UNCHANGED vars
    BY <1>1, <1>3 DEF vars, Passed
<1>4. (\E others \in BOOLEAN : Validate(others)) \/ UNCHANGED vars
    BY DEF Next, BeginSecret, CallFails, Failed, NoJson, Generate, FillBatch, FillDocument,
       TooLittle, Ends, BeginInternal, BeginOpen, Mask, MaskFails, Done
<1> QED
    BY <1>2, <1>3, <1>4

\* Whatever the model says, a structured payload holds values of its schema's slots
\* only, and one that passes holds no number out of range and no banned label
\* (FactsClosed).
THEOREM FactsAreClosed == Spec => []FactsClosed
<1>1. Inv /\ Passed => FactsClosed
  <2> SUFFICES ASSUME Inv, Passed PROVE FactsClosed
    OBVIOUS
  <2>1. ASSUME NEW d \in DOMAIN facts, NEW i \in DOMAIN facts[d]
        PROVE  /\ i \in 1..Len(slots)
               /\ facts[d][i] \in CASE slots[i].kind = "enum" -> slots[i].allowed
                                     [] slots[i].kind = "int" -> {"number", "huge"}
                                     [] OTHER -> {"truth"}
               /\ generated /\ slots[i].kind = "enum" => facts[d][i] \in WellFormed
    <3>1. facts[d] = Assembled(said[d])
        BY DEF Inv, Filling
    <3>2. /\ i \in 1..Len(slots)
          /\ facts[d][i] = Coerced(slots[i], said[d][i])
          /\ Coerced(slots[i], said[d][i]) # "drop"
        BY <3>1, AssembledFacts
    <3> QED
        BY <3>2, CoercedValues DEF Inv, OwnSchema
  <2> QED
    BY <2>1 DEF FactsClosed, Passed
<1>2. Init => Passed
    BY DEF Init, Passed
<1> QED
    BY <1>1, <1>2, PassedStep, ConversionInvariance, PTL DEF Spec

\* Under the label of a document stands what was read in it and nothing else, and no
\* two documents share a label (OwnFacts).
THEOREM FactsAreOwn == Spec => []OwnFacts
<1>1. Inv => OwnFacts
  <2> SUFFICES ASSUME Inv, NEW d \in DOMAIN facts
               PROVE  /\ \A e \in DOMAIN facts : Ref(d) = Ref(e) => d = e
                      /\ \A i \in DOMAIN facts[d] :
                           \/ said[d][i] = facts[d][i]
                           \/ <<said[d][i], facts[d][i]>>
                                \in {<<"numeral", "number">>, <<"word", "truth">>}
    BY DEF OwnFacts
  <2>1. ASSUME NEW e \in DOMAIN facts, Ref(d) = Ref(e) PROVE d = e
    <3>1. d \in Documents /\ e \in Documents
        BY DEF Inv, Filling
    <3>2. d = e \/ d < e \/ e < d
        BY <3>1, EvidenceAssumption DEF Documents
    <3> QED
        BY <2>1, <3>1, <3>2, RefsDiffer
  <2>2. ASSUME NEW i \in DOMAIN facts[d]
        PROVE  \/ said[d][i] = facts[d][i]
               \/ <<said[d][i], facts[d][i]>>
                    \in {<<"numeral", "number">>, <<"word", "truth">>}
    <3>1. facts[d] = Assembled(said[d])
        BY DEF Inv, Filling
    <3>2. /\ facts[d][i] = Coerced(slots[i], said[d][i])
          /\ Coerced(slots[i], said[d][i]) # "drop"
        BY <3>1, AssembledFacts
    <3> QED
        BY <3>2, CoercedValues
  <2> QED
    BY <2>1, <2>2
<1> QED
    BY <1>1, ConversionInvariance, PTL

\* The assembly and the checks of the validator agree: what was assembled is never
\* blocked for a key or a label, with a generated schema either (ChecksAgree).
THEOREM ChecksDoAgree == Spec => []ChecksAgree
<1>1. Inv => ChecksAgree
  <2> SUFFICES ASSUME Inv, representation = "structured" PROVE SchemaPasses /\ VocabPasses
    BY DEF ChecksAgree
  <2>1. ASSUME NEW d \in DOMAIN facts, NEW i \in DOMAIN facts[d]
        PROVE  /\ i \in 1..Len(slots)
               /\ facts[d][i] \in Labels => slots[i].kind = "enum" /\ facts[d][i] \in slots[i].allowed
    <3>1. facts[d] = Assembled(said[d])
        BY DEF Inv, Filling
    <3>2. /\ i \in 1..Len(slots)
          /\ facts[d][i] = Coerced(slots[i], said[d][i])
          /\ Coerced(slots[i], said[d][i]) # "drop"
        BY <3>1, AssembledFacts
    <3>3. {"number", "huge", "truth"} \cap Labels = {}
        BY LabelsAssumption DEF Written
    <3> QED
        BY <3>2, <3>3, CoercedValues
  <2>2. Filled \subseteq Names
    BY <2>1 DEF Filled, Names
  <2>3. SchemaPasses
    BY <2>2 DEF SchemaPasses, Keys, AllowedKeys
  <2>4. Values \cap Labels \subseteq KnownLabels
    <3>1. ASSUME NEW v \in Values, v \in Labels PROVE v \in KnownLabels
      <4>1. PICK d \in DOMAIN facts : v \in Range(facts[d])
          BY DEF Values
      <4>2. PICK i \in DOMAIN facts[d] : v = facts[d][i]
          BY <4>1 DEF Range
      <4>3. i \in 1..Len(slots) /\ slots[i].kind = "enum" /\ v \in slots[i].allowed
          BY <2>1, <3>1, <4>2
      <4> QED
          BY <4>3 DEF KnownLabels
    <3> QED
        BY <3>1
  <2> QED
    BY <2>3, <2>4 DEF VocabPasses
<1> QED
    BY <1>1, ConversionInvariance, PTL

-----------------------------------------------------------------------------
(* Texts.  A text that is masked literal by literal stays aligned with its  *)
(* original: place by place they hold the same piece, or a symbol there and *)
(* its literal here.  Reading a symbol back keeps them aligned with one     *)
(* symbol fewer, and aligned without symbols they are the same text.        *)

\* A set of numbers that is not empty has a least one; so what holds of 0 and of the
\* next number whenever it holds of one, holds up to any n.
LEMMA LeastNumber == \A T \in SUBSET Nat : T # {} => \E x \in T : \A y \in T : x <= y
<1> SUFFICES ASSUME NEW T \in SUBSET Nat, T # {} PROVE \E x \in T : \A y \in T : x <= y
    OBVIOUS
<1>1. \E x \in T : \A y \in T : <<y, x>> \notin OpToRel(<, Nat)
    BY NatLessThanWellFounded, WFMin
<1>2. \A x, y \in Nat : <<y, x>> \notin OpToRel(<, Nat) => x <= y
    BY DEF OpToRel
<1> QED
    BY <1>1, <1>2

LEMMA UpTo ==
    \A n \in Nat, T \in SUBSET Nat :
        0 \in T /\ (\A d \in T : d < n => d + 1 \in T) => \A d \in 0..n : d \in T
<1> SUFFICES ASSUME NEW n \in Nat, NEW T \in SUBSET Nat,
                    0 \in T, \A d \in T : d < n => d + 1 \in T, NEW c \in 0..n, c \notin T
             PROVE  FALSE
    OBVIOUS
<1> DEFINE U == {d \in Nat : d <= n /\ d \notin T}
<1>1. PICK y \in U : \A z \in U : y <= z
  <2>1. c \in U /\ U \in SUBSET Nat
    OBVIOUS
  <2> HIDE DEF U
  <2> QED
    BY <2>1, LeastNumber
<1>2. y # 0
    BY <1>1
<1>3. y - 1 \in Nat /\ y - 1 < n /\ (y - 1) + 1 = y /\ y - 1 \notin U
    BY <1>1, <1>2
<1> QED
    BY <1>1, <1>3

\* A sequence is read at a place of a text, piece by piece; a symbol, its four pieces.
Reads(s, t, i) == i + Len(s) - 1 <= Len(t) /\ \A d \in 1..Len(s) : t[i + d - 1] = s[d]
ReadsFour(u, t, i) == /\ i + 3 <= Len(t)
                      /\ t[i] = u[1] /\ t[i + 1] = u[2] /\ t[i + 2] = u[3] /\ t[i + 3] = u[4]

\* A sequence stands at a place of a text if each of its pieces does.
LEMMA Standing ==
    ASSUME NEW S, NEW s \in Seq(S), NEW t \in Seq(S), NEW i \in Nat \ {0}
    PROVE  StandsAt(s, t, i) <=> Reads(s, t, i)
<1>1. CASE i + Len(s) - 1 <= Len(t)
  <2> DEFINE u == SubSeq(t, i, i + Len(s) - 1)
  <2>1. \A d \in i..(i + Len(s) - 1) : t[d] \in S
    BY <1>1, ElementOfSeq, LenProperties
  <2>2. Len(s) \in Nat /\ Len(t) \in Nat
    BY LenProperties
  <2>3. u \in Seq(S) /\ Len(u) = Len(s) /\ \A d \in 1..Len(s) : u[d] = t[i + d - 1]
    BY <2>1, <2>2, SubSeqProperties
  <2>4. (\A d \in 1..Len(s) : u[d] = s[d]) => u = s
    BY <2>3, SeqEqual
  <2> QED
    BY <1>1, <2>3, <2>4 DEF StandsAt, Reads
<1>2. CASE ~ i + Len(s) - 1 <= Len(t)
    BY <1>2 DEF StandsAt, Reads
<1> QED
    BY <1>1, <1>2

\* What str.replace has still to put out at each place of a text.
Unfolds(t, s, by, f) ==
    /\ f[Len(t) + 1] = <<>>
    /\ \A i \in 1..Len(t) : f[i] = IF StandsAt(s, t, i) THEN by \o f[i + Len(s)]
                                 ELSE <<t[i]>> \o f[i + 1]

\* str.replace is such a way of putting out: the function that Replaced is written with
\* exists, although it is defined by itself, because every place refers to a later one.
LEMMA ReplacedUnfolds ==
    ASSUME NEW S, NEW t \in Seq(S), NEW s \in Seq(S), NEW by \in Seq(S), s # <<>>
    PROVE  \E f \in [1..Len(t) + Len(s) -> Seq(S)] :
             Replaced(t, s, by) = f[1] /\ Unfolds(t, s, by, f)
<1> DEFINE N == Len(t) + Len(s)
           Rest(f, i) == IF i > Len(t) THEN <<>>
                         ELSE IF StandsAt(s, t, i) THEN by \o f[i + Len(s)]
                         ELSE <<t[i]>> \o f[i + 1]
           whole == CHOOSE f : f = [i \in 1..N |-> Rest(f, i)]
           holds(n) == \E g \in [1..N -> Seq(S)] : \A i \in 1..N : i + n > N => g[i] = Rest(g, i)
<1>1. Len(t) \in Nat /\ Len(s) \in Nat /\ Len(s) > 0
    BY LenProperties, EmptySeq
<1>2. \A i \in 1..N : i <= Len(t) => t[i] \in S /\ i + Len(s) \in 1..N /\ i + 1 \in 1..N
    BY <1>1, ElementOfSeq
<1>3. ASSUME NEW g, NEW i \in 1..N, \A j \in 1..N : j > i => g[j] \in Seq(S)
      PROVE  Rest(g, i) \in Seq(S)
  <2>1. <<>> \in Seq(S)
    BY EmptySeq
  <2>2. CASE i <= Len(t) /\ StandsAt(s, t, i)
    <3>1. g[i + Len(s)] \in Seq(S)
      BY <1>1, <1>2, <1>3, <2>2
    <3>2. by \o g[i + Len(s)] \in Seq(S)
      BY <3>1, ConcatProperties
    <3> QED
      BY <1>1, <2>2, <3>2
  <2>3. CASE i <= Len(t) /\ ~ StandsAt(s, t, i)
    <3>1. g[i + 1] \in Seq(S) /\ <<t[i]>> \in Seq(S)
      BY <1>1, <1>2, <1>3, <2>3
    <3>2. <<t[i]>> \o g[i + 1] \in Seq(S)
      BY <3>1, ConcatProperties
    <3> QED
      BY <1>1, <2>3, <3>2
  <2> QED
    BY <1>1, <2>1, <2>2, <2>3
<1>4. ASSUME NEW g, NEW h, NEW i \in 1..N, \A j \in 1..N : j > i => g[j] = h[j]
      PROVE  Rest(g, i) = Rest(h, i)
  <2>1. i <= Len(t) => g[i + Len(s)] = h[i + Len(s)] /\ g[i + 1] = h[i + 1]
    BY <1>1, <1>2, <1>4
  <2> QED
    BY <1>1, <2>1
<1> HIDE DEF Rest
<1>5. holds(0)
  <2> DEFINE g == [i \in 1..N |-> <<>>]
  <2>1. g \in [1..N -> Seq(S)]
    BY EmptySeq
  <2>2. \A i \in 1..N : ~ i + 0 > N
    BY <1>1
  <2> QED
    BY <2>1, <2>2
<1>6. ASSUME NEW n \in Nat, n < N, holds(n) PROVE holds(n + 1)
  <2>1. PICK g \in [1..N -> Seq(S)] : \A i \in 1..N : i + n > N => g[i] = Rest(g, i)
    BY <1>6
  <2>2. N - n \in 1..N
    BY <1>1, <1>6
  <2> DEFINE h == [g EXCEPT ![N - n] = Rest(g, N - n)]
  <2>3. Rest(g, N - n) \in Seq(S)
    BY <1>3, <2>2
  <2>4. h \in [1..N -> Seq(S)]
    BY <2>3
  <2>5. \A i \in 1..N : i # N - n => h[i] = g[i]
    OBVIOUS
  <2>6. h[N - n] = Rest(g, N - n)
    BY <2>2
  <2> HIDE DEF h
  <2>7. ASSUME NEW i \in 1..N, i + (n + 1) > N PROVE h[i] = Rest(h, i)
    <3>1. \A j \in 1..N : j > i => g[j] = h[j]
      BY <1>1, <2>5, <2>7
    <3>2. Rest(g, i) = Rest(h, i)
      BY <1>4, <3>1
    <3>3. CASE i = N - n
      BY <2>6, <3>2, <3>3
    <3>4. CASE i # N - n
      <4>1. N \in Nat
        BY <1>1
      <4>2. i + n > N
        <5> HIDE DEF N
        <5> QED
          BY <1>6, <2>7, <3>4, <4>1
      <4> QED
        BY <2>1, <2>5, <3>2, <3>4, <4>2
    <3> QED
      BY <3>3, <3>4
  <2> QED
    BY <2>4, <2>7
<1>7. \A n \in Nat : n <= N => holds(n)
  <2> HIDE DEF holds
  <2>1. SUFFICES ASSUME NEW m \in Nat, m <= N, ~ holds(m) PROVE FALSE
    OBVIOUS
  <2> DEFINE T == {n \in Nat : n <= N /\ ~ holds(n)}
  <2>2. PICK x \in T : \A y \in T : x <= y
    BY <2>1, LeastNumber
  <2>3. x # 0
    BY <1>5
  <2>4. x - 1 \in Nat /\ x - 1 < N /\ x - 1 \notin T /\ (x - 1) + 1 = x
    BY <1>1, <2>2, <2>3
  <2>5. holds(x - 1)
    BY <1>1, <2>4
  <2> QED
    BY <1>6, <2>4, <2>5
<1>8. whole = [i \in 1..N |-> Rest(whole, i)]
  <2>1. PICK g \in [1..N -> Seq(S)] : \A i \in 1..N : i + N > N => g[i] = Rest(g, i)
    <3>1. N \in Nat /\ N <= N
      BY <1>1
    <3> HIDE DEF holds
    <3>2. holds(N)
      BY <1>7, <3>1
    <3> USE DEF holds
    <3> QED
      BY <3>2
  <2>2. \A i \in 1..N : i + N > N
    BY <1>1
  <2>3. g = [i \in 1..N |-> Rest(g, i)]
    BY <2>1, <2>2
  <2> HIDE DEF N
  <2> QED
    BY <2>3
<1> HIDE DEF whole
<1>9. \A i \in 1..N : whole[i] \in Seq(S)
  <2>1. SUFFICES ASSUME NEW k \in 1..N, whole[k] \notin Seq(S) PROVE FALSE
    OBVIOUS
  <2> DEFINE T == {n \in Nat : n < N /\ whole[N - n] \notin Seq(S)}
  <2>2. N - k \in T
    BY <1>1, <2>1
  <2>3. PICK x \in T : \A y \in T : x <= y
    BY <2>2, LeastNumber
  <2>4. \A j \in 1..N : j > N - x => whole[j] \in Seq(S)
    <3> SUFFICES ASSUME NEW j \in 1..N, j > N - x, whole[j] \notin Seq(S) PROVE FALSE
      OBVIOUS
    <3>1. N - j \in Nat /\ N - j < N /\ N - (N - j) = j /\ N - j < x
      BY <1>1, <2>3
    <3> QED
      BY <1>1, <2>3, <3>1
  <2>5. N - x \in 1..N
    BY <1>1, <2>3
  <2>6. Rest(whole, N - x) \in Seq(S)
    BY <1>3, <2>4, <2>5
  <2> QED
    BY <1>8, <2>3, <2>5, <2>6
<1>10. whole \in [1..N -> Seq(S)]
  <2> HIDE DEF N
  <2>1. whole = [i \in 1..N |-> whole[i]]
    BY <1>8
  <2> QED
    BY <1>9, <2>1
<1>11. Replaced(t, s, by) = whole[1]
    BY DEF Replaced, whole, Rest
<1>12. \A i \in 1..N : whole[i] = Rest(whole, i)
    BY <1>8
<1>13. whole[Len(t) + 1] = <<>>
  <2>1. Len(t) + 1 \in 1..N /\ Len(t) + 1 > Len(t)
    BY <1>1
  <2> QED
    BY <1>12, <2>1 DEF Rest
<1>14. \A i \in 1..Len(t) : i \in 1..N /\ ~ i > Len(t)
    BY <1>1
<1>15. \A i \in 1..Len(t) : whole[i] = IF StandsAt(s, t, i) THEN by \o whole[i + Len(s)]
                                      ELSE <<t[i]>> \o whole[i + 1]
    BY <1>12, <1>14 DEF Rest
<1>16. Unfolds(t, s, by, whole)
    BY <1>13, <1>15 DEF Unfolds
<1> QED
    BY <1>10, <1>11, <1>16

\* The rest of a text, and one text after another.
From(r, j) == SubSeq(r, j, Len(r))
Joined(a, b) == a \o b

\* What is put out first stands at its place, and the rest of the output follows it.
LEMMA Split ==
    ASSUME NEW S, NEW a \in Seq(S), NEW b \in Seq(S), NEW r \in Seq(S),
           NEW j \in 1..(Len(r) + 1), Joined(a, b) = From(r, j)
    PROVE  /\ StandsAt(a, r, j)
           /\ j + Len(a) \in 1..(Len(r) + 1)
           /\ b = From(r, j + Len(a))
<1> USE DEF From, Joined
<1> DEFINE g == SubSeq(r, j, Len(r))
<1>1. Len(a) \in Nat /\ Len(b) \in Nat /\ Len(r) \in Nat
    BY LenProperties
<1>2. \A d \in j..Len(r) : r[d] \in S
    BY <1>1, ElementOfSeq
<1>3. g \in Seq(S) /\ Len(g) = Len(r) - j + 1 /\ \A d \in 1..(Len(r) - j + 1) : g[d] = r[j + d - 1]
    BY <1>1, <1>2, SubSeqProperties
<1>4. Len(g) = Len(a) + Len(b)
      /\ \A d \in 1..(Len(a) + Len(b)) : g[d] = IF d <= Len(a) THEN a[d] ELSE b[d - Len(a)]
  <2>1. g = a \o b
    OBVIOUS
  <2> HIDE DEF g
  <2> QED
    BY <2>1, ConcatProperties
<1> HIDE DEF g
<1>5. j + Len(a) \in 1..(Len(r) + 1) /\ Len(r) - (j + Len(a)) + 1 = Len(b)
    BY <1>1, <1>3, <1>4
<1>6. StandsAt(a, r, j)
  <2>1. \A d \in 1..Len(a) : r[j + d - 1] = a[d]
    <3> TAKE d \in 1..Len(a)
    <3>1. d \in 1..(Len(a) + Len(b)) /\ d \in 1..(Len(r) - j + 1)
      BY <1>1, <1>5
    <3> QED
      BY <1>3, <1>4, <3>1
  <2>2. Reads(a, r, j)
    BY <1>1, <1>5, <2>1 DEF Reads
  <2> QED
    BY <1>1, <2>2, Standing
<1>7. b = SubSeq(r, j + Len(a), Len(r))
  <2> DEFINE h == SubSeq(r, j + Len(a), Len(r))
             m == j + Len(a)
  <2>1. \A d \in m..Len(r) : r[d] \in S
    BY <1>1, ElementOfSeq
  <2>2. m \in Int /\ Len(r) \in Int
    BY <1>1
  <2>3. h \in Seq(S) /\ Len(h) = Len(b) /\ \A d \in 1..Len(b) : h[d] = r[m + d - 1]
    <3> HIDE DEF m
    <3>1. /\ SubSeq(r, m, Len(r)) \in Seq(S)
          /\ Len(SubSeq(r, m, Len(r))) = IF m <= Len(r) THEN Len(r) - m + 1 ELSE 0
          /\ \A d \in 1..(Len(r) - m + 1) : SubSeq(r, m, Len(r))[d] = r[m + d - 1]
      BY <2>1, <2>2, SubSeqProperties
    <3>2. Len(r) - m + 1 = Len(b) /\ (m <= Len(r) \/ Len(b) = 0)
      BY <1>1, <1>5, <2>2 DEF m
    <3>3. h = SubSeq(r, m, Len(r))
      BY DEF m
    <3> HIDE DEF h
    <3> QED
      BY <1>1, <2>2, <3>1, <3>2, <3>3
  <2> HIDE DEF h
  <2>4. \A d \in 1..Len(b) : h[d] = b[d]
    <3> TAKE d \in 1..Len(b)
    <3>1. Len(a) + d \in 1..(Len(a) + Len(b)) /\ Len(a) + d \in 1..(Len(r) - j + 1)
          /\ j + (Len(a) + d) - 1 = m + d - 1
          /\ ~ Len(a) + d <= Len(a) /\ (Len(a) + d) - Len(a) = d
      BY <1>1, <1>5
    <3>2. g[Len(a) + d] = r[j + (Len(a) + d) - 1]
      BY <1>3, <3>1
    <3>3. g[Len(a) + d] = b[d]
      BY <1>4, <3>1
    <3> QED
      BY <2>3, <3>1, <3>2, <3>3
  <2>5. h = b
    BY <2>3, <2>4, SeqEqual
  <2> QED
    BY <2>5 DEF h
<1> QED
    BY <1>5, <1>6, <1>7

\* Places of a text beside the places of what str.replace makes of it: both go on by a
\* piece, or over an occurrence and over what is put there.
Walk(t, s, by, r, W) ==
    /\ W \subseteq (1..(Len(t) + 1)) \X (1..(Len(r) + 1))
    /\ <<1, 1>> \in W
    /\ \A i \in 1..(Len(t) + 1), j \in 1..(Len(r) + 1) : <<i, j>> \in W =>
         \/ i = Len(t) + 1 /\ j = Len(r) + 1
         \/ /\ i <= Len(t) /\ j <= Len(r) /\ ~ StandsAt(s, t, i)
            /\ r[j] = t[i] /\ <<i + 1, j + 1>> \in W
         \/ /\ i <= Len(t) /\ StandsAt(s, t, i) /\ StandsAt(by, r, j)
            /\ <<i + Len(s), j + Len(by)>> \in W

\* str.replace goes through the text and its output in that way.
LEMMA ReplacedWalks ==
    ASSUME NEW S, NEW t \in Seq(S), NEW s \in Seq(S), NEW by \in Seq(S), s # <<>>
    PROVE  /\ Replaced(t, s, by) \in Seq(S)
           /\ \E W : Walk(t, s, by, Replaced(t, s, by), W)
<1> DEFINE r == Replaced(t, s, by)
<1>1. PICK f \in [1..Len(t) + Len(s) -> Seq(S)] :
             r = f[1] /\ Unfolds(t, s, by, f)
    BY ReplacedUnfolds
<1>2. Len(t) \in Nat /\ Len(s) \in Nat /\ Len(s) > 0 /\ Len(by) \in Nat
    BY LenProperties, EmptySeq
<1>3. r \in Seq(S) /\ Len(r) \in Nat
  <2>1. 1 \in 1..Len(t) + Len(s)
    BY <1>2
  <2> QED
    BY <1>1, <2>1, LenProperties
<1> HIDE DEF r
<1> DEFINE W == {w \in (1..(Len(t) + 1)) \X (1..(Len(r) + 1)) : f[w[1]] = From(r, w[2])}
<1>4. <<1, 1>> \in W
  <2>1. 1 \in 1..(Len(t) + 1) /\ 1 \in 1..(Len(r) + 1)
    BY <1>2, <1>3
  <2>2. f[1] = From(r, 1)
    BY <1>1, <1>3, SubSeqFull DEF From
  <2> QED
    BY <2>1, <2>2
<1>5. ASSUME NEW i \in 1..(Len(t) + 1), NEW j \in 1..(Len(r) + 1), <<i, j>> \in W
      PROVE  \/ i = Len(t) + 1 /\ j = Len(r) + 1
             \/ /\ i <= Len(t) /\ j <= Len(r) /\ ~ StandsAt(s, t, i)
                /\ r[j] = t[i] /\ <<i + 1, j + 1>> \in W
             \/ /\ i <= Len(t) /\ StandsAt(s, t, i) /\ StandsAt(by, r, j)
                /\ <<i + Len(s), j + Len(by)>> \in W
  <2>1. f[i] = From(r, j)
    BY <1>5
  <2>2. i \in 1..Len(t) + Len(s)
    BY <1>2
  <2>3. CASE i = Len(t) + 1
    <3>1. f[i] = <<>>
      BY <1>1, <2>3 DEF Unfolds
    <3>2. <<>> \in Seq(S) /\ Len(<<>>) = 0
      BY EmptySeq
    <3>3. \A d \in j..Len(r) : r[d] \in S
      BY <1>3, ElementOfSeq
    <3>4. Len(SubSeq(r, j, Len(r))) = IF j <= Len(r) THEN Len(r) - j + 1 ELSE 0
      BY <1>3, <3>3, SubSeqProperties
    <3>5. ~ j <= Len(r)
      BY <1>3, <2>1, <3>1, <3>2, <3>4 DEF From
    <3> QED
      BY <1>3, <2>3, <3>5
  <2>4. CASE i <= Len(t) /\ StandsAt(s, t, i)
    <3>1. i \in 1..Len(t)
      BY <1>2, <2>4
    <3>2. f[i] = by \o f[i + Len(s)]
      BY <1>1, <2>4, <3>1 DEF Unfolds
    <3>3. i + Len(s) \in 1..Len(t) + Len(s) /\ i + Len(s) \in 1..(Len(t) + 1)
      BY <1>2, <2>4 DEF StandsAt
    <3>4. f[i + Len(s)] \in Seq(S)
      BY <3>3
    <3> DEFINE b == f[i + Len(s)]
    <3> HIDE DEF b
    <3>5. /\ StandsAt(by, r, j)
          /\ j + Len(by) \in 1..(Len(r) + 1)
          /\ b = From(r, j + Len(by))
      <4>1. Joined(by, b) = From(r, j) /\ b \in Seq(S)
        BY <2>1, <3>2, <3>4 DEF b, Joined
      <4> QED
        BY <1>3, <4>1, Split
    <3> USE DEF b
    <3> QED
      BY <2>4, <3>3, <3>5
  <2>5. CASE i <= Len(t) /\ ~ StandsAt(s, t, i)
    <3> DEFINE a == <<t[i]>>
    <3>1. f[i] = a \o f[i + 1]
      <4>1. i \in 1..Len(t)
        BY <1>2, <2>5
      <4> QED
        BY <1>1, <2>5, <4>1 DEF Unfolds
    <3>2. i + 1 \in 1..Len(t) + Len(s) /\ i + 1 \in 1..(Len(t) + 1)
      BY <1>2, <2>5
    <3>3. f[i + 1] \in Seq(S)
      BY <3>2
    <3>4. a \in Seq(S) /\ Len(a) = 1 /\ a[1] = t[i]
      <4>1. t[i] \in S
        BY <1>2, <2>5, ElementOfSeq
      <4> QED
        BY <4>1
    <3> HIDE DEF a
    <3> DEFINE b == f[i + 1]
    <3> HIDE DEF b
    <3>5. /\ StandsAt(a, r, j)
          /\ j + Len(a) \in 1..(Len(r) + 1)
          /\ b = From(r, j + Len(a))
      <4>1. Joined(a, b) = From(r, j) /\ b \in Seq(S)
        BY <2>1, <3>1, <3>3 DEF b, Joined
      <4>2. a \in Seq(S)
        BY <3>4
      <4>3. r \in Seq(S)
        BY <1>3
      <4> QED
        BY <4>1, <4>2, <4>3, Split
    <3> USE DEF b
    <3>6. j + Len(a) - 1 <= Len(r) /\ r[j + 1 - 1] = a[1]
      <4>1. j \in Nat \ {0}
        BY <1>3
      <4>2. 1 \in 1..Len(a)
        BY <3>4
      <4>3. Reads(a, r, j)
        BY <1>3, <3>4, <3>5, <4>1, Standing
      <4> QED
        BY <4>2, <4>3 DEF Reads
    <3>7. j <= Len(r) /\ r[j] = t[i] /\ j + 1 \in 1..(Len(r) + 1)
      BY <1>3, <3>4, <3>5, <3>6
    <3>8. f[i + 1] = From(r, j + 1)
      BY <3>4, <3>5
    <3> QED
      BY <2>5, <3>2, <3>7, <3>8
  <2> QED
    BY <1>2, <2>3, <2>4, <2>5
<1> HIDE DEF W
<1>6. W \subseteq (1..(Len(t) + 1)) \X (1..(Len(r) + 1))
    BY DEF W
<1>7. Walk(t, s, by, r, W)
    BY <1>4, <1>5, <1>6 DEF Walk
<1> QED
    BY <1>3, <1>7 DEF r

\* Symbols of four pieces in brackets, one per literal, and literals that hold no bracket
\* and are no part of a symbol.
Fit(S, K) ==
    \A p \in K :
        /\ p.symbol \in Seq(S) /\ Len(p.symbol) = 4
        /\ p.symbol[1] = "<" /\ p.symbol[4] = ">"
        /\ p.symbol[2] \notin Brackets /\ p.symbol[3] \notin Brackets
        /\ p.literal \in Seq(S) /\ Len(p.literal) > 0
        /\ \A i \in 1..Len(p.literal) : p.literal[i] \notin Brackets
        /\ \A q \in K : ~ Occurs(p.literal, q.symbol) /\ (p.symbol = q.symbol => p = q)

\* A masked text beside its original: both go on by the same piece, or over a symbol in
\* one and over its literal in the other.
Aligned(x, t, K, A) ==
    /\ A \subseteq (1..(Len(x) + 1)) \X (1..(Len(t) + 1))
    /\ <<1, 1>> \in A
    /\ \A i \in 1..(Len(x) + 1), j \in 1..(Len(t) + 1) : <<i, j>> \in A =>
         \/ i = Len(x) + 1 /\ j = Len(t) + 1
         \/ i <= Len(x) /\ j <= Len(t) /\ x[i] = t[j] /\ <<i + 1, j + 1>> \in A
         \/ \E p \in K : /\ StandsAt(p.symbol, x, i) /\ StandsAt(p.literal, t, j)
                         /\ <<i + 4, j + Len(p.literal)>> \in A

\* Two stretches of n pieces are the same; none of n pieces begins a symbol; s stands at
\* none of n places.
Same(x, i, y, j, n) == \A d \in 0..(n - 1) : x[i + d] = y[j + d]
Plain(x, i, n) == \A d \in 0..(n - 1) : x[i + d] # "<"
Absent(s, x, i, n) == \A d \in 0..(n - 1) : ~ StandsAt(s, x, i + d)

\* Where no symbol begins, an alignment goes on piece by piece.
LEMMA Copied ==
    ASSUME NEW S, NEW x \in Seq(S), NEW t \in Seq(S), NEW K, NEW A, Aligned(x, t, K, A), Fit(S, K),
           NEW i \in Nat, NEW j \in Nat, <<i, j>> \in A, NEW n \in Nat, i + n <= Len(x) + 1,
           Plain(x, i, n)
    PROVE  <<i + n, j + n>> \in A /\ j + n <= Len(t) + 1 /\ Same(x, i, t, j, n)
<1>1. Len(x) \in Nat /\ Len(t) \in Nat
    BY LenProperties
<1>2. \A k, l : <<k, l>> \in A => k \in 1..(Len(x) + 1) /\ l \in 1..(Len(t) + 1)
    BY DEF Aligned
<1>3. ASSUME NEW d \in 0..n, d < n, <<i + d, j + d>> \in A
      PROVE  x[i + d] = t[j + d] /\ <<i + (d + 1), j + (d + 1)>> \in A
  <2>1. i + d \in 1..(Len(x) + 1) /\ j + d \in 1..(Len(t) + 1) /\ i + d # Len(x) + 1
    BY <1>1, <1>2, <1>3
  <2>2. ASSUME NEW p \in K, StandsAt(p.symbol, x, i + d) PROVE FALSE
    <3>1. p.symbol \in Seq(S) /\ Len(p.symbol) = 4 /\ p.symbol[1] = "<"
      BY DEF Fit
    <3>2. i + d \in Nat \ {0} /\ 1 \in 1..Len(p.symbol)
      BY <1>1, <2>1, <3>1
    <3>3. Reads(p.symbol, x, i + d)
      BY <2>2, <3>1, <3>2, Standing
    <3>4. x[i + d + 1 - 1] = p.symbol[1]
      BY <3>2, <3>3 DEF Reads
    <3>5. i + d + 1 - 1 = i + d /\ d \in 0..(n - 1)
      BY <1>1, <1>3, <2>1
    <3>6. x[i + d] # "<"
      BY <3>5 DEF Plain
    <3> QED
      BY <3>1, <3>4, <3>5, <3>6
  <2>3. x[i + d] = t[j + d] /\ <<(i + d) + 1, (j + d) + 1>> \in A
    BY <1>3, <2>1, <2>2 DEF Aligned
  <2> QED
    BY <2>3
<1>4. \A d \in 0..n : <<i + d, j + d>> \in A
  <2> DEFINE T == {d \in Nat : <<i + d, j + d>> \in A}
  <2>1. <<i + 0, j + 0>> \in A
    <3>1. i + 0 = i /\ j + 0 = j
      OBVIOUS
    <3> QED
      BY <3>1
  <2>2. \A d \in T : d < n => d + 1 \in T
    <3> SUFFICES ASSUME NEW d \in T, d < n PROVE d + 1 \in T
      OBVIOUS
    <3>1. d \in 0..n /\ <<i + d, j + d>> \in A /\ d + 1 \in Nat
      OBVIOUS
    <3>2. <<i + (d + 1), j + (d + 1)>> \in A
      BY <1>3, <3>1
    <3> QED
      BY <3>1, <3>2
  <2>3. 0 \in T /\ T \in SUBSET Nat
    BY <2>1
  <2>4. \A d \in T : <<i + d, j + d>> \in A
    OBVIOUS
  <2> HIDE DEF T
  <2>5. \A d \in 0..n : d \in T
    BY <2>2, <2>3, UpTo
  <2> QED
    BY <2>4, <2>5
<1>5. <<i + n, j + n>> \in A
  <2>1. n \in 0..n
    OBVIOUS
  <2> QED
    BY <1>4, <2>1
<1>6. j + n \in 1..(Len(t) + 1)
    BY <1>2, <1>5
<1>7. j + n <= Len(t) + 1
    BY <1>1, <1>6
<1>8. ASSUME NEW d \in 0..(n - 1) PROVE x[i + d] = t[j + d]
  <2>1. d \in 0..n /\ d < n
    OBVIOUS
  <2> QED
    BY <1>3, <1>4, <2>1
<1> QED
    BY <1>5, <1>7, <1>8 DEF Same

\* Where nothing is found, str.replace goes on piece by piece.
LEMMA Passing ==
    ASSUME NEW S, NEW x \in Seq(S), NEW r \in Seq(S), NEW s, NEW by, NEW W, Walk(x, s, by, r, W),
           NEW i \in Nat, NEW j \in Nat, <<i, j>> \in W, NEW n \in Nat, i + n <= Len(x) + 1,
           Absent(s, x, i, n)
    PROVE  <<i + n, j + n>> \in W /\ j + n <= Len(r) + 1 /\ Same(x, i, r, j, n)
<1>1. Len(x) \in Nat /\ Len(r) \in Nat
    BY LenProperties
<1>2. \A k, l : <<k, l>> \in W => k \in 1..(Len(x) + 1) /\ l \in 1..(Len(r) + 1)
    BY DEF Walk
<1>3. ASSUME NEW d \in 0..n, d < n, <<i + d, j + d>> \in W
      PROVE  r[j + d] = x[i + d] /\ <<i + (d + 1), j + (d + 1)>> \in W
  <2>1. i + d \in 1..(Len(x) + 1) /\ j + d \in 1..(Len(r) + 1) /\ i + d # Len(x) + 1
    BY <1>1, <1>2, <1>3
  <2>2. ~ StandsAt(s, x, i + d)
    <3>1. d \in 0..(n - 1)
      BY <1>3
    <3> QED
      BY <3>1 DEF Absent
  <2>3. r[j + d] = x[i + d] /\ <<(i + d) + 1, (j + d) + 1>> \in W
    BY <1>3, <2>1, <2>2 DEF Walk
  <2>4. (i + d) + 1 = i + (d + 1) /\ (j + d) + 1 = j + (d + 1)
    OBVIOUS
  <2> QED
    BY <2>3, <2>4
<1>4. \A d \in 0..n : <<i + d, j + d>> \in W
  <2> DEFINE T == {d \in Nat : <<i + d, j + d>> \in W}
  <2>1. <<i + 0, j + 0>> \in W
    <3>1. i + 0 = i /\ j + 0 = j
      OBVIOUS
    <3> QED
      BY <3>1
  <2>2. \A d \in T : d < n => d + 1 \in T
    <3> SUFFICES ASSUME NEW d \in T, d < n PROVE d + 1 \in T
      OBVIOUS
    <3>1. d \in 0..n /\ <<i + d, j + d>> \in W /\ d + 1 \in Nat
      OBVIOUS
    <3>2. <<i + (d + 1), j + (d + 1)>> \in W
      BY <1>3, <3>1
    <3> QED
      BY <3>1, <3>2
  <2>3. 0 \in T /\ T \in SUBSET Nat
    BY <2>1
  <2>4. \A d \in T : <<i + d, j + d>> \in W
    OBVIOUS
  <2> HIDE DEF T
  <2>5. \A d \in 0..n : d \in T
    BY <2>2, <2>3, UpTo
  <2> QED
    BY <2>4, <2>5
<1>5. <<i + n, j + n>> \in W
  <2>1. n \in 0..n
    OBVIOUS
  <2> QED
    BY <1>4, <2>1
<1>6. j + n \in 1..(Len(r) + 1)
    BY <1>2, <1>5
<1>7. j + n <= Len(r) + 1
    BY <1>1, <1>6
<1>8. ASSUME NEW d \in 0..(n - 1) PROVE x[i + d] = r[j + d]
  <2>1. d \in 0..n /\ d < n
    OBVIOUS
  <2> QED
    BY <1>3, <1>4, <2>1
<1> QED
    BY <1>5, <1>7, <1>8 DEF Same

\* A symbol stands where its four pieces do.
LEMMA SymbolStands ==
    ASSUME NEW S, NEW u \in Seq(S), NEW x \in Seq(S), NEW i \in Nat \ {0}
    PROVE  Len(u) = 4 => (StandsAt(u, x, i) <=> ReadsFour(u, x, i))
<1>1. StandsAt(u, x, i) <=> Reads(u, x, i)
    BY Standing
<1>2. Len(x) \in Nat
    BY LenProperties
<1>3. i + 1 - 1 = i /\ i + 2 - 1 = i + 1 /\ i + 3 - 1 = i + 2 /\ i + 4 - 1 = i + 3
    OBVIOUS
<1>4. ASSUME Len(u) = 4, Reads(u, x, i) PROVE ReadsFour(u, x, i)
  <2>1. i + 4 - 1 <= Len(x) /\ \A d \in 1..4 : x[i + d - 1] = u[d]
    BY <1>4 DEF Reads
  <2>2. x[i + 1 - 1] = u[1] /\ x[i + 2 - 1] = u[2] /\ x[i + 3 - 1] = u[3] /\ x[i + 4 - 1] = u[4]
    BY <2>1
  <2> QED
    BY <1>3, <2>1, <2>2 DEF ReadsFour
<1>5. ASSUME Len(u) = 4, ReadsFour(u, x, i) PROVE Reads(u, x, i)
  <2>1. ASSUME NEW d \in 1..4 PROVE x[i + d - 1] = u[d]
    <3>1. d = 1 \/ d = 2 \/ d = 3 \/ d = 4
      OBVIOUS
    <3> QED
      BY <1>3, <1>5, <3>1 DEF ReadsFour
  <2>2. i + 4 - 1 <= Len(x)
    BY <1>2, <1>3, <1>5 DEF ReadsFour
  <2> QED
    BY <1>5, <2>1, <2>2 DEF Reads
<1> QED
    BY <1>1, <1>4, <1>5

\* Where nothing is found in a symbol, it is put out as it is.
LEMMA PassingSymbol ==
    ASSUME NEW S, NEW x \in Seq(S), NEW r \in Seq(S), NEW s, NEW by, NEW W, Walk(x, s, by, r, W),
           NEW i \in Nat \ {0}, NEW j \in Nat \ {0}, <<i, j>> \in W,
           NEW u \in Seq(S), Len(u) = 4, StandsAt(u, x, i), \A d \in 0..3 : ~ StandsAt(s, x, i + d)
    PROVE  StandsAt(u, r, j) /\ <<i + 4, j + 4>> \in W
<1>1. Len(x) \in Nat /\ Len(r) \in Nat /\ i \in Nat /\ j \in Nat
    BY LenProperties
<1>2. /\ i + 3 <= Len(x)
      /\ x[i] = u[1] /\ x[i + 1] = u[2] /\ x[i + 2] = u[3] /\ x[i + 3] = u[4]
  <2>1. ReadsFour(u, x, i)
    BY SymbolStands
  <2> QED
    BY <2>1 DEF ReadsFour
<1> DEFINE n == 4
<1>3. n \in Nat /\ i + n <= Len(x) + 1 /\ n = 4 /\ 0..(n - 1) = 0..3
    BY <1>1, <1>2
<1> HIDE DEF n
<1>4. Absent(s, x, i, n)
    BY <1>3 DEF Absent
<1>5. <<i + n, j + n>> \in W /\ j + n <= Len(r) + 1 /\ Same(x, i, r, j, n)
    BY <1>1, <1>3, <1>4, Passing
<1>6. 0 \in 0..3 /\ 1 \in 0..3 /\ 2 \in 0..3 /\ 3 \in 0..3
    OBVIOUS
<1>7. /\ r[j + 0] = x[i + 0] /\ r[j + 1] = x[i + 1] /\ r[j + 2] = x[i + 2] /\ r[j + 3] = x[i + 3]
      /\ <<i + 4, j + 4>> \in W /\ j + 4 <= Len(r) + 1
    BY <1>3, <1>5, <1>6 DEF Same
<1>8. i + 0 = i /\ j + 0 = j /\ j + 3 <= Len(r)
    BY <1>1, <1>7
<1>9. j + 3 <= Len(r) /\ r[j] = u[1] /\ r[j + 1] = u[2] /\ r[j + 2] = u[3] /\ r[j + 3] = u[4]
    BY <1>2, <1>7, <1>8
<1>10. ReadsFour(u, r, j)
    BY <1>9 DEF ReadsFour
<1>11. StandsAt(u, r, j)
    BY <1>10, SymbolStands
<1> QED
    BY <1>7, <1>11

\* An alignment without symbols is an identity.
LEMMA NothingMasked ==
    ASSUME NEW S, NEW x \in Seq(S), NEW t \in Seq(S), NEW A, Aligned(x, t, {}, A)
    PROVE  x = t
<1>1. Len(x) \in Nat /\ Len(t) \in Nat
    BY LenProperties
<1>2. ASSUME NEW d \in Nat, <<1 + d, 1 + d>> \in A
      PROVE  \/ d = Len(x) /\ d = Len(t)
             \/ /\ d < Len(x) /\ d < Len(t) /\ x[1 + d] = t[1 + d]
                /\ <<1 + (d + 1), 1 + (d + 1)>> \in A
  <2>1. 1 + d \in 1..(Len(x) + 1) /\ 1 + d \in 1..(Len(t) + 1)
    BY <1>2 DEF Aligned
  <2>2. \/ 1 + d = Len(x) + 1 /\ 1 + d = Len(t) + 1
        \/ 1 + d <= Len(x) /\ 1 + d <= Len(t) /\ x[1 + d] = t[1 + d] /\ <<(1 + d) + 1, (1 + d) + 1>> \in A
    BY <1>2, <2>1 DEF Aligned
  <2> QED
    BY <1>1, <2>2
<1>3. \A d \in 0..Len(x) : <<1 + d, 1 + d>> \in A
  <2> DEFINE T == {d \in Nat : <<1 + d, 1 + d>> \in A}
  <2>1. <<1 + 0, 1 + 0>> \in A
    BY DEF Aligned
  <2>2. \A d \in T : d < Len(x) => d + 1 \in T
    <3> SUFFICES ASSUME NEW d \in T, d < Len(x) PROVE d + 1 \in T
      OBVIOUS
    <3>1. <<1 + d, 1 + d>> \in A /\ d + 1 \in Nat
      OBVIOUS
    <3>2. <<1 + (d + 1), 1 + (d + 1)>> \in A
      BY <1>2, <3>1
    <3> QED
      BY <3>1, <3>2
  <2>3. 0 \in T /\ T \in SUBSET Nat
    BY <2>1
  <2>4. \A d \in T : <<1 + d, 1 + d>> \in A
    OBVIOUS
  <2> HIDE DEF T
  <2>5. \A d \in 0..Len(x) : d \in T
    BY <1>1, <2>2, <2>3, UpTo
  <2> QED
    BY <2>4, <2>5
<1>4. Len(x) = Len(t)
  <2>1. Len(x) \in 0..Len(x) /\ ~ Len(x) < Len(x)
    BY <1>1
  <2>2. <<1 + Len(x), 1 + Len(x)>> \in A
    BY <1>3, <2>1
  <2> QED
    BY <1>1, <1>2, <2>1, <2>2
<1>5. \A k \in 1..Len(x) : x[k] = t[k]
  <2> TAKE k \in 1..Len(x)
  <2>1. k - 1 \in 0..Len(x) /\ k - 1 \in Nat /\ 1 + (k - 1) = k /\ k - 1 # Len(x)
    BY <1>1
  <2> QED
    BY <1>2, <1>3, <2>1
<1> QED
    BY <1>4, <1>5, SeqEqual

\* A literal that is no part of a symbol stands nowhere inside one.
LEMMA OutsideSymbols ==
    ASSUME NEW S, NEW x \in Seq(S), NEW K, Fit(S, K), NEW p \in K, NEW q \in K,
           NEW i \in Nat \ {0}, StandsAt(q.symbol, x, i), NEW d \in 0..3
    PROVE  ~ StandsAt(p.literal, x, i + d)
<1> DEFINE s == p.literal
           u == q.symbol
<1>1. /\ s \in Seq(S) /\ Len(s) > 0 /\ Len(s) \in Nat
      /\ \A e \in 1..Len(s) : s[e] \notin Brackets
      /\ u \in Seq(S) /\ Len(u) = 4 /\ u[4] = ">"
      /\ ~ Occurs(s, u)
    BY LenProperties DEF Fit
<1> HIDE DEF s, u
<1> SUFFICES ASSUME StandsAt(s, x, i + d) PROVE FALSE
    BY DEF s
<1>2. StandsAt(u, x, i)
    BY DEF u
<1>3. \A e \in 1..4 : x[i + e - 1] = u[e]
  <2>1. u \in Seq(S) /\ Len(u) = 4
    BY <1>1
  <2>2. ReadsFour(u, x, i)
    BY <1>2, <2>1, SymbolStands
  <2>3. x[i] = u[1] /\ x[i + 1] = u[2] /\ x[i + 2] = u[3] /\ x[i + 3] = u[4]
    BY <2>2 DEF ReadsFour
  <2> TAKE e \in 1..4
  <2>4. e = 1 \/ e = 2 \/ e = 3 \/ e = 4
    OBVIOUS
  <2>5. i + 1 - 1 = i /\ i + 2 - 1 = i + 1 /\ i + 3 - 1 = i + 2 /\ i + 4 - 1 = i + 3
    OBVIOUS
  <2> QED
    BY <2>3, <2>4, <2>5
<1>4. i + d \in Nat \ {0}
    OBVIOUS
<1>5. \A e \in 1..Len(s) : x[(i + d) + e - 1] = s[e]
  <2>1. s \in Seq(S)
    BY <1>1
  <2>2. Reads(s, x, i + d)
    BY <1>4, <2>1, Standing
  <2> QED
    BY <2>2 DEF Reads
<1>6. CASE d + Len(s) <= 4
  <2>1. ASSUME NEW e \in 1..Len(s) PROVE u[(d + 1) + e - 1] = s[e]
    <3>1. e \in Nat \ {0} /\ e <= Len(s)
      BY <1>1
    <3>2. d + e \in 1..4 /\ i + (d + e) - 1 = (i + d) + e - 1 /\ (d + 1) + e - 1 = d + e
      BY <1>1, <1>6, <3>1
    <3>3. x[i + (d + e) - 1] = u[d + e]
      BY <1>3, <3>2
    <3>4. x[(i + d) + e - 1] = s[e]
      BY <1>5
    <3> QED
      BY <3>2, <3>3, <3>4
  <2>2. (d + 1) + Len(s) - 1 <= Len(u) /\ d + 1 \in Nat \ {0} /\ d + 1 \in 1..Len(u)
    BY <1>1, <1>6
  <2>3. Reads(s, u, d + 1)
    BY <2>1, <2>2 DEF Reads
  <2>4. s \in Seq(S) /\ u \in Seq(S)
    BY <1>1
  <2>5. StandsAt(s, u, d + 1)
    BY <2>2, <2>3, <2>4, Standing
  <2> QED
    BY <1>1, <2>2, <2>5 DEF Occurs
<1>7. CASE d + Len(s) > 4
  <2>1. 4 - d \in 1..Len(s) /\ (i + d) + (4 - d) - 1 = i + 4 - 1
    BY <1>1, <1>7
  <2>2. x[i + 4 - 1] = s[4 - d]
    BY <1>5, <2>1
  <2>3. x[i + 4 - 1] = ">"
    BY <1>1, <1>3
  <2> QED
    BY <1>1, <2>1, <2>2, <2>3 DEF Brackets
<1> QED
    BY <1>1, <1>6, <1>7

\* Masking a literal keeps a text aligned with its original.
LEMMA MaskStep ==
    ASSUME NEW S, NEW x \in Seq(S), NEW t \in Seq(S), NEW K, NEW A, Aligned(x, t, K, A),
           NEW p, Fit(S, K \cup {p})
    PROVE  \E B : Aligned(Replaced(x, p.literal, p.symbol), t, K \cup {p}, B)
<1> DEFINE s == p.literal
           u == p.symbol
           r == Replaced(x, s, u)
           L == K \cup {p}
<1>1. /\ s \in Seq(S) /\ Len(s) > 0 /\ Len(s) \in Nat /\ s # <<>>
      /\ \A e \in 1..Len(s) : s[e] \notin Brackets
      /\ u \in Seq(S) /\ Len(u) = 4
  <2>1. p \in K \cup {p}
    OBVIOUS
  <2> QED
    BY <2>1, LenProperties, EmptySeq DEF Fit
<1>2. Fit(S, K) /\ Fit(S, L) /\ p \in L /\ K \subseteq L
    BY DEF Fit
<1> HIDE DEF s, u, r, L
<1>3. r \in Seq(S)
    BY <1>1, ReplacedWalks DEF r
<1>4. PICK W : Walk(x, s, u, r, W)
    BY <1>1, ReplacedWalks DEF r
<1>5. Len(x) \in Nat /\ Len(t) \in Nat /\ Len(r) \in Nat
    BY <1>3, LenProperties
<1>6. /\ \A i, j : <<i, j>> \in W => i \in 1..(Len(x) + 1) /\ j \in 1..(Len(r) + 1)
      /\ \A i, j : <<i, j>> \in A => i \in 1..(Len(x) + 1) /\ j \in 1..(Len(t) + 1)
    BY <1>4 DEF Walk, Aligned
<1> DEFINE both(j, o) == \E i : <<i, j>> \in W /\ <<i, o>> \in A
           B == {w \in (1..(Len(r) + 1)) \X (1..(Len(t) + 1)) : both(w[1], w[2])}
<1>7. \A j, o : <<j, o>> \in B <=> both(j, o)
    BY <1>6
<1>8. B \subseteq (1..(Len(r) + 1)) \X (1..(Len(t) + 1))
    OBVIOUS
<1>9. <<1, 1>> \in B
    BY <1>4, <1>7 DEF Walk, Aligned
<1> HIDE DEF B
<1>10. ASSUME NEW j \in 1..(Len(r) + 1), NEW o \in 1..(Len(t) + 1), <<j, o>> \in B
       PROVE  \/ j = Len(r) + 1 /\ o = Len(t) + 1
              \/ j <= Len(r) /\ o <= Len(t) /\ r[j] = t[o] /\ <<j + 1, o + 1>> \in B
              \/ \E q \in L : /\ StandsAt(q.symbol, r, j) /\ StandsAt(q.literal, t, o)
                              /\ <<j + 4, o + Len(q.literal)>> \in B
  <2>1. PICK i : <<i, j>> \in W /\ <<i, o>> \in A
    BY <1>7, <1>10
  <2>2. i \in 1..(Len(x) + 1)
    BY <1>6, <2>1
  <2>3. i \in Nat \ {0} /\ j \in Nat \ {0} /\ o \in Nat \ {0}
    BY <1>5, <2>2
  <2>4. \/ i = Len(x) + 1 /\ j = Len(r) + 1
        \/ /\ i <= Len(x) /\ j <= Len(r) /\ ~ StandsAt(s, x, i)
           /\ r[j] = x[i] /\ <<i + 1, j + 1>> \in W
        \/ /\ i <= Len(x) /\ StandsAt(s, x, i) /\ StandsAt(u, r, j)
           /\ <<i + Len(s), j + Len(u)>> \in W
    BY <1>4, <2>1, <2>2 DEF Walk
  <2>5. \/ i = Len(x) + 1 /\ o = Len(t) + 1
        \/ i <= Len(x) /\ o <= Len(t) /\ x[i] = t[o] /\ <<i + 1, o + 1>> \in A
        \/ \E q \in K : /\ StandsAt(q.symbol, x, i) /\ StandsAt(q.literal, t, o)
                        /\ <<i + 4, o + Len(q.literal)>> \in A
    BY <2>1, <2>2 DEF Aligned
  <2>6. ASSUME NEW q \in K, StandsAt(q.symbol, x, i), StandsAt(q.literal, t, o),
               <<i + 4, o + Len(q.literal)>> \in A
        PROVE  \E z \in L : /\ StandsAt(z.symbol, r, j) /\ StandsAt(z.literal, t, o)
                            /\ <<j + 4, o + Len(z.literal)>> \in B
    <3>1. \A d \in 0..3 : ~ StandsAt(s, x, i + d)
      <4>1. q \in L
        BY <1>2
      <4> QED
        BY <1>2, <2>3, <2>6, <4>1, OutsideSymbols DEF s
    <3>2. q.symbol \in Seq(S) /\ Len(q.symbol) = 4
      BY <1>2 DEF Fit
    <3>3. StandsAt(q.symbol, r, j) /\ <<i + 4, j + 4>> \in W
      <4> DEFINE v == q.symbol
      <4>1. v \in Seq(S) /\ Len(v) = 4 /\ StandsAt(v, x, i)
        BY <2>6, <3>2
      <4> HIDE DEF v
      <4>2. StandsAt(v, r, j) /\ <<i + 4, j + 4>> \in W
        BY <1>3, <1>4, <2>1, <2>3, <3>1, <4>1, PassingSymbol
      <4> QED
        BY <4>2 DEF v
    <3>4. <<j + 4, o + Len(q.literal)>> \in B
      BY <1>7, <2>6, <3>3
    <3> QED
      BY <1>2, <2>6, <3>3, <3>4
  <2>7. CASE i = Len(x) + 1
    <3>1. ASSUME NEW q \in K, <<i + 4, o + Len(q.literal)>> \in A PROVE FALSE
      BY <1>5, <1>6, <2>7, <3>1
    <3>2. ~ i <= Len(x)
      BY <1>5, <2>7
    <3>3. j = Len(r) + 1
      BY <2>4, <3>2
    <3>4. o = Len(t) + 1
      BY <2>5, <3>1, <3>2
    <3> QED
      BY <3>3, <3>4
  <2>8. CASE i <= Len(x) /\ StandsAt(s, x, i)
    <3>1. StandsAt(u, r, j) /\ <<i + Len(s), j + 4>> \in W
      BY <1>1, <1>5, <2>4, <2>8
    <3>2. Reads(s, x, i)
      BY <1>1, <2>3, <2>8, Standing
    <3>3. \A e \in 1..Len(s) : x[i + e - 1] = s[e] /\ i + Len(s) - 1 <= Len(x)
      BY <3>2 DEF Reads
    <3>4. i + Len(s) <= Len(x) + 1
      BY <1>1, <1>5, <2>3, <3>3
    <3>5. \A d \in 0..(Len(s) - 1) : x[i + d] # "<"
      <4> TAKE d \in 0..(Len(s) - 1)
      <4>1. d + 1 \in 1..Len(s) /\ i + (d + 1) - 1 = i + d
        BY <1>1, <2>3
      <4>2. x[i + d] = s[d + 1] /\ s[d + 1] \notin Brackets
        BY <1>1, <3>3, <4>1
      <4> QED
        BY <4>2 DEF Brackets
    <3>6. /\ <<i + Len(s), o + Len(s)>> \in A /\ o + Len(s) <= Len(t) + 1
          /\ Same(x, i, t, o, Len(s))
      <4>1. Len(s) \in Nat /\ i \in Nat /\ o \in Nat
        BY <1>1, <2>3
      <4>2. Fit(S, K) /\ <<i, o>> \in A
        BY <1>2, <2>1
      <4>3. Plain(x, i, Len(s))
        BY <3>5 DEF Plain
      <4> QED
        BY <3>4, <4>1, <4>2, <4>3, Copied
    <3>7. StandsAt(s, t, o)
      <4>1. \A e \in 1..Len(s) : t[o + e - 1] = s[e]
        <5> TAKE e \in 1..Len(s)
        <5>1. e - 1 \in 0..(Len(s) - 1) /\ o + (e - 1) = o + e - 1 /\ i + (e - 1) = i + e - 1
          BY <1>1, <2>3
        <5>2. x[i + (e - 1)] = t[o + (e - 1)]
          BY <3>6, <5>1 DEF Same
        <5> QED
          BY <3>3, <5>1, <5>2
      <4>2. o + Len(s) - 1 <= Len(t)
        BY <1>1, <1>5, <2>3, <3>6
      <4>3. Reads(s, t, o)
        BY <4>1, <4>2 DEF Reads
      <4> QED
        BY <1>1, <2>3, <4>3, Standing
    <3>8. <<j + 4, o + Len(s)>> \in B
      BY <1>7, <3>1, <3>6
    <3> QED
      BY <1>2, <3>1, <3>7, <3>8 DEF s, u
  <2>9. CASE i <= Len(x) /\ ~ StandsAt(s, x, i)
    <3>1. j <= Len(r) /\ r[j] = x[i] /\ <<i + 1, j + 1>> \in W
      BY <1>5, <2>4, <2>9
    <3>2. CASE o <= Len(t) /\ x[i] = t[o] /\ <<i + 1, o + 1>> \in A
      <4>1. <<j + 1, o + 1>> \in B
        BY <1>7, <3>1, <3>2
      <4> QED
        BY <3>1, <3>2, <4>1
    <3>3. CASE \E q \in K : /\ StandsAt(q.symbol, x, i) /\ StandsAt(q.literal, t, o)
                            /\ <<i + 4, o + Len(q.literal)>> \in A
      BY <2>6, <3>3
    <3>4. i # Len(x) + 1
      BY <1>5, <2>9
    <3> QED
      BY <2>5, <3>2, <3>3, <3>4
  <2>10. i = Len(x) + 1 \/ i <= Len(x)
    BY <1>5, <2>2
  <2> QED
    BY <2>7, <2>8, <2>9, <2>10
<1>11. Aligned(r, t, L, B)
    BY <1>8, <1>9, <1>10 DEF Aligned
<1> QED
    BY <1>11 DEF r, s, u, L

\* Reading a symbol back keeps a text aligned with its original, which holds no symbol.
LEMMA ReadBackStep ==
    ASSUME NEW S, NEW x \in Seq(S), NEW t \in Seq(S), NEW K, NEW A, Aligned(x, t, K, A), Fit(S, K),
           NEW p \in K, ~ Occurs(p.symbol, t)
    PROVE  \E B : Aligned(Replaced(x, p.symbol, p.literal), t, K \ {p}, B)
<1> DEFINE s == p.literal
           u == p.symbol
           r == Replaced(x, u, s)
           L == K \ {p}
<1>1. /\ s \in Seq(S) /\ Len(s) > 0 /\ Len(s) \in Nat
      /\ u \in Seq(S) /\ Len(u) = 4 /\ u # <<>>
      /\ u[1] = "<" /\ u[2] # "<" /\ u[3] # "<" /\ u[4] # "<"
      /\ \A q \in K : q.symbol = u => q = p
    BY LenProperties, EmptySeq DEF Fit, Brackets
<1>2. \A q \in K : /\ q.symbol \in Seq(S) /\ Len(q.symbol) = 4
                   /\ q.symbol[2] # "<" /\ q.symbol[3] # "<" /\ q.symbol[4] # "<"
    BY DEF Fit, Brackets
<1>3. ~ Occurs(u, t)
    OBVIOUS
<1> HIDE DEF s, u, r, L
<1>4. r \in Seq(S)
    BY <1>1, ReplacedWalks DEF r
<1>5. PICK W : Walk(x, u, s, r, W)
    BY <1>1, ReplacedWalks DEF r
<1>6. Len(x) \in Nat /\ Len(t) \in Nat /\ Len(r) \in Nat
    BY <1>4, LenProperties
<1>7. /\ \A i, j : <<i, j>> \in W => i \in 1..(Len(x) + 1) /\ j \in 1..(Len(r) + 1)
      /\ \A i, j : <<i, j>> \in A => i \in 1..(Len(x) + 1) /\ j \in 1..(Len(t) + 1)
    BY <1>5 DEF Walk, Aligned
<1> DEFINE both(j, o, e) == /\ \E i : <<i, j + e>> \in W /\ <<i, o + e>> \in A
                            /\ Same(r, j, t, o, e)
           B == {w \in (1..(Len(r) + 1)) \X (1..(Len(t) + 1)) : \E e \in Nat : both(w[1], w[2], e)}
<1>8. \A j \in 1..(Len(r) + 1), o \in 1..(Len(t) + 1) :
         <<j, o>> \in B <=> \E e \in Nat : both(j, o, e)
    OBVIOUS
<1>9. B \subseteq (1..(Len(r) + 1)) \X (1..(Len(t) + 1))
    OBVIOUS
<1> HIDE DEF B
<1>10. ASSUME NEW j, NEW o, NEW i, <<i, j>> \in W, <<i, o>> \in A PROVE <<j, o>> \in B
  <2>1. j \in 1..(Len(r) + 1) /\ o \in 1..(Len(t) + 1)
    BY <1>7, <1>10
  <2>2. j + 0 = j /\ o + 0 = o /\ 0 \in Nat
    BY <1>6, <2>1
  <2>3. Same(r, j, t, o, 0)
    BY DEF Same
  <2>4. both(j, o, 0)
    BY <1>10, <2>2, <2>3
  <2> QED
    BY <1>8, <2>1, <2>2, <2>4
<1>11. <<1, 1>> \in B
    BY <1>5, <1>10 DEF Walk, Aligned
<1>12. ASSUME NEW j \in 1..(Len(r) + 1), NEW o \in 1..(Len(t) + 1), NEW e \in Nat, e > 0, both(j, o, e)
       PROVE  j <= Len(r) /\ o <= Len(t) /\ r[j] = t[o] /\ <<j + 1, o + 1>> \in B
  <2>1. PICK i : <<i, j + e>> \in W /\ <<i, o + e>> \in A
    BY <1>12
  <2>2. j + e \in 1..(Len(r) + 1) /\ o + e \in 1..(Len(t) + 1)
    BY <1>7, <2>1
  <2>3. j <= Len(r) /\ o <= Len(t) /\ j + 1 \in 1..(Len(r) + 1) /\ o + 1 \in 1..(Len(t) + 1)
    BY <1>6, <1>12, <2>2
  <2>4. Same(r, j, t, o, e)
    BY <1>12
  <2>5. r[j] = t[o]
    <3>1. 0 \in 0..(e - 1) /\ j + 0 = j /\ o + 0 = o
      BY <1>6, <1>12
    <3>2. r[j + 0] = t[o + 0]
      BY <2>4, <3>1 DEF Same
    <3> QED
      BY <3>1, <3>2
  <2>6. Same(r, j + 1, t, o + 1, e - 1)
    <3>1. ASSUME NEW d \in 0..((e - 1) - 1) PROVE r[(j + 1) + d] = t[(o + 1) + d]
      <4>1. d + 1 \in 0..(e - 1) /\ j + (d + 1) = (j + 1) + d /\ o + (d + 1) = (o + 1) + d
        BY <1>6
      <4>2. r[j + (d + 1)] = t[o + (d + 1)]
        BY <2>4, <4>1 DEF Same
      <4> QED
        BY <4>1, <4>2
    <3> QED
      BY <3>1 DEF Same
  <2>7. e - 1 \in Nat /\ (j + 1) + (e - 1) = j + e /\ (o + 1) + (e - 1) = o + e
    BY <1>6, <1>12
  <2>8. both(j + 1, o + 1, e - 1)
    BY <2>1, <2>6, <2>7
  <2> QED
    BY <1>8, <2>3, <2>5, <2>7, <2>8
<1>13. ASSUME NEW j \in 1..(Len(r) + 1), NEW o \in 1..(Len(t) + 1), NEW i, <<i, j>> \in W, <<i, o>> \in A
       PROVE  \/ j = Len(r) + 1 /\ o = Len(t) + 1
              \/ j <= Len(r) /\ o <= Len(t) /\ r[j] = t[o] /\ <<j + 1, o + 1>> \in B
              \/ \E q \in L : /\ StandsAt(q.symbol, r, j) /\ StandsAt(q.literal, t, o)
                              /\ <<j + 4, o + Len(q.literal)>> \in B
  <2>1. i \in 1..(Len(x) + 1)
    BY <1>7, <1>13
  <2>2. i \in Nat \ {0} /\ j \in Nat \ {0} /\ o \in Nat \ {0}
    BY <1>6, <2>1
  <2>3. \/ i = Len(x) + 1 /\ j = Len(r) + 1
        \/ /\ i <= Len(x) /\ j <= Len(r) /\ ~ StandsAt(u, x, i)
           /\ r[j] = x[i] /\ <<i + 1, j + 1>> \in W
        \/ /\ i <= Len(x) /\ StandsAt(u, x, i) /\ StandsAt(s, r, j)
           /\ <<i + Len(u), j + Len(s)>> \in W
    BY <1>5, <1>13, <2>1 DEF Walk
  <2>4. \/ i = Len(x) + 1 /\ o = Len(t) + 1
        \/ i <= Len(x) /\ o <= Len(t) /\ x[i] = t[o] /\ <<i + 1, o + 1>> \in A
        \/ \E q \in K : /\ StandsAt(q.symbol, x, i) /\ StandsAt(q.literal, t, o)
                        /\ <<i + 4, o + Len(q.literal)>> \in A
    BY <1>13, <2>1 DEF Aligned
  <2>5. CASE i = Len(x) + 1
    <3>1. ASSUME NEW q \in K, <<i + 4, o + Len(q.literal)>> \in A PROVE FALSE
      BY <1>6, <1>7, <2>5, <3>1
    <3>2. ~ i <= Len(x)
      BY <1>6, <2>5
    <3>3. j = Len(r) + 1
      BY <2>3, <3>2
    <3>4. o = Len(t) + 1
      BY <2>4, <3>1, <3>2
    <3> QED
      BY <3>3, <3>4
  <2>6. CASE i <= Len(x) /\ o <= Len(t) /\ x[i] = t[o] /\ <<i + 1, o + 1>> \in A
    <3>1. ~ StandsAt(u, x, i)
      <4> SUFFICES ASSUME StandsAt(u, x, i) PROVE FALSE
        OBVIOUS
      <4>1. u \in Seq(S) /\ Len(u) = 4
        BY <1>1
      <4>2. /\ i + 3 <= Len(x)
            /\ x[i] = u[1] /\ x[i + 1] = u[2] /\ x[i + 2] = u[3] /\ x[i + 3] = u[4]
        <5>1. ReadsFour(u, x, i)
          BY <2>2, <4>1, SymbolStands
        <5> QED
          BY <5>1 DEF ReadsFour
      <4> DEFINE n == 3
      <4>3. n \in Nat /\ (i + 1) + n <= Len(x) + 1 /\ n = 3 /\ 0..(n - 1) = {0, 1, 2}
        BY <1>6, <2>2, <4>2
      <4> HIDE DEF n
      <4>4. (i + 1) + 0 = i + 1 /\ (i + 1) + 1 = i + 2 /\ (i + 1) + 2 = i + 3
            /\ (o + 1) + 0 = o + 1 /\ (o + 1) + 1 = o + 2 /\ (o + 1) + 2 = o + 3
        BY <2>2
      <4>5. Plain(x, i + 1, n)
        BY <1>1, <4>2, <4>3, <4>4 DEF Plain
      <4>6. i + 1 \in Nat /\ o + 1 \in Nat /\ <<i + 1, o + 1>> \in A
        BY <2>2, <2>6
      <4>7. (o + 1) + n <= Len(t) + 1 /\ Same(x, i + 1, t, o + 1, n)
        BY <4>3, <4>5, <4>6, Copied
      <4>8. x[i + 1] = t[o + 1] /\ x[i + 2] = t[o + 2] /\ x[i + 3] = t[o + 3]
        <5>1. \A d \in {0, 1, 2} : x[(i + 1) + d] = t[(o + 1) + d]
          BY <4>3, <4>7 DEF Same
        <5> QED
          BY <4>4, <5>1
      <4>9. /\ o + 3 <= Len(t)
            /\ t[o] = u[1] /\ t[o + 1] = u[2] /\ t[o + 2] = u[3] /\ t[o + 3] = u[4]
        BY <1>6, <2>2, <2>6, <4>2, <4>3, <4>7, <4>8
      <4>10. StandsAt(u, t, o)
        <5>1. ReadsFour(u, t, o)
          BY <4>9 DEF ReadsFour
        <5> QED
          BY <2>2, <4>1, <5>1, SymbolStands
      <4>11. o \in 1..Len(t)
        BY <1>6, <2>2, <2>6
      <4> QED
        BY <1>3, <4>10, <4>11 DEF Occurs
    <3>2. j <= Len(r) /\ r[j] = x[i] /\ <<i + 1, j + 1>> \in W
      BY <1>6, <2>3, <2>6, <3>1
    <3>3. <<j + 1, o + 1>> \in B
      BY <1>10, <2>6, <3>2
    <3> QED
      BY <2>6, <3>2, <3>3
  <2>7. ASSUME NEW q \in K, StandsAt(q.symbol, x, i), StandsAt(q.literal, t, o),
               <<i + 4, o + Len(q.literal)>> \in A, i <= Len(x)
        PROVE  \/ j <= Len(r) /\ o <= Len(t) /\ r[j] = t[o] /\ <<j + 1, o + 1>> \in B
               \/ \E z \in L : /\ StandsAt(z.symbol, r, j) /\ StandsAt(z.literal, t, o)
                               /\ <<j + 4, o + Len(z.literal)>> \in B
    <3> DEFINE v == q.symbol
    <3>1. v \in Seq(S) /\ Len(v) = 4 /\ StandsAt(v, x, i) /\ v[2] # "<" /\ v[3] # "<" /\ v[4] # "<"
      BY <1>2, <2>7
    <3> HIDE DEF v
    <3>2. /\ i + 3 <= Len(x)
          /\ x[i] = v[1] /\ x[i + 1] = v[2] /\ x[i + 2] = v[3] /\ x[i + 3] = v[4]
      <4>1. ReadsFour(v, x, i)
        BY <2>2, <3>1, SymbolStands
      <4> QED
        BY <4>1 DEF ReadsFour
    <3>3. CASE StandsAt(u, x, i)
      <4>1. u \in Seq(S) /\ Len(u) = 4
        BY <1>1
      <4>2. x[i] = u[1] /\ x[i + 1] = u[2] /\ x[i + 2] = u[3] /\ x[i + 3] = u[4]
        <5>1. ReadsFour(u, x, i)
          BY <2>2, <3>3, <4>1, SymbolStands
        <5> QED
          BY <5>1 DEF ReadsFour
      <4>3. v = u
        <5>1. \A d \in 1..4 : d = 1 \/ d = 2 \/ d = 3 \/ d = 4
          OBVIOUS
        <5>2. \A d \in 1..4 : v[d] = u[d]
          BY <3>2, <4>2, <5>1
        <5>3. Len(v) = Len(u) /\ \A d \in 1..Len(v) : v[d] = u[d]
          BY <3>1, <4>1, <5>2
        <5> QED
          BY <3>1, <4>1, <5>3, SeqEqual
      <4>4. q.literal = s
        BY <1>1, <4>3 DEF v, s
      <4>5. StandsAt(s, r, j) /\ <<i + 4, j + Len(s)>> \in W
        BY <1>1, <1>6, <2>3, <2>7, <3>3
      <4>6. StandsAt(s, t, o) /\ <<i + 4, o + Len(s)>> \in A
        BY <2>7, <4>4
      <4>7. Same(r, j, t, o, Len(s))
        <5>1. s \in Seq(S)
          BY <1>1
        <5>2. Reads(s, r, j) /\ Reads(s, t, o)
          BY <1>4, <2>2, <4>5, <4>6, <5>1, Standing
        <5>3. \A c \in 1..Len(s) : r[j + c - 1] = s[c]
          BY <5>2 DEF Reads
        <5>4. \A c \in 1..Len(s) : t[o + c - 1] = s[c]
          BY <5>2 DEF Reads
        <5>5. ASSUME NEW d \in 0..(Len(s) - 1) PROVE r[j + d] = t[o + d]
          <6>1. d + 1 \in 1..Len(s) /\ j + (d + 1) - 1 = j + d /\ o + (d + 1) - 1 = o + d
            BY <1>1, <2>2
          <6>2. r[j + (d + 1) - 1] = s[d + 1]
            BY <5>3, <6>1
          <6>3. t[o + (d + 1) - 1] = s[d + 1]
            BY <5>4, <6>1
          <6> QED
            BY <6>1, <6>2, <6>3
        <5> QED
          BY <5>5 DEF Same
      <4>8. both(j, o, Len(s))
        BY <4>5, <4>6, <4>7
      <4> QED
        BY <1>1, <1>12, <4>8
    <3>4. CASE ~ StandsAt(u, x, i)
      <4>1. \A d \in 0..3 : ~ StandsAt(u, x, i + d)
        <5> SUFFICES ASSUME NEW d \in 0..3, StandsAt(u, x, i + d) PROVE FALSE
          OBVIOUS
        <5>1. u \in Seq(S) /\ Len(u) = 4 /\ u[1] = "<"
          BY <1>1
        <5>2. i + d \in Nat \ {0}
          BY <2>2
        <5>3. ReadsFour(u, x, i + d)
          BY <5>1, <5>2, SymbolStands
        <5>4. x[i + d] = "<"
          BY <5>1, <5>3 DEF ReadsFour
        <5>5. d = 0 \/ d = 1 \/ d = 2 \/ d = 3
          OBVIOUS
        <5>6. i + 0 = i
          BY <2>2
        <5> QED
          BY <3>1, <3>2, <3>4, <5>4, <5>5, <5>6
      <4>2. StandsAt(v, r, j) /\ <<i + 4, j + 4>> \in W
        BY <1>4, <1>5, <1>13, <2>2, <3>1, <4>1, PassingSymbol
      <4>3. <<j + 4, o + Len(q.literal)>> \in B
        BY <1>10, <2>7, <4>2
      <4>4. q \in L
        <5>1. q # p
          BY <3>1, <3>4 DEF v, u
        <5> QED
          BY <5>1 DEF L
      <4> QED
        BY <2>7, <4>2, <4>3, <4>4 DEF v
    <3> QED
      BY <3>3, <3>4
  <2>8. CASE \E q \in K : /\ StandsAt(q.symbol, x, i) /\ StandsAt(q.literal, t, o)
                          /\ <<i + 4, o + Len(q.literal)>> \in A
    <3>1. PICK q \in K : /\ StandsAt(q.symbol, x, i) /\ StandsAt(q.literal, t, o)
                         /\ <<i + 4, o + Len(q.literal)>> \in A
      BY <2>8
    <3>2. i <= Len(x)
      BY <1>6, <1>7, <2>2, <3>1
    <3> QED
      BY <2>7, <3>1, <3>2
  <2> QED
    BY <2>4, <2>5, <2>6, <2>8
<1>14. ASSUME NEW j \in 1..(Len(r) + 1), NEW o \in 1..(Len(t) + 1), <<j, o>> \in B
       PROVE  \/ j = Len(r) + 1 /\ o = Len(t) + 1
              \/ j <= Len(r) /\ o <= Len(t) /\ r[j] = t[o] /\ <<j + 1, o + 1>> \in B
              \/ \E q \in L : /\ StandsAt(q.symbol, r, j) /\ StandsAt(q.literal, t, o)
                              /\ <<j + 4, o + Len(q.literal)>> \in B
  <2>1. PICK e \in Nat : both(j, o, e)
    BY <1>8, <1>14
  <2>2. CASE e > 0
    BY <1>12, <2>1, <2>2
  <2>3. CASE e = 0
    <3>1. PICK i : <<i, j + e>> \in W /\ <<i, o + e>> \in A
      BY <2>1
    <3>2. <<i, j>> \in W /\ <<i, o>> \in A
      BY <1>6, <2>3, <3>1
    <3> QED
      BY <1>13, <3>2
  <2> QED
    BY <2>2, <2>3
<1>15. Aligned(r, t, L, B)
    BY <1>9, <1>11, <1>14 DEF Aligned
<1> QED
    BY <1>15 DEF r, s, u, L

\* The texts between one replacement and the next.
Replacements(t, what, by, f) ==
    /\ f[0] = t
    /\ \A k \in 1..Len(what) : f[k] = Replaced(f[k - 1], what[k], by[k])

\* The function that ReplacedAll is written with exists, and ends with the result.
Reached(S, t, what, by) ==
    \E f \in [0..Len(what) -> Seq(S)] :
        Replacements(t, what, by, f) /\ ReplacedAll(t, what, by) = f[Len(what)]

LEMMA ReplacedAllUnfolds ==
    ASSUME NEW S, NEW t \in Seq(S), NEW what, NEW by, Len(what) \in Nat,
           \A k \in 1..Len(what) : what[k] \in Seq(S) /\ what[k] # <<>> /\ by[k] \in Seq(S)
    PROVE  Reached(S, t, what, by)
<1> DEFINE n == Len(what)
           Rest(f, k) == IF k = 0 THEN t ELSE Replaced(f[k - 1], what[k], by[k])
           whole == CHOOSE f : f = [k \in 0..n |-> Rest(f, k)]
           holds(m) == \E g \in [0..n -> Seq(S)] : \A k \in 0..n : k <= m => g[k] = Rest(g, k)
<1>1. n \in Nat
    OBVIOUS
<1>2. \A k \in 1..n : what[k] \in Seq(S) /\ what[k] # <<>> /\ by[k] \in Seq(S)
    OBVIOUS
<1>3. ReplacedAll(t, what, by) = whole[n]
    BY DEF ReplacedAll
<1> HIDE DEF n
<1>4. ASSUME NEW g, NEW k \in 0..n, k > 0 => g[k - 1] \in Seq(S) PROVE Rest(g, k) \in Seq(S)
  <2>1. CASE k > 0
    <3>1. k \in 1..n /\ k # 0
      BY <1>1, <2>1
    <3>2. Replaced(g[k - 1], what[k], by[k]) \in Seq(S)
      BY <1>2, <1>4, <2>1, <3>1, ReplacedWalks
    <3> QED
      BY <3>1, <3>2
  <2>2. CASE k = 0
    BY <2>2
  <2> QED
    BY <1>1, <2>1, <2>2
<1>5. ASSUME NEW g, NEW h, NEW k \in 0..n, k > 0 => g[k - 1] = h[k - 1] PROVE Rest(g, k) = Rest(h, k)
    BY <1>1, <1>5
<1>6. \A g : Rest(g, 0) = t /\ \A k \in 1..n : Rest(g, k) = Replaced(g[k - 1], what[k], by[k])
    BY <1>1
<1> HIDE DEF Rest
<1>7. holds(0)
  <2> DEFINE g == [k \in 0..n |-> t]
  <2>1. \A k \in 0..n : k <= 0 => g[k] = Rest(g, k)
    <3> TAKE k \in 0..n
    <3> HAVE k <= 0
    <3>1. k = 0 /\ g[k] = t
      BY <1>1
    <3> HIDE DEF g
    <3> QED
      BY <1>6, <3>1
  <2> QED
    BY <2>1
<1>8. ASSUME NEW m \in Nat, m < n, holds(m) PROVE holds(m + 1)
  <2>1. PICK g \in [0..n -> Seq(S)] : \A k \in 0..n : k <= m => g[k] = Rest(g, k)
    BY <1>8
  <2>2. m + 1 \in 0..n /\ m \in 0..n /\ (m + 1) - 1 = m
    BY <1>1, <1>8
  <2> DEFINE h == [g EXCEPT ![m + 1] = Rest(g, m + 1)]
  <2>3. Rest(g, m + 1) \in Seq(S)
    BY <1>4, <2>2
  <2>4. h \in [0..n -> Seq(S)]
    BY <2>3
  <2>5. \A k \in 0..n : k # m + 1 => h[k] = g[k]
    OBVIOUS
  <2>6. h[m + 1] = Rest(g, m + 1)
    BY <2>2
  <2> HIDE DEF h
  <2>7. ASSUME NEW k \in 0..n, k <= m + 1 PROVE h[k] = Rest(h, k)
    <3>1. k > 0 => g[k - 1] = h[k - 1]
      <4> HAVE k > 0
      <4>1. k - 1 \in 0..n /\ k - 1 # m + 1
        BY <1>1, <2>7
      <4> QED
        BY <2>5, <4>1
    <3>2. Rest(g, k) = Rest(h, k)
      BY <1>5, <3>1
    <3>3. CASE k = m + 1
      BY <2>6, <3>2, <3>3
    <3>4. CASE k # m + 1
      <4>1. k <= m
        BY <1>1, <2>7, <3>4
      <4> QED
        BY <2>1, <2>5, <3>2, <3>4, <4>1
    <3> QED
      BY <3>3, <3>4
  <2> QED
    BY <2>4, <2>7
<1>9. holds(n)
  <2> HIDE DEF holds
  <2> DEFINE T == {m \in Nat : holds(m)}
  <2>1. 0 \in T /\ T \in SUBSET Nat
    BY <1>7
  <2>2. \A m \in T : m < n => m + 1 \in T
    BY <1>8
  <2>3. \A m \in T : holds(m)
    OBVIOUS
  <2> HIDE DEF T
  <2>4. n \in 0..n
    BY <1>1
  <2> QED
    BY <1>1, <2>1, <2>2, <2>3, <2>4, UpTo
<1>10. whole = [k \in 0..n |-> Rest(whole, k)]
  <2>1. PICK g \in [0..n -> Seq(S)] : \A k \in 0..n : k <= n => g[k] = Rest(g, k)
    BY <1>9
  <2>2. \A k \in 0..n : k <= n
    BY <1>1
  <2>3. g = [k \in 0..n |-> Rest(g, k)]
    BY <2>1, <2>2
  <2> QED
    BY <2>3
<1> HIDE DEF whole
<1>11. \A k \in 0..n : whole[k] = Rest(whole, k)
    BY <1>10
<1>12. \A k \in 0..n : whole[k] \in Seq(S)
  <2> DEFINE T == {m \in Nat : m <= n => whole[m] \in Seq(S)}
  <2>1. 0 \in T /\ T \in SUBSET Nat
    <3>1. 0 \in 0..n
      BY <1>1
    <3>2. whole[0] = t
      BY <1>6, <1>11, <3>1
    <3> QED
      BY <3>2
  <2>2. \A m \in T : m < n => m + 1 \in T
    <3> SUFFICES ASSUME NEW m \in T, m < n PROVE m + 1 \in T
      OBVIOUS
    <3>1. m + 1 \in 0..n /\ m \in Nat /\ m + 1 \in Nat /\ (m + 1) - 1 = m /\ whole[m] \in Seq(S)
      BY <1>1
    <3>2. Rest(whole, m + 1) \in Seq(S)
      BY <1>4, <3>1
    <3>3. whole[m + 1] \in Seq(S)
      BY <1>11, <3>1, <3>2
    <3> QED
      BY <3>1, <3>3
  <2>3. \A m \in T : m <= n => whole[m] \in Seq(S)
    OBVIOUS
  <2> HIDE DEF T
  <2>4. \A k \in 0..n : k \in T
    BY <1>1, <2>1, <2>2, UpTo
  <2> QED
    BY <1>1, <2>3, <2>4
<1>13. whole \in [0..n -> Seq(S)]
  <2>1. whole = [k \in 0..n |-> whole[k]]
    BY <1>10
  <2> QED
    BY <1>12, <2>1
<1>14. whole[0] = t
  <2>1. 0 \in 0..n
    BY <1>1
  <2> QED
    BY <1>6, <1>11, <2>1
<1>15. \A k \in 1..n : whole[k] = Replaced(whole[k - 1], what[k], by[k])
  <2>1. \A k \in 1..n : k \in 0..n
    BY <1>1
  <2> QED
    BY <1>6, <1>11, <2>1
<1>16. Replacements(t, what, by, whole)
    BY <1>14, <1>15 DEF Replacements, n
<1> QED
    BY <1>3, <1>13, <1>16 DEF n, Reached

\* The order holds the pairs that were chosen, at most n.
Ordered(order, pairs, n, chosen) ==
    /\ Len(order) \in Nat /\ Len(order) <= n
    /\ \A k \in 1..Len(order) : \E m \in chosen : order[k] = pairs[m]

\* The pairs put in order are those that were chosen.
LEMMA ChosenOnly ==
    ASSUME NEW pairs, NEW n \in Nat, NEW chosen \in SUBSET (1..n),
           \A m \in 1..n : Len(pairs[m].literal) \in Nat
    PROVE  Ordered(LongestFirst(pairs, chosen), pairs, n, chosen)
<1> DEFINE size(m) == Len(pairs[m].literal)
           upTo(m) == {l \in chosen : \/ size(l) > size(m)
                                      \/ size(l) = size(m) /\ l <= m}
           rank(m) == Cardinality(upTo(m))
           c == Cardinality(chosen)
           order == LongestFirst(pairs, chosen)
<1>1. IsFiniteSet(chosen) /\ c \in Nat /\ c <= n
  <2>1. IsFiniteSet(1..n) /\ Cardinality(1..n) = n
    BY FS_Interval
  <2> QED
    BY <2>1, FS_Subset, FS_CardinalityType
<1>2. \A m \in chosen : size(m) \in Nat /\ m \in Nat
    OBVIOUS
<1>3. order = [k \in 1..c |-> pairs[CHOOSE m \in chosen : rank(m) = k]]
    BY DEF LongestFirst
<1> HIDE DEF size, order, c
<1>4. \A m \in chosen : IsFiniteSet(upTo(m)) /\ rank(m) \in 1..c
  <2> TAKE m \in chosen
  <2>1. upTo(m) \in SUBSET chosen /\ m \in upTo(m)
    BY <1>2
  <2> HIDE DEF upTo
  <2>2. IsFiniteSet(upTo(m)) /\ Cardinality(upTo(m)) \in Nat /\ Cardinality(upTo(m)) <= c
    BY <1>1, <2>1, FS_Subset, FS_CardinalityType DEF c
  <2>3. Cardinality(upTo(m)) # 0
    BY <2>1, <2>2, FS_EmptySet
  <2> QED
    BY <1>1, <2>2, <2>3
<1>5. \A l, m \in chosen : rank(l) = rank(m) => l = m
  <2>1. ASSUME NEW l \in chosen, NEW m \in chosen, size(l) > size(m) \/ (size(l) = size(m) /\ l < m)
        PROVE  rank(l) # rank(m)
    <3>1. m \in upTo(m) /\ m \notin upTo(l)
      BY <1>2, <2>1
    <3>2. ASSUME NEW k \in upTo(l) PROVE k \in upTo(m)
      <4>1. k \in chosen /\ (size(k) > size(l) \/ (size(k) = size(l) /\ k <= l))
        OBVIOUS
      <4>2. /\ size(k) \in Nat /\ size(l) \in Nat /\ size(m) \in Nat
            /\ k \in Nat /\ l \in Nat /\ m \in Nat
        BY <1>2, <4>1
      <4>3. size(k) > size(m) \/ (size(k) = size(m) /\ k <= m)
        BY <2>1, <4>1, <4>2
      <4> QED
        BY <4>1, <4>3
    <3>3. IsFiniteSet(upTo(m))
      BY <1>4
    <3> HIDE DEF upTo
    <3>4. Cardinality(upTo(l)) # Cardinality(upTo(m))
      <4>1. upTo(l) \in SUBSET upTo(m)
        BY <3>2
      <4> QED
        BY <3>1, <3>3, <4>1, FS_Subset
    <3> QED
      BY <3>4
  <2> HIDE DEF rank
  <2> SUFFICES ASSUME NEW l \in chosen, NEW m \in chosen, rank(l) = rank(m), l # m PROVE FALSE
    OBVIOUS
  <2>2. \/ size(l) > size(m) \/ (size(l) = size(m) /\ l < m)
        \/ size(m) > size(l) \/ (size(m) = size(l) /\ m < l)
    BY <1>2
  <2> QED
    BY <2>1, <2>2
<1> HIDE DEF rank
<1> DEFINE f == [m \in chosen |-> rank(m)]
<1>6. f \in Injection(chosen, 1..c)
    BY <1>4, <1>5 DEF Injection, IsInjective
<1>7. f \in Surjection(chosen, 1..c)
  <2> HIDE DEF f
  <2>1. IsFiniteSet(1..c) /\ Cardinality(1..c) = c
    BY <1>1, FS_Interval
  <2>2. Cardinality(chosen) = Cardinality(1..c)
    BY <2>1 DEF c
  <2> QED
    BY <1>6, <2>1, <2>2, FS_Injection
<1>8. \A k \in 1..c : \E m \in chosen : rank(m) = k
    BY <1>7 DEF Surjection
<1>9. Len(order) = c
    BY <1>1, <1>3
<1>10. ASSUME NEW k \in 1..c PROVE \E m \in 1..n : m \in chosen /\ order[k] = pairs[m]
  <2> DEFINE m == CHOOSE l \in chosen : rank(l) = k
  <2>1. m \in chosen
    BY <1>8
  <2>2. order[k] = pairs[m]
    BY <1>3
  <2> QED
    BY <2>1, <2>2
<1>11. Ordered(order, pairs, n, chosen)
    BY <1>1, <1>9, <1>10 DEF Ordered
<1> QED
    BY <1>11 DEF order

\* A table the code builds: every symbol is one of a prefix and a count, none is given
\* twice, and no literal is empty.
Table(table, prefixes) ==
    /\ Len(table) \in Nat /\ table \in Seq([symbol : Seq(Pieces), literal : Seq(Pieces)])
    /\ \A k \in 1..Len(table) :
         /\ \E p \in prefixes, c \in 1..Len(Numerals) : table[k].symbol = Symbol(p, c)
         /\ table[k].literal \in Seq(Pieces) /\ table[k].literal # <<>>
    /\ \A j, k \in 1..Len(table) : table[j].symbol = table[k].symbol => j = k

\* A symbol is a prefix and a numeral between brackets, neither of them a bracket.
LEMMA SymbolShape ==
    ASSUME NEW p \in Prefixes, NEW c \in 1..Len(Numerals), NEW u, u = Symbol(p, c)
    PROVE  /\ u \in Seq(Pieces) /\ Len(u) = 4
           /\ u[1] = "<" /\ u[4] = ">" /\ u[2] \notin Brackets /\ u[3] \notin Brackets
<1>1. p \in Pieces \ Brackets
  <2>1. CASE p = "CTX"
    BY <2>1, TargetsAssumption DEF Brackets
  <2>2. CASE p # "CTX"
    <3>1. PICK n \in 1..Len(Targets) : p = Targets[n].prefix
      BY <2>2 DEF Prefixes
    <3>2. Targets[n] \in [prefix  : Pieces \ (Brackets \cup {"CTX"}), literal : Seq(Pieces) \ {<<>>}]
      BY <3>1, TargetsAssumption, ElementOfSeq
    <3> QED
      BY <3>1, <3>2
  <2> QED
    BY <2>1, <2>2
<1>2. Numerals[c] \in Pieces \ Brackets
    BY NumeralsAssumption, ElementOfSeq
<1>3. "<" \in Pieces /\ ">" \in Pieces
    BY TargetsAssumption DEF Brackets
<1>4. u = <<"<", p, Numerals[c], ">">>
    BY DEF Symbol
<1> QED
    BY <1>1, <1>2, <1>3, <1>4

\* Two symbols are the same only with the same prefix and the same count.
LEMMA SymbolsDiffer ==
    ASSUME NEW p, NEW q, NEW m \in 1..Len(Numerals), NEW n \in 1..Len(Numerals), Symbol(p, m) = Symbol(q, n)
    PROVE  p = q /\ m = n
<1>1. p = q /\ Numerals[m] = Numerals[n]
    BY DEF Symbol
<1> QED
    BY <1>1, NumeralsAssumption

\* Numbers per prefix are given once.
LEMMA NumberedTable ==
    ASSUME NEW pairs, Len(pairs) \in Nat, Len(pairs) <= Len(Numerals),
           NEW prefixes \in SUBSET Prefixes,
           \A k \in 1..Len(pairs) : /\ pairs[k].prefix \in prefixes
                                    /\ pairs[k].literal \in Seq(Pieces) /\ pairs[k].literal # <<>>
    PROVE  Table(Numbered(pairs), prefixes)
<1> DEFINE n == Len(pairs)
           alike(k) == {j \in 1..k : pairs[j].prefix = pairs[k].prefix}
           count(k) == Cardinality(alike(k))
           table == Numbered(pairs)
<1>1. n \in Nat /\ n <= Len(Numerals) /\ Len(Numerals) \in Nat
    BY NumeralsAssumption, LenProperties
<1>2. table = [k \in 1..n |-> [symbol |-> Symbol(pairs[k].prefix, count(k)), literal |-> pairs[k].literal]]
    BY DEF Numbered
<1>3. \A k \in 1..n : IsFiniteSet(alike(k)) /\ count(k) \in 1..k
  <2> TAKE k \in 1..n
  <2>1. alike(k) \in SUBSET (1..k) /\ k \in alike(k)
    BY <1>1
  <2>2. IsFiniteSet(1..k) /\ Cardinality(1..k) = k
    BY <1>1, FS_Interval
  <2> HIDE DEF alike
  <2>3. IsFiniteSet(alike(k)) /\ Cardinality(alike(k)) \in Nat /\ Cardinality(alike(k)) <= k
    BY <2>1, <2>2, FS_Subset, FS_CardinalityType
  <2>4. Cardinality(alike(k)) # 0
    BY <2>1, <2>3, FS_EmptySet
  <2> QED
    BY <1>1, <2>3, <2>4
<1>4. ASSUME NEW j \in 1..n, NEW k \in 1..n, j < k, pairs[j].prefix = pairs[k].prefix
      PROVE  count(j) # count(k)
  <2>1. alike(j) \in SUBSET alike(k) /\ k \in alike(k) /\ k \notin alike(j)
    BY <1>1, <1>4
  <2>2. IsFiniteSet(alike(k))
    BY <1>3
  <2> HIDE DEF alike
  <2>3. Cardinality(alike(j)) # Cardinality(alike(k))
    BY <2>1, <2>2, FS_Subset
  <2> QED
    BY <2>3
<1>5. \A k \in 1..n : pairs[k].prefix \in prefixes /\ pairs[k].literal \in Seq(Pieces) /\ pairs[k].literal # <<>>
    OBVIOUS
<1> HIDE DEF count, table, n
<1>6. Len(table) = n
    BY <1>1, <1>2
<1>7. \A k \in 1..n : /\ table[k].symbol = Symbol(pairs[k].prefix, count(k))
                      /\ table[k].literal = pairs[k].literal
                      /\ count(k) \in 1..Len(Numerals)
  <2>1. \A k \in 1..n : count(k) \in 1..Len(Numerals)
    <3> TAKE k \in 1..n
    <3>1. count(k) \in 1..k /\ k \in 1..n
      BY <1>3
    <3> QED
      BY <1>1, <3>1
  <2> QED
    BY <1>2, <2>1
<1>8. ASSUME NEW j \in 1..n, NEW k \in 1..n, table[j].symbol = table[k].symbol PROVE j = k
  <2>1. Symbol(pairs[j].prefix, count(j)) = Symbol(pairs[k].prefix, count(k))
    BY <1>7, <1>8
  <2>2. pairs[j].prefix = pairs[k].prefix /\ count(j) = count(k)
    <3>1. count(j) \in 1..Len(Numerals) /\ count(k) \in 1..Len(Numerals)
      BY <1>7
    <3> QED
      BY <2>1, <3>1, SymbolsDiffer
  <2> QED
    BY <1>1, <1>4, <2>2
<1>9. \A k \in 1..n : \E p \in prefixes, c \in 1..Len(Numerals) : table[k].symbol = Symbol(p, c)
    BY <1>5, <1>7
<1>10. \A k \in 1..n : table[k].literal \in Seq(Pieces) /\ table[k].literal # <<>>
    BY <1>5, <1>7
<1>11. table \in Seq([symbol : Seq(Pieces), literal : Seq(Pieces)])
  <2> DEFINE row(k) == [symbol |-> Symbol(pairs[k].prefix, count(k)), literal |-> pairs[k].literal]
             R == [symbol : Seq(Pieces), literal : Seq(Pieces)]
  <2>1. \A k \in 1..n : row(k) \in R
    BY <1>5, <1>7, SymbolShape
  <2>2. table = [k \in 1..n |-> row(k)]
    BY <1>2
  <2> HIDE DEF row, R
  <2>3. table \in [1..n -> R]
    BY <2>1, <2>2
  <2>4. table \in Seq(R)
    BY <1>1, <2>3, SeqDef
  <2> QED
    BY <2>4 DEF R
<1>12. Table(table, prefixes)
    BY <1>1, <1>6, <1>8, <1>9, <1>10, <1>11 DEF Table
<1> QED
    BY <1>12 DEF table

\* The prefixes of pseudonyms.json.
Own == {Targets[n].prefix : n \in 1..Len(Targets)}

\* The table of apply, and what apply_conservative adds to it.
LEMMA AssignedTable == ASSUME NEW texts PROVE Table(Assigned(texts), Own)
<1> DEFINE chosen == {n \in 1..Len(Targets) :
                        /\ Targets[n].literal \notin Technical
                        /\ \E i \in 1..Len(texts) : Occurs(Targets[n].literal, texts[i])
                        /\ \A m \in 1..(n - 1) : Targets[m].literal # Targets[n].literal}
           order == LongestFirst(Targets, chosen)
<1>1. Len(Targets) \in Nat /\ Len(Targets) <= Len(Numerals) /\ Len(Numerals) \in Nat
    BY TargetsAssumption, NumeralsAssumption, LenProperties
<1>2. \A n \in 1..Len(Targets) : Targets[n].literal \in Seq(Pieces) /\ Targets[n].literal # <<>>
  <2> TAKE n \in 1..Len(Targets)
  <2>1. Targets[n] \in [prefix  : Pieces \ (Brackets \cup {"CTX"}), literal : Seq(Pieces) \ {<<>>}]
    BY TargetsAssumption, ElementOfSeq
  <2> QED
    BY <2>1
<1>3. \A n \in 1..Len(Targets) : Len(Targets[n].literal) \in Nat
    BY <1>2, LenProperties
<1>4. chosen \in SUBSET (1..Len(Targets))
    OBVIOUS
<1>5. Assigned(texts) = Numbered(order)
    BY DEF Assigned
<1> HIDE DEF chosen
<1>6. Ordered(order, Targets, Len(Targets), chosen)
  <2> DEFINE N == Len(Targets)
  <2>1. N \in Nat
    BY <1>1
  <2>2. chosen \in SUBSET (1..N)
    BY <1>4
  <2>3. \A m \in 1..N : Len(Targets[m].literal) \in Nat
    BY <1>3
  <2> HIDE DEF N
  <2>4. Ordered(LongestFirst(Targets, chosen), Targets, N, chosen)
    BY <2>1, <2>2, <2>3, ChosenOnly
  <2> QED
    BY <2>4 DEF N
<1> HIDE DEF order
<1>7. Len(order) \in Nat /\ Len(order) <= Len(Numerals)
    BY <1>1, <1>6 DEF Ordered
<1>8. \A k \in 1..Len(order) : /\ order[k].prefix \in Own
                               /\ order[k].literal \in Seq(Pieces) /\ order[k].literal # <<>>
    BY <1>2, <1>4, <1>6 DEF Own, Ordered
<1>9. Own \in SUBSET Prefixes
    BY DEF Own, Prefixes
<1>10. Table(Numbered(order), Own)
    BY <1>7, <1>8, <1>9, NumberedTable
<1> QED
    BY <1>5, <1>10

\* The spans have a prefix of their own, so that a symbol apply_conservative gives is
\* none that apply gave (merge_mappings).
LEMMA AddedTable ==
    ASSUME NEW base, NEW spans \in Spans, Table(base.table, Own)
    PROVE  \E more : /\ Table(more, {"CTX"})
                     /\ Table(base.table \o more, Prefixes)
                     /\ Conservative(base, spans) =
                          [texts |-> [i \in 1..Len(base.texts) |-> Masked(base.texts[i], more)],
                           table |-> base.table \o more]
<1> DEFINE valid == {n \in 1..Len(spans) : /\ ValidSpan(spans[n], base.texts)
                                           /\ \A m \in 1..(n - 1) : spans[m] # spans[n]}
           taken == {n \in valid : Cardinality({m \in valid : m < n}) < MaxSpans}
           pairs == [n \in 1..Len(spans) |-> [prefix |-> "CTX", literal |-> spans[n]]]
           order == LongestFirst(pairs, taken)
           more == Numbered(order)
<1>1. /\ spans \in Seq(Seq(Pieces)) /\ Len(spans) \in Nat /\ Len(spans) <= Len(Numerals)
      /\ Len(Numerals) \in Nat
    BY TextsAssumption, NumeralsAssumption, LenProperties
<1>2. \A n \in 1..Len(spans) : pairs[n].prefix = "CTX" /\ pairs[n].literal = spans[n]
                               /\ spans[n] \in Seq(Pieces) /\ Len(spans[n]) \in Nat
  <2> TAKE n \in 1..Len(spans)
  <2>1. spans[n] \in Seq(Pieces)
    BY <1>1, ElementOfSeq
  <2> QED
    BY <2>1, LenProperties
<1>3. taken \in SUBSET (1..Len(spans)) /\ \A n \in taken : spans[n] # <<>>
    BY DEF ValidSpan
<1>4. Conservative(base, spans) =
        [texts |-> [i \in 1..Len(base.texts) |-> Masked(base.texts[i], more)],
         table |-> base.table \o more]
    BY DEF Conservative
<1> HIDE DEF taken, pairs
<1>5. Ordered(order, pairs, Len(spans), taken)
  <2> DEFINE N == Len(spans)
  <2>1. N \in Nat
    BY <1>1
  <2>2. taken \in SUBSET (1..N)
    BY <1>3
  <2>3. \A m \in 1..N : Len(pairs[m].literal) \in Nat
    BY <1>2
  <2> HIDE DEF N
  <2>4. Ordered(LongestFirst(pairs, taken), pairs, N, taken)
    BY <2>1, <2>2, <2>3, ChosenOnly
  <2> QED
    BY <2>4 DEF N
<1> HIDE DEF order
<1>6. Len(order) \in Nat /\ Len(order) <= Len(Numerals)
    BY <1>1, <1>5 DEF Ordered
<1>7. \A k \in 1..Len(order) : /\ order[k].prefix \in {"CTX"}
                               /\ order[k].literal \in Seq(Pieces) /\ order[k].literal # <<>>
  <2> TAKE k \in 1..Len(order)
  <2>1. PICK m \in taken : order[k] = pairs[m]
    BY <1>5 DEF Ordered
  <2>2. m \in 1..Len(spans) /\ spans[m] # <<>>
    BY <1>3
  <2>3. pairs[m].prefix = "CTX" /\ pairs[m].literal = spans[m] /\ spans[m] \in Seq(Pieces)
    BY <1>2, <2>2
  <2> QED
    BY <2>1, <2>2, <2>3
<1>8. Table(more, {"CTX"})
  <2>1. {"CTX"} \in SUBSET Prefixes
    BY DEF Prefixes
  <2> QED
    BY <1>6, <1>7, <2>1, NumberedTable
<1> HIDE DEF more
<1>9. Table(base.table \o more, Prefixes)
  <2> DEFINE a == base.table
             b == a \o more
  <2>1. Len(a) \in Nat /\ Len(more) \in Nat
    BY <1>8 DEF Table
  <2>2. /\ Len(b) = Len(a) + Len(more)
        /\ \A k \in 1..Len(a) : b[k] = a[k]
        /\ \A k \in 1..Len(more) : b[Len(a) + k] = more[k]
    BY <2>1
  <2>3. \A k \in 1..Len(b) : \/ k \in 1..Len(a)
                             \/ k > Len(a) /\ k - Len(a) \in 1..Len(more) /\ Len(a) + (k - Len(a)) = k
    BY <2>1, <2>2
  <2> HIDE DEF b
  <2>4. "CTX" \notin Own /\ Own \subseteq Prefixes /\ "CTX" \in Prefixes
    <3>1. \A n \in 1..Len(Targets) : Targets[n].prefix # "CTX"
      <4> TAKE n \in 1..Len(Targets)
      <4>1. Targets[n] \in [prefix  : Pieces \ (Brackets \cup {"CTX"}), literal : Seq(Pieces) \ {<<>>}]
        BY TargetsAssumption, ElementOfSeq
      <4> QED
        BY <4>1
    <3> QED
      BY <3>1 DEF Own, Prefixes
  <2>5. /\ \A k \in 1..Len(a) : \E p \in Own, c \in 1..Len(Numerals) : a[k].symbol = Symbol(p, c)
        /\ \A k \in 1..Len(a) : a[k].literal \in Seq(Pieces) /\ a[k].literal # <<>>
        /\ \A j, k \in 1..Len(a) : a[j].symbol = a[k].symbol => j = k
    BY DEF Table
  <2>6. /\ \A k \in 1..Len(more) : \E c \in 1..Len(Numerals) : more[k].symbol = Symbol("CTX", c)
        /\ \A k \in 1..Len(more) : more[k].literal \in Seq(Pieces) /\ more[k].literal # <<>>
        /\ \A j, k \in 1..Len(more) : more[j].symbol = more[k].symbol => j = k
    BY <1>8 DEF Table
  <2> HIDE DEF a
  <2>7. \A j \in 1..Len(a), k \in 1..Len(more) : a[j].symbol # more[k].symbol
    BY <2>4, <2>5, <2>6, SymbolsDiffer
  <2>8. ASSUME NEW k \in 1..Len(b)
        PROVE  /\ \E p \in Prefixes, c \in 1..Len(Numerals) : b[k].symbol = Symbol(p, c)
               /\ b[k].literal \in Seq(Pieces) /\ b[k].literal # <<>>
    <3>1. CASE k \in 1..Len(a)
      BY <2>2, <2>4, <2>5, <3>1
    <3>2. CASE k > Len(a)
      <4>1. k - Len(a) \in 1..Len(more) /\ b[k] = more[k - Len(a)]
        BY <2>1, <2>2, <2>3, <3>2
      <4> QED
        BY <2>4, <2>6, <4>1
    <3> QED
      BY <2>3, <3>1, <3>2
  <2>9. ASSUME NEW j \in 1..Len(b), NEW k \in 1..Len(b), b[j].symbol = b[k].symbol PROVE j = k
    <3>1. \A l \in 1..Len(b) : \/ l \in 1..Len(a) /\ b[l] = a[l]
                               \/ l > Len(a) /\ l - Len(a) \in 1..Len(more) /\ b[l] = more[l - Len(a)]
      BY <2>2, <2>3
    <3>2. CASE j \in 1..Len(a) /\ k \in 1..Len(a)
      BY <2>2, <2>5, <2>9, <3>2
    <3>3. CASE j > Len(a) /\ k > Len(a)
      <4>1. /\ j - Len(a) \in 1..Len(more) /\ k - Len(a) \in 1..Len(more)
            /\ b[j] = more[j - Len(a)] /\ b[k] = more[k - Len(a)]
        BY <2>1, <3>1, <3>3
      <4>2. j - Len(a) = k - Len(a)
        BY <2>6, <2>9, <4>1
      <4> QED
        BY <2>1, <4>2
    <3>4. CASE j \in 1..Len(a) /\ k > Len(a)
      <4>1. b[j] = a[j] /\ k - Len(a) \in 1..Len(more) /\ b[k] = more[k - Len(a)]
        BY <2>1, <3>1, <3>4
      <4> QED
        BY <2>7, <2>9, <3>4, <4>1
    <3>5. CASE j > Len(a) /\ k \in 1..Len(a)
      <4>1. b[k] = a[k] /\ j - Len(a) \in 1..Len(more) /\ b[j] = more[j - Len(a)]
        BY <2>1, <3>1, <3>5
      <4> QED
        BY <2>7, <2>9, <3>5, <4>1
    <3> QED
      BY <3>1, <3>2, <3>3, <3>4, <3>5
  <2>10. Len(b) \in Nat /\ b \in Seq([symbol : Seq(Pieces), literal : Seq(Pieces)])
    BY <1>8, <2>1, <2>2 DEF Table, a, b
  <2>11. Table(b, Prefixes)
    BY <2>8, <2>9, <2>10 DEF Table
  <2> QED
    BY <2>11 DEF a, b
<1> QED
    BY <1>4, <1>8, <1>9

\* The first rows of a table, and the others.
Rows(table, n) == {table[k] : k \in 1..n}
Others(table, n) == {table[k] : k \in (n + 1)..Len(table)}

\* Some alignment reads the one text as the other, with the rows of K replaced.
ReadAs(x, t, K) == \E A : Aligned(x, t, K, A)

\* Fewer rows fit as well, and a text reads as itself.
LEMMA FitSub == ASSUME NEW S, NEW L, Fit(S, L), NEW K \in SUBSET L PROVE Fit(S, K)
BY DEF Fit

LEMMA ReadAsItIs == ASSUME NEW S, NEW t \in Seq(S) PROVE ReadAs(t, t, {})
<1> DEFINE A == {<<i, i>> : i \in 1..(Len(t) + 1)}
<1>1. Len(t) \in Nat
    BY LenProperties
<1>2. \A i, j : <<i, j>> \in A <=> i \in 1..(Len(t) + 1) /\ i = j
    OBVIOUS
<1>3. A \subseteq (1..(Len(t) + 1)) \X (1..(Len(t) + 1))
    OBVIOUS
<1> HIDE DEF A
<1>4. <<1, 1>> \in A
    BY <1>1, <1>2
<1>5. ASSUME NEW i \in 1..(Len(t) + 1), NEW j \in 1..(Len(t) + 1), <<i, j>> \in A
      PROVE  \/ i = Len(t) + 1 /\ j = Len(t) + 1
             \/ i <= Len(t) /\ j <= Len(t) /\ t[i] = t[j] /\ <<i + 1, j + 1>> \in A
    BY <1>1, <1>2, <1>5
<1>6. Aligned(t, t, {}, A)
    BY <1>3, <1>4, <1>5 DEF Aligned
<1> QED
    BY <1>6 DEF ReadAs

\* A text masked with a table still reads as its original.
LEMMA MaskedReadAs ==
    ASSUME NEW S, NEW x \in Seq(S), NEW t \in Seq(S), NEW K, ReadAs(x, t, K),
           NEW table, Len(table) \in Nat, Fit(S, K \cup Rows(table, Len(table)))
    PROVE  Masked(x, table) \in Seq(S) /\ ReadAs(Masked(x, table), t, K \cup Rows(table, Len(table)))
<1> DEFINE n == Len(table)
           what == [k \in 1..n |-> table[k].literal]
           by == [k \in 1..n |-> table[k].symbol]
           all == K \cup Rows(table, n)
<1>1. n \in Nat
    OBVIOUS
<1>2. Len(what) = n /\ \A k \in 1..n : what[k] = table[k].literal /\ by[k] = table[k].symbol
    BY <1>1
<1>3. Fit(S, all)
    OBVIOUS
<1>4. \A k \in 1..n : table[k] \in all
    BY DEF Rows
<1>5. Masked(x, table) = ReplacedAll(x, what, by)
    BY DEF Masked
<1> HIDE DEF n, what, by, all
<1>6. \A k \in 1..n : what[k] \in Seq(S) /\ what[k] # <<>> /\ by[k] \in Seq(S)
  <2> TAKE k \in 1..n
  <2>1. table[k] \in all /\ what[k] \in {table[k].literal, table[k].symbol}
        /\ by[k] \in {table[k].literal, table[k].symbol}
    BY <1>2, <1>4
  <2>2. /\ table[k].symbol \in Seq(S) /\ Len(table[k].symbol) > 0
        /\ table[k].literal \in Seq(S) /\ Len(table[k].literal) > 0
    BY <1>3, <2>1 DEF Fit
  <2>3. Len(<<>>) = 0
    OBVIOUS
  <2> QED
    BY <2>1, <2>2, <2>3
<1>7. PICK f \in [0..n -> Seq(S)] : Replacements(x, what, by, f) /\ ReplacedAll(x, what, by) = f[n]
  <2>1. Len(what) = n
    BY <1>2
  <2>2. Len(what) \in Nat
    BY <1>1, <2>1
  <2>3. \A k \in 1..Len(what) : what[k] \in Seq(S) /\ what[k] # <<>> /\ by[k] \in Seq(S)
    BY <1>6, <2>1
  <2>4. Reached(S, x, what, by)
    BY <2>2, <2>3, ReplacedAllUnfolds
  <2> QED
    BY <2>1, <2>4 DEF Reached
<1> DEFINE T == {k \in 0..n : ReadAs(f[k], t, K \cup Rows(table, k))}
<1>8. 0 \in T
  <2>1. f[0] = x
    BY <1>7 DEF Replacements
  <2>2. K \cup Rows(table, 0) = K
    BY DEF Rows
  <2> QED
    BY <1>1, <2>1, <2>2
<1>9. ASSUME NEW d \in T, d < n PROVE d + 1 \in T
  <2>1. d \in 0..n /\ d + 1 \in 1..n /\ d + 1 \in 0..n /\ (d + 1) - 1 = d
    BY <1>1, <1>9
  <2> DEFINE p == table[d + 1]
             y == f[d]
             z == f[d + 1]
             L == K \cup Rows(table, d)
  <2>2. PICK A : Aligned(y, t, L, A)
    BY <1>9 DEF ReadAs
  <2>3. z = Replaced(y, p.literal, p.symbol)
    <3>1. f[d + 1] = Replaced(f[(d + 1) - 1], what[d + 1], by[d + 1])
      BY <1>2, <1>7, <2>1 DEF Replacements
    <3> QED
      BY <1>2, <2>1, <3>1
  <2>4. L \cup {p} = K \cup Rows(table, d + 1)
    BY <2>1 DEF Rows
  <2>5. K \cup Rows(table, d + 1) \in SUBSET all
    BY <1>1, <2>1 DEF Rows, all, n
  <2>6. y \in Seq(S)
    BY <2>1
  <2> HIDE DEF p, y, z, L
  <2>7. Fit(S, L \cup {p})
    BY <1>3, <2>4, <2>5, FitSub
  <2>8. \E B : Aligned(Replaced(y, p.literal, p.symbol), t, L \cup {p}, B)
    BY <2>2, <2>6, <2>7, MaskStep
  <2>9. ReadAs(z, t, K \cup Rows(table, d + 1))
    BY <2>3, <2>4, <2>8 DEF ReadAs
  <2> QED
    BY <2>1, <2>9 DEF z
<1>10. n \in T
  <2>1. T \in SUBSET Nat /\ n \in 0..n
    BY <1>1
  <2> HIDE DEF T
  <2>2. \A d \in T : d < n => d + 1 \in T
    BY <1>9
  <2>3. \A d \in 0..n : d \in T
    BY <1>1, <1>8, <2>1, <2>2, UpTo
  <2> QED
    BY <2>1, <2>3
<1>11. f[n] \in Seq(S)
    BY <1>1
<1> QED
    BY <1>5, <1>7, <1>10, <1>11 DEF n, all

\* Row after row is read back, until no symbol is left in the alignment: then the text
\* is the original.
LEMMA RehydratedReadAs ==
    ASSUME NEW S, NEW x \in Seq(S), NEW t \in Seq(S), NEW table, Len(table) \in Nat,
           ReadAs(x, t, Rows(table, Len(table))), Fit(S, Rows(table, Len(table))),
           \A j, k \in 1..Len(table) : table[j].symbol = table[k].symbol => j = k,
           \A k \in 1..Len(table) : ~ Occurs(table[k].symbol, t)
    PROVE  Rehydrated(x, table) = t
<1> DEFINE n == Len(table)
           what == [k \in 1..n |-> table[k].symbol]
           by == [k \in 1..n |-> table[k].literal]
           all == Rows(table, n)
<1>1. n \in Nat
    OBVIOUS
<1>2. Len(what) = n /\ \A k \in 1..n : what[k] = table[k].symbol /\ by[k] = table[k].literal
    BY <1>1
<1>3. Fit(S, all)
    OBVIOUS
<1>4. \A k \in 1..n : table[k] \in all
    BY DEF Rows
<1>5. Rehydrated(x, table) = ReplacedAll(x, what, by)
    BY DEF Rehydrated
<1>6. /\ \A j, k \in 1..n : table[j] = table[k] => j = k
      /\ \A k \in 1..n : ~ Occurs(table[k].symbol, t)
    OBVIOUS
<1> HIDE DEF n, what, by, all
<1>7. \A k \in 1..n : what[k] \in Seq(S) /\ what[k] # <<>> /\ by[k] \in Seq(S)
  <2> TAKE k \in 1..n
  <2>1. table[k] \in all /\ what[k] \in {table[k].literal, table[k].symbol}
        /\ by[k] \in {table[k].literal, table[k].symbol}
    BY <1>2, <1>4
  <2>2. /\ table[k].symbol \in Seq(S) /\ Len(table[k].symbol) > 0
        /\ table[k].literal \in Seq(S) /\ Len(table[k].literal) > 0
    BY <1>3, <2>1 DEF Fit
  <2>3. Len(<<>>) = 0
    OBVIOUS
  <2> QED
    BY <2>1, <2>2, <2>3
<1>8. PICK f \in [0..n -> Seq(S)] : Replacements(x, what, by, f) /\ ReplacedAll(x, what, by) = f[n]
  <2>1. Len(what) = n
    BY <1>2
  <2>2. Len(what) \in Nat
    BY <1>1, <2>1
  <2>3. \A k \in 1..Len(what) : what[k] \in Seq(S) /\ what[k] # <<>> /\ by[k] \in Seq(S)
    BY <1>7, <2>1
  <2>4. Reached(S, x, what, by)
    BY <2>2, <2>3, ReplacedAllUnfolds
  <2> QED
    BY <2>1, <2>4 DEF Reached
<1> DEFINE T == {k \in 0..n : ReadAs(f[k], t, Others(table, k))}
<1>9. 0 \in T
  <2>1. f[0] = x
    BY <1>8 DEF Replacements
  <2>2. Others(table, 0) = Rows(table, Len(table))
    BY DEF Rows, Others
  <2> QED
    BY <1>1, <2>1, <2>2
<1>10. ASSUME NEW d \in T, d < n PROVE d + 1 \in T
  <2>1. d \in 0..n /\ d + 1 \in 1..n /\ d + 1 \in 0..n /\ (d + 1) - 1 = d /\ d \in Nat
    BY <1>1, <1>10
  <2> DEFINE p == table[d + 1]
             y == f[d]
             z == f[d + 1]
             L == Others(table, d)
  <2>2. PICK A : Aligned(y, t, L, A)
    BY <1>10 DEF ReadAs
  <2>3. z = Replaced(y, p.symbol, p.literal)
    <3>1. f[d + 1] = Replaced(f[(d + 1) - 1], what[d + 1], by[d + 1])
      BY <1>2, <1>8, <2>1 DEF Replacements
    <3> QED
      BY <1>2, <2>1, <3>1
  <2>4. p \in L /\ L \ {p} = Others(table, d + 1)
    <3>1. \A k : k \in (d + 1)..n <=> k = d + 1 \/ k \in (d + 2)..n
      BY <1>1, <2>1
    <3>2. \A k \in (d + 2)..n : k \in 1..n /\ k # d + 1
      BY <1>1, <2>1
    <3>3. \A k \in (d + 2)..n : table[k] # table[d + 1]
      BY <1>6, <2>1, <3>2
    <3>4. L = {table[k] : k \in (d + 1)..n} /\ Others(table, d + 1) = {table[k] : k \in (d + 2)..n}
      BY <2>1 DEF Others, n
    <3> HIDE DEF L
    <3> QED
      BY <3>1, <3>3, <3>4
  <2>5. L \in SUBSET all
    BY <1>1, <2>1 DEF Rows, Others, all, n
  <2>6. y \in Seq(S) /\ ~ Occurs(p.symbol, t)
    BY <1>6, <2>1
  <2> HIDE DEF p, y, z, L
  <2>7. Fit(S, L)
    BY <1>3, <2>5, FitSub
  <2>8. \E B : Aligned(Replaced(y, p.symbol, p.literal), t, L \ {p}, B)
    BY <2>2, <2>4, <2>6, <2>7, ReadBackStep
  <2>9. ReadAs(z, t, Others(table, d + 1))
    BY <2>3, <2>4, <2>8 DEF ReadAs
  <2> QED
    BY <2>1, <2>9 DEF z
<1>11. n \in T
  <2>1. T \in SUBSET Nat /\ n \in 0..n
    BY <1>1
  <2> HIDE DEF T
  <2>2. \A d \in T : d < n => d + 1 \in T
    BY <1>10
  <2>3. \A d \in 0..n : d \in T
    BY <1>1, <1>9, <2>1, <2>2, UpTo
  <2> QED
    BY <2>1, <2>3
<1>12. f[n] \in Seq(S)
    BY <1>1
<1>13. Others(table, n) = {}
    BY <1>1 DEF Others, n
<1>14. PICK A : Aligned(f[n], t, {}, A)
    BY <1>11, <1>13 DEF ReadAs
<1> QED
    BY <1>5, <1>8, <1>12, <1>14, NothingMasked

\* What SpansApart says of the table.
Apart(table) ==
    \A p, q \in Range(table) :
        /\ ~ Occurs(p.literal, q.symbol)
        /\ \A i \in 1..Len(p.literal) : p.literal[i] \notin Brackets

\* The entries of a table the code builds are rows that fit.
LEMMA TableRows ==
    ASSUME NEW table, Table(table, Prefixes) PROVE Range(table) = Rows(table, Len(table))
<1>1. table \in Seq([symbol : Seq(Pieces), literal : Seq(Pieces)])
    BY DEF Table
<1>2. DOMAIN table = 1..Len(table)
    BY <1>1
<1> QED
    BY <1>2 DEF Range, Rows

LEMMA FitTable ==
    ASSUME NEW table, Table(table, Prefixes), Apart(table)
    PROVE  Fit(Pieces, Rows(table, Len(table)))
<1> DEFINE n == Len(table)
           K == Rows(table, n)
<1>1. K = Range(table) /\ K = {table[k] : k \in 1..n}
    BY TableRows DEF Rows
<1>2. \A k \in 1..n : /\ \E p \in Prefixes, c \in 1..Len(Numerals) : table[k].symbol = Symbol(p, c)
                      /\ table[k].literal \in Seq(Pieces) /\ table[k].literal # <<>>
    BY DEF Table
<1>3. \A j, k \in 1..n : table[j].symbol = table[k].symbol => j = k
    BY DEF Table
<1>4. \A p, q \in K : /\ ~ Occurs(p.literal, q.symbol)
                      /\ \A i \in 1..Len(p.literal) : p.literal[i] \notin Brackets
    BY <1>1 DEF Apart
<1> HIDE DEF n, K
<1>5. ASSUME NEW k \in 1..n
      PROVE  /\ table[k].symbol \in Seq(Pieces) /\ Len(table[k].symbol) = 4
             /\ table[k].symbol[1] = "<" /\ table[k].symbol[4] = ">"
             /\ table[k].symbol[2] \notin Brackets /\ table[k].symbol[3] \notin Brackets
             /\ table[k].literal \in Seq(Pieces) /\ Len(table[k].literal) > 0
  <2> DEFINE u == table[k].symbol
             s == table[k].literal
  <2>1. PICK p \in Prefixes, c \in 1..Len(Numerals) : u = Symbol(p, c)
    BY <1>2
  <2>2. s \in Seq(Pieces) /\ s # <<>>
    BY <1>2
  <2> HIDE DEF u, s
  <2>3. /\ u \in Seq(Pieces) /\ Len(u) = 4
        /\ u[1] = "<" /\ u[4] = ">" /\ u[2] \notin Brackets /\ u[3] \notin Brackets
    BY <2>1, SymbolShape
  <2>4. Len(s) \in Nat /\ Len(s) # 0
    BY <2>2, LenProperties, EmptySeq
  <2>5. Len(s) > 0
    BY <2>4
  <2> QED
    BY <2>2, <2>3, <2>5 DEF u, s
<1>6. \A p \in K : /\ p.symbol \in Seq(Pieces) /\ Len(p.symbol) = 4
                   /\ p.symbol[1] = "<" /\ p.symbol[4] = ">"
                   /\ p.symbol[2] \notin Brackets /\ p.symbol[3] \notin Brackets
                   /\ p.literal \in Seq(Pieces) /\ Len(p.literal) > 0
    BY <1>1, <1>5
<1>7. \A p, q \in K : p.symbol = q.symbol => p = q
    BY <1>1, <1>3
<1> QED
    BY <1>4, <1>6, <1>7 DEF Fit, K, n

\* A text that reads as an original without symbols is read back as that original.
LEMMA ReadBack ==
    ASSUME NEW t \in Seq(Pieces), Unresolved(t) = {}, NEW table, Table(table, Prefixes), Apart(table),
           NEW x \in Seq(Pieces), ReadAs(x, t, Rows(table, Len(table)))
    PROVE  Rehydrated(x, table) = t
<1>1. Len(table) \in Nat /\ \A j, k \in 1..Len(table) : table[j].symbol = table[k].symbol => j = k
    BY DEF Table
<1>2. Fit(Pieces, Rows(table, Len(table)))
    BY FitTable
<1>3. ASSUME NEW k \in 1..Len(table) PROVE ~ Occurs(table[k].symbol, t)
  <2>1. PICK p \in Prefixes, c \in 1..Len(Numerals) : table[k].symbol = Symbol(p, c)
    BY DEF Table
  <2>2. \A i \in 1..Len(t) : ~ StandsAt(Symbol(p, c), t, i)
    BY DEF Unresolved
  <2> QED
    BY <2>1, <2>2 DEF Occurs
<1>4. \A k \in 1..Len(table) : ~ Occurs(table[k].symbol, t)
    BY <1>3
<1> QED
    BY <1>1, <1>2, <1>4, RehydratedReadAs

\* What is cut off a text leaves a text.
LEMMA CutText ==
    ASSUME NEW texts \in Texts, NEW i \in 1..Len(texts)
    PROVE  Cut(texts[i]) \in Seq(Pieces) /\ Len(texts) \in Nat
<1>1. texts \in Seq(Seq(Pieces))
    BY TextsAssumption
<1> DEFINE t == texts[i]
           m == IF Len(t) <= MaxPieces THEN Len(t) ELSE MaxPieces
<1>2. t \in Seq(Pieces) /\ Len(texts) \in Nat
    BY <1>1, ElementOfSeq, LenProperties
<1>3. Len(t) \in Nat /\ MaxPieces \in Nat
    BY <1>2, LenProperties, TargetsAssumption
<1>4. m \in Nat /\ m <= Len(t)
    BY <1>3
<1>5. Cut(t) = SubSeq(t, 1, m)
    BY DEF Cut
<1> HIDE DEF t, m
<1>6. \A d \in 1..m : t[d] \in Pieces
    BY <1>2, <1>3, <1>4, ElementOfSeq
<1>7. SubSeq(t, 1, m) \in Seq(Pieces)
    BY <1>4, <1>6, SubSeqProperties
<1> QED
    BY <1>2, <1>5, <1>7 DEF t

\* What the two maskings leave is read as the text that was cut.
LEMMA MaskedOnce ==
    ASSUME NEW texts \in Texts, NEW i \in 1..Len(texts),
           Fit(Pieces, Rows(Assigned(texts), Len(Assigned(texts))))
    PROVE  /\ Apply(texts).texts[i] \in Seq(Pieces)
           /\ ReadAs(Apply(texts).texts[i], Cut(texts[i]), Rows(Assigned(texts), Len(Assigned(texts))))
<1> DEFINE T == Assigned(texts)
           t == Cut(texts[i])
           K == {}
<1>1. t \in Seq(Pieces)
    BY CutText
<1>2. Apply(texts).texts[i] = Masked(t, T)
    BY DEF Apply
<1>3. Len(T) \in Nat
    BY AssignedTable DEF Table
<1> HIDE DEF T, t
<1>4. ReadAs(t, t, K)
    BY <1>1, ReadAsItIs
<1>5. K \cup Rows(T, Len(T)) = Rows(T, Len(T))
    OBVIOUS
<1>6. Fit(Pieces, K \cup Rows(T, Len(T)))
    BY <1>5 DEF T
<1> HIDE DEF K
<1>7. Masked(t, T) \in Seq(Pieces) /\ ReadAs(Masked(t, T), t, K \cup Rows(T, Len(T)))
    BY <1>1, <1>3, <1>4, <1>6, MaskedReadAs
<1> QED
    BY <1>2, <1>5, <1>7 DEF T, t

\* Two tables, one after the other, have the rows of both.
LEMMA AppendedRows ==
    ASSUME NEW a, NEW b, NEW S, a \in Seq(S), b \in Seq(S)
    PROVE  Rows(Joined(a, b), Len(Joined(a, b))) = Rows(a, Len(a)) \cup Rows(b, Len(b))
<1> DEFINE c == Joined(a, b)
<1>1. Len(a) \in Nat /\ Len(b) \in Nat
    BY LenProperties
<1>2. /\ Len(c) = Len(a) + Len(b)
      /\ \A k \in 1..Len(a) : c[k] = a[k]
      /\ \A k \in 1..Len(b) : c[Len(a) + k] = b[k]
    BY <1>1 DEF Joined
<1>3. \A k \in 1..Len(c) : \/ k \in 1..Len(a)
                           \/ k - Len(a) \in 1..Len(b) /\ Len(a) + (k - Len(a)) = k
    BY <1>1, <1>2
<1> HIDE DEF c
<1>4. ASSUME NEW k \in 1..Len(c) PROVE c[k] \in Rows(a, Len(a)) \cup Rows(b, Len(b))
  <2>1. CASE k \in 1..Len(a)
    BY <1>2, <2>1 DEF Rows
  <2>2. CASE k - Len(a) \in 1..Len(b) /\ Len(a) + (k - Len(a)) = k
    <3>1. c[k] = b[k - Len(a)]
      BY <1>2, <2>2
    <3> QED
      BY <2>2, <3>1 DEF Rows
  <2> QED
    BY <1>3, <2>1, <2>2
<1>5. ASSUME NEW k \in 1..Len(a) PROVE a[k] \in Rows(c, Len(c))
  <2>1. k \in 1..Len(c) /\ a[k] = c[k]
    BY <1>1, <1>2
  <2> QED
    BY <2>1 DEF Rows
<1>6. ASSUME NEW k \in 1..Len(b) PROVE b[k] \in Rows(c, Len(c))
  <2>1. Len(a) + k \in 1..Len(c) /\ b[k] = c[Len(a) + k]
    BY <1>1, <1>2
  <2> QED
    BY <2>1 DEF Rows
<1>7. Rows(c, Len(c)) \subseteq Rows(a, Len(a)) \cup Rows(b, Len(b))
    BY <1>4 DEF Rows
<1>8. Rows(a, Len(a)) \subseteq Rows(c, Len(c)) /\ Rows(b, Len(b)) \subseteq Rows(c, Len(c))
    BY <1>5, <1>6 DEF Rows
<1> QED
    BY <1>7, <1>8 DEF c

\* The texts of a payload with masked texts, read back with its table.
LEMMA OriginalsBack ==
    ASSUME NEW texts \in Texts, NEW i \in 1..Len(texts), Unresolved(Cut(texts[i])) = {},
           NEW m, Apart(m.table),
           m = Apply(texts) \/ \E spans \in Spans : m = Conservative(Apply(texts), spans)
    PROVE  Rehydrated(m.texts[i], m.table) = Cut(texts[i])
<1> DEFINE T == Assigned(texts)
           t == Cut(texts[i])
           base == Apply(texts)
<1>1. t \in Seq(Pieces) /\ Len(texts) \in Nat
    BY CutText
<1>2. Table(T, Own)
    BY AssignedTable
<1>3. base.table = T /\ Len(base.texts) = Len(texts)
    BY <1>1 DEF Apply
<1>4. Own \in SUBSET Prefixes
    BY DEF Own, Prefixes
<1>5. Table(T, Prefixes)
    BY <1>2, <1>4 DEF Table
<1>6. CASE m = base
  <2>1. Apart(T)
    BY <1>3, <1>6
  <2>2. Fit(Pieces, Rows(T, Len(T)))
    BY <1>5, <2>1, FitTable
  <2> DEFINE x == base.texts[i]
  <2>3. x \in Seq(Pieces) /\ ReadAs(x, t, Rows(T, Len(T)))
    BY <2>2, MaskedOnce
  <2> HIDE DEF T, t, base, x
  <2>4. Unresolved(t) = {}
    BY DEF t
  <2>5. Rehydrated(x, T) = t
    BY <1>1, <1>5, <2>1, <2>3, <2>4, ReadBack
  <2> QED
    BY <1>3, <1>6, <2>5 DEF x, t
<1>7. ASSUME NEW spans \in Spans, m = Conservative(base, spans)
      PROVE  Rehydrated(m.texts[i], m.table) = t
  <2>1. Table(base.table, Own)
    BY <1>2, <1>3
  <2> HIDE DEF T, t, base
  <2>2. PICK more : /\ Table(more, {"CTX"})
                    /\ Table(base.table \o more, Prefixes)
                    /\ Conservative(base, spans) =
                         [texts |-> [k \in 1..Len(base.texts) |-> Masked(base.texts[k], more)],
                          table |-> base.table \o more]
    BY <2>1, AddedTable
  <2> DEFINE both == Joined(T, more)
             x == base.texts[i]
             y == Masked(x, more)
             K == Rows(T, Len(T))
  <2>3. m.table = both /\ m.texts[i] = y
    BY <1>1, <1>3, <1>7, <2>2 DEF Joined
  <2>4. Table(both, Prefixes)
    BY <1>3, <2>2 DEF Joined
  <2>5. Rows(both, Len(both)) = K \cup Rows(more, Len(more))
    <3> DEFINE R == [symbol : Seq(Pieces), literal : Seq(Pieces)]
    <3>1. T \in Seq(R) /\ more \in Seq(R)
      BY <1>5, <2>2 DEF Table
    <3> HIDE DEF R, both
    <3>2. Rows(Joined(T, more), Len(Joined(T, more))) = Rows(T, Len(T)) \cup Rows(more, Len(more))
      BY <3>1, AppendedRows
    <3> QED
      BY <3>2 DEF both
  <2>6. Len(more) \in Nat
    BY <2>2 DEF Table
  <2> HIDE DEF both, x, y
  <2>7. Apart(both)
    BY <2>3
  <2>8. Fit(Pieces, Rows(both, Len(both)))
    BY <2>4, <2>7, FitTable
  <2>9. Fit(Pieces, K)
    BY <2>5, <2>8, FitSub
  <2>10. x \in Seq(Pieces) /\ ReadAs(x, t, K)
    BY <2>9, MaskedOnce DEF T, t, base, x
  <2> HIDE DEF K
  <2>11. y \in Seq(Pieces) /\ ReadAs(y, t, Rows(both, Len(both)))
    <3>1. Fit(Pieces, K \cup Rows(more, Len(more)))
      BY <2>5, <2>8
    <3>2. Masked(x, more) \in Seq(Pieces) /\ ReadAs(Masked(x, more), t, K \cup Rows(more, Len(more)))
      BY <1>1, <2>6, <2>10, <3>1, MaskedReadAs
    <3> QED
      BY <2>5, <3>2 DEF y
  <2>12. Unresolved(t) = {}
    BY DEF t
  <2>13. Rehydrated(y, both) = t
    BY <1>1, <2>4, <2>7, <2>11, <2>12, ReadBack
  <2> QED
    BY <2>3, <2>13
<1> HIDE DEF base, t
<1> QED
  <2>1. m = base \/ \E spans \in Spans : m = Conservative(base, spans)
    BY DEF base
  <2>2. Rehydrated(m.texts[i], m.table) = t
    BY <1>6, <1>7, <2>1 DEF t
  <2> QED
    BY <2>2 DEF t

\* Masking holds from the start and after every step.
LEMMA MaskingStep == Masking /\ [Next]_vars => Masking'
<1> SUFFICES ASSUME Masking, [Next]_vars PROVE Masking'
    OBVIOUS
<1>1. ASSUME UNCHANGED <<stage, representation, masked, originals>> PROVE Masking'
    BY <1>1 DEF Masking
<1>2. ASSUME NEW found \in BOOLEAN, BeginSecret(found) PROVE Masking'
    BY <1>2 DEF BeginSecret, StartFilling, textVars, Masking
<1>3. ASSUME stage \in {"generate", "fill"}, Failed PROVE Masking'
    BY <1>3 DEF Failed, StartFilling, textVars, Masking
<1>4. ASSUME NEW fs, stage = "fill", Ends(fs) PROVE Masking'
    BY <1>4 DEF Ends, textVars, schemaVars, Masking
<1>5. CASE CallFails
    BY <1>3, <1>5 DEF CallFails
<1>6. CASE NoJson
  <2>1. CASE UNCHANGED <<stage, representation, textVars>>
    BY <1>1, <2>1 DEF textVars
  <2>2. CASE Failed
    BY <1>3, <1>6, <2>2 DEF NoJson
  <2> QED
    BY <1>6, <2>1, <2>2 DEF NoJson
<1>7. ASSUME NEW proposals \in Proposals, Generate(proposals) PROVE Masking'
  <2>1. CASE Failed
    BY <1>3, <1>7, <2>1 DEF Generate
  <2>2. CASE stage = "generate" /\ stage' = "fill" /\ UNCHANGED <<representation, textVars>>
    BY <2>2 DEF textVars, Masking
  <2> QED
    BY <1>7, <2>1, <2>2 DEF Generate
<1>8. ASSUME NEW answer, FillBatch(answer) PROVE Masking'
    BY <1>1, <1>8 DEF FillBatch, textVars
<1>9. ASSUME NEW answer, FillDocument(answer) PROVE Masking'
    BY <1>4, <1>9 DEF FillDocument
<1>10. ASSUME NEW answer, TooLittle(answer) PROVE Masking'
    BY <1>3, <1>10 DEF TooLittle
<1>11. ASSUME NEW others \in BOOLEAN, Validate(others) PROVE Masking'
    BY <1>11 DEF Validate, textVars, Masking
<1>12. ASSUME NEW texts \in Texts, NEW order, BeginInternal(texts, order) PROVE Masking'
    BY <1>12 DEF BeginInternal, Masking
<1>13. ASSUME NEW texts \in Texts, NEW order, BeginOpen(texts, order) PROVE Masking'
    BY <1>13 DEF BeginOpen, Masking
<1>14. ASSUME NEW spans \in Spans, Mask(spans) PROVE Masking'
    BY <1>14 DEF Mask, Masking
<1>15. CASE MaskFails
    BY <1>15 DEF MaskFails, textVars, Masking
<1>16. CASE Done
    BY <1>16 DEF Done, Masking
<1>17. CASE UNCHANGED vars
    BY <1>1, <1>17 DEF vars
<1> QED
    BY <1>2, <1>5, <1>6, <1>7, <1>8, <1>9, <1>10, <1>11, <1>12, <1>13, <1>14, <1>15, <1>16,
       <1>17 DEF Next

\* What is sent of internal texts is what apply, and apply_conservative once more at
\* most, make of the texts the payload was asked for.
THEOREM MaskingAlways == Spec => []Masking
<1>1. Init => Masking
    BY DEF Init, Masking
<1> QED
    BY <1>1, MaskingStep, PTL DEF Spec

\* An Agent that repeats a masked text is read back word for word.
THEOREM RoundTripAlways == Spec => []RoundTrip
<1>1. Masking => RoundTrip
  <2> SUFFICES ASSUME Masking, representation = "pseudonymized", SpansApart,
                      NEW i \in 1..Len(originals), Unresolved(Cut(originals[i])) = {}
               PROVE  Rehydrated(masked.texts[i], masked.table) = Cut(originals[i])
    BY DEF RoundTrip
  <2>1. /\ originals \in Texts
        /\ \/ masked = Apply(originals)
           \/ \E spans \in Spans : masked = Conservative(Apply(originals), spans)
    BY DEF Masking
  <2>2. Apart(masked.table)
    BY DEF SpansApart, Apart
  <2> QED
    BY <2>1, <2>2, OriginalsBack
<1> QED
    BY <1>1, MaskingAlways, PTL
=============================================================================
