------------------------------ MODULE Conversion ------------------------------
(***************************************************************************)
(* What Gatekeeper.to_payload makes of evidence before anything crosses.    *)
(*                                                                          *)
(* SECRET evidence: for each document, one without text too (its prompt     *)
(* holds the heading of build_document at least), the model of the trusted  *)
(* zone fills the slots of a schema, batch by batch; what it says is        *)
(* coerced and assembled by walking the schema, and the payload is          *)
(* validated.  Where no fixed schema fits, or extraction with it fails, the *)
(* owner's model proposes a schema of its own, once.  INTERNAL evidence:    *)
(* the texts are masked (Pseudonyms), then masked again with what the model *)
(* proposes.  OPEN evidence: the texts are what they are.                   *)
(*                                                                          *)
(* A value is what the coercion tells apart: a label of the vocabulary, an  *)
(* integer or one that is written out, in the range of its slot or out of   *)
(* it, a truth value or a word for one, or anything else.                   *)
(***************************************************************************)
EXTENDS Pseudonyms

CONSTANTS
    Evidence,       \* the documents, a sequence in the order of assign_refs
    Roles,          \* entity_roles of the schema, a sequence
    FixedSlots,     \* the slots of the fixed schema
    BatchSize,      \* SLOT_BATCH_SIZE
    MaxAttempts,    \* of complete_json
    Labels,         \* values an enum slot may list
    WellFormed,     \* labels in identifier format
    Banned,         \* labels that data.banned knows
    Refused,        \* names no slot may have: structural keys, forbidden log keys, no identifier
    FormatKeys,     \* keys of the answer_format
    Proposals,      \* slots the model proposes
    MaxSlots,       \* _DYN_MAX_SLOTS
    Texts,          \* tuples of texts, the question first
    Spans           \* tuples of spans the model proposes

Written == {"number", "numeral", "huge", "truth", "word", "other"}
Raw == Labels \cup Written \cup {"absent", "unknown"}

ASSUME EvidenceAssumption == Len(Evidence) \in Nat \ {0} /\ Len(Roles) \in Nat \ {0}
ASSUME LimitsAssumption ==
    BatchSize \in Nat \ {0} /\ MaxAttempts \in Nat \ {0} /\ MaxSlots \in Nat
ASSUME LabelsAssumption ==
    WellFormed \subseteq Labels /\ Banned \subseteq Labels
      /\ Labels \cap (Written \cup {"absent", "unknown"}) = {}
ASSUME TextsAssumption ==
    /\ Texts \subseteq Seq(Seq(Pieces))
    /\ \A spans \in Spans : spans \in Seq(Seq(Pieces)) /\ Len(spans) <= Len(Numerals)
ASSUME ProposalsAssumption == \A proposals \in Proposals : Len(proposals) \in Nat

VARIABLES
    stage,      \* how far the conversion is
    representation,     \* of the payload
    generated,  \* the schema is the owner's own
    slots,      \* its slots, in order
    doc,        \* the document being filled
    at,         \* the first slot of the batch being filled
    attempt,    \* of the call that is out
    said,       \* what the model said of each document, per slot
    facts,      \* the facts of the payload, per document that has some
    masked,     \* the texts of a payload with texts, and the table of its mapping
    originals,  \* the texts it was made of
    under       \* the documents whose texts stand under the first label, the second, ...

fillVars == <<doc, at, attempt, said, facts>>
textVars == <<masked, originals, under>>
schemaVars == <<generated, slots>>
vars == <<stage, representation, generated, slots, doc, at, attempt, said, facts, masked,
          originals, under>>

Structural == {"task", "domain", "entities", "ref", "role", "facts", "question_template",
               "answer_format"}

NoTexts == [texts |-> <<>>, table |-> <<>>]
Documents == 1..Len(Evidence)

StartFilling == /\ doc' = 1 /\ at' = 1 /\ attempt' = 1
                /\ said' = [d \in Documents |-> <<>>]
                /\ facts' = [d \in {} |-> <<>>]

Init ==
    /\ stage = "idle" /\ representation = "structured" /\ generated = FALSE /\ slots = <<>>
    /\ doc = 1 /\ at = 1 /\ attempt = 1
    /\ said = [d \in Documents |-> <<>>]
    /\ facts = [d \in {} |-> <<>>]
    /\ masked = NoTexts /\ originals = <<>> /\ under = <<>>

-----------------------------------------------------------------------------
(* Coercion and assembly *)

\* Mutant: a value that is no label of the slot is kept if it is a label at all.
CoercedAnyLabel(slot, value) ==
    CASE slot.kind = "enum" /\ value \in Labels -> value
      [] slot.kind = "int" /\ value \in {"number", "numeral"} -> "number"
      [] slot.kind = "int" /\ value = "huge" -> "huge"
      [] slot.kind = "bool" /\ value \in {"truth", "word"} -> "truth"
      [] OTHER -> "drop"

\* coerce: no near matches, and no clipping to the range of the slot.
Coerced(slot, value) ==
    CASE slot.kind = "enum" /\ value \in slot.allowed -> value
      [] slot.kind = "int" /\ value \in {"number", "numeral"} -> "number"
      [] slot.kind = "int" /\ value = "huge" -> "huge"
      [] slot.kind = "bool" /\ value \in {"truth", "word"} -> "truth"
      [] OTHER -> "drop"

\* assemble walks the schema, not what the model said.
Assembled(answers) ==
    LET value(i) == IF i \in DOMAIN answers THEN Coerced(slots[i], answers[i]) ELSE "drop"
    IN  [i \in {j \in 1..Len(slots) : value(j) # "drop"} |-> value(i)]

\* _coerce_dyn_slot: the code decides by the form alone what may be a slot.
Usable(p) ==
    /\ p.name \notin Refused
    /\ p.kind \in {"enum", "int", "bool"}
    /\ p.kind = "enum" => Cardinality(p.allowed \cap WellFormed) >= 2

\* generate_dynamic_schema: the first proposal of a name counts; none is required.
SlotsOf(proposals) ==
    LET looked == 1..(IF Len(proposals) <= MaxSlots THEN Len(proposals) ELSE MaxSlots)
        kept == {i \in looked : /\ Usable(proposals[i])
                                /\ \A j \in 1..(i - 1) :
                                     Usable(proposals[j]) => proposals[j].name # proposals[i].name}
        nth(k) == proposals[CHOOSE i \in kept : Cardinality({j \in kept : j <= i}) = k]
    IN  [k \in 1..Cardinality(kept) |->
            [name |-> nth(k).name, kind |-> nth(k).kind,
             allowed |-> nth(k).allowed \cap WellFormed, required |-> FALSE]]

\* assign_refs: the i-th document has the i-th role, and the last one all that follow;
\* its label is the prefix of the role and a count.
RoleOf(d) == IF generated THEN "our_component"
             ELSE Roles[IF d <= Len(Roles) THEN d ELSE Len(Roles)]
Ref(d) == <<RoleOf(d), Cardinality({e \in 1..d : RoleOf(e) = RoleOf(d)})>>

-----------------------------------------------------------------------------
(* SECRET *)

\* choose_schema found a task, or found none.
BeginSecret(found) ==
    /\ stage = "idle"
    /\ stage' = IF found THEN "fill" ELSE "generate"
    /\ generated' = ~ found
    /\ slots' = IF found THEN FixedSlots ELSE <<>>
    /\ StartFilling
    /\ UNCHANGED <<representation, textVars>>

\* ExtractionFailed: once more with a schema of the owner's own, or nothing crosses.
Failed ==
    /\ stage' = IF generated THEN "failed" ELSE "generate"
    /\ generated' = TRUE
    /\ slots' = <<>>
    /\ StartFilling
    /\ UNCHANGED <<representation, textVars>>

\* A time-out, an HTTP error, an empty or missing answer, one that is no object.
CallFails == stage \in {"generate", "fill"} /\ Failed

\* An answer that is no JSON is asked for again, with a nudge.
NoJson ==
    /\ stage \in {"generate", "fill"}
    /\ \/ /\ attempt < MaxAttempts
          /\ attempt' = attempt + 1
          /\ UNCHANGED <<stage, representation, schemaVars, doc, at, said, facts, textVars>>
       \/ attempt = MaxAttempts /\ Failed

Generate(proposals) ==
    /\ stage = "generate"
    /\ IF SlotsOf(proposals) = <<>> THEN Failed
       ELSE /\ stage' = "fill"
            /\ slots' = SlotsOf(proposals)
            /\ attempt' = 1
            /\ UNCHANGED <<representation, generated, doc, at, said, facts, textVars>>

Batch == {i \in 1..Len(slots) : at <= i /\ i < at + BatchSize}

\* Mutant: what a document leaves open is filled from those before it.
FactsOfMerged(answers) ==
    LET own == Assembled(answers)
        before == {d \in DOMAIN facts : d < doc}
    IN  [i \in DOMAIN own \cup UNION {DOMAIN facts[d] : d \in before} |->
            IF i \in DOMAIN own THEN own[i]
            ELSE facts[CHOOSE d \in before : i \in DOMAIN facts[d]][i]]

FactsOf(answers) == Assembled(answers)

\* Enough for a payload: something is filled, and what is required is filled by one
\* document or another.
Complete(fs) ==
    /\ DOMAIN fs # {}
    /\ \A i \in 1..Len(slots) : slots[i].required => \E d \in DOMAIN fs : i \in DOMAIN fs[d]

\* After the last document, and after one that is not.
Ends(fs) ==
    \/ /\ doc < Len(Evidence)
       /\ doc' = doc + 1 /\ at' = 1 /\ attempt' = 1 /\ facts' = fs
       /\ UNCHANGED <<stage, representation, schemaVars, textVars>>
    \/ /\ doc = Len(Evidence) /\ Complete(fs)
       /\ stage' = "built" /\ facts' = fs
       /\ UNCHANGED <<representation, schemaVars, doc, at, attempt, textVars>>

\* Keys that are not in the batch are dropped at once.
Answers(answer) == [i \in DOMAIN said[doc] \cup Batch |->
                      IF i \in Batch THEN answer[i] ELSE said[doc][i]]

Added(answers) ==
    LET found == FactsOf(answers)
    IN  IF DOMAIN found = {} THEN facts
        ELSE [d \in DOMAIN facts \cup {doc} |-> IF d = doc THEN found ELSE facts[d]]

LastBatch == at + BatchSize > Len(slots)

FillBatch(answer) ==
    /\ stage = "fill"
    /\ ~ LastBatch
    /\ at' = at + BatchSize /\ attempt' = 1
    /\ said' = [said EXCEPT ![doc] = Answers(answer)]
    /\ UNCHANGED <<stage, representation, schemaVars, doc, facts, textVars>>

FillDocument(answer) ==
    /\ stage = "fill"
    /\ LastBatch
    /\ Ends(Added(Answers(answer)))
    /\ said' = [said EXCEPT ![doc] = Answers(answer)]

\* Nothing is filled, or something required is not.
TooLittle(answer) ==
    /\ stage = "fill" /\ doc = Len(Evidence)
    /\ LastBatch /\ ~ Complete(Added(Answers(answer)))
    /\ Failed

-----------------------------------------------------------------------------
(* Validation *)

Names == {slots[i].name : i \in 1..Len(slots)}

Filled == UNION {{slots[i].name : i \in DOMAIN facts[d]} : d \in DOMAIN facts}

\* build_payload; build_text_payload, to which to_payload adds the question when it
\* has masked it.
Keys == FormatKeys \cup
    CASE representation = "structured" -> Structural \cup Filled
      [] representation = "pseudonymized" -> (Structural \ {"facts"}) \cup {"excerpts", "question"}
      [] OTHER -> (Structural \ {"facts"}) \cup {"excerpts"}

AllowedKeys == Structural \cup FormatKeys \cup Names
                 \cup IF representation = "structured" THEN {} ELSE {"excerpts"}

\* check_schema; the labels of documents are allowed by their form.
SchemaPasses == Keys \subseteq AllowedKeys

\* Mutant: the schema the model generated is not known to the validation.
KnownLabelsFixed ==
    UNION {FixedSlots[i].allowed : i \in {j \in 1..Len(FixedSlots) : FixedSlots[j].kind = "enum"}}

\* allowed_strings: the labels of all enum slots of the schema, generated or fixed.
KnownLabels == UNION {slots[i].allowed : i \in {j \in 1..Len(slots) : slots[j].kind = "enum"}}

Values == UNION {Range(facts[d]) : d \in DOMAIN facts}

\* check_vocab leaves out what is under excerpts, but not the question.
VocabPasses == Values \cap Labels \subseteq KnownLabels /\ representation # "pseudonymized"

\* check_ranges looks at every key that is named like a slot, and so at the words of
\* the answer format when a generated slot has the name of one of its keys.
RangesPass ==
    /\ "huge" \notin Values
    /\ \A i \in 1..Len(slots) : slots[i].name \in FormatKeys => slots[i].kind = "enum"

Shown == UNION {Range(masked.texts[i]) : i \in DOMAIN masked.texts}

\* check_banned reads the whole payload, its keys included.
BannedPasses == (Values \cup Filled \cup Shown) \cap Banned = {}

\* check_no_source_ngram and check_size: whether a short original is found in the
\* payload, and whether it is too long.
Validate(others) ==
    /\ stage = "built"
    /\ stage' = IF SchemaPasses /\ VocabPasses /\ RangesPass /\ BannedPasses /\ others
                THEN "passed" ELSE "blocked"
    /\ UNCHANGED <<representation, schemaVars, fillVars, textVars>>

-----------------------------------------------------------------------------
(* INTERNAL and OPEN *)

\* The labels are given in the order of assign_refs, the texts come in the order in
\* which the documents were selected.
Selections(n) == {order \in [1..n -> 1..n] : \A i, j \in 1..n : order[i] = order[j] => i = j}

BeginInternal(texts, order) ==
    /\ stage = "idle"
    /\ order \in Selections(Len(texts) - 1) /\ under' = order
    /\ stage' = "mask" /\ representation' = "pseudonymized"
    /\ originals' = texts
    /\ masked' = Apply(texts)
    /\ UNCHANGED <<schemaVars, fillVars>>

BeginOpen(texts, order) ==
    /\ stage = "idle"
    /\ order \in Selections(Len(texts) - 1) /\ under' = order
    /\ stage' = "built" /\ representation' = "verbatim"
    /\ originals' = Tail(texts)
    /\ masked' = [texts |-> Tail(texts), table |-> <<>>]
    /\ UNCHANGED <<schemaVars, fillVars>>

\* The model proposes spans; without it the literals are all that is replaced.
Mask(spans) ==
    /\ stage = "mask"
    /\ stage' = "built"
    /\ masked' = Conservative(masked, spans)
    /\ UNCHANGED <<representation, schemaVars, fillVars, originals, under>>

MaskFails ==
    /\ stage = "mask"
    /\ stage' = "built"
    /\ UNCHANGED <<representation, schemaVars, fillVars, textVars>>

\* The answer is read back and the mapping is dropped; or nothing was sent.
Done ==
    /\ stage \in {"passed", "blocked", "failed"}
    /\ stage' = "idle" /\ representation' = "structured" /\ generated' = FALSE /\ slots' = <<>>
    /\ StartFilling
    /\ masked' = NoTexts /\ originals' = <<>> /\ under' = <<>>

Next ==
    \/ \E found \in BOOLEAN : BeginSecret(found)
    \/ CallFails
    \/ NoJson
    \/ \E proposals \in Proposals : Generate(proposals)
    \/ \E answer \in [Batch -> Raw] : FillBatch(answer) \/ FillDocument(answer) \/ TooLittle(answer)
    \/ \E others \in BOOLEAN : Validate(others)
    \/ \E texts \in Texts : \E order \in Selections(Len(texts) - 1) :
         BeginInternal(texts, order) \/ BeginOpen(texts, order)
    \/ \E spans \in Spans : Mask(spans)
    \/ MaskFails
    \/ Done

Spec == Init /\ [][Next]_vars

-----------------------------------------------------------------------------
(* Properties *)

Built == stage \in {"built", "passed", "blocked"}

\* PB-3, PB-4 (extractor.py:257-260): whatever the model said, what is assembled is
\* a slot of the schema with one of that slot's own values; a generated schema has
\* no label but well-formed ones; and what passes has no number out of range and no
\* banned label (BR-V-03, BR-V-04).
FactsClosed ==
    /\ Built => \A d \in DOMAIN facts : \A i \in DOMAIN facts[d] :
         /\ i \in 1..Len(slots)
         /\ facts[d][i] \in CASE slots[i].kind = "enum" -> slots[i].allowed
                               [] slots[i].kind = "int" -> {"number", "huge"}
                               [] OTHER -> {"truth"}
         /\ generated /\ slots[i].kind = "enum" => facts[d][i] \in WellFormed
    /\ stage = "passed" => Values \cap (Banned \cup {"huge"}) = {}

\* extractor.py:551-564: two documents that contradict each other do so in the
\* payload: each has its own label, and under it what was read in it and nothing
\* else.
OwnFacts ==
    Built => \A d \in DOMAIN facts :
        /\ \A e \in DOMAIN facts : Ref(d) = Ref(e) => d = e
        /\ \A i \in DOMAIN facts[d] :
             said[d][i] = facts[d][i] \/ <<said[d][i], facts[d][i]>> \in {<<"numeral", "number">>, <<"word", "truth">>}

\* extractor.py:22-23: a payload is never blocked for what the assembly could have
\* left out: the first two checks accept everything that extract() builds, with a
\* generated schema too (_vocab_for).
ChecksAgree == Built /\ representation = "structured" => SchemaPasses /\ VocabPasses

\* The inductive invariant of the theorems: the facts of a document are what the
\* assembly makes of what was said of it, and only documents already done have any.
Filling ==
    /\ doc \in Documents
    /\ DOMAIN said = Documents
    /\ DOMAIN facts \subseteq Documents
    /\ ~ Built /\ stage # "fill" => DOMAIN facts = {}
    /\ stage = "fill" => \A d \in DOMAIN facts : d < doc
    /\ \A d \in DOMAIN facts : facts[d] = Assembled(said[d])

\* A schema of the owner's own has no label but well-formed ones.
OwnSchema ==
    generated => \A i \in 1..Len(slots) :
        slots[i].kind = "enum" => slots[i].allowed \subseteq WellFormed

Inv == Filling /\ OwnSchema

\* The texts of a payload with masked texts are what apply makes of the originals,
\* masked once more at most.
Masking ==
    /\ stage = "mask" => representation = "pseudonymized" /\ masked = Apply(originals)
    /\ stage \in {"idle", "generate", "fill"} => representation # "pseudonymized"
    /\ representation = "pseudonymized" =>
         /\ originals \in Texts
         /\ \/ masked = Apply(originals)
            \/ \E spans \in Spans : masked = Conservative(Apply(originals), spans)

\* No literal and no span of the table reads like a part of one of its symbols.
SpansApart ==
    \A p, q \in Range(masked.table) :
        /\ ~ Occurs(p.literal, q.symbol)
        /\ \A i \in 1..Len(p.literal) : p.literal[i] \notin Brackets

\* BR-P-02, BR-P-04: an Agent that repeats what it was sent is read back word for
\* word, whatever the literals and spans share or overlap.  Excepted are a span that
\* reads like a part of a symbol, such as PROJ: it is replaced inside <PROJ_1>
\* (pseudonymizer.py:210 says it is not), and reading back the longest symbols first
\* restores the part too late; and a text that holds a symbol to begin with.
RoundTrip ==
    representation = "pseudonymized" /\ SpansApart => \A i \in 1..Len(originals) :
        Unresolved(Cut(originals[i])) = {} =>
            Rehydrated(masked.texts[i], masked.table) = Cut(originals[i])

\* extractor.py:588-590: the texts are bound to labels so that the Agent can say which
\* document a sentence is from and a citation can be checked: the text under a label
\* is that of the document the label was given to.
LabelsTrue == stage = "passed" => \A i \in 1..Len(under) : under[i] = i
=============================================================================
