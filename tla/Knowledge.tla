------------------------------ MODULE Knowledge ------------------------------
(***************************************************************************)
(* What one person's Agent knows: the files under data/, session.json with  *)
(* its open_paths, verified.json with the approved answers, the cache of    *)
(* KnowledgeStore, and the inbox items that become approved answers.        *)
(*                                                                          *)
(* Every handler here runs in one turn of the event loop, but it writes two *)
(* files (or the database and a file) one after the other, and _write_json  *)
(* truncates a file before it fills it.  A turn is therefore split where it *)
(* can be cut short, by a failing read or write or by the end of the        *)
(* process; no other handler runs while it is open.                         *)
(***************************************************************************)
EXTENDS Naturals, Sequences, SequencesExt

CONSTANTS
    Uploads,        \* names a file can have under data/uploads
    KbFiles,        \* names of generated files under data/kb
    Items,          \* inbox items of this owner, also the id of the answer
    VerifiedLimit   \* limit=3 of verified_chunks

ASSUME NamesAssumption == Uploads \cap KbFiles = {}
ASSUME LimitAssumption == VerifiedLimit \in Nat \ {0}

VARIABLES
    files,      \* the files that exist
    session,    \* session.json: "ok", "torn", "absent"
    open,       \* its open_paths, as a set
    answers,    \* verified.json: same three states
    verified,   \* its items, oldest first
    cached,     \* whether _cache holds a Session with the mtime session.json has now
    cache,      \* that Session
    turn,       \* what the running handler still has to do
    owed,       \* history: the items and the deleted files whose own turn was cut short
    status,     \* inbox.status
    tier,       \* inbox.tier: the tier of the answer that was escalated
    text,       \* the answer of the item: empty, or what rule_tier says of it
    asking,     \* a prepare() between load_session and read
    asked,      \* the Session it loaded
    evidence    \* the approved answers the last prepare() used, as chunks

diskVars == <<files, session, open, answers, verified>>
cacheVars == <<cached, cache>>
inboxVars == <<status, tier, text>>
askVars == <<asking, asked, evidence>>
vars == <<diskVars, cacheVars, turn, owed, inboxVars, askVars>>

Names == Uploads \cup KbFiles
Tiers == {"open", "internal"}   \* an escalated answer is never SECRET
Texts == {"empty", "within", "above"}   \* no text, at most the item's tier, above it
FileStates == {"ok", "torn", "absent"}
Statuses == {"none", "open", "approved", "approved_with_edit", "redirected"}
Approved == {"approved", "approved_with_edit"}
Actions == {"approve", "approve_with_edit", "not_me"}
VerifiedQA == [item : Items, tier : Tiers]
Sessions == [open : SUBSET Names, verified : Seq(VerifiedQA)]
NoSession == [open |-> {}, verified |-> << >>]

\* A turn is [do, on]: what is next, and the file or the item it is about.
Idle == [do |-> "idle", on |-> "none"]
Todo(do, on) == [do |-> do, on |-> on]
Turns == {Idle} \cup [do : {"attach", "attaching", "detach", "detaching"}, on : Names]
                \cup [do : {"append", "appending"}, on : Items]

TypeOK ==
    /\ files \subseteq Names
    /\ session \in FileStates /\ answers \in FileStates
    /\ open \subseteq Names
    /\ verified \in Seq(VerifiedQA)
    /\ cached \in BOOLEAN
    /\ cache \in Sessions
    /\ turn \in Turns
    /\ owed \subseteq Names \cup Items
    /\ status \in [Items -> Statuses]
    /\ tier \in [Items -> Tiers] /\ text \in [Items -> Texts]
    /\ asking \in BOOLEAN
    /\ asked \in Sessions
    /\ evidence \in Seq(VerifiedQA)

\* A person whose folder has just been made, with or without a session file.
Init ==
    /\ files = {} /\ open = {} /\ verified = << >>
    /\ session \in {"ok", "absent"} /\ answers = "absent"
    /\ cached = FALSE /\ cache = NoSession
    /\ turn = Idle /\ owed = {}
    /\ status = [i \in Items |-> "none"]
    /\ tier = [i \in Items |-> "open"] /\ text = [i \in Items |-> "empty"]
    /\ asking = FALSE /\ asked = NoSession /\ evidence = << >>

-----------------------------------------------------------------------------
(* Files and open_paths *)

\* An entry whose mtime session.json no longer has is never returned again.
CacheOutdated == cached' = FALSE /\ cache' = NoSession
\* Mutant: the pop at the end of a writer is missing.
CacheKept == UNCHANGED cacheVars
CachePopped == cached' = FALSE /\ cache' = NoSession

\* save_upload: a name that is taken gets a suffix until it is free.
\* attach is attach_to_session of the request; the tier shown is computed
\* after this turn and changes nothing.
Upload(n, attach) ==
    /\ turn = Idle
    /\ n \in Uploads \ files
    /\ files' = files \cup {n}
    /\ turn' = IF attach THEN Todo("attach", n) ELSE Idle
    /\ UNCHANGED <<session, open, answers, verified, cacheVars, owed, inboxVars, askVars>>

\* kb_search_and_save, for a question in progress that found no evidence: two
\* questions asked in one second that agree in 40 characters write the same file.
KbSave(n) ==
    /\ turn = Idle
    /\ n \in KbFiles
    /\ files' = files \cup {n}
    /\ turn' = Todo("attach", n)
    /\ UNCHANGED <<session, open, answers, verified, cacheVars, owed, inboxVars, askVars>>

\* Mutant: the path is left for read() to skip.
DeleteFileOnly(n) ==
    /\ turn = Idle
    /\ n \in Uploads \cap files
    /\ files' = files \ {n}
    /\ UNCHANGED <<session, open, answers, verified, cacheVars, turn, owed, inboxVars, askVars>>

\* delete_upload unlinks the file, then takes its path out of the session.
DeleteUpload(n) ==
    /\ turn = Idle
    /\ n \in Uploads \cap files
    /\ files' = files \ {n}
    /\ turn' = Todo("detach", n)
    /\ UNCHANGED <<session, open, answers, verified, cacheVars, owed, inboxVars, askVars>>

\* _rewrite_open_paths up to the truncation.  A session that is absent or does
\* not parse ends the handler: an upload warns, a delete answers with an error.
BeginRewrite ==
    /\ turn.do \in {"attach", "detach"}
    /\ IF session = "ok"
       THEN /\ session' = "torn"
            /\ CacheOutdated
            /\ turn' = Todo(IF turn.do = "attach" THEN "attaching" ELSE "detaching", turn.on)
       ELSE /\ turn' = Idle
            /\ UNCHANGED <<session, cacheVars>>
    /\ UNCHANGED <<files, open, answers, verified, owed, inboxVars, askVars>>

\* The text is written.
EndRewrite ==
    /\ turn.do \in {"attaching", "detaching"}
    /\ session' = "ok"
    /\ open' = IF turn.do = "attaching" THEN open \cup {turn.on} ELSE open \ {turn.on}
    /\ CachePopped
    /\ turn' = Idle
    /\ UNCHANGED <<files, answers, verified, owed, inboxVars, askVars>>

\* The person edits session.json by hand, as BR-S-08 invites to, and lists files
\* that are there.
EditSession(paths) ==
    /\ turn = Idle
    /\ paths \subseteq files
    /\ session' = "ok"
    /\ open' = paths
    /\ CacheOutdated
    /\ UNCHANGED <<files, answers, verified, turn, owed, inboxVars, askVars>>

-----------------------------------------------------------------------------
(* The inbox and verified.json *)

\* Orchestrator._escalate: the item has the tier of the answer; its draft is what
\* a model wrote.
Escalate(i, t, x) ==
    /\ turn = Idle
    /\ status[i] = "none"
    /\ status' = [status EXCEPT ![i] = "open"]
    /\ tier' = [tier EXCEPT ![i] = t]
    /\ text' = [text EXCEPT ![i] = x]
    /\ UNCHANGED <<diskVars, cacheVars, turn, owed, askVars>>

ACTION_STATUS(action) ==
    CASE action = "approve"           -> "approved"
      [] action = "approve_with_edit" -> "approved_with_edit"
      [] OTHER                        -> "redirected"

\* Mutant: an edited answer is taken for a draft.
FeedsDraft(i) == status'[i] = "approved" /\ text'[i] # "empty"

\* to_verified_qa has something to store: a text, and an approval.
Feeds(i) == status'[i] \in Approved /\ text'[i] # "empty"

\* Mutant: two tabs resolve the same item.
ResolveAgain(i, action, x) ==
    /\ turn = Idle
    /\ status[i] # "none"
    /\ status' = [status EXCEPT ![i] = ACTION_STATUS(action)]
    /\ text' = [text EXCEPT ![i] = IF action = "approve_with_edit" THEN x ELSE @]
    /\ turn' = IF Feeds(i) THEN Todo("append", i) ELSE Idle
    /\ UNCHANGED <<diskVars, cacheVars, owed, tier, askVars>>

\* Inbox.resolve commits the status; what inbox_resolve does next is its turn's rest.
Resolve(i, action, x) ==
    /\ turn = Idle
    /\ status[i] = "open"
    /\ status' = [status EXCEPT ![i] = ACTION_STATUS(action)]
    /\ text' = [text EXCEPT ![i] = IF action = "approve_with_edit" THEN x ELSE @]
    /\ turn' = IF Feeds(i) THEN Todo("append", i) ELSE Idle
    /\ UNCHANGED <<diskVars, cacheVars, owed, tier, askVars>>

\* append_verified up to the truncation; a file that does not parse ends it.
BeginAppend ==
    /\ turn.do = "append"
    /\ IF answers = "torn"
       THEN turn' = Idle /\ UNCHANGED answers
       ELSE turn' = Todo("appending", turn.on) /\ answers' = "torn"
    /\ UNCHANGED <<files, session, open, verified, cacheVars, owed, inboxVars, askVars>>

ToVerifiedQA(i) == [item |-> i, tier |-> tier[i]]

EndAppend ==
    /\ turn.do = "appending"
    /\ answers' = "ok"
    /\ verified' = Append(verified, ToVerifiedQA(turn.on))
    /\ CachePopped
    /\ turn' = Idle
    /\ UNCHANGED <<files, session, open, owed, inboxVars, askVars>>

-----------------------------------------------------------------------------
(* load_session and what a question is answered from *)

Loadable ==
    /\ session # "absent"
    /\ cached \/ (session = "ok" /\ answers # "torn")

LoadedSession ==
    IF cached THEN cache ELSE [open |-> open, verified |-> verified]

\* The document list, the agent list and the answer's badge load it too.
Load ==
    /\ turn = Idle
    /\ Loadable
    /\ cached' = TRUE /\ cache' = LoadedSession
    /\ UNCHANGED <<diskVars, turn, owed, inboxVars, askVars>>

\* _prepare_inner loads, then awaits the tier of the question and select_paths.
StartAsk ==
    /\ turn = Idle
    /\ ~ asking
    /\ Loadable
    /\ cached' = TRUE /\ cache' = LoadedSession
    /\ asking' = TRUE /\ asked' = LoadedSession
    /\ UNCHANGED <<diskVars, turn, owed, inboxVars, evidence>>

\* verified_chunks: the newest answers first, with the tier they carry.
VerifiedChunks(answered) ==
    SubSeq(Reverse(answered), 1,
           IF Len(answered) < VerifiedLimit THEN Len(answered) ELSE VerifiedLimit)

\* read() and verified_chunks() of the Session loaded above.
ReadEvidence ==
    /\ turn = Idle
    /\ asking
    /\ asking' = FALSE /\ asked' = NoSession
    /\ evidence' = VerifiedChunks(asked.verified)
    /\ UNCHANGED <<diskVars, cacheVars, turn, owed, inboxVars>>

-----------------------------------------------------------------------------
(* Faults *)

\* What was in a file that is torn for good is lost.
LoseTorn ==
    /\ open' = IF session = "torn" THEN {} ELSE open
    /\ verified' = IF answers = "torn" THEN << >> ELSE verified
    /\ UNCHANGED <<files, session, answers>>

\* What a turn that is cut short here leaves undone: its approval is not in
\* verified.json, or its deleted file is still in open_paths.
OwedBy(t) == IF t.do \in {"append", "appending", "detach", "detaching"} THEN {t.on} ELSE {}

\* A read or a write of the running turn raises OSError.
FailIO ==
    /\ turn # Idle
    /\ turn' = Idle /\ owed' = owed \cup OwedBy(turn)
    /\ LoseTorn
    /\ UNCHANGED <<cacheVars, inboxVars, askVars>>

\* The process ends and is started again.
Crash ==
    /\ turn' = Idle /\ owed' = owed \cup OwedBy(turn)
    /\ LoseTorn
    /\ CacheOutdated
    /\ asking' = FALSE /\ asked' = NoSession
    /\ UNCHANGED <<inboxVars, evidence>>

Next ==
    \/ \E n \in Uploads, attach \in BOOLEAN : Upload(n, attach)
    \/ \E n \in KbFiles : KbSave(n)
    \/ \E n \in Uploads : DeleteUpload(n)
    \/ BeginRewrite
    \/ EndRewrite
    \/ \E paths \in SUBSET Names : EditSession(paths)
    \/ \E i \in Items, t \in Tiers, x \in Texts : Escalate(i, t, x)
    \/ \E i \in Items, action \in Actions, x \in Texts \ {"empty"} : Resolve(i, action, x)
    \/ BeginAppend
    \/ EndAppend
    \/ Load
    \/ StartAsk
    \/ ReadEvidence
    \/ FailIO
    \/ Crash

Spec == Init /\ [][Next]_vars

-----------------------------------------------------------------------------
(* Properties *)

\* BR-S-08, load_session: a question that starts now sees the session as it is
\* on disk, with every approved answer, whatever was cached before: each writer
\* drops the entry or changes the mtime it is compared with.
LoadsWhatIsStored ==
    [][~ asking /\ asking' =>
         /\ asked'.open = open
         /\ answers # "torn" => asked'.verified = verified]_vars

\* BR-I-01, BR-I-02, BR-S-05: an approved answer comes from one approval of one
\* item and keeps that item's tier, in the file and as evidence, for a retried
\* or doubled request too; what was redirected or is still open feeds nothing.
FeedbackFaithful ==
    /\ \A k, l \in DOMAIN verified : verified[k].item = verified[l].item => k = l
    /\ \A q \in Range(verified) \cup Range(evidence) :
          status[q.item] \in Approved /\ q.tier = tier[q.item]

\* BR-I-02: an approval ends up in verified.json, and stays there.  A fault costs
\* the approval whose own turn it cut and no other, unless it leaves the file torn:
\* then the file is lost, and no later approval repairs it.
FeedbackKept ==
    turn = Idle =>
      \A i \in Items : status[i] \in Approved /\ text[i] # "empty" =>
        \/ \E q \in Range(verified) : q.item = i
        \/ i \in owed
        \/ answers = "torn"

\* delete_upload: a deleted file is not left among the candidates, unless it was its
\* own deletion that a fault cut; a torn session.json keeps no candidate at all.
NoDangling == turn = Idle => open \ files \subseteq owed

\* The cached Session is what the files hold whenever load_session would use it.
CacheCoherent ==
    cached =>
      /\ session = "ok"
      /\ cache.open = open
      /\ answers # "torn" => cache.verified = verified
=============================================================================
