------------------------------ MODULE Console ------------------------------
(***************************************************************************)
(* The screen (src/src/mesh/web/app.js) and the event stream that feeds    *)
(* it (_sse_push and /api/hub/events, src/src/mesh/main.py).               *)
(*                                                                         *)
(* The screen keeps one thread of messages for the asker's own Agent and   *)
(* one for each person, and puts one question at a time.  While it waits   *)
(* the asker goes to another thread, selects people, resets what is shown  *)
(* or starts over; the server goes on with a consult whose response is     *)
(* lost, and its events come as those of another window's consult would,   *)
(* among the events of the next question.                                  *)
(* Left out: the protocol editor, the modal of a trace, and what is only   *)
(* drawing (of the verdicts, that they are there).                         *)
(***************************************************************************)
EXTENDS Naturals, Sequences, FiniteSets

CONSTANTS
  Persons,      \* entity ids on the org chart, without the asker
  MyAgent,      \* MY_AGENT, the key of the thread with one's own Agent
  MaxQuestions, \* bound: questions put on this screen
  QueueSize     \* asyncio.Queue(maxsize=50)

ASSUME ConsoleAssumption ==
  IsFiniteSet(Persons) /\ MaxQuestions \in Nat /\ QueueSize \in Nat

Keys == Persons \cup {MyAgent}
Questions == 1..MaxQuestions

VARIABLES
  active,        \* state.activeThread
  threads,       \* state.threads: key -> sequence of messages
  flight,        \* the question put and not yet answered: state.busy
  asked,         \* how many questions were put
  askedIn,       \* history: the thread each question was put in
  selected,      \* state.selectedTargets
  broadcast,     \* state.broadcast is there: verdicts are on the org chart
  dots,          \* the loading bubble is among the messages drawn
  communicating, \* state.communicating, the people highlighted
  consult,       \* what the server does: consult -> [st, todo, targets]
  listed,        \* this window's queue is in _sse_clients
  queue,         \* the events in it
  gap            \* history: the stream broke off since the last
                 \* broadcast_end that was handled

screen == <<active, threads, flight, asked, askedIn, selected, broadcast,
            dots>>
stream == <<communicating, listed, queue, gap>>
consoleVars == <<screen, stream, consult>>

NoFlight == [kind |-> "none", q |-> 0, who |-> MyAgent]
NoConsult == [st |-> "none", todo |-> {}, targets |-> {}]
Outcomes == {"digest", "answer", "system"}

Events == [type : {"broadcast_start", "broadcast_end"}, agents : SUBSET Persons]
            \cup [type : {"agent_querying"}, agents : {{}}]
            \cup [type : {"agent_responded"}, agents : {{p} : p \in Persons}]

ConsoleTypeOK ==
  /\ active \in Keys
  /\ threads \in [Keys -> Seq([kind : Outcomes \cup {"user"}, q : Questions])]
  /\ flight \in [kind : {"none", "consult", "prepare", "send"},
                 q : 0..MaxQuestions, who : Keys]
  /\ asked \in 0..MaxQuestions
  /\ askedIn \in [Questions -> Keys]
  /\ selected \subseteq Persons
  /\ broadcast \in BOOLEAN /\ dots \in BOOLEAN
  /\ communicating \subseteq Persons
  /\ consult \in [Questions -> [st : {"none", "sent", "asking", "ended"},
                               todo : SUBSET Persons,
                               targets : SUBSET Persons]]
  /\ listed \in BOOLEAN /\ gap \in BOOLEAN
  /\ queue \in Seq(Events) /\ Len(queue) <= QueueSize

ConsoleInit ==
  /\ active = MyAgent
  /\ threads = [k \in Keys |-> <<>>]
  /\ flight = NoFlight
  /\ asked = 0
  /\ askedIn = [q \in Questions |-> MyAgent]
  /\ selected = {} /\ broadcast = FALSE /\ dots = FALSE
  /\ communicating = {}
  /\ consult = [c \in Questions |-> NoConsult]
  /\ listed = TRUE /\ queue = <<>> /\ gap = FALSE

Busy == flight.kind # "none"

\* Mutant: the message goes to the thread that is open.
PushedToOpen(key, kind, q) ==
  [threads EXCEPT ![active] = Append(@, [kind |-> kind, q |-> q])]

\* pushMessage: what the thread becomes.
Pushed(key, kind, q) ==
  [threads EXCEPT ![key] = Append(@, [kind |-> kind, q |-> q])]

\* A push to the open thread draws it again, which removes the dots.
DotsAfterPush(key, left) == left /\ key # active

(***************************************************************************)
(* The event stream.  A full queue takes its client off the list; what is  *)
(* in it is still delivered, and so are keep-alives, so the browser does   *)
(* not connect again.                                                      *)
(***************************************************************************)
\* What of the events finds room in the queue.
Fitting(evs) ==
  LET room == QueueSize - Len(queue)
  IN  IF Len(evs) <= room THEN evs ELSE SubSeq(evs, 1, room)

\* Mutant: an event that does not fit is dropped and the client is kept.
PushDroppingEvents(evs) ==
  /\ queue' = (IF listed THEN queue \o Fitting(evs) ELSE queue)
  /\ listed' = listed
  /\ gap' = (gap \/ ~listed')

Push(evs) ==
  /\ queue' = (IF listed THEN queue \o Fitting(evs) ELSE queue)
  /\ listed' = (listed /\ Fitting(evs) = evs)
  /\ gap' = (gap \/ ~listed')

Event(type, agents) == [type |-> type, agents |-> agents]

\* One for each; the screen does nothing with them.
QueryingOf(chosen) ==
  [i \in 1..Cardinality(chosen) |-> Event("agent_querying", {})]

\* handleSseEvent
Highlighted(ev) ==
  CASE ev.type = "broadcast_start" -> communicating \cup ev.agents
    [] ev.type = "agent_responded" -> communicating \ ev.agents
    [] ev.type = "broadcast_end" -> {}
    [] OTHER -> communicating

Deliver ==
  /\ queue # <<>>
  /\ communicating' = Highlighted(Head(queue))
  /\ queue' = Tail(queue)
  /\ gap' = (IF Head(queue).type = "broadcast_end" THEN ~listed ELSE gap)
  /\ UNCHANGED <<screen, listed, consult>>

\* The connection breaks and EventSource opens another: a new queue.
Reconnect ==
  /\ queue' = <<>> /\ listed' = TRUE /\ gap' = TRUE
  /\ UNCHANGED <<screen, communicating, consult>>

(***************************************************************************)
(* The server's side of a consult, as its events tell it (Consult models   *)
(* the rest): it asks the people chosen, or nobody.                        *)
(***************************************************************************)
ConsultAsks(c, chosen) ==
  /\ consult[c].st = "sent"
  /\ consult[c].targets # {} => chosen \subseteq consult[c].targets
  /\ consult' = [consult EXCEPT ![c].st = IF chosen = {} THEN "ended" ELSE "asking",
                                ![c].todo = chosen]
  /\ IF chosen = {}
     THEN UNCHANGED <<queue, listed, gap>>
     ELSE Push(<<Event("broadcast_start", chosen)>> \o QueryingOf(chosen))
  /\ UNCHANGED <<screen, communicating>>

ConsultHears(c, p) ==
  /\ consult[c].st = "asking" /\ p \in consult[c].todo
  /\ consult' = [consult EXCEPT ![c].todo = @ \ {p}]
  /\ Push(<<Event("agent_responded", {p})>>)
  /\ UNCHANGED <<screen, communicating>>

ConsultGathers(c) ==
  /\ consult[c].st = "asking" /\ consult[c].todo = {}
  /\ consult' = [consult EXCEPT ![c].st = "ended"]
  /\ Push(<<Event("broadcast_end", {})>>)
  /\ UNCHANGED <<screen, communicating>>

(***************************************************************************)
(* Putting a question (onSubmit).                                          *)
(***************************************************************************)
Put(kind) ==
  /\ ~Busy /\ asked < MaxQuestions
  /\ asked' = asked + 1
  /\ askedIn' = [askedIn EXCEPT ![asked'] = active]
  /\ flight' = [kind |-> kind, q |-> asked', who |-> active]
  /\ threads' = Pushed(active, "user", asked')
  /\ dots' = TRUE

\* doConsult: the people selected, or everybody.
SubmitConsult ==
  /\ active = MyAgent
  /\ Put("consult")
  /\ consult' = [consult EXCEPT ![asked'] = [st |-> "sent", todo |-> {},
                                             targets |-> selected]]
  /\ UNCHANGED <<active, selected, broadcast, stream>>

\* The digest: the selection is cleared, and the verdicts of a broadcast, if
\* there was one, are shown.
ConsultReturns(found) ==
  /\ flight.kind = "consult" /\ consult[flight.q].st = "ended"
  /\ threads' = Pushed(MyAgent, "digest", flight.q)
  /\ dots' = FALSE
  /\ broadcast' = (broadcast \/ (found /\ consult[flight.q].targets = {}))
  /\ selected' = {}
  /\ flight' = NoFlight
  /\ consult' = [consult EXCEPT ![flight.q].targets = {}]
  /\ UNCHANGED <<active, asked, askedIn, stream>>

\* The request fails, at once or while the server works; the server is not
\* told.
ConsultFails ==
  /\ flight.kind = "consult"
  /\ threads' = Pushed(MyAgent, "system", flight.q)
  /\ dots' = FALSE
  /\ flight' = NoFlight
  /\ UNCHANGED <<active, asked, askedIn, selected, broadcast, stream, consult>>

\* askPerson
SubmitPerson ==
  /\ active # MyAgent
  /\ Put("prepare")
  /\ UNCHANGED <<active, selected, broadcast, stream, consult>>

Ends(kind, left) ==
  /\ threads' = Pushed(flight.who, kind, flight.q)
  /\ dots' = DotsAfterPush(flight.who, left)
  /\ flight' = NoFlight
  /\ UNCHANGED <<active, asked, askedIn, selected, broadcast, stream,
                 consult>>

PrepareBlocked == flight.kind = "prepare" /\ Ends("answer", FALSE)

\* The second bubble of dots is drawn in whatever thread is open.
PrepareReady ==
  /\ flight.kind = "prepare"
  /\ flight' = [flight EXCEPT !.kind = "send"]
  /\ dots' = TRUE
  /\ UNCHANGED <<active, threads, asked, askedIn, selected, broadcast,
                 stream, consult>>

PrepareFails == flight.kind = "prepare" /\ Ends("system", FALSE)

SendReturns == flight.kind = "send" /\ Ends("answer", FALSE)

\* The catch removes the first bubble, not the second.
SendFails == flight.kind = "send" /\ Ends("system", dots)

(***************************************************************************)
(* The rest of the screen.                                                 *)
(***************************************************************************)
OpenThread(key) ==
  /\ active' = key
  /\ dots' = FALSE
  /\ UNCHANGED <<threads, flight, asked, askedIn, selected, broadcast,
                 stream, consult>>

ToggleSelect(p) ==
  /\ selected' = IF p \in selected THEN selected \ {p} ELSE selected \cup {p}
  /\ UNCHANGED <<active, threads, flight, asked, askedIn, broadcast, dots,
                 stream, consult>>

ClearSelection ==
  /\ selected # {}
  /\ selected' = {}
  /\ UNCHANGED <<active, threads, flight, asked, askedIn, broadcast, dots,
                 stream, consult>>

ResetBroadcast ==
  /\ broadcast
  /\ broadcast' = FALSE
  /\ UNCHANGED <<active, threads, flight, asked, askedIn, selected, dots,
                 stream, consult>>

\* restartDemo: a question in flight, the selection and the highlights stay.
Restart ==
  /\ threads' = [k \in Keys |-> <<>>]
  /\ broadcast' = FALSE
  /\ active' = MyAgent
  /\ dots' = FALSE
  /\ UNCHANGED <<flight, asked, askedIn, selected, stream, consult>>

ConsoleNext ==
  \/ SubmitConsult \/ SubmitPerson
  \/ \E found \in BOOLEAN : ConsultReturns(found)
  \/ ConsultFails
  \/ PrepareBlocked \/ PrepareReady \/ PrepareFails
  \/ SendReturns \/ SendFails
  \/ \E key \in Keys : OpenThread(key)
  \/ \E p \in Persons : ToggleSelect(p)
  \/ ClearSelection \/ ResetBroadcast \/ Restart
  \/ \E c \in Questions :
       \/ \E chosen \in SUBSET Persons : ConsultAsks(c, chosen)
       \/ \E p \in Persons : ConsultHears(c, p)
       \/ ConsultGathers(c)
  \/ Deliver \/ Reconnect

ConsoleSpec == ConsoleInit /\ [][ConsoleNext]_consoleVars

----------------------------------------------------------------------------
(***************************************************************************)
(* Properties.                                                             *)
(***************************************************************************)
About(key, q, kinds) ==
  {i \in DOMAIN threads[key] : threads[key][i].q = q
                               /\ threads[key][i].kind \in kinds}

(***************************************************************************)
(* Whatever thread is open when it comes, and whatever was started over,   *)
(* the answer to a question is in the thread the question was put in, once *)
(* and after it; and a question on the screen that is not being answered   *)
(* any more has its outcome below it (app.js, doConsult and askPerson;     *)
(* the comment above threadOf: a bubble must not go astray when threads    *)
(* are changed).                                                           *)
(***************************************************************************)
AnswerInOwnThread ==
  \A q \in Questions, k \in Keys :
    /\ About(k, q, Outcomes) # {} => askedIn[q] = k
    /\ Cardinality(About(k, q, Outcomes)) <= 1
    /\ \A i \in About(k, q, {"user"}) :
         /\ \A j \in About(k, q, Outcomes) : i < j
         /\ flight.q # q => About(k, q, Outcomes) # {}

Running == \E c \in Questions : consult[c].st = "asking"

(***************************************************************************)
(* When no consult of any window asks anybody and every event has arrived, *)
(* nobody is shown as being asked (app.js:1038, "so that nothing is left") *)
(* as long as the stream did not break off; and if it did, the next        *)
(* broadcast_end puts it right.                                            *)
(***************************************************************************)
HighlightTrue ==
  (~gap /\ queue = <<>> /\ ~Running) => communicating = {}
============================================================================
