---------------------------- MODULE EventStream ----------------------------
(***************************************************************************)
(* How the progress of a run reaches the page that follows it.             *)
(*                                                                         *)
(* AgentTelemetry numbers every event of a run, journals it and pushes it  *)
(* to the sockets of the session (app/observability/recorder.py,           *)
(* exporters/websocket.py, app/api/monitor.py).  The page opens a socket,  *)
(* subscribes after the last sequence number it has seen and is replayed   *)
(* the journal, while live events go on arriving on the same socket        *)
(* (app/api/server.py, app/observability/replay.py).  It also reads the    *)
(* events of a run it has just posted, and starts from a bootstrap         *)
(* (frontend/src/hooks/useDeepAgentSession.ts, lib/sessionProjection.ts).  *)
(* The ends of a run - its result, its cancellation, an exception - are    *)
(* pushed beside the journal.                                              *)
(*                                                                         *)
(* One session and one page that follows it; another page may post runs.   *)
(* The window of 120 events and the limit of 2000 are not reached.         *)
(***************************************************************************)
EXTENDS Naturals, Sequences, FiniteSets

CONSTANTS
    MaxRuns,     \* runs posted to the session
    MaxSeq,      \* events of a run that have a place on the page
    MaxEvents,   \* such events of all runs together
    MaxWire,     \* messages on their way to the page
    MaxFaults    \* sockets and answers lost, reloads of the page, deaths of
                 \* the backend

ASSUME BoundsAssumption ==
    /\ MaxRuns \in Nat \ {0}
    /\ MaxSeq \in Nat \ {0}
    /\ {MaxEvents, MaxWire, MaxFaults} \subseteq Nat

VARIABLES
    posted,     \* runs posted so far: run n is the n-th
    task,       \* the task of each run
    status,     \* the status of each run in the run store
    failure,    \* the number of the run's RUN_FAILED event, 0 for none
    numbered,   \* the last sequence number each run has given out
    emitting,   \* events with a number that are not journaled yet
    journal,    \* events a replay finds
    socket,     \* the connection: lost, or what the server still owes it
    wire,       \* messages on their way to the page
    fetches,    \* answers of GET /runs/{id}/events on their way
    request,    \* the request the page waits for: a post, a cancellation
    page,       \* what the page keeps
    view,       \* how often each event is shown
    spoilt,     \* something that can leave a hole in the view happened since
                \* the page took up the run it follows
    faults

server == <<posted, task, status, failure, numbered>>
flow   == <<emitting, journal>>
link   == <<socket, wire>>
client == <<fetches, request, page, view, spoilt>>
vars   == <<server, flow, link, client, faults>>

Runs   == 1..MaxRuns
Events == Runs \X (1..MaxSeq)

Tasks    == {"none", "running", "stopping", "ended"}
Statuses == {"none", "running", "cancelling", "completed", "failed",
             "interrupted", "recoverable"}
NoRun == 0

NoRequest == [kind |-> "none", run |-> NoRun]
Requests  == [kind : {"none", "posted", "stopping"},
              run : 0..MaxRuns]

Messages ==
    [kind : {"event"}, run : Runs, seq : 1..MaxSeq]
      \cup [kind : {"result", "cancelled", "error"}, run : Runs]

EventMessage(e) == [kind |-> "event", run |-> e[1], seq |-> e[2]]

Active(r) == status[r] \in {"running", "cancelling"}

Latest == posted                       \* NoRun before the first

EventsOf(r) == {e \in journal : e[1] = r}

First(events) == CHOOSE e \in events : \A d \in events : e[2] <= d[2]

----------------------------------------------------------------------------
(* The socket.                                                             *)

Lost      == [open |-> FALSE, asked |-> FALSE, run |-> NoRun, after |-> 0,
              owed |-> {}]
Connected == [Lost EXCEPT !.open = TRUE]

(* monitor._emit: a message is handed over only while the session has a    *)
(* socket.                                                                 *)
Push(m) ==
    /\ Len(wire) < MaxWire
    /\ wire' = IF socket.open THEN Append(wire, m) ELSE wire

----------------------------------------------------------------------------
(* The page.                                                               *)

FreshPage == [hydrated |-> FALSE, cur |-> NoRun, last |-> 0, seen |-> {},
              ui |-> "idle", snapshot |-> {}, read |-> FALSE]

NothingShown == [e \in Events |-> 0]

Busy == page.ui \in {"running", "cancelling"}

Show(events, shown) ==
    [e \in Events |-> IF e \in events /\ shown[e] < 2
                      THEN shown[e] + 1 ELSE shown[e]]

Newest(events) == CHOOSE n \in 0..MaxSeq :
                    /\ n = 0 \/ \E e \in events : e[2] = n
                    /\ \A e \in events : e[2] <= n

AtLeast(n, m) == IF n >= m THEN n ELSE m

(* mergeMonitorEvents: an event whose key was seen is not appended.        *)
Unseen(events) == events \ page.seen

(* RunStore.on_event keeps the highest number emitted.                     *)
LastEventSeq(r) == Newest(EventsOf(r))

(* ingestEvents: the highest number is remembered, also of events that     *)
(* are dropped as seen.                                                    *)
Ingest(events, ui) ==
    /\ page' = [page EXCEPT !.last = AtLeast(@, Newest(events)),
                            !.seen = @ \cup events,
                            !.ui   = ui]
    /\ view' = Show(Unseen(events), view)

(* eventBelongsToRun: a message without a run id belongs to whatever run   *)
(* the page follows.  task_cancelled and error carry none.                 *)
Belongs(m) ==
    IF m.kind \in {"event", "result"} THEN m.run = page.cur
                                      ELSE page.cur # NoRun

UiOf(s) == IF s = "none" THEN "idle" ELSE s

(* The status the page takes from a message.                               *)
UiAfter(m) ==
    CASE m.kind = "event"     -> IF m.seq = failure[m.run] THEN "failed"
                                                           ELSE page.ui
      [] m.kind = "result"    -> "completed"
      [] m.kind = "cancelled" -> "interrupted"
      [] m.kind = "error"     -> "failed"

----------------------------------------------------------------------------
Init ==
    /\ posted = 0
    /\ task = [r \in Runs |-> "none"]
    /\ status = [r \in Runs |-> "none"]
    /\ failure = [r \in Runs |-> 0]
    /\ numbered = [r \in Runs |-> 0]
    /\ emitting = {} /\ journal = {}
    /\ socket = Lost /\ wire = <<>>
    /\ fetches = {} /\ request = NoRequest
    /\ page = FreshPage /\ view = NothingShown
    /\ spoilt = FALSE
    /\ faults = 0

----------------------------------------------------------------------------
(* The runs.                                                               *)

(* POST /api/task: the new run replaces the live one, whose task is told   *)
(* to stop.                                                                *)
CreateRun ==
    /\ posted < MaxRuns
    /\ posted' = posted + 1
    /\ task' = [r \in Runs |-> IF r = posted + 1 THEN "running"
                               ELSE IF task[r] = "running" THEN "stopping"
                               ELSE task[r]]
    /\ status' = [r \in Runs |->
                    IF r = posted + 1 THEN "running"
                    ELSE IF r = posted /\ task[r] \in {"running", "stopping"}
                    THEN "interrupted" ELSE status[r]]
    /\ UNCHANGED <<failure, numbered>>

PostElsewhere ==
    /\ CreateRun
    /\ UNCHANGED <<flow, link, client, faults>>

(* AgentTelemetry.emit takes the number under the lock of the sequence ... *)
Number(r) ==
    /\ numbered[r] < MaxSeq
    /\ Cardinality(journal) + Cardinality(emitting) < MaxEvents
    /\ numbered' = [numbered EXCEPT ![r] = @ + 1]
    /\ emitting' = emitting \cup {<<r, numbered[r] + 1>>}

TakeNumber(r) ==
    /\ task[r] \in {"running", "stopping"}
    /\ Number(r)
    /\ UNCHANGED <<posted, task, status, failure, journal, link,
                   client, faults>>

(* ... journals the event without it, in whichever thread comes first, and *)
(* pushes it to the sockets there are.                                     *)
Emit(e) ==
    /\ e \in emitting
    /\ emitting' = emitting \ {e}
    /\ journal' = journal \cup {e}
    /\ Push(EventMessage(e))
    /\ spoilt' = (spoilt \/ (~socket.open /\ \E d \in EventsOf(e[1]) : d[2] > e[2]))
    /\ UNCHANGED <<server, socket, fetches, request, page, view, faults>>

(* The end of a run is recorded, then pushed to whatever sockets there are *)
(* and kept nowhere.                                                       *)
End(r, s, kind) ==
    /\ task' = [task EXCEPT ![r] = "ended"]
    /\ status' = [status EXCEPT ![r] = s]
    /\ Push([kind |-> kind, run |-> r])
    /\ UNCHANGED <<posted, journal, socket, client, faults>>

(* The delivery persists the result, then publishes it.                    *)
Complete(r) ==
    /\ task[r] = "running"
    /\ End(r, "completed", "result")
    /\ UNCHANGED <<numbered, failure, emitting>>

(* The handler of the run: the failure is recorded and reported, and the   *)
(* recorder closes the run with RUN_FAILED.                                *)
Fail(r) ==
    /\ task[r] = "running"
    /\ End(r, "failed", "error")
    /\ Number(r)
    /\ failure' = [failure EXCEPT ![r] = numbered'[r]]

(* The handler of CancelledError.                                          *)
Stop(r) ==
    /\ task[r] = "stopping"
    /\ End(r, "interrupted", "cancelled")
    /\ UNCHANGED <<numbered, failure, emitting>>

----------------------------------------------------------------------------
(* The page and its requests.                                              *)

(* hydrateFromServer: the server reads the events of the latest run ...    *)
ReadBootstrap ==
    /\ ~page.hydrated /\ ~page.read
    /\ page' = [page EXCEPT !.read = TRUE, !.snapshot = EventsOf(Latest)]
    /\ UNCHANGED <<server, flow, link, fetches, request, view, spoilt, faults>>

(* ... then the latest run again, and answers with both.  last_event_seq   *)
(* has gone on with the events emitted since; the page subscribes after it *)
(* and misses them.                                                        *)
Bootstrap ==
    /\ ~page.hydrated /\ page.read
    /\ page' = [FreshPage EXCEPT
                  !.hydrated = TRUE, !.cur = Latest, !.seen = page.snapshot,
                  !.last = IF Latest = NoRun THEN 0 ELSE LastEventSeq(Latest),
                  !.ui = IF Latest = NoRun THEN "idle"
                                           ELSE UiOf(status[Latest])]
    /\ view' = Show(page.snapshot, NothingShown)
    /\ spoilt' = (page.snapshot # EventsOf(Latest))
    /\ UNCHANGED <<server, flow, link, fetches, request, faults>>

(* The socket is accepted and registered; onopen sends the subscription    *)
(* before any message is read.                                             *)
Connect ==
    /\ page.hydrated
    /\ ~socket.open
    /\ socket' = [Connected EXCEPT !.asked = TRUE, !.run = page.cur,
                                   !.after = page.last]
    /\ UNCHANGED <<server, flow, wire, client, faults>>

AfterNext(events, n) == {e \in events : e[2] > n + 1}

(* load_events with after_seq.                                             *)
After(events, n) == {e \in events : e[2] > n}

(* _maybe_replay_subscribe reads the journal once ...                      *)
Subscribe ==
    /\ socket.open /\ socket.asked
    /\ LET r == IF socket.run = NoRun THEN Latest ELSE socket.run
       IN  socket' = [Connected EXCEPT
                        !.owed = After(EventsOf(r), socket.after)]
    /\ UNCHANGED <<server, flow, wire, client, faults>>

(* ... and sends event by event, in order, between live ones.              *)
Replay ==
    /\ socket.open
    /\ socket.owed # {}
    /\ Len(wire) < MaxWire
    /\ wire' = Append(wire, EventMessage(First(socket.owed)))
    /\ socket' = [socket EXCEPT !.owed = @ \ {First(@)}]
    /\ UNCHANGED <<server, flow, client, faults>>

(* onmessage.                                                              *)
Receive ==
    /\ wire # <<>>
    /\ wire' = Tail(wire)
    /\ LET m == Head(wire)
       IN  IF ~Belongs(m) THEN UNCHANGED <<page, view>>
           ELSE IF m.kind = "event" THEN Ingest({<<m.run, m.seq>>}, UiAfter(m))
           ELSE /\ page' = [page EXCEPT !.ui = UiAfter(m)]
                /\ UNCHANGED view
    /\ UNCHANGED <<server, flow, socket, fetches, request, spoilt, faults>>

(* submitTask resets the view and posts; the server creates the run ...    *)
Submit ==
    /\ page.hydrated /\ ~Busy
    /\ request = NoRequest
    /\ CreateRun
    /\ request' = [kind |-> "posted", run |-> posted']
    /\ page' = [page EXCEPT !.cur = NoRun, !.last = 0, !.seen = {},
                            !.ui = "running"]
    /\ view' = NothingShown
    /\ spoilt' = FALSE
    /\ UNCHANGED <<flow, link, fetches, faults>>

FollowOnly ==
    /\ request.kind = "posted"
    /\ request' = NoRequest
    /\ page' = [page EXCEPT !.cur = request.run]
    /\ UNCHANGED <<server, flow, link, fetches, view, spoilt, faults>>

(* ... and the page follows it and asks for its events.                    *)
Follow ==
    /\ request.kind = "posted"
    /\ request' = NoRequest
    /\ page' = [page EXCEPT !.cur = request.run]
    /\ fetches' = fetches \cup
                    {[run |-> request.run, done |-> FALSE, events |-> {}]}
    /\ UNCHANGED <<server, flow, link, view, spoilt, faults>>

AnswerFetch(f) ==
    /\ f \in fetches /\ ~f.done
    /\ fetches' = (fetches \ {f})
                    \cup {[f EXCEPT !.done = TRUE, !.events = EventsOf(f.run)]}
    /\ UNCHANGED <<server, flow, link, request, page, view, spoilt, faults>>

(* The answer is ingested whatever run the page follows by then.           *)
TakeFetch(f) ==
    /\ f \in fetches /\ f.done
    /\ fetches' = fetches \ {f}
    /\ Ingest(f.events, page.ui)
    /\ spoilt' = (spoilt \/ f.run # page.cur)
    /\ UNCHANGED <<server, flow, link, request, faults>>

(* cancelCurrentTask: the endpoint marks the latest run and cancels its    *)
(* task ...  (RunLifecycle has the request that finds no task.)            *)
AskCancel ==
    /\ page.hydrated /\ page.ui = "running" /\ request = NoRequest
    /\ Latest # NoRun
    /\ task[Latest] \in {"running", "stopping"}
    /\ request' = [kind |-> "stopping", run |-> Latest]
    /\ status' = [status EXCEPT ![Latest] = "cancelling"]
    /\ task' = [task EXCEPT ![Latest] = "stopping"]
    /\ page' = [page EXCEPT !.ui = "cancelling"]
    /\ UNCHANGED <<posted, failure, numbered, flow, link, fetches, view, spoilt,
                   faults>>

(* ... waits a second for it, and answers cancelled or still cancelling;   *)
(* the page takes the answer for the run it follows.                       *)
AnswerCancel ==
    /\ request.kind = "stopping"
    /\ request' = NoRequest
    /\ page' = [page EXCEPT !.ui = IF task[request.run] = "stopping"
                                   THEN @ ELSE "interrupted"]
    /\ UNCHANGED <<server, flow, link, fetches, view, spoilt, faults>>

----------------------------------------------------------------------------
(* Faults.                                                                 *)

HasFault == faults < MaxFaults /\ faults' = faults + 1

(* The socket breaks; the page opens another one two seconds later.        *)
Drop ==
    /\ socket.open
    /\ HasFault
    /\ socket' = Lost
    /\ wire' = <<>>
    /\ spoilt' = (spoilt \/ socket.asked \/ wire # <<>> \/ socket.owed # {})
    /\ UNCHANGED <<server, flow, fetches, request, page, view>>

(* The answer of a fetch is lost; the error is swallowed.                  *)
LoseFetch(f) ==
    /\ f \in fetches
    /\ HasFault
    /\ fetches' = fetches \ {f}
    /\ spoilt' = TRUE
    /\ UNCHANGED <<server, flow, link, request, page, view>>

Reload ==
    /\ page.hydrated
    /\ HasFault
    /\ socket' = Lost /\ wire' = <<>>
    /\ fetches' = {} /\ request' = NoRequest
    /\ page' = FreshPage /\ view' = NothingShown
    /\ UNCHANGED <<server, flow, spoilt>>

(* The backend dies and comes back: tasks and sockets are gone, the        *)
(* projection store keeps the journal, and active runs become recoverable. *)
Crash ==
    /\ HasFault
    /\ task' = [r \in Runs |-> IF task[r] = "none" THEN "none" ELSE "ended"]
    /\ status' = [r \in Runs |-> IF Active(r) THEN "recoverable"
                                              ELSE status[r]]
    /\ emitting' = {}
    /\ socket' = Lost /\ wire' = <<>>
    /\ fetches' = {} /\ request' = NoRequest
    /\ page' = IF page.hydrated
               THEN [page EXCEPT !.ui = IF request.kind = "posted"
                                        THEN "idle"
                                        ELSE IF request # NoRequest
                                                /\ @ = "cancelling"
                                        THEN "running" ELSE @]
               ELSE FreshPage
    /\ spoilt' = TRUE
    /\ UNCHANGED <<posted, failure, numbered, journal, view>>

----------------------------------------------------------------------------
Emission == \E e \in emitting : Emit(e)

Link == Connect \/ Subscribe \/ Replay \/ Receive

Answers ==
    \/ ReadBootstrap \/ Bootstrap
    \/ Follow \/ AnswerCancel
    \/ \E f \in fetches : AnswerFetch(f) \/ TakeFetch(f)

Work == \E r \in Runs : TakeNumber(r) \/ Complete(r) \/ Fail(r) \/ Stop(r)

User == Submit \/ AskCancel \/ PostElsewhere

Fault == Drop \/ Reload \/ Crash \/ \E f \in fetches : LoseFetch(f)

Next == Emission \/ Link \/ Answers \/ Work \/ User \/ Fault

(* The server finishes what it has begun to emit and answers; the page     *)
(* reconnects on a timer.  Runs need not end, and nobody need use the page. *)
Fairness ==
    /\ WF_vars(Emission)
    /\ WF_vars(Connect) /\ WF_vars(Subscribe)
    /\ WF_vars(Replay) /\ WF_vars(Receive)
    /\ WF_vars(Answers)

Spec == Init /\ [][Next]_vars

FairSpec == Spec /\ Fairness

----------------------------------------------------------------------------
TypeOK ==
    /\ posted \in 0..MaxRuns
    /\ task \in [Runs -> Tasks] /\ status \in [Runs -> Statuses]
    /\ failure \in [Runs -> 0..MaxSeq] /\ numbered \in [Runs -> 0..MaxSeq]
    /\ emitting \subseteq Events /\ journal \subseteq Events
    /\ emitting \cap journal = {}
    /\ socket.open \in BOOLEAN /\ socket.asked \in BOOLEAN
    /\ socket.owed \subseteq journal
    /\ \A i \in 1..Len(wire) : wire[i] \in Messages
    /\ \A f \in fetches : f.run \in Runs /\ f.events \subseteq journal
    /\ request \in Requests
    /\ page.cur \in 0..posted /\ page.last \in 0..MaxSeq
    /\ page.seen \subseteq journal /\ page.snapshot \subseteq journal
    /\ view \in [Events -> 0..2]

(* An event reaches the page live, in a replay, in the answer to a fetch   *)
(* and in a bootstrap; it is shown once ((run_id, seq) deduplication of    *)
(* mergeMonitorEvents, docs/OBSERVABILITY.md).                             *)
NothingShownTwice == \A e \in Events : view[e] < 2

Quiet ==
    /\ page.hydrated /\ socket.open /\ ~socket.asked
    /\ socket.owed = {} /\ wire = <<>> /\ fetches = {}
    /\ request = NoRequest
    /\ emitting = {}

(* When nothing is on its way the page shows every event of its run: those *)
(* pushed before it knew the run, while its socket was down, between the   *)
(* snapshot of a replay and its end.  The exceptions are holes that        *)
(* after_seq cannot express: a drop amid a replay, an event journaled      *)
(* after a higher number while there was no socket, a lost or misplaced    *)
(* answer of a fetch, an event emitted between the two reads of a          *)
(* bootstrap, and the death of the backend, which may be several of them.  *)
EveryEventIsShown ==
    Quiet /\ page.cur # NoRun /\ ~spoilt
        => \A e \in EventsOf(page.cur) : view[e] = 1

(* The page shows each event of its run, and shows it once.                *)
ViewIsComplete == TypeOK /\ NothingShownTwice /\ EveryEventIsShown

(* A page that is left open comes to show every event of its run, whatever *)
(* sockets it has lost on the way, with the same exceptions.               *)
CatchesUp ==
    <>[](page.hydrated /\ page.cur # NoRun /\ ~spoilt
           => \A e \in EventsOf(page.cur) : view[e] = 1)
=============================================================================
