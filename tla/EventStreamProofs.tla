-------------------------- MODULE EventStreamProofs --------------------------
(***************************************************************************)
(* Proofs about EventStream: the page shows every event of the run it      *)
(* follows once nothing is on its way, and shows none twice, for every     *)
(* number of runs, events, messages on the wire and faults.                *)
(*                                                                         *)
(* The strengthening says where an event that is journaled but not shown   *)
(* is: on the wire, owed by a replay, in the answer of a fetch, or above   *)
(* the number the next subscription starts from.                           *)
(***************************************************************************)
EXTENDS EventStream, WellFoundedInduction, TLAPS

SocketType == [open : BOOLEAN, asked : BOOLEAN, run : 0 .. MaxRuns,
               after : 0 .. MaxSeq, owed : SUBSET Events]
PageType   == [hydrated : BOOLEAN, cur : 0 .. MaxRuns, last : 0 .. MaxSeq,
               seen : SUBSET Events, ui : Statuses \cup {"idle"},
               snapshot : SUBSET Events, read : BOOLEAN]
FetchType  == [run : Runs, done : BOOLEAN, events : SUBSET Events]

Typed ==
  /\ posted \in 0 .. MaxRuns
  /\ task \in [Runs -> Tasks] /\ status \in [Runs -> Statuses]
  /\ failure \in [Runs -> 0 .. MaxSeq] /\ numbered \in [Runs -> 0 .. MaxSeq]
  /\ emitting \subseteq Events /\ journal \subseteq Events
  /\ socket \in SocketType /\ wire \in Seq(Messages)
  /\ fetches \subseteq FetchType /\ request \in Requests
  /\ page \in PageType /\ view \in [Events -> 0 .. 2] /\ spoilt \in BOOLEAN

\* A run that was not posted has no task and no event; an event carries a number
\* that was given out, and is journaled once.
ServerFits ==
  /\ \A r \in Runs : task[r] # "none" => r <= posted
  /\ \A e \in journal \cup emitting : e[1] <= posted /\ e[2] <= numbered[e[1]]
  /\ emitting \cap journal = {}

\* Events are sent once they are journaled; a broken socket has nothing on its
\* way, and nothing is owed before the subscription is answered.
WireFits ==
  /\ \A i \in 1 .. Len(wire) :
       wire[i].kind = "event" => <<wire[i].run, wire[i].seq>> \in journal
  /\ socket.owed \subseteq journal
  /\ ~socket.open => wire = <<>> /\ socket.owed = {} /\ ~socket.asked
  /\ socket.asked => socket.owed = {}

\* What is shown is what is remembered as seen.
PageFits ==
  /\ page.cur <= posted
  /\ page.seen \subseteq journal /\ page.snapshot \subseteq journal
  /\ \A e \in Events : view[e] = IF e \in page.seen THEN 1 ELSE 0
  /\ ~page.hydrated =>
       /\ page.seen = {} /\ page.last = 0 /\ page.cur = NoRun
       /\ ~socket.open /\ fetches = {} /\ request = NoRequest
  /\ request.kind = "posted" => page.cur = NoRun /\ request.run \in 1 .. posted
  /\ \A f \in fetches : f.events \subseteq EventsOf(f.run)

\* The run the page follows, or will once the answer to its post arrives.
Followed == IF request.kind = "posted" THEN request.run ELSE page.cur

\* Ways an event still reaches the page.
OnItsWay(e) ==
  \/ request.kind = "posted"
  \/ e \in page.seen
  \/ e \in socket.owed
  \/ \E i \in 1 .. Len(wire) : wire[i] = EventMessage(e)
  \/ \E f \in fetches : f.run = Followed /\ (~f.done \/ e \in f.events)

\* Its number is above the one the subscription starts, or will start, from.
Ahead(e) ==
  \/ /\ ~socket.open
     /\ e[2] > page.last
     /\ \A f \in fetches :
          f.run = Followed /\ f.done => \A d \in f.events : d[2] < e[2]
  \/ socket.open /\ socket.asked /\ socket.run = Followed /\ e[2] > socket.after

LastIsReal ==
  page.last # 0 => \E d \in EventsOf(page.cur) : d[2] = page.last

Reaches ==
  page.hydrated /\ ~spoilt =>
    /\ LastIsReal
    /\ \A e \in EventsOf(Followed) : OnItsWay(e) \/ Ahead(e)

Inductive == Typed /\ ServerFits /\ WireFits /\ PageFits /\ Reaches

----------------------------------------------------------------------------
(* Least and greatest numbers, of a replay and of the events that a page   *)
(* ingests.                                                                *)

\* Every set of numbers that is not empty has a least one.
LEMMA NatsHaveLeast ==
  ASSUME NEW T, T \subseteq Nat, T # {}
  PROVE  \E x \in T : \A y \in T : x <= y
<1>1. PICK x \in T : \A y \in T : ~(<<y, x>> \in OpToRel(<, Nat))
  BY NatLessThanWellFounded, WFMin, Zenon
<1>2. ASSUME NEW y \in T, y < x PROVE <<y, x>> \in OpToRel(<, Nat)
  BY <1>2 DEF OpToRel
<1>3. \A y \in T : ~(y < x)
  BY <1>1, <1>2
<1> QED BY <1>3

\* What Replay sends next is one of the events it owes.
LEMMA FirstIsOwed ==
  ASSUME NEW S, S \subseteq Events, S # {}
  PROVE  First(S) \in S
<1> DEFINE T == {e[2] : e \in S}
<1>1. T \subseteq Nat /\ T # {}
  BY BoundsAssumption DEF Events
<1>2. PICK x \in T : \A y \in T : x <= y
  <2> HIDE DEF T
  <2> QED BY <1>1, NatsHaveLeast
<1>3. PICK e \in S : e[2] = x
  BY <1>2
<1>4. \A d \in S : e[2] <= d[2]
  BY <1>2, <1>3
<1> QED BY <1>4 DEF First

\* The number a page remembers is that of an event it ingested, and no event
\* it ingested has a higher one.
LEMMA NewestIsGreatest ==
  ASSUME NEW S, S \subseteq Events
  PROVE  /\ Newest(S) \in 0 .. MaxSeq
         /\ Newest(S) = 0 \/ \E e \in S : e[2] = Newest(S)
         /\ \A e \in S : e[2] <= Newest(S)
<1>0. \A e \in S : e[2] \in 1 .. MaxSeq
  BY DEF Events
<1>1. \E n \in 0 .. MaxSeq : /\ n = 0 \/ \E e \in S : e[2] = n
                             /\ \A e \in S : e[2] <= n
  <2>1. CASE S = {}
    BY <2>1, BoundsAssumption
  <2>2. CASE S # {}
    <3> DEFINE T == {MaxSeq - e[2] : e \in S}
    <3>1. T \subseteq Nat /\ T # {}
      BY <1>0, <2>2, BoundsAssumption
    <3>2. PICK x \in T : \A y \in T : x <= y
      <4> HIDE DEF T
      <4> QED BY <3>1, NatsHaveLeast
    <3>3. PICK e \in S : x = MaxSeq - e[2]
      BY <3>2
    <3>4. \A d \in S : MaxSeq - e[2] <= MaxSeq - d[2]
      BY <3>2, <3>3
    <3>5. \A d \in S : d[2] <= e[2]
      BY <3>4, <1>0, BoundsAssumption
    <3> QED BY <1>0, <3>5, BoundsAssumption
  <2> QED BY <2>1, <2>2
<1>2. /\ Newest(S) \in 0 .. MaxSeq
      /\ Newest(S) = 0 \/ \E e \in S : e[2] = Newest(S)
      /\ \A e \in S : e[2] <= Newest(S)
  <2> DEFINE P(n) == /\ n = 0 \/ \E e \in S : e[2] = n
                     /\ \A e \in S : e[2] <= n
  <2>1. Newest(S) = CHOOSE n \in 0 .. MaxSeq : P(n)
    BY DEF Newest
  <2>2. \E n \in 0 .. MaxSeq : P(n)
    BY <1>1
  <2> HIDE DEF P
  <2>3. Newest(S) \in 0 .. MaxSeq /\ P(Newest(S))
    BY <2>1, <2>2, Zenon
  <2> QED BY <2>3 DEF P
<1> QED BY <1>2

----------------------------------------------------------------------------
(* Types.                                                                  *)

\* What emit and the ends of a run push are messages of the protocol.
LEMMA MessageTypes ==
  /\ \A e \in Events : EventMessage(e) \in Messages
  /\ \A r \in Runs : \A k \in {"result", "cancelled", "error"} :
       [kind |-> k, run |-> r] \in Messages
BY DEF Events, EventMessage, Messages

\* Appending events to the view leaves it a count per event.
LEMMA ShowTypes ==
  ASSUME NEW S, NEW shown \in [Events -> 0 .. 2]
  PROVE  Show(S, shown) \in [Events -> 0 .. 2]
BY DEF Show

\* What handing a message over does to the wire.
LEMMA PushTypes ==
  ASSUME Typed, NEW m \in Messages, Push(m)
  PROVE  wire' \in Seq(Messages)
BY DEF Typed, Push

\* An event gets a number of its run that none has.
LEMMA NumberTypes ==
  ASSUME Typed, NEW r \in Runs, Number(r)
  PROVE  /\ numbered' \in [Runs -> 0 .. MaxSeq]
         /\ emitting' \subseteq Events
         /\ numbered'[r] = numbered[r] + 1 /\ numbered'[r] \in 1 .. MaxSeq
         /\ \A q \in Runs : q # r => numbered'[q] = numbered[q]
         /\ emitting' = emitting \cup {<<r, numbered'[r]>>}
<1>1. numbered[r] \in 0 .. MaxSeq /\ numbered[r] < MaxSeq
  BY DEF Typed, Number
<1>2. numbered[r] + 1 \in 1 .. MaxSeq
  BY <1>1, BoundsAssumption
<1>3. /\ numbered' = [numbered EXCEPT ![r] = numbered[r] + 1]
      /\ emitting' = emitting \cup {<<r, numbered[r] + 1>>}
  BY DEF Number
<1>4. numbered'[r] = numbered[r] + 1 /\ \A q \in Runs : q # r => numbered'[q] = numbered[q]
  BY <1>3 DEF Typed
<1>5. numbered' \in [Runs -> 0 .. MaxSeq]
  BY <1>2, <1>3 DEF Typed
<1>6. <<r, numbered[r] + 1>> \in Events
  BY <1>2 DEF Events
<1> QED BY <1>2, <1>3, <1>4, <1>5, <1>6 DEF Typed

\* The constants of the socket and the page are of their types.
LEMMA ConstantTypes ==
  /\ Lost \in SocketType /\ FreshPage \in PageType /\ NoRequest \in Requests
  /\ NothingShown \in [Events -> 0 .. 2]
  /\ Lost.open = FALSE /\ Lost.asked = FALSE /\ Lost.owed = {}
  /\ FreshPage.hydrated = FALSE /\ FreshPage.seen = {} /\ FreshPage.snapshot = {}
  /\ FreshPage.last = 0 /\ FreshPage.cur = NoRun
  /\ NoRequest.kind = "none" /\ <<>> \in Seq(Messages)
  /\ \A e \in Events : NothingShown[e] = 0
<1>1. 0 \in 0 .. MaxRuns /\ 0 \in 0 .. MaxSeq
  BY BoundsAssumption
<1> QED
  BY <1>1 DEF Lost, FreshPage, NoRequest, NoRun, SocketType, PageType, Requests,
     Statuses, NothingShown

\* The backend and the page start in the types above.
LEMMA InitTyped == Init => Typed
<1> SUFFICES ASSUME Init PROVE Typed
  OBVIOUS
<1>1. 0 \in 0 .. MaxRuns /\ 0 \in 0 .. MaxSeq
  BY BoundsAssumption
<1>2. /\ socket \in SocketType /\ page \in PageType /\ request \in Requests
      /\ view \in [Events -> 0 .. 2] /\ wire \in Seq(Messages)
  BY ConstantTypes DEF Init
<1>3. /\ task \in [Runs -> Tasks] /\ status \in [Runs -> Statuses]
      /\ failure \in [Runs -> 0 .. MaxSeq] /\ numbered \in [Runs -> 0 .. MaxSeq]
  BY <1>1 DEF Init, Tasks, Statuses
<1>4. /\ posted \in 0 .. MaxRuns /\ emitting \subseteq Events /\ journal \subseteq Events
      /\ fetches \subseteq FetchType /\ spoilt \in BOOLEAN
  BY <1>1 DEF Init
<1> QED BY <1>2, <1>3, <1>4 DEF Typed

\* POST /api/task: one more run, tasks and statuses as they should be.
LEMMA CreateRunTypes ==
  ASSUME Typed, CreateRun
  PROVE  /\ posted' = posted + 1 /\ posted' \in Runs
         /\ task' \in [Runs -> Tasks] /\ status' \in [Runs -> Statuses]
         /\ UNCHANGED <<failure, numbered>>
<1>1. posted' = posted + 1 /\ posted' \in Runs
  BY BoundsAssumption DEF Typed, CreateRun, Runs
<1>2. \A r \in Runs : task[r] \in Tasks /\ status[r] \in Statuses
  BY DEF Typed
<1>3. task' \in [Runs -> Tasks] /\ status' \in [Runs -> Statuses]
  BY <1>2 DEF CreateRun, Tasks, Statuses
<1> QED BY <1>1, <1>3 DEF CreateRun

\* The three ends of a run write its task and status and push one message.
LEMMA EndTypes ==
  ASSUME Typed, NEW r \in Runs, NEW s \in Statuses,
         NEW k \in {"result", "cancelled", "error"}, End(r, s, k)
  PROVE  /\ task' \in [Runs -> Tasks] /\ status' \in [Runs -> Statuses]
         /\ wire' \in Seq(Messages)
         /\ UNCHANGED <<posted, journal, socket, client>>
<1>1. Push([kind |-> k, run |-> r]) /\ [kind |-> k, run |-> r] \in Messages
  BY MessageTypes DEF End
<1>2. wire' \in Seq(Messages)
  BY <1>1, PushTypes
<1>3. task' \in [Runs -> Tasks] /\ status' \in [Runs -> Statuses]
  BY DEF End, Typed, Tasks
<1> QED BY <1>2, <1>3 DEF End, client

----------------------------------------------------------------------------
(* What each action does to the page and to the socket, field by field.    *)

\* What a step may do to the page without showing or forgetting anything.
SamePage ==
  /\ page'.hydrated = page.hydrated /\ page'.cur = page.cur
  /\ page'.last = page.last /\ page'.seen = page.seen
  /\ page'.snapshot = page.snapshot

Uis == Statuses \cup {"idle"}

\* ingestEvents: the numbers remembered, the events seen, the view.
LEMMA IngestEffect ==
  ASSUME Typed, NEW S, S \subseteq Events, NEW ui \in Uis, Ingest(S, ui)
  PROVE  /\ page' \in PageType /\ view' \in [Events -> 0 .. 2]
         /\ page'.hydrated = page.hydrated /\ page'.cur = page.cur
         /\ page'.snapshot = page.snapshot
         /\ page'.seen = page.seen \cup S
         /\ page'.last = AtLeast(page.last, Newest(S))
         /\ \A e \in Events :
              view'[e] = IF e \in S /\ e \notin page.seen /\ view[e] < 2
                         THEN view[e] + 1 ELSE view[e]
<1>1. page \in PageType /\ Newest(S) \in 0 .. MaxSeq
  BY NewestIsGreatest DEF Typed
<1>2. AtLeast(page.last, Newest(S)) \in 0 .. MaxSeq
  BY <1>1 DEF AtLeast, PageType
<1>3. page' = [page EXCEPT !.last = AtLeast(page.last, Newest(S)),
                           !.seen = page.seen \cup S, !.ui = ui]
  BY DEF Ingest
<1>4. page.seen \cup S \in SUBSET Events
  BY <1>1 DEF PageType
<1>5. page' \in PageType
  BY <1>1, <1>2, <1>3, <1>4 DEF PageType, Uis
<1>6. /\ page'.hydrated = page.hydrated /\ page'.cur = page.cur
      /\ page'.snapshot = page.snapshot
      /\ page'.seen = page.seen \cup S
      /\ page'.last = AtLeast(page.last, Newest(S))
  BY <1>1, <1>3 DEF PageType
<1>7. view' = Show(S \ page.seen, view)
  BY DEF Ingest, Unseen
<1>8. view' \in [Events -> 0 .. 2]
  BY <1>7, ShowTypes DEF Typed
<1>9. \A e \in Events :
        view'[e] = IF e \in S /\ e \notin page.seen /\ view[e] < 2
                   THEN view[e] + 1 ELSE view[e]
  BY <1>7 DEF Show
<1> QED BY <1>5, <1>6, <1>8, <1>9

\* A message from the wire is ingested if it is an event of the run the page
\* follows; any other leaves what is shown alone.
LEMMA ReceiveEffect ==
  ASSUME Typed, Receive
  PROVE  /\ wire # <<>> /\ wire' = Tail(wire) /\ Head(wire) \in Messages
         /\ UNCHANGED <<server, flow, socket, fetches, request, spoilt, faults>>
         /\ page' \in PageType /\ view' \in [Events -> 0 .. 2]
         /\ \/ /\ Head(wire).kind = "event" /\ Head(wire).run = page.cur
               /\ <<Head(wire).run, Head(wire).seq>> \in Events
               /\ \E ui \in Uis : Ingest({<<Head(wire).run, Head(wire).seq>>}, ui)
            \/ /\ Head(wire).kind = "event" => Head(wire).run # page.cur
               /\ SamePage /\ view' = view
<1> DEFINE m == Head(wire)
<1>1. /\ wire # <<>> /\ wire' = Tail(wire) /\ m \in Messages
      /\ UNCHANGED <<server, flow, socket, fetches, request, spoilt, faults>>
  BY DEF Typed, Receive
<1>2. page \in PageType /\ view \in [Events -> 0 .. 2]
  BY DEF Typed
<1>3. UiAfter(m) \in Uis
  <2>1. page.ui \in Uis
    BY <1>2 DEF PageType, Uis
  <2>2. m.kind \in {"event", "result", "cancelled", "error"}
    BY <1>1 DEF Messages
  <2> QED BY <2>1, <2>2 DEF UiAfter, Uis, Statuses
<1>4. CASE ~Belongs(m)
  <2>1. page' = page /\ view' = view
    BY <1>4 DEF Receive
  <2> QED BY <1>1, <1>2, <1>4, <2>1 DEF Belongs, SamePage
<1>5. CASE Belongs(m) /\ m.kind = "event"
  <2>1. Ingest({<<m.run, m.seq>>}, UiAfter(m))
    BY <1>5 DEF Receive
  <2>2. m.run = page.cur
    BY <1>5 DEF Belongs
  <2>3. <<m.run, m.seq>> \in Events
    BY <1>1, <1>5 DEF Messages, Events
  <2>4. page' \in PageType /\ view' \in [Events -> 0 .. 2]
    <3>1. {<<m.run, m.seq>>} \subseteq Events
      BY <2>3
    <3> HIDE DEF m
    <3> QED BY <1>3, <2>1, <3>1, IngestEffect
  <2> QED BY <1>1, <1>3, <1>5, <2>1, <2>2, <2>3, <2>4
<1>6. CASE Belongs(m) /\ m.kind # "event"
  <2>1. page' = [page EXCEPT !.ui = UiAfter(m)] /\ view' = view
    BY <1>6 DEF Receive
  <2>2. page' \in PageType
    BY <1>2, <1>3, <2>1 DEF PageType, Uis
  <2>3. SamePage
    BY <1>2, <2>1 DEF PageType, SamePage
  <2> QED BY <1>1, <1>2, <1>6, <2>1, <2>2, <2>3
<1> QED BY <1>4, <1>5, <1>6

\* hydrateFromServer: the page follows the latest run and shows the snapshot.
LEMMA BootstrapEffect ==
  ASSUME Typed, Bootstrap
  PROVE  /\ page' \in PageType /\ view' \in [Events -> 0 .. 2]
         /\ page'.hydrated /\ page'.cur = posted
         /\ page'.seen = page.snapshot /\ page'.snapshot = {}
         /\ page'.last = IF posted = NoRun THEN 0 ELSE Newest(EventsOf(posted))
         /\ \A e \in Events : view'[e] = IF e \in page.snapshot THEN 1 ELSE 0
         /\ spoilt' = (page.snapshot # EventsOf(posted))
         /\ ~page.hydrated
         /\ UNCHANGED <<server, flow, link, fetches, request, faults>>
<1>1. page \in PageType /\ posted \in 0 .. MaxRuns /\ status \in [Runs -> Statuses]
  BY DEF Typed
<1>2. EventsOf(posted) \subseteq Events
  BY DEF Typed, EventsOf
<1>3. Newest(EventsOf(posted)) \in 0 .. MaxSeq /\ 0 \in 0 .. MaxSeq
  BY <1>2, NewestIsGreatest, BoundsAssumption
<1> DEFINE ui == IF posted = NoRun THEN "idle" ELSE UiOf(status[posted])
           last == IF posted = NoRun THEN 0 ELSE Newest(EventsOf(posted))
<1>4. ui \in Uis
  <2>1. CASE posted = NoRun
    BY <2>1 DEF Uis
  <2>2. CASE posted # NoRun
    <3>1. posted \in Runs
      BY <1>1, <2>2, BoundsAssumption DEF Runs, NoRun
    <3> QED BY <1>1, <2>2, <3>1 DEF Uis, UiOf
  <2> QED BY <2>1, <2>2
<1>5. last \in 0 .. MaxSeq
  BY <1>3
<1>6. page' = [FreshPage EXCEPT !.hydrated = TRUE, !.cur = posted,
                 !.seen = page.snapshot, !.last = last, !.ui = ui]
  BY DEF Bootstrap, Latest, LastEventSeq
<1>7. page' \in PageType
  <2> HIDE DEF ui, last
  <2> QED BY <1>1, <1>4, <1>5, <1>6, ConstantTypes DEF PageType, Uis
<1>8. /\ page'.hydrated /\ page'.cur = posted
      /\ page'.seen = page.snapshot /\ page'.snapshot = {}
      /\ page'.last = last
  <2> HIDE DEF ui, last
  <2> QED BY <1>6, ConstantTypes DEF PageType
<1>9. view' = Show(page.snapshot, NothingShown)
  BY DEF Bootstrap
<1>10. view' \in [Events -> 0 .. 2]
  BY <1>9, ShowTypes, ConstantTypes
<1>11. \A e \in Events : view'[e] = IF e \in page.snapshot THEN 1 ELSE 0
  BY <1>9, ConstantTypes DEF Show
<1> QED BY <1>7, <1>8, <1>10, <1>11 DEF Bootstrap, Latest

\* submitTask resets the page before the post is answered.
LEMMA SubmitEffect ==
  ASSUME Typed, Submit
  PROVE  /\ page' \in PageType /\ view' \in [Events -> 0 .. 2]
         /\ request' \in Requests /\ request'.kind = "posted" /\ request'.run = posted'
         /\ page.hydrated /\ page'.hydrated /\ page'.cur = NoRun /\ page'.last = 0
         /\ page'.seen = {} /\ page'.snapshot = page.snapshot
         /\ view' = NothingShown /\ CreateRun
         /\ UNCHANGED <<flow, link, fetches, faults>>
<1>1. page \in PageType
  BY DEF Typed
<1>2. posted' \in Runs
  BY CreateRunTypes DEF Submit
<1>3. 0 \in 0 .. MaxRuns /\ 0 \in 0 .. MaxSeq
  BY BoundsAssumption
<1>4. page' = [page EXCEPT !.cur = NoRun, !.last = 0, !.seen = {}, !.ui = "running"]
  BY DEF Submit
<1>5. page' \in PageType
  BY <1>1, <1>3, <1>4 DEF PageType, NoRun, Statuses
<1>6. /\ page'.hydrated = page.hydrated /\ page'.cur = NoRun /\ page'.last = 0
      /\ page'.seen = {} /\ page'.snapshot = page.snapshot
  BY <1>1, <1>4 DEF PageType
<1>7. request' \in Requests /\ request'.kind = "posted" /\ request'.run = posted'
  BY <1>2, BoundsAssumption DEF Submit, Requests, Runs
<1> QED BY <1>5, <1>6, <1>7, ConstantTypes DEF Submit

\* The first read of a bootstrap takes the journal of the latest run.
LEMMA ReadBootstrapEffect ==
  ASSUME Typed, ReadBootstrap
  PROVE  /\ page' \in PageType /\ ~page.hydrated /\ ~page'.hydrated
         /\ page'.cur = page.cur /\ page'.last = page.last /\ page'.seen = page.seen
         /\ page'.snapshot = EventsOf(posted)
         /\ UNCHANGED <<server, flow, link, fetches, request, view, spoilt, faults>>
<1>1. page \in PageType /\ EventsOf(posted) \in SUBSET Events
  BY DEF Typed, EventsOf
<1>2. page' = [page EXCEPT !.read = TRUE, !.snapshot = EventsOf(posted)]
  BY DEF ReadBootstrap, Latest
<1>3. page' \in PageType
  BY <1>1, <1>2 DEF PageType
<1>4. /\ page'.hydrated = page.hydrated /\ page'.cur = page.cur
      /\ page'.last = page.last /\ page'.seen = page.seen
      /\ page'.snapshot = EventsOf(posted)
  BY <1>1, <1>2 DEF PageType
<1> QED BY <1>3, <1>4 DEF ReadBootstrap

\* The answer to the post: the run is followed and a fetch of it is sent.
LEMMA FollowEffect ==
  ASSUME Typed, Follow
  PROVE  /\ page' \in PageType /\ request' = NoRequest
         /\ request.run \in Runs => fetches' \subseteq FetchType
         /\ request.kind = "posted"
         /\ page'.hydrated = page.hydrated /\ page'.cur = request.run
         /\ page'.last = page.last /\ page'.seen = page.seen
         /\ page'.snapshot = page.snapshot
         /\ request.run \in Runs =>
              \E f \in fetches' : f.run = request.run /\ ~f.done
         /\ \A f \in fetches' : f \in fetches \/ f.events = {}
         /\ UNCHANGED <<server, flow, link, view, spoilt, faults>>
<1>1. page \in PageType /\ request \in Requests
  BY DEF Typed
<1> DEFINE f == [run |-> request.run, done |-> FALSE, events |-> {}]
<1>2. page' = [page EXCEPT !.cur = request.run] /\ fetches' = fetches \cup {f}
  BY DEF Follow
<1>3. page' \in PageType
  BY <1>1, <1>2 DEF PageType, Requests
<1>4. /\ page'.hydrated = page.hydrated /\ page'.cur = request.run
      /\ page'.last = page.last /\ page'.seen = page.seen
      /\ page'.snapshot = page.snapshot
  BY <1>1, <1>2 DEF PageType
<1>5. f.run = request.run /\ f.done = FALSE /\ f.events = {}
  OBVIOUS
<1>6. request.run \in Runs => f \in FetchType
  BY DEF FetchType
<1> HIDE DEF f
<1> QED BY <1>2, <1>3, <1>4, <1>5, <1>6 DEF Follow, Typed

\* An answer that changes only the status shown.
LEMMA UiEffect ==
  ASSUME Typed, NEW ui \in Uis, page' = [page EXCEPT !.ui = ui]
  PROVE  page' \in PageType /\ SamePage
BY DEF Typed, PageType, SamePage, Uis

\* A cancellation leaves what is shown alone.
LEMMA AskCancelEffect ==
  ASSUME Typed, AskCancel
  PROVE  /\ page' \in PageType /\ SamePage /\ page.hydrated
         /\ task' \in [Runs -> Tasks] /\ status' \in [Runs -> Statuses]
         /\ request = NoRequest /\ request' \in Requests /\ request'.kind = "stopping"
         /\ posted \in Runs /\ task[posted] # "none"
         /\ task' = [task EXCEPT ![posted] = "stopping"]
         /\ UNCHANGED <<posted, failure, numbered, flow, link, fetches, view, spoilt,
                        faults>>
<1>1. page' \in PageType /\ SamePage
  BY UiEffect DEF AskCancel, Uis, Statuses
<1>2. posted \in Runs
  BY BoundsAssumption DEF Typed, AskCancel, Latest, NoRun, Runs
<1>3. task' \in [Runs -> Tasks] /\ status' \in [Runs -> Statuses]
  BY DEF Typed, AskCancel, Tasks, Statuses
<1>4. request' \in Requests /\ request'.kind = "stopping"
  BY <1>2, BoundsAssumption DEF AskCancel, Latest, Requests, Runs
<1> QED BY <1>1, <1>2, <1>3, <1>4 DEF AskCancel, Latest

\* So does its answer.
LEMMA AnswerCancelEffect ==
  ASSUME Typed, AnswerCancel
  PROVE  /\ page' \in PageType /\ SamePage /\ request.kind = "stopping"
         /\ request' = NoRequest
         /\ UNCHANGED <<server, flow, link, fetches, view, spoilt, faults>>
<1> DEFINE ui == IF task[request.run] = "stopping" THEN page.ui ELSE "interrupted"
<1>1. ui \in Uis
  BY DEF Typed, PageType, Uis, Statuses
<1>2. page' = [page EXCEPT !.ui = ui]
  BY DEF AnswerCancel
<1> HIDE DEF ui
<1>3. page' \in PageType /\ SamePage
  BY <1>1, <1>2, UiEffect
<1> QED BY <1>3 DEF AnswerCancel

\* onopen subscribes to the run followed, after the last number seen.
LEMMA ConnectEffect ==
  ASSUME Typed, Connect
  PROVE  /\ socket' \in SocketType /\ socket'.open /\ socket'.asked
         /\ socket'.run = page.cur /\ socket'.after = page.last /\ socket'.owed = {}
         /\ ~socket.open /\ page.hydrated
         /\ UNCHANGED <<server, flow, wire, client, faults>>
<1>1. socket' = [Connected EXCEPT !.asked = TRUE, !.run = page.cur, !.after = page.last]
  BY DEF Connect
<1>2. Connected \in SocketType /\ Connected.open /\ Connected.owed = {}
  BY ConstantTypes DEF Connected, SocketType
<1>3. page.cur \in 0 .. MaxRuns /\ page.last \in 0 .. MaxSeq
  BY DEF Typed, PageType
<1>4. socket' \in SocketType
  BY <1>1, <1>2, <1>3 DEF SocketType
<1>5. /\ socket'.open /\ socket'.asked /\ socket'.run = page.cur
      /\ socket'.after = page.last /\ socket'.owed = {}
  BY <1>1, <1>2 DEF SocketType
<1> QED BY <1>4, <1>5 DEF Connect

\* The replay owes every event of the run above the number asked for.
LEMMA SubscribeEffect ==
  ASSUME Typed, Subscribe
  PROVE  /\ socket' \in SocketType /\ socket'.open /\ ~socket'.asked
         /\ socket'.owed \subseteq journal
         /\ socket.run # NoRun =>
              \A e \in EventsOf(socket.run) : e[2] > socket.after => e \in socket'.owed
         /\ socket.open /\ socket.asked
         /\ UNCHANGED <<server, flow, wire, client, faults>>
<1> DEFINE r == IF socket.run = NoRun THEN Latest ELSE socket.run
           owed == After(EventsOf(r), socket.after)
<1>1. socket' = [Connected EXCEPT !.owed = owed]
  BY DEF Subscribe
<1>2. Connected \in SocketType /\ Connected.open /\ ~Connected.asked
  BY ConstantTypes DEF Connected, SocketType
<1>3. owed \subseteq journal /\ journal \subseteq Events
  BY DEF Typed, After, EventsOf
<1>4. socket' \in SocketType /\ socket'.open /\ ~socket'.asked /\ socket'.owed = owed
  <2> HIDE DEF owed
  <2> QED BY <1>1, <1>2, <1>3 DEF SocketType
<1>5. socket.run # NoRun =>
        \A e \in EventsOf(socket.run) : e[2] > socket.after => e \in owed
  BY DEF After
<1> QED BY <1>3, <1>4, <1>5 DEF Subscribe

\* _maybe_replay_subscribe sends one of the events it owes.
LEMMA ReplayEffect ==
  ASSUME Typed, Replay
  PROVE  /\ socket' \in SocketType /\ socket'.open = socket.open
         /\ socket'.asked = socket.asked /\ socket'.run = socket.run
         /\ socket'.after = socket.after
         /\ \E e \in socket.owed :
              /\ e \in Events /\ socket'.owed = socket.owed \ {e}
              /\ wire' = Append(wire, EventMessage(e)) /\ EventMessage(e) \in Messages
         /\ wire' \in Seq(Messages) /\ socket.open
         /\ UNCHANGED <<server, flow, client, faults>>
<1>1. socket \in SocketType /\ socket.owed \subseteq Events /\ wire \in Seq(Messages)
  BY DEF Typed, SocketType
<1>2. PICK e \in socket.owed : e = First(socket.owed)
  BY <1>1, FirstIsOwed DEF Replay
<1>3. socket' = [socket EXCEPT !.owed = socket.owed \ {e}]
      /\ wire' = Append(wire, EventMessage(e))
  BY <1>2 DEF Replay
<1>4. e \in Events /\ EventMessage(e) \in Messages
  BY <1>1, MessageTypes
<1>5. socket' \in SocketType
  BY <1>1, <1>3 DEF SocketType
<1>6. /\ socket'.open = socket.open /\ socket'.asked = socket.asked
      /\ socket'.run = socket.run /\ socket'.after = socket.after
      /\ socket'.owed = socket.owed \ {e}
  BY <1>1, <1>3 DEF SocketType
<1>7. wire' \in Seq(Messages)
  BY <1>1, <1>3, <1>4
<1> QED BY <1>3, <1>4, <1>5, <1>6, <1>7 DEF Replay

\* list_run_events answers with the journal of the run.
LEMMA AnswerFetchEffect ==
  ASSUME Typed, NEW f \in fetches, AnswerFetch(f)
  PROVE  /\ fetches' \subseteq FetchType /\ ~f.done
         /\ \E g \in FetchType :
              /\ g.run = f.run /\ g.done /\ g.events = EventsOf(f.run)
              /\ fetches' = (fetches \ {f}) \cup {g}
         /\ UNCHANGED <<server, flow, link, request, page, view, spoilt, faults>>
<1>1. f \in FetchType /\ EventsOf(f.run) \in SUBSET Events
  BY DEF Typed, EventsOf
<1> DEFINE g == [f EXCEPT !.done = TRUE, !.events = EventsOf(f.run)]
<1>2. g \in FetchType /\ g.run = f.run /\ g.done /\ g.events = EventsOf(f.run)
  BY <1>1 DEF FetchType
<1>3. fetches' = (fetches \ {f}) \cup {g}
  BY DEF AnswerFetch
<1> HIDE DEF g
<1>4. fetches' \subseteq FetchType
  BY <1>2, <1>3 DEF Typed
<1> QED BY <1>2, <1>3, <1>4 DEF AnswerFetch

\* The answer is ingested, whatever run the page follows.
LEMMA TakeFetchEffect ==
  ASSUME Typed, NEW f \in fetches, TakeFetch(f)
  PROVE  /\ f \in FetchType /\ f.done /\ fetches' = fetches \ {f}
         /\ \E ui \in Uis : Ingest(f.events, ui)
         /\ spoilt' = (spoilt \/ f.run # page.cur)
         /\ UNCHANGED <<server, flow, link, request, faults>>
BY DEF Typed, TakeFetch, PageType, Uis

\* A dead backend leaves the page with what it shows, and nothing on its way.
LEMMA CrashEffect ==
  ASSUME Typed, Crash
  PROVE  /\ page' \in PageType
         /\ page.hydrated => SamePage
         /\ ~page.hydrated => page' = FreshPage
         /\ task' \in [Runs -> Tasks] /\ status' \in [Runs -> Statuses]
         /\ \A r \in Runs : task[r] = "none" => task'[r] = "none"
         /\ socket' = Lost /\ wire' = <<>> /\ fetches' = {} /\ request' = NoRequest
         /\ emitting' = {} /\ spoilt' = TRUE
         /\ UNCHANGED <<posted, failure, numbered, journal, view>>
<1> DEFINE ui == IF request.kind = "posted" THEN "idle"
                 ELSE IF request # NoRequest /\ page.ui = "cancelling" THEN "running"
                 ELSE page.ui
<1>1. ui \in Uis
  BY DEF Typed, PageType, Uis, Statuses
<1>2. page' = IF page.hydrated THEN [page EXCEPT !.ui = ui] ELSE FreshPage
  BY DEF Crash
<1> HIDE DEF ui
<1>3. page.hydrated => page' \in PageType /\ SamePage
  BY <1>1, <1>2, UiEffect
<1>4. page' \in PageType /\ (page.hydrated => SamePage) /\ (~page.hydrated => page' = FreshPage)
  BY <1>2, <1>3, ConstantTypes
<1>5. task' \in [Runs -> Tasks] /\ status' \in [Runs -> Statuses]
      /\ \A r \in Runs : task[r] = "none" => task'[r] = "none"
  BY DEF Typed, Crash, Tasks, Statuses
<1>6. /\ socket' = Lost /\ wire' = <<>> /\ fetches' = {} /\ request' = NoRequest
      /\ emitting' = {} /\ spoilt' = TRUE
      /\ UNCHANGED <<posted, failure, numbered, journal, view>>
  BY Zenon DEF Crash
<1> QED BY <1>4, <1>5, <1>6

\* Every step keeps the types.
LEMMA TypedStep == Typed /\ PageFits /\ [Next]_vars => Typed'
<1> SUFFICES ASSUME Typed, PageFits, [Next]_vars PROVE Typed'
  OBVIOUS
<1> USE DEF server, flow, link, client
<1>1. CASE UNCHANGED vars
  BY <1>1 DEF Typed, vars
<1>2. ASSUME NEW e \in emitting, Emit(e) PROVE Typed'
  <2>1. e \in Events /\ EventMessage(e) \in Messages
    BY MessageTypes DEF Typed
  <2>2. wire' \in Seq(Messages)
    <3>1. Push(EventMessage(e))
      BY <1>2 DEF Emit
    <3> QED BY <2>1, <3>1, PushTypes
  <2>3. spoilt' \in BOOLEAN
    BY <1>2 DEF Emit, Typed
  <2> QED BY <1>2, <2>1, <2>2, <2>3 DEF Emit, Typed
<1>3. CASE Connect
  BY <1>3, ConnectEffect DEF Typed
<1>4. CASE Subscribe
  BY <1>4, SubscribeEffect DEF Typed
<1>5. CASE Replay
  BY <1>5, ReplayEffect DEF Typed
<1>6. CASE Receive
  <2>1. wire' \in Seq(Messages)
    <3>1. wire \in Seq(Messages) /\ wire # <<>> /\ wire' = Tail(wire)
      BY <1>6, ReceiveEffect DEF Typed
    <3> QED BY <3>1
  <2> QED BY <1>6, <2>1, ReceiveEffect DEF Typed
<1>7. CASE ReadBootstrap
  BY <1>7, ReadBootstrapEffect DEF Typed
<1>8. CASE Bootstrap
  BY <1>8, BootstrapEffect DEF Typed
<1>9. CASE Follow
  <2>1. request.run \in Runs
    BY <1>9, BoundsAssumption DEF Follow, PageFits, Typed, Runs
  <2> QED BY <1>9, <2>1, FollowEffect, ConstantTypes DEF Typed
<1>10. CASE AnswerCancel
  BY <1>10, AnswerCancelEffect, ConstantTypes DEF Typed
<1>11. ASSUME NEW f \in fetches, AnswerFetch(f) PROVE Typed'
  BY <1>11, AnswerFetchEffect DEF Typed
<1>12. ASSUME NEW f \in fetches, TakeFetch(f) PROVE Typed'
  <2>1. f \in FetchType /\ fetches' = fetches \ {f} /\ spoilt' \in BOOLEAN
    BY <1>12, TakeFetchEffect DEF Typed
  <2>2. PICK ui \in Uis : Ingest(f.events, ui)
    BY <1>12, TakeFetchEffect
  <2>3. f.events \subseteq Events
    BY <2>1 DEF FetchType
  <2>4. page' \in PageType /\ view' \in [Events -> 0 .. 2]
    BY <2>2, <2>3, IngestEffect
  <2> QED BY <1>12, <2>1, <2>4, TakeFetchEffect DEF Typed
<1>13. ASSUME NEW r \in Runs, TakeNumber(r) PROVE Typed'
  BY <1>13, NumberTypes DEF TakeNumber, Typed
<1>14. ASSUME NEW r \in Runs, Complete(r) PROVE Typed'
  <2>1. End(r, "completed", "result") /\ UNCHANGED <<numbered, failure, emitting>>
    BY <1>14 DEF Complete
  <2>2. /\ task' \in [Runs -> Tasks] /\ status' \in [Runs -> Statuses]
        /\ wire' \in Seq(Messages) /\ UNCHANGED <<posted, journal, socket, client>>
    BY <2>1, EndTypes DEF Statuses
  <2> QED BY <2>1, <2>2 DEF Typed
<1>15. ASSUME NEW r \in Runs, Fail(r) PROVE Typed'
  <2>1. End(r, "failed", "error") /\ Number(r) /\ failure' = [failure EXCEPT ![r] = numbered'[r]]
    BY <1>15 DEF Fail
  <2>2. /\ task' \in [Runs -> Tasks] /\ status' \in [Runs -> Statuses]
        /\ wire' \in Seq(Messages) /\ UNCHANGED <<posted, journal, socket, client>>
    BY <2>1, EndTypes DEF Statuses
  <2>3. /\ numbered' \in [Runs -> 0 .. MaxSeq] /\ emitting' \subseteq Events
        /\ numbered'[r] \in 0 .. MaxSeq
    BY <2>1, NumberTypes
  <2>4. failure' \in [Runs -> 0 .. MaxSeq]
    BY <2>1, <2>3 DEF Typed
  <2> QED BY <2>2, <2>3, <2>4 DEF Typed
<1>16. ASSUME NEW r \in Runs, Stop(r) PROVE Typed'
  <2>1. End(r, "interrupted", "cancelled") /\ UNCHANGED <<numbered, failure, emitting>>
    BY <1>16 DEF Stop
  <2>2. /\ task' \in [Runs -> Tasks] /\ status' \in [Runs -> Statuses]
        /\ wire' \in Seq(Messages) /\ UNCHANGED <<posted, journal, socket, client>>
    BY <2>1, EndTypes DEF Statuses
  <2> QED BY <2>1, <2>2 DEF Typed
<1>17. CASE Submit
  <2>1. posted' \in 0 .. MaxRuns /\ task' \in [Runs -> Tasks]
        /\ status' \in [Runs -> Statuses] /\ UNCHANGED <<failure, numbered>>
    BY <1>17, CreateRunTypes, BoundsAssumption DEF Submit, Runs
  <2>2. spoilt' \in BOOLEAN
    BY <1>17 DEF Submit
  <2> QED BY <1>17, <2>1, <2>2, SubmitEffect DEF Typed
<1>18. CASE AskCancel
  BY <1>18, AskCancelEffect DEF Typed
<1>19. CASE PostElsewhere
  <2>1. posted' \in 0 .. MaxRuns /\ task' \in [Runs -> Tasks]
        /\ status' \in [Runs -> Statuses] /\ UNCHANGED <<failure, numbered>>
    BY <1>19, CreateRunTypes, BoundsAssumption DEF PostElsewhere, Runs
  <2> QED BY <1>19, <2>1 DEF PostElsewhere, Typed
<1>20. CASE Drop
  <2>1. spoilt' \in BOOLEAN
    BY <1>20 DEF Drop, Typed
  <2> QED BY <1>20, <2>1, ConstantTypes DEF Drop, Typed
<1>21. CASE Reload
  BY <1>21, ConstantTypes DEF Reload, Typed
<1>22. CASE Crash
  BY <1>22, CrashEffect, ConstantTypes DEF Typed
<1>23. ASSUME NEW f \in fetches, LoseFetch(f) PROVE Typed'
  BY <1>23 DEF LoseFetch, Typed
<1> QED
  BY <1>1, <1>2, <1>3, <1>4, <1>5, <1>6, <1>7, <1>8, <1>9, <1>10, <1>11, <1>12, <1>13,
     <1>14, <1>15, <1>16, <1>17, <1>18, <1>19, <1>20, <1>21, <1>22, <1>23
  DEF Next, Emission, Link, Answers, Work, User, Fault

----------------------------------------------------------------------------
(* The runs and the wire.                                                  *)

\* Appending to the wire keeps what is on it.
LEMMA AppendKeeps ==
  ASSUME NEW w \in Seq(Messages), NEW m \in Messages
  PROVE  /\ \A i \in 1 .. Len(Append(w, m)) :
              Append(w, m)[i] = m \/ (i \in 1 .. Len(w) /\ Append(w, m)[i] = w[i])
         /\ \A i \in 1 .. Len(w) :
              i \in 1 .. Len(Append(w, m)) /\ Append(w, m)[i] = w[i]
         /\ \E i \in 1 .. Len(Append(w, m)) : Append(w, m)[i] = m
<1>1. /\ Len(Append(w, m)) = Len(w) + 1 /\ Len(w) \in Nat
      /\ \A i \in 1 .. Len(w) : Append(w, m)[i] = w[i]
      /\ Append(w, m)[Len(w) + 1] = m
  OBVIOUS
<1> QED BY <1>1

\* Taking the first message keeps the others.
LEMMA TailKeeps ==
  ASSUME NEW w \in Seq(Messages), w # <<>>
  PROVE  /\ \A i \in 1 .. Len(Tail(w)) : i + 1 \in 1 .. Len(w) /\ Tail(w)[i] = w[i + 1]
         /\ \A i \in 1 .. Len(w) :
              \/ w[i] = Head(w)
              \/ \E j \in 1 .. Len(Tail(w)) : Tail(w)[j] = w[i]
         /\ \E i \in 1 .. Len(w) : Head(w) = w[i]
<1>1. /\ Len(w) \in Nat /\ Len(w) >= 1 /\ Len(Tail(w)) = Len(w) - 1 /\ Head(w) = w[1]
      /\ \A i \in 1 .. Len(Tail(w)) : Tail(w)[i] = w[i + 1]
  OBVIOUS
<1>2. ASSUME NEW i \in 1 .. Len(w), i # 1
      PROVE  i - 1 \in 1 .. Len(Tail(w)) /\ Tail(w)[i - 1] = w[i]
  BY <1>1, <1>2
<1> QED BY <1>1, <1>2

\* What is on the wire after a push, while there is a socket and while not.
LEMMA PushKeeps ==
  ASSUME Typed, NEW m \in Messages, Push(m)
  PROVE  /\ \A i \in 1 .. Len(wire') :
              \/ socket.open /\ wire'[i] = m
              \/ i \in 1 .. Len(wire) /\ wire'[i] = wire[i]
         /\ \A i \in 1 .. Len(wire) : i \in 1 .. Len(wire') /\ wire'[i] = wire[i]
         /\ socket.open => \E i \in 1 .. Len(wire') : wire'[i] = m
         /\ ~socket.open => wire' = wire
<1>1. wire \in Seq(Messages)
  BY DEF Typed
<1>2. CASE socket.open
  <2>1. wire' = Append(wire, m)
    BY <1>2 DEF Push
  <2> QED BY <1>1, <1>2, <2>1, AppendKeeps
<1>3. CASE ~socket.open
  <2>1. wire' = wire
    BY <1>3 DEF Push
  <2> QED BY <1>3, <2>1
<1> QED BY <1>2, <1>3

\* Every step keeps numbers given out, runs posted and events apart.
LEMMA ServerStep == Typed /\ PageFits /\ ServerFits /\ [Next]_vars => ServerFits'
<1> SUFFICES ASSUME Typed, PageFits, ServerFits, [Next]_vars PROVE ServerFits'
  OBVIOUS
<1> USE DEF server, flow, link, client
<1>1. UNCHANGED <<posted, task, numbered, journal, emitting>> => ServerFits'
  BY DEF ServerFits
<1>2. ASSUME NEW e \in emitting, Emit(e) PROVE ServerFits'
  BY <1>2 DEF Emit, ServerFits
<1>3. ASSUME NEW r \in Runs, Number(r), UNCHANGED <<posted, journal>>,
             task[r] # "none", \A q \in Runs : task'[q] # "none" => task[q] # "none"
      PROVE  ServerFits'
  <2>1. /\ numbered'[r] = numbered[r] + 1 /\ numbered[r] \in 0 .. MaxSeq
        /\ \A q \in Runs : q # r => numbered'[q] = numbered[q]
        /\ emitting' = emitting \cup {<<r, numbered'[r]>>}
    BY <1>3, NumberTypes DEF Typed
  <2>2. <<r, numbered'[r]>> \notin journal
    BY <2>1, BoundsAssumption DEF ServerFits
  <2>3. r <= posted
    BY <1>3 DEF ServerFits
  <2>4. \A e \in journal \cup emitting :
          e[1] \in Runs /\ e[2] \in 1 .. MaxSeq /\ numbered[e[1]] \in 0 .. MaxSeq
    BY DEF Typed, Events
  <2>5. \A e \in journal \cup emitting : numbered[e[1]] <= numbered'[e[1]]
    BY <2>1, <2>4, BoundsAssumption
  <2>6. numbered'[r] \in Nat
    BY <2>1, BoundsAssumption
  <2>7. \A e \in journal \cup emitting : numbered'[e[1]] \in Nat
    BY <2>1, <2>4, <2>6, BoundsAssumption
  <2>8. \A e \in journal \cup emitting : e[1] <= posted /\ e[2] <= numbered'[e[1]]
    BY <2>4, <2>5, <2>7, BoundsAssumption DEF ServerFits
  <2>9. \A e \in journal' \cup emitting' : e[1] <= posted' /\ e[2] <= numbered'[e[1]]
    BY <1>3, <2>1, <2>3, <2>6, <2>8
  <2>10. emitting' \cap journal' = {}
    BY <1>3, <2>1, <2>2 DEF ServerFits
  <2>11. \A q \in Runs : task'[q] # "none" => q <= posted'
    BY <1>3 DEF ServerFits
  <2> QED BY <2>9, <2>10, <2>11 DEF ServerFits
<1>4. ASSUME NEW r \in Runs, NEW s, NEW k, End(r, s, k), task[r] # "none"
      PROVE  /\ UNCHANGED <<posted, journal>>
             /\ \A q \in Runs : task'[q] # "none" => task[q] # "none"
  BY <1>4 DEF End, Typed
<1>5. ASSUME NEW r \in Runs, TakeNumber(r) PROVE ServerFits'
  BY <1>3, <1>5 DEF TakeNumber
<1>6. ASSUME NEW r \in Runs, Complete(r) PROVE ServerFits'
  BY <1>4, <1>6 DEF Complete, ServerFits
<1>7. ASSUME NEW r \in Runs, Fail(r) PROVE ServerFits'
  BY <1>3, <1>4, <1>7 DEF Fail
<1>8. ASSUME NEW r \in Runs, Stop(r) PROVE ServerFits'
  BY <1>4, <1>8 DEF Stop, ServerFits
<1>9. ASSUME CreateRun, UNCHANGED <<journal, emitting>> PROVE ServerFits'
  <2>1. posted' = posted + 1 /\ posted \in Nat /\ numbered' = numbered
    BY <1>9, CreateRunTypes, BoundsAssumption DEF Typed
  <2>2. \A r \in Runs : task'[r] # "none" => r = posted + 1 \/ task[r] # "none"
    BY <1>9 DEF CreateRun
  <2>3. \A e \in journal \cup emitting : e[1] \in Nat
    BY BoundsAssumption DEF Typed, Events, Runs
  <2>4. \A r \in Runs : r \in Nat
    BY BoundsAssumption DEF Runs
  <2> QED BY <1>9, <2>1, <2>2, <2>3, <2>4 DEF ServerFits
<1>10. CASE AskCancel
  <2>1. /\ \A q \in Runs : task'[q] # "none" => task[q] # "none"
        /\ UNCHANGED <<posted, numbered, flow>>
    BY <1>10, AskCancelEffect DEF Typed
  <2> QED BY <2>1 DEF ServerFits
<1>11. CASE Crash
  BY <1>11, CrashEffect DEF ServerFits
<1>12. CASE Submit \/ PostElsewhere
  BY <1>9, <1>12 DEF Submit, PostElsewhere
<1>13. CASE UNCHANGED vars \/ Link \/ Answers \/ Drop \/ Reload
            \/ \E f \in fetches : LoseFetch(f)
  BY <1>1, <1>13
  DEF vars, Link, Connect, Subscribe, Replay, Receive, Answers, ReadBootstrap, Bootstrap,
      Follow, AnswerCancel, AnswerFetch, TakeFetch, Drop, Reload, LoseFetch
<1> QED
  BY <1>2, <1>5, <1>6, <1>7, <1>8, <1>10, <1>11, <1>12, <1>13
  DEF Next, Emission, Work, User, Fault

\* Every step keeps on the wire only what is journaled.
LEMMA WireStep == Typed /\ PageFits /\ WireFits /\ [Next]_vars => WireFits'
<1> SUFFICES ASSUME Typed, PageFits, WireFits, [Next]_vars PROVE WireFits'
  OBVIOUS
<1> USE DEF server, flow, link, client
<1>1. ASSUME UNCHANGED <<socket, wire>>, journal \subseteq journal' PROVE WireFits'
  BY <1>1 DEF WireFits
<1>2. ASSUME NEW m \in Messages, Push(m), UNCHANGED socket, journal \subseteq journal',
             m.kind = "event" => <<m.run, m.seq>> \in journal'
      PROVE  WireFits'
  <2>1. /\ \A i \in 1 .. Len(wire') :
             \/ socket.open /\ wire'[i] = m
             \/ i \in 1 .. Len(wire) /\ wire'[i] = wire[i]
        /\ ~socket.open => wire' = wire
    BY <1>2, PushKeeps
  <2> QED BY <1>2, <2>1 DEF WireFits
<1>3. ASSUME NEW e \in emitting, Emit(e) PROVE WireFits'
  <2>1. e \in Events /\ EventMessage(e) \in Messages
    BY MessageTypes DEF Typed
  <2>2. /\ Push(EventMessage(e)) /\ UNCHANGED socket /\ journal \subseteq journal'
        /\ e \in journal'
    BY <1>3 DEF Emit
  <2>3. <<EventMessage(e).run, EventMessage(e).seq>> = e
    BY <2>1 DEF EventMessage, Events
  <2> QED BY <1>2, <2>1, <2>2, <2>3
<1>4. ASSUME NEW r \in Runs, NEW s, NEW k \in {"result", "cancelled", "error"}, End(r, s, k)
      PROVE  WireFits'
  <2> DEFINE m == [kind |-> k, run |-> r]
  <2>1. m \in Messages /\ m.kind # "event"
    BY MessageTypes
  <2>2. Push(m) /\ UNCHANGED <<socket, journal>>
    BY <1>4 DEF End
  <2> HIDE DEF m
  <2> QED BY <1>2, <2>1, <2>2
<1>5. CASE Connect
  <2>1. wire' = <<>> /\ socket'.open /\ socket'.owed = {} /\ journal' = journal
    BY <1>5, ConnectEffect DEF WireFits
  <2> QED BY <2>1 DEF WireFits
<1>6. CASE Subscribe
  <2>1. /\ wire' = wire /\ socket'.open /\ ~socket'.asked /\ socket'.owed \subseteq journal
        /\ journal' = journal
    BY <1>6, SubscribeEffect
  <2> QED BY <2>1 DEF WireFits
<1>7. CASE Replay
  <2>1. PICK e \in socket.owed :
          /\ e \in Events /\ socket'.owed = socket.owed \ {e}
          /\ wire' = Append(wire, EventMessage(e)) /\ EventMessage(e) \in Messages
    BY <1>7, ReplayEffect
  <2>2. /\ socket'.open /\ socket'.asked = socket.asked /\ journal' = journal
        /\ wire \in Seq(Messages)
    BY <1>7, ReplayEffect DEF Typed
  <2>3. <<EventMessage(e).run, EventMessage(e).seq>> = e /\ e \in journal
    BY <2>1 DEF EventMessage, Events, WireFits
  <2>4. \A i \in 1 .. Len(wire') :
          wire'[i] = EventMessage(e) \/ (i \in 1 .. Len(wire) /\ wire'[i] = wire[i])
    BY <2>1, <2>2, AppendKeeps
  <2>5. \A i \in 1 .. Len(wire') :
          wire'[i].kind = "event" => <<wire'[i].run, wire'[i].seq>> \in journal
    BY <2>3, <2>4 DEF WireFits
  <2> QED BY <2>1, <2>2, <2>5 DEF WireFits
<1>8. CASE Receive
  <2>1. wire # <<>> /\ wire' = Tail(wire) /\ UNCHANGED <<socket, journal>>
        /\ wire \in Seq(Messages)
    BY <1>8, ReceiveEffect DEF Typed
  <2>2. \A i \in 1 .. Len(wire') : i + 1 \in 1 .. Len(wire) /\ wire'[i] = wire[i + 1]
    BY <2>1, TailKeeps
  <2>3. \A i \in 1 .. Len(wire') :
          wire'[i].kind = "event" => <<wire'[i].run, wire'[i].seq>> \in journal'
    BY <2>1, <2>2 DEF WireFits
  <2>4. socket.open
    BY <2>1 DEF WireFits
  <2> QED BY <2>1, <2>3, <2>4 DEF WireFits
<1>9. CASE Drop \/ Reload \/ Crash
  <2>1. socket' = Lost /\ wire' = <<>> /\ journal' = journal
    BY <1>9 DEF Drop, Reload, Crash
  <2> QED BY <2>1, ConstantTypes DEF WireFits
<1>10. CASE Work
  BY <1>1, <1>4, <1>10 DEF Work, TakeNumber, Complete, Fail, Stop
<1>11. CASE UNCHANGED vars \/ Answers \/ User \/ \E f \in fetches : LoseFetch(f)
  BY <1>1, <1>11
  DEF vars, Answers, ReadBootstrap, Bootstrap, Follow, AnswerCancel, AnswerFetch,
      TakeFetch, User, Submit, AskCancel, PostElsewhere, LoseFetch
<1> QED
  BY <1>3, <1>5, <1>6, <1>7, <1>8, <1>9, <1>10, <1>11 DEF Next, Emission, Link, Fault

----------------------------------------------------------------------------
(* The page.                                                               *)

\* Ingesting events of the journal shows those that were not shown.
LEMMA IngestFits ==
  ASSUME Typed, PageFits, NEW S, S \subseteq journal, NEW ui \in Uis, Ingest(S, ui)
  PROVE  /\ page'.cur = page.cur /\ page'.seen \subseteq journal
         /\ page'.snapshot \subseteq journal /\ page'.hydrated = page.hydrated
         /\ \A e \in Events : view'[e] = IF e \in page'.seen THEN 1 ELSE 0
<1>1. S \subseteq Events
  BY DEF Typed
<1>2. /\ page'.hydrated = page.hydrated /\ page'.cur = page.cur
      /\ page'.snapshot = page.snapshot
      /\ page'.seen = page.seen \cup S
      /\ \A e \in Events :
           view'[e] = IF e \in S /\ e \notin page.seen /\ view[e] < 2
                      THEN view[e] + 1 ELSE view[e]
  BY <1>1, IngestEffect
<1>3. \A e \in Events : view[e] = IF e \in page.seen THEN 1 ELSE 0
  BY DEF PageFits
<1>4. \A e \in Events : view'[e] = IF e \in page'.seen THEN 1 ELSE 0
  BY <1>2, <1>3
<1> QED BY <1>2, <1>4 DEF PageFits

\* Every step keeps the view and what is remembered as seen together.
LEMMA PageStep == Typed /\ WireFits /\ PageFits /\ [Next]_vars => PageFits'
<1> SUFFICES ASSUME Typed, WireFits, PageFits, [Next]_vars PROVE PageFits'
  OBVIOUS
<1> USE DEF server, flow, link, client
<1>1. ASSUME SamePage, UNCHANGED <<fetches, request, view>>, posted \in Nat, posted' \in Nat,
             posted <= posted', journal \subseteq journal', socket'.open => socket.open \/ page.hydrated
      PROVE  PageFits'
  <2>1. page.cur \in Nat /\ request.run \in Nat
    BY BoundsAssumption DEF Typed, PageType, Requests
  <2>2. \A f \in fetches : EventsOf(f.run) \subseteq EventsOf(f.run)'
    BY <1>1 DEF EventsOf
  <2>3. \A f \in fetches' : f.events \subseteq EventsOf(f.run)'
    BY <1>1, <2>2 DEF PageFits
  <2>4. page'.cur <= posted'
    BY <1>1, <2>1 DEF PageFits, SamePage
  <2>5. request'.kind = "posted" => page'.cur = NoRun /\ request'.run \in 1 .. posted'
    BY <1>1, <2>1 DEF PageFits, SamePage
  <2>6. /\ page'.seen \subseteq journal' /\ page'.snapshot \subseteq journal'
        /\ \A e \in Events : view'[e] = IF e \in page'.seen THEN 1 ELSE 0
    BY <1>1 DEF PageFits, SamePage
  <2>7. ~page'.hydrated =>
          /\ page'.seen = {} /\ page'.last = 0 /\ page'.cur = NoRun
          /\ ~socket'.open /\ fetches' = {} /\ request' = NoRequest
    BY <1>1 DEF PageFits, SamePage
  <2> QED BY <2>3, <2>4, <2>5, <2>6, <2>7 DEF PageFits
<1>2. posted \in Nat /\ (page' = page => SamePage)
  BY BoundsAssumption DEF Typed, SamePage
<1>3. CASE UNCHANGED vars \/ Emission \/ Work \/ PostElsewhere
  <2>1. UNCHANGED <<page, fetches, request, view, socket>> /\ journal \subseteq journal'
    BY <1>3 DEF vars, Emission, Emit, Work, TakeNumber, Complete, Fail, Stop, End, PostElsewhere
  <2>2. posted' = posted \/ posted' = posted + 1
    BY <1>3 DEF vars, Emission, Emit, Work, TakeNumber, Complete, Fail, Stop, End,
       PostElsewhere, CreateRun
  <2> QED BY <1>1, <1>2, <2>1, <2>2
<1>4. CASE Connect \/ Subscribe \/ Replay
  <2>1. UNCHANGED <<page, fetches, request, view, posted, journal>>
    BY <1>4 DEF Connect, Subscribe, Replay
  <2>2. socket.open \/ page.hydrated
    BY <1>4 DEF Connect, Subscribe, Replay
  <2> QED BY <1>1, <1>2, <2>1, <2>2
<1>5. CASE Receive
  <2>1. UNCHANGED <<posted, journal, socket, fetches, request>>
    BY <1>5, ReceiveEffect
  <2>2. CASE SamePage /\ view' = view
    BY <1>1, <1>2, <2>1, <2>2
  <2>3. ASSUME Head(wire).kind = "event", NEW ui \in Uis,
               Ingest({<<Head(wire).run, Head(wire).seq>>}, ui)
        PROVE  PageFits'
    <3>1. PICK i \in 1 .. Len(wire) : Head(wire) = wire[i]
      BY <1>5, ReceiveEffect, TailKeeps DEF Typed
    <3>2. {<<Head(wire).run, Head(wire).seq>>} \subseteq journal
      BY <2>3, <3>1 DEF WireFits
    <3>3. /\ page'.cur = page.cur /\ page'.seen \subseteq journal
          /\ page'.snapshot \subseteq journal /\ page'.hydrated = page.hydrated
          /\ \A e \in Events : view'[e] = IF e \in page'.seen THEN 1 ELSE 0
      BY <2>3, <3>2, IngestFits
    <3>4. page.hydrated
      BY <1>5, ReceiveEffect DEF WireFits, PageFits
    <3> QED BY <2>1, <3>3, <3>4 DEF PageFits, EventsOf
  <2> QED BY <1>5, <2>2, <2>3, ReceiveEffect
<1>6. CASE ReadBootstrap
  <2>1. EventsOf(posted) \subseteq journal
    BY DEF EventsOf
  <2> QED BY <1>6, <2>1, ReadBootstrapEffect DEF PageFits, EventsOf
<1>7. CASE Bootstrap
  <2>1. /\ page'.hydrated /\ page'.cur = posted /\ page'.seen = page.snapshot
        /\ page'.snapshot = {} /\ UNCHANGED <<posted, journal, fetches, request>>
        /\ \A e \in Events : view'[e] = IF e \in page.snapshot THEN 1 ELSE 0
        /\ ~page.hydrated
    BY <1>7, BootstrapEffect
  <2>2. fetches' = {} /\ request' = NoRequest
    BY <2>1 DEF PageFits
  <2> QED BY <1>2, <2>1, <2>2, ConstantTypes DEF PageFits
<1>8. CASE Follow
  <2>1. /\ page'.hydrated = page.hydrated /\ page'.cur = request.run
        /\ page'.seen = page.seen /\ page'.snapshot = page.snapshot
        /\ request' = NoRequest /\ request.kind = "posted"
        /\ \A f \in fetches' : f \in fetches \/ f.events = {}
        /\ UNCHANGED <<posted, journal, view>>
    BY <1>8, FollowEffect
  <2>2. request.run <= posted
    BY <2>1 DEF PageFits
  <2>3. page.hydrated
    BY <2>1, ConstantTypes DEF PageFits
  <2>4. \A f \in fetches' : f.events \subseteq EventsOf(f.run)'
    BY <2>1 DEF PageFits, EventsOf
  <2> QED BY <2>1, <2>2, <2>3, <2>4, ConstantTypes DEF PageFits
<1>9. CASE AnswerCancel
  <2>1. /\ SamePage /\ request.kind = "stopping" /\ request' = NoRequest
        /\ UNCHANGED <<posted, journal, view, fetches>>
    BY <1>9, AnswerCancelEffect
  <2>2. page.hydrated
    BY <2>1, ConstantTypes DEF PageFits
  <2> QED BY <2>1, <2>2, ConstantTypes DEF PageFits, SamePage, EventsOf
<1>10. ASSUME NEW f \in fetches, AnswerFetch(f) PROVE PageFits'
  <2>1. PICK g \in FetchType :
          /\ g.run = f.run /\ g.done /\ g.events = EventsOf(f.run)
          /\ fetches' = (fetches \ {f}) \cup {g}
    BY <1>10, AnswerFetchEffect
  <2>2. UNCHANGED <<posted, journal, request, page, view>>
    BY <1>10, AnswerFetchEffect
  <2>3. page.hydrated
    BY DEF PageFits
  <2>4. \A h \in fetches' : h.events \subseteq EventsOf(h.run)'
    BY <2>1, <2>2 DEF PageFits, EventsOf
  <2> QED BY <2>2, <2>3, <2>4 DEF PageFits
<1>11. ASSUME NEW f \in fetches, TakeFetch(f) PROVE PageFits'
  <2>1. PICK ui \in Uis : Ingest(f.events, ui)
    BY <1>11, TakeFetchEffect
  <2>2. /\ fetches' = fetches \ {f} /\ UNCHANGED <<posted, journal, request>>
    BY <1>11, TakeFetchEffect
  <2>3. f.events \subseteq journal /\ page.hydrated
    BY DEF PageFits, EventsOf
  <2>4. /\ page'.cur = page.cur /\ page'.seen \subseteq journal
        /\ page'.snapshot \subseteq journal /\ page'.hydrated = page.hydrated
        /\ \A e \in Events : view'[e] = IF e \in page'.seen THEN 1 ELSE 0
    BY <2>1, <2>3, IngestFits
  <2> QED BY <2>2, <2>3, <2>4 DEF PageFits, EventsOf
<1>12. CASE Submit
  <2>1. posted' = posted + 1 /\ posted' \in Runs
    BY <1>12, SubmitEffect, CreateRunTypes
  <2>2. /\ page'.hydrated /\ page'.cur = NoRun /\ page'.seen = {}
        /\ page'.snapshot = page.snapshot /\ request'.run = posted'
        /\ view' = NothingShown /\ UNCHANGED <<journal, fetches>>
    BY <1>12, SubmitEffect
  <2>3. \A e \in Events : view'[e] = 0
    BY <2>2, ConstantTypes
  <2> QED BY <1>2, <2>1, <2>2, <2>3 DEF PageFits, NoRun, EventsOf
<1>13. CASE AskCancel
  <2>1. /\ SamePage /\ page.hydrated /\ request'.kind = "stopping"
        /\ UNCHANGED <<posted, journal, view, fetches>>
    BY <1>13, AskCancelEffect
  <2> QED BY <2>1 DEF PageFits, SamePage, EventsOf
<1>14. CASE Drop
  <2>1. UNCHANGED <<page, fetches, request, view, posted, journal>> /\ ~socket'.open
    BY <1>14, ConstantTypes DEF Drop
  <2> QED BY <1>1, <1>2, <2>1
<1>15. CASE Reload
  <2>1. /\ page' = FreshPage /\ fetches' = {} /\ request' = NoRequest
        /\ view' = NothingShown /\ socket' = Lost /\ UNCHANGED <<posted, journal>>
    BY <1>15 DEF Reload
  <2> QED BY <1>2, <2>1, ConstantTypes DEF PageFits, NoRun
<1>16. CASE Crash
  <2>1. /\ page.hydrated => SamePage
        /\ ~page.hydrated => page' = FreshPage
        /\ socket' = Lost /\ fetches' = {} /\ request' = NoRequest
        /\ UNCHANGED <<posted, journal, view>>
    BY <1>16, CrashEffect
  <2>2. CASE page.hydrated
    BY <2>1, <2>2, ConstantTypes DEF PageFits, SamePage
  <2>3. CASE ~page.hydrated
    BY <1>2, <2>1, <2>3, ConstantTypes DEF PageFits, NoRun
  <2> QED BY <2>2, <2>3
<1>17. ASSUME NEW f \in fetches, LoseFetch(f) PROVE PageFits'
  BY <1>17 DEF LoseFetch, PageFits, EventsOf
<1> QED
  BY <1>3, <1>4, <1>5, <1>6, <1>7, <1>8, <1>9, <1>10, <1>11, <1>12, <1>13, <1>14, <1>15,
     <1>16, <1>17
  DEF Next, Link, Answers, User, Fault

----------------------------------------------------------------------------
(* An event of the run the page follows is shown or still reaches it.      *)

\* Events of the run that is followed belong to a run that exists.
LEMMA FollowedTypes ==
  ASSUME Typed, PageFits
  PROVE  /\ Followed \in 0 .. MaxRuns
         /\ \A e \in EventsOf(Followed) : e \in Events /\ e[1] = Followed /\ Followed \in Runs
         /\ request.kind # "posted" => Followed = page.cur
         /\ \A f \in fetches : f \in FetchType
         /\ page \in PageType /\ socket \in SocketType
BY DEF Typed, PageFits, Followed, EventsOf, Events, PageType, Requests

\* A step that leaves the journal, the socket, the wire and the answers alone.
LEMMA ReachesSame ==
  ASSUME Reaches, SamePage, UNCHANGED <<journal, fetches, Followed>>,
         UNCHANGED socket, UNCHANGED wire, UNCHANGED spoilt,
         request.kind = "posted" => request'.kind = "posted"
  PROVE  Reaches'
<1>1. \A e : OnItsWay(e) => OnItsWay(e)'
  BY DEF OnItsWay, SamePage
<1>2. \A e : Ahead(e) => Ahead(e)'
  BY DEF Ahead, SamePage
<1>3. LastIsReal => LastIsReal'
  BY DEF LastIsReal, SamePage, EventsOf
<1>4. EventsOf(Followed)' = EventsOf(Followed)
  BY DEF EventsOf
<1> QED BY <1>1, <1>2, <1>3, <1>4 DEF Reaches, SamePage

\* A live event is pushed; without a socket it is above every number of its
\* run, so the next subscription asks for it.
LEMMA ReachesEmit ==
  ASSUME Typed, ServerFits, WireFits, PageFits, Reaches, NEW e \in emitting, Emit(e)
  PROVE  Reaches'
<1> USE DEF server, flow, link, client
<1> SUFFICES ASSUME page'.hydrated, ~spoilt' PROVE Reaches'
  BY DEF Reaches
<1>1. /\ UNCHANGED <<server, socket, fetches, request, page, view>>
      /\ journal' = journal \cup {e} /\ Push(EventMessage(e))
      /\ spoilt' = (spoilt \/ (~socket.open /\ \E d \in EventsOf(e[1]) : d[2] > e[2]))
  BY DEF Emit
<1>2. e \in Events /\ EventMessage(e) \in Messages /\ e \notin journal
  BY MessageTypes DEF Typed, ServerFits
<1>3. LastIsReal /\ \A d \in EventsOf(Followed) : OnItsWay(d) \/ Ahead(d)
  BY <1>1 DEF Reaches
<1>4. Followed' = Followed
  BY <1>1 DEF Followed
<1>5. /\ \A i \in 1 .. Len(wire) : i \in 1 .. Len(wire') /\ wire'[i] = wire[i]
      /\ socket.open => \E i \in 1 .. Len(wire') : wire'[i] = EventMessage(e)
  BY <1>1, <1>2, PushKeeps
<1>6. LastIsReal'
  BY <1>1, <1>3 DEF LastIsReal, EventsOf
<1>7. \A d : OnItsWay(d) => OnItsWay(d)'
  BY <1>1, <1>4, <1>5 DEF OnItsWay
<1>8. \A d : Ahead(d) => Ahead(d)'
  BY <1>1, <1>4 DEF Ahead
<1>9. ASSUME e[1] = Followed PROVE OnItsWay(e)' \/ Ahead(e)'
  <2>1. CASE socket.open
    BY <1>5, <2>1 DEF OnItsWay
  <2>2. CASE request.kind = "posted"
    BY <1>1, <2>2 DEF OnItsWay
  <2>3. CASE ~socket.open /\ request.kind # "posted"
    <3>1. \A d \in EventsOf(e[1]) : d \in Events /\ d[1] = e[1] /\ d # e
      BY <1>2 DEF EventsOf, Typed
    <3>2. \A d \in EventsOf(e[1]) : d[2] < e[2]
      <4> SUFFICES ASSUME NEW d \in EventsOf(e[1]) PROVE d[2] < e[2]
        OBVIOUS
      <4>1. d[2] \in 1 .. MaxSeq /\ e[2] \in 1 .. MaxSeq /\ d[2] # e[2]
        BY <1>2, <3>1 DEF Events
      <4>2. ~(d[2] > e[2])
        BY <1>1, <2>3
      <4> QED BY <4>1, <4>2, BoundsAssumption
    <3>3. page.cur = Followed
      BY <2>3, FollowedTypes
    <3>4. e[2] > page.last
      <4>1. e[2] \in 1 .. MaxSeq
        BY <1>2 DEF Events
      <4>2. page.last = 0 \/ \E d \in EventsOf(e[1]) : d[2] = page.last
        BY <1>3, <1>9, <3>3 DEF LastIsReal
      <4> QED BY <3>2, <4>1, <4>2, BoundsAssumption
    <3>5. \A f \in fetches : f.run = Followed => \A d \in f.events : d[2] < e[2]
      BY <1>9, <3>2 DEF PageFits
    <3> QED BY <1>1, <1>4, <2>3, <3>4, <3>5 DEF Ahead
  <2> QED BY <2>1, <2>2, <2>3
<1>10. \A d \in EventsOf(Followed)' : d = e \/ d \in EventsOf(Followed)
  BY <1>1, <1>4 DEF EventsOf
<1>11. \A d \in EventsOf(Followed)' : OnItsWay(d)' \/ Ahead(d)'
  <2> SUFFICES ASSUME NEW d \in EventsOf(Followed)' PROVE OnItsWay(d)' \/ Ahead(d)'
    OBVIOUS
  <2>1. CASE d = e
    BY <1>4, <1>9, <2>1 DEF EventsOf
  <2>2. CASE d \in EventsOf(Followed)
    BY <1>3, <1>7, <1>8, <2>2
  <2> QED BY <1>10, <2>1, <2>2
<1> QED BY <1>6, <1>11 DEF Reaches

\* A new socket asks for what is above the last number the page remembers.
LEMMA ReachesConnect ==
  ASSUME Typed, WireFits, PageFits, Reaches, Connect
  PROVE  Reaches'
<1> USE DEF server, flow, link, client
<1> SUFFICES ASSUME page'.hydrated, ~spoilt' PROVE Reaches'
  BY DEF Reaches
<1>1. /\ socket'.open /\ socket'.asked /\ socket'.run = page.cur
      /\ socket'.after = page.last /\ ~socket.open
      /\ UNCHANGED <<server, flow, wire, client>>
  BY ConnectEffect
<1>2. Followed' = Followed /\ socket.owed = {}
  BY <1>1 DEF Followed, WireFits
<1>3. LastIsReal /\ \A d \in EventsOf(Followed) : OnItsWay(d) \/ Ahead(d)
  BY <1>1 DEF Reaches
<1>4. \A d : OnItsWay(d) => OnItsWay(d)'
  BY <1>1, <1>2 DEF OnItsWay
<1>5. \A d : Ahead(d) => OnItsWay(d)' \/ Ahead(d)'
  <2>1. CASE request.kind = "posted"
    BY <1>1, <2>1 DEF OnItsWay
  <2>2. CASE request.kind # "posted"
    <3>1. page.cur = Followed
      BY <2>2, FollowedTypes
    <3> QED BY <1>1, <1>2, <3>1 DEF Ahead
  <2> QED BY <2>1, <2>2
<1>6. EventsOf(Followed)' = EventsOf(Followed) /\ LastIsReal'
  BY <1>1, <1>2, <1>3 DEF EventsOf, LastIsReal
<1> QED BY <1>3, <1>4, <1>5, <1>6 DEF Reaches

\* The subscription is answered with every event above its number.
LEMMA ReachesSubscribe ==
  ASSUME Typed, WireFits, PageFits, Reaches, Subscribe
  PROVE  Reaches'
<1> USE DEF server, flow, link, client
<1> SUFFICES ASSUME page'.hydrated, ~spoilt' PROVE Reaches'
  BY DEF Reaches
<1>1. /\ socket'.open /\ socket.open /\ socket.asked
      /\ socket.run # NoRun =>
           \A e \in EventsOf(socket.run) : e[2] > socket.after => e \in socket'.owed
      /\ UNCHANGED <<server, flow, wire, client>>
  BY SubscribeEffect
<1>2. Followed' = Followed /\ socket.owed = {}
  BY <1>1 DEF Followed, WireFits
<1>3. LastIsReal /\ \A d \in EventsOf(Followed) : OnItsWay(d) \/ Ahead(d)
  BY <1>1 DEF Reaches
<1>4. \A d : OnItsWay(d) => OnItsWay(d)'
  BY <1>1, <1>2 DEF OnItsWay
<1>5. \A d \in EventsOf(Followed) : Ahead(d) => OnItsWay(d)'
  <2> SUFFICES ASSUME NEW d \in EventsOf(Followed), Ahead(d) PROVE OnItsWay(d)'
    OBVIOUS
  <2>1. socket.run = Followed /\ d[2] > socket.after
    BY <1>1 DEF Ahead
  <2>2. socket.run # NoRun
    BY <2>1, FollowedTypes, BoundsAssumption DEF Runs, NoRun
  <2>3. d \in socket'.owed
    BY <1>1, <2>1, <2>2
  <2> QED BY <2>3 DEF OnItsWay
<1>6. EventsOf(Followed)' = EventsOf(Followed) /\ LastIsReal'
  BY <1>1, <1>2, <1>3 DEF EventsOf, LastIsReal
<1> QED BY <1>3, <1>4, <1>5, <1>6 DEF Reaches

\* A replayed event is on the wire instead of owed.
LEMMA ReachesReplay ==
  ASSUME Typed, WireFits, PageFits, Reaches, Replay
  PROVE  Reaches'
<1> USE DEF server, flow, link, client
<1> SUFFICES ASSUME page'.hydrated, ~spoilt' PROVE Reaches'
  BY DEF Reaches
<1>1. /\ socket'.open = socket.open /\ socket'.asked = socket.asked
      /\ socket'.run = socket.run /\ socket'.after = socket.after
      /\ UNCHANGED <<server, flow, client>>
  BY ReplayEffect
<1>2. PICK e \in socket.owed :
        /\ e \in Events /\ socket'.owed = socket.owed \ {e}
        /\ wire' = Append(wire, EventMessage(e)) /\ EventMessage(e) \in Messages
  BY ReplayEffect
<1>3. LastIsReal /\ \A d \in EventsOf(Followed) : OnItsWay(d) \/ Ahead(d)
  BY <1>1 DEF Reaches
<1>4. Followed' = Followed
  BY <1>1 DEF Followed
<1>5. /\ \A i \in 1 .. Len(wire) : i \in 1 .. Len(wire') /\ wire'[i] = wire[i]
      /\ \E i \in 1 .. Len(wire') : wire'[i] = EventMessage(e)
  BY <1>2, AppendKeeps DEF Typed
<1>6. \A d : d \in socket.owed => OnItsWay(d)'
  BY <1>2, <1>5 DEF OnItsWay
<1>7. \A d : OnItsWay(d) => OnItsWay(d)'
  BY <1>1, <1>4, <1>5, <1>6 DEF OnItsWay
<1>8. \A d : Ahead(d) => Ahead(d)'
  BY <1>1, <1>4 DEF Ahead
<1>9. EventsOf(Followed)' = EventsOf(Followed) /\ LastIsReal'
  BY <1>1, <1>3, <1>4 DEF EventsOf, LastIsReal
<1> QED BY <1>3, <1>7, <1>8, <1>9 DEF Reaches

\* Ingesting events of the run that is followed.
LEMMA IngestLast ==
  ASSUME Typed, LastIsReal, NEW S, S \subseteq EventsOf(page.cur), NEW ui \in Uis,
         Ingest(S, ui), journal' = journal
  PROVE  /\ LastIsReal' /\ page'.hydrated = page.hydrated /\ page'.cur = page.cur
         /\ page'.seen = page.seen \cup S
         /\ page'.last \in 0 .. MaxSeq
         /\ \A n \in Nat : n > page.last /\ (\A e \in S : e[2] < n) => n > page'.last
<1>1. S \subseteq Events
  BY DEF Typed, EventsOf
<1>2. /\ page'.last = AtLeast(page.last, Newest(S)) /\ page'.cur = page.cur
      /\ page'.hydrated = page.hydrated /\ page'.seen = page.seen \cup S
  BY <1>1, IngestEffect
<1>3. /\ Newest(S) \in 0 .. MaxSeq
      /\ Newest(S) = 0 \/ \E e \in S : e[2] = Newest(S)
  BY <1>1, NewestIsGreatest
<1>4. page.last \in 0 .. MaxSeq
  BY DEF Typed, PageType
<1>5. page'.last = page.last \/ page'.last = Newest(S)
  BY <1>2 DEF AtLeast
<1>6. LastIsReal'
  BY <1>2, <1>3, <1>5 DEF LastIsReal, EventsOf
<1>7. \A n \in Nat : n > page.last /\ (\A e \in S : e[2] < n) => n > page'.last
  <2> SUFFICES ASSUME NEW n \in Nat, n > page.last, \A e \in S : e[2] < n
               PROVE  n > page'.last
    OBVIOUS
  <2>1. CASE Newest(S) = 0
    BY <1>4, <1>5, <2>1, BoundsAssumption
  <2>2. CASE Newest(S) # 0
    BY <1>3, <1>5, <2>2
  <2> QED BY <2>1, <2>2
<1> QED BY <1>2, <1>3, <1>4, <1>5, <1>6, <1>7

\* A message taken from the wire is shown, unless it is of another run.
LEMMA ReachesReceive ==
  ASSUME Typed, WireFits, PageFits, Reaches, Receive
  PROVE  Reaches'
<1> USE DEF server, flow, link, client
<1> SUFFICES ASSUME page'.hydrated, ~spoilt' PROVE Reaches'
  BY DEF Reaches
<1>1. /\ wire # <<>> /\ wire' = Tail(wire) /\ wire \in Seq(Messages)
      /\ UNCHANGED <<server, flow, socket, fetches, request, spoilt>>
  BY ReceiveEffect DEF Typed
<1>2. socket.open
  BY <1>1 DEF WireFits
<1>3. /\ page'.hydrated = page.hydrated /\ page'.cur = page.cur
      /\ page.seen \subseteq page'.seen /\ (LastIsReal => LastIsReal')
      /\ Head(wire).kind = "event" /\ Head(wire).run = page.cur =>
           <<Head(wire).run, Head(wire).seq>> \in page'.seen
  <2>1. CASE Head(wire).kind = "event" /\ Head(wire).run = page.cur
    <3>1. PICK ui \in Uis : Ingest({<<Head(wire).run, Head(wire).seq>>}, ui)
      BY <2>1, ReceiveEffect
    <3>2. PICK i \in 1 .. Len(wire) : Head(wire) = wire[i]
      BY <1>1, TailKeeps
    <3>3. {<<Head(wire).run, Head(wire).seq>>} \subseteq EventsOf(page.cur)
      BY <2>1, <3>2 DEF WireFits, EventsOf
    <3>4. {<<Head(wire).run, Head(wire).seq>>} \subseteq Events
      BY <3>3 DEF EventsOf, Typed
    <3>5. /\ page'.hydrated = page.hydrated /\ page'.cur = page.cur
          /\ page'.seen = page.seen \cup {<<Head(wire).run, Head(wire).seq>>}
      BY <3>1, <3>4, IngestEffect
    <3>6. LastIsReal => LastIsReal'
      BY <1>1, <3>1, <3>3, IngestLast
    <3> QED BY <3>5, <3>6
  <2>2. CASE ~(Head(wire).kind = "event" /\ Head(wire).run = page.cur)
    <3>1. SamePage
      BY <2>2, ReceiveEffect
    <3> QED BY <1>1, <2>2, <3>1 DEF SamePage, LastIsReal, EventsOf
  <2> QED BY <2>1, <2>2
<1>4. LastIsReal /\ \A d \in EventsOf(Followed) : OnItsWay(d) \/ Ahead(d)
  BY <1>1, <1>3 DEF Reaches
<1>5. Followed' = Followed
  BY <1>1, <1>3 DEF Followed
<1>6. \A d : Ahead(d) => Ahead(d)'
  BY <1>1, <1>2, <1>5 DEF Ahead
<1>7. \A d \in EventsOf(Followed) : OnItsWay(d) => OnItsWay(d)'
  <2> SUFFICES ASSUME NEW d \in EventsOf(Followed), OnItsWay(d) PROVE OnItsWay(d)'
    OBVIOUS
  <2>1. CASE \E i \in 1 .. Len(wire) : wire[i] = EventMessage(d)
    <3>1. CASE \E j \in 1 .. Len(wire') : wire'[j] = EventMessage(d)
      BY <3>1 DEF OnItsWay
    <3>2. CASE Head(wire) = EventMessage(d)
      <4>1. CASE request.kind = "posted"
        BY <1>1, <4>1 DEF OnItsWay
      <4>2. CASE request.kind # "posted"
        <5>1. d \in Events /\ d[1] = page.cur
          BY <4>2, FollowedTypes
        <5>2. /\ Head(wire).kind = "event" /\ Head(wire).run = page.cur
              /\ <<Head(wire).run, Head(wire).seq>> = d
          BY <3>2, <5>1 DEF EventMessage, Events
        <5> QED BY <1>3, <5>2 DEF OnItsWay
      <4> QED BY <4>1, <4>2
    <3> QED BY <1>1, <2>1, <3>1, <3>2, TailKeeps
  <2>2. CASE ~\E i \in 1 .. Len(wire) : wire[i] = EventMessage(d)
    BY <1>1, <1>3, <1>5, <2>2 DEF OnItsWay
  <2> QED BY <2>1, <2>2
<1>8. EventsOf(Followed)' = EventsOf(Followed) /\ LastIsReal'
  BY <1>1, <1>3, <1>4, <1>5 DEF EventsOf
<1> QED BY <1>4, <1>6, <1>7, <1>8 DEF Reaches

\* A bootstrap whose two reads agree shows the whole journal of its run.
LEMMA ReachesBootstrap ==
  ASSUME Typed, PageFits, Bootstrap
  PROVE  Reaches'
<1> USE DEF server, flow, link, client
<1> SUFFICES ASSUME page'.hydrated, ~spoilt' PROVE Reaches'
  BY DEF Reaches
<1>1. /\ page'.cur = posted /\ page'.seen = page.snapshot
      /\ page'.last = IF posted = NoRun THEN 0 ELSE Newest(EventsOf(posted))
      /\ page.snapshot = EventsOf(posted) /\ ~page.hydrated
      /\ UNCHANGED <<server, flow, link, fetches, request>>
  BY BootstrapEffect
<1>2. request'.kind # "posted"
  BY <1>1, ConstantTypes DEF PageFits
<1>3. Followed' = posted
  BY <1>1, <1>2 DEF Followed
<1>4. EventsOf(posted)' = EventsOf(posted) /\ EventsOf(posted) \subseteq Events
  BY <1>1 DEF EventsOf, Typed
<1>5. LastIsReal'
  BY <1>1, <1>4, NewestIsGreatest DEF LastIsReal, EventsOf
<1>6. \A e \in EventsOf(Followed)' : OnItsWay(e)'
  BY <1>1, <1>3, <1>4 DEF OnItsWay, EventsOf
<1> QED BY <1>5, <1>6 DEF Reaches

\* The answer to a post: everything the run has told so far is fetched.
LEMMA ReachesFollow ==
  ASSUME Typed, PageFits, Reaches, Follow
  PROVE  Reaches'
<1> USE DEF server, flow, link, client
<1> SUFFICES ASSUME page'.hydrated, ~spoilt' PROVE Reaches'
  BY DEF Reaches
<1>1. /\ request' = NoRequest /\ request.kind = "posted"
      /\ page'.hydrated = page.hydrated /\ page'.cur = request.run
      /\ page'.last = page.last
      /\ request.run \in Runs => \E f \in fetches' : f.run = request.run /\ ~f.done
      /\ UNCHANGED <<server, flow, link, view, spoilt>>
  BY FollowEffect
<1>2. request.run \in Runs /\ page.cur = NoRun
  BY <1>1, BoundsAssumption DEF PageFits, Typed, Runs
<1>3. page.last = 0
  BY <1>1, <1>2, BoundsAssumption, SMTT(30) DEF Reaches, LastIsReal, EventsOf, Typed, Events, Runs, NoRun
<1>4. LastIsReal'
  BY <1>1, <1>3 DEF LastIsReal
<1>5. Followed' = request.run
  BY <1>1, ConstantTypes DEF Followed
<1>6. \A e : OnItsWay(e)'
  BY <1>1, <1>2, <1>5 DEF OnItsWay
<1> QED BY <1>4, <1>6 DEF Reaches

\* The answer of a fetch holds every event the journal has of its run.
LEMMA ReachesAnswerFetch ==
  ASSUME Typed, PageFits, Reaches, NEW f \in fetches, AnswerFetch(f)
  PROVE  Reaches'
<1> USE DEF server, flow, link, client
<1> SUFFICES ASSUME page'.hydrated, ~spoilt' PROVE Reaches'
  BY DEF Reaches
<1>1. PICK g \in FetchType :
        /\ g.run = f.run /\ g.done /\ g.events = EventsOf(f.run)
        /\ fetches' = (fetches \ {f}) \cup {g}
  BY AnswerFetchEffect
<1>2. UNCHANGED <<server, flow, link, request, page, view, spoilt>> /\ ~f.done
  BY AnswerFetchEffect
<1>3. LastIsReal /\ \A d \in EventsOf(Followed) : OnItsWay(d) \/ Ahead(d)
  BY <1>2 DEF Reaches
<1>4. Followed' = Followed
  BY <1>2 DEF Followed
<1>5. \A d \in EventsOf(Followed) : f.run = Followed => OnItsWay(d)'
  BY <1>1, <1>4 DEF OnItsWay
<1>6. \A d \in EventsOf(Followed) : OnItsWay(d) => OnItsWay(d)'
  BY <1>1, <1>2, <1>4, <1>5 DEF OnItsWay
<1>7. \A d : f.run # Followed /\ Ahead(d) => Ahead(d)'
  BY <1>1, <1>2, <1>4 DEF Ahead
<1>8. EventsOf(Followed)' = EventsOf(Followed) /\ LastIsReal'
  BY <1>2, <1>3, <1>4 DEF EventsOf, LastIsReal
<1> QED BY <1>3, <1>5, <1>6, <1>7, <1>8 DEF Reaches

\* Taking the answer raises the last number no further than its events.
LEMMA ReachesTakeFetch ==
  ASSUME Typed, PageFits, Reaches, NEW f \in fetches, TakeFetch(f)
  PROVE  Reaches'
<1> USE DEF server, flow, link, client
<1> SUFFICES ASSUME page'.hydrated, ~spoilt' PROVE Reaches'
  BY DEF Reaches
<1>1. /\ f \in FetchType /\ f.done /\ fetches' = fetches \ {f}
      /\ ~spoilt /\ f.run = page.cur
      /\ UNCHANGED <<server, flow, link, request>>
  BY TakeFetchEffect DEF Typed
<1>2. PICK ui \in Uis : Ingest(f.events, ui)
  BY TakeFetchEffect
<1>3. f.events \subseteq EventsOf(page.cur)
  BY <1>1 DEF PageFits
<1>4. page'.hydrated = page.hydrated
  <2>1. f.events \subseteq Events
    BY <1>1 DEF FetchType
  <2> QED BY <1>2, <2>1, IngestEffect
<1>5. LastIsReal /\ \A d \in EventsOf(Followed) : OnItsWay(d) \/ Ahead(d)
  BY <1>1, <1>4 DEF Reaches
<1>6. /\ LastIsReal' /\ page'.cur = page.cur
      /\ page'.seen = page.seen \cup f.events
      /\ \A n \in Nat : n > page.last /\ (\A e \in f.events : e[2] < n) => n > page'.last
  BY <1>1, <1>2, <1>3, <1>5, IngestLast
<1>7. Followed' = Followed
  BY <1>1, <1>6 DEF Followed
<1>8. \A d : OnItsWay(d) => OnItsWay(d)'
  BY <1>1, <1>6, <1>7 DEF OnItsWay
<1>9. \A d \in EventsOf(Followed) : Ahead(d) => OnItsWay(d)' \/ Ahead(d)'
  <2> SUFFICES ASSUME NEW d \in EventsOf(Followed), Ahead(d)
               PROVE  OnItsWay(d)' \/ Ahead(d)'
    OBVIOUS
  <2>1. CASE request.kind = "posted"
    BY <1>1, <2>1 DEF OnItsWay
  <2>2. CASE socket.open
    BY <1>1, <1>7, <2>2 DEF Ahead
  <2>3. CASE ~socket.open /\ request.kind # "posted"
    <3>1. Followed = page.cur /\ d \in Events
      BY <2>3, FollowedTypes
    <3>2. d[2] \in Nat /\ d[2] > page.last /\ \A e \in f.events : e[2] < d[2]
      BY <1>1, <2>3, <3>1, BoundsAssumption DEF Ahead, Events
    <3>3. d[2] > page'.last
      BY <1>6, <3>2
    <3> QED BY <1>1, <1>7, <2>3, <3>3 DEF Ahead
  <2> QED BY <2>1, <2>2, <2>3
<1>10. EventsOf(Followed)' = EventsOf(Followed)
  BY <1>1, <1>7 DEF EventsOf
<1> QED BY <1>5, <1>6, <1>8, <1>9, <1>10 DEF Reaches

\* Every step keeps every event of the run shown, or able to reach the page.
LEMMA ReachesStep ==
  Typed /\ ServerFits /\ WireFits /\ PageFits /\ Reaches /\ [Next]_vars => Reaches'
<1> SUFFICES ASSUME Typed, ServerFits, WireFits, PageFits, Reaches, [Next]_vars
             PROVE  Reaches'
  OBVIOUS
<1> USE DEF server, flow, link, client
<1>1. CASE UNCHANGED vars \/ Work \/ PostElsewhere
  <2>1. UNCHANGED <<journal, fetches, request, page, spoilt>>
    BY <1>1 DEF vars, Work, TakeNumber, Complete, Fail, Stop, End, PostElsewhere
  <2>2. socket' = socket
    BY <1>1 DEF vars, Work, TakeNumber, Complete, Fail, Stop, End, PostElsewhere
  <2>3. SamePage /\ Followed' = Followed
    BY <2>1 DEF SamePage, Followed
  <2>4. CASE UNCHANGED vars \/ PostElsewhere
    <3>1. wire' = wire
      BY <2>4 DEF vars, PostElsewhere
    <3> QED BY <2>1, <2>2, <2>3, <3>1, ReachesSame
  <2>5. ASSUME NEW r \in Runs, TakeNumber(r) PROVE Reaches'
    <3>1. wire' = wire
      BY <2>5 DEF TakeNumber
    <3> QED BY <2>1, <2>2, <2>3, <3>1, ReachesSame
  <2>6. ASSUME NEW m \in Messages, Push(m) PROVE Reaches'
    <3>1. \A i \in 1 .. Len(wire) : i \in 1 .. Len(wire') /\ wire'[i] = wire[i]
      BY <2>6, PushKeeps
    <3>2. \A d : OnItsWay(d) => OnItsWay(d)'
      BY <2>1, <2>2, <2>3, <3>1 DEF OnItsWay
    <3>3. \A d : Ahead(d) => Ahead(d)'
      BY <2>1, <2>2, <2>3 DEF Ahead
    <3>4. EventsOf(Followed)' = EventsOf(Followed) /\ (LastIsReal => LastIsReal')
      BY <2>1, <2>3 DEF EventsOf, LastIsReal
    <3> QED BY <2>1, <3>2, <3>3, <3>4 DEF Reaches
  <2>7. ASSUME NEW r \in Runs, NEW s, NEW k \in {"result", "cancelled", "error"}, End(r, s, k)
        PROVE  Reaches'
    <3> DEFINE m == [kind |-> k, run |-> r]
    <3>1. m \in Messages
      BY MessageTypes
    <3>2. Push(m)
      BY <2>7 DEF End
    <3> HIDE DEF m
    <3> QED BY <2>6, <3>1, <3>2
  <2> QED BY <1>1, <2>4, <2>5, <2>7 DEF Work, Complete, Fail, Stop
<1>2. CASE Submit
  <2>1. request'.kind = "posted" /\ page'.last = 0
    BY <1>2, SubmitEffect
  <2> QED BY <2>1 DEF Reaches, LastIsReal, OnItsWay
<1>3. CASE AskCancel
  <2>1. /\ SamePage /\ request = NoRequest /\ request'.kind = "stopping"
        /\ UNCHANGED <<journal, fetches, socket, wire, spoilt>>
    BY <1>3, AskCancelEffect
  <2>2. Followed' = Followed /\ request.kind # "posted"
    BY <2>1, ConstantTypes DEF Followed, SamePage
  <2> QED BY <2>1, <2>2, ReachesSame
<1>4. CASE AnswerCancel
  <2>1. /\ SamePage /\ request.kind = "stopping" /\ request' = NoRequest
        /\ UNCHANGED <<journal, fetches, socket, wire, spoilt>>
    BY <1>4, AnswerCancelEffect
  <2>2. Followed' = Followed /\ request.kind # "posted"
    BY <2>1, ConstantTypes DEF Followed, SamePage
  <2> QED BY <2>1, <2>2, ReachesSame
<1>5. CASE ReadBootstrap
  BY <1>5, ReadBootstrapEffect DEF Reaches
<1>6. CASE Reload
  BY <1>6, ConstantTypes DEF Reload, Reaches
<1>7. CASE Crash \/ \E f \in fetches : LoseFetch(f)
  BY <1>7 DEF Crash, LoseFetch, Reaches
<1>8. CASE Drop
  <2> SUFFICES ASSUME page'.hydrated, ~spoilt' PROVE Reaches'
    BY DEF Reaches
  <2>1. /\ socket.open /\ ~socket.asked /\ wire = <<>> /\ socket.owed = {} /\ ~spoilt
        /\ wire' = <<>> /\ UNCHANGED <<server, flow, fetches, request, page, view>>
    BY <1>8 DEF Drop
  <2>2. LastIsReal /\ \A d \in EventsOf(Followed) : OnItsWay(d)
    BY <2>1 DEF Reaches, Ahead
  <2>3. Followed' = Followed
    BY <2>1 DEF Followed
  <2>4. \A d : OnItsWay(d) => OnItsWay(d)'
    BY <2>1, <2>3 DEF OnItsWay
  <2>5. EventsOf(Followed)' = EventsOf(Followed) /\ LastIsReal'
    BY <2>1, <2>2, <2>3 DEF EventsOf, LastIsReal
  <2> QED BY <2>2, <2>4, <2>5 DEF Reaches
<1> QED
  BY <1>1, <1>2, <1>3, <1>4, <1>5, <1>6, <1>7, <1>8, ReachesEmit, ReachesConnect,
     ReachesSubscribe, ReachesReplay, ReachesReceive, ReachesBootstrap, ReachesFollow,
     ReachesAnswerFetch, ReachesTakeFetch
  DEF Next, Emission, Link, Answers, User, Fault

----------------------------------------------------------------------------
\* The invariant holds before anything is posted.
LEMMA InitInductive == Init => Inductive
<1> SUFFICES ASSUME Init PROVE Inductive
  OBVIOUS
<1>1. Typed
  BY InitTyped
<1>2. /\ posted = 0 /\ task = [r \in Runs |-> "none"] /\ emitting = {} /\ journal = {}
      /\ socket = Lost /\ wire = <<>> /\ fetches = {} /\ request = NoRequest
      /\ page = FreshPage /\ view = NothingShown
  BY DEF Init
<1>3. ServerFits
  BY <1>2 DEF ServerFits
<1>4. WireFits
  BY <1>2, ConstantTypes DEF WireFits
<1>5. PageFits
  BY <1>2, ConstantTypes DEF PageFits, NoRun
<1>6. Reaches
  BY <1>2, ConstantTypes DEF Reaches
<1> QED BY <1>1, <1>3, <1>4, <1>5, <1>6 DEF Inductive

\* Every step preserves it.
LEMMA InductiveStep == Inductive /\ [Next]_vars => Inductive'
BY TypedStep, ServerStep, WireStep, PageStep, ReachesStep, Zenon DEF Inductive

\* The invariant implies that the view is complete.
LEMMA InductiveView == Inductive => ViewIsComplete
<1> SUFFICES ASSUME Inductive PROVE ViewIsComplete
  OBVIOUS
<1> USE DEF Inductive
<1>1. TypeOK
  <2>1. \A f \in fetches : f.run \in Runs /\ f.events \subseteq journal
    BY DEF Typed, FetchType, PageFits, EventsOf
  <2>2. \A i \in 1 .. Len(wire) : wire[i] \in Messages
    BY DEF Typed
  <2>3. page.cur \in 0 .. posted /\ page.last \in 0 .. MaxSeq
    BY BoundsAssumption DEF Typed, PageType, PageFits
  <2>4. socket.open \in BOOLEAN /\ socket.asked \in BOOLEAN
    BY DEF Typed, SocketType
  <2> QED BY <2>1, <2>2, <2>3, <2>4 DEF TypeOK, Typed, ServerFits, WireFits, PageFits
<1>2. NothingShownTwice
  BY DEF NothingShownTwice, PageFits
<1>3. EveryEventIsShown
  <2> SUFFICES ASSUME Quiet, page.cur # NoRun, ~spoilt, NEW e \in EventsOf(page.cur)
               PROVE  view[e] = 1
    BY DEF EveryEventIsShown
  <2>1. request.kind # "posted"
    BY ConstantTypes DEF Quiet
  <2>2. Followed = page.cur /\ e \in Events
    BY <2>1, FollowedTypes
  <2>3. OnItsWay(e) \/ Ahead(e)
    BY <2>2 DEF Reaches, Quiet
  <2>4. ~Ahead(e)
    BY DEF Ahead, Quiet
  <2>5. \A i \in 1 .. Len(wire) : FALSE
    BY DEF Quiet
  <2>6. e \in page.seen
    BY <2>1, <2>3, <2>4, <2>5 DEF OnItsWay, Quiet
  <2> QED BY <2>2, <2>6 DEF PageFits
<1> QED BY <1>1, <1>2, <1>3 DEF ViewIsComplete

\* The page shows each event of the run it follows once nothing is on its way,
\* and shows none twice: live messages, replays, fetches and bootstraps cover the
\* journal between them, in every order, for every number of runs and of faults
\* (mergeMonitorEvents, ingestEvents, _maybe_replay_subscribe, submitTask).
THEOREM ViewComplete == Spec => []ViewIsComplete
<1>1. Spec => []Inductive
  BY InitInductive, InductiveStep, PTL DEF Spec
<1> QED BY <1>1, InductiveView, PTL
=============================================================================
