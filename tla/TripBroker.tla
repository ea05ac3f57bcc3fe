------------------------------ MODULE TripBroker ------------------------------
(***************************************************************************)
(* The in-process event broker of services/trip_runner.py: a dict of       *)
(* asyncio queues keyed by trip, the runner's side (register, publish,     *)
(* drop) and the SSE side (GET /api/trips/{id}/stream and subscribe()).    *)
(*                                                                         *)
(* asyncio.Queue() is unbounded, so `await queue.put` never suspends: the  *)
(* operators below are pieces of one atomic step, and a caller composes    *)
(* them between two real awaits.  A queue object is identified by the run  *)
(* for which, and the place from which, register() was called.             *)
(***************************************************************************)
EXTENDS Naturals, Sequences

CONSTANTS
  Trips,      \* trip ids
  Runs,       \* background runs: one run_trip or run_refine task each
  Streams,    \* SSE requests
  NoQueue,    \* "_queues has no entry"
  NoEvent,    \* "nothing delivered yet"
  OneViewer   \* TRUE: a trip is watched through one stream at a time

Queues == Runs \X {"handler", "runner"}

EventNames == {"started", "refine_started", "progress", "cycle_aborted",
               "trip_complete", "_eof"}

Event == [name : EventNames, run : Runs, status : {"none", "complete", "aborted"}]

ASSUME BrokerConstants ==
  /\ NoQueue \notin Queues
  /\ NoEvent \notin Event
  /\ OneViewer \in BOOLEAN

VARIABLES
  queueOf,    \* trip -> the queue _queues maps it to
  buf,        \* queue -> the events put on it and not yet taken
  at,         \* stream -> where its handler is
  watches,    \* stream -> the trip it asked for
  queue,      \* stream -> the queue object subscribe() holds
  last        \* stream -> the last event it forwarded (history)

brokerVars == <<queueOf, buf, at, watches, queue, last>>
streamVars == <<at, watches, queue, last>>

Msg(name, r, status) == [name |-> name, run |-> r, status |-> status]

BrokerTypeOK ==
  /\ queueOf \in [Trips -> Queues \cup {NoQueue}]
  /\ buf \in [Queues -> Seq(Event)]
  /\ at \in [Streams -> {"idle", "authorised", "attached", "ended", "cut"}]
  /\ watches \in [Streams -> Trips]
  /\ queue \in [Streams -> Queues \cup {NoQueue}]
  /\ \A s \in Streams : at[s] = "attached" => queue[s] \in Queues
  /\ last \in [Streams -> Event \cup {NoEvent}]

BrokerInit ==
  /\ queueOf = [t \in Trips |-> NoQueue]
  /\ buf = [q \in Queues |-> <<>>]
  /\ at = [s \in Streams |-> "idle"]
  /\ watches \in [Streams -> Trips]
  /\ queue = [s \in Streams |-> NoQueue]
  /\ last = [s \in Streams |-> NoEvent]

-------------------------------------------------------------------------------
(* The runner's side.                                                      *)

\* Mutation of Register: plain assignment.
RegisterAnew(t, q) == queueOf' = [queueOf EXCEPT ![t] = q]

\* register(): dict.setdefault, so an existing queue is kept.
Register(t, q) ==
  queueOf' = [queueOf EXCEPT ![t] = IF @ = NoQueue THEN q ELSE @]

\* _drop_queue(): a subscriber that holds the queue object keeps it.
DropQueue(t) == queueOf' = [queueOf EXCEPT ![t] = NoQueue]

\* _publish() of several events with no suspension between them; an event for
\* a trip without a queue is dropped on the floor.
Publish(t, events) ==
  buf' = [q \in Queues |-> IF q = queueOf[t] THEN buf[q] \o events ELSE buf[q]]

-------------------------------------------------------------------------------
(* The SSE side.                                                           *)

\* stream_trip() has found the trip; the response body starts later.
OpenStream(s, t) ==
  /\ at[s] = "idle"
  /\ watches[s] = t
  /\ at' = [at EXCEPT ![s] = "authorised"]
  /\ UNCHANGED <<queueOf, buf, watches, queue, last>>

\* First step of subscribe(): attach to the trip's queue, or return at once.
Subscribe(s) ==
  LET q == queueOf[watches[s]] IN
  /\ at[s] = "authorised"
  /\ OneViewer => \A o \in Streams : at[o] = "attached" => watches[o] # watches[s]
  /\ at' = [at EXCEPT ![s] = IF q = NoQueue THEN "ended" ELSE "attached"]
  /\ queue' = [queue EXCEPT ![s] = q]
  /\ UNCHANGED <<queueOf, buf, watches, last>>

\* One turn of subscribe()'s loop: _EOF ends the stream, any other event is
\* forwarded to the client.
Deliver(s) ==
  LET q == queue[s]
      e == Head(buf[q])
  IN
  /\ at[s] = "attached"
  /\ buf[q] # <<>>
  /\ buf' = [buf EXCEPT ![q] = Tail(@)]
  /\ IF e.name = "_eof"
       THEN at' = [at EXCEPT ![s] = "ended"] /\ UNCHANGED last
       ELSE last' = [last EXCEPT ![s] = e] /\ UNCHANGED at
  /\ UNCHANGED <<queueOf, watches, queue>>

\* The client goes away; the runner is not told.
Disconnect(s) ==
  /\ at[s] \in {"authorised", "attached"}
  /\ at' = [at EXCEPT ![s] = "cut"]
  /\ UNCHANGED <<queueOf, buf, watches, queue, last>>

\* The process dies: queues and connections go with it.
BrokerCrash ==
  /\ queueOf' = [t \in Trips |-> NoQueue]
  /\ buf' = [q \in Queues |-> <<>>]
  /\ at' = [s \in Streams |->
             IF at[s] \in {"authorised", "attached"} THEN "cut" ELSE at[s]]
  /\ UNCHANGED <<watches, queue, last>>
===============================================================================
