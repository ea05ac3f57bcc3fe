------------------------------ MODULE TripProofs ------------------------------
(***************************************************************************)
(* Theorems about TripRuns, for any numbers of trips, runs and streams and *)
(* any number of failures and crashes.                                     *)
(***************************************************************************)
EXTENDS TripRuns, TLAPS

USE DEF brokerVars, streamVars, rowVars, runVars

-------------------------------------------------------------------------------
(* Types of the rows and runs: one step per group of actions.              *)

\* Storing a report, deleting reports and patching one keep their types.
LEMMA ReportsTyped ==
  ASSUME reports \in [Trips -> Seq(Runs)], NEW t \in Trips, NEW r \in Runs
  PROVE  /\ [reports EXCEPT ![t] = Append(@, r)] \in [Trips -> Seq(Runs)]
         /\ [reports EXCEPT ![t] = <<>>] \in [Trips -> Seq(Runs)]
  OBVIOUS

\* Patching a stored report keeps the type of its extras.
LEMMA PatchTyped ==
  ASSUME extras \in [Runs -> SUBSET {"day_plan", "translations"}], NEW r \in Runs,
         NEW part \in {"day_plan", "translations"}, Patch(r, part)
  PROVE  extras' \in [Runs -> SUBSET {"day_plan", "translations"}]
  BY DEF Patch

\* Every step keeps the types of the rows and the runs.
LEMMA RunTypeStep == RunTypeOK /\ [Next]_vars => RunTypeOK'
  <1> SUFFICES ASSUME RunTypeOK, [Next]_vars PROVE RunTypeOK'
    OBVIOUS
  <1>r. reports \in [Trips -> Seq(Runs)] /\ \A r \in Runs : tripOf[r] \in Trips
    BY DEF RunTypeOK
  <1>e. extras \in [Runs -> SUBSET {"day_plan", "translations"}]
    BY DEF RunTypeOK
  <1>1. ASSUME Handlers PROVE RunTypeOK'
    <2>1. ASSUME NEW t \in Trips, CreateParked(t) \/ Delete(t) PROVE RunTypeOK'
      <3>1. CASE CreateParked(t) BY <3>1 DEF RunTypeOK, CreateParked
      <3>2. CASE Delete(t)
        <4>1. reports' \in [Trips -> Seq(Runs)] BY <1>r, <3>2, ReportsTyped DEF Delete
        <4>2. QED BY <3>2, <4>1 DEF RunTypeOK, Delete
      <3>3. QED BY <2>1, <3>1, <3>2
    <2>2. ASSUME NEW t \in Trips, NEW r \in Runs, NEW k \in {"cycle", "refine"},
                 NEW p \in Runs \cup {NoRun}, Accept(r, t, k, p)
          PROVE  RunTypeOK'
      BY <2>2 DEF RunTypeOK, Accept, Live, Unsettled, BeforeSave
    <2>3. ASSUME NEW t \in Trips, NEW r \in Runs, CreateRunning(t, r) \/ Clarify(t, r)
          PROVE  RunTypeOK'
      BY <2>2, <2>3 DEF RunTypeOK, CreateRunning, Clarify
    <2>4. ASSUME NEW t \in Trips, NEW r \in Runs, Refine(t, r) PROVE RunTypeOK'
      <3>1. Latest(t) \in Runs BY <2>4 DEF RunTypeOK, Refine, Latest
      <3>2. QED BY <2>2, <2>4, <3>1 DEF RunTypeOK, Refine
    <2>5. ASSUME DeleteAccount PROVE RunTypeOK'
      BY <2>5 DEF RunTypeOK, DeleteAccount
    <2>6. QED BY <1>1, <2>1, <2>3, <2>4, <2>5 DEF Handlers
  <1>2. ASSUME NEW r \in Runs, RunStep(r) PROVE RunTypeOK'
    <2> USE DEF Step, Live, Unsettled, BeforeSave, AfterSave
    <2>1. CASE Respond(r) \/ Begin(r)
      BY <2>1 DEF RunTypeOK, Respond, Begin
    <2>2. CASE MarkRunning(r) \/ Load(r)
      BY <2>2 DEF RunTypeOK, MarkRunning, SetStatus, Load
    <2>3. CASE Phase(r)
      <3>1. phases' \in [Runs -> 0..MaxPhases]
        <4>1. phases[r] \in 0..MaxPhases /\ phases[r] < MaxPhases /\ MaxPhases \in Nat
          BY RunConstants, <2>3 DEF RunTypeOK, Phase
        <4>2. phases[r] + 1 \in 0..MaxPhases
          BY <4>1
        <4>3. phases \in [Runs -> 0..MaxPhases] /\ phases' = [phases EXCEPT ![r] = phases[r] + 1]
          BY <2>3 DEF RunTypeOK, Phase
        <4>4. QED BY <4>2, <4>3
      <3>2. pc' \in [Runs -> {"idle", "done", "raised", "lost"} \cup Live]
        BY <2>3 DEF RunTypeOK, Phase
      <3>3. UNCHANGED <<kind, tripOf, prev, rowVars, outcome, items, extras, faults, crashes>>
        BY <2>3 DEF Phase
      <3>4. QED BY <3>1, <3>2, <3>3 DEF RunTypeOK
    <2>4. CASE CycleOk(r) \/ CycleAbort(r) \/ RefineOk(r) \/ RefineAbort(r)
      <3>1. PICK o \in {"ok", "aborted", "blank"}, i \in BOOLEAN :
              /\ pc' = [pc EXCEPT ![r] = "produced"]
              /\ outcome' = [outcome EXCEPT ![r] = o]
              /\ items' = [items EXCEPT ![r] = i]
              /\ UNCHANGED <<kind, tripOf, prev, rowVars, phases, extras, faults, crashes>>
        BY <2>4 DEF CycleOk, CycleAbort, RefineOk, RefineAbort, Produce
      <3>2. QED BY <3>1 DEF RunTypeOK
    <2>5. CASE SaveReport(r)
      <3>1. reports' \in [Trips -> Seq(Runs)]
        <4>1. \/ UNCHANGED reports
              \/ reports' = [reports EXCEPT ![tripOf[r]] = Append(@, r)]
          BY <2>5 DEF RunTypeOK, SaveReport
        <4>2. [reports EXCEPT ![tripOf[r]] = Append(@, r)] \in [Trips -> Seq(Runs)]
          BY <1>r, ReportsTyped
        <4>3. QED BY <1>r, <4>1, <4>2
      <3>2. outcome' \in [Runs -> {"none", "ok", "aborted", "blank", "failed"}]
        BY <2>5 DEF RunTypeOK, SaveReport
      <3>3. QED BY <2>5, <3>1, <3>2 DEF RunTypeOK, SaveReport
    <2>6. CASE PlanDays(r) \/ Translate(r)
      <3>1. extras' \in [Runs -> SUBSET {"day_plan", "translations"}]
        BY <1>e, <2>6, PatchTyped DEF PlanDays, Translate
      <3>2. QED BY <2>6, <3>1 DEF RunTypeOK, PlanDays, Translate
    <2>7. CASE Settle(r)
      BY <2>7 DEF RunTypeOK, Settle, SetStatus, Final
    <2>8. CASE Announce(r)
      BY <2>8 DEF RunTypeOK, Announce
    <2>9. QED BY <1>2, <2>1, <2>2, <2>3, <2>4, <2>5, <2>6, <2>7, <2>8 DEF RunStep
  <1>3. ASSUME NEW r \in Runs, FaultStep(r) PROVE RunTypeOK'
    <2> USE DEF Step, Fault, Live, Unsettled, AfterSave
    <2>1. CASE Escape(r) \/ AcceptFails(r)
      <3>1. pc' \in [Runs -> {"idle", "done", "raised", "lost"} \cup Live]
        BY RunConstants, <2>1 DEF RunTypeOK, Escape, AcceptFails
      <3>2. QED BY RunConstants, <2>1, <3>1 DEF RunTypeOK, Escape, AcceptFails
    <2>2. CASE SaveFails(r)
      <3>1. reports' \in [Trips -> Seq(Runs)]
        <4>1. \/ UNCHANGED reports
              \/ reports' = [reports EXCEPT ![tripOf[r]] = Append(@, r)]
          BY <2>2 DEF SaveFails
        <4>2. [reports EXCEPT ![tripOf[r]] = Append(@, r)] \in [Trips -> Seq(Runs)]
          BY <1>r, ReportsTyped
        <4>3. QED BY <1>r, <4>1, <4>2
      <3>2. QED BY RunConstants, <2>2, <3>1 DEF RunTypeOK, SaveFails
    <2>3. CASE SettleFails(r)
      BY RunConstants, <2>3 DEF RunTypeOK, SettleFails
    <2>4. QED BY <1>3, <2>1, <2>2, <2>3 DEF FaultStep
  <1>4. ASSUME NEW s \in Streams, Viewer(s) PROVE RunTypeOK'
    BY <1>4 DEF RunTypeOK, Viewer
  <1>5. CASE Crash
    BY RunConstants, <1>5 DEF RunTypeOK, Crash
  <1>6. CASE UNCHANGED vars
    BY <1>6 DEF RunTypeOK, vars
  <1>7. QED BY <1>1, <1>2, <1>3, <1>4, <1>5, <1>6 DEF Next

-------------------------------------------------------------------------------
(* Types of the broker: which steps touch which part of it.                *)

\* Every message a run publishes is one a queue may hold.
LEMMA MessagesTyped ==
  ASSUME NEW r \in Runs
  PROVE  /\ \A name \in EventNames : <<Msg(name, r, "none")>> \in Seq(Event)
         /\ <<Msg("started", r, "none")>> \o
              (IF kind[r] = "refine" THEN <<Msg("refine_started", r, "none")>> ELSE <<>>)
              \in Seq(Event)
         /\ <<Msg("trip_complete", r, Final(r)), Msg("_eof", r, "none")>> \in Seq(Event)
         /\ <<>> \in Seq(Event)
  <1>1. /\ \A name \in EventNames : Msg(name, r, "none") \in Event
        /\ Msg("trip_complete", r, Final(r)) \in Event
        /\ Msg("started", r, "none") \in Event
        /\ Msg("refine_started", r, "none") \in Event
        /\ Msg("_eof", r, "none") \in Event
    BY DEF Msg, Event, EventNames, Final
  <1>2. QED BY <1>1

\* What a run or a handler does to the broker: it maps or unmaps the queue of its
\* trip and appends events to that queue; a crash empties it.
BrokerEffect(t, r) ==
  /\ \/ UNCHANGED queueOf
     \/ \E q \in Queues : Register(t, q)
     \/ DropQueue(t)
  /\ \/ UNCHANGED buf
     \/ \E events \in Seq(Event) : Publish(t, events)
  /\ UNCHANGED streamVars

\* A step of a run changes the broker by registering, publishing or dropping a queue.
LEMMA RunEffect ==
  ASSUME NEW r \in Runs, RunStep(r) \/ FaultStep(r)
  PROVE  BrokerEffect(tripOf[r], r)
  <1> USE DEF BrokerEffect, Step
  <1>1. CASE Respond(r) \/ Begin(r)
    BY <1>1 DEF Respond, Begin, Queues
  <1>2. CASE MarkRunning(r)
    BY <1>2, MessagesTyped DEF MarkRunning
  <1>3. CASE Phase(r)
    BY <1>3, MessagesTyped DEF Phase, EventNames
  <1>4. CASE Load(r) \/ SaveReport(r) \/ PlanDays(r) \/ Translate(r) \/ Settle(r)
    BY <1>4, MessagesTyped DEF Load, SaveReport, PlanDays, Translate, Settle
  <1>5. CASE CycleOk(r) \/ CycleAbort(r) \/ RefineOk(r) \/ RefineAbort(r)
    BY <1>5, MessagesTyped
    DEF CycleOk, CycleAbort, RefineOk, RefineAbort, Produce, EventNames
  <1>6. CASE Announce(r)
    BY <1>6, MessagesTyped DEF Announce
  <1>7. CASE FaultStep(r)
    BY <1>7, MessagesTyped DEF FaultStep, Escape, AcceptFails, SaveFails, SettleFails
  <1>8. QED BY <1>1, <1>2, <1>3, <1>4, <1>5, <1>6, <1>7 DEF RunStep

\* Those changes keep the broker's types.
LEMMA EffectTyped ==
  ASSUME BrokerTypeOK, NEW t \in Trips, NEW r \in Runs, BrokerEffect(t, r)
  PROVE  BrokerTypeOK'
  <1>1. queueOf' \in [Trips -> Queues \cup {NoQueue}]
    BY DEF BrokerEffect, Register, DropQueue, BrokerTypeOK
  <1>2. buf' \in [Queues -> Seq(Event)]
    <2>1. ASSUME NEW q \in Queues, NEW events \in Seq(Event)
          PROVE  buf[q] \in Seq(Event) /\ buf[q] \o events \in Seq(Event)
      BY DEF BrokerTypeOK
    <2>2. QED BY <2>1 DEF BrokerEffect, Publish, BrokerTypeOK
  <1>3. QED BY <1>1, <1>2 DEF BrokerEffect, BrokerTypeOK

\* Every step keeps the types of the broker.
LEMMA BrokerTypeStep == TypeOK /\ [Next]_vars => BrokerTypeOK'
  <1> SUFFICES ASSUME TypeOK, [Next]_vars PROVE BrokerTypeOK'
    OBVIOUS
  <1>1. ASSUME Handlers \/ UNCHANGED vars PROVE BrokerTypeOK'
    <2>1. UNCHANGED brokerVars
      BY <1>1 DEF Handlers, CreateParked, CreateRunning, Clarify, Refine, Accept, Delete,
                  DeleteAccount, vars
    <2>2. QED BY <2>1 DEF TypeOK, BrokerTypeOK
  <1>2. ASSUME NEW r \in Runs, RunStep(r) \/ FaultStep(r) PROVE BrokerTypeOK'
    BY <1>2, RunEffect, EffectTyped DEF TypeOK, RunTypeOK
  <1>3. ASSUME NEW s \in Streams, NEW t \in Trips, OpenStream(s, t) PROVE BrokerTypeOK'
    BY <1>3 DEF OpenStream, TypeOK, BrokerTypeOK
  <1>4. ASSUME NEW s \in Streams, Subscribe(s) \/ Disconnect(s) PROVE BrokerTypeOK'
    BY <1>4 DEF Subscribe, Disconnect, TypeOK, BrokerTypeOK
  <1>5. ASSUME NEW s \in Streams, Deliver(s) PROVE BrokerTypeOK'
    <2> DEFINE q == queue[s]
    <2>1. q \in Queues /\ buf[q] \in Seq(Event) /\ buf[q] # <<>>
      BY <1>5 DEF Deliver, TypeOK, BrokerTypeOK
    <2>2. Head(buf[q]) \in Event /\ Tail(buf[q]) \in Seq(Event)
      BY <2>1
    <2>3. buf' \in [Queues -> Seq(Event)]
      BY <1>5, <2>1, <2>2 DEF Deliver, TypeOK, BrokerTypeOK
    <2>4. \/ at' = [at EXCEPT ![s] = "ended"] /\ UNCHANGED last
          \/ last' = [last EXCEPT ![s] = Head(buf[q])] /\ UNCHANGED at
      BY <1>5 DEF Deliver
    <2>5. UNCHANGED <<queueOf, watches, queue>>
      BY <1>5 DEF Deliver
    <2>6. last' \in [Streams -> Event \cup {NoEvent}]
      BY <2>2, <2>4 DEF TypeOK, BrokerTypeOK
    <2>7. QED BY <2>3, <2>4, <2>5, <2>6 DEF TypeOK, BrokerTypeOK
  <1>6. CASE Crash
    BY <1>6 DEF Crash, BrokerCrash, TypeOK, BrokerTypeOK
  <1>7. QED BY <1>1, <1>2, <1>3, <1>4, <1>5, <1>6 DEF Next, Viewer

\* The initial state is well typed.
LEMMA TypeInit == Init => TypeOK
  BY RunConstants, BrokerConstants
  DEF Init, BrokerInit, TypeOK, RunTypeOK, BrokerTypeOK

\* Every variable keeps its type in every reachable state of a trip's life: the
\* counters stay within their bounds and no step makes up a status.
THEOREM Typed == Spec => []TypeOK
  <1>1. TypeOK /\ [Next]_vars => TypeOK'
    BY RunTypeStep, BrokerTypeStep DEF TypeOK
  <1>2. QED BY TypeInit, <1>1, PTL DEF Spec

-------------------------------------------------------------------------------
(* One writer per trip.                                                    *)

\* What a step of run r does to the program counters and to the trips' rows.
RowEffect(r) ==
  /\ UNCHANGED tripOf
  /\ \E to \in {"idle", "done", "raised", "lost"} \cup Live :
       /\ pc' = [pc EXCEPT ![r] = to]
       /\ to \in Unsettled => pc[r] \in Unsettled
       /\ \/ UNCHANGED row
          \/ SetStatus(tripOf[r], "running") /\ to \in Unsettled
          \/ SetStatus(tripOf[r], Final(r)) /\ to = "settled" /\ pc[r] \in Unsettled

\* A step of a run changes no row but its own trip's, and that as its pc says.
LEMMA RunRowEffect ==
  ASSUME RunTypeOK, NEW r \in Runs, RunStep(r) \/ FaultStep(r)
  PROVE  RowEffect(r)
  <1> USE DEF RowEffect, Step, Live, Unsettled, BeforeSave, AfterSave
  <1>t. pc = [pc EXCEPT ![r] = pc[r]]
    BY DEF RunTypeOK
  <1>1. CASE Respond(r) \/ Begin(r) \/ MarkRunning(r) \/ Load(r)
    BY <1>1 DEF Respond, Begin, MarkRunning, Load
  <1>2. CASE Phase(r)
    BY <1>2 DEF Phase
  <1>3. CASE CycleOk(r) \/ CycleAbort(r) \/ RefineOk(r) \/ RefineAbort(r)
    BY <1>3 DEF CycleOk, CycleAbort, RefineOk, RefineAbort, Produce
  <1>4. CASE SaveReport(r) \/ PlanDays(r) \/ Translate(r)
    BY <1>4 DEF SaveReport, PlanDays, Translate
  <1>5. CASE Settle(r) \/ Announce(r)
    BY <1>5 DEF Settle, Announce
  <1>6. CASE FaultStep(r)
    BY <1>6 DEF FaultStep, Escape, AcceptFails, SaveFails, SettleFails
  <1>7. QED BY <1>1, <1>2, <1>3, <1>4, <1>5, <1>6 DEF RunStep

\* Every step keeps one writer per trip.
LEMMA SingleWriterStep == TypeOK /\ SingleWriter /\ [Next]_vars => SingleWriter'
  <1> SUFFICES ASSUME RunTypeOK, SingleWriter, [Next]_vars PROVE SingleWriter'
    BY DEF TypeOK
  <1>1. ASSUME NEW t \in Trips, NEW r \in Runs,
               CreateRunning(t, r) \/ Clarify(t, r) \/ Refine(t, r)
        PROVE  SingleWriter'
    <2>1. /\ tripOf[r] = t
          /\ pc' = [pc EXCEPT ![r] = "accepted"]
          /\ row' = [row EXCEPT ![t] = "running"]
          /\ UNCHANGED tripOf
          /\ row[t] \notin {"running", "gone"}
      BY <1>1 DEF CreateRunning, Clarify, Refine, Accept, Exists
    <2>2. \A o \in Runs : pc[o] \in Unsettled => tripOf[o] # t
      BY <2>1 DEF SingleWriter
    <2>3. \A o \in Runs : pc'[o] \in Unsettled => o = r \/ (pc[o] \in Unsettled /\ tripOf[o] # t)
      <3>1. \A o \in Runs : o # r => pc'[o] = pc[o]
        BY <2>1 DEF RunTypeOK
      <3>2. QED BY <2>2, <3>1
    <2>4. row'[t] = "running" /\ \A u \in Trips : u # t => row'[u] = row[u]
      BY <2>1 DEF RunTypeOK
    <2>5. QED BY <2>1, <2>3, <2>4 DEF SingleWriter, RunTypeOK
  <1>2. ASSUME NEW t \in Trips, CreateParked(t) \/ Delete(t) PROVE SingleWriter'
    <2>1. UNCHANGED <<pc, tripOf>> /\ row[t] # "running"
      BY <1>2 DEF CreateParked, Delete
    <2>2. \/ row[t] = "none" /\ row' = [row EXCEPT ![t] = "clarifying"]
          \/ row' = [row EXCEPT ![t] = "gone"]
      BY <1>2 DEF CreateParked, Delete
    <2>3. QED BY <2>1, <2>2 DEF SingleWriter, RunTypeOK
  <1>3. CASE DeleteAccount
    BY <1>3 DEF DeleteAccount, SingleWriter, RunTypeOK
  <1>4. ASSUME NEW r \in Runs, RowEffect(r) PROVE SingleWriter'
    <2>1. \A o \in Runs : pc'[o] \in Unsettled => pc[o] \in Unsettled /\ tripOf'[o] = tripOf[o]
      BY <1>4 DEF RowEffect, RunTypeOK
    <2>2. ASSUME NEW o \in Runs, pc'[o] \in Unsettled
          PROVE  row'[tripOf[o]] \in {"running", "gone"}
      <3>1. pc[o] \in Unsettled /\ row[tripOf[o]] \in {"running", "gone"}
        BY <2>1, <2>2 DEF SingleWriter
      <3>2. CASE UNCHANGED row
        BY <3>1, <3>2
      <3>3. CASE SetStatus(tripOf[r], "running")
        BY <3>1, <3>3 DEF SetStatus, RunTypeOK
      <3>4. CASE /\ SetStatus(tripOf[r], Final(r))
                 /\ pc' = [pc EXCEPT ![r] = "settled"]
                 /\ pc[r] \in Unsettled
        <4>1. o # r
          BY <2>2, <3>4 DEF RunTypeOK, Unsettled, BeforeSave, AfterSave
        <4>2. tripOf[o] # tripOf[r]
          BY <3>1, <3>4, <4>1 DEF SingleWriter
        <4>3. QED BY <3>1, <3>4, <4>2 DEF SetStatus, RunTypeOK
      <3>5. QED BY <1>4, <3>2, <3>3, <3>4 DEF RowEffect
    <2>3. QED BY <2>1, <2>2 DEF SingleWriter
  <1>5. CASE Crash
    BY <1>5 DEF Crash, SingleWriter, RunTypeOK, Live, Unsettled, BeforeSave, AfterSave
  <1>6. ASSUME NEW s \in Streams, Viewer(s) PROVE SingleWriter'
    BY <1>6 DEF Viewer, SingleWriter
  <1>7. CASE UNCHANGED vars
    BY <1>7 DEF vars, SingleWriter
  <1>8. QED
    BY <1>1, <1>2, <1>3, <1>4, <1>5, <1>6, <1>7, RunRowEffect DEF Next, Handlers

\* No run is at work at first.
LEMMA SingleWriterInit == Init => SingleWriter
  BY DEF Init, SingleWriter, Unsettled, BeforeSave, AfterSave

\* Whatever is requested, fails or crashes, and for any number of trips and runs,
\* at most one run of a trip owes it a final status and the row says so: the
\* status check under the row lock is all the mutual exclusion the runner needs.
THEOREM OneWriter == Spec => []SingleWriter
  <1>1. QED BY Typed, SingleWriterInit, SingleWriterStep, PTL DEF Spec

-------------------------------------------------------------------------------
(* The reports of a trip.                                                  *)

AllHistory == HistoryInv /\ CompleteHasReport /\ LinearHistory

\* A step that leaves rows, reports and results alone and takes no run back.
Quiet ==
  /\ UNCHANGED <<row, reports, kind, prev, outcome, tripOf>>
  /\ \A r \in Runs :
       /\ pc'[r] \in BeforeSave => pc[r] \in BeforeSave
       /\ pc'[r] \in AfterSave => pc[r] \in AfterSave
       /\ pc'[r] = "idle" => pc[r] = "idle"

\* A step that only moves runs forward keeps the history.
LEMMA QuietHistory == RunTypeOK /\ AllHistory /\ Quiet => AllHistory'
  <1> SUFFICES ASSUME RunTypeOK, AllHistory, Quiet PROVE AllHistory'
    OBVIOUS
  <1> USE DEF AllHistory, HistoryInv, Quiet
  <1>1. Written'
    <2>1. \A t \in Trips : \A i \in DOMAIN reports[t] : reports[t][i] \in Runs
      BY DEF RunTypeOK
    <2>2. QED BY <2>1 DEF Written
  <1>2. UnworkedIsEmpty' BY DEF UnworkedIsEmpty
  <1>3. BaseIsLatest' BY DEF BaseIsLatest, Latest
  <1>4. SavedIsLatest' BY DEF SavedIsLatest, Latest
  <1>5. CompleteHasReport' BY DEF CompleteHasReport, Latest
  <1>6. LinearHistory' BY DEF LinearHistory
  <1>7. QED BY <1>1, <1>2, <1>3, <1>4, <1>5, <1>6

\* A handler accepts run r: a first cycle of a trip without reports, or a refine of
\* the latest report.
LEMMA AcceptHistory ==
  ASSUME RunTypeOK, AllHistory, NEW t \in Trips, NEW r \in Runs,
         CreateRunning(t, r) \/ Clarify(t, r) \/ Refine(t, r)
  PROVE  AllHistory'
  <1> USE DEF AllHistory, HistoryInv
  <1>1. /\ tripOf[r] = t
        /\ pc[r] = "idle"
        /\ row[t] # "gone"
        /\ pc' = [pc EXCEPT ![r] = "accepted"]
        /\ row' = [row EXCEPT ![t] = "running"]
        /\ UNCHANGED <<tripOf, reports, outcome>>
    BY DEF CreateRunning, Clarify, Refine, Accept, Exists
  <1>2. PICK k \in {"cycle", "refine"}, p \in Runs \cup {NoRun} :
          /\ kind' = [kind EXCEPT ![r] = k]
          /\ prev' = [prev EXCEPT ![r] = p]
          /\ \/ k = "cycle" /\ reports[t] = <<>>
             \/ k = "refine" /\ reports[t] # <<>> /\ p = Latest(t)
    <2>1. CASE CreateRunning(t, r) \/ Clarify(t, r)
      BY <2>1 DEF CreateRunning, Clarify, Accept, UnworkedIsEmpty
    <2>2. CASE Refine(t, r)
      <3>1. Latest(t) \in Runs BY <2>2 DEF Refine, Latest, RunTypeOK
      <3>2. QED BY <2>2, <3>1 DEF Refine, Accept
    <2>3. QED BY <2>1, <2>2
  <1>3. ASSUME NEW u \in Trips, NEW i \in DOMAIN reports[u]
        PROVE  reports[u][i] \in Runs /\ reports[u][i] # r
    BY <1>1 DEF RunTypeOK, Written
  <1>4. \A o \in Runs : o # r =>
          pc'[o] = pc[o] /\ kind'[o] = kind[o] /\ prev'[o] = prev[o]
    BY <1>1, <1>2 DEF RunTypeOK
  <1>5. pc'[r] = "accepted" /\ kind'[r] \in {"cycle", "refine"}
    BY <1>1, <1>2 DEF RunTypeOK
  <1>6. row'[t] = "running" /\ \A u \in Trips : u # t => row'[u] = row[u]
    BY <1>1 DEF RunTypeOK
  <1>7. Written'
    BY <1>1, <1>3, <1>4 DEF Written
  <1>8. UnworkedIsEmpty'
    BY <1>1, <1>6 DEF UnworkedIsEmpty
  <1>9. \A o \in Runs : row'[tripOf[o]] # "gone" => row[tripOf[o]] # "gone"
    BY <1>1, <1>6 DEF RunTypeOK
  <1>10. BaseIsLatest' /\ SavedIsLatest'
    <2>1. ASSUME NEW o \in Runs, pc'[o] \in BeforeSave, row'[tripOf[o]] # "gone"
          PROVE  \/ kind'[o] = "cycle" /\ reports[tripOf[o]] = <<>>
                 \/ /\ kind'[o] = "refine"
                    /\ reports[tripOf[o]] # <<>>
                    /\ prev'[o] = Latest(tripOf[o])
      <3>1. CASE o = r BY <1>1, <1>2, <3>1 DEF RunTypeOK
      <3>2. CASE o # r BY <1>4, <1>9, <2>1, <3>2 DEF BaseIsLatest
      <3>3. QED BY <3>1, <3>2
    <2>2. ASSUME NEW o \in Runs, pc'[o] \in AfterSave, outcome[o] = "ok",
                 row'[tripOf[o]] # "gone"
          PROVE  reports[tripOf[o]] # <<>> /\ Latest(tripOf[o]) = o
      <3>1. o # r BY <1>5, <2>2 DEF AfterSave
      <3>2. QED BY <1>4, <1>9, <2>2, <3>1 DEF SavedIsLatest
    <2>3. QED BY <1>1, <2>1, <2>2 DEF BaseIsLatest, SavedIsLatest, Latest
  <1>11. CompleteHasReport'
    BY <1>1, <1>6 DEF CompleteHasReport, Latest
  <1>12. LinearHistory'
    BY <1>1, <1>3, <1>4 DEF LinearHistory
  <1>13. QED BY <1>7, <1>8, <1>10, <1>11, <1>12

\* Parking and deleting: a trip without reports and without a working run.
LEMMA RemoveHistory ==
  ASSUME RunTypeOK, SingleWriter, AllHistory,
         (\E t \in Trips : CreateParked(t) \/ Delete(t)) \/ DeleteAccount
  PROVE  AllHistory'
  <1> USE DEF AllHistory, HistoryInv
  <1>1. UNCHANGED <<kind, prev, pc, outcome, tripOf>>
    BY DEF CreateParked, Delete, DeleteAccount
  <1>2. \A t \in Trips :
          \/ row'[t] = row[t] /\ reports'[t] = reports[t]
          \/ row'[t] = "clarifying" /\ row[t] = "none" /\ reports'[t] = reports[t]
          \/ row'[t] = "gone" /\ reports'[t] = <<>>
    BY DEF CreateParked, Delete, DeleteAccount, RunTypeOK
  <1>3. \A t \in Trips : reports'[t] = reports[t] \/ reports'[t] = <<>>
    BY <1>2
  <1>4. Written'
    BY <1>1, <1>3 DEF Written
  <1>5. UnworkedIsEmpty'
    BY <1>2 DEF UnworkedIsEmpty
  <1>6. \A r \in Runs : row'[tripOf[r]] # "gone" =>
          row[tripOf[r]] # "gone" /\ reports'[tripOf[r]] = reports[tripOf[r]]
    BY <1>2 DEF RunTypeOK
  <1>7. BaseIsLatest' /\ SavedIsLatest'
    BY <1>1, <1>6 DEF BaseIsLatest, SavedIsLatest, Latest
  <1>8. CompleteHasReport'
    BY <1>1, <1>2 DEF CompleteHasReport, Latest
  <1>9. LinearHistory'
    BY <1>1, <1>3 DEF LinearHistory
  <1>10. QED BY <1>4, <1>5, <1>7, <1>8, <1>9

\* The steps of a run that only move it forward.  Marking the trip "running" does
\* not change it: it is running or gone as long as the run owes it a status.
LEMMA QuietStep ==
  ASSUME RunTypeOK, SingleWriter, NEW r \in Runs,
         \/ Respond(r) \/ Begin(r) \/ MarkRunning(r) \/ Load(r) \/ Phase(r)
         \/ PlanDays(r) \/ Translate(r) \/ Announce(r)
         \/ Escape(r) \/ AcceptFails(r) \/ SettleFails(r)
  PROVE  Quiet
  <1> USE DEF Step, BeforeSave, AfterSave
  <1>1. UNCHANGED <<reports, kind, prev, outcome, tripOf>>
    BY DEF Respond, Begin, MarkRunning, Load, Phase, PlanDays, Translate, Announce,
           Escape, AcceptFails, SettleFails
  <1>2. UNCHANGED row
    <2>1. CASE MarkRunning(r)
      <3>1. row[tripOf[r]] \in {"running", "gone"}
        BY <2>1 DEF MarkRunning, SingleWriter, Unsettled
      <3>2. QED BY <2>1, <3>1 DEF MarkRunning, SetStatus, Exists, RunTypeOK
    <2>2. QED
      BY <2>1 DEF Respond, Begin, Load, Phase, PlanDays, Translate, Announce,
                  Escape, AcceptFails, SettleFails
  <1>3. \E to \in {"scheduled", "begun", "marked", "loaded", "planned", "enriched",
                   "settled", "done", "raised", "lost"} :
          /\ pc' = [pc EXCEPT ![r] = to]
          /\ to \in BeforeSave => pc[r] \in BeforeSave
          /\ to \in AfterSave => pc[r] \in AfterSave
    BY DEF Respond, Begin, MarkRunning, Load, Phase, PlanDays, Translate, Announce,
           Escape, AcceptFails, SettleFails
  <1>4. QED BY <1>1, <1>2, <1>3 DEF Quiet, RunTypeOK

\* The outcome of a run that has not stored anything is no report's outcome.
LEMMA ProduceHistory ==
  ASSUME RunTypeOK, AllHistory, NEW r \in Runs,
         CycleOk(r) \/ CycleAbort(r) \/ RefineOk(r) \/ RefineAbort(r)
  PROVE  AllHistory'
  <1> USE DEF AllHistory, HistoryInv
  <1>1. PICK o \in {"ok", "aborted", "blank"} :
          /\ pc[r] = "loaded"
          /\ pc' = [pc EXCEPT ![r] = "produced"]
          /\ outcome' = [outcome EXCEPT ![r] = o]
          /\ UNCHANGED <<row, reports, kind, prev, tripOf>>
    BY DEF CycleOk, CycleAbort, RefineOk, RefineAbort, Produce, Step
  <1>2. /\ pc'[r] = "produced"
        /\ \A q \in Runs : q # r => pc'[q] = pc[q] /\ outcome'[q] = outcome[q]
    BY <1>1 DEF RunTypeOK
  <1>3. ASSUME NEW t \in Trips, NEW i \in DOMAIN reports[t]
        PROVE  reports[t][i] \in Runs /\ reports[t][i] # r
    BY <1>1 DEF RunTypeOK, Written, BeforeSave
  <1>4. Written'
    BY <1>1, <1>2, <1>3 DEF Written
  <1>5. UnworkedIsEmpty'
    BY <1>1 DEF UnworkedIsEmpty
  <1>6. BaseIsLatest'
    BY <1>1, <1>2 DEF BaseIsLatest, Latest, BeforeSave
  <1>7. SavedIsLatest'
    BY <1>1, <1>2 DEF SavedIsLatest, Latest, AfterSave
  <1>8. CompleteHasReport'
    <2>1. ASSUME NEW t \in Trips, reports[t] # <<>>
          PROVE  Latest(t) \in Runs /\ Latest(t) # r
      <3>1. reports[t] \in Seq(Runs) /\ Len(reports[t]) \in DOMAIN reports[t]
        BY <2>1 DEF RunTypeOK
      <3>2. QED BY <1>3, <3>1 DEF Latest
    <2>2. QED BY <1>1, <1>2, <2>1 DEF CompleteHasReport, Latest
  <1>9. LinearHistory'
    BY <1>1 DEF LinearHistory
  <1>10. QED BY <1>4, <1>5, <1>6, <1>7, <1>8, <1>9

\* Storing the report of run r, which is the only one at work on its trip: it goes
\* right behind the one it was made from.
LEMMA SaveHistory ==
  ASSUME RunTypeOK, SingleWriter, AllHistory, NEW r \in Runs, SaveReport(r) \/ SaveFails(r)
  PROVE  AllHistory'
  <1> USE DEF AllHistory, HistoryInv
  <1> DEFINE t == tripOf[r]
  <1>t. t \in Trips /\ reports[t] \in Seq(Runs)
    BY DEF RunTypeOK
  <1>1. /\ pc[r] = "produced"
        /\ pc' = [pc EXCEPT ![r] = "saved"]
        /\ UNCHANGED <<row, kind, prev, tripOf>>
    BY DEF SaveReport, SaveFails, Step
  <1>2. \/ UNCHANGED reports
        \/ row[t] \notin {"none", "gone"} /\ reports' = [reports EXCEPT ![t] = Append(@, r)]
    BY DEF SaveReport, SaveFails, Exists, RunTypeOK
  <1>3. \A o \in Runs : o # r =>
          /\ pc'[o] = pc[o]
          /\ outcome'[o] = outcome[o]
          /\ pc[o] \in Unsettled => tripOf[o] # t
    BY <1>1 DEF SaveReport, SaveFails, SingleWriter, Unsettled, BeforeSave, RunTypeOK
  <1>4. pc'[r] = "saved" /\ row[t] \in {"running", "gone"}
    BY <1>1 DEF SingleWriter, Unsettled, BeforeSave, RunTypeOK
  <1>5. \A u \in Trips : u # t => reports'[u] = reports[u]
    BY <1>2 DEF RunTypeOK
  <1>6. \/ reports'[t] = reports[t]
        \/ row[t] = "running" /\ reports'[t] = Append(reports[t], r)
    BY <1>2, <1>4, <1>t DEF RunTypeOK
  <1>7. ASSUME NEW u \in Trips, NEW i \in DOMAIN reports'[u]
        PROVE  \/ i \in DOMAIN reports[u] /\ reports'[u][i] = reports[u][i]
               \/ u = t /\ i = Len(reports[t]) + 1 /\ reports'[t][i] = r
    <2>1. CASE reports'[u] = reports[u]
      BY <2>1
    <2>2. CASE u = t /\ reports'[t] = Append(reports[t], r)
      <3>1. /\ DOMAIN reports'[t] = 1..(Len(reports[t]) + 1)
            /\ DOMAIN reports[t] = 1..Len(reports[t])
            /\ Len(reports[t]) \in Nat
        BY <1>t, <2>2
      <3>2. CASE i = Len(reports[t]) + 1
        BY <1>t, <2>2, <3>2
      <3>3. CASE i # Len(reports[t]) + 1
        <4>1. i \in 1..Len(reports[t])
          BY <2>2, <3>1, <3>3
        <4>2. Append(reports[t], r)[i] = reports[t][i]
          BY <1>t, <4>1
        <4>3. QED BY <2>2, <3>1, <4>1, <4>2
      <3>4. QED BY <3>2, <3>3
    <2>3. QED BY <1>5, <1>6, <2>1, <2>2
  <1>8. ASSUME NEW u \in Trips, NEW i \in DOMAIN reports[u]
        PROVE  /\ reports[u][i] \in Runs
               /\ reports[u][i] # r
    BY <1>1 DEF RunTypeOK, Written, BeforeSave
  <1>9. Written'
    BY <1>3, <1>4, <1>7, <1>8 DEF Written, BeforeSave
  <1>10. UnworkedIsEmpty'
    BY <1>1, <1>4, <1>5, <1>6 DEF UnworkedIsEmpty
  <1>11. BaseIsLatest'
    <2>1. \A o \in Runs : pc'[o] \in BeforeSave => o # r /\ tripOf[o] # t
      BY <1>3, <1>4 DEF Unsettled, BeforeSave
    <2>2. QED BY <1>1, <1>3, <1>5, <2>1 DEF BaseIsLatest, Latest, RunTypeOK
  <1>12. SavedIsLatest'
    <2>1. ASSUME NEW o \in Runs, o # r, pc'[o] \in AfterSave
          PROVE  reports'[tripOf[o]] = reports[tripOf[o]]
      BY <1>3, <1>5, <2>1 DEF Unsettled, RunTypeOK
    <2>2. ASSUME outcome'[r] = "ok", row[t] # "gone"
          PROVE  reports'[t] = Append(reports[t], r)
      BY <1>2, <1>4, <2>2 DEF SaveReport, SaveFails, Saves, Exists, RunTypeOK
    <2>3. reports'[t] = Append(reports[t], r) =>
            reports'[t] # <<>> /\ reports'[t][Len(reports'[t])] = r
      BY <1>t
    <2>4. QED BY <1>1, <1>3, <2>1, <2>2, <2>3 DEF SavedIsLatest, Latest
  <1>13. CompleteHasReport'
    <2>1. ASSUME NEW u \in Trips, row[u] = "complete"
          PROVE  /\ reports[u] # <<>> /\ outcome[Latest(u)] = "ok"
                 /\ u # t
                 /\ Latest(u) \in Runs /\ Latest(u) # r
      <3>1. reports[u] # <<>> /\ outcome[Latest(u)] = "ok" /\ u # t
        BY <1>4, <2>1 DEF CompleteHasReport
      <3>2. reports[u] \in Seq(Runs) /\ Len(reports[u]) \in DOMAIN reports[u]
        BY <3>1 DEF RunTypeOK
      <3>3. QED BY <1>8, <3>1, <3>2 DEF Latest
    <2>2. QED BY <1>1, <1>3, <1>5, <2>1 DEF CompleteHasReport, Latest
  <1>14. LinearHistory'
    <2> SUFFICES ASSUME NEW u \in Trips, NEW i \in DOMAIN reports'[u]
                 PROVE  /\ tripOf[reports'[u][i]] = u
                        /\ IF i = 1 THEN kind[reports'[u][i]] = "cycle"
                             ELSE /\ kind[reports'[u][i]] = "refine"
                                  /\ prev[reports'[u][i]] = reports'[u][i - 1]
      BY <1>1 DEF LinearHistory
    <2>1. CASE i \in DOMAIN reports[u] /\ reports'[u][i] = reports[u][i]
      <3>1. i # 1 => i - 1 \in DOMAIN reports[u] /\ reports'[u][i - 1] = reports[u][i - 1]
        <4>1. reports[u] \in Seq(Runs)
          BY DEF RunTypeOK
        <4>2. i # 1 => i - 1 \in 1..Len(reports[u])
          BY <2>1, <4>1
        <4>3. CASE reports'[u] = reports[u]
          BY <4>1, <4>2, <4>3
        <4>4. CASE u = t /\ reports'[u] = Append(reports[u], r)
          BY <4>1, <4>2, <4>4
        <4>5. QED BY <1>5, <1>6, <4>3, <4>4
      <3>2. QED BY <2>1, <3>1 DEF LinearHistory
    <2>2. CASE i \notin DOMAIN reports[u] \/ reports'[u][i] # reports[u][i]
      <3>1. u = t /\ i = Len(reports[t]) + 1 /\ reports'[t][i] = r
        BY <1>7, <2>2
      <3>2. reports'[t] = Append(reports[t], r) /\ row[t] = "running"
        BY <1>t, <1>6, <3>1
      <3>3. \/ kind[r] = "cycle" /\ reports[t] = <<>>
            \/ kind[r] = "refine" /\ reports[t] # <<>> /\ prev[r] = Latest(t)
        BY <1>1, <3>2 DEF BaseIsLatest, BeforeSave
      <3>4. CASE reports[t] = <<>>
        BY <1>t, <3>1, <3>3, <3>4
      <3>5. CASE reports[t] # <<>>
        <4>1. i # 1 /\ i - 1 = Len(reports[t]) /\ reports'[t][i - 1] = Latest(t)
          BY <1>t, <3>1, <3>2, <3>5 DEF Latest
        <4>2. QED BY <3>1, <3>3, <3>5, <4>1
      <3>6. QED BY <3>4, <3>5
    <2>3. QED BY <2>1, <2>2
  <1>15. QED BY <1>9, <1>10, <1>11, <1>12, <1>13, <1>14

\* The final status: "complete" only for a run whose report is the latest.
LEMMA SettleHistory ==
  ASSUME RunTypeOK, SingleWriter, AllHistory, NEW r \in Runs, Settle(r)
  PROVE  AllHistory'
  <1> USE DEF AllHistory, HistoryInv
  <1> DEFINE t == tripOf[r]
  <1>1. /\ t \in Trips
        /\ pc[r] = "enriched"
        /\ pc' = [pc EXCEPT ![r] = "settled"]
        /\ UNCHANGED <<reports, kind, prev, tripOf, outcome>>
    BY DEF Settle, Step, RunTypeOK
  <1>2. row[t] \in {"running", "gone"}
    BY <1>1 DEF SingleWriter, Unsettled, AfterSave
  <1>3. \/ UNCHANGED row
        \/ /\ row[t] = "running"
           /\ row' = [row EXCEPT ![t] = Final(r)]
    BY <1>1, <1>2 DEF Settle, SetStatus, Exists, RunTypeOK
  <1>4. \A u \in Trips :
          \/ row'[u] = row[u]
          \/ row[u] = "running" /\ row'[u] = Final(r) /\ u = t
    BY <1>3 DEF RunTypeOK
  <1>5. \A o \in Runs : pc'[o] = pc[o] \/ (o = r /\ pc'[o] = "settled")
    BY <1>1 DEF RunTypeOK
  <1>6. Final(r) \in {"complete", "aborted"} /\ (Final(r) = "complete" => outcome[r] = "ok")
    BY DEF Final
  <1>7. Written'
    <2>1. \A u \in Trips : \A i \in DOMAIN reports[u] : reports[u][i] \in Runs
      BY DEF RunTypeOK
    <2>2. QED BY <1>1, <1>5, <2>1 DEF Written, BeforeSave
  <1>8. UnworkedIsEmpty'
    BY <1>1, <1>4, <1>6 DEF UnworkedIsEmpty
  <1>9. \A o \in Runs : row'[tripOf[o]] # "gone" => row[tripOf[o]] # "gone"
    BY <1>4 DEF RunTypeOK
  <1>10. BaseIsLatest'
    BY <1>1, <1>5, <1>9 DEF BaseIsLatest, Latest, BeforeSave
  <1>11. SavedIsLatest'
    BY <1>1, <1>5, <1>9 DEF SavedIsLatest, Latest, AfterSave
  <1>12. CompleteHasReport'
    <2>1. ASSUME NEW u \in Trips, row'[u] = "complete", row[u] # "complete"
          PROVE  reports[u] # <<>> /\ outcome[Latest(u)] = "ok"
      <3>1. u = t /\ row[t] = "running" /\ outcome[r] = "ok"
        BY <1>4, <1>6, <2>1
      <3>2. reports[t] # <<>> /\ Latest(t) = r
        BY <1>1, <3>1 DEF SavedIsLatest, AfterSave
      <3>3. QED BY <3>1, <3>2
    <2>2. QED BY <1>1, <2>1 DEF CompleteHasReport, Latest
  <1>13. LinearHistory'
    BY <1>1 DEF LinearHistory
  <1>14. QED BY <1>7, <1>8, <1>10, <1>11, <1>12, <1>13

\* Every step keeps the history.
LEMMA HistoryStep == TypeOK /\ SingleWriter /\ AllHistory /\ [Next]_vars => AllHistory'
  <1> SUFFICES ASSUME RunTypeOK, SingleWriter, AllHistory, [Next]_vars PROVE AllHistory'
    BY DEF TypeOK
  <1>1. CASE Handlers
    BY <1>1, AcceptHistory, RemoveHistory DEF Handlers
  <1>2. ASSUME NEW r \in Runs, RunStep(r) PROVE AllHistory'
    BY <1>2, QuietStep, QuietHistory, ProduceHistory, SaveHistory, SettleHistory DEF RunStep
  <1>3. ASSUME NEW r \in Runs, FaultStep(r) PROVE AllHistory'
    BY <1>3, QuietStep, QuietHistory, SaveHistory DEF FaultStep
  <1>4. ASSUME NEW s \in Streams, Viewer(s) PROVE AllHistory'
    <2>1. Quiet BY <1>4 DEF Viewer, Quiet
    <2>2. QED BY <2>1, QuietHistory
  <1>5. CASE Crash
    <2>1. Quiet
      BY <1>5 DEF Crash, Quiet, RunTypeOK, BeforeSave, AfterSave, Live, Unsettled
    <2>2. QED BY <2>1, QuietHistory
  <1>6. CASE UNCHANGED vars
    <2>1. Quiet BY <1>6 DEF vars, Quiet
    <2>2. QED BY <2>1, QuietHistory
  <1>7. QED BY <1>1, <1>2, <1>3, <1>4, <1>5, <1>6 DEF Next

\* Without reports there is no history to break.
LEMMA HistoryInit == Init => AllHistory
  BY DEF Init, AllHistory, HistoryInv, CompleteHasReport, LinearHistory, Written,
         UnworkedIsEmpty, BaseIsLatest, SavedIsLatest, BeforeSave, AfterSave

\* The inductive invariant of the history holds in every reachable state.
LEMMA HistoryHolds == Spec => []AllHistory
  <1>1. QED BY Typed, OneWriter, HistoryInit, HistoryStep, PTL DEF Spec

\* A trip that readers see as "complete" shows the report of a run that succeeded,
\* whatever was refined, deleted, failed or crashed before.
THEOREM CompleteIsBacked == Spec => []CompleteHasReport
  <1>1. AllHistory => CompleteHasReport BY DEF AllHistory
  <1>2. QED BY HistoryHolds, <1>1, PTL

\* The reports of a trip are one chain of refinements that starts with a cycle.
THEOREM HistoryIsLinear == Spec => []LinearHistory
  <1>1. AllHistory => LinearHistory BY DEF AllHistory
  <1>2. QED BY HistoryHolds, <1>1, PTL

\* A refine stores its report behind the one it read, and a successful run's report
\* is still the one shown when its status is set.
THEOREM BaseStays == Spec => []HistoryInv
  <1>1. AllHistory => HistoryInv BY DEF AllHistory
  <1>2. QED BY HistoryHolds, <1>1, PTL

-------------------------------------------------------------------------------
(* What a complete trip shows.                                             *)

\* The reports of trip t, and what has been patched into them.
Shown(t) ==
  /\ reports'[t] = reports[t]
  /\ \A i \in DOMAIN reports[t] : extras'[reports[t][i]] = extras[reports[t][i]]

\* A run at work on a report has the trip of that report to itself.
LEMMA WorkedIsNotComplete ==
  ASSUME RunTypeOK, SingleWriter, LinearHistory, NEW r \in Runs, pc[r] \in Unsettled,
         NEW t \in Trips, row[t] = "complete"
  PROVE  tripOf[r] # t /\ \A i \in DOMAIN reports[t] : reports[t][i] # r
  <1>1. tripOf[r] # t
    BY DEF SingleWriter
  <1>2. \A i \in DOMAIN reports[t] : tripOf[reports[t][i]] = t
    BY DEF LinearHistory
  <1>3. QED BY <1>1, <1>2

\* No step adds a report to a complete trip or patches one of its reports.
LEMMA FrozenStep ==
  ASSUME RunTypeOK, SingleWriter, LinearHistory, [Next]_vars,
         NEW t \in Trips, row[t] = "complete", row'[t] = "complete"
  PROVE  Shown(t)
  <1> USE DEF Shown
  <1>r. \A i \in DOMAIN reports[t] : reports[t][i] \in Runs
    BY DEF RunTypeOK
  <1>1. CASE Handlers
    <2>1. ASSUME NEW u \in Trips, CreateParked(u) \/ Delete(u) PROVE Shown(t)
      BY <2>1 DEF CreateParked, Delete, RunTypeOK
    <2>2. ASSUME NEW u \in Trips, NEW r \in Runs,
                 CreateRunning(u, r) \/ Clarify(u, r) \/ Refine(u, r)
          PROVE  Shown(t)
      BY <2>2 DEF CreateRunning, Clarify, Refine, Accept
    <2>3. CASE DeleteAccount
      BY <2>3 DEF DeleteAccount
    <2>4. QED BY <1>1, <2>1, <2>2, <2>3 DEF Handlers
  <1>2. ASSUME NEW r \in Runs, RunStep(r) \/ FaultStep(r) PROVE Shown(t)
    <2> USE DEF Step
    <2>1. CASE SaveReport(r) \/ SaveFails(r)
      <3>1. tripOf[r] # t
        BY <2>1, WorkedIsNotComplete DEF SaveReport, SaveFails, Unsettled, BeforeSave
      <3>2. QED BY <2>1, <3>1 DEF SaveReport, SaveFails, RunTypeOK
    <2>2. CASE PlanDays(r) \/ Translate(r)
      <3>1. \A i \in DOMAIN reports[t] : reports[t][i] # r
        BY <2>2, WorkedIsNotComplete DEF PlanDays, Translate, Unsettled, AfterSave
      <3>2. /\ UNCHANGED reports
            /\ \A o \in Runs : o # r => extras'[o] = extras[o]
        BY <2>2 DEF PlanDays, Translate, Patch, RunTypeOK
      <3>3. QED BY <1>r, <3>1, <3>2
    <2>3. CASE \/ Respond(r) \/ Begin(r) \/ MarkRunning(r) \/ Load(r) \/ Phase(r)
               \/ CycleOk(r) \/ CycleAbort(r) \/ RefineOk(r) \/ RefineAbort(r)
               \/ Settle(r) \/ Announce(r)
               \/ Escape(r) \/ AcceptFails(r) \/ SettleFails(r)
      BY <2>3 DEF Respond, Begin, MarkRunning, Load, Phase, CycleOk, CycleAbort, RefineOk,
                  RefineAbort, Produce, Settle, Announce, Escape, AcceptFails, SettleFails
    <2>4. QED BY <1>2, <2>1, <2>2, <2>3 DEF RunStep, FaultStep
  <1>3. ASSUME NEW s \in Streams, Viewer(s) PROVE Shown(t)
    BY <1>3 DEF Viewer
  <1>4. CASE Crash
    BY <1>4 DEF Crash
  <1>5. CASE UNCHANGED vars
    BY <1>5 DEF vars
  <1>6. QED BY <1>1, <1>2, <1>3, <1>4, <1>5 DEF Next

\* As long as a trip is "complete", no report is added to it and none of its reports
\* changes under the reader.
THEOREM CompleteIsFrozen == Spec => ReportFrozen
  <1>1. TypeOK /\ SingleWriter /\ AllHistory /\ [Next]_vars =>
          \A t \in Trips : row[t] = "complete" /\ row'[t] = "complete" =>
            /\ reports'[t] = reports[t]
            /\ \A i \in DOMAIN reports[t] : extras'[reports[t][i]] = extras[reports[t][i]]
    BY FrozenStep DEF TypeOK, AllHistory, Shown
  <1>2. QED BY Typed, OneWriter, HistoryHolds, <1>1, PTL DEF Spec, ReportFrozen

-------------------------------------------------------------------------------
(* The trips follow the contract.                                          *)

\* A trip whose row and reports stay, and whose runs stay on the same side of the
\* save, keeps its attempt.
LEMMA AttemptStays ==
  ASSUME NEW t \in Trips, row'[t] = row[t], reports'[t] = reports[t], UNCHANGED tripOf,
         \A o \in Runs : tripOf[o] = t =>
           /\ pc'[o] \in Unsettled <=> pc[o] \in Unsettled
           /\ pc'[o] \in AfterSave <=> pc[o] \in AfterSave
  PROVE  Attempt(t)' = Attempt(t)
  BY DEF Attempt

\* A trip that is not running, or that no run works on, has no attempt.
LEMMA AttemptEnds ==
  ASSUME NEW t \in Trips, UNCHANGED tripOf,
         row'[t] # "running" \/ \A o \in Runs : tripOf[o] = t => pc'[o] \notin Unsettled
  PROVE  Attempt(t)' = "none"
  BY DEF Attempt

\* Neither a step that changes no row, no report and no run's side of the save, ...
LEMMA ContractStays ==
  ASSUME UNCHANGED <<row, reports, tripOf>>,
         \A o \in Runs : /\ pc'[o] \in Unsettled <=> pc[o] \in Unsettled
                         /\ pc'[o] \in AfterSave <=> pc[o] \in AfterSave
  PROVE  UNCHANGED Contract!cvars
  <1>1. \A t \in Trips : Attempt(t)' = Attempt(t)
    BY AttemptStays
  <1>2. QED BY <1>1 DEF Contract!cvars

\* ... nor the end of all work on one trip breaks the contract.
LEMMA ContractLoses ==
  ASSUME RunTypeOK, SingleWriter, NEW r \in Runs, UNCHANGED <<row, reports, tripOf>>,
         NEW to \in {"raised", "lost", "settled"},
         pc[r] \in Unsettled, pc' = [pc EXCEPT ![r] = to]
  PROVE  Contract!Next
  <1> DEFINE t == tripOf[r]
  <1>1. t \in Trips /\ to \notin Unsettled
    BY DEF RunTypeOK, Unsettled, BeforeSave, AfterSave
  <1>2. \A o \in Runs : o # r => pc'[o] = pc[o] /\ (pc[o] \in Unsettled => tripOf[o] # t)
    BY DEF RunTypeOK, SingleWriter
  <1>3. pc'[r] = to
    BY DEF RunTypeOK
  <1>4. Attempt(t)' = "none"
    BY <1>1, <1>2, <1>3, AttemptEnds
  <1>5. \A u \in Trips : u # t => Attempt(u)' = Attempt(u)
    BY <1>2, AttemptStays
  <1>6. Contract!Lose({t})
    BY <1>1, <1>4, <1>5 DEF Contract!Lose
  <1>7. QED BY <1>1, <1>6 DEF Contract!Next

\* A handler accepts run r for trip t.
LEMMA ContractStarts ==
  ASSUME RunTypeOK, SingleWriter, NEW t \in Trips, NEW r \in Runs,
         CreateRunning(t, r) \/ Clarify(t, r) \/ Refine(t, r)
  PROVE  Contract!Next
  <1>1. /\ tripOf[r] = t
        /\ pc' = [pc EXCEPT ![r] = "accepted"]
        /\ row' = [row EXCEPT ![t] = "running"]
        /\ UNCHANGED <<reports, tripOf>>
        /\ \/ row[t] \in {"none", "clarifying"}
           \/ row[t] = "complete" /\ reports[t] # <<>>
    BY DEF CreateRunning, Clarify, Refine, Accept, Exists, RunTypeOK
  <1>2. \A o \in Runs : o # r => pc'[o] = pc[o] /\ (pc[o] \in Unsettled => tripOf[o] # t)
    BY <1>1 DEF RunTypeOK, SingleWriter
  <1>3. pc'[r] = "accepted" /\ "accepted" \in Unsettled /\ "accepted" \notin AfterSave
    BY <1>1 DEF RunTypeOK, Unsettled, BeforeSave, AfterSave
  <1>4. row'[t] = "running" /\ \A u \in Trips : u # t => row'[u] = row[u]
    BY <1>1 DEF RunTypeOK
  <1>5. Attempt(t)' = "open"
    BY <1>1, <1>2, <1>3, <1>4 DEF Attempt, Unsettled
  <1>6. \A u \in Trips : u # t => Attempt(u)' = Attempt(u)
    BY <1>1, <1>2, <1>4, AttemptStays
  <1>7. Contract!Start(t)
    BY <1>1, <1>5, <1>6 DEF Contract!Start
  <1>8. QED BY <1>7 DEF Contract!Next

\* The report of run r is stored, or could not be.
LEMMA ContractPublishes ==
  ASSUME RunTypeOK, SingleWriter, Written, NEW r \in Runs, SaveReport(r) \/ SaveFails(r)
  PROVE  Contract!Next \/ UNCHANGED Contract!cvars
  <1> DEFINE t == tripOf[r]
  <1>1. /\ t \in Trips
        /\ reports[t] \in Seq(Runs)
        /\ pc[r] = "produced"
        /\ pc' = [pc EXCEPT ![r] = "saved"]
        /\ UNCHANGED <<row, tripOf>>
    BY DEF SaveReport, SaveFails, Step, RunTypeOK
  <1>2. \A o \in Runs : o # r => pc'[o] = pc[o] /\ (pc[o] \in Unsettled => tripOf[o] # t)
    BY <1>1 DEF RunTypeOK, SingleWriter, Unsettled, BeforeSave
  <1>3. pc'[r] = "saved" /\ row[t] \in {"running", "gone"}
    BY <1>1 DEF RunTypeOK, SingleWriter, Unsettled, BeforeSave
  <1>4. \A i \in DOMAIN reports[t] : reports[t][i] # r
    BY <1>1 DEF Written, BeforeSave
  <1>s. /\ "produced" \in Unsettled /\ "produced" \notin AfterSave
        /\ "saved" \in Unsettled /\ "saved" \in AfterSave
        /\ AfterSave \subseteq Unsettled
    BY DEF Unsettled, BeforeSave, AfterSave
  <1>5. CASE UNCHANGED reports
    <2>1. Attempt(t)' = Attempt(t)
      BY <1>1, <1>2, <1>3, <1>4, <1>5, <1>s DEF Attempt
    <2>2. \A u \in Trips : u # t => Attempt(u)' = Attempt(u)
      BY <1>1, <1>2, <1>5, AttemptStays
    <2>3. QED BY <1>1, <1>5, <2>1, <2>2 DEF Contract!cvars
  <1>6. CASE row[t] = "running" /\ reports' = [reports EXCEPT ![t] = Append(@, r)]
    <2>1. Attempt(t) = "open"
      BY <1>1, <1>2, <1>6, <1>s DEF Attempt
    <2>2. \E i \in DOMAIN reports'[t] : reports'[t][i] = r
      <3>1. reports'[t] = Append(reports[t], r)
        BY <1>1, <1>6 DEF RunTypeOK
      <3>2. Len(reports[t]) + 1 \in DOMAIN reports'[t] /\ reports'[t][Len(reports[t]) + 1] = r
        BY <1>1, <3>1
      <3>3. QED BY <3>2
    <2>3. Attempt(t)' = "published"
      BY <1>1, <1>3, <1>6, <1>s, <2>2 DEF Attempt
    <2>4. \A u \in Trips : u # t => reports'[u] = reports[u]
      BY <1>6 DEF RunTypeOK
    <2>5. \A u \in Trips : u # t => Attempt(u)' = Attempt(u)
      BY <1>1, <1>2, <2>4, AttemptStays
    <2>6. Contract!Publish(t)
      BY <1>1, <1>6, <2>1, <2>3, <2>5 DEF Contract!Publish
    <2>7. QED BY <1>1, <2>6 DEF Contract!Next
  <1>7. QED
    BY <1>1, <1>3, <1>5, <1>6 DEF SaveReport, SaveFails, Exists, RunTypeOK

\* The final status of run r is committed, unless the trip is gone.
LEMMA ContractFinishes ==
  ASSUME RunTypeOK, SingleWriter, SavedIsLatest, NEW r \in Runs, Settle(r)
  PROVE  Contract!Next \/ UNCHANGED Contract!cvars
  <1> DEFINE t == tripOf[r]
  <1>1. /\ t \in Trips
        /\ pc[r] = "enriched"
        /\ pc' = [pc EXCEPT ![r] = "settled"]
        /\ UNCHANGED <<reports, tripOf>>
    BY DEF Settle, Step, RunTypeOK
  <1>2. \A o \in Runs : o # r => pc'[o] = pc[o] /\ (pc[o] \in Unsettled => tripOf[o] # t)
    BY <1>1 DEF RunTypeOK, SingleWriter, Unsettled, AfterSave
  <1>3. pc'[r] = "settled" /\ row[t] \in {"running", "gone"}
    BY <1>1 DEF RunTypeOK, SingleWriter, Unsettled, AfterSave
  <1>4. /\ "enriched" \in AfterSave
        /\ AfterSave \subseteq Unsettled
    BY DEF Unsettled, AfterSave
  <1>5. CASE row[t] = "gone"
    <2>1. UNCHANGED row
      BY <1>1, <1>5 DEF Settle, SetStatus, Exists, RunTypeOK
    <2>2. Attempt(t) = "none" /\ Attempt(t)' = "none"
      BY <1>1, <1>5, <2>1 DEF Attempt
    <2>3. \A u \in Trips : u # t => Attempt(u)' = Attempt(u)
      BY <1>1, <1>2, <2>1, AttemptStays
    <2>4. QED BY <1>1, <2>1, <2>2, <2>3 DEF Contract!cvars
  <1>6. CASE row[t] = "running"
    <2>1. row' = [row EXCEPT ![t] = Final(r)]
      BY <1>1, <1>6 DEF Settle, SetStatus, Exists, RunTypeOK
    <2>2. Final(r) \in {"complete", "aborted"} /\ (Final(r) = "complete" => outcome[r] = "ok")
      BY DEF Final
    <2>3. row'[t] = Final(r) /\ \A u \in Trips : u # t => row'[u] = row[u]
      BY <1>1, <2>1 DEF RunTypeOK
    <2>4. Attempt(t) # "none"
      BY <1>1, <1>4, <1>6 DEF Attempt
    <2>5. Final(r) = "complete" => Attempt(t) = "published"
      <3>1. ASSUME Final(r) = "complete"
            PROVE  \E i \in DOMAIN reports[t] : reports[t][i] = r
        <4>1. reports[t] # <<>> /\ Latest(t) = r /\ reports[t] \in Seq(Runs)
          BY <1>1, <1>4, <1>6, <2>2, <3>1 DEF SavedIsLatest, RunTypeOK
        <4>2. Len(reports[t]) \in DOMAIN reports[t]
          BY <4>1
        <4>3. QED BY <4>1, <4>2 DEF Latest
      <3>2. QED BY <1>1, <1>4, <1>6, <3>1 DEF Attempt
    <2>6. Attempt(t)' = "none"
      BY <1>1, <2>2, <2>3, AttemptEnds
    <2>7. \A u \in Trips : u # t => Attempt(u)' = Attempt(u)
      BY <1>1, <1>2, <2>3, AttemptStays
    <2>8. Contract!Finish(t, Final(r))
      BY <1>1, <1>6, <2>1, <2>2, <2>4, <2>5, <2>6, <2>7 DEF Contract!Finish
    <2>9. QED BY <1>1, <2>2, <2>8 DEF Contract!Next
  <1>7. QED BY <1>3, <1>5, <1>6

\* The trips start as the contract says.
LEMMA ContractInit == Init => Contract!Init
  BY DEF Init, Contract!Init, Attempt

\* Every step of handlers, runs, viewers and crashes is a step of the contract or none.
LEMMA ContractStep ==
  ASSUME RunTypeOK, SingleWriter, AllHistory, [Next]_vars
  PROVE  [Contract!Next]_Contract!cvars
  <1> DEFINE Allowed == Contract!Next \/ UNCHANGED Contract!cvars
  <1>u. /\ {"saved", "planned", "enriched"} \subseteq AfterSave
        /\ {"accepted", "scheduled", "begun", "marked", "loaded", "produced"} \cap AfterSave = {}
        /\ Unsettled = BeforeSave \cup AfterSave
        /\ {"accepted", "scheduled", "begun", "marked", "loaded", "produced"} = BeforeSave
        /\ {"settled", "done"} \cap Unsettled = {}
    BY DEF Unsettled, BeforeSave, AfterSave
  <1>1. ASSUME NEW t \in Trips, CreateParked(t) PROVE Allowed
    <2>1. /\ row' = [row EXCEPT ![t] = "clarifying"]
          /\ row[t] = "none"
          /\ UNCHANGED <<reports, tripOf, pc>>
      BY <1>1 DEF CreateParked
    <2>2. row'[t] = "clarifying" /\ \A u \in Trips : u # t => row'[u] = row[u]
      BY <2>1 DEF RunTypeOK
    <2>3. \A u \in Trips : Attempt(u)' = Attempt(u)
      BY <2>1, <2>2, AttemptStays DEF Attempt
    <2>4. Contract!Park(t)
      BY <2>1, <2>3 DEF Contract!Park
    <2>5. QED BY <2>4 DEF Contract!Next
  <1>2. ASSUME NEW t \in Trips, NEW r \in Runs,
               CreateRunning(t, r) \/ Clarify(t, r) \/ Refine(t, r)
        PROVE  Allowed
    BY <1>2, ContractStarts
  <1>3. ASSUME NEW t \in Trips, Delete(t) PROVE Allowed
    <2>1. /\ row' = [row EXCEPT ![t] = "gone"]
          /\ reports' = [reports EXCEPT ![t] = <<>>]
          /\ UNCHANGED <<tripOf, pc>>
      BY <1>3 DEF Delete
    <2>2. /\ row'[t] = "gone"
          /\ \A u \in Trips : u # t => row'[u] = row[u] /\ reports'[u] = reports[u]
      BY <2>1 DEF RunTypeOK
    <2>3. Attempt(t)' = "none"
      BY <2>1, <2>2, AttemptEnds
    <2>4. \A u \in Trips : u # t => Attempt(u)' = Attempt(u)
      BY <2>1, <2>2, AttemptStays
    <2>5. Contract!Remove({t})
      BY <2>1, <2>3, <2>4 DEF Contract!Remove, RunTypeOK
    <2>6. QED BY <2>5 DEF Contract!Next
  <1>4. ASSUME DeleteAccount PROVE Allowed
    <2>1. \A t \in Trips : Attempt(t)' = "none"
      BY <1>4, AttemptEnds DEF DeleteAccount
    <2>2. Contract!Remove(Trips)
      BY <1>4, <2>1 DEF DeleteAccount, Contract!Remove
    <2>3. QED BY <2>2 DEF Contract!Next
  <1>5. ASSUME NEW r \in Runs,
               \/ Respond(r) \/ Begin(r) \/ MarkRunning(r) \/ Load(r) \/ Phase(r)
               \/ CycleOk(r) \/ CycleAbort(r) \/ RefineOk(r) \/ RefineAbort(r)
               \/ PlanDays(r) \/ Translate(r) \/ Announce(r)
        PROVE  Allowed
    <2> USE DEF Step
    <2>1. UNCHANGED <<reports, tripOf>>
      BY <1>5 DEF Respond, Begin, MarkRunning, Load, Phase, CycleOk, CycleAbort, RefineOk,
                  RefineAbort, Produce, PlanDays, Translate, Announce
    <2>2. PICK to : /\ pc' = [pc EXCEPT ![r] = to]
                    /\ \/ pc[r] \in BeforeSave /\ to \in BeforeSave
                       \/ pc[r] \in AfterSave /\ to \in AfterSave
                       \/ pc[r] = "settled" /\ to = "done"
      BY <1>5 DEF Respond, Begin, MarkRunning, Load, Phase, CycleOk, CycleAbort, RefineOk,
                  RefineAbort, Produce, PlanDays, Translate, Announce, BeforeSave, AfterSave
    <2>3. UNCHANGED row
      <3>1. CASE MarkRunning(r)
        <4>1. row[tripOf[r]] \in {"running", "gone"}
          BY <3>1 DEF MarkRunning, SingleWriter, Unsettled, BeforeSave
        <4>2. QED BY <3>1, <4>1 DEF MarkRunning, SetStatus, Exists, RunTypeOK
      <3>2. QED
        BY <1>5, <3>1 DEF Respond, Begin, Load, Phase, CycleOk, CycleAbort, RefineOk,
                    RefineAbort, Produce, PlanDays, Translate, Announce
    <2>4. \A o \in Runs : /\ pc'[o] \in Unsettled <=> pc[o] \in Unsettled
                          /\ pc'[o] \in AfterSave <=> pc[o] \in AfterSave
      BY <1>u, <2>2 DEF RunTypeOK
    <2>5. QED BY <2>1, <2>3, <2>4, ContractStays
  <1>6. ASSUME NEW r \in Runs, SaveReport(r) \/ SaveFails(r) PROVE Allowed
    BY <1>6, ContractPublishes DEF AllHistory, HistoryInv
  <1>7. ASSUME NEW r \in Runs, Settle(r) PROVE Allowed
    BY <1>7, ContractFinishes DEF AllHistory, HistoryInv
  <1>8. ASSUME NEW r \in Runs, Escape(r) \/ AcceptFails(r) \/ SettleFails(r) PROVE Allowed
    <2>1. /\ UNCHANGED <<row, reports, tripOf>>
          /\ pc[r] \in Unsettled
          /\ \E to \in {"raised", "lost", "settled"} : pc' = [pc EXCEPT ![r] = to]
      BY <1>8 DEF Escape, Unguarded, AcceptFails, SettleFails, Step, Unsettled, BeforeSave,
                  AfterSave
    <2>2. QED BY <2>1, ContractLoses
  <1>9. ASSUME NEW s \in Streams, Viewer(s) PROVE Allowed
    <2>1. UNCHANGED <<row, reports, tripOf, pc>>
      BY <1>9 DEF Viewer
    <2>2. QED BY <2>1, ContractStays
  <1>10. CASE Crash
    <2>1. UNCHANGED <<row, reports, tripOf>> /\ \A o \in Runs : pc'[o] \notin Unsettled
      BY <1>10 DEF Crash, Live, Unsettled, BeforeSave, AfterSave
    <2>2. \A t \in Trips : Attempt(t)' = "none"
      BY <2>1, AttemptEnds
    <2>3. Contract!Lose(Trips)
      BY <2>1, <2>2 DEF Contract!Lose
    <2>4. QED BY <2>3 DEF Contract!Next
  <1>11. CASE UNCHANGED vars
    <2>1. UNCHANGED <<row, reports, tripOf, pc>>
      BY <1>11 DEF vars
    <2>2. QED BY <2>1, ContractStays
  <1>12. QED
    BY <1>1, <1>2, <1>3, <1>4, <1>5, <1>6, <1>7, <1>8, <1>9, <1>10, <1>11
    DEF Next, Handlers, RunStep, FaultStep

\* Whatever fails or crashes inside, the trips that readers see are those of the
\* contract: one attempt at a time, at most one report of it, "complete" only for an
\* attempt that published.
THEOREM TripsKeepContract == Spec => ImplementsContract
  <1>1. TypeOK /\ SingleWriter /\ AllHistory /\ [Next]_vars => [Contract!Next]_Contract!cvars
    BY ContractStep DEF TypeOK
  <1>2. QED
    BY Typed, OneWriter, HistoryHolds, ContractInit, <1>1, PTL
    DEF Spec, ImplementsContract, Contract!Spec

-------------------------------------------------------------------------------
(* What a run does to the queues and to its own progress.                  *)

\* The steps that publish anything but the outcome: the queues stay where they are.
Publishing(r) ==
  /\ UNCHANGED <<queueOf, streamVars, tripOf>>
  /\ pc[r] \in Live
  /\ \E to \in Live : pc' = [pc EXCEPT ![r] = to]
  /\ \E events \in Seq(Event) :
       /\ Publish(tripOf[r], events)
       /\ \A i \in DOMAIN events : events[i].name \notin {"trip_complete", "_eof"}

\* The steps that look for the queue of the trip, or make it.
Registering(r) ==
  /\ UNCHANGED <<buf, streamVars, tripOf>>
  /\ pc[r] \in Live
  /\ \E to \in Live : pc' = [pc EXCEPT ![r] = to]
  /\ \E place \in {"handler", "runner"} : Register(tripOf[r], <<r, place>>)

\* Events before the outcome are not the outcome.
LEMMA EarlyEvents ==
  ASSUME NEW r \in Runs
  PROVE  /\ \A name \in {"started", "progress", "cycle_aborted"} :
              \A i \in DOMAIN <<Msg(name, r, "none")>> :
                <<Msg(name, r, "none")>>[i].name \notin {"trip_complete", "_eof"}
         /\ LET started == <<Msg("started", r, "none")>> \o
                  (IF kind[r] = "refine" THEN <<Msg("refine_started", r, "none")>> ELSE <<>>)
            IN  \A i \in DOMAIN started : started[i].name \notin {"trip_complete", "_eof"}
         /\ \A i \in DOMAIN <<>> : <<>>[i].name \notin {"trip_complete", "_eof"}
  BY DEF Msg

\* Every step of a run publishes, registers, or ends the run.
LEMMA RunBrokerEffect ==
  ASSUME RunTypeOK, NEW r \in Runs, RunStep(r) \/ FaultStep(r)
  PROVE  \/ Publishing(r) \/ Registering(r) \/ Announce(r)
         \/ Escape(r) \/ AcceptFails(r)
  <1> USE DEF Step, Live, Unsettled, BeforeSave, AfterSave
  <1>1. CASE Respond(r) \/ Begin(r)
    BY <1>1 DEF Respond, Begin, Registering
  <1>2. CASE MarkRunning(r)
    BY <1>2, MessagesTyped, EarlyEvents DEF MarkRunning, Publishing
  <1>3. CASE Phase(r)
    <2>1. <<Msg("progress", r, "none")>> \in Seq(Event)
      BY MessagesTyped DEF EventNames
    <2>2. QED BY <1>3, <2>1, EarlyEvents DEF Phase, Publishing
  <1>4. CASE Load(r) \/ SaveReport(r) \/ PlanDays(r) \/ Translate(r) \/ Settle(r)
             \/ SaveFails(r) \/ SettleFails(r)
    <2>1. /\ Publish(tripOf[r], <<>>)
          /\ UNCHANGED <<queueOf, streamVars, tripOf>>
          /\ pc[r] \in Live
          /\ \E to \in Live : pc' = [pc EXCEPT ![r] = to]
      BY <1>4 DEF Load, SaveReport, PlanDays, Translate, Settle, SaveFails, SettleFails
    <2>2. QED BY <2>1, MessagesTyped, EarlyEvents DEF Publishing
  <1>5. CASE CycleOk(r) \/ CycleAbort(r) \/ RefineOk(r) \/ RefineAbort(r)
    <2>1. PICK events \in {<<>>, <<Msg("progress", r, "none")>>,
                           <<Msg("cycle_aborted", r, "none")>>} :
            /\ Publish(tripOf[r], events)
            /\ UNCHANGED <<queueOf, streamVars, tripOf>>
            /\ pc[r] \in Live
            /\ \E to \in Live : pc' = [pc EXCEPT ![r] = to]
      BY <1>5 DEF CycleOk, CycleAbort, RefineOk, RefineAbort, Produce
    <2>2. events \in Seq(Event)
      BY MessagesTyped DEF EventNames
    <2>3. \A i \in DOMAIN events : events[i].name \notin {"trip_complete", "_eof"}
      BY EarlyEvents
    <2>4. QED BY <2>1, <2>2, <2>3 DEF Publishing
  <1>6. QED BY <1>1, <1>2, <1>3, <1>4, <1>5 DEF RunStep, FaultStep

\* The second of two event lists starts where the first ends.
LEMMA BehindFirst ==
  ASSUME NEW first \in Seq(Event), NEW second \in Seq(Event), NEW k \in DOMAIN second
  PROVE  /\ Len(first) + k \in DOMAIN (first \o second)
         /\ (first \o second)[Len(first) + k] = second[k]
  <1>1. k \in 1..Len(second) /\ Len(first) \in Nat /\ Len(second) \in Nat
    OBVIOUS
  <1>2. Len(first) + k \in 1..(Len(first) + Len(second))
    BY <1>1
  <1>3. Len(first) + k > Len(first) /\ (Len(first) + k) - Len(first) = k
    BY <1>1
  <1>4. QED BY <1>1, <1>2, <1>3

\* What a queue holds after events have been appended to the queue of trip t.
LEMMA Appended ==
  ASSUME BrokerTypeOK, NEW t \in Trips, NEW events \in Seq(Event), Publish(t, events),
         NEW q \in Queues, NEW i \in DOMAIN buf'[q]
  PROVE  \/ i \in DOMAIN buf[q] /\ buf'[q][i] = buf[q][i]
         \/ /\ q = queueOf[t]
            /\ \E k \in DOMAIN events :
                 i = Len(buf[q]) + k /\ buf'[q][i] = events[k]
  <1>1. buf[q] \in Seq(Event)
    BY DEF BrokerTypeOK
  <1>2. CASE q # queueOf[t]
    BY <1>2 DEF Publish
  <1>3. CASE q = queueOf[t]
    <2>1. buf'[q] = buf[q] \o events
      BY <1>3 DEF Publish
    <2>2. CASE i <= Len(buf[q])
      BY <1>1, <2>1, <2>2
    <2>3. CASE i > Len(buf[q])
      <3>1. i - Len(buf[q]) \in DOMAIN events /\ buf'[q][i] = events[i - Len(buf[q])]
        BY <1>1, <2>1, <2>3
      <3>2. i = Len(buf[q]) + (i - Len(buf[q]))
        BY <1>1, <2>1
      <3>3. QED BY <1>3, <3>1, <3>2
    <2>4. QED BY <1>1, <2>1, <2>2, <2>3
  <1>4. QED BY <1>2, <1>3

\* ... and nothing it held is lost.
LEMMA AppendKeeps ==
  ASSUME BrokerTypeOK, NEW t \in Trips, NEW events \in Seq(Event), Publish(t, events),
         NEW q \in Queues, NEW i \in DOMAIN buf[q]
  PROVE  i \in DOMAIN buf'[q] /\ buf'[q][i] = buf[q][i]
  <1>1. buf[q] \in Seq(Event)
    BY DEF BrokerTypeOK
  <1>2. CASE q # queueOf[t]
    BY <1>2 DEF Publish
  <1>3. CASE q = queueOf[t]
    <2>1. buf'[q] = buf[q] \o events
      BY <1>3 DEF Publish
    <2>2. QED BY <1>1, <2>1
  <1>4. QED BY <1>2, <1>3

\* What Announce puts on the queue of its trip.
LEMMA AnnounceEvents ==
  ASSUME NEW r \in Runs
  PROVE  LET events == <<Msg("trip_complete", r, Final(r)), Msg("_eof", r, "none")>>
         IN  /\ events \in Seq(Event)
             /\ DOMAIN events = {1, 2}
             /\ events[1] = [name |-> "trip_complete", run |-> r, status |-> Final(r)]
             /\ events[2].name = "_eof"
             /\ events[1].name = "trip_complete"
  <1>1. <<Msg("trip_complete", r, Final(r)), Msg("_eof", r, "none")>> \in Seq(Event)
    BY MessagesTyped
  <1>2. QED BY <1>1 DEF Msg

\* One turn of a stream takes the first event of its queue.
LEMMA Taken ==
  ASSUME BrokerTypeOK, NEW s \in Streams, Deliver(s)
  PROVE  /\ queue[s] \in Queues
         /\ at[s] = "attached"
         /\ 1 \in DOMAIN buf[queue[s]]
         /\ \A i \in DOMAIN buf'[queue[s]] :
              /\ i + 1 \in DOMAIN buf[queue[s]]
              /\ buf'[queue[s]][i] = buf[queue[s]][i + 1]
         /\ \A i \in DOMAIN buf[queue[s]] : i > 1 =>
              /\ i - 1 \in DOMAIN buf'[queue[s]]
              /\ buf'[queue[s]][i - 1] = buf[queue[s]][i]
         /\ \A q \in Queues : q # queue[s] => buf'[q] = buf[q]
         /\ \A o \in Streams : o # s => at'[o] = at[o] /\ last'[o] = last[o]
         /\ UNCHANGED <<queueOf, watches, queue>>
         /\ \/ /\ buf[queue[s]][1].name = "_eof"
               /\ at'[s] = "ended"
               /\ last'[s] = last[s]
            \/ /\ buf[queue[s]][1].name # "_eof"
               /\ at'[s] = "attached"
               /\ last'[s] = buf[queue[s]][1]
  <1>1. /\ queue[s] \in Queues
        /\ at[s] = "attached"
        /\ buf[queue[s]] \in Seq(Event)
        /\ buf[queue[s]] # <<>>
    BY DEF Deliver, BrokerTypeOK
  <1>2. buf'[queue[s]] = Tail(buf[queue[s]]) /\ Head(buf[queue[s]]) = buf[queue[s]][1]
    BY <1>1 DEF Deliver, BrokerTypeOK
  <1>3. /\ 1 \in DOMAIN buf[queue[s]]
        /\ \A i \in DOMAIN buf'[queue[s]] :
             /\ i + 1 \in DOMAIN buf[queue[s]]
             /\ buf'[queue[s]][i] = buf[queue[s]][i + 1]
        /\ \A i \in DOMAIN buf[queue[s]] : i > 1 =>
             /\ i - 1 \in DOMAIN buf'[queue[s]]
             /\ buf'[queue[s]][i - 1] = buf[queue[s]][i]
    BY <1>1, <1>2
  <1>4. /\ \A q \in Queues : q # queue[s] => buf'[q] = buf[q]
        /\ UNCHANGED <<queueOf, watches, queue>>
        /\ \A o \in Streams : o # s => at'[o] = at[o] /\ last'[o] = last[o]
    BY DEF Deliver, BrokerTypeOK
  <1>5. \/ /\ buf[queue[s]][1].name = "_eof"
           /\ at'[s] = "ended"
           /\ last'[s] = last[s]
        \/ /\ buf[queue[s]][1].name # "_eof"
           /\ at'[s] = "attached"
           /\ last'[s] = buf[queue[s]][1]
    BY <1>1, <1>2 DEF Deliver, BrokerTypeOK
  <1>6. QED BY <1>1, <1>3, <1>4, <1>5

\* Where subscribe() starts.
LEMMA Attached ==
  ASSUME BrokerTypeOK, NEW s \in Streams, Subscribe(s)
  PROVE  /\ at[s] = "authorised"
         /\ queue'[s] = queueOf[watches[s]]
         /\ at'[s] = IF queueOf[watches[s]] = NoQueue THEN "ended" ELSE "attached"
         /\ \A o \in Streams : o # s => at'[o] = at[o] /\ queue'[o] = queue[o]
         /\ UNCHANGED <<queueOf, buf, watches, last>>
         /\ OneViewer => \A o \in Streams : at[o] = "attached" => watches[o] # watches[s]
  BY DEF Subscribe, BrokerTypeOK

-------------------------------------------------------------------------------
(* Queues and streams: the inductive invariant.                            *)

\* A queue belongs to the trip of the run it was made for, and a stream reads the
\* queue of the trip it watches.
QueueOwned ==
  /\ \A t \in Trips : queueOf[t] # NoQueue => tripOf[queueOf[t][1]] = t
  /\ \A s \in Streams : at[s] = "attached" => tripOf[queue[s][1]] = watches[s]

\* One stream per trip, which is what OneViewer allows.
OneEach ==
  \A s, o \in Streams :
    at[s] = "attached" /\ at[o] = "attached" /\ watches[s] = watches[o] => s = o

\* A queue that a stream can find will be ended by a run of the trip.
QueueServed ==
  \A t \in Trips : queueOf[t] # NoQueue => \E r \in Runs : pc[r] \in Live /\ tripOf[r] = t

\* On a queue the end of the stream comes right behind an outcome ...
OutcomeFirst ==
  \A q \in Queues : \A i \in DOMAIN buf[q] :
    buf[q][i].name = "_eof" /\ i > 1 => buf[q][i - 1].name = "trip_complete"

\* ... which the stream has forwarded when the end is what it takes next.
OutcomeTaken ==
  \A s \in Streams :
    at[s] = "attached" /\ 1 \in DOMAIN buf[queue[s]] /\ last[s] # NoEvent =>
      (buf[queue[s]][1].name = "_eof" => last[s].name = "trip_complete")

\* A stream that has not attached has forwarded nothing.
FreshIsSilent ==
  \A s \in Streams : at[s] \in {"idle", "authorised"} => last[s] = NoEvent

StreamInv ==
  QueueOwned /\ OneEach /\ OutcomeFirst /\ OutcomeTaken /\ FreshIsSilent /\ EndsWithOutcome
OrphanInv == QueueOwned /\ OneEach /\ QueueServed /\ NoOrphanStream

\* Handlers leave the queues alone; other steps change them as said above.
LEMMA BrokerSteps ==
  ASSUME RunTypeOK, [Next]_vars
  PROVE  \/ /\ UNCHANGED <<brokerVars, tripOf>>
            /\ \A r \in Runs : pc[r] \in Live => pc'[r] = pc[r]
         \/ \E r \in Runs : \/ Publishing(r) \/ Registering(r) \/ Announce(r)
                             \/ Escape(r) \/ AcceptFails(r)
         \/ /\ UNCHANGED <<pc, tripOf>>
            /\ \E s \in Streams : \/ \E t \in Trips : OpenStream(s, t)
                                  \/ Subscribe(s) \/ Deliver(s) \/ Disconnect(s)
         \/ Crash
  <1>1. CASE Handlers
    <2>1. UNCHANGED <<brokerVars, tripOf>>
      BY <1>1 DEF Handlers, CreateParked, CreateRunning, Clarify, Refine, Accept, Delete,
                  DeleteAccount
    <2>2. \A r \in Runs : pc[r] \in Live => pc'[r] = pc[r]
      BY <1>1 DEF Handlers, CreateParked, CreateRunning, Clarify, Refine, Accept, Delete,
                  DeleteAccount, RunTypeOK, Live, Unsettled, BeforeSave, AfterSave
    <2>3. QED BY <2>1, <2>2
  <1>2. ASSUME NEW r \in Runs, RunStep(r) \/ FaultStep(r)
        PROVE  Publishing(r) \/ Registering(r) \/ Announce(r) \/ Escape(r) \/ AcceptFails(r)
    BY <1>2, RunBrokerEffect
  <1>3. ASSUME NEW s \in Streams, Viewer(s)
        PROVE  /\ UNCHANGED <<pc, tripOf>>
               /\ \/ \E t \in Trips : OpenStream(s, t)
                  \/ Subscribe(s) \/ Deliver(s) \/ Disconnect(s)
    BY <1>3 DEF Viewer
  <1>4. CASE UNCHANGED vars
    BY <1>4 DEF vars
  <1>5. QED BY <1>1, <1>2, <1>3, <1>4 DEF Next

\* Queues stay with their trips.
LEMMA OwnedStep ==
  ASSUME TypeOK, QueueOwned, [Next]_vars
  PROVE  QueueOwned'
  <1>t. BrokerTypeOK /\ RunTypeOK /\ \A r \in Runs : tripOf[r] \in Trips
    BY DEF TypeOK, RunTypeOK
  <1> USE DEF QueueOwned
  <1>1. CASE UNCHANGED <<brokerVars, tripOf>>
    BY <1>1
  <1>2. ASSUME NEW r \in Runs, Publishing(r) PROVE QueueOwned'
    BY <1>2 DEF Publishing
  <1>3. ASSUME NEW r \in Runs, Registering(r) PROVE QueueOwned'
    <2>1. PICK place \in {"handler", "runner"} : Register(tripOf[r], <<r, place>>)
      BY <1>3 DEF Registering
    <2>2. \A t \in Trips :
            queueOf'[t] = queueOf[t] \/ (t = tripOf[r] /\ queueOf'[t] = <<r, place>>)
      BY <2>1, <1>t DEF Register, BrokerTypeOK
    <2>3. QED BY <1>3, <2>2 DEF Registering
  <1>4. ASSUME NEW r \in Runs, Announce(r) \/ Escape(r) \/ AcceptFails(r) PROVE QueueOwned'
    <2>1. UNCHANGED <<streamVars, tripOf>> /\ (DropQueue(tripOf[r]) \/ UNCHANGED queueOf)
      BY <1>4 DEF Announce, Escape, AcceptFails, Step
    <2>2. \A t \in Trips : queueOf'[t] \in {queueOf[t], NoQueue}
      BY <2>1, <1>t DEF DropQueue, BrokerTypeOK
    <2>3. QED BY <2>1, <2>2
  <1>5. ASSUME NEW s \in Streams, UNCHANGED <<pc, tripOf>>,
               \/ \E t \in Trips : OpenStream(s, t)
               \/ Deliver(s) \/ Disconnect(s)
        PROVE  QueueOwned'
    <2>1. UNCHANGED <<queueOf, watches, queue>>
      BY <1>5 DEF OpenStream, Deliver, Disconnect
    <2>2. \A o \in Streams : at'[o] = "attached" => at[o] = "attached"
      BY <1>5, <1>t DEF OpenStream, Deliver, Disconnect, BrokerTypeOK
    <2>3. QED BY <1>5, <2>1, <2>2
  <1>6. ASSUME NEW s \in Streams, UNCHANGED <<pc, tripOf>>, Subscribe(s) PROVE QueueOwned'
    <2>1. watches[s] \in Trips
      BY <1>t DEF BrokerTypeOK
    <2>2. QED BY <1>6, <1>t, <2>1, Attached
  <1>7. CASE Crash
    BY <1>7 DEF Crash, BrokerCrash
  <1>8. QED
    BY <1>t, <1>1, <1>2, <1>3, <1>4, <1>5, <1>6, <1>7, BrokerSteps

\* With one viewer per trip no second stream attaches to a watched trip.
LEMMA OneEachStep ==
  ASSUME OneViewer, TypeOK, OneEach, [Next]_vars
  PROVE  OneEach'
  <1>t. BrokerTypeOK /\ RunTypeOK
    BY DEF TypeOK
  <1>1. ASSUME NEW s \in Streams, Subscribe(s) PROVE OneEach'
    BY <1>t, <1>1, Attached DEF OneEach
  <1>2. CASE /\ UNCHANGED watches
             /\ \A o \in Streams : at'[o] = "attached" => at[o] = "attached"
    BY <1>2 DEF OneEach
  <1>3. ASSUME NEW s \in Streams,
               (\E t \in Trips : OpenStream(s, t)) \/ Deliver(s) \/ Disconnect(s)
        PROVE  OneEach'
    <2>1. /\ UNCHANGED watches
          /\ \A o \in Streams : at'[o] = "attached" => at[o] = "attached"
      BY <1>3, <1>t DEF OpenStream, Deliver, Disconnect, BrokerTypeOK
    <2>2. QED BY <1>2, <2>1
  <1>4. ASSUME NEW r \in Runs,
               Publishing(r) \/ Registering(r) \/ Announce(r) \/ Escape(r) \/ AcceptFails(r)
        PROVE  OneEach'
    <2>1. UNCHANGED streamVars
      BY <1>4 DEF Publishing, Registering, Announce, Escape, AcceptFails, Step
    <2>2. QED BY <1>2, <2>1
  <1>5. CASE Crash
    <2>1. /\ UNCHANGED watches
          /\ \A o \in Streams : at'[o] = "attached" => at[o] = "attached"
      BY <1>5, <1>t DEF Crash, BrokerCrash, BrokerTypeOK
    <2>2. QED BY <1>2, <2>1
  <1>6. QED BY <1>t, <1>1, <1>2, <1>3, <1>4, <1>5, BrokerSteps

\* A stream that reads a queue is the only one to do so.
LEMMA OneReader ==
  ASSUME QueueOwned, OneEach, NEW s \in Streams, NEW o \in Streams,
         at[s] = "attached", at[o] = "attached", queue[s] = queue[o]
  PROVE  s = o
  BY DEF QueueOwned, OneEach

\* Steps that put no event on a queue and take none, and attach or end no stream.
LEMMA StreamIdle ==
  ASSUME StreamInv, UNCHANGED <<buf, watches, queue, last>>,
         \A s \in Streams : /\ at'[s] = "attached" => at[s] = "attached"
                            /\ at'[s] \in {"idle", "authorised"} =>
                                 at[s] \in {"idle", "authorised"}
                            /\ at'[s] = "ended" => at[s] = "ended"
  PROVE  (OutcomeFirst /\ OutcomeTaken /\ FreshIsSilent /\ EndsWithOutcome)'
  BY DEF StreamInv, OutcomeFirst, OutcomeTaken, FreshIsSilent, EndsWithOutcome

\* Appending events in which the end, if there is one, is behind an outcome.
LEMMA StreamAppends ==
  ASSUME BrokerTypeOK, StreamInv, NEW t \in Trips, NEW events \in Seq(Event),
         Publish(t, events), UNCHANGED streamVars,
         \A k \in DOMAIN events : events[k].name = "_eof" =>
           k > 1 /\ events[k - 1].name = "trip_complete"
  PROVE  (OutcomeFirst /\ OutcomeTaken /\ FreshIsSilent /\ EndsWithOutcome)'
  <1>1. \A q \in Queues : buf[q] \in Seq(Event)
    BY DEF BrokerTypeOK
  <1>k. \A k \in DOMAIN events : k \in Nat
    OBVIOUS
  <1>2. OutcomeFirst'
    <2> SUFFICES ASSUME NEW q \in Queues, NEW i \in DOMAIN buf'[q],
                        buf'[q][i].name = "_eof", i > 1
                 PROVE  buf'[q][i - 1].name = "trip_complete"
      BY DEF OutcomeFirst
    <2>1. CASE i \in DOMAIN buf[q] /\ buf'[q][i] = buf[q][i]
      <3>1. buf[q][i - 1].name = "trip_complete" /\ i - 1 \in DOMAIN buf[q]
        BY <1>1, <2>1 DEF StreamInv, OutcomeFirst
      <3>2. QED BY <3>1, AppendKeeps
    <2>2. ASSUME q = queueOf[t], NEW k \in DOMAIN events,
                 i = Len(buf[q]) + k, buf'[q][i] = events[k]
          PROVE  buf'[q][i - 1].name = "trip_complete"
      <3>1. k > 1 /\ events[k - 1].name = "trip_complete"
        BY <2>2
      <3>2. buf'[q] = buf[q] \o events
        BY <2>2 DEF Publish
      <3>3. buf'[q][i - 1] = events[k - 1]
        <4>1. /\ buf[q] \in Seq(Event)
              /\ k \in 1..Len(events)
              /\ Len(buf[q]) \in Nat
              /\ Len(events) \in Nat
          BY <1>1, <2>2
        <4>2. k - 1 \in 1..Len(events) /\ i - 1 = Len(buf[q]) + (k - 1)
          <5>1. ASSUME NEW n \in Nat, NEW m \in Nat, NEW j \in 1..m, j > 1
                PROVE  j - 1 \in 1..m /\ (n + j) - 1 = n + (j - 1)
            BY <5>1
          <5>2. QED BY <2>2, <3>1, <4>1, <5>1
        <4>3. (buf[q] \o events)[Len(buf[q]) + (k - 1)] = events[k - 1]
          BY <4>1, <4>2
        <4>4. QED BY <3>2, <4>2, <4>3
      <3>4. QED BY <3>1, <3>3
    <2>3. QED BY <2>1, <2>2, Appended
  <1>3. OutcomeTaken'
    <2> SUFFICES ASSUME NEW s \in Streams, at[s] = "attached", 1 \in DOMAIN buf'[queue[s]],
                        last[s] # NoEvent, buf'[queue[s]][1].name = "_eof"
                 PROVE  last[s].name = "trip_complete"
      BY DEF OutcomeTaken
    <2>1. queue[s] \in Queues
      BY DEF BrokerTypeOK
    <2>2. CASE 1 \in DOMAIN buf[queue[s]] /\ buf'[queue[s]][1] = buf[queue[s]][1]
      BY <2>2 DEF StreamInv, OutcomeTaken
    <2>3. ASSUME NEW k \in DOMAIN events,
                 1 = Len(buf[queue[s]]) + k, buf'[queue[s]][1] = events[k]
          PROVE  FALSE
      <3>1. Len(buf[queue[s]]) \in Nat /\ k \in Nat
        BY <1>1, <1>k, <2>1
      <3>2. k > 1
        BY <2>3
      <3>3. QED BY <2>3, <3>1, <3>2
    <2>4. QED BY <2>1, <2>2, <2>3, Appended
  <1>4. QED BY <1>2, <1>3 DEF StreamInv, FreshIsSilent, EndsWithOutcome

\* Every step keeps the invariant of the streams.
LEMMA StreamStep ==
  ASSUME OneViewer, TypeOK, StreamInv, [Next]_vars
  PROVE  StreamInv'
  <1> DEFINE Rest == OutcomeFirst /\ OutcomeTaken /\ FreshIsSilent /\ EndsWithOutcome
  <1>t. BrokerTypeOK /\ RunTypeOK /\ \A r \in Runs : tripOf[r] \in Trips
    BY DEF TypeOK, RunTypeOK
  <1>1. ASSUME UNCHANGED brokerVars PROVE Rest'
    BY <1>1, StreamIdle
  <1>2. ASSUME NEW r \in Runs, Publishing(r) PROVE Rest'
    <2>1. PICK events \in Seq(Event) :
            /\ Publish(tripOf[r], events)
            /\ \A k \in DOMAIN events : events[k].name \notin {"trip_complete", "_eof"}
      BY <1>2 DEF Publishing
    <2>2. QED BY <1>t, <1>2, <2>1, StreamAppends DEF Publishing
  <1>3. ASSUME NEW r \in Runs, Announce(r) PROVE Rest'
    <2> DEFINE events == <<Msg("trip_complete", r, Final(r)), Msg("_eof", r, "none")>>
    <2>1. Publish(tripOf[r], events) /\ UNCHANGED streamVars
      BY <1>3 DEF Announce, Step
    <2>2. events \in Seq(Event)
      BY MessagesTyped
    <2>3. DOMAIN events = {1, 2} /\ events[1].name = "trip_complete"
      BY AnnounceEvents
    <2>4. \A k \in DOMAIN events : events[k].name = "_eof" =>
            k > 1 /\ events[k - 1].name = "trip_complete"
      BY <2>3
    <2> HIDE DEF events
    <2>5. QED BY <1>t, <2>1, <2>2, <2>4, StreamAppends
  <1>4. ASSUME NEW r \in Runs, Registering(r) \/ Escape(r) \/ AcceptFails(r) PROVE Rest'
    BY <1>4, StreamIdle DEF Registering, Escape, AcceptFails
  <1>5. ASSUME NEW s \in Streams, (\E t \in Trips : OpenStream(s, t)) \/ Disconnect(s)
        PROVE  Rest'
    <2>1. UNCHANGED <<buf, watches, queue, last>>
      BY <1>5 DEF OpenStream, Disconnect
    <2>2. \A o \in Streams : /\ at'[o] = "attached" => at[o] = "attached"
                             /\ at'[o] \in {"idle", "authorised"} =>
                                  at[o] \in {"idle", "authorised"}
                             /\ at'[o] = "ended" => at[o] = "ended"
      BY <1>5, <1>t DEF OpenStream, Disconnect, BrokerTypeOK
    <2>3. QED BY <2>1, <2>2, StreamIdle
  <1>6. ASSUME NEW s \in Streams, Subscribe(s) PROVE Rest'
    <2>1. last[s] = NoEvent
      BY <1>6, <1>t, Attached DEF StreamInv, FreshIsSilent
    <2>2. QED
      BY <1>6, <1>t, <2>1, Attached
      DEF StreamInv, OutcomeFirst, OutcomeTaken, FreshIsSilent, EndsWithOutcome
  <1>7. ASSUME NEW s \in Streams, Deliver(s) PROVE Rest'
    <2>1. OutcomeFirst'
      <3> SUFFICES ASSUME NEW q \in Queues, NEW i \in DOMAIN buf'[q],
                          buf'[q][i].name = "_eof", i > 1
                   PROVE  buf'[q][i - 1].name = "trip_complete"
        BY DEF OutcomeFirst
      <3>1. CASE q # queue[s]
        BY <1>t, <1>7, <3>1, Taken DEF StreamInv, OutcomeFirst
      <3>2. CASE q = queue[s]
        <4>1. buf[q] \in Seq(Event) /\ i \in Nat
          <5>1. buf[q] \in Seq(Event)
            BY <1>t DEF BrokerTypeOK
          <5>2. i + 1 \in DOMAIN buf[q]
            BY <1>t, <1>7, <3>2, Taken
          <5>3. buf'[q] = Tail(buf[q]) /\ buf[q] # <<>>
            BY <1>7, <1>t, <3>2 DEF Deliver, BrokerTypeOK
          <5>4. QED BY <5>1, <5>3
        <4>2. i + 1 \in DOMAIN buf[q] /\ buf'[q][i] = buf[q][i + 1]
          BY <1>t, <1>7, <3>2, Taken
        <4>3. i \in DOMAIN buf[q] /\ buf[q][i].name = "trip_complete"
          <5>1. i \in DOMAIN buf[q] /\ i + 1 > 1 /\ (i + 1) - 1 = i
            BY <4>1, <4>2
          <5>2. buf[q][(i + 1) - 1].name = "trip_complete"
            BY <4>2, <5>1 DEF StreamInv, OutcomeFirst
          <5>3. QED BY <5>1, <5>2
        <4>4. buf'[q][i - 1] = buf[q][i]
          BY <1>t, <1>7, <3>2, <4>3, Taken
        <4>5. QED BY <4>3, <4>4
      <3>3. QED BY <3>1, <3>2
    <2>2. OutcomeTaken'
      <3> SUFFICES ASSUME NEW o \in Streams, at'[o] = "attached", last'[o] # NoEvent,
                          1 \in DOMAIN buf'[queue[o]], buf'[queue[o]][1].name = "_eof"
                   PROVE  last'[o].name = "trip_complete"
        BY <1>t, <1>7, Taken DEF OutcomeTaken
      <3>1. CASE o = s
        <4>1. last'[s] = buf[queue[s]][1] /\ at[s] = "attached"
          BY <1>t, <1>7, <3>1, Taken
        <4>2. 1 + 1 \in DOMAIN buf[queue[s]] /\ buf[queue[s]][1 + 1].name = "_eof"
          BY <1>t, <1>7, <3>1, Taken
        <4>3. buf[queue[s]][1 + 1 - 1].name = "trip_complete"
          BY <1>t, <1>7, <4>2, Taken DEF StreamInv, OutcomeFirst
        <4>4. QED BY <3>1, <4>1, <4>3
      <3>2. CASE o # s
        <4>1. at[o] = "attached" /\ at[s] = "attached" /\ last'[o] = last[o]
          BY <1>t, <1>7, <3>2, Taken
        <4>2. queue[o] # queue[s]
          BY <3>2, <4>1, OneReader DEF StreamInv
        <4>3. queue[o] \in Queues
          BY <1>t, <4>1 DEF BrokerTypeOK
        <4>4. buf'[queue[o]] = buf[queue[o]]
          BY <1>t, <1>7, <4>2, <4>3, Taken
        <4>5. QED BY <4>1, <4>4 DEF StreamInv, OutcomeTaken
      <3>3. QED BY <3>1, <3>2
    <2>3. FreshIsSilent'
      BY <1>t, <1>7, Taken DEF StreamInv, FreshIsSilent
    <2>4. EndsWithOutcome'
      <3>1. \A o \in Streams : at'[o] = "ended" => last'[o] = last[o] /\
              (at[o] = "ended" \/ (o = s /\ buf[queue[s]][1].name = "_eof"))
        BY <1>t, <1>7, Taken
      <3>2. at[s] = "attached" /\ 1 \in DOMAIN buf[queue[s]]
        BY <1>t, <1>7, Taken
      <3>3. QED BY <3>1, <3>2 DEF StreamInv, OutcomeTaken, EndsWithOutcome
    <2>5. QED BY <2>1, <2>2, <2>3, <2>4
  <1>8. ASSUME Crash PROVE Rest'
    <2>1. UNCHANGED <<watches, queue, last>> /\ \A q \in Queues : buf'[q] = <<>>
      BY <1>8 DEF Crash, BrokerCrash
    <2>2. \A s \in Streams : /\ at'[s] # "attached"
                             /\ at'[s] \in {"idle", "authorised"} =>
                                  at[s] \in {"idle", "authorised"}
                             /\ at'[s] = "ended" => at[s] = "ended"
      BY <1>8, <1>t DEF Crash, BrokerCrash, BrokerTypeOK
    <2>3. OutcomeFirst'
      BY <2>1 DEF OutcomeFirst
    <2>4. (OutcomeTaken /\ FreshIsSilent /\ EndsWithOutcome)'
      BY <2>1, <2>2 DEF StreamInv, OutcomeTaken, FreshIsSilent, EndsWithOutcome
    <2>5. QED BY <2>3, <2>4
  <1>9. Rest'
    BY <1>t, <1>1, <1>2, <1>3, <1>4, <1>5, <1>6, <1>7, <1>8, BrokerSteps
  <1>10. QED BY <1>9, OwnedStep, OneEachStep DEF StreamInv

\* At first nobody watches and nothing is queued.
LEMMA StreamInit == Init => StreamInv /\ OrphanInv
  BY DEF Init, BrokerInit, StreamInv, OrphanInv, QueueOwned, OneEach, OutcomeFirst, OutcomeTaken,
         FreshIsSilent, EndsWithOutcome, QueueServed, NoOrphanStream

\* With one viewer per trip, every stream that the server ends and that forwarded
\* anything forwarded the outcome last, whatever fails or crashes.
THEOREM StreamsEndTold ==
  ASSUME OneViewer PROVE Spec => []EndsWithOutcome
  <1>1. TypeOK /\ StreamInv /\ [Next]_vars => StreamInv'
    BY StreamStep
  <1>2. StreamInv => EndsWithOutcome
    BY DEF StreamInv
  <1>3. QED BY Typed, StreamInit, <1>1, <1>2, PTL DEF Spec

-------------------------------------------------------------------------------
(* Every stream can be ended.                                              *)

\* The end of a stream is on a queue.
HasEnd(events) == \E i \in DOMAIN events : events[i].name = "_eof"

\* Appending loses no end.
LEMMA EndKept ==
  ASSUME BrokerTypeOK, NEW t \in Trips, NEW events \in Seq(Event), Publish(t, events),
         NEW q \in Queues, HasEnd(buf[q])
  PROVE  HasEnd(buf'[q])
  <1>1. PICK i \in DOMAIN buf[q] : buf[q][i].name = "_eof"
    BY DEF HasEnd
  <1>2. i \in DOMAIN buf'[q] /\ buf'[q][i] = buf[q][i]
    BY AppendKeeps
  <1>3. QED BY <1>1, <1>2 DEF HasEnd

\* A step that keeps the ends, the queues and the live runs keeps the streams served.
LEMMA ServedKept ==
  ASSUME TypeOK, QueueServed, NoOrphanStream, UNCHANGED tripOf,
         \A t \in Trips : queueOf'[t] = queueOf[t],
         \A r \in Runs : pc[r] \in Live => pc'[r] \in Live,
         \A s \in Streams : at'[s] = "attached" =>
           /\ at[s] = "attached"
           /\ watches'[s] = watches[s]
           /\ queue'[s] = queue[s]
           /\ HasEnd(buf[queue[s]]) => HasEnd(buf'[queue[s]])
  PROVE  QueueServed' /\ NoOrphanStream'
  <1>1. QueueServed'
    BY DEF QueueServed
  <1>2. ASSUME NEW s \in Streams, at'[s] = "attached"
        PROVE  \/ HasEnd(buf'[queue[s]])
               \/ /\ queueOf'[watches[s]] = queue[s]
                  /\ \E r \in Runs : pc'[r] \in Live /\ tripOf[r] = watches[s]
    <2>1. watches[s] \in Trips
      BY DEF TypeOK, BrokerTypeOK
    <2>2. QED BY <1>2, <2>1 DEF NoOrphanStream, HasEnd
  <1>3. QED BY <1>1, <1>2 DEF NoOrphanStream, HasEnd

\* The end of run r: its trip's queue gets the end and is forgotten.
LEMMA ServedAnnounce ==
  ASSUME TypeOK, QueueServed, NoOrphanStream, NEW r \in Runs, Announce(r)
  PROVE  QueueServed' /\ NoOrphanStream'
  <1> DEFINE t == tripOf[r]
  <1> DEFINE events == <<Msg("trip_complete", r, Final(r)), Msg("_eof", r, "none")>>
  <1>t. BrokerTypeOK /\ t \in Trips
    BY DEF TypeOK, RunTypeOK
  <1>1. /\ Publish(t, events)
        /\ DropQueue(t)
        /\ pc' = [pc EXCEPT ![r] = "done"]
        /\ UNCHANGED <<streamVars, tripOf>>
    BY DEF Announce, Step
  <1>2. events \in Seq(Event) /\ DOMAIN events = {1, 2} /\ events[2].name = "_eof"
    BY AnnounceEvents
  <1> HIDE DEF events
  <1>3. /\ queueOf'[t] = NoQueue
        /\ \A u \in Trips : u # t => queueOf'[u] = queueOf[u]
    BY <1>t, <1>1 DEF DropQueue, BrokerTypeOK
  <1>4. \A o \in Runs : pc[o] \in Live /\ tripOf[o] # t => pc'[o] \in Live
    BY <1>1 DEF TypeOK, RunTypeOK
  <1>5. QueueServed'
    BY <1>1, <1>3, <1>4 DEF QueueServed
  <1>6. ASSUME NEW s \in Streams, at[s] = "attached"
        PROVE  \/ HasEnd(buf'[queue[s]])
               \/ /\ queueOf'[watches[s]] = queue[s]
                  /\ \E o \in Runs : pc'[o] \in Live /\ tripOf[o] = watches[s]
    <2>1. queue[s] \in Queues /\ watches[s] \in Trips
      BY <1>t, <1>6 DEF BrokerTypeOK
    <2>2. CASE HasEnd(buf[queue[s]])
      BY <1>t, <1>1, <1>2, <2>1, <2>2, EndKept
    <2>3. CASE ~HasEnd(buf[queue[s]]) /\ watches[s] # t
      BY <1>3, <1>4, <1>6, <2>1, <2>3 DEF NoOrphanStream, HasEnd
    <2>4. CASE ~HasEnd(buf[queue[s]]) /\ watches[s] = t
      <3>1. queueOf[t] = queue[s]
        BY <1>6, <2>4 DEF NoOrphanStream, HasEnd
      <3>2. buf'[queue[s]] = buf[queue[s]] \o events /\ buf[queue[s]] \in Seq(Event)
        BY <1>t, <1>1, <2>1, <3>1 DEF Publish, BrokerTypeOK
      <3>3. /\ Len(buf[queue[s]]) + 2 \in DOMAIN buf'[queue[s]]
            /\ buf'[queue[s]][Len(buf[queue[s]]) + 2] = events[2]
        <4>1. 2 \in DOMAIN events
          BY <1>2
        <4>2. /\ Len(buf[queue[s]]) + 2 \in DOMAIN (buf[queue[s]] \o events)
              /\ (buf[queue[s]] \o events)[Len(buf[queue[s]]) + 2] = events[2]
          BY <1>2, <3>2, <4>1, BehindFirst, Zenon
        <4>3. QED BY <3>2, <4>2, Zenon
      <3>4. QED BY <1>2, <3>3 DEF HasEnd
    <2>5. QED BY <2>2, <2>3, <2>4
  <1>7. QED BY <1>1, <1>5, <1>6 DEF NoOrphanStream, HasEnd

\* Every step keeps every stream served while database calls do not fail.
LEMMA OrphanStep ==
  ASSUME OneViewer, MaxFaults = 0, TypeOK, OrphanInv, [Next]_vars
  PROVE  OrphanInv'
  <1> DEFINE Served == QueueServed /\ NoOrphanStream
  <1>t. BrokerTypeOK /\ RunTypeOK /\ \A r \in Runs : tripOf[r] \in Trips
    BY DEF TypeOK, RunTypeOK
  <1>i. QueueOwned /\ OneEach /\ QueueServed /\ NoOrphanStream
    BY DEF OrphanInv
  <1>1. ASSUME UNCHANGED <<brokerVars, tripOf>>,
               \A r \in Runs : pc[r] \in Live => pc'[r] = pc[r]
        PROVE  Served'
    BY <1>1, <1>i, ServedKept DEF HasEnd
  <1>2. ASSUME NEW r \in Runs, Publishing(r) PROVE Served'
    <2>1. /\ UNCHANGED <<queueOf, streamVars, tripOf>>
          /\ \A o \in Runs : pc[o] \in Live => pc'[o] \in Live
      BY <1>2, <1>t DEF Publishing, RunTypeOK
    <2>2. PICK events \in Seq(Event) : Publish(tripOf[r], events)
      BY <1>2 DEF Publishing
    <2>3. \A s \in Streams : at[s] = "attached" /\ HasEnd(buf[queue[s]]) => HasEnd(buf'[queue[s]])
      BY <1>t, <2>2, EndKept DEF BrokerTypeOK
    <2>4. QED BY <1>i, <2>1, <2>3, ServedKept
  <1>3. ASSUME NEW r \in Runs, Registering(r) PROVE Served'
    <2>1. /\ UNCHANGED <<buf, streamVars, tripOf>>
          /\ \A o \in Runs : pc[o] \in Live => pc'[o] \in Live
          /\ pc'[r] \in Live
      BY <1>3, <1>t DEF Registering, RunTypeOK
    <2>2. /\ \A t \in Trips : t # tripOf[r] => queueOf'[t] = queueOf[t]
          /\ queueOf[tripOf[r]] # NoQueue => queueOf'[tripOf[r]] = queueOf[tripOf[r]]
      BY <1>3, <1>t DEF Registering, Register, BrokerTypeOK
    <2>3. QueueServed'
      BY <1>i, <2>1, <2>2 DEF QueueServed
    <2>4. ASSUME NEW s \in Streams, at[s] = "attached", queueOf[watches[s]] = queue[s]
          PROVE  queueOf'[watches[s]] = queue[s]
      <3>1. watches[s] \in Trips /\ queue[s] # NoQueue
        BY <1>t, <2>4, BrokerConstants DEF BrokerTypeOK
      <3>2. QED BY <2>2, <2>4, <3>1
    <2>5. NoOrphanStream'
      BY <1>i, <2>1, <2>4 DEF NoOrphanStream
    <2>6. QED BY <2>3, <2>5
  <1>4. ASSUME NEW r \in Runs, Announce(r) PROVE Served'
    BY <1>4, <1>i, ServedAnnounce
  <1>5. ASSUME NEW r \in Runs, Escape(r) \/ AcceptFails(r) PROVE FALSE
    <2>1. faults \in 0..MaxFaults /\ faults < MaxFaults
      BY <1>5, <1>t DEF Escape, AcceptFails, Fault, RunTypeOK
    <2>2. QED BY <2>1
  <1>6. ASSUME NEW s \in Streams, UNCHANGED <<pc, tripOf>>,
               (\E t \in Trips : OpenStream(s, t)) \/ Disconnect(s)
        PROVE  Served'
    <2>1. UNCHANGED <<queueOf, buf, watches, queue>>
      BY <1>6 DEF OpenStream, Disconnect
    <2>2. \A o \in Streams : at'[o] = "attached" => at[o] = "attached"
      BY <1>6, <1>t DEF OpenStream, Disconnect, BrokerTypeOK
    <2>3. QED BY <1>6, <1>i, <2>1, <2>2, ServedKept DEF HasEnd
  <1>7. ASSUME NEW s \in Streams, UNCHANGED <<pc, tripOf>>, Subscribe(s) PROVE Served'
    <2>1. watches[s] \in Trips
      BY <1>t DEF BrokerTypeOK
    <2>2. QueueServed'
      BY <1>7, <1>i, <1>t, Attached DEF QueueServed
    <2>3. ASSUME NEW o \in Streams, at'[o] = "attached"
          PROVE  \/ HasEnd(buf[queue'[o]])
                 \/ /\ queueOf[watches[o]] = queue'[o]
                    /\ \E r \in Runs : pc[r] \in Live /\ tripOf[r] = watches[o]
      <3>1. CASE o = s
        <4>1. queue'[s] = queueOf[watches[s]] /\ queueOf[watches[s]] # NoQueue
          BY <1>7, <1>t, <2>3, <3>1, Attached
        <4>2. QED BY <1>i, <2>1, <3>1, <4>1 DEF QueueServed
      <3>2. CASE o # s
        <4>1. at[o] = "attached" /\ queue'[o] = queue[o]
          BY <1>7, <1>t, <2>3, <3>2, Attached
        <4>2. QED BY <1>i, <4>1 DEF NoOrphanStream, HasEnd
      <3>3. QED BY <3>1, <3>2
    <2>4. UNCHANGED <<queueOf, buf, watches>>
      BY <1>7, <1>t, Attached
    <2>5. NoOrphanStream'
      BY <1>7, <2>3, <2>4 DEF NoOrphanStream, HasEnd
    <2>6. QED BY <2>2, <2>5
  <1>8. ASSUME NEW s \in Streams, UNCHANGED <<pc, tripOf>>, Deliver(s) PROVE Served'
    <2>1. UNCHANGED <<queueOf, watches, queue>>
      BY <1>8, <1>t, Taken
    <2>2. ASSUME NEW o \in Streams, at'[o] = "attached"
          PROVE  at[o] = "attached" /\ (HasEnd(buf[queue[o]]) => HasEnd(buf'[queue[o]]))
      <3>1. CASE o = s
        <4>1. at[s] = "attached" /\ buf[queue[s]][1].name # "_eof" /\ queue[s] \in Queues
          BY <1>8, <1>t, <2>2, <3>1, Taken
        <4>2. ASSUME NEW i \in DOMAIN buf[queue[s]], buf[queue[s]][i].name = "_eof"
              PROVE  HasEnd(buf'[queue[s]])
          <5>1. i > 1
            <6>1. buf[queue[s]] \in Seq(Event) /\ i # 1
              BY <1>t, <4>1, <4>2 DEF BrokerTypeOK
            <6>2. QED BY <6>1
          <5>2. i - 1 \in DOMAIN buf'[queue[s]] /\ buf'[queue[s]][i - 1] = buf[queue[s]][i]
            BY <1>8, <1>t, <5>1, Taken
          <5>3. QED BY <2>1, <4>2, <5>2 DEF HasEnd
        <4>3. QED BY <3>1, <4>1, <4>2 DEF HasEnd
      <3>2. CASE o # s
        <4>1. at[o] = "attached" /\ at[s] = "attached"
          BY <1>8, <1>t, <2>2, <3>2, Taken
        <4>2. queue[o] # queue[s] /\ queue[o] \in Queues
          BY <1>i, <1>t, <3>2, <4>1, OneReader DEF BrokerTypeOK
        <4>3. buf'[queue[o]] = buf[queue[o]]
          BY <1>8, <1>t, <4>2, Taken
        <4>4. QED BY <2>1, <4>1, <4>3 DEF HasEnd
      <3>3. QED BY <3>1, <3>2
    <2>3. QED BY <1>8, <1>i, <2>1, <2>2, ServedKept
  <1>9. ASSUME Crash PROVE Served'
    <2>1. /\ \A t \in Trips : queueOf'[t] = NoQueue
          /\ \A s \in Streams : at'[s] # "attached"
      BY <1>9, <1>t DEF Crash, BrokerCrash, BrokerTypeOK
    <2>2. QED BY <2>1 DEF QueueServed, NoOrphanStream
  <1>10. Served'
    BY <1>t, <1>1, <1>2, <1>3, <1>4, <1>5, <1>6, <1>7, <1>8, <1>9, BrokerSteps
  <1>11. QED BY <1>i, <1>10, OwnedStep, OneEachStep DEF OrphanInv

\* With one viewer per trip and a database that answers, a stream that waits on a
\* queue finds the end there or a live run that will put it there, also after a crash.
THEOREM StreamsAreServed ==
  ASSUME OneViewer, MaxFaults = 0 PROVE Spec => []NoOrphanStream
  <1>1. TypeOK /\ OrphanInv /\ [Next]_vars => OrphanInv'
    BY OrphanStep
  <1>2. OrphanInv => NoOrphanStream
    BY DEF OrphanInv
  <1>3. QED BY Typed, StreamInit, <1>1, <1>2, PTL DEF Spec

-------------------------------------------------------------------------------
(* What a client was told lasts.                                           *)

\* Run r has been refined: some refine was made from its report.
Superseded(r) == \E o \in Runs : pc[o] # "idle" /\ prev[o] = r

\* Once a run has settled, its trip shows its status, is gone, or has been refined
\* from its report; and the report of a successful run stays in the list.
SettledLasts ==
  \A r \in Runs : pc[r] \in {"settled", "done"} /\ row[tripOf[r]] # "gone" =>
    /\ \/ row[tripOf[r]] = Final(r)
       \/ Final(r) = "complete" /\ Superseded(r)
    /\ Final(r) = "complete" =>
         \E i \in DOMAIN reports[tripOf[r]] : reports[tripOf[r]][i] = r

\* A trip_complete event about trip t tells the outcome of a run of t that is done.
Truthful(e, t) ==
  e.name = "trip_complete" =>
    pc[e.run] = "done" /\ tripOf[e.run] = t /\ e.status = Final(e.run)

\* Every event that is queued for a trip or was forwarded to its viewer is truthful.
ToldTruth ==
  /\ \A q \in Queues : \A i \in DOMAIN buf[q] : Truthful(buf[q][i], tripOf[q[1]])
  /\ \A s \in Streams : last[s] # NoEvent => Truthful(last[s], watches[s])

\* The report of every run before the last was refined.
LEMMA OlderIsSuperseded ==
  ASSUME RunTypeOK, Written, LinearHistory, NEW t \in Trips, NEW r \in Runs,
         NEW i \in DOMAIN reports[t], reports[t][i] = r, r # Latest(t)
  PROVE  Superseded(r)
  <1>1. reports[t] \in Seq(Runs) /\ i \in 1..Len(reports[t]) /\ Len(reports[t]) \in Nat
    BY DEF RunTypeOK
  <1>2. i # Len(reports[t])
    BY DEF Latest
  <1>3. i + 1 \in 1..Len(reports[t]) /\ i + 1 # 1 /\ (i + 1) - 1 = i
    BY <1>1, <1>2
  <1> DEFINE o == reports[t][i + 1]
  <1>4. o \in Runs /\ i + 1 \in DOMAIN reports[t]
    BY <1>1, <1>3
  <1>5. prev[o] = reports[t][(i + 1) - 1] /\ pc[o] # "idle"
    BY <1>3, <1>4 DEF LinearHistory, Written
  <1>6. QED BY <1>3, <1>4, <1>5 DEF Superseded

\* A run that has settled keeps its result and its trip.
LEMMA ResultsStay ==
  ASSUME RunTypeOK, AllHistory, [Next]_vars, NEW r \in Runs
  PROVE  /\ UNCHANGED tripOf
         /\ pc[r] \in {"settled", "done"} => Final(r)' = Final(r)
         /\ pc[r] # "idle" => pc'[r] # "idle" /\ prev'[r] = prev[r]
         /\ pc[r] = "done" => pc'[r] = "done"
         /\ Superseded(r) => Superseded(r)'
  <1> DEFINE Kept == \A o \in Runs :
        /\ pc[o] \in {"settled", "done"} => outcome'[o] = outcome[o]
        /\ pc[o] # "idle" => pc'[o] # "idle" /\ prev'[o] = prev[o]
        /\ pc[o] = "done" => pc'[o] = "done"
  <1> USE DEF Step
  <1>1. ASSUME NEW t \in Trips, NEW q \in Runs,
               CreateRunning(t, q) \/ Clarify(t, q) \/ Refine(t, q)
        PROVE  UNCHANGED tripOf /\ Kept
    BY <1>1 DEF CreateRunning, Clarify, Refine, Accept, RunTypeOK
  <1>2. ASSUME (\E t \in Trips : CreateParked(t) \/ Delete(t)) \/ DeleteAccount
        PROVE  UNCHANGED tripOf /\ Kept
    BY <1>2 DEF CreateParked, Delete, DeleteAccount
  <1>3. ASSUME NEW q \in Runs,
               \/ Respond(q) \/ Begin(q) \/ MarkRunning(q) \/ Load(q) \/ Phase(q)
               \/ PlanDays(q) \/ Translate(q) \/ Settle(q) \/ Announce(q)
               \/ Escape(q) \/ AcceptFails(q) \/ SettleFails(q)
        PROVE  UNCHANGED tripOf /\ Kept
    <2>1. UNCHANGED <<tripOf, outcome, prev>>
      BY <1>3 DEF Respond, Begin, MarkRunning, Load, Phase, PlanDays, Translate, Settle, Announce,
                  Escape, AcceptFails, SettleFails
    <2>2. pc[q] # "done" /\ \E to \in Live \cup {"done", "raised", "lost"} :
            pc' = [pc EXCEPT ![q] = to]
      BY <1>3 DEF Respond, Begin, MarkRunning, Load, Phase, PlanDays, Translate, Settle, Announce,
                  Escape, Unguarded, AcceptFails, SettleFails, Live, Unsettled, BeforeSave, AfterSave
    <2>3. "idle" \notin Live
      BY DEF Live, Unsettled, BeforeSave, AfterSave
    <2>4. QED BY <2>1, <2>2, <2>3 DEF RunTypeOK
  <1>4. ASSUME NEW q \in Runs, CycleOk(q) \/ CycleAbort(q) \/ RefineOk(q) \/ RefineAbort(q)
        PROVE  UNCHANGED tripOf /\ Kept
    <2>1. /\ UNCHANGED <<tripOf, prev>>
          /\ pc[q] = "loaded"
          /\ pc' = [pc EXCEPT ![q] = "produced"]
          /\ \E o \in {"ok", "aborted", "blank"} : outcome' = [outcome EXCEPT ![q] = o]
      BY <1>4 DEF CycleOk, CycleAbort, RefineOk, RefineAbort, Produce
    <2>2. QED BY <2>1 DEF RunTypeOK
  <1>5. ASSUME NEW q \in Runs, SaveReport(q) \/ SaveFails(q)
        PROVE  UNCHANGED tripOf /\ Kept
    <2>1. /\ UNCHANGED <<tripOf, prev>>
          /\ pc[q] = "produced"
          /\ pc' = [pc EXCEPT ![q] = "saved"]
          /\ \A o \in Runs : o # q => outcome'[o] = outcome[o]
      BY <1>5 DEF SaveReport, SaveFails, RunTypeOK
    <2>2. QED BY <2>1 DEF RunTypeOK
  <1>6. ASSUME NEW s \in Streams, Viewer(s) PROVE UNCHANGED tripOf /\ Kept
    BY <1>6 DEF Viewer
  <1>7. ASSUME Crash PROVE UNCHANGED tripOf /\ Kept
    BY <1>7 DEF Crash, Live, Unsettled, BeforeSave, AfterSave, RunTypeOK
  <1>8. ASSUME UNCHANGED vars PROVE UNCHANGED tripOf /\ Kept
    BY <1>8 DEF vars
  <1>9. UNCHANGED tripOf /\ Kept
    BY <1>1, <1>2, <1>3, <1>4, <1>5, <1>6, <1>7, <1>8
    DEF Next, Handlers, RunStep, FaultStep
  <1>10. QED BY <1>9 DEF Final, Superseded

\* What a step can do to the row and the reports of a trip.
LEMMA TripStep ==
  ASSUME RunTypeOK, SingleWriter, [Next]_vars, NEW t \in Trips
  PROVE  \/ /\ row'[t] = row[t]
            /\ reports'[t] = reports[t] \/ \E o \in Runs : reports'[t] = Append(reports[t], o)
         \/ row'[t] = "gone"
         \/ row[t] = "none"
         \/ /\ row[t] \in {"clarifying", "running"}
            /\ reports'[t] = reports[t]
         \/ /\ row[t] = "complete"
            /\ reports'[t] = reports[t]
            /\ \E o \in Runs : pc'[o] # "idle" /\ prev'[o] = Latest(t)
  <1> DEFINE Allowed ==
        \/ /\ row'[t] = row[t]
           /\ reports'[t] = reports[t] \/ \E o \in Runs : reports'[t] = Append(reports[t], o)
        \/ row'[t] = "gone"
        \/ row[t] = "none"
        \/ /\ row[t] \in {"clarifying", "running"}
           /\ reports'[t] = reports[t]
        \/ /\ row[t] = "complete"
           /\ reports'[t] = reports[t]
           /\ \E o \in Runs : pc'[o] # "idle" /\ prev'[o] = Latest(t)
  <1> USE DEF Step
  <1>1. ASSUME NEW u \in Trips, NEW r \in Runs, CreateRunning(u, r) \/ Clarify(u, r)
        PROVE  Allowed
    BY <1>1 DEF CreateRunning, Clarify, Accept, RunTypeOK
  <1>2. ASSUME NEW u \in Trips, NEW r \in Runs, Refine(u, r) PROVE Allowed
    <2>1. u # t => row'[t] = row[t] /\ reports'[t] = reports[t]
      BY <1>2 DEF Refine, Accept, RunTypeOK
    <2>2. u = t => /\ row[t] \in {"clarifying", "complete"}
                   /\ reports'[t] = reports[t]
                   /\ pc'[r] # "idle" /\ prev'[r] = Latest(t)
      BY <1>2 DEF Refine, Accept, Exists, RunTypeOK
    <2>3. QED BY <2>1, <2>2
  <1>3. ASSUME NEW u \in Trips, CreateParked(u) \/ Delete(u) PROVE Allowed
    BY <1>3 DEF CreateParked, Delete, RunTypeOK
  <1>4. ASSUME DeleteAccount PROVE Allowed
    BY <1>4 DEF DeleteAccount
  <1>5. ASSUME NEW r \in Runs, SaveReport(r) \/ SaveFails(r) PROVE Allowed
    <2>1. \/ UNCHANGED <<row, reports>>
          \/ UNCHANGED row /\ reports' = [reports EXCEPT ![tripOf[r]] = Append(@, r)]
      BY <1>5 DEF SaveReport, SaveFails, RunTypeOK
    <2>2. /\ row'[t] = row[t]
          /\ reports'[t] = reports[t] \/ reports'[t] = Append(reports[t], r)
      BY <2>1 DEF RunTypeOK
    <2>3. QED BY <2>2
  <1>6. ASSUME NEW r \in Runs, MarkRunning(r) \/ Settle(r) PROVE Allowed
    <2>1. row[tripOf[r]] \in {"running", "gone"} /\ UNCHANGED reports
      BY <1>6 DEF MarkRunning, Settle, SingleWriter, Unsettled, BeforeSave, AfterSave
    <2>2. row'[t] = row[t] \/ row[t] = "running"
      BY <1>6, <2>1 DEF MarkRunning, Settle, SetStatus, Exists, RunTypeOK
    <2>3. QED BY <2>1, <2>2
  <1>7. ASSUME NEW r \in Runs,
               \/ Respond(r) \/ Begin(r) \/ Load(r) \/ Phase(r)
               \/ CycleOk(r) \/ CycleAbort(r) \/ RefineOk(r) \/ RefineAbort(r)
               \/ PlanDays(r) \/ Translate(r) \/ Announce(r)
               \/ Escape(r) \/ AcceptFails(r) \/ SettleFails(r)
        PROVE  Allowed
    BY <1>7 DEF Respond, Begin, Load, Phase, CycleOk, CycleAbort, RefineOk, RefineAbort, Produce,
                PlanDays, Translate, Announce, Escape, AcceptFails, SettleFails
  <1>8. ASSUME NEW s \in Streams, Viewer(s) PROVE Allowed
    BY <1>8 DEF Viewer
  <1>9. ASSUME Crash \/ UNCHANGED vars PROVE Allowed
    BY <1>9 DEF Crash, vars
  <1>10. QED
    BY <1>1, <1>2, <1>3, <1>4, <1>5, <1>6, <1>7, <1>8, <1>9
    DEF Next, Handlers, RunStep, FaultStep

\* A deleted trip stays deleted.
LEMMA GoneStays ==
  ASSUME RunTypeOK, [Next]_vars, NEW t \in Trips, row[t] = "gone"
  PROVE  row'[t] = "gone"
  <1> USE DEF Step
  <1>1. CASE Handlers
    BY <1>1 DEF Handlers, CreateParked, CreateRunning, Clarify, Refine, Accept, Delete,
                DeleteAccount, Exists, RunTypeOK
  <1>2. ASSUME NEW r \in Runs, MarkRunning(r) \/ Settle(r) PROVE row'[t] = "gone"
    BY <1>2 DEF MarkRunning, Settle, SetStatus, Exists, RunTypeOK
  <1>3. ASSUME NEW r \in Runs, RunStep(r) \/ FaultStep(r), ~MarkRunning(r), ~Settle(r)
        PROVE  row'[t] = "gone"
    BY <1>3 DEF RunStep, FaultStep, Respond, Begin, Load, Phase, CycleOk, CycleAbort, RefineOk,
                RefineAbort, Produce, SaveReport, PlanDays, Translate, Announce, Escape,
                AcceptFails, SaveFails, SettleFails
  <1>4. ASSUME NEW s \in Streams, Viewer(s) PROVE row'[t] = "gone"
    BY <1>4 DEF Viewer
  <1>5. CASE Crash \/ UNCHANGED vars
    BY <1>5 DEF Crash, vars
  <1>6. QED BY <1>1, <1>2, <1>3, <1>4, <1>5 DEF Next

\* A run gets to "settled" by committing its final status.
LEMMA SettlesOnce ==
  ASSUME MaxFaults = 0, RunTypeOK, [Next]_vars, NEW r \in Runs,
         pc'[r] \in {"settled", "done"}, pc[r] \notin {"settled", "done"}
  PROVE  Settle(r)
  <1> USE DEF Step
  <1>1. ASSUME NEW q \in Runs, FaultStep(q) PROVE FALSE
    <2>1. faults \in 0..MaxFaults /\ faults < MaxFaults
      BY <1>1 DEF FaultStep, Escape, AcceptFails, SaveFails, SettleFails, Fault, RunTypeOK
    <2>2. QED BY <2>1
  <1>2. ASSUME Handlers PROVE FALSE
    BY <1>2 DEF Handlers, CreateParked, CreateRunning, Clarify, Refine, Accept, Delete,
                DeleteAccount, RunTypeOK
  <1>3. ASSUME NEW q \in Runs, RunStep(q) PROVE Settle(r)
    <2>1. \/ Settle(q)
          \/ \E to \in BeforeSave \cup AfterSave : pc' = [pc EXCEPT ![q] = to]
          \/ pc[q] = "settled" /\ pc' = [pc EXCEPT ![q] = "done"]
      BY <1>3 DEF RunStep, Respond, Begin, MarkRunning, Load, Phase, CycleOk, CycleAbort, RefineOk,
                  RefineAbort, Produce, SaveReport, PlanDays, Translate, Announce, BeforeSave,
                  AfterSave
    <2>2. Settle(q) => q = r
      BY DEF Settle, RunTypeOK
    <2>3. QED BY <2>1, <2>2 DEF RunTypeOK, BeforeSave, AfterSave
  <1>4. ASSUME \/ \E s \in Streams : Viewer(s)
               \/ Crash \/ UNCHANGED vars
        PROVE  FALSE
    BY <1>4 DEF Viewer, Crash, vars, RunTypeOK
  <1>5. QED BY <1>1, <1>2, <1>3, <1>4 DEF Next

\* A step on trip t after the one that settled run r: the trip is gone, keeps its
\* status and its reports, or is refined from the last of them.
LEMMA SettledStep ==
  ASSUME MaxFaults = 0, TypeOK, SingleWriter, AllHistory, SettledLasts, [Next]_vars
  PROVE  SettledLasts'
  <1> USE DEF Step
  <1>t. RunTypeOK /\ Written /\ LinearHistory /\ UnworkedIsEmpty /\ SavedIsLatest
    BY DEF TypeOK, AllHistory, HistoryInv
  <1>r. \A r \in Runs : tripOf[r] \in Trips /\ Final(r) \in {"complete", "aborted"}
    BY <1>t DEF RunTypeOK, Final
  <1>k. UNCHANGED tripOf
    <2>1. Runs = {} => UNCHANGED tripOf
      BY <1>t DEF RunTypeOK, Next, Handlers, CreateParked, Delete, DeleteAccount, Viewer, Crash,
                  vars
    <2>2. QED BY <1>t, <2>1, ResultsStay
  <1> SUFFICES ASSUME NEW r \in Runs, pc'[r] \in {"settled", "done"}, row'[tripOf[r]] # "gone"
               PROVE  /\ \/ row'[tripOf[r]] = Final(r)'
                         \/ Final(r)' = "complete" /\ Superseded(r)'
                      /\ Final(r)' = "complete" =>
                           \E i \in DOMAIN reports'[tripOf[r]] : reports'[tripOf[r]][i] = r
    BY <1>k DEF SettledLasts
  <1> DEFINE t == tripOf[r]
  <1>1. CASE pc[r] \notin {"settled", "done"}
    <2>1. Settle(r)
      BY <1>t, <1>1, SettlesOnce
    <2>2. /\ row[t] \in {"running", "gone"}
          /\ "enriched" \in AfterSave
          /\ pc[r] = "enriched"
          /\ UNCHANGED <<reports, outcome>>
      BY <2>1 DEF Settle, SingleWriter, Unsettled, AfterSave
    <2>3. row[t] = "running" /\ row'[t] = Final(r)
      BY <1>t, <1>r, <2>1, <2>2 DEF Settle, SetStatus, Exists, RunTypeOK
    <2>4. Final(r)' = Final(r) /\ (Final(r) = "complete" => outcome[r] = "ok")
      BY <2>2 DEF Final
    <2>5. ASSUME Final(r) = "complete"
          PROVE  \E i \in DOMAIN reports[t] : reports[t][i] = r
      <3>1. reports[t] # <<>> /\ Latest(t) = r
        BY <1>t, <2>2, <2>3, <2>4, <2>5 DEF SavedIsLatest
      <3>2. reports[t] \in Seq(Runs)
        BY <1>t, <1>r DEF RunTypeOK
      <3>3. Len(reports[t]) \in DOMAIN reports[t]
        BY <3>1, <3>2
      <3>4. QED BY <3>1, <3>3 DEF Latest
    <2>6. QED BY <2>2, <2>3, <2>4, <2>5
  <1>2. CASE pc[r] \in {"settled", "done"}
    <2>1. Final(r)' = Final(r) /\ (Superseded(r) => Superseded(r)')
      BY <1>2, <1>t, ResultsStay
    <2>2. row[t] # "gone"
      BY <1>t, <1>r, GoneStays
    <2>3. /\ \/ row[t] = Final(r)
             \/ Final(r) = "complete" /\ Superseded(r)
          /\ Final(r) = "complete" => \E i \in DOMAIN reports[t] : reports[t][i] = r
      BY <1>2, <2>2 DEF SettledLasts
    <2>4. ASSUME NEW i \in DOMAIN reports[t], reports[t][i] = r, row[t] # "none"
          PROVE  \E j \in DOMAIN reports'[t] : reports'[t][j] = r
      <3>1. reports[t] \in Seq(Runs)
        BY <1>t, <1>r DEF RunTypeOK
      <3>2. ASSUME NEW o \in Runs, reports'[t] = Append(reports[t], o)
            PROVE  i \in DOMAIN reports'[t] /\ reports'[t][i] = r
        BY <2>4, <3>1, <3>2
      <3>3. QED BY <1>t, <1>r, <2>4, <3>2, TripStep
    <2>5. row[t] # "none"
      <3>1. row[t] = "none" => reports[t] = <<>>
        BY <1>t, <1>r DEF UnworkedIsEmpty
      <3>2. QED BY <1>r, <2>3, <3>1
    <2>6. ASSUME row[t] = Final(r), row'[t] # row[t]
          PROVE  Final(r) = "complete" /\ Superseded(r)'
      <3>1. /\ row[t] = "complete"
            /\ \E o \in Runs : pc'[o] # "idle" /\ prev'[o] = Latest(t)
        BY <1>t, <1>r, <2>6, TripStep
      <3>2. PICK i \in DOMAIN reports[t] : reports[t][i] = r
        BY <2>3, <2>6, <3>1
      <3>3. CASE r = Latest(t)
        BY <2>6, <3>1, <3>3 DEF Superseded
      <3>4. CASE r # Latest(t)
        <4>1. Superseded(r)
          BY <1>t, <1>r, <3>2, <3>4, OlderIsSuperseded
        <4>2. QED BY <2>1, <2>6, <3>1, <4>1
      <3>5. QED BY <3>3, <3>4
    <2>7. QED BY <2>1, <2>3, <2>4, <2>5, <2>6
  <1>3. QED BY <1>1, <1>2

\* Told events stay truthful, and every new one is.
LEMMA ToldStep ==
  ASSUME TypeOK, AllHistory, ToldTruth, QueueOwned, [Next]_vars
  PROVE  ToldTruth'
  <1> DEFINE Still(e, t) ==
        e.name = "trip_complete" =>
          /\ pc'[e.run] = "done"
          /\ tripOf'[e.run] = t
          /\ e.status = IF outcome'[e.run] = "ok" THEN "complete" ELSE "aborted"
  <1>t. BrokerTypeOK /\ RunTypeOK /\ \A r \in Runs : tripOf[r] \in Trips
    BY DEF TypeOK, RunTypeOK
  <1>q. /\ \A q \in Queues : q[1] \in Runs /\ tripOf'[q[1]] = tripOf[q[1]]
        /\ \A q \in Queues : buf[q] \in Seq(Event) /\ \A i \in DOMAIN buf[q] : buf[q][i] \in Event
    BY <1>t, ResultsStay DEF Queues, BrokerTypeOK
  <1>1. ASSUME NEW e \in Event, NEW t \in Trips, Truthful(e, t) PROVE Still(e, t)
    <2>1. e.run \in Runs
      BY DEF Event
    <2>2. /\ pc[e.run] = "done" => pc'[e.run] = "done"
          /\ pc[e.run] = "done" => Final(e.run)' = Final(e.run)
          /\ tripOf'[e.run] = tripOf[e.run]
      BY <1>t, <2>1, ResultsStay
    <2>3. QED BY <1>1, <2>2 DEF Truthful, Final
  <1>2. \A q \in Queues : \A i \in DOMAIN buf[q] : Still(buf[q][i], tripOf'[q[1]])
    BY <1>q, <1>t, <1>1 DEF ToldTruth
  <1>3. \A s \in Streams : last[s] # NoEvent => Still(last[s], watches[s])
    BY <1>t, <1>1 DEF ToldTruth, BrokerTypeOK
  <1>4. \A q \in Queues : \A i \in DOMAIN buf'[q] : Still(buf'[q][i], tripOf'[q[1]])
    <2> SUFFICES ASSUME NEW q \in Queues, NEW i \in DOMAIN buf'[q]
                 PROVE  Still(buf'[q][i], tripOf'[q[1]])
      OBVIOUS
    <2> HIDE DEF Still
    <2>1. CASE UNCHANGED buf
      BY <1>2, <2>1
    <2>2. ASSUME NEW r \in Runs, Publishing(r) PROVE Still(buf'[q][i], tripOf'[q[1]])
      <3>1. PICK events \in Seq(Event) :
              /\ Publish(tripOf[r], events)
              /\ \A k \in DOMAIN events : events[k].name \notin {"trip_complete", "_eof"}
        BY <2>2 DEF Publishing
      <3>2. CASE i \in DOMAIN buf[q] /\ buf'[q][i] = buf[q][i]
        BY <1>2, <3>2
      <3>3. ASSUME NEW k \in DOMAIN events, buf'[q][i] = events[k]
            PROVE  Still(buf'[q][i], tripOf'[q[1]])
        BY <3>1, <3>3 DEF Still
      <3>4. QED BY <1>t, <3>1, <3>2, <3>3, Appended
    <2>3. ASSUME NEW r \in Runs, Announce(r) PROVE Still(buf'[q][i], tripOf'[q[1]])
      <3> DEFINE t == tripOf[r]
      <3> DEFINE events == <<Msg("trip_complete", r, Final(r)), Msg("_eof", r, "none")>>
      <3>1. /\ Publish(t, events)
            /\ pc' = [pc EXCEPT ![r] = "done"]
            /\ UNCHANGED <<tripOf, outcome>>
        BY <2>3 DEF Announce, Step
      <3>2. /\ events \in Seq(Event) /\ DOMAIN events = {1, 2}
            /\ events[1] = [name |-> "trip_complete", run |-> r, status |-> Final(r)]
            /\ events[2].name = "_eof"
        BY AnnounceEvents
      <3> HIDE DEF events
      <3>3. CASE i \in DOMAIN buf[q] /\ buf'[q][i] = buf[q][i]
        BY <1>2, <3>3
      <3>4. ASSUME NEW k \in DOMAIN events, q = queueOf[t], buf'[q][i] = events[k]
            PROVE  Still(buf'[q][i], tripOf'[q[1]])
        <4>1. CASE k = 2
          BY <3>2, <3>4, <4>1 DEF Still
        <4>2. CASE k = 1
          <5>1. tripOf[q[1]] = t
            BY <1>t, <3>4, BrokerConstants DEF QueueOwned
          <5>2. pc'[r] = "done" /\ tripOf'[r] = t /\ tripOf'[q[1]] = t
            BY <1>t, <1>q, <3>1, <5>1 DEF RunTypeOK
          <5>3. buf'[q][i] = [name |-> "trip_complete", run |-> r, status |-> Final(r)]
            BY <3>2, <3>4, <4>2
          <5>4. QED BY <3>1, <5>2, <5>3 DEF Still, Final
        <4>3. QED BY <3>2, <4>1, <4>2
      <3>5. QED BY <1>t, <3>1, <3>2, <3>3, <3>4, Appended
    <2>4. ASSUME NEW s \in Streams, Deliver(s) PROVE Still(buf'[q][i], tripOf'[q[1]])
      <3>1. CASE q = queue[s]
        BY <1>2, <1>t, <2>4, <3>1, Taken
      <3>2. CASE q # queue[s]
        BY <1>2, <1>t, <2>4, <3>2, Taken
      <3>3. QED BY <3>1, <3>2
    <2>5. ASSUME Crash PROVE FALSE
      BY <2>5 DEF Crash, BrokerCrash
    <2>6. ASSUME NEW s \in Streams, NEW t \in Trips,
                 OpenStream(s, t) \/ Subscribe(s) \/ Disconnect(s)
          PROVE  UNCHANGED buf
      BY <2>6 DEF OpenStream, Subscribe, Disconnect
    <2>7. ASSUME NEW r \in Runs, Registering(r) \/ Escape(r) \/ AcceptFails(r)
          PROVE  UNCHANGED buf
      BY <2>7 DEF Registering, Escape, AcceptFails
    <2>8. Trips # {}
      BY <1>t, <1>q
    <2>9. QED BY <1>t, <2>1, <2>2, <2>3, <2>4, <2>5, <2>6, <2>7, <2>8, BrokerSteps
  <1>5. \A s \in Streams : last'[s] # NoEvent => Still(last'[s], watches'[s])
    <2> SUFFICES ASSUME NEW s \in Streams, last'[s] # NoEvent
                 PROVE  Still(last'[s], watches'[s])
      OBVIOUS
    <2> HIDE DEF Still
    <2>1. CASE UNCHANGED <<last, watches>>
      BY <1>3, <2>1
    <2>2. ASSUME NEW o \in Streams, Deliver(o) PROVE Still(last'[s], watches'[s])
      <3>1. CASE last'[s] = last[s]
        BY <1>3, <1>t, <2>2, <3>1, Taken
      <3>2. CASE last'[s] # last[s]
        <4>1. /\ s = o
              /\ at[s] = "attached"
              /\ queue[s] \in Queues
              /\ 1 \in DOMAIN buf[queue[s]]
              /\ last'[s] = buf[queue[s]][1]
              /\ UNCHANGED watches
          BY <1>t, <2>2, <3>2, Taken
        <4>2. tripOf'[queue[s][1]] = watches[s]
          BY <1>q, <4>1 DEF QueueOwned
        <4>3. QED BY <1>2, <4>1, <4>2
      <3>3. QED BY <3>1, <3>2
    <2>3. ASSUME NEW o \in Streams,
                 (\E t \in Trips : OpenStream(o, t)) \/ Subscribe(o) \/ Disconnect(o)
          PROVE  UNCHANGED <<last, watches>>
      BY <2>3 DEF OpenStream, Subscribe, Disconnect
    <2>4. ASSUME NEW r \in Runs, \/ Publishing(r) \/ Registering(r) \/ Announce(r)
                                \/ Escape(r) \/ AcceptFails(r)
          PROVE  UNCHANGED <<last, watches>>
      BY <2>4 DEF Publishing, Registering, Announce, Escape, AcceptFails, Step
    <2>5. ASSUME Crash PROVE UNCHANGED <<last, watches>>
      BY <2>5 DEF Crash, BrokerCrash
    <2>6. QED BY <1>t, <2>1, <2>2, <2>3, <2>4, <2>5, BrokerSteps
  <1>6. QED BY <1>4, <1>5 DEF ToldTruth, Truthful, Final

\* What was told, is shown: the invariant of AnnouncedIsDurable.
ToldInv == QueueOwned /\ SettledLasts /\ ToldTruth

\* A truthful outcome of a run that has settled is the one the trip shows.
LEMMA ToldLasts ==
  ASSUME TypeOK, ToldInv
  PROVE  AnnouncedIsDurable
  <1> SUFFICES ASSUME NEW s \in Streams, last[s] # NoEvent, last[s].name = "trip_complete"
               PROVE  \/ row[watches[s]] \in {last[s].status, "gone"}
                      \/ last[s].status = "complete" /\ \E r \in Runs : prev[r] = last[s].run
    BY DEF AnnouncedIsDurable
  <1>1. last[s].run \in Runs
    BY DEF TypeOK, BrokerTypeOK, Event
  <1>2. /\ pc[last[s].run] = "done"
        /\ tripOf[last[s].run] = watches[s]
        /\ last[s].status = Final(last[s].run)
    BY DEF ToldInv, ToldTruth, Truthful
  <1>3. QED BY <1>1, <1>2 DEF ToldInv, SettledLasts, Superseded

\* At first nothing was told.
LEMMA ToldInit == Init => ToldInv
  BY DEF Init, BrokerInit, ToldInv, QueueOwned, SettledLasts, ToldTruth

\* While database calls do not fail, a client that was told the outcome of a run finds
\* that status in the trip, whatever is refined, deleted or crashes afterwards, and
\* however many viewers there are.
THEOREM AnnouncedLasts ==
  ASSUME MaxFaults = 0 PROVE Spec => []AnnouncedIsDurable
  <1>1. TypeOK /\ SingleWriter /\ AllHistory /\ ToldInv /\ [Next]_vars => ToldInv'
    BY OwnedStep, SettledStep, ToldStep DEF ToldInv
  <1>2. TypeOK /\ ToldInv => AnnouncedIsDurable
    BY ToldLasts
  <1>3. QED BY Typed, OneWriter, HistoryHolds, ToldInit, <1>1, <1>2, PTL DEF Spec
===============================================================================
