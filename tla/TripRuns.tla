------------------------------- MODULE TripRuns -------------------------------
(***************************************************************************)
(* The life of a trip: the API handlers that accept work (api/trips.py,    *)
(* api/me.py), the background runs they schedule (run_trip and run_refine  *)
(* in services/trip_runner.py), the rows both of them commit, and the      *)
(* event broker between a run and its SSE streams.                         *)
(*                                                                         *)
(* One process, one event loop: a step is the code between two awaits that *)
(* can suspend.  A database write takes effect when its transaction        *)
(* commits, which is before the coroutine that awaits it resumes; hence    *)
(* "accepted" (row committed, register() not reached) and "settled"        *)
(* (final status committed, trip_complete not yet published).              *)
(***************************************************************************)
EXTENDS TripBroker

CONSTANTS
  NoRun,        \* "no previous report"
  MaxPhases,    \* progress events of one cycle
  MaxFaults,    \* database calls that fail
  MaxCrashes    \* process crashes

ASSUME RunConstants ==
  /\ NoRun \notin Runs
  /\ MaxPhases \in Nat \ {0}
  /\ MaxFaults \in Nat
  /\ MaxCrashes \in Nat

VARIABLES
  row,        \* trips.status as committed ("none": not yet, "gone": deleted)
  reports,    \* trip -> its report rows in creation order, by the run that wrote them
  kind,       \* run -> which coroutine
  tripOf,     \* run -> its trip
  prev,       \* run -> previous_report_id of a refine
  pc,         \* run -> how far it is
  phases,     \* run -> progress events published
  outcome,    \* run -> aborted_reason and report_save_failed, together
  items,      \* run -> whether its item list is non-empty
  extras,     \* run -> what was patched into its report's content
  faults,
  crashes

rowVars == <<row, reports>>
runVars == <<kind, tripOf, prev, pc, phases, outcome, items, extras>>
vars == <<brokerVars, rowVars, runVars, faults, crashes>>

\* "accepted" .. "enriched": the run still owes the trip its final status.
BeforeSave == {"accepted", "scheduled", "begun", "marked", "loaded", "produced"}
AfterSave == {"saved", "planned", "enriched"}
Unsettled == BeforeSave \cup AfterSave
Live == Unsettled \cup {"settled"}

Exists(t) == row[t] \notin {"none", "gone"}

\* The report that readers and refine_trip take: newest created_at first.
Latest(t) == reports[t][Len(reports[t])]

RunTypeOK ==
  /\ row \in [Trips -> {"none", "clarifying", "running", "complete", "aborted", "gone"}]
  /\ reports \in [Trips -> Seq(Runs)]
  /\ kind \in [Runs -> {"none", "cycle", "refine"}]
  /\ tripOf \in [Runs -> Trips]
  /\ prev \in [Runs -> Runs \cup {NoRun}]
  /\ pc \in [Runs -> {"idle", "done", "raised", "lost"} \cup Live]
  /\ phases \in [Runs -> 0..MaxPhases]
  /\ outcome \in [Runs -> {"none", "ok", "aborted", "blank", "failed"}]
  /\ items \in [Runs -> BOOLEAN]
  /\ extras \in [Runs -> SUBSET {"day_plan", "translations"}]
  /\ faults \in 0..MaxFaults
  /\ crashes \in 0..MaxCrashes

TypeOK == BrokerTypeOK /\ RunTypeOK

Init ==
  /\ BrokerInit
  /\ row = [t \in Trips |-> "none"]
  /\ reports = [t \in Trips |-> <<>>]
  /\ kind = [r \in Runs |-> "none"]
  /\ tripOf \in [Runs -> Trips]
  /\ prev = [r \in Runs |-> NoRun]
  /\ pc = [r \in Runs |-> "idle"]
  /\ phases = [r \in Runs |-> 0]
  /\ outcome = [r \in Runs |-> "none"]
  /\ items = [r \in Runs |-> FALSE]
  /\ extras = [r \in Runs |-> {}]
  /\ faults = 0
  /\ crashes = 0

-------------------------------------------------------------------------------
(* Request handlers.                                                       *)

\* The clarifier has questions: the trip is parked, nothing is scheduled.
CreateParked(t) ==
  /\ row[t] = "none"
  /\ row' = [row EXCEPT ![t] = "clarifying"]
  /\ UNCHANGED <<brokerVars, reports, runVars, faults, crashes>>

\* A handler has committed "running" and will register and schedule run r.
Accept(r, t, k, p) ==
  /\ pc[r] = "idle"
  /\ tripOf[r] = t
  /\ pc' = [pc EXCEPT ![r] = "accepted"]
  /\ kind' = [kind EXCEPT ![r] = k]
  /\ prev' = [prev EXCEPT ![r] = p]
  /\ row' = [row EXCEPT ![t] = "running"]
  /\ UNCHANGED <<brokerVars, reports, tripOf, phases, outcome, items, extras, faults, crashes>>

\* create_trip's fast path: the clarifier had no question.
CreateRunning(t, r) ==
  /\ row[t] = "none"
  /\ Accept(r, t, "cycle", NoRun)

\* clarify_trip and skip_clarify_trip: the status is checked and flipped in one
\* transaction that holds the row lock.
Clarify(t, r) ==
  /\ row[t] = "clarifying"
  /\ Accept(r, t, "cycle", NoRun)

\* Mutations of Refine: the busy check or the aborted check is missing, or the
\* report query is ordered the wrong way.
RefineBusy(t, r) ==
  /\ Exists(t)
  /\ row[t] # "aborted"
  /\ reports[t] # <<>>
  /\ Accept(r, t, "refine", Latest(t))

RefineAborted(t, r) ==
  /\ Exists(t)
  /\ row[t] # "running"
  /\ reports[t] # <<>>
  /\ Accept(r, t, "refine", Latest(t))

RefineOldest(t, r) ==
  /\ Exists(t)
  /\ row[t] \notin {"running", "aborted"}
  /\ reports[t] # <<>>
  /\ Accept(r, t, "refine", reports[t][1])

\* refine_trip: status check, choice of the latest report and flip to "running"
\* under the row lock.
Refine(t, r) ==
  /\ Exists(t)
  /\ row[t] \notin {"running", "aborted"}
  /\ reports[t] # <<>>
  /\ Accept(r, t, "refine", Latest(t))

\* After the commit: register(), background.add_task(), return.
Respond(r) ==
  /\ pc[r] = "accepted"
  /\ Register(tripOf[r], <<r, "handler">>)
  /\ pc' = [pc EXCEPT ![r] = "scheduled"]
  /\ UNCHANGED <<buf, streamVars, rowVars, kind, tripOf, prev, phases, outcome, items,
                 extras, faults, crashes>>

\* delete_trip, under the row lock; reports go by cascade.
Delete(t) ==
  /\ Exists(t)
  /\ row[t] # "running"
  /\ row' = [row EXCEPT ![t] = "gone"]
  /\ reports' = [reports EXCEPT ![t] = <<>>]
  /\ UNCHANGED <<brokerVars, runVars, faults, crashes>>

\* delete_me: the account and every trip of it, running or not.  Nothing can be
\* requested for them afterwards.
DeleteAccount ==
  /\ row' = [t \in Trips |-> "gone"]
  /\ reports' = [t \in Trips |-> <<>>]
  /\ UNCHANGED <<brokerVars, runVars, faults, crashes>>

-------------------------------------------------------------------------------
(* A run.                                                                  *)

\* Run r goes from one await to the next, publishing `events` on the way.
Step(r, from, to, events) ==
  /\ pc[r] = from
  /\ pc' = [pc EXCEPT ![r] = to]
  /\ Publish(tripOf[r], events)
  /\ UNCHANGED <<streamVars, kind, tripOf, prev>>

\* _set_status(): a missing row is logged, not an error.
SetStatus(t, status) ==
  row' = [row EXCEPT ![t] = IF Exists(t) THEN status ELSE @]

\* Entry of run_trip / run_refine: register() again, then the first await.
Begin(r) ==
  /\ pc[r] = "scheduled"
  /\ Register(tripOf[r], <<r, "runner">>)
  /\ pc' = [pc EXCEPT ![r] = "begun"]
  /\ UNCHANGED <<buf, streamVars, rowVars, kind, tripOf, prev, phases, outcome, items,
                 extras, faults, crashes>>

\* _set_status("running") returns; "started" (and "refine_started") go out.
MarkRunning(r) ==
  /\ Step(r, "begun", "marked",
          <<Msg("started", r, "none")>> \o
            (IF kind[r] = "refine" THEN <<Msg("refine_started", r, "none")>> ELSE <<>>))
  /\ SetStatus(tripOf[r], "running")
  /\ UNCHANGED <<queueOf, reports, phases, outcome, items, extras, faults, crashes>>

\* Profile, companions and dates; for a refine the previous report's content.
Load(r) ==
  /\ Step(r, "marked", "loaded", <<>>)
  /\ UNCHANGED <<queueOf, rowVars, phases, outcome, items, extras, faults, crashes>>

\* Mutation of Phase: the depth cap is missing.
PhaseUncapped(r) ==
  /\ kind[r] = "cycle"
  /\ Step(r, "loaded", "loaded", <<Msg("progress", r, "none")>>)
  /\ phases' = [phases EXCEPT ![r] = @ + 1]
  /\ UNCHANGED <<queueOf, rowVars, outcome, items, extras, faults, crashes>>

\* A pump of run_trip tees one event into the queue.
Phase(r) ==
  /\ kind[r] = "cycle"
  /\ phases[r] < MaxPhases
  /\ Step(r, "loaded", "loaded", <<Msg("progress", r, "none")>>)
  /\ phases' = [phases EXCEPT ![r] = @ + 1]
  /\ UNCHANGED <<queueOf, rowVars, outcome, items, extras, faults, crashes>>

\* run_cycle or refine_phase is over with outcome o and item list i.
Produce(r, o, i, events) ==
  /\ Step(r, "loaded", "produced", events)
  /\ outcome' = [outcome EXCEPT ![r] = o]
  /\ items' = [items EXCEPT ![r] = i]
  /\ UNCHANGED <<queueOf, rowVars, phases, extras, faults, crashes>>

CycleOk(r) ==
  /\ kind[r] = "cycle"
  /\ phases[r] > 0
  /\ \E i \in BOOLEAN : Produce(r, "ok", i, <<>>)

\* CycleAbortedError (partial items) or any other exception (none).
CycleAbort(r) ==
  /\ kind[r] = "cycle"
  /\ \E i \in BOOLEAN : Produce(r, "aborted", i, <<Msg("cycle_aborted", r, "none")>>)

\* The refiner answered; an answer without items passes the schema (an unparsable
\* one raises, which is RefineAbort).
RefineOk(r) ==
  /\ kind[r] = "refine"
  /\ \E i \in BOOLEAN : Produce(r, "ok", i, <<Msg("progress", r, "none")>>)

\* The refiner raised; "blank" when the exception has no text, so that aborted_reason
\* is the empty string.
RefineAbort(r) ==
  /\ kind[r] = "refine"
  /\ \E o \in {"aborted", "blank"} :
       Produce(r, o, FALSE, <<Msg("cycle_aborted", r, "none")>>)

\* run_trip always tries to save; run_refine tests `not aborted_reason`, which
\* the empty string passes.
Saves(r) == kind[r] = "cycle" \/ outcome[r] # "aborted"

\* _save_report / _save_refine_report, the retries included.  Without the trip's
\* row the foreign key fails every attempt.
SaveReport(r) ==
  LET t == tripOf[r]
      stored == Saves(r) /\ Exists(t)
  IN
  /\ Step(r, "produced", "saved", <<>>)
  /\ reports' = [reports EXCEPT ![t] = IF stored THEN Append(@, r) ELSE @]
  /\ outcome' = [outcome EXCEPT ![r] = IF Saves(r) /\ ~stored THEN "failed" ELSE @]
  /\ UNCHANGED <<queueOf, row, phases, items, extras, faults, crashes>>

\* Mutation of Final: a report that could not be saved does not matter.
FinalUnsaved(r) == IF outcome[r] \in {"ok", "failed"} THEN "complete" ELSE "aborted"

\* final_status.
Final(r) == IF outcome[r] = "ok" THEN "complete" ELSE "aborted"

\* A patch of the stored report's content; nothing to patch once it is deleted.
Patch(r, part) ==
  extras' = [extras EXCEPT ![r] = IF Exists(tripOf[r]) THEN @ \cup {part} ELSE @]

\* Mutation of PlanDays: the status is flipped before the report is finished.
PlanDaysLate(r) ==
  /\ Step(r, "saved", "planned", <<>>)
  /\ SetStatus(tripOf[r], Final(r))
  /\ \/ Final(r) = "complete" /\ items[r] /\ Patch(r, "day_plan")
     \/ UNCHANGED extras
  /\ UNCHANGED <<queueOf, reports, phases, outcome, items, faults, crashes>>

\* The itinerary: best effort, only with items and a successful outcome.
PlanDays(r) ==
  /\ Step(r, "saved", "planned", <<>>)
  /\ \/ Final(r) = "complete" /\ items[r] /\ Patch(r, "day_plan")
     \/ UNCHANGED extras
  /\ UNCHANGED <<queueOf, rowVars, phases, outcome, items, faults, crashes>>

\* Translations: best effort, the same conditions.
Translate(r) ==
  /\ Step(r, "planned", "enriched", <<>>)
  /\ \/ Final(r) = "complete" /\ items[r] /\ Patch(r, "translations")
     \/ UNCHANGED extras
  /\ UNCHANGED <<queueOf, rowVars, phases, outcome, items, faults, crashes>>

\* Mutation of Settle: only success is recorded.
SettleSuccess(r) ==
  /\ Step(r, "enriched", "settled", <<>>)
  /\ IF Final(r) = "complete" THEN SetStatus(tripOf[r], "complete") ELSE UNCHANGED row
  /\ UNCHANGED <<queueOf, reports, phases, outcome, items, extras, faults, crashes>>

\* _set_status(final_status) commits.
Settle(r) ==
  /\ Step(r, "enriched", "settled", <<>>)
  /\ SetStatus(tripOf[r], Final(r))
  /\ UNCHANGED <<queueOf, reports, phases, outcome, items, extras, faults, crashes>>

\* Mutations of Announce: before the status is committed, sentinel first, or no
\* sentinel at all.
AnnounceEarly(r) ==
  /\ Step(r, "enriched", "done",
          <<Msg("trip_complete", r, Final(r)), Msg("_eof", r, "none")>>)
  /\ DropQueue(tripOf[r])
  /\ UNCHANGED <<rowVars, phases, outcome, items, extras, faults, crashes>>

AnnounceSwapped(r) ==
  /\ Step(r, "settled", "done",
          <<Msg("_eof", r, "none"), Msg("trip_complete", r, Final(r))>>)
  /\ DropQueue(tripOf[r])
  /\ UNCHANGED <<rowVars, phases, outcome, items, extras, faults, crashes>>

AnnounceNoEof(r) ==
  /\ Step(r, "settled", "done", <<Msg("trip_complete", r, Final(r))>>)
  /\ DropQueue(tripOf[r])
  /\ UNCHANGED <<rowVars, phases, outcome, items, extras, faults, crashes>>

\* trip_complete, _EOF and the finally clause: no await in between suspends.
Announce(r) ==
  /\ Step(r, "settled", "done",
          <<Msg("trip_complete", r, Final(r)), Msg("_eof", r, "none")>>)
  /\ DropQueue(tripOf[r])
  /\ UNCHANGED <<rowVars, phases, outcome, items, extras, faults, crashes>>

-------------------------------------------------------------------------------
(* Failing database calls and crashes.                                     *)

Fault == faults < MaxFaults /\ faults' = faults + 1

\* The awaits of a run outside its inner try blocks: the first _set_status, the
\* loads, and _load_trip_dates of a refine that succeeded.
Unguarded(r) ==
  \/ pc[r] \in {"begun", "marked"}
  \/ pc[r] = "saved" /\ kind[r] = "refine" /\ Final(r) = "complete" /\ items[r]

\* Such a call raises: the finally clause drops the queue and the coroutine ends.
Escape(r) ==
  /\ Unguarded(r)
  /\ Fault
  /\ pc' = [pc EXCEPT ![r] = "raised"]
  /\ DropQueue(tripOf[r])
  /\ UNCHANGED <<buf, streamVars, rowVars, kind, tripOf, prev, phases, outcome, items,
                 extras, crashes>>

\* The commit of a handler took effect but its answer is lost: the handler fails
\* with the row already "running" and schedules nothing.
AcceptFails(r) ==
  /\ pc[r] = "accepted"
  /\ Fault
  /\ pc' = [pc EXCEPT ![r] = "lost"]
  /\ UNCHANGED <<brokerVars, rowVars, kind, tripOf, prev, phases, outcome, items,
                 extras, crashes>>

\* Saving the report raises, possibly after the row was committed: the trip will
\* be aborted.
SaveFails(r) ==
  LET t == tripOf[r] IN
  /\ Saves(r)
  /\ Fault
  /\ Step(r, "produced", "saved", <<>>)
  /\ outcome' = [outcome EXCEPT ![r] = "failed"]
  /\ \/ Exists(t) /\ reports' = [reports EXCEPT ![t] = Append(@, r)]
     \/ UNCHANGED reports
  /\ UNCHANGED <<queueOf, row, phases, items, extras, crashes>>

\* The final _set_status fails under contextlib.suppress: the run goes on.
SettleFails(r) ==
  /\ Fault
  /\ Step(r, "enriched", "settled", <<>>)
  /\ UNCHANGED <<queueOf, rowVars, phases, outcome, items, extras, crashes>>

\* The process dies and restarts; nothing resumes the runs.
Crash ==
  /\ crashes < MaxCrashes
  /\ crashes' = crashes + 1
  /\ BrokerCrash
  /\ pc' = [r \in Runs |-> IF pc[r] \in Live THEN "lost" ELSE pc[r]]
  /\ UNCHANGED <<rowVars, kind, tripOf, prev, phases, outcome, items, extras, faults>>

-------------------------------------------------------------------------------
Handlers ==
  \/ \E t \in Trips : CreateParked(t) \/ Delete(t)
  \/ \E t \in Trips, r \in Runs : CreateRunning(t, r) \/ Clarify(t, r) \/ Refine(t, r)
  \/ DeleteAccount

RunStep(r) ==
  \/ Respond(r) \/ Begin(r) \/ MarkRunning(r) \/ Load(r) \/ Phase(r)
  \/ CycleOk(r) \/ CycleAbort(r) \/ RefineOk(r) \/ RefineAbort(r)
  \/ SaveReport(r) \/ PlanDays(r) \/ Translate(r) \/ Settle(r) \/ Announce(r)

FaultStep(r) == Escape(r) \/ AcceptFails(r) \/ SaveFails(r) \/ SettleFails(r)

Viewer(s) ==
  \/ (\E t \in Trips : Exists(t) /\ OpenStream(s, t)) /\ UNCHANGED <<rowVars, runVars, faults, crashes>>
  \/ (Subscribe(s) \/ Deliver(s) \/ Disconnect(s)) /\ UNCHANGED <<rowVars, runVars, faults, crashes>>

Next ==
  \/ Handlers
  \/ \E r \in Runs : RunStep(r) \/ FaultStep(r)
  \/ \E s \in Streams : Viewer(s)
  \/ Crash

Spec == Init /\ [][Next]_vars

\* The event loop runs every ready task, and each await of a run and of a handler
\* returns or raises: phases carry ctx.phase_timeout, database calls the statement
\* timeout, the other model calls the client's own timeout.  Requests are the
\* user's choice and are not fair; neither are failures.
Fairness ==
  /\ \A r \in Runs : WF_vars(RunStep(r))
  /\ \A s \in Streams : WF_vars((Subscribe(s) \/ Deliver(s)) /\ UNCHANGED <<rowVars, runVars, faults, crashes>>)

FairSpec == Spec /\ Fairness

-------------------------------------------------------------------------------
(* Safety.                                                                 *)

\* At most one run of a trip still owes it a final status, and until it is paid
\* the row stays "running" (or is deleted): the row lock of the handlers and the
\* status checks serialise all work on a trip, including crashes and failures.
SingleWriter ==
  /\ \A r, o \in Runs :
       pc[r] \in Unsettled /\ pc[o] \in Unsettled /\ tripOf[r] = tripOf[o] => r = o
  /\ \A r \in Runs : pc[r] \in Unsettled => row[tripOf[r]] \in {"running", "gone"}

\* A trip shown as "complete" has a report, and the one shown is of a run that
\* succeeded (get_trip and refine_trip read the latest row of a complete trip).
CompleteHasReport ==
  \A t \in Trips : row[t] = "complete" =>
    reports[t] # <<>> /\ outcome[Latest(t)] = "ok"

\* The reports of a trip form one line: the first is of a full cycle, every other
\* refines the one right before it, so no refinement is lost from the history
\* that list_trip_reports shows.
LinearHistory ==
  \A t \in Trips : \A i \in DOMAIN reports[t] :
    LET r == reports[t][i] IN
    /\ tripOf[r] = t
    /\ IF i = 1 THEN kind[r] = "cycle"
                ELSE kind[r] = "refine" /\ prev[r] = reports[t][i - 1]

\* Why the two hold.  A report's run has got that far ...
Written ==
  \A t \in Trips : \A i \in DOMAIN reports[t] :
    pc[reports[t][i]] \notin BeforeSave \cup {"idle"}

\* ... a trip that was never run, or is deleted, has no report ...
UnworkedIsEmpty ==
  \A t \in Trips : row[t] \in {"none", "clarifying", "gone"} => reports[t] = <<>>

\* ... the report that a refine has read stays the latest until the refine stores
\* its own, many awaits later ...
BaseIsLatest ==
  \A r \in Runs : pc[r] \in BeforeSave /\ row[tripOf[r]] # "gone" =>
    \/ kind[r] = "cycle" /\ reports[tripOf[r]] = <<>>
    \/ kind[r] = "refine" /\ reports[tripOf[r]] # <<>> /\ prev[r] = Latest(tripOf[r])

\* ... and the report of a successful run stays the latest until the run is over.
SavedIsLatest ==
  \A r \in Runs : pc[r] \in AfterSave /\ outcome[r] = "ok" /\ row[tripOf[r]] # "gone" =>
    reports[tripOf[r]] # <<>> /\ Latest(tripOf[r]) = r

\* The strengthening that makes CompleteHasReport and LinearHistory inductive:
\* run_trip and run_refine read the row and its reports once and never look again.
HistoryInv == Written /\ UnworkedIsEmpty /\ BaseIsLatest /\ SavedIsLatest

\* A queue that a stream waits on will get, or already holds, the event that ends
\* the stream.  Holds for one viewer per trip and a database that answers.
NoOrphanStream ==
  \A s \in Streams : at[s] = "attached" =>
    \/ \E i \in DOMAIN buf[queue[s]] : buf[queue[s]][i].name = "_eof"
    \/ /\ queueOf[watches[s]] = queue[s]
       /\ \E r \in Runs : pc[r] \in Live /\ tripOf[r] = watches[s]

\* A client that was told trip_complete and refetches the trip finds the status
\* it was told, unless that run's report is being refined or the trip is gone.
AnnouncedIsDurable ==
  \A s \in Streams : last[s] # NoEvent /\ last[s].name = "trip_complete" =>
    \/ row[watches[s]] \in {last[s].status, "gone"}
    \/ last[s].status = "complete" /\ \E r \in Runs : prev[r] = last[s].run

\* The last thing a stream forwards before the server ends it is the outcome.
EndsWithOutcome ==
  \A s \in Streams :
    at[s] = "ended" /\ last[s] # NoEvent => last[s].name = "trip_complete"

-------------------------------------------------------------------------------
(* What comments and tests say and the code does not do (violation runs).  *)

\* run_trip: "Errors are caught + recorded as a status flip + a final SSE event,
\* NEVER re-raised".
ErrorsRecorded ==
  \A r \in Runs : pc[r] \in {"done", "raised"} /\ row[tripOf[r]] = "running" =>
    \E o \in Runs : pc[o] \in Unsettled /\ tripOf[o] = tripOf[r]

\* refiner.py: "the caller will treat the empty list as a no-op refine": the report
\* shown after it is not the empty one.
EmptyRefineIsNoOp ==
  \A t \in Trips : reports[t] # <<>> =>
    ~(kind[Latest(t)] = "refine" /\ outcome[Latest(t)] = "ok" /\ ~items[Latest(t)])

\* test_run_refine_aborts_on_agent_failure: "No report row should have been written";
\* the report shown after an aborted refine is not that refine's.
AbortedRefineKeepsLatest ==
  \A t \in Trips : reports[t] # <<>> =>
    ~(kind[Latest(t)] = "refine" /\ outcome[Latest(t)] \in {"aborted", "blank"})

-------------------------------------------------------------------------------
(* Action properties.                                                      *)

\* What a complete trip shows does not change under the reader: no report is added
\* and none of its reports is patched while the status stays "complete".
ReportFrozen ==
  [][\A t \in Trips : row[t] = "complete" /\ row'[t] = "complete" =>
       /\ reports'[t] = reports[t]
       /\ \A i \in DOMAIN reports[t] : extras'[reports[t][i]] = extras[reports[t][i]]]_vars

\* The trips as their readers see them follow the contract.
Attempt(t) ==
  IF row[t] = "running" /\ \E r \in Runs : pc[r] \in Unsettled /\ tripOf[r] = t
    THEN IF \E r \in Runs : /\ pc[r] \in AfterSave
                            /\ tripOf[r] = t
                            /\ \E i \in DOMAIN reports[t] : reports[t][i] = r
           THEN "published" ELSE "open"
    ELSE "none"

Contract == INSTANCE TripContract WITH
  status <- row, history <- reports, attempt <- [t \in Trips |-> Attempt(t)]

ImplementsContract == Contract!Spec

-------------------------------------------------------------------------------
(* Liveness.                                                               *)

\* A trip that is running does not stay so.
RunningSettles == \A t \in Trips : row[t] = "running" ~> row[t] # "running"

\* A stream that is open ends.
StreamsEnd == \A s \in Streams : at[s] \in {"authorised", "attached"} ~> at[s] \in {"ended", "cut"}
===============================================================================
