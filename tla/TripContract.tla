----------------------------- MODULE TripContract -----------------------------
(***************************************************************************)
(* What the trips API promises of one trip, whatever the runner does       *)
(* inside: trips.status (core/db/models.py) and the list of its reports.   *)
(*                                                                         *)
(* A trip is worked on by one attempt at a time.  An attempt adds at most  *)
(* one report, and only an attempt that added one may end "complete".  An  *)
(* attempt that is lost leaves the trip "running" for good.                *)
(***************************************************************************)
EXTENDS Naturals, Sequences

CONSTANTS Trips, Runs

VARIABLES
  status,     \* trip -> status a reader sees
  history,    \* trip -> its reports, oldest first
  attempt     \* trip -> "none", "open" or "published": the attempt in flight

cvars == <<status, history, attempt>>

Init ==
  /\ status = [t \in Trips |-> "none"]
  /\ history = [t \in Trips |-> <<>>]
  /\ attempt = [t \in Trips |-> "none"]

Park(t) ==
  /\ status[t] = "none"
  /\ status' = [status EXCEPT ![t] = "clarifying"]
  /\ UNCHANGED <<history, attempt>>

\* A first attempt, or a refinement of a complete trip that has a report.
Start(t) ==
  /\ \/ status[t] \in {"none", "clarifying"}
     \/ status[t] = "complete" /\ history[t] # <<>>
  /\ status' = [status EXCEPT ![t] = "running"]
  /\ attempt' = [attempt EXCEPT ![t] = "open"]
  /\ UNCHANGED history

Publish(t) ==
  /\ status[t] = "running"
  /\ attempt[t] = "open"
  /\ attempt' = [attempt EXCEPT ![t] = "published"]
  /\ \E r \in Runs : history' = [history EXCEPT ![t] = Append(@, r)]
  /\ UNCHANGED status

Finish(t, st) ==
  /\ status[t] = "running"
  /\ \/ st = "complete" /\ attempt[t] = "published"
     \/ st = "aborted" /\ attempt[t] # "none"
  /\ status' = [status EXCEPT ![t] = st]
  /\ attempt' = [attempt EXCEPT ![t] = "none"]
  /\ UNCHANGED history

\* The attempts of some trips end without a word.
Lose(ts) ==
  /\ attempt' = [t \in Trips |-> IF t \in ts THEN "none" ELSE attempt[t]]
  /\ UNCHANGED <<status, history>>

Remove(ts) ==
  /\ status' = [t \in Trips |-> IF t \in ts THEN "gone" ELSE status[t]]
  /\ history' = [t \in Trips |-> IF t \in ts THEN <<>> ELSE history[t]]
  /\ attempt' = [t \in Trips |-> IF t \in ts THEN "none" ELSE attempt[t]]

Next ==
  \/ \E t \in Trips :
       Park(t) \/ Start(t) \/ Publish(t) \/ \E st \in {"complete", "aborted"} : Finish(t, st)
  \/ \E ts \in SUBSET Trips : Lose(ts) \/ Remove(ts)

Spec == Init /\ [][Next]_cvars
===============================================================================
