------------------------------ MODULE AgentCycle ------------------------------
(***************************************************************************)
(* One cycle of the agents: _step_cycle() and run_cycle() of               *)
(* core/agents/framework/cycle.py, the controller's rules                  *)
(* (agents/controller.py), and the pumps with which run_trip drives them.  *)
(*                                                                         *)
(* A step runs from the end of one awaited phase to the start of the next: *)
(* what a generator yields in between is consumed at once.  The framework  *)
(* and the pumps keep a record of the same events each; only the latter is *)
(* published and stored with the report.  Items are counted by             *)
(* classification, which is all the controller looks at.                   *)
(***************************************************************************)
EXTENDS Integers, Sequences

CONSTANTS
  MaxDepth,     \* AgentContext.max_depth
  MaxNew        \* items of one classification that a joiner round adds

ASSUME CycleConstants == MaxDepth \in Nat \ {0} /\ MaxNew \in Nat

Classes == {"local_gem", "tourist_trap", "neutral", "insufficient"}

MinLocalGems == 5
MinTouristTraps == 3
MinUsefulItems == 5

VARIABLES
  phase,      \* the phase being awaited, or "over"
  depth,      \* ctx.depth
  acc,        \* classification -> number of accumulated items
  summary,    \* ctx.summary, as the round that wrote it (0: empty)
  decision,   \* last_decision of run_cycle
  trace,      \* events the framework has yielded
  tee,        \* events run_trip has published and will store
  result      \* how run_cycle came back

vars == <<phase, depth, acc, summary, decision, trace, tee, result>>

Phases == {"producer", "joiner", "controller"}
Ev(name, d) == [name |-> name, depth |-> d]
EvNames == {"iteration_start", "cycle_aborted", "cycle_complete"} \cup Phases
NoItems == [c \in Classes |-> 0]

CycleTypeOK ==
  /\ phase \in Phases \cup {"over"}
  /\ depth \in 0..MaxDepth
  /\ acc \in [Classes -> Nat]
  /\ summary \in 0..MaxDepth
  /\ decision \in [should_continue : BOOLEAN, summary : 0..MaxDepth]
  /\ trace \in Seq([name : EvNames, depth : 0..MaxDepth])
  /\ tee \in Seq([name : EvNames, depth : 0..MaxDepth])
  /\ result \in {"none", "complete", "aborted", "raised", "cancelled"}

\* The first round has started; last_decision is the placeholder.
Init ==
  /\ phase = "producer"
  /\ depth = 0
  /\ acc = NoItems
  /\ summary = 0
  /\ decision = [should_continue |-> FALSE, summary |-> 0]
  /\ trace = <<Ev("iteration_start", 0)>>
  /\ tee = <<Ev("iteration_start", 0)>>
  /\ result = "none"

-------------------------------------------------------------------------------
\* The cycle ends as `res`; the framework and the pumps record these last events.
End(res, framework, pumps) ==
  /\ phase' = "over"
  /\ result' = res
  /\ trace' = trace \o framework
  /\ tee' = tee \o pumps

\* The producer answered; no candidates is fatal.
Produced(found) ==
  /\ phase = "producer"
  /\ LET ev == Ev("producer", depth)
         aborted == Ev("cycle_aborted", depth)
     IN IF found
          THEN /\ phase' = "joiner"
               /\ trace' = Append(trace, ev)
               /\ tee' = Append(tee, ev)
               /\ UNCHANGED result
          ELSE End("aborted", <<ev, aborted>>, <<ev, aborted>>)
  /\ UNCHANGED <<depth, acc, summary, decision>>

Useful(a) == a["local_gem"] + a["tourist_trap"] + a["neutral"]

\* Mutation of Rule: sparse evidence stops the search.
RuleSparseStops(a) ==
  CASE Useful(a) >= MinUsefulItems                   -> "stop"
    [] Useful(a) < MinUsefulItems /\ a["insufficient"] > Useful(a) -> "stop"
    [] OTHER                                         -> "ask"

\* _rule_decision(): continue, stop, or ask the model.  (More than half
\* insufficient is more insufficient than useful.)
Rule(a) ==
  IF Useful(a) + a["insufficient"] = 0 THEN "continue"
  ELSE IF a["local_gem"] >= MinLocalGems /\ a["tourist_trap"] >= MinTouristTraps THEN "stop"
  ELSE IF Useful(a) >= MinUsefulItems THEN "stop"
  ELSE IF a["insufficient"] > Useful(a) THEN "continue"
  ELSE "ask"

\* Mutation of Verdict: the cap is compared before the round is counted.
VerdictLateCap(go, s, evs) ==
  LET said == Append(evs, Ev("controller", depth))
      more == Append(said, Ev("iteration_start", depth + 1))
  IN
  /\ decision' = [should_continue |-> go, summary |-> summary]
  /\ summary' = s
  /\ depth' = IF go THEN depth + 1 ELSE depth
  /\ IF go /\ depth < MaxDepth
       THEN /\ phase' = "producer"
            /\ trace' = trace \o more
            /\ tee' = tee \o more
            /\ UNCHANGED result
       ELSE End("complete", Append(said, Ev("cycle_complete", depth')), said)

\* The controller's decision (go, with summary s), after the events evs of the same
\* step: stop, stop at the depth cap, or start the next round.  The decision is
\* recorded when its event is yielded, before ctx.summary takes the new summary.
Verdict(go, s, evs) ==
  LET said == Append(evs, Ev("controller", depth))
      more == Append(said, Ev("iteration_start", depth + 1))
  IN
  /\ decision' = [should_continue |-> go, summary |-> summary]
  /\ summary' = s
  /\ depth' = IF go THEN depth + 1 ELSE depth
  /\ IF go /\ depth + 1 < MaxDepth
       THEN /\ phase' = "producer"
            /\ trace' = trace \o more
            /\ tee' = tee \o more
            /\ UNCHANGED result
       ELSE End("complete", Append(said, Ev("cycle_complete", depth')), said)

\* The joiner answered with the items `new`.  A rule decides without suspending; the
\* model has to be awaited.
Joined(new) ==
  LET a == [c \in Classes |-> acc[c] + new[c]]
      ev == Ev("joiner", depth)
  IN
  /\ phase = "joiner"
  /\ acc' = a
  /\ IF Rule(a) = "ask"
       THEN /\ phase' = "controller"
            /\ trace' = Append(trace, ev)
            /\ tee' = Append(tee, ev)
            /\ UNCHANGED <<depth, summary, decision, result>>
       ELSE Verdict(Rule(a) = "continue", summary, <<ev>>)

\* _llm_decision(): any verdict, with a summary or (empty, or unparsable) the old one.
Decided(go, s) ==
  /\ phase = "controller"
  /\ s \in {summary, depth + 1}
  /\ Verdict(go, s, <<>>)
  /\ UNCHANGED acc

\* Mutations of TimedOut: the controller is awaited without a timeout; the stream is
\* not told.
TimedOutButController ==
  /\ phase \in {"producer", "joiner"}
  /\ End("aborted", <<Ev("cycle_aborted", depth)>>, <<Ev("cycle_aborted", depth)>>)
  /\ UNCHANGED <<depth, acc, summary, decision>>

TimedOutSilently ==
  /\ phase # "over"
  /\ End("aborted", <<Ev("cycle_aborted", depth)>>, <<>>)
  /\ UNCHANGED <<depth, acc, summary, decision>>

\* The awaited phase exceeds ctx.phase_timeout.
TimedOut ==
  /\ phase # "over"
  /\ End("aborted", <<Ev("cycle_aborted", depth)>>, <<Ev("cycle_aborted", depth)>>)
  /\ UNCHANGED <<depth, acc, summary, decision>>

\* The awaited phase raises: run_cycle passes it on, run_trip says "cycle_aborted".
Raised ==
  /\ phase # "over"
  /\ End("raised", <<>>, <<Ev("cycle_aborted", depth)>>)
  /\ UNCHANGED <<depth, acc, summary, decision>>

\* The task is cancelled (shutdown): run_trip does not catch that.
Cancelled ==
  /\ phase # "over"
  /\ End("cancelled", <<Ev("cycle_aborted", depth)>>, <<>>)
  /\ UNCHANGED <<depth, acc, summary, decision>>

Next ==
  \/ \E found \in BOOLEAN : Produced(found)
  \/ \E new \in [Classes -> 0..MaxNew] : Joined(new)
  \/ \E go \in BOOLEAN, s \in 0..MaxDepth : Decided(go, s)
  \/ TimedOut
  \/ Raised
  \/ Cancelled

Spec == Init /\ [][Next]_vars

\* A phase may hang, but each is awaited under asyncio.wait_for with run_trip's 120
\* seconds: a round's phase ends, if only by its timeout.
FairSpec ==
  /\ Spec
  /\ \A p \in Phases, d \in 0..MaxDepth : WF_vars(phase = p /\ depth = d /\ TimedOut)

\* What run_trip stores: the partial result travels in the CycleAbortedError only.
Saved == IF result = "raised" THEN NoItems ELSE acc

-------------------------------------------------------------------------------
(* Properties.                                                             *)

\* The two records agree: the events published to the stream and stored with the
\* report are those the framework yielded, but for the last one: "cycle_complete"
\* is the framework's alone, and so is the news of a cancellation, while run_trip
\* alone tells that a phase raised.
RecordsAgree ==
  LET aborted == Ev("cycle_aborted", depth) IN
  /\ result \in {"none", "aborted"} => trace = tee
  /\ result = "complete" => trace = Append(tee, Ev("cycle_complete", depth))
  /\ result = "raised" => tee = Append(trace, aborted)
  /\ result = "cancelled" => trace = Append(tee, aborted)

\* What may follow an event in the trace.
Follows(e, f) ==
  \/ f.depth = e.depth /\ e.name # "cycle_complete" /\ f.name = "cycle_aborted"
  \/ f.depth = e.depth /\ <<e.name, f.name>> \in
       {<<"iteration_start", "producer">>, <<"producer", "joiner">>,
        <<"joiner", "controller">>, <<"controller", "cycle_complete">>}
  \/ f.depth = e.depth + 1 /\ e.name = "controller" /\
       f.name \in {"iteration_start", "cycle_complete"}

\* The events of s are in an order that a cycle allows; none follows an ending one,
\* and no round starts at the depth cap.
InOrder(s) ==
  /\ \A i \in 1..(Len(s) - 1) :
       /\ s[i].name \notin {"cycle_aborted", "cycle_complete"}
       /\ Follows(s[i], s[i + 1])
  /\ \A i \in 1..Len(s) : s[i].depth = MaxDepth => s[i].name = "cycle_complete"

\* A consumer of the stream sees the rounds in order, each with its phases in order
\* and at most once, no round at or beyond the depth cap, and nothing after the event
\* that ends the cycle.
RoundsInOrder == InOrder(trace)

\* A cycle completes before the depth cap only on evidence: it has usable items, and
\* enough of them or at least as many as undecided ones.
StopsOnEvidence ==
  result = "complete" /\ depth < MaxDepth =>
    /\ Useful(acc) > 0
    /\ Useful(acc) >= MinUsefulItems \/ Useful(acc) >= acc["insufficient"]

\* A cycle ends: no more than MaxDepth rounds, each phase bounded by its timeout.
CycleEnds == <>(phase = "over")

\* What run_trip relies on, with progress events counted as TripRuns counts them.
Contract == INSTANCE CycleContract WITH
  rounds <- MaxDepth,
  events <- IF result \in {"aborted", "raised"} THEN Len(tee) - 1 ELSE Len(tee),
  outcome <- CASE result = "none" -> "none"
               [] result = "complete" -> "ok"
               [] result \in {"aborted", "raised"} -> "aborted"
               [] result = "cancelled" -> "lost",
  items <- result # "none" /\ Saved # NoItems

ImplementsContract == Contract!Spec

-------------------------------------------------------------------------------
(* What docs say and the code does not do (violation runs).                *)

\* run_trip: "Try to recover items from the partial-result carrier"; _llm_decision:
\* "LLM output unparseable; defaulting to stop".  Items joined in earlier phases are
\* stored although a later phase fails.
PartialItemsKept == result \in {"aborted", "raised"} => Saved = acc
===============================================================================
