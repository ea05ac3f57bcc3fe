---------------------------- MODULE CycleContract -----------------------------
(***************************************************************************)
(* What a cycle of the agents promises run_trip: a bounded number of       *)
(* progress events, a result after whole rounds of four events only, and   *)
(* nothing once it is over.                                                *)
(***************************************************************************)
EXTENDS Naturals

CONSTANT rounds     \* at most this many rounds

VARIABLES
  events,     \* progress events published
  outcome,    \* "none", "ok", "aborted" or "lost"
  items       \* the cycle has handed over items

cvars == <<events, outcome, items>>

\* The first round is announced at once.
Init == events = 1 /\ outcome = "none" /\ items = FALSE

Progress ==
  /\ outcome = "none"
  /\ \E n \in 1..3 : events' = events + n
  /\ events' < 4 * rounds
  /\ UNCHANGED <<outcome, items>>

Complete ==
  /\ outcome = "none"
  /\ \E n \in 1..2 : events' = events + n
  /\ events' % 4 = 0
  /\ events' <= 4 * rounds
  /\ outcome' = "ok"
  /\ items' \in BOOLEAN

\* Items of earlier rounds may be handed over, and only those.
Abort ==
  /\ outcome = "none"
  /\ events' \in {events, events + 1}
  /\ outcome' = "aborted"
  /\ items' \in BOOLEAN
  /\ items' => events >= 3

Lose ==
  /\ outcome = "none"
  /\ outcome' = "lost"
  /\ items' \in BOOLEAN
  /\ UNCHANGED events

Next == Progress \/ Complete \/ Abort \/ Lose

Spec == Init /\ [][Next]_cvars
===============================================================================
