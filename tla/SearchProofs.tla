----------------------------- MODULE SearchProofs -----------------------------
(***************************************************************************)
(* Theorems about XhsSearch and the browser it shares, for any number of   *)
(* concurrent calls, queries, posts and retries.                           *)
(***************************************************************************)
EXTENDS XhsSearch, FiniteSetTheorems, TLAPS

USE BrowserConstants DEF Doors, Visiting

-------------------------------------------------------------------------------
(* Types.                                                                  *)

Stops == Visiting \cup {"idle", "prefer", "resume", "store", "lookup", "index", "fixture",
                        "done", "cancelled"}

\* What the proofs need to know of the values.
Shape ==
  /\ pc \in [Calls -> Stops]
  /\ door \in [Calls -> Doors]
  /\ stage \in [Calls -> {"live", "refresh", "index"}]
  /\ lock \in [Doors -> Calls \cup {NoCall}]
  /\ profile \in BOOLEAN /\ driver \in BOOLEAN
  /\ drivers \in Nat /\ leaks \in Nat /\ cancels \in Nat
  /\ got = [c \in Calls |-> got[c]]
  /\ kept = [c \in Calls |-> kept[c]]
  /\ answer = [c \in Calls |-> answer[c]]

\* A step of a visit.
Visits(c) ==
  /\ VisitStep(c, stage[c] = "live")
  /\ UNCHANGED <<cacheVars, cancels, callVars, faults>>

\* A step of the search around its visits.
Quiet(c) ==
  \/ \E prefer \in BOOLEAN : Call(c, prefer)
  \/ (\E fails \in BOOLEAN : Prefer(c, fails)) \/ AfterLive(c)
  \/ Store(c) \/ StoreFails(c) \/ StoreRefresh(c) \/ StoreRefreshFails(c)
  \/ (\E fails \in BOOLEAN : Lookup(c, fails)) \/ AfterRefresh(c)
  \/ (\E images \in ImagePages, links \in LinkPages : Index(c, images, links))
  \/ AfterIndex(c) \/ (\E found \in BOOLEAN : Fixture(c, found))

\* The end of the work of a visit.
Works(c) ==
  \/ \E raw \in SitePages : Scrape(c, raw)
  \/ \E result \in {"busy", "failed"} : ScrapeFails(c, result)
  \/ \E opened \in SUBSET got[c] : Enrich(c, opened)

\* Every step is one of these.
LEMMA Kinds ==
  ASSUME Next
  PROVE  RowExpires \/ \E c \in Calls : Visits(c) \/ Quiet(c) \/ Works(c) \/ Cancel(c)
  BY DEF Next, CallStep, DatabaseFault, Visits, Quiet, Works

LEMMA VisitShape ==
  ASSUME Shape, NEW c \in Calls, Visits(c)
  PROVE  Shape'
  <1>1. UNCHANGED <<stage, got, kept, answer, cancels, profile>>
    BY DEF Visits, VisitStep, callVars, AcquireLock, StartDriver, Launch, OpenContext, OpenPage,
           VisitFails, ClosePage, CloseContext
  <1>2. pc[c] \in Stops /\ door[c] \in Doors
    BY DEF Shape
  <1>3. /\ \E x \in Stops : pc' = [pc EXCEPT ![c] = x]
        /\ door' = door
    BY <1>2 DEF Visits, VisitStep, AcquireLock, StartDriver, Launch, OpenContext, OpenPage,
       VisitFails, ClosePage, CloseContext, At, Inside, Leaving, Stops
  <1>4. lock' \in [Doors -> Calls \cup {NoCall}]
    BY <1>2 DEF Visits, VisitStep, AcquireLock, StartDriver, Launch, OpenContext, OpenPage,
       VisitFails, ClosePage, CloseContext, Shape, Unlock
  <1>5. driver' \in BOOLEAN /\ drivers' \in Nat /\ leaks' \in Nat
    <2>1. CASE StartDriver(c)
      BY <2>1 DEF StartDriver, Shape
    <2>2. CASE ~StartDriver(c)
      <3>1. UNCHANGED <<driver, drivers, leaks>>
        BY <2>2 DEF Visits, VisitStep, AcquireLock, Launch, OpenContext, OpenPage,
           VisitFails, ClosePage, CloseContext
      <3>2. QED BY <3>1 DEF Shape
    <2>3. QED BY <2>1, <2>2
  <1>6. QED BY <1>1, <1>3, <1>4, <1>5 DEF Shape

Stages == {"live", "refresh", "index"}
Around == Stops \ Visiting

\* Call c goes on to a visit, through the right door, or to another step that is none.
Moves(c) ==
  /\ pc[c] \notin Visiting /\ (pc'[c] \notin Visiting \/ pc'[c] = "lock") /\ pc'[c] # "idle"
  /\ pc' \in [Calls -> Stops] /\ door' \in [Calls -> Doors] /\ stage' \in [Calls -> Stages]
  /\ \A d \in Calls : d # c =>
       pc'[d] = pc[d] /\ door'[d] = door[d] /\ stage'[d] = stage[d]
  /\ door'[c] \in {door[c], "browser"} \/ (profile /\ door'[c] = "profile")

LEMMA VisitMoves ==
  ASSUME Shape, NEW c \in Calls, NEW from \in Around, NEW s \in Stages, Visit(c, from, s)
  PROVE  Moves(c)
  <1>1. /\ pc' = [pc EXCEPT ![c] = "lock"] /\ pc[c] = from
        /\ door' = [door EXCEPT ![c] = IF profile /\ s = "live" THEN "profile" ELSE "browser"]
        /\ stage' = [stage EXCEPT ![c] = s]
    BY DEF Visit, At, Set
  <1>2. QED BY <1>1 DEF Moves, Shape, Around, Stops, Stages

LEMMA ForgetMoves ==
  ASSUME Shape, NEW c \in Calls, NEW from \in Around, NEW to \in Around, to # "idle",
         At(c, from, to),
         Forget(c)
  PROVE  Moves(c)
  <1>1. /\ pc' = [pc EXCEPT ![c] = to] /\ pc[c] = from
        /\ door' = [door EXCEPT ![c] = "browser"]
        /\ stage' = [stage EXCEPT ![c] = "live"]
    BY DEF Forget, At, Set
  <1>2. QED BY <1>1 DEF Moves, Shape, Around, Stops, Stages

LEMMA StayMoves ==
  ASSUME Shape, NEW c \in Calls, NEW from \in Around, NEW to \in Around, to # "idle",
         At(c, from, to),
         UNCHANGED <<door, stage>>
  PROVE  Moves(c)
  BY DEF Moves, Shape, Around, Stops, Stages, At

\* Around its visits a call touches nothing of the browser.
LEMMA QuietEffect ==
  ASSUME Shape, NEW c \in Calls, Quiet(c)
  PROVE  Moves(c) /\ UNCHANGED <<browserVars, cancels>>
  <1>0. /\ "idle" \in Around /\ "prefer" \in Around /\ "resume" \in Around
        /\ "store" \in Around /\ "lookup" \in Around /\ "index" \in Around
        /\ "fixture" \in Around /\ "done" \in Around
        /\ "live" \in Stages /\ "refresh" \in Stages /\ "index" \in Stages
    BY DEF Around, Stops, Stages
  <1>1. ASSUME NEW prefer \in BOOLEAN, Call(c, prefer) PROVE Moves(c)
    <2>1. CASE prefer
      BY <1>0, <1>1, <2>1, StayMoves DEF Call
    <2>2. CASE ~prefer
      BY <1>0, <1>1, <2>2, VisitMoves DEF Call
    <2>3. QED BY <2>1, <2>2
  <1>2. ASSUME NEW fails \in BOOLEAN, Prefer(c, fails) PROVE Moves(c)
    <2>1. \/ At(c, "prefer", "done") /\ Forget(c)
          \/ Visit(c, "prefer", "live")
      BY <1>2 DEF Prefer, Answer
    <2>2. QED BY <1>0, <2>1, VisitMoves, ForgetMoves
  <1>3. ASSUME AfterLive(c) PROVE Moves(c)
    <2>1. \/ Visit(c, "resume", "live")
          \/ At(c, "resume", "store") /\ Forget(c)
          \/ At(c, "resume", "lookup") /\ Forget(c)
      BY <1>3 DEF AfterLive
    <2>2. QED BY <1>0, <2>1, VisitMoves, ForgetMoves
  <1>4. ASSUME Store(c) \/ StoreRefresh(c) \/ StoreRefreshFails(c) PROVE Moves(c)
    <2>1. At(c, "store", "done") /\ Forget(c)
      BY <1>4 DEF Store, StoreRefresh, StoreRefreshFails, Answer
    <2>2. QED BY <1>0, <2>1, ForgetMoves
  <1>5. ASSUME StoreFails(c) PROVE Moves(c)
    <2>1. (At(c, "store", "lookup") \/ At(c, "store", "fixture")) /\ Forget(c)
      BY <1>5 DEF StoreFails
    <2>2. QED BY <1>0, <2>1, ForgetMoves
  <1>6. ASSUME NEW fails \in BOOLEAN, Lookup(c, fails) PROVE Moves(c)
    <2>1. \/ At(c, "lookup", "index") /\ UNCHANGED <<door, stage>>
          \/ At(c, "lookup", "done") /\ Forget(c)
          \/ Visit(c, "lookup", "refresh")
      BY <1>6 DEF Lookup, Answer
    <2>2. QED BY <1>0, <2>1, VisitMoves, ForgetMoves, StayMoves
  <1>7. ASSUME AfterRefresh(c) PROVE Moves(c)
    <2>1. \/ At(c, "resume", "store") /\ UNCHANGED <<door, stage>>
          \/ At(c, "resume", "done") /\ Forget(c)
      BY <1>7 DEF AfterRefresh, Answer
    <2>2. QED BY <1>0, <2>1, ForgetMoves, StayMoves
  <1>8. ASSUME NEW images \in ImagePages, NEW links \in LinkPages, Index(c, images, links)
        PROVE  Moves(c)
    <2>1. \/ At(c, "index", "fixture") /\ UNCHANGED <<door, stage>>
          \/ Visit(c, "index", "index")
      BY <1>8 DEF Index
    <2>2. QED BY <1>0, <2>1, VisitMoves, StayMoves
  <1>9. ASSUME AfterIndex(c) PROVE Moves(c)
    <2>1. /\ At(c, "resume", "fixture") \/ At(c, "resume", "store")
          /\ UNCHANGED <<door, stage>>
      BY <1>9 DEF AfterIndex
    <2>2. QED BY <1>0, <2>1, StayMoves
  <1>10. ASSUME NEW found \in BOOLEAN, Fixture(c, found) PROVE Moves(c)
    <2>1. At(c, "fixture", "done") /\ Forget(c)
      BY <1>10 DEF Fixture, Answer
    <2>2. QED BY <1>0, <2>1, ForgetMoves
  <1>11. Moves(c)
    BY <1>1, <1>2, <1>3, <1>4, <1>5, <1>6, <1>7, <1>8, <1>9, <1>10 DEF Quiet
  <1>12. UNCHANGED <<browserVars, cancels>>
    BY DEF Quiet, Call, Prefer, AfterLive, Store, StoreFails, StoreRefresh, StoreRefreshFails,
           Lookup, AfterRefresh, Index, AfterIndex, Fixture
  <1>13. QED BY <1>11, <1>12

\* The work of a visit ends where its finally clause begins.
LEMMA WorkEffect ==
  ASSUME NEW c \in Calls, Works(c)
  PROVE  /\ UNCHANGED <<browserVars, cancels, door, stage, kept, answer>>
         /\ pc[c] = "work" /\ pc' = [pc EXCEPT ![c] = Leaving(c)]
  BY DEF Works, Scrape, ScrapeFails, Enrich, Leave, At, callVars

\* A cancelled call keeps nothing.
LEMMA CancelEffect ==
  ASSUME Shape, NEW c \in Calls, Cancel(c)
  PROVE  /\ pc' = [pc EXCEPT ![c] = "cancelled"]
         /\ pc[c] \notin {"idle", "done", "cancelled"}
         /\ door' = [door EXCEPT ![c] = "browser"] /\ stage' = [stage EXCEPT ![c] = "live"]
         /\ cancels' = cancels + 1 /\ UNCHANGED answer
         /\ CancelVisit(c) \/ (pc[c] \notin Visiting /\ UNCHANGED browserVars)
  BY DEF Cancel, Forget, Set

\* What Set() makes of a function.
LEMMA SetAt ==
  ASSUME NEW f, f = [d \in Calls |-> f[d]], NEW c \in Calls, NEW v
  PROVE  /\ Set(f, c, v) = [d \in Calls |-> Set(f, c, v)[d]]
         /\ Set(f, c, v)[c] = v
         /\ \A d \in Calls : d # c => Set(f, c, v)[d] = f[d]
  BY DEF Set

\* A step of a call changes the values of that call only.
LEMMA OwnStep ==
  ASSUME Shape, NEW c \in Calls, Visits(c) \/ Quiet(c) \/ Works(c) \/ Cancel(c)
  PROVE  /\ got' = got \/ \E v : got' = Set(got, c, v)
         /\ kept' = kept \/ \E v : kept' = Set(kept, c, v)
         /\ answer' = answer \/ \E v : answer' = Set(answer, c, v)
  <1>1. CASE Visits(c)
    BY <1>1 DEF Visits, callVars
  <1>2. CASE Quiet(c)
    <2>1. got' = got \/ \E v : got' = Set(got, c, v)
      BY <1>2 DEF Quiet, Call, Prefer, AfterLive, Store, StoreFails, StoreRefresh,
         StoreRefreshFails, Lookup, AfterRefresh, Index, AfterIndex, Fixture, Answer
    <2>2. kept' = kept \/ \E v : kept' = Set(kept, c, v)
      BY <1>2 DEF Quiet, Call, Prefer, AfterLive, Store, StoreFails, StoreRefresh,
         StoreRefreshFails, Lookup, AfterRefresh, Index, AfterIndex, Fixture, Answer, Forget
    <2>3. answer' = answer \/ \E v : answer' = Set(answer, c, v)
      BY <1>2 DEF Quiet, Call, Prefer, AfterLive, Store, StoreFails, StoreRefresh,
         StoreRefreshFails, Lookup, AfterRefresh, Index, AfterIndex, Fixture, Answer
    <2>4. QED BY <2>1, <2>2, <2>3
  <1>3. CASE Works(c)
    BY <1>3, WorkEffect DEF Works, Scrape, ScrapeFails, Enrich, callVars
  <1>4. CASE Cancel(c)
    BY <1>4 DEF Cancel, Forget
  <1>5. QED BY <1>1, <1>2, <1>3, <1>4

LEMMA ShapeStep ==
  ASSUME Shape, NEW c \in Calls, Visits(c) \/ Quiet(c) \/ Works(c) \/ Cancel(c)
  PROVE  Shape'
  <1>1. /\ got' = [d \in Calls |-> got'[d]]
        /\ kept' = [d \in Calls |-> kept'[d]]
        /\ answer' = [d \in Calls |-> answer'[d]]
    <2>1. /\ got = [d \in Calls |-> got[d]]
          /\ kept = [d \in Calls |-> kept[d]]
          /\ answer = [d \in Calls |-> answer[d]]
      BY DEF Shape
    <2>2. got' = [d \in Calls |-> got'[d]]
      BY <2>1, OwnStep, SetAt
    <2>3. kept' = [d \in Calls |-> kept'[d]]
      BY <2>1, OwnStep, SetAt
    <2>4. answer' = [d \in Calls |-> answer'[d]]
      BY <2>1, OwnStep, SetAt
    <2>5. QED BY <2>2, <2>3, <2>4
  <1>2. CASE Visits(c)
    BY <1>2, VisitShape
  <1>3. CASE Quiet(c)
    BY <1>1, <1>3, QuietEffect DEF Shape, Moves, Stages, browserVars
  <1>4. CASE Works(c)
    BY <1>1, <1>4, WorkEffect DEF Shape, Leaving, Stops, browserVars
  <1>5. CASE Cancel(c)
    <2>1. /\ pc' = [pc EXCEPT ![c] = "cancelled"]
          /\ door' = [door EXCEPT ![c] = "browser"] /\ stage' = [stage EXCEPT ![c] = "live"]
          /\ cancels' = cancels + 1
          /\ CancelVisit(c) \/ UNCHANGED browserVars
      BY <1>5, CancelEffect
    <2>2. lock' \in [Doors -> Calls \cup {NoCall}]
      BY <2>1 DEF CancelVisit, browserVars, Unlock, Shape
    <2>3. profile' = profile /\ driver' = driver
      BY <2>1 DEF CancelVisit, browserVars
    <2>4. drivers' \in Nat
      BY <2>1 DEF CancelVisit, browserVars, Shape
    <2>5. leaks' \in Nat
      BY <2>1 DEF CancelVisit, browserVars, Shape, Lost
    <2>6. QED BY <1>1, <2>1, <2>2, <2>3, <2>4, <2>5 DEF Shape, Stops
  <1>6. QED BY <1>2, <1>3, <1>4, <1>5

LEMMA ShapeKept == Spec => []Shape
  <1>1. ASSUME Init PROVE Shape
    <2>1. /\ got = [c \in Calls |-> {}] /\ kept = [c \in Calls |-> {}]
          /\ answer = [c \in Calls |-> "none"]
      BY <1>1 DEF Init
    <2>2. /\ got = [c \in Calls |-> got[c]] /\ kept = [c \in Calls |-> kept[c]]
          /\ answer = [c \in Calls |-> answer[c]]
      BY <2>1
    <2>3. QED BY <1>1, <2>2 DEF Init, BrowserInit, Shape, Stops
  <1>2. Shape /\ [Next]_vars => Shape'
    <2>1. Shape /\ (UNCHANGED vars \/ RowExpires) => Shape'
      BY DEF Shape, vars, RowExpires, browserVars, callVars
    <2>2. QED BY <2>1, Kinds, ShapeStep
  <1>3. QED BY <1>1, <1>2, PTL DEF Spec

-------------------------------------------------------------------------------
(* Nothing of the browser is left behind.                                  *)

\* The lock of a slot is held by the call that starts something under it.
LocksFit ==
  \A d \in Doors : \A c \in Calls :
    lock[d] = c <=> pc[c] \in {"driver", "launch"} /\ door[c] = d

\* Without a profile there is one slot, and so one lock.
DoorsFit == ~profile => \A c \in Calls : door[c] = "browser"

\* Contexts and pages belong to visits in progress.
OpenFit ==
  /\ ctx \subseteq {c \in Calls : pc[c] \in {"page", "work", "close_page", "close_context"}}
  /\ page \subseteq {c \in Calls : pc[c] \in {"work", "close_page"}}

\* A driver that is being started under the lock of a slot.
Starting(d) == IF \E c \in Calls : pc[c] = "driver" /\ door[c] = d THEN 1 ELSE 0

\* Nothing runs without a driver; and the drivers that were and are being started are one
\* for each slot, but for what cancelled calls have lost.
DriversFit ==
  /\ ~driver =>
       /\ leaks + drivers <= cancels
       /\ \A d \in Doors : ~up[d]
       /\ \A c \in Calls : pc[c] \in Visiting => pc[c] \in {"lock", "driver"}
  /\ driver => leaks + drivers + Starting("browser") + Starting("profile")
                 <= cancels + (IF profile THEN 2 ELSE 1)

BrowserInv == LocksFit /\ DoorsFit /\ OpenFit /\ DriversFit

\* A step that starts no driver.
LEMMA StartingDrops ==
  ASSUME NEW d \in Doors,
         \A c \in Calls : pc'[c] = "driver" /\ door'[c] = d => pc[c] = "driver" /\ door[c] = d
  PROVE  Starting(d) \in {0, 1} /\ Starting(d)' \in {0, 1} /\ Starting(d)' <= Starting(d)
  BY DEF Starting

\* Arithmetic: losses that are matched by cancellations.
LEMMA Sums ==
  ASSUME NEW l1 \in Nat, NEW d1 \in Nat, NEW c1 \in Nat, NEW l2 \in Nat, NEW d2 \in Nat,
         NEW c2 \in Nat, l2 + d2 + c1 <= l1 + d1 + c2
  PROVE  l1 + d1 <= c1 => l2 + d2 <= c2
  OBVIOUS

\* A step that loses nothing, or no more than a cancellation accounts for.
LEMMA DriversKept ==
  ASSUME Shape, DriversFit, UNCHANGED <<driver, profile>>,
         leaks' \in Nat, drivers' \in Nat, cancels' \in Nat,
         leaks' + drivers' + cancels <= leaks + drivers + cancels',
         ~driver => /\ \A d \in Doors : ~up'[d]
                    /\ \A c \in Calls : pc'[c] \in Visiting => pc'[c] \in {"lock", "driver"},
         driver => \A d \in Doors : \A c \in Calls :
           pc'[c] = "driver" /\ door'[c] = d => pc[c] = "driver" /\ door[c] = d
  PROVE  DriversFit'
  <1>1. /\ leaks \in Nat /\ drivers \in Nat /\ cancels \in Nat
        /\ leaks' \in Nat /\ drivers' \in Nat /\ cancels' \in Nat
        /\ leaks' + drivers' + cancels <= leaks + drivers + cancels'
    BY DEF Shape
  <1>2. ASSUME ~driver PROVE leaks' + drivers' <= cancels'
    <2>1. leaks + drivers <= cancels
      BY <1>2 DEF DriversFit
    <2>2. QED BY <1>1, <2>1, Sums
  <1>3. ASSUME driver
        PROVE  leaks' + drivers' + Starting("browser")' + Starting("profile")'
                 <= cancels' + (IF profile' THEN 2 ELSE 1)
    <2>1. /\ Starting("browser") \in {0, 1} /\ Starting("browser")' \in {0, 1}
          /\ Starting("browser")' <= Starting("browser")
          /\ Starting("profile") \in {0, 1} /\ Starting("profile")' \in {0, 1}
          /\ Starting("profile")' <= Starting("profile")
      BY <1>3, StartingDrops
    <2>2. leaks + drivers + Starting("browser") + Starting("profile")
            <= cancels + (IF profile THEN 2 ELSE 1)
      BY <1>3 DEF DriversFit
    <2>3. PICK n \in {1, 2} : n = IF profile THEN 2 ELSE 1
      OBVIOUS
    <2>4. n = IF profile' THEN 2 ELSE 1
      BY <2>3
    <2>5. leaks' + drivers' + Starting("browser")' + Starting("profile")' <= cancels' + n
      <3>1. leaks + drivers + Starting("browser") + Starting("profile") <= cancels + n
        BY <2>2, <2>3
      <3>2. /\ n \in Nat /\ Starting("browser") \in Nat /\ Starting("browser")' \in Nat
            /\ Starting("profile") \in Nat /\ Starting("profile")' \in Nat
        BY <2>1, <2>3
      <3>3. PICK a1 \in Nat, b1 \in Nat, a2 \in Nat, b2 \in Nat :
              /\ a1 = Starting("browser") /\ b1 = Starting("profile")
              /\ a2 = Starting("browser")' /\ b2 = Starting("profile")'
        BY <3>2
      <3>4. a2 <= a1 /\ b2 <= b1 /\ leaks + drivers + a1 + b1 <= cancels + n
        BY <2>1, <3>1, <3>3
      <3>5. leaks' + drivers' + a2 + b2 <= cancels' + n
        <4>1. PICK l1 \in Nat, d1 \in Nat, c1 \in Nat, l2 \in Nat, d2 \in Nat, c2 \in Nat :
                /\ l1 = leaks /\ d1 = drivers /\ c1 = cancels
                /\ l2 = leaks' /\ d2 = drivers' /\ c2 = cancels'
          BY <1>1
        <4>2. /\ l1 + d1 + a1 + b1 <= c1 + n /\ a2 <= a1 /\ b2 <= b1
              /\ l2 + d2 + c1 <= l1 + d1 + c2 /\ n \in Nat
          BY <1>1, <2>3, <3>4, <4>1
        <4>3. l2 + d2 + a2 + b2 <= c2 + n
          BY ONLY <4>2, l1 \in Nat, d1 \in Nat, c1 \in Nat, l2 \in Nat, d2 \in Nat, c2 \in Nat,
             a1 \in Nat, b1 \in Nat, a2 \in Nat, b2 \in Nat
        <4>4. QED BY <4>1, <4>3
      <3>6. QED BY <3>3, <3>5
    <2>6. QED BY <2>4, <2>5
  <1>4. QED BY <1>2, <1>3 DEF DriversFit

\* A call that leaves the lock, the driver and the launch of its visit behind.
LEMMA Released ==
  ASSUME Shape, LocksFit, NEW c \in Calls, lock' = Unlock(c),
         \A d \in Calls : d # c => pc'[d] = pc[d] /\ door'[d] = door[d],
         pc'[c] \notin {"driver", "launch"}
  PROVE  LocksFit'
  <1>1. ASSUME NEW x \in Doors, NEW d \in Calls
        PROVE  lock'[x] = d <=> pc'[d] \in {"driver", "launch"} /\ door'[d] = x
    <2>1. lock'[x] = IF lock[x] = c THEN NoCall ELSE lock[x]
      BY DEF Unlock
    <2>2. lock[x] = d <=> pc[d] \in {"driver", "launch"} /\ door[d] = x
      BY DEF LocksFit
    <2>3. QED BY <2>1, <2>2
  <1>2. QED BY <1>1 DEF LocksFit

\* The steps under a lock.
LEMMA LockSteps ==
  ASSUME Shape, Shape', BrowserInv, NEW c \in Calls, AcquireLock(c) \/ StartDriver(c) \/ Launch(c),
         UNCHANGED cancels
  PROVE  BrowserInv'
  <1>0. /\ LocksFit /\ DoorsFit /\ OpenFit /\ DriversFit
        /\ pc \in [Calls -> Stops] /\ door \in [Calls -> Doors] /\ door[c] \in Doors
        /\ lock \in [Doors -> Calls \cup {NoCall}]
    BY DEF BrowserInv, Shape
  <1>1. /\ UNCHANGED <<profile, door, ctx, page, leaks>>
        /\ pc' = [pc EXCEPT ![c] = pc'[c]]
        /\ pc[c] \in {"lock", "driver", "launch"}
    BY <1>0 DEF AcquireLock, StartDriver, Launch, At
  <1>2. \A d \in Calls : d # c => pc'[d] = pc[d] /\ door'[d] = door[d]
    BY <1>0, <1>1
  <1>3. DoorsFit'
    BY <1>0, <1>1 DEF DoorsFit
  <1>4. OpenFit'
    BY <1>0, <1>1, <1>2 DEF OpenFit
  <1>5. CASE AcquireLock(c)
    <2>1. /\ UNCHANGED <<driver, drivers, up>> /\ lock[door[c]] = NoCall /\ pc[c] = "lock"
      BY <1>5 DEF AcquireLock, At
    <2>2. LocksFit' /\ DriversFit'
      <3>1. CASE up[door[c]]
        <4>1. pc'[c] \in {"page", "context"} /\ lock' = lock
          BY <1>0, <1>5, <3>1 DEF AcquireLock, At, Inside
        <4>2. LocksFit'
          BY <1>0, <1>2, <2>1, <4>1 DEF LocksFit
        <4>3. driver
          BY <1>0, <3>1 DEF DriversFit
        <4>4. DriversFit'
          BY <1>0, <1>1, <1>2, <2>1, <4>1, <4>3, DriversKept DEF Shape
        <4>5. QED BY <4>2, <4>4
      <3>2. CASE ~up[door[c]]
        <4>1. /\ pc'[c] = IF driver THEN "launch" ELSE "driver"
              /\ lock' = [lock EXCEPT ![door[c]] = c]
          BY <1>0, <1>5, <3>2 DEF AcquireLock, At
        <4>2. LocksFit'
          BY <1>0, <1>1, <1>2, <2>1, <4>1 DEF LocksFit
        <4>3. /\ driver => pc'[c] = "launch"
              /\ ~driver => pc'[c] = "driver"
          BY <4>1
        <4>4. leaks' + drivers' + cancels <= leaks + drivers + cancels'
          BY <1>1, <2>1 DEF Shape
        <4>5. ~driver => /\ \A d \in Doors : ~up'[d]
                         /\ \A d \in Calls : pc'[d] \in Visiting => pc'[d] \in {"lock", "driver"}
          BY <1>0, <1>2, <2>1, <4>3 DEF DriversFit
        <4>6. driver => \A e \in Doors : \A d \in Calls :
                pc'[d] = "driver" /\ door'[d] = e => pc[d] = "driver" /\ door[d] = e
          BY <1>2, <4>3
        <4>7. DriversFit'
          BY <1>0, <1>1, <2>1, <4>4, <4>5, <4>6, DriversKept DEF Shape
        <4>8. QED BY <4>2, <4>7
      <3>3. QED BY <3>1, <3>2
    <2>3. QED BY <1>3, <1>4, <2>2 DEF BrowserInv
  <1>6. CASE StartDriver(c)
    <2>1. /\ UNCHANGED <<up, lock>> /\ pc[c] = "driver" /\ pc'[c] = "launch"
          /\ driver' = TRUE /\ drivers' = drivers + 1
      BY <1>0, <1>6 DEF StartDriver, At
    <2>2. LocksFit'
      BY <1>0, <1>1, <1>2, <2>1 DEF LocksFit
    <2>3. Starting(door[c]) = 1 /\ Starting(door[c])' = 0
      <3>1. \A d \in Calls : pc[d] = "driver" /\ door[d] = door[c] => d = c
        BY <1>0, <2>1 DEF LocksFit
      <3>2. ~ \E d \in Calls : pc'[d] = "driver" /\ door'[d] = door[c]
        BY <1>1, <1>2, <2>1, <3>1
      <3>3. QED BY <1>1, <2>1, <3>2 DEF Starting
    <2>4. ASSUME NEW e \in Doors, e # door[c]
          PROVE  Starting(e) \in {0, 1} /\ Starting(e)' = Starting(e)
                 /\ (~profile => Starting(e) = 0)
      <3>1. \A d \in Calls : pc'[d] = "driver" /\ door'[d] = e <=> pc[d] = "driver" /\ door[d] = e
        BY <1>1, <1>2, <2>1, <2>4
      <3>2. ~profile => \A d \in Calls : door[d] # e
        BY <1>0, <2>4 DEF DoorsFit
      <3>3. QED BY <3>1, <3>2 DEF Starting
    <2>5. PICK e \in Doors : e # door[c]
      BY <1>0
    <2>6. DriversFit'
      <3>1. PICK n \in {1, 2} : n = IF profile THEN 2 ELSE 1
        OBVIOUS
      <3>2. Starting(e) \in {0, 1} /\ Starting(e) + 1 <= n
        BY <2>4, <2>5, <3>1
      <3>3. leaks \in Nat /\ drivers \in Nat /\ cancels \in Nat /\ driver \in BOOLEAN
        BY DEF Shape
      <3>4. CASE driver
        <4>1. leaks + drivers + Starting(e) + 1 <= cancels + n
          BY <1>0, <2>3, <2>5, <3>1, <3>2, <3>3, <3>4 DEF DriversFit
        <4>2. QED BY <1>0, <1>1, <2>1, <2>3, <2>4, <2>5, <3>1, <3>2, <3>3, <4>1 DEF DriversFit
      <3>5. CASE ~driver
        <4>1. leaks + drivers <= cancels
          BY <1>0, <3>5 DEF DriversFit
        <4>2. QED BY <1>0, <1>1, <2>1, <2>3, <2>4, <2>5, <3>1, <3>2, <3>3, <4>1 DEF DriversFit
      <3>6. QED BY <3>4, <3>5
    <2>7. QED BY <1>3, <1>4, <2>2, <2>6 DEF BrowserInv
  <1>7. CASE Launch(c)
    <2>1. /\ UNCHANGED <<driver, drivers>> /\ pc[c] = "launch"
          /\ pc'[c] \in {"page", "context"} /\ lock' = [lock EXCEPT ![door[c]] = NoCall]
      BY <1>0, <1>7 DEF Launch, At, Inside
    <2>2. LocksFit'
      BY <1>0, <1>1, <1>2, <2>1 DEF LocksFit
    <2>3. driver
      BY <1>0, <2>1 DEF DriversFit
    <2>4. leaks' + drivers' + cancels <= leaks + drivers + cancels'
      BY <1>1, <2>1 DEF Shape
    <2>5. \A e \in Doors : \A d \in Calls :
            pc'[d] = "driver" /\ door'[d] = e => pc[d] = "driver" /\ door[d] = e
      BY <1>2, <2>1
    <2>6. DriversFit'
      BY <1>0, <1>1, <2>1, <2>3, <2>4, <2>5, DriversKept DEF Shape
    <2>7. QED BY <1>3, <1>4, <2>2, <2>6 DEF BrowserInv
  <1>8. QED BY <1>5, <1>6, <1>7

\* A step of a call that is past the start of its visit, or not in one, and stays so: it
\* may leave the lock, and what it opened or closed is its own.
LEMMA LaterSteps ==
  ASSUME Shape, Shape', BrowserInv, NEW c \in Calls,
         UNCHANGED <<profile, driver, up>>,
         leaks' + drivers' + cancels <= leaks + drivers + cancels',
         \A d \in Calls : d # c => pc'[d] = pc[d] /\ door'[d] = door[d],
         door'[c] \in {door[c], "browser"} \/ (profile /\ door'[c] = "profile"),
         pc'[c] \notin {"driver", "launch"},
         pc'[c] \in Visiting => pc'[c] = "lock" \/ pc[c] \in Visiting \ {"lock", "driver"},
         lock' = Unlock(c) \/ (lock' = lock /\ pc[c] \notin {"driver", "launch"}),
         OpenFit'
  PROVE  BrowserInv'
  <1>1. LocksFit /\ DoorsFit /\ OpenFit /\ DriversFit
    BY DEF BrowserInv
  <1>2. LocksFit'
    <2>1. CASE lock' = Unlock(c)
      BY <1>1, <2>1, Released
    <2>2. CASE lock' = lock /\ pc[c] \notin {"driver", "launch"}
      BY <1>1, <2>2 DEF LocksFit
    <2>3. QED BY <2>1, <2>2
  <1>3. DoorsFit'
    BY <1>1 DEF DoorsFit
  <1>4. ~driver => /\ \A d \in Doors : ~up'[d]
                   /\ \A d \in Calls : pc'[d] \in Visiting => pc'[d] \in {"lock", "driver"}
    BY <1>1 DEF DriversFit
  <1>5. leaks' \in Nat /\ drivers' \in Nat /\ cancels' \in Nat
    BY DEF Shape
  <1>6. \A e \in Doors : \A d \in Calls :
          pc'[d] = "driver" /\ door'[d] = e => pc[d] = "driver" /\ door[d] = e
    OBVIOUS
  <1>7. DriversFit'
    BY <1>1, <1>4, <1>5, <1>6, DriversKept
  <1>8. QED BY <1>2, <1>3, <1>7 DEF BrowserInv

\* The rest of a visit: what was opened is closed.
LEMMA RestOfVisit ==
  ASSUME Shape, Shape', BrowserInv, NEW c \in Calls, NEW withPage \in BOOLEAN,
         \/ OpenContext(c, withPage) \/ OpenPage(c) \/ VisitFails(c)
         \/ ClosePage(c) \/ CloseContext(c),
         UNCHANGED cancels
  PROVE  BrowserInv'
  <1>0. /\ pc \in [Calls -> Stops] /\ OpenFit
        /\ leaks \in Nat /\ drivers \in Nat /\ cancels \in Nat
    BY DEF Shape, BrowserInv
  <1>1. /\ UNCHANGED <<profile, driver, drivers, up, leaks, door>>
        /\ pc' = [pc EXCEPT ![c] = pc'[c]]
        /\ lock' = Unlock(c) \/ (lock' = lock /\ pc[c] \notin {"driver", "launch"})
    BY <1>0 DEF OpenContext, OpenPage, VisitFails, ClosePage, CloseContext, At
  <1>2. \A d \in Calls : d # c => pc'[d] = pc[d] /\ door'[d] = door[d]
    BY <1>0, <1>1
  <1>3. /\ pc'[c] \in {"page", "work", "close_page", "close_context", "resume"}
        /\ pc[c] \in {"driver", "launch", "context", "page", "close_page", "close_context"}
        /\ pc[c] = "driver" => pc'[c] = "resume"
        /\ ctx' \subseteq ctx \cup {c} /\ page' \subseteq page \cup {c}
        /\ c \in ctx' => pc'[c] \in {"page", "work", "close_page", "close_context"}
        /\ c \in page' => pc'[c] \in {"work", "close_page"}
    <2>1. CASE OpenContext(c, withPage)
      BY <1>0, <2>1 DEF OpenContext, At, OpenFit
    <2>2. CASE OpenPage(c)
      BY <1>0, <2>2 DEF OpenPage, At, OpenFit
    <2>3. CASE VisitFails(c)
      BY <1>0, <2>3 DEF VisitFails, Leaving, OpenFit
    <2>4. CASE ClosePage(c)
      BY <1>0, <2>4 DEF ClosePage, At, OpenFit
    <2>5. CASE CloseContext(c)
      BY <1>0, <2>5 DEF CloseContext, At, OpenFit
    <2>6. QED BY <2>1, <2>2, <2>3, <2>4, <2>5
  <1>4. OpenFit'
    BY <1>0, <1>2, <1>3 DEF OpenFit
  <1>5. leaks' + drivers' + cancels <= leaks + drivers + cancels'
    BY <1>0, <1>1
  <1>6. QED BY <1>1, <1>2, <1>3, <1>4, <1>5, LaterSteps

\* Around its visits, at the end of the work, and when it is cancelled.
LEMMA OtherSteps ==
  ASSUME Shape, Shape', BrowserInv, NEW c \in Calls, Quiet(c) \/ Works(c) \/ Cancel(c)
  PROVE  BrowserInv'
  <1>0. /\ pc \in [Calls -> Stops] /\ door \in [Calls -> Doors] /\ OpenFit
        /\ leaks \in Nat /\ drivers \in Nat /\ cancels \in Nat
    BY DEF Shape, BrowserInv
  <1>1. CASE Quiet(c)
    <2>1. Moves(c) /\ UNCHANGED <<browserVars, cancels>>
      BY <1>1, QuietEffect
    <2>2. UNCHANGED <<profile, driver, drivers, up, lock, ctx, page, leaks, cancels>>
      BY <2>1 DEF browserVars
    <2>3. OpenFit'
      BY <1>0, <2>1, <2>2 DEF OpenFit, Moves
    <2>4. leaks' + drivers' + cancels <= leaks + drivers + cancels'
      BY <1>0, <2>2
    <2>5. QED BY <2>1, <2>2, <2>3, <2>4, LaterSteps DEF Moves
  <1>2. CASE Works(c)
    <2>1. /\ UNCHANGED <<profile, driver, drivers, up, lock, ctx, page, leaks, cancels, door>>
          /\ pc[c] = "work" /\ pc' = [pc EXCEPT ![c] = Leaving(c)]
      BY <1>2, WorkEffect DEF browserVars
    <2>2. /\ pc'[c] = Leaving(c) /\ \A d \in Calls : d # c => pc'[d] = pc[d]
      BY <1>0, <2>1
    <2>3. OpenFit'
      BY <1>0, <2>1, <2>2 DEF OpenFit, Leaving
    <2>4. pc'[c] \in {"close_page", "close_context", "resume"}
      BY <2>2 DEF Leaving
    <2>5. leaks' + drivers' + cancels <= leaks + drivers + cancels'
      BY <1>0, <2>1
    <2>6. QED BY <2>1, <2>2, <2>3, <2>4, <2>5, LaterSteps
  <1>3. CASE Cancel(c)
    <2>1. /\ pc' = [pc EXCEPT ![c] = "cancelled"]
          /\ door' = [door EXCEPT ![c] = "browser"] /\ cancels' = cancels + 1
          /\ CancelVisit(c) \/ (pc[c] \notin Visiting /\ UNCHANGED browserVars)
      BY <1>3, CancelEffect
    <2>2. /\ pc'[c] = "cancelled" /\ door'[c] = "browser"
          /\ \A d \in Calls : d # c => pc'[d] = pc[d] /\ door'[d] = door[d]
      BY <1>0, <2>1
    <2>3. /\ UNCHANGED <<profile, driver, up>>
          /\ lock' = Unlock(c) \/ (lock' = lock /\ pc[c] \notin {"driver", "launch"})
          /\ ctx' \subseteq ctx /\ page' \subseteq page
          /\ c \notin ctx' /\ c \notin page'
      BY <1>0, <2>1 DEF CancelVisit, browserVars, OpenFit
    <2>4. OpenFit'
      BY <1>0, <2>2, <2>3 DEF OpenFit
    <2>5. leaks' + drivers' + cancels <= leaks + drivers + cancels'
      <3>1. CASE CancelVisit(c)
        <4>1. CASE pc[c] = "driver"
          BY <1>0, <2>1, <3>1, <4>1 DEF CancelVisit, Lost
        <4>2. CASE pc[c] # "driver"
          BY <1>0, <2>1, <3>1, <4>2 DEF CancelVisit, Lost
        <4>3. QED BY <4>1, <4>2
      <3>2. CASE UNCHANGED browserVars
        BY <1>0, <2>1, <3>2 DEF browserVars
      <3>3. QED BY <2>1, <3>1, <3>2
    <2>6. QED BY <2>2, <2>3, <2>4, <2>5, LaterSteps
  <1>4. QED BY <1>1, <1>2, <1>3

LEMMA BrowserHolds == Spec => []BrowserInv
  <1>1. Init => BrowserInv
    BY DEF Init, BrowserInit, BrowserInv, LocksFit, DoorsFit, OpenFit, DriversFit
  <1>2. Shape /\ Shape' /\ BrowserInv /\ [Next]_vars => BrowserInv'
    <2>0. SUFFICES ASSUME Shape, Shape', BrowserInv, [Next]_vars PROVE BrowserInv'
      OBVIOUS
    <2>1. CASE UNCHANGED vars \/ RowExpires
      BY <2>0, <2>1 DEF vars, RowExpires, browserVars, BrowserInv, LocksFit, DoorsFit, OpenFit,
         DriversFit, Starting
    <2>2. ASSUME NEW c \in Calls, Visits(c) PROVE BrowserInv'
      <3>1. /\ \/ AcquireLock(c) \/ StartDriver(c) \/ Launch(c)
               \/ OpenContext(c, stage[c] = "live") \/ OpenPage(c) \/ VisitFails(c)
               \/ ClosePage(c) \/ CloseContext(c)
            /\ UNCHANGED cancels
        BY <2>2 DEF Visits, VisitStep
      <3>2. (stage[c] = "live") \in BOOLEAN
        OBVIOUS
      <3>3. QED BY <2>0, <3>1, <3>2, LockSteps, RestOfVisit
    <2>3. QED BY <2>0, <2>1, <2>2, Kinds, OtherSteps
  <1>3. QED BY <1>1, <1>2, ShapeKept, PTL DEF Spec

\* The lock of a slot, the contexts and the pages belong to visits in progress, and no more
\* drivers, browsers, contexts or pages are lost than calls were cancelled.
THEOREM BrowserLeavesNothing == Spec => []NothingLeftBehind
  <1>1. Shape /\ BrowserInv => NothingLeftBehind
    <2>0. SUFFICES ASSUME Shape, BrowserInv PROVE NothingLeftBehind
      OBVIOUS
    <2>1. PICK n \in {1, 2} : n = IF profile THEN 2 ELSE 1
      OBVIOUS
    <2>2. /\ leaks \in Nat /\ drivers \in Nat /\ cancels \in Nat /\ driver \in BOOLEAN
          /\ Starting("browser") \in {0, 1} /\ Starting("profile") \in {0, 1}
      BY <2>0 DEF Shape, Starting
    <2>3. leaks + drivers <= cancels + n
      <3>1. CASE driver
        <4>1. leaks + drivers + Starting("browser") + Starting("profile") <= cancels + n
          BY <2>0, <2>1, <3>1 DEF BrowserInv, DriversFit
        <4>2. QED BY <2>1, <2>2, <4>1
      <3>2. CASE ~driver
        <4>1. leaks + drivers <= cancels
          BY <2>0, <3>2 DEF BrowserInv, DriversFit
        <4>2. QED BY <2>1, <2>2, <4>1
      <3>3. QED BY <2>2, <3>1, <3>2
    <2>4. QED BY <2>0, <2>1, <2>3 DEF BrowserInv, LocksFit, OpenFit, NothingLeftBehind
  <1>2. QED BY <1>1, ShapeKept, BrowserHolds, PTL

-------------------------------------------------------------------------------
(* What an answer is made of.                                              *)

LinkFree(posts) == \A p \in posts : p.stub # "link"

\* Posts that passed the filters of the live tier and of the cache.
Passed(posts) == posts # {} /\ posts = Authentic(posts) /\ LinkFree(posts)

LEMMA GoodPasses ==
  ASSUME NEW q, NEW posts, NEW checked, Good(q, posts, checked) # {}
  PROVE  Passed(Good(q, posts, checked))
  BY DEF Good, Passed, LinkFree, Authentic, ForQuery

\* What is about to be stored passed its filters, and so did the row that is refreshed.
AnswerFits(c) ==
  /\ pc[c] = "store" => got[c] # {} /\ LinkFree(got[c])
                        /\ (stage[c] # "index" => Passed(got[c]))
  /\ stage[c] = "refresh" => Passed(kept[c]) /\ Images(kept[c]) = 0
  /\ pc[c] = "done" =>
       /\ answer[c] \in {"live", "prewarmed", "cache"} => Passed(got[c])
       /\ answer[c] = "index" => got[c] # {}
       /\ LinkFree(got[c])

AnswerInv == \A c \in Calls : AnswerFits(c)

\* A step of one call leaves the others alone.
LEMMA OthersStay ==
  ASSUME Shape, NEW c \in Calls, Visits(c) \/ Quiet(c) \/ Works(c) \/ Cancel(c),
         NEW d \in Calls, d # c
  PROVE  /\ pc'[d] = pc[d] /\ stage'[d] = stage[d] /\ got'[d] = got[d]
         /\ kept'[d] = kept[d] /\ answer'[d] = answer[d]
  <1>1. /\ got = [e \in Calls |-> got[e]]
        /\ kept = [e \in Calls |-> kept[e]]
        /\ answer = [e \in Calls |-> answer[e]]
    BY DEF Shape
  <1>2. got'[d] = got[d]
    BY <1>1, OwnStep, SetAt
  <1>3. kept'[d] = kept[d]
    BY <1>1, OwnStep, SetAt
  <1>4. answer'[d] = answer[d]
    BY <1>1, OwnStep, SetAt
  <1>5. pc'[d] = pc[d] /\ stage'[d] = stage[d]
    <2>1. CASE Visits(c)
      BY <2>1 DEF Shape, Visits, callVars, VisitStep, AcquireLock, StartDriver, Launch,
         OpenContext, OpenPage, VisitFails, ClosePage, CloseContext, At
    <2>2. CASE Quiet(c)
      BY <2>2, QuietEffect DEF Moves
    <2>3. CASE Works(c)
      BY <2>3, WorkEffect DEF Shape
    <2>4. CASE Cancel(c)
      BY <2>4, CancelEffect DEF Shape
    <2>5. QED BY <2>1, <2>2, <2>3, <2>4
  <1>6. QED BY <1>2, <1>3, <1>4, <1>5

\* Where the parts of a step take its call.
LEMMA AnswerAt ==
  ASSUME Shape, NEW c \in Calls, NEW from, NEW source, NEW posts, Answer(c, from, source, posts)
  PROVE  /\ pc[c] = from /\ pc'[c] = "done" /\ answer'[c] = source /\ got'[c] = posts
         /\ stage'[c] = "live"
  BY DEF Answer, At, Forget, Set, Shape

LEMMA VisitAt ==
  ASSUME Shape, NEW c \in Calls, NEW from, NEW s, Visit(c, from, s)
  PROVE  pc[c] = from /\ pc'[c] = "lock" /\ stage'[c] = s
  BY DEF Visit, At, Set, Shape

LEMMA AtAt ==
  ASSUME Shape, NEW c \in Calls, NEW from, NEW to, At(c, from, to)
  PROVE  pc[c] = from /\ pc'[c] = to
  BY DEF At, Shape

LEMMA ForgetAt ==
  ASSUME Shape, NEW c \in Calls, Forget(c)
  PROVE  stage'[c] = "live"
  BY DEF Forget, Set, Shape

LEMMA GotAt ==
  ASSUME Shape, NEW c \in Calls, NEW v, got' = Set(got, c, v)
  PROVE  got'[c] = v
  BY DEF Set, Shape

LEMMA KeptAt ==
  ASSUME Shape, NEW c \in Calls, NEW v, kept' = Set(kept, c, v)
  PROVE  kept'[c] = v
  BY DEF Set, Shape

\* The answer of a tier that filters.
LEMMA AnswerPassed ==
  ASSUME Shape, NEW c \in Calls, NEW from, NEW source, NEW posts, Passed(posts),
         Answer(c, from, source, posts)
  PROVE  AnswerFits(c)'
  BY AnswerAt DEF AnswerFits, Passed

\* The step of a call keeps its answer fit.
LEMMA AnswerStep ==
  ASSUME Shape, NEW c \in Calls, AnswerFits(c), Quiet(c)
  PROVE  AnswerFits(c)'
  <1>0. /\ got = [d \in Calls |-> got[d]] /\ kept = [d \in Calls |-> kept[d]]
        /\ stage[c] \in Stages
    BY DEF Shape, Stages
  <1>1. ASSUME NEW prefer \in BOOLEAN, Call(c, prefer) PROVE AnswerFits(c)'
    <2>1. CASE prefer
      BY <1>1, <2>1, AtAt DEF Call, AnswerFits
    <2>2. CASE ~prefer
      BY <1>1, <2>2, VisitAt DEF Call, AnswerFits
    <2>3. QED BY <2>1, <2>2
  <1>2. ASSUME NEW fails \in BOOLEAN, Prefer(c, fails) PROVE AnswerFits(c)'
    <2>1. CASE Visit(c, "prefer", "live")
      BY <2>1, VisitAt DEF AnswerFits
    <2>2. CASE /\ UsableRow(query[c])
               /\ Answer(c, "prefer", "prewarmed", Good(query[c], GetCached(query[c]), TRUE))
      <3> DEFINE row == Good(query[c], GetCached(query[c]), TRUE)
      <3>1. Passed(row)
        BY <2>2, GoodPasses DEF UsableRow
      <3>2. Answer(c, "prefer", "prewarmed", row)
        BY <2>2
      <3> HIDE DEF row
      <3>3. QED BY <3>1, <3>2, AnswerPassed
    <2>3. QED BY <1>2, <2>1, <2>2 DEF Prefer
  <1>3. ASSUME AfterLive(c) PROVE AnswerFits(c)'
    <2>1. CASE Visit(c, "resume", "live")
      BY <2>1, VisitAt DEF AnswerFits
    <2>2. CASE /\ At(c, "resume", "store") /\ Fresh(c) # {}
               /\ got' = Set(got, c, Fresh(c)) /\ Forget(c)
      <3> DEFINE fresh == Fresh(c)
      <3>1. Passed(fresh)
        BY <2>2, GoodPasses DEF Fresh
      <3>2. got' = Set(got, c, fresh)
        BY <2>2
      <3> HIDE DEF fresh
      <3>3. got'[c] = fresh
        BY <3>2, GotAt
      <3>4. pc'[c] = "store" /\ stage'[c] = "live"
        BY <2>2, AtAt, ForgetAt
      <3>5. QED BY <3>1, <3>3, <3>4 DEF AnswerFits, Passed
    <2>3. CASE At(c, "resume", "lookup") /\ Forget(c)
      BY <2>3, AtAt, ForgetAt DEF AnswerFits
    <2>4. QED BY <1>3, <2>1, <2>2, <2>3 DEF AfterLive
  <1>4. ASSUME Store(c) PROVE AnswerFits(c)'
    BY <1>0, <1>4, AnswerAt DEF Store, AnswerFits, Stages
  <1>5. ASSUME StoreFails(c) PROVE AnswerFits(c)'
    BY <1>5, AtAt, ForgetAt DEF StoreFails, AnswerFits
  <1>6. ASSUME NEW fails \in BOOLEAN, Lookup(c, fails) PROVE AnswerFits(c)'
    <2> DEFINE row == Good(query[c], GetCached(query[c]), TRUE)
    <2>1. CASE At(c, "lookup", "index") /\ UNCHANGED <<stage, got, kept, answer>>
      BY <2>1, AtAt DEF AnswerFits
    <2>2. CASE row # {} /\ Answer(c, "lookup", "cache", row)
      <3>1. Passed(row)
        BY <2>2, GoodPasses
      <3> HIDE DEF row
      <3>2. QED BY <2>2, <3>1, AnswerPassed
    <2>3. CASE /\ row # {} /\ Images(row) = 0 /\ Visit(c, "lookup", "refresh")
               /\ kept' = Set(kept, c, row)
      <3>1. Passed(row)
        BY <2>3, GoodPasses
      <3> HIDE DEF row
      <3>2. kept'[c] = row
        BY <2>3, KeptAt
      <3>3. pc'[c] = "lock" /\ stage'[c] = "refresh"
        BY <2>3, VisitAt
      <3>4. Images(kept[c])' = 0
        BY <2>3, <3>2 DEF Images
      <3>5. QED BY <3>1, <3>2, <3>3, <3>4 DEF AnswerFits
    <2>4. QED BY <1>6, <2>1, <2>2, <2>3 DEF Lookup
  <1>7. ASSUME AfterRefresh(c) PROVE AnswerFits(c)'
    <2> DEFINE better == Good(query[c], IF outcome[c] = "posts" THEN got[c] ELSE kept[c], FALSE)
    <2>1. stage[c] = "refresh" /\ Passed(kept[c]) /\ Images(kept[c]) = 0
      BY <1>7 DEF AfterRefresh, AnswerFits
    <2>2. CASE /\ Images(better) > Images(kept[c]) /\ At(c, "resume", "store")
               /\ got' = Set(got, c, better) /\ UNCHANGED <<stage, kept>>
      <3>1. better # {}
        <4>1. Images({}) = 0
          BY FS_EmptySet DEF Images
        <4> HIDE DEF better
        <4>2. ASSUME better = {} PROVE FALSE
          <5>1. Images(better) = 0
            BY <4>1, <4>2
          <5>2. QED BY <2>1, <2>2, <5>1
        <4>3. QED BY <4>2
      <3>2. Passed(better)
        BY <3>1, GoodPasses
      <3> HIDE DEF better
      <3>3. got'[c] = better
        BY <2>2, GotAt
      <3>4. pc'[c] = "store" /\ stage'[c] = "refresh" /\ kept'[c] = kept[c]
        BY <2>1, <2>2, AtAt
      <3>5. Images(kept[c])' = 0
        BY <2>1, <2>2 DEF Images
      <3>6. QED BY <2>1, <3>2, <3>3, <3>4, <3>5 DEF AnswerFits, Passed
    <2>3. CASE Answer(c, "resume", "cache", kept[c])
      BY <2>1, <2>3, AnswerAt DEF AnswerFits, Passed
    <2>4. QED BY <1>7, <2>2, <2>3 DEF AfterRefresh
  <1>8. ASSUME StoreRefresh(c) PROVE AnswerFits(c)'
    BY <1>8, AnswerAt DEF StoreRefresh, AnswerFits, Passed, Answer, At
  <1>9. ASSUME StoreRefreshFails(c) PROVE AnswerFits(c)'
    BY <1>9, AnswerAt DEF StoreRefreshFails, AnswerFits, LinkFree
  <1>10. ASSUME NEW images \in ImagePages, NEW links \in LinkPages, Index(c, images, links)
         PROVE  AnswerFits(c)'
    <2>1. CASE At(c, "index", "fixture") /\ UNCHANGED <<stage, kept>>
      BY <2>1, AtAt DEF AnswerFits
    <2>2. CASE Visit(c, "index", "index")
      BY <2>2, VisitAt DEF AnswerFits
    <2>3. QED BY <1>10, <2>1, <2>2 DEF Index
  <1>11. ASSUME AfterIndex(c) PROVE AnswerFits(c)'
    <2> DEFINE relevant == ForQuery(got[c], Terms[query[c]], FALSE)
    <2>1. /\ stage[c] = "index" /\ stage' = stage
          /\ At(c, "resume", IF relevant = {} THEN "fixture" ELSE "store")
          /\ got' = Set(got, c, relevant)
      BY <1>11 DEF AfterIndex
    <2>2. LinkFree(relevant)
      BY DEF LinkFree, ForQuery
    <2> HIDE DEF relevant
    <2>3. got'[c] = relevant /\ stage'[c] = "index"
      BY <2>1, GotAt
    <2>4. CASE relevant = {}
      <3>1. pc'[c] = "fixture"
        BY <2>1, <2>4, AtAt
      <3>2. QED BY <2>3, <3>1 DEF AnswerFits
    <2>5. CASE relevant # {}
      <3>1. pc'[c] = "store"
        BY <2>1, <2>5, AtAt
      <3>2. QED BY <2>2, <2>3, <2>5, <3>1 DEF AnswerFits
    <2>6. QED BY <2>4, <2>5
  <1>12. ASSUME NEW found \in BOOLEAN, Fixture(c, found) PROVE AnswerFits(c)'
    BY <1>12, AnswerAt DEF Fixture, AnswerFits, LinkFree
  <1>13. QED
    BY <1>1, <1>2, <1>3, <1>4, <1>5, <1>6, <1>7, <1>8, <1>9, <1>10, <1>11, <1>12 DEF Quiet

\* Where the steps of a visit and its work lead, and what they leave alone.
LEMMA VisitingStays ==
  ASSUME Shape, NEW c \in Calls, Visits(c) \/ Works(c)
  PROVE  /\ pc[c] \in Visiting /\ pc'[c] \in Visiting \cup {"resume"}
         /\ UNCHANGED <<stage, kept, answer>>
  <1>1. pc \in [Calls -> Stops]
    BY DEF Shape
  <1>2. CASE Visits(c)
    <2>1. UNCHANGED <<stage, kept, answer>>
      BY <1>2 DEF Visits, callVars
    <2>2. pc[c] \in Visiting /\ pc'[c] \in Visiting \cup {"resume"}
      BY <1>1, <1>2 DEF Visits, VisitStep, AcquireLock, StartDriver, Launch, OpenContext,
         OpenPage, VisitFails, ClosePage, CloseContext, At, Inside, Leaving
    <2>3. QED BY <2>1, <2>2
  <1>3. CASE Works(c)
    BY <1>1, <1>3, WorkEffect DEF Leaving
  <1>4. QED BY <1>2, <1>3

LEMMA AnswersHold == Spec => []AnswerInv
  <1>1. Init => AnswerInv
    BY DEF Init, AnswerInv, AnswerFits
  <1>2. Shape /\ AnswerInv /\ [Next]_vars => AnswerInv'
    <2>0. SUFFICES ASSUME Shape, AnswerInv, [Next]_vars PROVE AnswerInv'
      OBVIOUS
    <2>1. CASE UNCHANGED vars \/ RowExpires
      <3>1. UNCHANGED <<pc, stage, got, kept, answer>>
        BY <2>1 DEF vars, RowExpires, callVars
      <3>2. QED BY <2>0, <3>1 DEF AnswerInv, AnswerFits, Images, Passed, LinkFree
    <2>2. ASSUME NEW c \in Calls, Visits(c) \/ Quiet(c) \/ Works(c) \/ Cancel(c)
          PROVE  AnswerInv'
      <3>1. ASSUME NEW d \in Calls, d # c PROVE AnswerFits(d)'
        <4>1. /\ pc'[d] = pc[d] /\ stage'[d] = stage[d] /\ got'[d] = got[d]
              /\ kept'[d] = kept[d] /\ answer'[d] = answer[d]
          BY <2>0, <2>2, <3>1, OthersStay
        <4>2. AnswerFits(d)
          BY <2>0 DEF AnswerInv
        <4>3. QED BY <4>1, <4>2 DEF AnswerFits, Images, Passed, LinkFree
      <3>2. AnswerFits(c)'
        <4>1. AnswerFits(c)
          BY <2>0 DEF AnswerInv
        <4>2. CASE Visits(c) \/ Works(c)
          <5>1. /\ pc'[c] \notin {"store", "done"} /\ stage'[c] = stage[c] /\ kept'[c] = kept[c]
            BY <2>0, <4>2, VisitingStays
          <5>2. QED BY <4>1, <5>1 DEF AnswerFits, Images, Passed, LinkFree
        <4>3. CASE Quiet(c)
          BY <2>0, <4>1, <4>3, AnswerStep
        <4>4. CASE Cancel(c)
          <5>1. pc'[c] = "cancelled" /\ stage'[c] = "live"
            BY <2>0, <4>4, CancelEffect DEF Shape
          <5>2. QED BY <5>1 DEF AnswerFits
        <4>5. QED BY <2>2, <4>2, <4>3, <4>4
      <3>3. QED BY <3>1, <3>2 DEF AnswerInv
    <2>3. QED BY <2>0, <2>1, <2>2, Kinds
  <1>3. QED BY <1>1, <1>2, ShapeKept, PTL DEF Spec

\* Every answer of the live tier and of the cache passes the filters, whoever wrote the row
\* meanwhile; every tier but the last brings posts; no unopened link is ever answered.
THEOREM AnswersFiltered == Spec => []AnswersPassFilters
  <1>1. AnswerInv => AnswersPassFilters
    BY DEF AnswerInv, AnswerFits, AnswersPassFilters, Passed, LinkFree
  <1>2. QED BY <1>1, AnswersHold, PTL

-------------------------------------------------------------------------------
(* A usable row serves.                                                    *)

\* A call is on no way to the fixture while the row of its query is usable.
ServeFits(c) ==
  /\ pc[c] = "idle" => stage[c] = "live"
  /\ c \in steady =>
       /\ pc[c] \notin {"idle", "index", "fixture"} /\ stage[c] # "index"
       /\ pc[c] = "done" => answer[c] \notin {"fixture", "degraded", "error"}

ServeInv == faults \in Nat /\ \A c \in Calls : ServeFits(c)

\* What a step does to the faults.
LEMMA FaultsStep ==
  ASSUME faults \in Nat, Next
  PROVE  /\ faults' \in Nat
         /\ faults' = faults =>
              \/ RowExpires
              \/ \E c \in Calls : (\E prefer \in BOOLEAN : Call(c, prefer)) \/ CallStep(c)
                                  \/ Cancel(c)
  <1>1. CASE \E c \in Calls : DatabaseFault(c)
    BY <1>1 DEF DatabaseFault
  <1>2. CASE RowExpires
    BY <1>2 DEF RowExpires
  <1>3. ASSUME NEW c \in Calls, (\E prefer \in BOOLEAN : Call(c, prefer)) \/ Cancel(c)
        PROVE  faults' = faults
    BY <1>3 DEF Call, Cancel
  <1>4. ASSUME NEW c \in Calls, CallStep(c) PROVE faults' = faults
    BY <1>4 DEF CallStep, Scrape, ScrapeFails, Enrich, AfterLive, Store, AfterRefresh,
       StoreRefresh, Index, AfterIndex, Fixture
  <1>5. QED BY <1>1, <1>2, <1>3, <1>4 DEF Next

LEMMA ServeStep ==
  ASSUME Shape, NEW c \in Calls, ServeFits(c), Steady,
         \/ \E prefer \in BOOLEAN : Call(c, prefer)
         \/ CallStep(c) \/ Cancel(c),
         c \in steady', pc'[c] # "idle"
  PROVE  ServeFits(c)'
  <1>0. /\ UsableRow(query[c]) /\ stage[c] \in Stages
        /\ pc[c] = "idle" => stage[c] = "live"
        /\ pc[c] # "idle" => /\ pc[c] \notin {"index", "fixture"} /\ stage[c] # "index"
                             /\ pc[c] = "done" => answer[c] \notin {"fixture", "degraded", "error"}
    BY DEF Steady, ServeFits, Shape, Stages
  <1>1. ASSUME NEW to, NEW s, pc'[c] = to, stage'[c] = s, s # "index",
               to \notin {"idle", "index", "fixture", "done"}
        PROVE  ServeFits(c)'
    BY <1>1 DEF ServeFits
  <1>2. ASSUME NEW from, NEW source, NEW posts, Answer(c, from, source, posts),
               source \notin {"fixture", "degraded", "error"}
        PROVE  ServeFits(c)'
    BY <1>2, AnswerAt DEF ServeFits
  <1>3. ASSUME NEW from, NEW s, Visit(c, from, s), s # "index" PROVE ServeFits(c)'
    BY <1>1, <1>3, VisitAt
  <1>4. ASSUME NEW prefer \in BOOLEAN, Call(c, prefer) PROVE ServeFits(c)'
    <2>1. CASE prefer
      <3>1. pc[c] = "idle" /\ pc'[c] = "prefer" /\ stage' = stage
        BY <1>4, <2>1, AtAt DEF Call
      <3>2. QED BY <1>0, <1>1, <3>1
    <2>2. CASE ~prefer
      BY <1>3, <1>4, <2>2 DEF Call
    <2>3. QED BY <2>1, <2>2
  <1>5. ASSUME Cancel(c) PROVE ServeFits(c)'
    BY <1>1, <1>5, CancelEffect DEF Shape
  <1>6. ASSUME CallStep(c) PROVE ServeFits(c)'
    <2>1. ASSUME Visits(c) \/ Works(c) PROVE ServeFits(c)'
      <3>1. pc[c] \in Visiting /\ pc'[c] \in Visiting \cup {"resume"} /\ stage' = stage
        BY <2>1, VisitingStays
      <3>2. stage'[c] = stage[c] /\ stage[c] # "index"
        BY <1>0, <3>1
      <3>3. QED BY <1>1, <3>1, <3>2
    <2>2. ASSUME Prefer(c, FALSE) PROVE ServeFits(c)'
      <3> DEFINE row == Good(query[c], GetCached(query[c]), TRUE)
      <3>1. Answer(c, "prefer", "prewarmed", row) \/ Visit(c, "prefer", "live")
        BY <2>2 DEF Prefer
      <3> HIDE DEF row
      <3>2. QED BY <1>2, <1>3, <3>1
    <2>3. ASSUME AfterLive(c) PROVE ServeFits(c)'
      <3>1. CASE Visit(c, "resume", "live")
        BY <1>3, <3>1
      <3>2. CASE (At(c, "resume", "store") \/ At(c, "resume", "lookup")) /\ Forget(c)
        BY <1>1, <3>2, AtAt, ForgetAt
      <3>3. QED BY <2>3, <3>1, <3>2 DEF AfterLive
    <2>4. ASSUME Store(c) PROVE ServeFits(c)'
      BY <1>0, <1>2, <2>4 DEF Store, Stages
    <2>5. ASSUME Lookup(c, FALSE) PROVE ServeFits(c)'
      <3> DEFINE row == Good(query[c], GetCached(query[c]), TRUE)
      <3>1. row # {}
        BY <1>0 DEF UsableRow
      <3>2. Answer(c, "lookup", "cache", row) \/ Visit(c, "lookup", "refresh")
        BY <2>5, <3>1 DEF Lookup
      <3> HIDE DEF row
      <3>3. QED BY <1>2, <1>3, <3>2
    <2>6. ASSUME AfterRefresh(c) PROVE ServeFits(c)'
      <3>1. stage[c] = "refresh"
        BY <2>6 DEF AfterRefresh
      <3>2. CASE At(c, "resume", "store") /\ stage' = stage
        BY <1>1, <3>1, <3>2, AtAt
      <3>3. CASE Answer(c, "resume", "cache", kept[c])
        BY <1>2, <3>3
      <3>4. QED BY <2>6, <3>2, <3>3 DEF AfterRefresh
    <2>7. ASSUME StoreRefresh(c) PROVE ServeFits(c)'
      BY <1>2, <2>7 DEF StoreRefresh
    <2>8. ASSUME NEW images, NEW links, Index(c, images, links) PROVE ServeFits(c)'
      BY <1>0, <2>8 DEF Index
    <2>9. ASSUME AfterIndex(c) PROVE ServeFits(c)'
      BY <1>0, <2>9 DEF AfterIndex
    <2>10. ASSUME NEW found, Fixture(c, found) PROVE ServeFits(c)'
      BY <1>0, <2>10 DEF Fixture, Answer, At
    <2>11. QED
      BY <1>6, <2>1, <2>2, <2>3, <2>4, <2>5, <2>6, <2>7, <2>8, <2>9, <2>10
      DEF CallStep, Visits, Works
  <1>7. QED BY <1>4, <1>5, <1>6

LEMMA ServesHold == Spec => []ServeInv
  <1>1. Init => ServeInv
    BY DEF Init, ServeInv, ServeFits
  <1>2. Shape /\ ServeInv /\ [Next]_vars => ServeInv'
    <2>0. SUFFICES ASSUME Shape, ServeInv, [Next]_vars PROVE ServeInv'
      OBVIOUS
    <2>1. CASE UNCHANGED vars
      BY <2>0, <2>1 DEF vars, callVars, ServeInv, ServeFits
    <2>2. CASE Next
      <3>1. /\ faults' \in Nat /\ Steady
            /\ faults' # faults => steady' = {}
        BY <2>0, <2>2, FaultsStep DEF ServeInv, Next, Steady
      <3>2. ASSUME NEW d \in Calls,
                   pc'[d] = pc[d] /\ stage'[d] = stage[d] /\ answer'[d] = answer[d]
            PROVE  ServeFits(d)'
        <4>1. ServeFits(d)
          BY <2>0 DEF ServeInv
        <4>2. d \in steady' => d \in steady
          BY <3>1, <3>2 DEF Steady
        <4>3. QED BY <3>2, <4>1, <4>2 DEF ServeFits
      <3>3. CASE RowExpires
        <4>1. UNCHANGED <<pc, stage, answer>>
          BY <3>3 DEF RowExpires, callVars
        <4>2. QED BY <3>1, <3>2, <4>1 DEF ServeInv
      <3>4. ASSUME NEW c \in Calls, Visits(c) \/ Quiet(c) \/ Works(c) \/ Cancel(c)
            PROVE  /\ pc'[c] # "idle"
                   /\ \A d \in Calls : d # c => ServeFits(d)'
        <4>1. pc'[c] # "idle"
          BY <2>0, <3>4, VisitingStays, QuietEffect, CancelEffect DEF Moves, Shape
        <4>2. QED BY <2>0, <3>2, <3>4, <4>1, OthersStay
      <3>5. CASE faults' # faults
        <4>1. PICK c \in Calls : Visits(c) \/ Quiet(c) \/ Works(c) \/ Cancel(c)
          BY <2>2, <3>5, Kinds DEF RowExpires
        <4>2. ServeFits(c)'
          BY <3>1, <3>4, <3>5, <4>1 DEF ServeFits
        <4>3. QED BY <3>1, <3>4, <4>1, <4>2 DEF ServeInv
      <3>6. ASSUME NEW c \in Calls,
                   (\E prefer \in BOOLEAN : Call(c, prefer)) \/ CallStep(c) \/ Cancel(c)
            PROVE  ServeInv'
        <4>1. Visits(c) \/ Quiet(c) \/ Works(c) \/ Cancel(c)
          BY <3>6 DEF CallStep, Visits, Quiet, Works
        <4>2. ServeFits(c)
          BY <2>0 DEF ServeInv
        <4>3. pc'[c] # "idle" /\ \A d \in Calls : d # c => ServeFits(d)'
          BY <3>4, <4>1
        <4>4. ServeFits(c)'
          <5>1. CASE c \in steady'
            BY <2>0, <3>1, <3>6, <4>2, <4>3, <5>1, ServeStep
          <5>2. CASE c \notin steady'
            BY <4>3, <5>2 DEF ServeFits
          <5>3. QED BY <5>1, <5>2
        <4>5. QED BY <3>1, <4>3, <4>4 DEF ServeInv
      <3>7. CASE faults' = faults
        BY <2>0, <2>2, <3>3, <3>6, <3>7, FaultsStep DEF ServeInv
      <3>8. QED BY <3>5, <3>7
    <2>3. QED BY <2>0, <2>1, <2>2
  <1>3. QED BY <1>1, <1>2, ShapeKept, PTL DEF Spec

\* A row that was usable from the call to its answer is never passed over while the
\* database works, whatever the other calls store, and however often the site fails.
THEOREM UsableRowsServe == Spec => []UsableRowServes
  <1>1. Shape /\ ServeInv /\ steady \subseteq Calls => UsableRowServes
    BY DEF ServeInv, ServeFits, UsableRowServes
  <1>2. Init => steady \subseteq Calls
    BY DEF Init
  <1>3. steady \subseteq Calls /\ [Next]_vars => (steady \subseteq Calls)'
    BY DEF Next, Steady, vars
  <1>4. Spec => [](steady \subseteq Calls)
    BY <1>2, <1>3, PTL DEF Spec
  <1>5. QED BY <1>1, <1>4, ShapeKept, ServesHold, PTL

-------------------------------------------------------------------------------
(* What the calls hold.                                                      *)

\* What answers may come from.
Sources == {"none", "error"} \cup Ends

\* The types of what a call has.
CallTypes ==
  /\ outcome \in [Calls -> Outcomes]
  /\ query \in [Calls -> Queries]
  /\ attempt \in [Calls -> 0..MaxRetries]
  /\ got \in [Calls -> SUBSET Posts]
  /\ kept \in [Calls -> SUBSET Posts]
  /\ answer \in [Calls -> Sources]

\* Writing one entry keeps the type of the function.
LEMMA SetTyped ==
  ASSUME NEW S, NEW f \in [Calls -> S], NEW c \in Calls, NEW v \in S
  PROVE  Set(f, c, v) \in [Calls -> S]
  BY DEF Set

\* Filters bring no posts of their own.
LEMMA GoodPosts ==
  ASSUME NEW q, NEW posts, posts \subseteq Posts, NEW checked
  PROVE  Good(q, posts, checked) \subseteq Posts
  BY DEF Good, ForQuery, Authentic

\* What the cache returns are posts.
LEMMA RowPosts ==
  ASSUME CacheTypeOK, NEW q \in Queries
  PROVE  GetCached(q) \subseteq Posts
  BY DEF CacheTypeOK, GetCached

\* The parts that steps are made of.
LEMMA ForgetTyped ==
  ASSUME CallTypes, NEW c \in Calls, Forget(c)
  PROVE  /\ outcome' \in [Calls -> Outcomes]
         /\ attempt' \in [Calls -> 0..MaxRetries]
         /\ kept' \in [Calls -> SUBSET Posts]
  <1>1. "none" \in Outcomes /\ 0 \in 0..MaxRetries /\ {} \in SUBSET Posts
    BY SearchConstants DEF SearchConstants, Outcomes
  <1>2. /\ outcome' = Set(outcome, c, "none") /\ attempt' = Set(attempt, c, 0)
        /\ kept' = Set(kept, c, {})
    BY DEF Forget
  <1>3. QED BY <1>1, <1>2, SetTyped DEF CallTypes

\* A call answers with posts and one of the sources.
LEMMA AnswerTyped ==
  ASSUME CallTypes, NEW c \in Calls, NEW from, NEW source \in Sources,
         NEW posts \in SUBSET Posts, Answer(c, from, source, posts), query' = query
  PROVE  CallTypes'
  <1>1. /\ outcome' \in [Calls -> Outcomes] /\ attempt' \in [Calls -> 0..MaxRetries]
        /\ kept' \in [Calls -> SUBSET Posts]
    BY ForgetTyped DEF Answer
  <1>2. answer' \in [Calls -> Sources] /\ got' \in [Calls -> SUBSET Posts]
    BY SetTyped DEF Answer, CallTypes
  <1>3. QED BY <1>1, <1>2 DEF CallTypes

\* Starting a visit sets the outcome back to none yet.
LEMMA VisitTyped ==
  ASSUME CallTypes, NEW c \in Calls, NEW from, NEW s, Visit(c, from, s)
  PROVE  outcome' \in [Calls -> Outcomes]
  BY SetTyped DEF Visit, CallTypes, Outcomes

\* The steps around visits.
LEMMA QuietTyped ==
  ASSUME Shape, CallTypes, CacheTypeOK, NEW c \in Calls, Quiet(c)
  PROVE  CallTypes'
  <1> DEFINE Row == Good(query[c], GetCached(query[c]), TRUE)
  <1>1. query[c] \in Queries /\ got[c] \in SUBSET Posts /\ kept[c] \in SUBSET Posts
        /\ attempt[c] \in 0..MaxRetries
    BY DEF CallTypes
  <1>2. Row \in SUBSET Posts
    BY <1>1, RowPosts, GoodPosts
  <1>3. {} \in SUBSET Posts /\ "error" \in Sources /\ Ends \subseteq Sources
    BY DEF Sources
  <1>4. "live" \in Ends /\ "prewarmed" \in Ends /\ "cache" \in Ends /\ "index" \in Ends
        /\ "fixture" \in Ends /\ "degraded" \in Ends
    BY DEF Ends
  <1>5. 1 \in 0..MaxRetries /\ MaxRetries \in Nat
    BY SearchConstants DEF SearchConstants
  <1> HIDE DEF Row
  <1>6. ASSUME NEW prefer \in BOOLEAN, Call(c, prefer) PROVE CallTypes'
    <2>1. UNCHANGED <<query, got, kept, answer>>
      BY <1>6 DEF Call
    <2>2. CASE prefer
      BY <1>6, <2>1, <2>2 DEF Call, CallTypes
    <2>3. CASE ~prefer
      <3>1. Visit(c, "idle", "live") /\ attempt' = Set(attempt, c, 1)
        BY <1>6, <2>3 DEF Call
      <3>2. outcome' \in [Calls -> Outcomes] /\ attempt' \in [Calls -> 0..MaxRetries]
        BY <1>5, <3>1, VisitTyped, SetTyped DEF CallTypes
      <3>3. QED BY <2>1, <3>2 DEF CallTypes
    <2>4. QED BY <2>2, <2>3
  <1>7. ASSUME NEW fails \in BOOLEAN, Prefer(c, fails) PROVE CallTypes'
    <2>1. query' = query
      BY <1>7 DEF Prefer
    <2>2. CASE Answer(c, "prefer", "prewarmed", Row)
      BY <1>2, <1>3, <1>4, <2>1, <2>2, AnswerTyped
    <2>3. CASE /\ Visit(c, "prefer", "live") /\ attempt' = Set(attempt, c, 1)
               /\ UNCHANGED <<got, kept, answer>>
      <3>1. outcome' \in [Calls -> Outcomes] /\ attempt' \in [Calls -> 0..MaxRetries]
        BY <1>5, <2>3, VisitTyped, SetTyped DEF CallTypes
      <3>2. QED BY <2>1, <2>3, <3>1 DEF CallTypes
    <2>4. QED BY <1>7, <2>2, <2>3 DEF Prefer, Row
  <1>8. ASSUME AfterLive(c) PROVE CallTypes'
    <2>1. UNCHANGED <<query, answer>>
      BY <1>8 DEF AfterLive
    <2>2. CASE /\ attempt[c] < MaxRetries /\ Visit(c, "resume", "live")
               /\ attempt' = Set(attempt, c, attempt[c] + 1) /\ UNCHANGED <<got, kept>>
      <3>1. attempt[c] + 1 \in 0..MaxRetries
        BY <1>1, <1>5, <2>2
      <3>2. outcome' \in [Calls -> Outcomes] /\ attempt' \in [Calls -> 0..MaxRetries]
        BY <2>2, <3>1, VisitTyped, SetTyped DEF CallTypes
      <3>3. QED BY <2>1, <2>2, <3>2 DEF CallTypes
    <2>3. ASSUME NEW posts \in SUBSET Posts, got' = Set(got, c, posts), Forget(c)
          PROVE  CallTypes'
      <3>1. got' \in [Calls -> SUBSET Posts]
        BY <2>3, SetTyped DEF CallTypes
      <3>2. QED BY <2>1, <2>3, <3>1, ForgetTyped DEF CallTypes
    <2>4. Fresh(c) \in SUBSET Posts
      BY <1>1, GoodPosts DEF Fresh
    <2>5. QED BY <1>3, <1>8, <2>2, <2>3, <2>4 DEF AfterLive
  <1>9. ASSUME Store(c) PROVE CallTypes'
    <2>1. stage[c] \in Sources
      BY <1>3, <1>4, <1>9 DEF Store, Shape
    <2>2. QED BY <1>1, <1>9, <2>1, AnswerTyped DEF Store
  <1>10. ASSUME StoreFails(c) PROVE CallTypes'
    <2>1. UNCHANGED <<query, answer>> /\ got' = Set(got, c, {}) /\ Forget(c)
      BY <1>10 DEF StoreFails
    <2>2. got' \in [Calls -> SUBSET Posts]
      BY <1>3, <2>1, SetTyped DEF CallTypes
    <2>3. QED BY <2>1, <2>2, ForgetTyped DEF CallTypes
  <1>11. ASSUME NEW fails \in BOOLEAN, Lookup(c, fails) PROVE CallTypes'
    <2>1. query' = query
      BY <1>11 DEF Lookup
    <2>2. CASE UNCHANGED <<door, outcome, stage, attempt, got, kept, answer>>
      BY <2>1, <2>2 DEF CallTypes
    <2>3. CASE Answer(c, "lookup", "cache", Row)
      BY <1>2, <1>3, <1>4, <2>1, <2>3, AnswerTyped
    <2>4. CASE /\ Visit(c, "lookup", "refresh") /\ got' = Set(got, c, Row)
               /\ kept' = Set(kept, c, Row) /\ UNCHANGED <<attempt, answer>>
      <3>1. /\ outcome' \in [Calls -> Outcomes] /\ got' \in [Calls -> SUBSET Posts]
            /\ kept' \in [Calls -> SUBSET Posts]
        BY <1>2, <2>4, VisitTyped, SetTyped DEF CallTypes
      <3>2. QED BY <2>1, <2>4, <3>1 DEF CallTypes
    <2>5. QED BY <1>11, <2>2, <2>3, <2>4 DEF Lookup, Row
  <1>12. ASSUME AfterRefresh(c) PROVE CallTypes'
    <2> DEFINE better == Good(query[c], IF outcome[c] = "posts" THEN got[c] ELSE kept[c], FALSE)
    <2>1. query' = query
      BY <1>12 DEF AfterRefresh
    <2>2. better \in SUBSET Posts
      BY <1>1, GoodPosts
    <2>3. CASE got' = Set(got, c, better) /\ UNCHANGED <<outcome, attempt, kept, answer>>
      <3> HIDE DEF better
      <3>1. got' \in [Calls -> SUBSET Posts]
        BY <2>2, <2>3, SetTyped DEF CallTypes
      <3>2. QED BY <2>1, <2>3, <3>1 DEF CallTypes
    <2>4. CASE Answer(c, "resume", "cache", kept[c])
      BY <1>1, <1>3, <1>4, <2>1, <2>4, AnswerTyped
    <2>5. QED BY <1>12, <2>3, <2>4 DEF AfterRefresh
  <1>13. ASSUME StoreRefresh(c) PROVE CallTypes'
    BY <1>1, <1>3, <1>4, <1>13, AnswerTyped DEF StoreRefresh
  <1>14. ASSUME StoreRefreshFails(c) PROVE CallTypes'
    BY <1>3, <1>14, AnswerTyped DEF StoreRefreshFails
  <1>15. ASSUME NEW images \in ImagePages, NEW links \in LinkPages, Index(c, images, links)
         PROVE  CallTypes'
    <2> DEFINE stubs == {p \in Merged(images, links) : NeedsDetail(p)}
    <2>1. UNCHANGED <<query, attempt, kept, answer>>
      BY <1>15 DEF Index
    <2>2. stubs \in SUBSET Posts
      BY SearchConstants DEF SearchConstants, Merged
    <2>3. CASE UNCHANGED <<outcome, got>>
      BY <2>1, <2>3 DEF CallTypes
    <2>4. CASE Visit(c, "index", "index") /\ got' = Set(got, c, stubs)
      <3> HIDE DEF stubs
      <3>1. outcome' \in [Calls -> Outcomes] /\ got' \in [Calls -> SUBSET Posts]
        BY <2>2, <2>4, VisitTyped, SetTyped DEF CallTypes
      <3>2. QED BY <2>1, <3>1 DEF CallTypes
    <2>5. QED BY <1>15, <2>3, <2>4 DEF Index
  <1>16. ASSUME AfterIndex(c) PROVE CallTypes'
    <2> DEFINE relevant == ForQuery(got[c], Terms[query[c]], FALSE)
    <2>1. UNCHANGED <<outcome, query, attempt, kept, answer>> /\ got' = Set(got, c, relevant)
      BY <1>16 DEF AfterIndex
    <2>2. relevant \in SUBSET Posts
      BY <1>1 DEF ForQuery
    <2> HIDE DEF relevant
    <2>3. got' \in [Calls -> SUBSET Posts]
      BY <2>1, <2>2, SetTyped DEF CallTypes
    <2>4. QED BY <2>1, <2>3 DEF CallTypes
  <1>17. ASSUME NEW known \in BOOLEAN, Fixture(c, known) PROVE CallTypes'
    BY <1>3, <1>4, <1>17, AnswerTyped DEF Fixture
  <1>18. QED
    BY <1>6, <1>7, <1>8, <1>9, <1>10, <1>11, <1>12, <1>13, <1>14, <1>15, <1>16, <1>17 DEF Quiet

\* A visit sets its outcome only; the work of one brings posts.
LEMMA WorkTyped ==
  ASSUME CallTypes, NEW c \in Calls, Visits(c) \/ Works(c)
  PROVE  CallTypes'
  <1>1. CASE Visits(c)
    <2>1. UNCHANGED callVars
      BY <1>1 DEF Visits
    <2>2. outcome' \in [Calls -> Outcomes]
      BY <1>1 DEF Visits, VisitStep, AcquireLock, StartDriver, Launch, OpenContext, OpenPage,
         VisitFails, ClosePage, CloseContext, CallTypes, Outcomes
    <2>3. QED BY <2>1, <2>2 DEF CallTypes, callVars
  <1>2. ASSUME NEW raw \in SitePages, Scrape(c, raw) PROVE CallTypes'
    <2>1. outcome' = [outcome EXCEPT ![c] = "posts"] /\ got' = Set(got, c, raw)
          /\ UNCHANGED <<query, attempt, kept, answer>>
      BY <1>2 DEF Scrape, Leave
    <2>2. raw \in SUBSET Posts
      BY SearchConstants DEF SearchConstants
    <2>3. got' \in [Calls -> SUBSET Posts] /\ outcome' \in [Calls -> Outcomes]
      BY <2>1, <2>2, SetTyped DEF CallTypes, Outcomes
    <2>4. QED BY <2>1, <2>3 DEF CallTypes
  <1>3. ASSUME NEW result \in {"busy", "failed"}, ScrapeFails(c, result) PROVE CallTypes'
    BY <1>3 DEF ScrapeFails, Leave, CallTypes, Outcomes, callVars
  <1>4. ASSUME NEW opened \in SUBSET got[c], Enrich(c, opened) PROVE CallTypes'
    <2> DEFINE posts == Detailed(got[c], opened)
    <2>1. outcome' = [outcome EXCEPT ![c] = "posts"] /\ got' = Set(got, c, posts)
          /\ UNCHANGED <<query, attempt, kept, answer>>
      BY <1>4 DEF Enrich, Leave
    <2>2. posts \in SUBSET Posts
      BY SearchConstants DEF SearchConstants, Detailed, CallTypes
    <2> HIDE DEF posts
    <2>3. got' \in [Calls -> SUBSET Posts] /\ outcome' \in [Calls -> Outcomes]
      BY <2>1, <2>2, SetTyped DEF CallTypes, Outcomes
    <2>4. QED BY <2>1, <2>3 DEF CallTypes
  <1>5. QED BY <1>1, <1>2, <1>3, <1>4 DEF Works

\* A cancelled call drops what it has.
LEMMA CancelTyped ==
  ASSUME CallTypes, NEW c \in Calls, Cancel(c)
  PROVE  CallTypes'
  <1>1. UNCHANGED <<query, answer>> /\ got' = Set(got, c, {}) /\ Forget(c)
    BY DEF Cancel
  <1>2. got' \in [Calls -> SUBSET Posts]
    BY <1>1, SetTyped DEF CallTypes
  <1>3. QED BY <1>1, <1>2, ForgetTyped DEF CallTypes

\* The types of the shared browser.
DoorTypes == up \in [Doors -> BOOLEAN] /\ ctx \subseteq Calls /\ page \subseteq Calls

\* Contexts and pages belong to calls.
LEMMA DoorsTyped ==
  ASSUME Shape, DoorTypes, NEW c \in Calls, Visits(c) \/ Quiet(c) \/ Works(c) \/ Cancel(c)
  PROVE  DoorTypes'
  <1>1. CASE Visits(c)
    <2>1. up' = up \/ up' = [up EXCEPT ![door[c]] = TRUE]
      BY <1>1 DEF Visits, VisitStep, AcquireLock, StartDriver, Launch, OpenContext, OpenPage,
         VisitFails, ClosePage, CloseContext
    <2>2. ctx' \in {ctx, ctx \cup {c}, ctx \ {c}} /\ page' \in {page, page \cup {c}, page \ {c}}
      BY <1>1 DEF Visits, VisitStep, AcquireLock, StartDriver, Launch, OpenContext, OpenPage,
         VisitFails, ClosePage, CloseContext
    <2>3. QED BY <2>1, <2>2 DEF DoorTypes
  <1>2. CASE Quiet(c) \/ Works(c)
    BY <1>2, QuietEffect, WorkEffect DEF DoorTypes, browserVars
  <1>3. CASE Cancel(c)
    BY <1>3 DEF Cancel, CancelVisit, DoorTypes, browserVars
  <1>4. QED BY <1>1, <1>2, <1>3

\* Rows are written with posts in them: put_cached() is never called with nothing.
LEMMA RowsTyped ==
  ASSUME Shape, CallTypes, CacheTypeOK, AnswerInv, NEW c \in Calls,
         Visits(c) \/ Quiet(c) \/ Works(c) \/ Cancel(c)
  PROVE  CacheTypeOK'
  <1>1. CASE UNCHANGED cacheVars
    BY <1>1 DEF CacheTypeOK, cacheVars
  <1>2. CASE pc[c] = "store" /\ PutCached(query[c], got[c])
    <2>1. got[c] # {} /\ got[c] \subseteq Posts /\ query[c] \in Queries
      BY <1>2 DEF AnswerInv, AnswerFits, CallTypes
    <2>2. QED BY <1>2, <2>1 DEF PutCached, CacheTypeOK
  <1>3. CASE Visits(c) \/ Works(c) \/ Cancel(c)
    BY <1>1, <1>3 DEF Visits, Works, Scrape, ScrapeFails, Enrich, Cancel
  <1>4. CASE Quiet(c)
    BY <1>1, <1>2, <1>4 DEF Quiet, Call, Prefer, AfterLive, Store, StoreFails, Lookup,
       AfterRefresh, StoreRefresh, StoreRefreshFails, Index, AfterIndex, Fixture, Answer, At
  <1>5. QED BY <1>3, <1>4

\* What is bounded.
Bounded == steady \subseteq Calls /\ faults \in Nat /\ cancels + faults <= MaxMishaps

\* Mishaps are counted, and never above their bound.
LEMMA BoundsKept ==
  ASSUME Shape, Bounded, [Next]_vars
  PROVE  Bounded'
  <1>1. cancels \in Nat /\ faults \in Nat /\ MaxMishaps \in Nat
        /\ cancels + faults <= MaxMishaps
    BY SearchConstants DEF SearchConstants, Shape, Bounded
  <1>2. CASE UNCHANGED vars
    BY <1>2 DEF vars, Bounded
  <1>3. CASE Next
    <2>1. steady' \subseteq Calls
      BY <1>3 DEF Next, Steady
    <2>2. CASE UNCHANGED <<cancels, faults>>
      BY <1>1, <2>1, <2>2 DEF Bounded
    <2>3. ASSUME NEW c \in Calls, DatabaseFault(c) PROVE Bounded'
      <3>1. faults' = faults + 1 /\ cancels + faults < MaxMishaps /\ cancels' = cancels
        BY <2>3 DEF DatabaseFault, Prefer, Lookup, StoreFails, StoreRefreshFails
      <3>2. QED BY <1>1, <2>1, <3>1 DEF Bounded
    <2>4. ASSUME NEW c \in Calls, Cancel(c) PROVE Bounded'
      <3>1. cancels' = cancels + 1 /\ cancels + faults < MaxMishaps /\ faults' = faults
        BY <2>4 DEF Cancel
      <3>2. QED BY <1>1, <2>1, <3>1 DEF Bounded
    <2>5. ASSUME NEW c \in Calls, (\E prefer \in BOOLEAN : Call(c, prefer)) \/ CallStep(c)
          PROVE  Bounded'
      <3>1. UNCHANGED <<cancels, faults>>
        BY <2>5 DEF Call, CallStep, Prefer, Scrape, ScrapeFails, Enrich, AfterLive, Store,
           Lookup, AfterRefresh, StoreRefresh, Index, AfterIndex, Fixture
      <3>2. QED BY <2>2, <3>1
    <2>6. CASE RowExpires
      BY <2>2, <2>6 DEF RowExpires
    <2>7. QED BY <1>3, <2>3, <2>4, <2>5, <2>6 DEF Next
  <1>4. QED BY <1>2, <1>3

\* The invariant SearchTyped rests on.
TypeInv == CallTypes /\ DoorTypes /\ CacheTypeOK /\ Bounded

\* Everything is of its type in every reachable state.
LEMMA TypesHold == Spec => []TypeInv
  <1>1. Init => TypeInv
    <2>1. SUFFICES ASSUME Init PROVE TypeInv
      OBVIOUS
    <2>2. MaxRetries \in Nat /\ MaxMishaps \in Nat
      BY SearchConstants DEF SearchConstants
    <2>3. CallTypes
      BY <2>1, <2>2 DEF Init, CallTypes, Outcomes, Sources
    <2>4. DoorTypes
      BY <2>1 DEF Init, BrowserInit, DoorTypes
    <2>5. CacheTypeOK
      BY <2>1 DEF Init, CacheTypeOK
    <2>6. Bounded
      BY <2>1, <2>2 DEF Init, Bounded
    <2>7. QED BY <2>3, <2>4, <2>5, <2>6 DEF TypeInv
  <1>2. Shape /\ AnswerInv /\ TypeInv /\ [Next]_vars => TypeInv'
    <2>1. SUFFICES ASSUME Shape, AnswerInv, TypeInv, [Next]_vars PROVE TypeInv'
      OBVIOUS
    <2>2. Bounded'
      BY <2>1, BoundsKept DEF TypeInv
    <2>3. CASE UNCHANGED vars
      BY <2>1, <2>2, <2>3 DEF TypeInv, CallTypes, DoorTypes, CacheTypeOK, vars, browserVars,
         callVars
    <2>4. CASE RowExpires
      <3>1. UNCHANGED <<outcome, query, attempt, got, kept, answer, up, ctx, page, cache>>
            /\ live' \subseteq live
        BY <2>4 DEF RowExpires, Expire, callVars, browserVars
      <3>2. QED BY <2>1, <2>2, <3>1 DEF TypeInv, CallTypes, DoorTypes, CacheTypeOK
    <2>5. ASSUME NEW c \in Calls, Visits(c) \/ Quiet(c) \/ Works(c) \/ Cancel(c)
          PROVE  TypeInv'
      BY <2>1, <2>2, <2>5, QuietTyped, WorkTyped, CancelTyped, DoorsTyped, RowsTyped
      DEF TypeInv
    <2>6. QED BY <2>1, <2>3, <2>4, <2>5, Kinds
  <1>3. QED BY <1>1, <1>2, ShapeKept, AnswersHold, PTL DEF Spec

\* Every variable keeps its type, retries and mishaps within their bounds; in particular a
\* row that has not expired has posts in it, since put_cached() is never given none.
THEOREM SearchTyped == Spec => []SearchTypeOK
  <1>1. Shape /\ TypeInv => SearchTypeOK
    BY DEF Shape, TypeInv, CallTypes, DoorTypes, Bounded, SearchTypeOK, BrowserTypeOK, Stops,
       Sources
  <1>2. QED BY <1>1, ShapeKept, TypesHold, PTL
===============================================================================
