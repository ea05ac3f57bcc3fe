---------------------------- MODULE BrowserSession ----------------------------
(***************************************************************************)
(* The shared browser of core/tools/_playwright_session.py: one Playwright *)
(* driver, one Chromium for public contexts, one persistent context for a  *)
(* configured profile, each in a slot of the process and started by the    *)
(* first call that needs it, under the lock of that slot.  A visit is one  *)
(* passage of a call: the context it opens, its page, the work on it, and  *)
(* the closing of both.                                                    *)
(***************************************************************************)
EXTENDS Naturals, FiniteSets

CONSTANTS Calls, NoCall

ASSUME BrowserConstants == NoCall \notin Calls

VARIABLES
  profile,   \* a browser profile is configured (it never changes)
  driver,    \* _pw_ctx_slot is filled
  drivers,   \* driver processes started since the process began
  up,        \* door -> the slot of its browser is filled
  lock,      \* door -> the call that holds its lock
  ctx,       \* calls whose own context is open
  page,      \* calls whose page is open
  leaks,     \* browsers, contexts and pages that nobody closes any more
  cancels,   \* calls that were cancelled (history)
  pc,        \* call -> where it is
  door,      \* call -> the slot its visit goes through
  outcome    \* call -> what the visit brought

browserVars == <<profile, driver, drivers, up, lock, ctx, page, leaks>>

Doors == {"browser", "profile"}
Visiting == {"lock", "driver", "launch", "context", "page", "work", "close_page",
             "close_context"}
Outcomes == {"none", "busy", "failed", "posts"}

BrowserTypeOK ==
  /\ profile \in BOOLEAN
  /\ driver \in BOOLEAN
  /\ drivers \in Nat
  /\ up \in [Doors -> BOOLEAN]
  /\ lock \in [Doors -> Calls \cup {NoCall}]
  /\ ctx \subseteq Calls
  /\ page \subseteq Calls
  /\ leaks \in Nat
  /\ cancels \in Nat
  /\ door \in [Calls -> Doors]
  /\ outcome \in [Calls -> Outcomes]

BrowserInit ==
  /\ profile \in BOOLEAN
  /\ driver = FALSE
  /\ drivers = 0
  /\ up = [d \in Doors |-> FALSE]
  /\ lock = [d \in Doors |-> NoCall]
  /\ ctx = {}
  /\ page = {}
  /\ leaks = 0

At(c, from, to) ==
  /\ pc[c] = from
  /\ pc' = [pc EXCEPT ![c] = to]

\* What follows once the browser behind the door is there: the profile's context is
\* shared, so only a public visit opens one of its own.
Inside(c) == IF door[c] = "profile" THEN "page" ELSE "context"

\* Mutation of AcquireLock: the early return under the lock does not release it.
AcquireAndKeep(c) ==
  /\ lock[door[c]] = NoCall
  /\ At(c, "lock", IF up[door[c]] THEN Inside(c) ELSE IF driver THEN "launch" ELSE "driver")
  /\ lock' = [lock EXCEPT ![door[c]] = c]
  /\ UNCHANGED <<profile, driver, drivers, up, ctx, page, leaks, door, outcome>>

\* Take the lock.  Nothing is awaited when the slot is filled, so the lock is free again.
AcquireLock(c) ==
  /\ lock[door[c]] = NoCall
  /\ IF up[door[c]]
       THEN /\ At(c, "lock", Inside(c))
            /\ UNCHANGED lock
       ELSE /\ At(c, "lock", IF driver THEN "launch" ELSE "driver")
            /\ lock' = [lock EXCEPT ![door[c]] = c]
  /\ UNCHANGED <<profile, driver, drivers, up, ctx, page, leaks, door, outcome>>

StartDriver(c) ==
  /\ At(c, "driver", "launch")
  /\ driver' = TRUE
  /\ drivers' = drivers + 1
  /\ UNCHANGED <<profile, up, lock, ctx, page, leaks, door, outcome>>

Launch(c) ==
  /\ At(c, "launch", Inside(c))
  /\ up' = [up EXCEPT ![door[c]] = TRUE]
  /\ lock' = [lock EXCEPT ![door[c]] = NoCall]
  /\ UNCHANGED <<profile, driver, drivers, ctx, page, leaks, door, outcome>>

\* _open_scrape_context().  A visit that only opens details does it without a page.
OpenContext(c, withPage) ==
  /\ At(c, "context", IF withPage THEN "page" ELSE "work")
  /\ ctx' = ctx \cup {c}
  /\ UNCHANGED <<profile, driver, drivers, up, lock, page, leaks, door, outcome>>

OpenPage(c) ==
  /\ At(c, "page", "work")
  /\ page' = page \cup {c}
  /\ UNCHANGED <<profile, driver, drivers, up, lock, ctx, leaks, door, outcome>>

\* Where the finally clause begins.
Leaving(c) == IF c \in page THEN "close_page" ELSE IF c \in ctx THEN "close_context"
              ELSE "resume"

\* The navigation and the scraping end.
Leave(c, result) ==
  /\ At(c, "work", Leaving(c))
  /\ outcome' = [outcome EXCEPT ![c] = result]
  /\ UNCHANGED <<browserVars, door>>

Unlock(c) == [d \in Doors |-> IF lock[d] = c THEN NoCall ELSE lock[d]]

\* Mutation of VisitFails: no finally clause.
VisitFailsOpen(c) ==
  /\ pc[c] \in {"driver", "launch", "context", "page"}
  /\ pc' = [pc EXCEPT ![c] = "resume"]
  /\ lock' = Unlock(c)
  /\ outcome' = [outcome EXCEPT ![c] = "failed"]
  /\ UNCHANGED <<profile, driver, drivers, up, ctx, page, leaks, door>>

\* Starting, opening or navigating raises; a lock is released by its with statement.
VisitFails(c) ==
  /\ pc[c] \in {"driver", "launch", "context", "page"}
  /\ pc' = [pc EXCEPT ![c] = Leaving(c)]
  /\ lock' = Unlock(c)
  /\ outcome' = [outcome EXCEPT ![c] = "failed"]
  /\ UNCHANGED <<profile, driver, drivers, up, ctx, page, leaks, door>>

ClosePage(c) ==
  /\ At(c, "close_page", IF c \in ctx THEN "close_context" ELSE "resume")
  /\ page' = page \ {c}
  /\ UNCHANGED <<profile, driver, drivers, up, lock, ctx, leaks, door, outcome>>

CloseContext(c) ==
  /\ At(c, "close_context", "resume")
  /\ ctx' = ctx \ {c}
  /\ UNCHANGED <<profile, driver, drivers, up, lock, page, leaks, door, outcome>>

VisitStep(c, withPage) ==
  \/ AcquireLock(c) \/ StartDriver(c) \/ Launch(c)
  \/ OpenContext(c, withPage) \/ OpenPage(c) \/ VisitFails(c)
  \/ ClosePage(c) \/ CloseContext(c)

\* What a cancellation at this point may lose: the context, when it comes inside the
\* finally clause (contextlib.suppress(Exception) lets CancelledError through, and the
\* rest of the clause is skipped); or what the awaited call of the driver made but never
\* returned, a browser, a context, or a page (of the results or of a detail) that no
\* context of its own takes along.
Lost(c) ==
  CASE pc[c] = "close_page" /\ c \in ctx -> {1}
    [] pc[c] \in {"launch", "context", "close_context"} -> {0, 1}
    [] pc[c] \in {"page", "work", "close_page"} /\ c \notin ctx -> {0, 1}
    [] OTHER -> {0}

\* The call is cancelled at its await.  Before the work is over the finally clause runs
\* and closes what is open.  A driver that was being started stays without a slot.
CancelVisit(c) ==
  /\ pc[c] \in Visiting
  /\ lock' = Unlock(c)
  /\ drivers' \in drivers .. (IF pc[c] = "driver" THEN drivers + 1 ELSE drivers)
  /\ \E n \in Lost(c) : leaks' = leaks + n
  /\ page' = page \ {c}
  /\ ctx' = ctx \ {c}
  /\ UNCHANGED <<profile, driver, up>>

-------------------------------------------------------------------------------
\* A lock is held by the call that starts something under it, and contexts and pages
\* belong to visits in progress: no call leaves them behind unless it was cancelled, and
\* then one context at most.  Only with a profile, whose slot has a lock of its own, can
\* two calls start a driver at once.
NothingLeftBehind ==
  /\ \A d \in Doors : \A c \in Calls :
       lock[d] = c <=> pc[c] \in {"driver", "launch"} /\ door[c] = d
  /\ ctx \subseteq {c \in Calls : pc[c] \in {"page", "work", "close_page", "close_context"}}
  /\ page \subseteq {c \in Calls : pc[c] \in {"work", "close_page"}}
  /\ leaks + drivers <= cancels + (IF profile THEN 2 ELSE 1)
===============================================================================
