# plusOne: models and proofs

plusOne is a travel-companion service. A FastAPI process accepts a trip query,
asks the user clarifying questions when the query is vague, runs a cycle of
language-model agents in the background, stores a report and streams progress to
the browser. A report can be refined afterwards. Its evidence comes from tools, one
of which drives a browser, and from a cache that batch jobs fill in advance. This
directory holds TLA+ modules of these parts, the TLC configurations that check
them, and TLAPS proofs.

Paths below are relative to the repository; `PKG` stands for
`src/backend/src/plus_one`.

## 1. The system

| Part | State it keeps | Operations | Interacts with |
|---|---|---|---|
| Trips API (`PKG/api/trips.py`) | none of its own | create, clarify, skip, refine, delete, share, revoke, stream, reads | takes the trip's row lock, flips the status, calls `register`, schedules a run |
| Trip runner (`PKG/services/trip_runner.py`) | locals of one coroutine | `run_trip`, `run_refine` | drives the agents, commits reports and statuses, publishes events |
| Event broker (same file) | `_queues`: trip → `asyncio.Queue` | `register`, `subscribe`, `_publish`, `_drop_queue` | filled by runs, emptied by SSE responses |
| Agent cycle (`PKG/core/agents/framework/cycle.py`) | `AgentContext`: depth, items, summary | `_step_cycle`, `run_cycle` | calls producer, joiner, controller; feeds the pumps of `run_trip` |
| Controller (`PKG/agents/controller.py`) | none | rules, then the model | decides whether another round starts |
| Joiner (`PKG/agents/joiner.py`) | locals of one phase | tool calls, filter, images, model, repair, fallback | tools, model |
| Other agents (`PKG/agents/`) | none | one model call each | called by the cycle and the runner |
| Database (`PKG/core/db/`) | users, trips, reports, codes, caches | sessions, one transaction each | `session_scope` in the runner, `get_session` in requests; pool of 5+5 |
| Accounts (`PKG/api/auth.py`, `PKG/core/auth/`) | users, email codes, lockout counters, in-process limiters | register, verify, login, request code, log in with a code | mail, database |
| Account API (`PKG/api/me.py`) | – | export, delete account | deletes trips by cascade, also running ones |
| Profile and companions (`PKG/api/profile.py`, `companions.py`) | rows of one user | create, update, delete, upsert | companions of a trip are chosen at creation and loaded by the runner |
| Lists, pages and links (`PKG/api/trips.py`, `shared.py`) | `shared_trips` | list, page, history, mint, revoke, public page | read what the runner commits |
| Tools and cache (`PKG/core/tools/`) | `tool_cache` rows with a lifetime | get, put | joiner, prewarm |
| Browser session (`PKG/core/tools/_playwright_session.py`) | slots of the process: driver, browser, profile context; their locks | fetch, enrich | `xhs_search`, called concurrently |
| Xiaohongshu search (`PKG/core/tools/xiaohongshu.py`) | none | the tiers of one search | browser, cache, search index |
| Prewarm (`PKG/scripts/xhs_prewarm.py`) | report file, jsonl file | run, resume, sanitise, coverage, import | cache, browser |
| Log tail (`PKG/core/logs/buffer.py`) | ring buffer, bounded subscriber queues | log, subscribe | admin SSE |
| Frontend (`src/frontend/`) | page state, streams, polling | create, refine, watch | trips API and SSE |

### What is hard in it

* **Interleaving.** Everything runs on one event loop, but a request handler, a
  background run and several SSE responses of the same trip interleave at every
  `await`. A commit is visible to other requests before the coroutine that awaits
  it resumes, so *row committed* and *next line reached* are different moments.
* **Stale reads.** A refine chooses its base report in the handler and stores its
  own minutes later; the runner looks at the trip's row once and never again.
* **Partial failure.** Saving a report, the itinerary, translations and the final
  status are four transactions. Each may fail, or may take effect and lose its
  answer; account deletion may fall between any two.
* **Crash.** Queues and runs live in memory; a restart resumes nothing.
* **Delivery.** A queue object outlives its entry in `_queues`; several streams of
  one trip share one queue and one end marker.
* **Row locks.** A request of the account endpoints is one transaction that stays
  open while a mail is sent and until after its response. Its statements wait for
  rows of other requests, read before they write, and are taken back as a whole by
  an exception, an `HTTPException` included.
* **Bounds and timeouts.** Each phase of a cycle may time out, raise or be
  cancelled in every round; the depth cap is compared after an increment; three
  different pieces of code write down what happened.
* **Shared browser.** Concurrent searches start one driver and one browser under a
  lock; a phase timeout cancels them at any await, in the clean-up too.
* **Cached rows.** A row is read, improved for seconds in the browser and written
  back, while another call rewrites it, it expires, or a statement fails.
* **Files without transactions.** The prewarm job has a cache row, a copy of it, a
  line of a file and a report for each hit and may be killed between any two.
* **An answer that is not trusted.** The joiner gets any subset of its tool results
  and a model's list of cards, names and scores of any shape.
* **Statements of one request.** Counting, checking a name and inserting; the trips
  of a page and the next page; a link, its trip and its report: each statement sees
  what others have committed meanwhile.

The same list, at the lines where each item bites and with the properties that
would catch it, is under `hazards` in `PROJECT.json`.

## 2. Modules

| Module | Models | Role |
|---|---|---|
| `TripBroker` | broker of `trip_runner.py`, `stream_trip` | operators and stream actions, extended by `TripRuns` |
| `TripRuns` | handlers, `run_trip`, `run_refine`, rows, failures, crashes | the core composition |
| `TripContract` | what readers of a trip are promised | abstract specification of `TripRuns` |
| `MCTrip` | – | symmetry sets for TLC |
| `TripProofs` | – | theorems about `TripRuns` |
| `AgentCycle` | `_step_cycle`, `run_cycle`, `_rule_decision`, the pumps | one cycle of agents |
| `CycleContract` | what `run_trip` relies on of a cycle | abstract specification of `AgentCycle` |
| `MCCycle` | – | instance for TLC |
| `CycleProofs` | – | theorems about `AgentCycle` |
| `Accounts` | `api/auth.py`, `core/auth/`, `delete_me`, the locks of PostgreSQL they meet | the codes and the account of one address |
| `MCAccounts` | – | symmetry set for TLC |
| `AccountProofs` | – | theorems about `Accounts` |
| `XhsPosts` | the tests a post must pass (authenticity, relevance, images) in `xiaohongshu.py` and `xhs_prewarm.py` | operators of `XhsSearch` and `Prewarm` |
| `ToolCache` | `core/tools/_cache_db.py` | rows and lifetimes, extended by both |
| `BrowserSession` | `core/tools/_playwright_session.py` | slots, locks and one visit |
| `XhsSearch` | `_execute_real` of `xiaohongshu.py` and its tiers | composes `BrowserSession`, `ToolCache`, `XhsPosts` |
| `MCSearch`, `SearchProofs` | – | instance; theorems about `XhsSearch` |
| `Prewarm` | `scripts/xhs_prewarm.py` | the batch job, its files and crashes |
| `MCPrewarm`, `PrewarmProofs` | – | instance; theorems about `Prewarm` |
| `Joiner` | `agents/joiner.py`, `dispatch`, `_divergence`, `_scoring` | one joiner phase |
| `MCJoiner`, `JoinerProofs` | – | instance; theorems about `Joiner` |
| `Companions` | `api/companions.py`, `api/profile.py`, companions in `api/trips.py` and the runner | overlapping requests of a user |
| `MCCompanions`, `CompanionProofs` | – | instance; theorems about `Companions` |
| `TripPages` | list, page, history and share endpoints, `api/shared.py` | what is shown of trips |
| `MCPages`, `PageProofs` | – | symmetry set; theorems about `TripPages` |

### TripBroker and TripRuns: state and code

| Variable | Code |
|---|---|
| `queueOf`, `buf` | `_queues` and the contents of its queue objects. A queue object is named by the run and the place (`handler`, `runner`) that created it, since an object outlives its entry |
| `at`, `watches`, `queue`, `last` | one SSE response: the state of `event_generator`/`subscribe`, its trip, the queue object it holds, and the last event it forwarded (a history variable) |
| `row`, `reports` | `trips.status` as committed and the trip's `reports` rows in creation order |
| `kind`, `tripOf`, `prev` | which coroutine, its trip, and `previous_report_id` |
| `pc` | how far the run is: see below |
| `phases`, `outcome`, `items`, `extras` | progress events published; `aborted_reason` and `report_save_failed` together; whether the item list is non-empty; what was patched into the stored report |

A step is the code between two awaits that can suspend. `asyncio.Queue()` is
unbounded, so `await queue.put` never suspends and publishing is part of the step
around it. The program counter of a run:

| `pc` | Reached when | Left by |
|---|---|---|
| `idle` | nobody asked for it | `CreateRunning`, `Clarify`, `Refine` |
| `accepted` | the handler's transaction committed `running` | `Respond` (`register`, `add_task`, return), `AcceptFails` |
| `scheduled` | response returned | `Begin` (`register` again) |
| `begun`, `marked`, `loaded` | first `_set_status`, profile and dates (previous report) | `MarkRunning`, `Load`, `Escape` |
| `loaded` | agents at work | `Phase`, `CycleOk`, `CycleAbort`, `RefineOk`, `RefineAbort` |
| `produced` | the agents are done | `SaveReport`, `SaveFails` |
| `saved`, `planned`, `enriched` | report, itinerary, translations | `PlanDays`, `Translate`, `Settle`, `SettleFails` |
| `settled` | final status committed | `Announce` (`trip_complete`, `_EOF`, drop) |
| `done`, `raised`, `lost` | over; by an exception; by a crash or a failed handler | – |

`outcome = "blank"` is an abort whose exception has no text: `aborted_reason` is
then the empty string, which `if not aborted_reason` and `is not None` read
differently. Both tests are in the model (`Saves`, `Final`).

Handlers read and write under the row lock in one transaction, so each is one
action whose effect is its commit; what the handler does after the commit is
`Respond`. Clarify and skip have the same effect on the state kept here.

### AgentCycle: state and code

`phase` is the phase being awaited; `depth`, `acc`, `summary` are fields of
`AgentContext` (items counted by classification, which is all the rules look at);
`decision` is `last_decision` of `run_cycle`; `trace` is what the framework yields,
`tee` what the pumps of `run_trip` publish and store; `result` is how `run_cycle`
came back. A step runs from the end of one awaited phase to the start of the next:
a rule of the controller decides without suspending, so the joiner's answer, the
rule and the start of the next round are one step. `TimedOut`, `Raised` and
`Cancelled` may end any phase.

`TripRuns` sees a cycle through `CycleContract`: a bounded number of progress
events (`MaxPhases`, `Phase`), then an outcome, complete only after at least one
event (`CycleOk`), or an abort with or without items (`CycleAbort`). The last
event of an abort is published with the outcome there and is therefore left out
of the contract's count.

### Accounts: state and code

| Variable | Code |
|---|---|
| `user`, `strikes` | the `users` row of one address and its `failed_login_attempts` as committed |
| `code` | the `email_codes` rows as committed; a row is named by the request that issued it |
| `hot` | the address is in `_REQUEST_CODE_LIMITER` and its interval is not over |
| `kind`, `pc`, `purpose` | a request: its endpoint, its next statement, the purpose of its code |
| `seen` | rows its current `UPDATE`, `DELETE` or `SELECT` has matched |
| `writes` | rows its transaction has written and not committed, which lock them |
| `stale` | requests whose `users` row was deleted after they loaded it |
| `mailed`, `misses` | codes the mail server took, wrong passwords (histories) |

A request is one transaction: `get_request_session` commits after the response is
sent (`Respond`, `Commit`) and rolls back when the handler raises (`Fail`). A
statement that can wait is two steps: what it matches when it starts (`StartUpdate`,
`Delete`, `ReadCode`), and what it does when nobody else holds the rows (`Waits`,
`FinishUpdate`, `DropCodes`, `Consume`). `InsertCode` and `InsertUser` wait for
rivals in a unique index and fail when the rival has committed. `TimedOut` is the
statement timeout of `_build_engine`. How PostgreSQL locks and re-reads rows at READ
COMMITTED, the level the engine runs at by default, is external; `Locked`, `Free`,
`Inserting` and `Waits` say what is assumed of it. A code that was typed wrong, is
expired or is not there is the second disjunct of `ReadCode`.

### BrowserSession and XhsSearch: state and code

| Variable | Code |
|---|---|
| `driver`, `up` | the slots of the process are filled: `_pw_ctx_slot`, and behind each `door` the browser or the profile's context |
| `lock` | the call inside the `async with` of a slot's lock |
| `drivers`, `leaks` | driver processes started; browsers, contexts and pages nobody will close |
| `ctx`, `page` | calls whose own context or page is open |
| `pc`, `stage`, `attempt` | where a call is; what its visit is for (tier 1, the refresh of a cached row, the index); the retry of `fetch` |
| `got`, `kept`, `answer` | posts in hand, posts of the row to be improved, the tier the answer came from |
| `cache`, `live` | payloads of `tool_cache` and the rows that have not expired |

A step is the code between two awaits. A visit is lock, driver, launch, context, page,
work and the two closings of the `finally` clause; `VisitFails` leaves it at any
await by an exception, `CancelVisit` by a cancellation, which the clean-up does not
survive (`contextlib.suppress(Exception)` lets `CancelledError` through). `Lost` says
what each point may lose. The tiers follow: `Prefer`, `Scrape`/`AfterLive`,
`Lookup`/`AfterRefresh`, `Index`/`AfterIndex`, `Fixture`, with the write-back of each
(`Store`, `StoreRefresh`) and its failure. Posts are records of the features that the
filters look at; scores are the ones of the code.

### Prewarm: state and code

`report` is the report file, `local` the lines of the jsonl file that parse, `tail`
how that file ends; `rows`, `work`, `tried`, `found`, `failures` are locals of a run.
The order of effects is the code's: `Put` (cache row), `AppendLocal` (line), `Mirror`
(copy under the original query), `Save` (report). `Crash` may come between any two,
cut the line being appended and tear the file being written; `StoreFails` is an
exception that a run survives. `Start(resume)` computes the work left from the report
(`Settled`, `Pending`, `WorkItems`). `work` is a set of places of the query file, which
are done in the order of the file (`First`). `Sanitize`, `ImportLocal` and the operators of
`coverage` are the other subcommands: `Coverage`, `GapRank` and the loop of
`dedupe_gap_candidate_rows` (`TakeGap` is its body, `GapsAfter[n]` what it has after n rows,
`Gaps` the result).

### Joiner: state and code

`results` are the tool results in their places, `images` the image per candidate,
`answer` the raw items of the model, `items` the cards. `ToolReturns` in any order,
`Filter` (`Kept`), `ResolveImages`, `Classify` (any shape of answer; a timeout or an
unparsable one is empty), `Repair` with `Repaired` or `FallbackItems`. `PhaseTimeout` ends
any await. An answer is taken as `_coerce_joined_item` has normalised it (`IsNormal`);
`Coerced` are the places of the items that pass its validation. Names are compared without
regard to case (`Fold`), and candidates whose names differ in case only share one image.

### Companions: state and code

`rows` are the committed companions, `trip` the one trip with the ids that were picked,
linked (`trip_companions`), handed to the run and loaded by it. A request goes through
its statements (`pc`); `Flush` waits for a transaction that has written the same row or
name (`Blocked`); `Commit` is the end of `get_request_session`, after the answer. The
clarifier of `create_trip` thinks while its transaction is open (`think`).

### TripPages: state and code

`status`, `born`, `reports`, `saved` are the trips as far as a page can see them (what
works on them is `TripRuns`): `born` is the place in the order of `(created_at, id)`,
taken when `create_trip` flushes and visible when it commits. `share` are the links.
`scroll` is a client on the list, `reader` one on a page; each statement is a step.

## 3. What is checked

| Run | Question | Instance |
|---|---|---|
| `rows` | is there one writer at a time, is the history a line, does the trip follow its contract | 1 trip, 3 runs, 1 failing database call, 1 crash, no stream |
| `streams` | does every stream wait on a queue that will end it, and is what it hears already committed | 1 trip, 2 runs, 2 streams, one at a time |
| `live` | does a running trip settle and an open stream end | 1 trip, 2 runs, 1 stream |
| `cycle` | do the two records agree, are rounds ordered and capped, does the cycle stop on evidence and end, does it follow its contract | 4 rounds, up to 2 new items per classification and round |
| `accounts` | do codes stay single, usable and spent, and do requests never wait in a circle | 4 requests of any kind, 1 crash, timeouts and failing mail |
| `search` | do concurrent searches leave nothing behind, answer with filtered posts, use usable rows and end | 2 calls for one query, 5 kinds of posts, 1 mishap (fault or cancellation), with and without a profile |
| `prewarm` | does a resumed job lose or forget anything | 2 candidates of one place, 2 starts, 1 crash or failed write |
| `joiner` | are cards about our candidates, verdicts and images about theirs | 2 candidates, every subset of tool results, 5 shapes of answers |
| `companions` | do cap, names, picks and links survive overlapping requests | 2 requests at a time, 4 in all, 4 ids, cap 2 |
| `pages` | are a scrolled list and a page read in pieces true | 3 trips, page size 1, 1 link, 1 report |
| `two_viewers` | a statement of the runner on streams | 1 trip, 1 run, 2 streams |
| `lockout` | a statement of a test on sign-in | 3 requests |

Further configurations are kept beside these and run by hand, each for one statement
of the repository that TLC violates (section 4): `MCEscape.cfg`, `MCEmptyRefine.cfg`
and `MCBlankAbort.cfg` with `MCTrip`, `MCCyclePartial.cfg` with `MCCycle`,
`MCSingleUse.cfg` with `MCAccounts`, `MCSelection.cfg` with `MCCompanions`.

Properties of the passing runs:

* `SingleWriter`: at most one run of a trip owes it a status and the row is
  `running` (or deleted) until then. It needs the handlers' status checks and the
  order of every later step.
* `CompleteHasReport`: a complete trip shows the report of a run that succeeded.
* `LinearHistory`: each report refines the one before it; no refinement is lost.
* `HistoryInv`: the reason for the two above (section 5).
* `ReportFrozen`: a complete trip does not change under its reader, although the
  itinerary and the translations patch a report that is already stored.
* `ImplementsContract` (`TripContract`): every step a reader can see is a step of
  the contract: one attempt at a time, at most one report each, complete only
  after a report, an attempt may be lost but never answered twice.
* `NoOrphanStream`: a stream waits only on a queue that holds the end marker or
  that a live run will fill.
* `AnnouncedIsDurable`: who hears `trip_complete` and refetches finds that status.
* `EndsWithOutcome`: a stream that was told anything ends with the outcome.
* `RunningSettles`, `StreamsEnd`: progress.
* `RecordsAgree`, `RoundsInOrder`, `StopsOnEvidence`, `CycleEnds` and the
  `ImplementsContract` of `CycleContract` for a cycle.

* `OneActiveCode`: one active code of a purpose, by the order of `UPDATE` and
  `INSERT` under the index.
* `LastMailWorks`: the code mailed last and committed works until it is used or the
  account is deleted. A code is mailed before it is committed and after the previous
  one is superseded, so a failed mail must give the previous one back.
* `UsedIsSpent`: a code that was used is never active again, although `consume_code`
  writes a row that others supersede or delete.
* `NoWaitCycle`: some open request can always go on, so the statement timeout is
  never what ends a wait.

* `NothingLeftBehind`: locks are held by calls that start something, contexts and pages
  belong to visits in progress, and what leaks is paid for by cancellations, at most
  one each; a second driver exists only with a profile.
* `AnswersPassFilters`: an answer of the live site or of the cache holds authentic posts
  only and none holds an unopened link, whoever rewrote the row meanwhile.
* `UsableRowServes`: a row that is usable throughout a call is not passed over.
* `CallsEnd`: every call ends.
* `DoneIsCached`: what a resumed job leaves out as found is cached under both names.
* `LossPerFault`: the jsonl file lacks at most one reported hit per fault.
* `GapsKeepEveryPlace`: the gap file has exactly one row of every place that is not
  covered, the best one.
* `HitsKept`: a recorded hit stays recorded through resumed runs and sanitising.
* `CardsAreOurs`, `VerdictHasWitness`, `ImageIsOwn`: cards are about our candidates,
  there is one at least, a verdict without the model has a hit about the candidate that
  says so, in the language it speaks for, and no advertisement; images are of hits
  about the candidate, or about one whose name differs in case only.
* `NamesAndCap`: what the API promises holds while no two requests overlap, and how far
  a race can go beyond it.
* `RunsWithPicked`, `LinksAreAlive`: who goes on a trip, and that its links are alive,
  with deletions at every point.
* `ScrollIsExact`: the list shows every trip that was there all along, none twice.
* `LinkTellsTruth`: a link that was bad when the request came shows nothing.
* `CompletePageHasReport`: a page that says complete has a report.

Each property is accompanied by a mutation of the code (definitions named after the
one they change, such as `RefineBusy` or `AnnounceSwapped`) that violates it.

### Bounds

* One trip: runs of different trips share no state in these modules (`_queues` is
  keyed by trip, rows are locked one by one). `DeleteAccount` is the one action
  over several trips; the proofs hold for any number.
* Three runs: a cycle, a refine and a request that races or follows it; a third
  report is what tells a chain from a fork. Two runs for streams, because a stream
  attached to the first run meets the queue of the second.
* `MaxPhases = 1`: progress events differ only in number; one is enough to be
  taken before, between and after the others. The upper bound is the depth cap.
* `MaxFaults = 1`, `MaxCrashes = 1`: one failure at each place, followed by every
  continuation. The streams and live runs take 0 of both: with a failing call
  `SettleFails` announces a status that was not stored, which the code accepts
  (`contextlib.suppress`), and with a crash a trip stays running for good.
* `OneViewer = TRUE`: one stream at a time, reconnects included. What two do is
  the run `two_viewers`.
* Deadlock: the trip runs leave the check on, but an account can be deleted at any
  time, so what "nobody waits for ever" means here is `NoOrphanStream` and the two
  liveness properties. A cycle really stops when it is over, so `cycle` checks
  `CycleEnds` instead.
* `MaxDepth = 4`, `MaxNew = 2`: four rounds reach every rule (five useful items,
  five gems with three traps, more insufficient than useful) with counts that
  build up over rounds.

* Four requests for `accounts`: a code, two requests that supersede or use it, and
  one that deletes the account or issues a code of the other purpose. `MaxFailed = 2`,
  one crash.
* `search`: two calls meet at the lock, at the driver and at one row; a third would find
  the same. Two attempts of `_MAX_RETRIES` (3 in the code) reach the first, the retry
  and the last. One mishap at any point of any call; the posts are a note worth keeping,
  one without an image, an advertisement, a link and an image hit.
* `prewarm`: two candidates naming one place are what the gap file may confuse; one has
  a second name to try, which is what is mirrored. Two starts: a run, and its resumption
  (or a fresh one). One fault at any point.
* `joiner`: hits that name a candidate well, in part, elsewhere, as an advertisement; a
  model that changes the case of a name, invents one, leaves it out, exceeds ranges, or
  keys a score by something that is not an id.
* `companions`: two requests at a time show every pairwise race; four in all let a
  deletion follow a creation and cross a third. Two of the four names differ in case.
  368,548 states.
* `pages`: with one trip per page and three trips each cut is between two pages.
  1,162,740 states.

Deadlock is not checked in `accounts`, `search`, `prewarm`, `joiner`, `companions` and
`pages` either: calls, starts, requests and trips are bounded, and the system rests when
they are used up. `CallsEnd` says for searches what the deadlock check would.

Symmetry: requests are interchangeable in `accounts`, trips in `pages` (they are compared
for equality, `born` orders them); runs and streams are interchangeable and only compared for equality, so
`rows` and `streams` permute them; the live run has liveness properties and uses
none.

### Fairness

`Fairness` in `TripRuns`: the event loop runs every ready task (weak fairness of
each run's steps and of each open stream), because every await of a run returns or
raises: phases carry the phase timeout, statements the statement timeout of
`_build_engine`, other model calls the client's timeout. Requests, disconnects,
failures and crashes are not fair. In `AgentCycle` a phase may hang, and only
`asyncio.wait_for` is fair (`TimedOut`, for the phase and round it was started
for); nothing is assumed of the agents. `Accounts` has no liveness property and no
fairness: that requests end is `NoWaitCycle` together with a finite number of
statements each. In `XhsSearch` each call goes on (weak fairness of its steps as a whole):
navigations, waits and statements carry timeouts, and `asyncio.Lock` serves waiters in
order. Which outcome a step has, failures, cancellations and expiry are not fair. The
other modules have no liveness property and no fairness.

## 4. Where code and text disagree

With a violation run; quotations and lines are under `findings` in `PROJECT.json`:

* `two_viewers`: two tabs on one trip split its events, and one of them never ends.
* `lockout`: a wrong password is counted, flushed, and taken back by the exception
  that reports it; no account is ever locked. (The integration test expects 423.)

With a configuration run by hand, and the property TLC violates:

* `MCEscape.cfg`, `ErrorsRecorded`: several awaits of `run_trip` (lines 559, 562, 565) and
  `run_refine` (839, 858, 934) are outside the inner `try` blocks; a database error there
  ends the run without a status flip and without a final event. `trip_runner.py:538-539`:
  "Errors are caught + recorded as a status flip + a final SSE event, NEVER re-raised".
* `MCEmptyRefine.cfg`, `EmptyRefineIsNoOp`: a refiner answer with no items becomes the
  newest complete report. `refiner.py:77-78`: "the caller will treat the empty list as a
  no-op refine and surface that to the user."
* `MCBlankAbort.cfg`, `AbortedRefineKeepsLatest`: an exception without text makes an
  aborted refine store an empty report.
  `src/backend/tests/unit/services/test_trip_runner_refine.py:205`: "No report row should
  have been written."
* `MCCyclePartial.cfg`, `PartialItemsKept`: a phase that raises discards the items of
  earlier rounds. `trip_runner.py:665`: "Try to recover items from the partial-result
  carrier".
* `MCSingleUse.cfg`, `SingleUse`: two sign-ins that read one code before either commits
  both succeed. `core/auth/codes.py:5-8`: "Single-use: enforced by a partial unique index".
* `MCSelection.cfg`, `OnlySelectedRun`: a parked trip whose picked companions are all
  deleted goes on with an empty list, which means everyone. `trip_runner.py:482-486` says a
  deleted companion is treated as "user didn't select it".

Seen in the models and not run: the finally clause of a run can drop the queue that
the handler of the next refine has registered, in a window of a few database round
trips; `run_cycle` returns its decision with the summary of the round before, which
no caller reads; a round that adds nothing is not a stop signal, although
`controller.py` lists it as one; after a mail that failed the limiter refuses the
retry; an account verified while a code is issued gets a `verify_email` code; a code
committed while its account is deleted outlives it.

Companions: requests that count together pass the cap (`companions.py:37-38`); names that
differ in case only can be created by a race, after which a third such name is an internal
error (`scalar_one_or_none`); updating a row that was deleted meanwhile, two first profile
writes, and creating a trip whose companion is deleted while the clarifier thinks are
internal errors too. `NamesAndCap` says how far this goes.

Pages: a trip becomes visible at the commit but is ordered by its flush, up to the
clarifier's time limit earlier, so it may appear below a cursor (`trips.py:493-494` speaks
of inserts at the head). A link minted while its trip is deleted fails with a foreign key.

Search: a put that fails while a cached row is refreshed leaves the tool with an exception
although posts are in hand (the registry answers `ok=False`); the index tier does not check
authenticity, so its row may take the place of a better one under a call of another tier;
it drops complete image hits (`xiaohongshu.py:414-417`); a cancellation
inside the `finally` clause of `fetch` loses the context; two locks can start two drivers
when a profile is configured; the slots are not reset when the browser dies.

Prewarm: a torn report makes `--resume` impossible; a gated attempt is settled with its
row when a later name ends in an ordinary skip; the mirrored copy is not in the jsonl file,
so a database filled by `import-local` misses the original names
(`docs/status/batch-3a-real-e2e.md:174` promises it can be populated), which is why
`DoneIsCached` speaks of the database the job has written; an exception of the mirroring
ends the job.

Joiner: fallback cards have no divergence whatever their verdicts; a score keyed by
something that is not an id costs the whole card; duplicate cards are kept.

## 5. What is proved

All theorems are of `Spec`, for every value of the constants, from the named assumptions
of the modules:

* `BrokerConstants`, `RunConstants`, `PageConstants`, `BrowserConstants`: the placeholders
  are no members of the sets they stand beside, the bounds are naturals, there is at least
  one phase, a page has a row.
* `CycleConstants`, `AccountConstants`: a cap of at least 1; the kinds are endpoints, and
  at least one attempt is allowed.
* `CompanionConstants`: finitely many requests, a cap of at least 1.
* `PrewarmConstants`: the query file is a list of lists, there is always a name to try, a
  page shows some of finitely many posts, and a run gives up after one failure at the
  earliest.
* `SearchConstants`: pages and hits show posts, opening a post gives a post, and the site
  is asked at least once.
* `JoinerConstants`: there is a candidate and a traveller, the producer's candidates have
  names, tools bring lists, and an item of the model's answer is what
  `_coerce_joined_item` makes of it.

Three theorems about streams have a hypothesis on the constants, since what they say is
false without it. `StreamsEndTold` and `StreamsAreServed` suppose `OneViewer`: the run
`two_viewers` shows what two viewers of one trip do to each other. `StreamsAreServed` and
`AnnouncedLasts` suppose `MaxFaults = 0`: when the database fails, `SettleFails` announces
a status that was not stored (section 3, Bounds), and `Escape` drops a queue without an end
marker (`MCEscape.cfg`, section 4). Any number of runs, streams, trips and crashes is allowed in all of them.

`TripProofs`:

* `Typed`: `TypeOK`. The rows and runs by cases on the actions; the broker through
  `BrokerEffect`, which says what any step of a run may do to it.
* `OneWriter`: `SingleWriter`, inductive together with `TypeOK`. `RowEffect` says
  how a step of a run may move its program counter and its own trip's row; the
  handlers' guards do the rest, since an accepted run finds the row not `running`.
* `HistoryIsLinear`, `CompleteIsBacked`, `BaseStays`. `LinearHistory` and
  `CompleteHasReport` are not inductive: a run that is about to store a report
  could in principle have read an old one. `HistoryInv` says why it has not:
  reports are of runs that got that far (`Written`), an unworked trip has none
  (`UnworkedIsEmpty`), the base of an unfinished refine is still the latest
  (`BaseIsLatest`), and the report of a successful run stays the latest until the
  over (`SavedIsLatest`). `Quiet` collects the many steps that change none
  of it; storing and settling use `SingleWriter`.
* `CompleteIsFrozen`: `ReportFrozen`. Runs patch their report after they have stored it,
  so the step lemma `FrozenStep` rests on `SingleWriter` (a run at work on a report has the
  trip to itself) and on `LinearHistory` (the report it patches is in no other trip).
* `TripsKeepContract`: `ImplementsContract`. The attempt of a trip is a value of the
  abstract state that no variable holds; `AttemptStays` and `AttemptEnds` say which steps
  change it, and every action is then one action of `TripContract` or a stutter.
* `StreamsEndTold`: `EndsWithOutcome`, with one viewer per trip, whatever fails. The
  invariant `StreamInv` follows the end marker back to where it was queued: queues and
  streams belong to a trip (`QueueOwned`), a stream reads its queue alone (`OneEach`), on a
  queue the end comes right behind an outcome (`OutcomeFirst`), so that the stream has
  forwarded it when the end is next (`OutcomeTaken`).
* `StreamsAreServed`: `NoOrphanStream`. `OrphanInv` adds that whoever finds a queue in
  `_queues` finds it while a live run of the trip will end it (`QueueServed`).
* `AnnouncedLasts`: `AnnouncedIsDurable`, for any number of viewers. `ToldInv` says that
  what a run has settled stays until it is refined or deleted (`SettledLasts`), and that all
  queued and forwarded outcomes are of runs that are done (`ToldTruth`).

`CycleProofs`:

* `CycleTyped`, `RecordsStayEqual`, `OrderKept`, `EvidenceBehindStop`: `CycleTypeOK`,
  `RecordsAgree`, `RoundsInOrder`, `StopsOnEvidence`. The inductive invariant
  `Consistent` adds `Position`: what is awaited, and that the last event names it.
  `RoundsInOrder` speaks of a whole sequence; lemma `AppendInOrder` reduces it to
  the last event and the one appended, and `VerdictStep` treats the controller's
  verdict once for the rule and for the model.
* `CycleKeepsContract`: `ImplementsContract` of `CycleContract`. What the contract counts
  is the length of a sequence; `Counted` ties it to the depth and the phase awaited.

`AccountProofs`:

* `AccountTyped`, `OneCode`, `UsedStaysSpent`, `NobodyCircles`: `AccountTypeOK`,
  `OneActiveCode`, `UsedIsSpent`, `NoWaitCycle`, for any number of requests. The
  inductive invariant `CodesInv` adds what the locks mean: rows are visible when
  their issuer is done (`RowsAreIssued`), only some statements hold rows
  (`WritesAreOpen`), no two requests hold one (`LocksAreExclusive`), a new row has
  superseded all active ones and has no rival (`NewRowsAlone`), an issuer writes rows
  of its own purpose (`OwnPurpose`), and a sign-in holds the row it has read
  (`ConsumersHold`). `Effects` and `HandlerEffects` say once, per handler, what a
  step does to codes and locks; each part then follows without the handlers.
  `NoCircle` argues by contradiction: if all open requests waited, each holder of
  rows would wait at its `INSERT` for another holder at its `INSERT`, both for the
  one active row of the purpose, which only one can hold.
* `LastMailLasts`: `LastMailWorks`. `MailInv` says of every code, and not only of the last,
  that it works until a mail that was sent later is committed, or a sign-in or a deletion
  has taken it (`IssuedLasts`). A code is mailed after the rows it supersedes were mailed
  (`MailedLater`); `HandlersKnown` says which endpoint is behind a statement.

`CompanionProofs`:

* `CompanionsTyped`, `LinksStayAlive`, `PickedOnesGo`: `CompanionsTypeOK`, `LinksAreAlive`,
  `RunsWithPicked`, for any number of requests, names and companions. The inductive
  invariant `PickedInv` adds which request may create the trip and what it has found
  (`KindsFit`, `OneCreator`) and what the status of the trip says of its links and of the
  ids handed to the run (`StatusFits`). `Elsewhere` collects the steps on companions that
  move the trip only by taking a deleted one off.
* `CapAndNamesHold`: `NamesAndCap`. `RowsInv` says what the unique constraint guarantees of
  committed and of open writes. `PlacesCounted` bounds rows and requests on their way to a
  row together, which is how far a race passes the cap. `Undisturbed` says that without an
  overlap what a request has read is still so when it writes.

`PageProofs`:

* `RowsTyped`, `LinksTellTruth`, `PagesHaveReports`: `RowsTypeOK`, `LinkTellsTruth`,
  `CompletePageHasReport`. A page relates statements read at different times, so the
  invariant `PageInv` says what remains true of what was read: `LinkPageFits` and
  `ReportPageFits`, over `ReportsFit` (complete means there is a report) and `LinksFit`.
  `Onwards` is the reason: trips lose reports only by deletion, and a link that went bad
  stays bad; any step of others that goes onwards leaves a page true.
* `ScrollsAreExact`: `ScrollIsExact`, for any size of a page. `ListInv`: every trip has a
  place of its own (`BirthsApart`), the pages seen are in order down to the cursor
  (`SeenInOrder`), and a trip that was there all along has been seen or lies below the
  cursor (`SteadyAhead`).

`SearchProofs`, for any number of concurrent calls, queries, posts and retries:

* `BrowserLeavesNothing`: `NothingLeftBehind`. `BrowserInv` adds to it that without a
  profile there is one door (`DoorsFit`), and counts drivers being started together with
  those started and lost (`DriversFit`), which is what bounds them after each step.
* `AnswersFiltered`: `AnswersPassFilters`. `AnswerFits` says it of what is about to be
  stored and of the row kept for a refresh; the rows themselves need not be trusted, since
  each read filters them.
* `UsableRowsServe`: `UsableRowServes`. `ServeFits`: a call is on no way to the fixture
  while its row is usable throughout.
* `SearchTyped`: `SearchTypeOK`. That a live row is not empty rests on `AnswerFits`: what is
  about to be stored has posts.

`PrewarmProofs`:

* `HitsStay`: `HitsKept`, for any query file. `ReportInv`: the rows of a resumed run
  contain the hits on disk.
* `HitsAreCached`: `DoneIsCached`. The invariant `RunInv` says where a run is in its work
  (`WorkFits`: it has a place of the query file and a name to try there) and, for each point
  between put, append, mirror and save, what is in the cache already (`CacheFits`).
* `LossesAreBounded`: `LossPerFault`. A piece of a line without a newline spoils the line
  appended next, so a fault may take its toll later. `LossFits` counts this as a debt: what
  is lost and the debt of the file together are at most the faults so far.
* `GapsAreBest`: `GapsKeepEveryPlace`. The loop keeps `OneEach`, one row for each place read
  so far and the best of them (`TakeFits`). That its result is defined at all
  (`GapsExist`), and that it fits after every row (`GapsFitAll`), is argued with a smallest
  counterexample. Ranks are compared lexicographically (`BetterOrders`); they are numbers
  because the file lists finitely many posts (`PostsFit`, an invariant of its own).
* `PrewarmTyped`: `PrewarmTypeOK`, over `RunInv` and `PostsFit`. `Counts` adds that a run
  which goes on has failures left, and `ImportedPosts` that the last line of a query exists.

`JoinerProofs`, for any candidates, tool results and answers:

* `JoinerTyped`, `CardsStayOurs`, `VerdictsAreWitnessed`, `ImagesAreOwn`: `JoinerTypeOK`,
  `CardsAreOurs`, `VerdictHasWitness`, `ImageIsOwn`. The invariant `PhaseInv` carries facts
  from one step of the phase to the next: after the filter every kept hit is about its
  candidate (`KeptMatch`), an image that a tool brought has such a hit behind it
  (`ImagesOwned`), and at the end the cards are the repaired answer or, if nothing is left
  of it, the fallback's (`CardsAreMade`). The rest is about operators: what becomes of one
  item of an answer, and which evidence a verdict of the fallback rests on.

Every invariant and action property of the passing runs is thus proved for all values of
the constants. Model-checked only is liveness (`RunningSettles`, `StreamsEnd`, `CycleEnds`,
`CallsEnd`): it rests on fairness and `ENABLED`, which the prover does not support.

## 6. What is abstracted, and what is not modelled

Abstracted in the modules above: texts, prompts, tokens, scores, the content of
events beyond name, run and status; the order of reports by `created_at` is the
order in which they were stored (one process writes, one run at a time, minutes
apart); a disconnect takes effect at once; cancellation of a run at shutdown is
the same as a crash in `TripRuns` and an action of its own in `AgentCycle`.
`SaveReport` includes its retries: without the trip's row every attempt fails.
`Accounts` has one address; a username that is taken is a failure of `Register`, an
address is not changed by any endpoint, and the administrator is left out.

In `XhsPosts` the word lists and regular expressions are abstracted to the counts they
find, which the scores are computed from; `XhsSearch` takes what a page shows and what a
detail page adds as input; the storing of image files is part of the work of a visit.
`Prewarm` takes the names to try and the place a candidate names as input. `Joiner` takes
what matching and the verdict look for as features of a hit. `TripPages` reduces the work
on a trip to the commits a page can see, `Companions` the clarifier to a pause.

Not modelled, with reasons, under `components` in `PROJECT.json`. In short: the agents
other than joiner and controller and the model client are one call each; rendering,
migrations and seed data have no state of their own; `xhs_auth_demo` and
`xhs_evidence_import` are tools of one use over files and tables nothing else reads; the
connection pool, the page of the frontend and the log tail are in the plan.

## 7. Plan

Done, in this order: broker and runs, contract, proofs of type, writer and history;
agent cycle, its contract and proofs; accounts and their proofs; browser, cache and
search, and their proofs; prewarm; joiner; companions and pages with their proofs; both
refinements, the stream properties, the last mail, cap and names, the scrolled list, the
files of the prewarm job and the joiner proved.

Next, most important first:

1. `ConnectionPool`: a streaming request keeps its pooled connection until the stream
   ends, although `core/db/session.py:105-107` asks streams not to, and the stream waits
   for a run that needs a connection. Composed with the runner at the level of
   connections; property: the runner is never starved.
2. `TripPage`: the page's status from events, polling and refetch, against the streams of
   `TripBroker`; property: the page ends up showing the row.
3. `LogTail`: the ring buffer and its bounded subscribers.
