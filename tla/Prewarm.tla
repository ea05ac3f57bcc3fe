------------------------------- MODULE Prewarm -------------------------------
(***************************************************************************)
(* The prewarm job of scripts/xhs_prewarm.py: `run`, with and without      *)
(* --resume, `sanitize-public-gate`, `coverage` and `import-local`.        *)
(*                                                                         *)
(* A run takes its work from the query file, tries each query under a few  *)
(* names, stores what it finds in tool_cache and at the end of a local     *)
(* jsonl file, and rewrites a report file after each query.  The report    *)
(* decides what a resumed run leaves out.  A step is the code between two  *)
(* effects that outlive the process, so that the process can end between   *)
(* any two of them.                                                        *)
(***************************************************************************)
EXTENDS ToolCache, XhsPosts, Naturals, SequencesExt

CONSTANTS
  Items,        \* the query file: a sequence of [candidate, queries]
  Attempts,     \* candidate_queries(): <<candidate, query>> -> queries to try
  Terms,        \* relevance_terms(): <<candidate, query>> -> specific terms
  City,         \* the city of a query
  Key,          \* canonical_gap_key(): candidate -> the place it names
  Pages,        \* what a search can return: sets of posts
  Candidates,   \* --limit-candidates, 0 for all
  PerCandidate, \* --queries-per-candidate
  MaxFailures,  \* --max-consecutive-failures
  MinPosts,     \* --min-posts-per-candidate
  MaxStarts,    \* bound: runs that are started
  MaxFaults     \* bound: crashes and failed writes

VARIABLES
  report,   \* the report file: none, torn by a crash, or whole with its rows
  local,    \* the lines of the jsonl file that parse, in order
  tail,     \* how that file ends: clean, cut (part of a line), open (no newline)
  moved,    \* the database was replaced and filled by import-local
  pc,       \* what the run does next, "off" when no run is active
  fresh,    \* the run was started without --resume
  rows,     \* report["results"] in memory
  work,     \* the places <<item, query>> of the query file that are left
  tried,    \* attempts of the current pair so far
  found,    \* posts that passed the filters and are being stored
  failures, \* hard errors in a row
  starts, faults

vars == <<cache, live, report, local, tail, moved, pc, fresh, rows, work, tried,
          found, failures, starts, faults>>

\* Variables of the run, of its files, and the bounds.
runState == <<fresh, rows, work, tried, found, failures>>
fileState == <<report, local, tail>>
bounds == <<starts, faults>>

Pairs == {<<Items[i].candidate, q>> : i \in DOMAIN Items, q \in Queries}
Places == UNION {{i} \X DOMAIN Items[i].queries : i \in DOMAIN Items}
AttemptKinds == {"ok", "blank", "skip", "gated", "error"}
RowKinds == AttemptKinds \cup {"gate"}
Attempt == [query : Queries, kind : AttemptKinds]
Row == [candidate : {p[1] : p \in Pairs}, query : Queries, original : Queries,
        kind : RowKinds, attempts : Seq(Attempt)]
Line == [candidate : {p[1] : p \in Pairs}, query : Queries, posts : SUBSET Posts]

\* The query file is a list of lists, there is always a query to try, a page shows finitely
\* many posts, and a run gives up after one failure at the earliest.
ASSUME PrewarmConstants ==
  /\ Items \in Seq(ToSet(Items))
  /\ IsFiniteSet(Posts) /\ \A raw \in Pages : raw \subseteq Posts
  /\ \A i \in DOMAIN Items : Items[i].queries \in Seq(Queries)
  /\ \A p \in Pairs : Attempts[p] \in Seq(Queries) \ {<<>>}
  /\ MaxFailures \in Nat \ {0} /\ MaxStarts \in Nat /\ MaxFaults \in Nat

PrewarmTypeOK ==
  /\ CacheTypeOK
  /\ report \in [state : {"none", "torn", "whole"}, rows : Seq(Row)]
  /\ local \in Seq(Line)
  /\ tail \in {"clean", "cut", "open"}
  /\ moved \in BOOLEAN
  /\ pc \in {"off", "preflight", "search", "put", "append", "mirror", "save",
             "stop", "finish"}
  /\ fresh \in BOOLEAN
  /\ rows \in Seq(Row)
  /\ work \in SUBSET Places
  /\ tried \in Seq(Attempt)
  /\ found \in SUBSET Posts
  /\ failures \in 0..MaxFailures
  /\ starts \in 0..MaxStarts
  /\ faults \in 0..MaxFaults

NoReport == [state |-> "none", rows |-> <<>>]
TornReport == [state |-> "torn", rows |-> <<>>]
Whole(r) == [state |-> "whole", rows |-> r]

Init ==
  /\ CacheInit
  /\ report = NoReport
  /\ local = <<>>
  /\ tail = "clean"
  /\ moved = FALSE
  /\ pc = "off"
  /\ fresh = TRUE
  /\ rows = <<>>
  /\ work = {}
  /\ tried = <<>>
  /\ found = {}
  /\ failures = 0
  /\ starts = 0
  /\ faults = 0

-------------------------------------------------------------------------------
(* The work of a run.                                                      *)

Answered == {"blank", "skip"}

\* What one row lets a resumed run leave out.  A row of skipped attempts settles all
\* the names it tried.
Settled(r) ==
  LET queries == IF r.kind = "ok" THEN {r.query, r.original}
                 ELSE IF r.kind \in Answered
                 THEN {r.query} \cup {r.attempts[i].query : i \in DOMAIN r.attempts}
                 ELSE {}
  IN {<<r.candidate, q>> : q \in queries}

Done(rs) == UNION {Settled(rs[i]) : i \in DOMAIN rs}

\* The queries of item i that are not done.
Pending(i, done) ==
  {k \in DOMAIN Items[i].queries :
     <<Items[i].candidate, Items[i].queries[k]>> \notin done}

\* The first items that have pending queries.
Selected(done) ==
  {i \in DOMAIN Items :
     /\ Pending(i, done) # {}
     /\ \/ Candidates = 0
        \/ Cardinality({j \in 1..(i - 1) : Pending(j, done) # {}}) < Candidates}

\* The first pending queries of each.
WorkItems(done) ==
  {p \in Places :
     /\ p[1] \in Selected(done) /\ p[2] \in Pending(p[1], done)
     /\ Cardinality({k \in Pending(p[1], done) : k < p[2]}) < PerCandidate}

\* The work is done in the order of the file.
UpTo(p, r) == p[1] < r[1] \/ (p[1] = r[1] /\ p[2] <= r[2])
First == CHOOSE p \in work : \A r \in work : UpTo(p, r)

Candidate == Items[First[1]].candidate
Original == Items[First[1]].queries[First[2]]
Names == Attempts[<<Candidate, Original>>]
Current == Names[Len(tried) + 1]

-------------------------------------------------------------------------------
(* `run`.                                                                  *)

Goto(label) == pc' = label

\* Mutation of Start: a resumed run begins with an empty report.
StartBlank(resume) ==
  /\ pc = "off"
  /\ starts < MaxStarts
  /\ resume => report.state # "torn"
  /\ rows' = <<>>
  /\ work' = WorkItems(Done(IF resume THEN report.rows ELSE <<>>))
  /\ Goto(IF work' = {} THEN "finish" ELSE "preflight")
  /\ fresh' = ~resume
  /\ tried' = <<>>
  /\ found' = {}
  /\ failures' = 0
  /\ starts' = starts + 1
  /\ UNCHANGED <<cacheVars, fileState, moved, faults>>

\* A report that does not parse ends a resumed run with an exception before it starts.
Start(resume) ==
  /\ pc = "off"
  /\ starts < MaxStarts
  /\ resume => report.state # "torn"
  /\ LET old == IF resume THEN report.rows ELSE <<>>
     IN /\ rows' = old
        /\ work' = WorkItems(Done(old))
        /\ Goto(IF work' = {} THEN "finish" ELSE "preflight")
  /\ fresh' = ~resume
  /\ tried' = <<>>
  /\ found' = {}
  /\ failures' = 0
  /\ starts' = starts + 1
  /\ UNCHANGED <<cacheVars, fileState, moved, faults>>

\* The probe never raises; its outcome is written down and changes nothing else.
Preflight ==
  /\ pc = "preflight"
  /\ \/ report' = Whole(rows)
     \/ UNCHANGED report
  /\ Goto("search")
  /\ UNCHANGED <<cacheVars, local, tail, moved, runState, bounds>>

\* The posts of build_fetch_result(), and why there are none.
Usable(raw) ==
  WithLocalImages(ForCandidate(Authentic(TextUsable(raw)),
                               Terms[<<Candidate, Current>>], City[Current]))

Log(kind) == Append(tried, [query |-> Current, kind |-> kind])

\* The row of the current pair: an exhausted search goes under its own name, a hit or
\* an error under the name that was tried last.
ResultRow(log) ==
  LET last == log[Len(log)]
  IN [candidate |-> Candidate,
      query |-> IF last.kind \in {"ok", "error"} THEN last.query ELSE Original,
      original |-> Original,
      kind |-> last.kind,
      attempts |-> log]

\* fetch_one() takes the next name, or returns its row.
Conclude(log) ==
  LET kind == log[Len(log)].kind
  IN IF kind \in {"ok", "error"} \/ Len(log) = Len(Names)
       THEN /\ rows' = Append(rows, ResultRow(log))
            /\ tried' = <<>>
            /\ Goto("save")
       ELSE /\ tried' = log
            /\ Goto("search")
            /\ UNCHANGED rows

\* A page of the site, or of the public index when the site is gated.
Search(raw) ==
  /\ pc = "search"
  /\ \/ /\ Usable(raw) # {}
        /\ found' = Usable(raw)
        /\ Goto("put")
        /\ UNCHANGED <<rows, tried>>
     \/ /\ Usable(raw) = {}
        /\ Conclude(Log(IF raw = {} THEN "blank" ELSE "skip"))
        /\ UNCHANGED found
  /\ UNCHANGED <<cacheVars, fileState, moved, fresh, work, failures, bounds>>

\* The gate, with nothing in the index; or a timeout or another exception.
SearchFails(kind) ==
  /\ pc = "search"
  /\ kind \in {"gated", "error"}
  /\ Conclude(Log(kind))
  /\ UNCHANGED <<cacheVars, fileState, moved, fresh, work, found, failures, bounds>>

Put ==
  /\ pc = "put"
  /\ PutCached(Current, found)
  /\ Goto("append")
  /\ UNCHANGED <<fileState, moved, runState, bounds>>

\* append_local_cache().  A piece that an earlier append left without a newline spoils
\* the line that follows it, and a whole line without one is spoilt with it.
Appended(part) ==
  LET line == [candidate |-> Candidate, query |-> Current, posts |-> found]
      kept == IF tail = "open" THEN Front(local) ELSE local
  IN \/ part = "none" /\ UNCHANGED <<local, tail>>
     \/ /\ part = "cut"
        /\ local' = kept
        /\ tail' = "cut"
     \/ /\ part = "open"
        /\ local' = IF tail = "clean" THEN Append(local, line) ELSE kept
        /\ tail' = IF tail = "clean" THEN "open" ELSE "cut"
     \/ /\ part = "all"
        /\ local' = IF tail = "clean" THEN Append(local, line) ELSE kept
        /\ tail' = "clean"

\* Mutation of AppendLocal: the newline is missing.
AppendOpen ==
  /\ pc = "append"
  /\ Appended("open")
  /\ IF Current = Original
       THEN Conclude(Log("ok"))
       ELSE Goto("mirror") /\ UNCHANGED <<rows, tried>>
  /\ UNCHANGED <<cacheVars, report, moved, fresh, work, found, failures, bounds>>

AppendLocal ==
  /\ pc = "append"
  /\ Appended("all")
  /\ IF Current = Original
       THEN Conclude(Log("ok"))
       ELSE Goto("mirror") /\ UNCHANGED <<rows, tried>>
  /\ UNCHANGED <<cacheVars, report, moved, fresh, work, found, failures, bounds>>

\* Mutation of Mirror: the original query gets nothing.
MirrorNothing ==
  /\ pc = "mirror"
  /\ Conclude(Log("ok"))
  /\ UNCHANGED <<cacheVars, fileState, moved, fresh, work, found, failures, bounds>>

\* mirror_cached_payload(): the original query gets a copy of the row.
Mirror ==
  /\ pc = "mirror"
  /\ IF GetCached(Current) # {}
       THEN PutCached(Original, GetCached(Current))
       ELSE UNCHANGED cacheVars
  /\ Conclude(Log("ok"))
  /\ UNCHANGED <<fileState, moved, fresh, work, found, failures, bounds>>

\* The report is written, then the run goes on or gives up.
Save ==
  /\ pc = "save"
  /\ report' = Whole(rows)
  /\ LET strikes == IF rows[Len(rows)].kind = "error" THEN failures + 1 ELSE 0
     IN /\ failures' = strikes
        /\ IF strikes >= MaxFailures
             THEN Goto("stop") /\ UNCHANGED work
             ELSE /\ work' = work \ {First}
                  /\ Goto(IF work' = {} THEN "finish" ELSE "search")
  /\ found' = {}
  /\ UNCHANGED <<cacheVars, local, tail, moved, fresh, rows, tried, bounds>>

\* stopped_reason or completed_at is written.
Finish ==
  /\ pc \in {"stop", "finish"}
  /\ report' = Whole(rows)
  /\ work' = {}
  /\ Goto("off")
  /\ UNCHANGED <<cacheVars, local, tail, moved, fresh, rows, tried, found, failures,
                 bounds>>

-------------------------------------------------------------------------------
(* Faults.                                                                 *)

Fault ==
  /\ faults < MaxFaults
  /\ faults' = faults + 1

\* The transaction of put_cached() or the append raises: an error row, although the
\* cache row or a part of the line may be there.
StoreFails ==
  /\ Fault
  /\ \/ /\ pc = "put"
        /\ PutCached(Current, found) \/ UNCHANGED cacheVars
        /\ UNCHANGED <<local, tail>>
     \/ /\ pc = "append"
        /\ \E part \in {"none", "cut", "open"} : Appended(part)
        /\ UNCHANGED cacheVars
  /\ Conclude(Log("error"))
  /\ UNCHANGED <<report, moved, fresh, work, found, failures, starts>>

\* The process ends: it is killed, or an exception that nobody catches leaves the copy
\* of a row or a write of the report.  The report file is truncated before it is filled.
Crash ==
  /\ Fault
  /\ pc # "off"
  /\ Goto("off")
  /\ rows' = <<>> /\ work' = {} /\ tried' = <<>> /\ found' = {} /\ failures' = 0
  /\ report' \in {report} \cup
       (IF pc \in {"preflight", "save", "stop", "finish"} THEN {TornReport} ELSE {})
  /\ \/ pc = "append" /\ \E part \in {"cut", "open", "all"} : Appended(part)
     \/ UNCHANGED <<local, tail>>
  /\ UNCHANGED <<cacheVars, moved, fresh, starts>>

-------------------------------------------------------------------------------
(* `sanitize-public-gate`: the rows written while the gate was up are      *)
(* turned into errors, to be tried again.                                  *)

\* classify_search_diagnostic(), from what the diagnostic page shows.
Classify(page) ==
  IF "gate" \in page THEN "public_search_gated"
  ELSE IF "verify" \in page THEN "security_verification"
  ELSE IF "results" \in page THEN "usable"
  ELSE IF "cookies" \in page THEN "session_cookies_no_results"
  ELSE IF "login" \in page THEN "public_entry_prompt"
  ELSE "unknown"

\* A row that saw no post in any attempt.
Suspect(r) ==
  /\ r.kind = "blank"
  /\ \A i \in DOMAIN r.attempts : r.attempts[i].kind # "skip"

\* Rows carry no time, so the gate is taken to cover the tail of suspect rows.
Sanitized(rs) ==
  [i \in DOMAIN rs |->
     IF \A j \in i..Len(rs) : Suspect(rs[j]) THEN [rs[i] EXCEPT !.kind = "gate"]
     ELSE rs[i]]

Sanitize(page) ==
  /\ pc = "off"
  /\ report.state = "whole"
  /\ Classify(page) \in {"public_search_gated", "security_verification"}
  /\ report' = Whole(Sanitized(report.rows))
  /\ report' # report
  /\ UNCHANGED <<cacheVars, local, tail, moved, pc, runState, bounds>>

-------------------------------------------------------------------------------
(* `import-local` into another database.                                   *)

\* The last line of a query that still passes the filters wins.
Imported(q) ==
  LET Passes(l) ==
        l.query = q /\ ForCandidate(Authentic(l.posts), Terms[<<l.candidate, q>>], City[q]) # {}
      lines == {i \in DOMAIN local : Passes(local[i])}
  IN IF lines = {} THEN {} ELSE local[Max(lines)].posts

ImportLocal ==
  /\ pc = "off"
  /\ ~moved
  /\ local # <<>>
  /\ moved' = TRUE
  /\ cache' = [q \in Queries |-> Imported(q)]
  /\ live' = {q \in Queries : Imported(q) # {}}
  /\ UNCHANGED <<fileState, pc, runState, bounds>>

-------------------------------------------------------------------------------
(* `coverage`: what the report and the jsonl file say of each candidate,   *)
(* and the query file for the candidates that are not covered.             *)

RowsOf(c, kinds) ==
  {i \in DOMAIN report.rows : report.rows[i].candidate = c /\ report.rows[i].kind \in kinds}

RelevantPosts(c) ==
  UNION {ForCandidate(local[i].posts, Terms[<<c, local[i].query>>], City[local[i].query]) :
           i \in {j \in DOMAIN local : local[j].candidate = c}}

\* candidate_coverage_status()
Coverage(c) ==
  IF Cardinality(RelevantPosts(c)) >= MinPosts THEN "covered"
  ELSE IF RowsOf(c, {"ok"}) # {} \/ RelevantPosts(c) # {} THEN "partial"
  ELSE IF RowsOf(c, Answered) # {} THEN "no_usable_authentic_posts"
  ELSE IF RowsOf(c, {"error"}) # {} THEN "error"
  ELSE "untouched"

StatusRank == [partial |-> 0, untouched |-> 1, no_usable_authentic_posts |-> 2, error |-> 3]

\* gap_row_rank(), without its last place (names in Chinese first).
GapRank(c) ==
  LET skipped == Cardinality(RowsOf(c, Answered))
      posts == Cardinality(RelevantPosts(c))
      partial == Coverage(c) = "partial" /\ posts > 0
  IN <<StatusRank[Coverage(c)],
       IF partial /\ skipped >= 4 THEN 1 ELSE 0,
       IF partial \/ skipped < 3 THEN skipped ELSE 3,
       -posts, -Images(RelevantPosts(c)),
       Cardinality(RowsOf(c, {"error"}))>>

\* The order of two ranks: the first place at which they differ.
Better(a, b) ==
  \E i \in DOMAIN a : a[i] < b[i] /\ \A j \in 1..(i - 1) : a[j] = b[j]

CandidateSet == {Items[i].candidate : i \in DOMAIN Items}
Covered == {c \in CandidateSet : Coverage(c) = "covered"}

\* Mutation of TakeGap: a place that a covered candidate names stays in the file.
TakeOfCovered(best, c) ==
  LET rivals == {d \in best : Key[d] = Key[c]}
  IN IF c \in Covered \/ \E d \in rivals : ~Better(GapRank(c), GapRank(d))
       THEN best
       ELSE (best \ rivals) \cup {c}

\* One row of the loop in dedupe_gap_candidate_rows(): it is left out when the place is
\* covered or the row that stands for it is as good, and else takes its place.
TakeGap(best, c) ==
  LET rivals == {d \in best : Key[d] = Key[c]}
  IN IF \/ c \in Covered
        \/ \E d \in Covered : Key[d] = Key[c]
        \/ \E d \in rivals : ~Better(GapRank(c), GapRank(d))
       THEN best
       ELSE (best \ rivals) \cup {c}

\* dedupe_gap_candidate_rows(), after the first n rows and after all of them.
GapsAfter[n \in 0..Len(Items)] ==
  IF n = 0 THEN {} ELSE TakeGap(GapsAfter[n - 1], Items[n].candidate)
Gaps == GapsAfter[Len(Items)]

-------------------------------------------------------------------------------
RunStep ==
  \/ Preflight
  \/ \E raw \in Pages : Search(raw)
  \/ \E kind \in {"gated", "error"} : SearchFails(kind)
  \/ Put
  \/ AppendLocal
  \/ Mirror
  \/ Save
  \/ Finish

Operator ==
  \/ \E resume \in BOOLEAN : Start(resume)
  \/ \E page \in SUBSET {"gate", "verify", "results"} : Sanitize(page)
  \/ ImportLocal

Next == RunStep \/ Operator \/ StoreFails \/ Crash

Spec == Init /\ [][Next]_vars

-------------------------------------------------------------------------------
(* Properties.                                                             *)

\* The rows that count: those on disk, and those of the run.
OkRows(rs) == {r \in ToSet(rs) : r.kind = "ok"}

\* What a resumed run leaves out as found is in the cache, under the name that was
\* tried and under the name of the query file, wherever the process ended (put_cached(),
\* mirror_cached_payload() and write_report() in this order).
DoneIsCached ==
  ~moved => \A r \in OkRows(rows) \cup OkRows(report.rows) :
    cache[r.query] # {} /\ cache[r.original] # {}

\* The jsonl file holds a line for every reported hit, but for one per crash or failed
\* write: a torn line takes the line appended after it with it.
LossPerFault ==
  Cardinality({r.query : r \in OkRows(report.rows)}
                \ {local[i].query : i \in DOMAIN local}) <= faults

\* The gap file forgets no place, names none twice and none that is covered, and names each
\* by its best row (dedupe_gap_candidate_rows()).
GapsKeepEveryPlace ==
  /\ \A c \in CandidateSet : \E d \in Covered \cup Gaps : Key[d] = Key[c]
  /\ \A c, d \in Gaps : Key[c] = Key[d] => c = d
  /\ \A c \in Gaps, d \in Covered : Key[c] # Key[d]
  /\ \A c \in Gaps, d \in CandidateSet : Key[c] = Key[d] => ~Better(GapRank(d), GapRank(c))

\* A hit that a report on disk records stays recorded, until the file is torn or a run
\* without --resume begins a new one; sanitising keeps it.
HitsKept ==
  [][\/ OkRows(report.rows) \subseteq OkRows(report'.rows)
     \/ report'.state = "torn"
     \/ fresh]_report
===============================================================================
