------------------------------ MODULE XhsSearch ------------------------------
(***************************************************************************)
(* xhs_search of core/tools/xiaohongshu.py: concurrent calls that look in  *)
(* tool_cache, scrape the site through the shared browser, look in the     *)
(* cache again, ask the public search index, and fall back to a fixture.   *)
(* A step is the code between two awaits; the calls share the browser, the *)
(* driver, and the cache rows, and may be cancelled at any await.          *)
(***************************************************************************)
EXTENDS BrowserSession, ToolCache, XhsPosts

CONSTANTS
  Terms,        \* _query_relevance_terms(): query -> specific terms
  Detail,       \* post -> what opening its page makes of it
  SitePages,    \* what fetch() can return: sets of posts
  LinkPages,    \* the hits of the web searches
  ImagePages,   \* the hits of the image search
  NoteOf,       \* post -> the note it shows or points to
  MaxRetries,   \* _MAX_RETRIES
  MaxMishaps    \* bound: failing database statements, and calls that are cancelled

ASSUME SearchConstants ==
  /\ \A raw \in SitePages \cup LinkPages \cup ImagePages : raw \subseteq Posts
  /\ Detail \in [Posts -> Posts]
  /\ MaxRetries \in Nat \ {0} /\ MaxMishaps \in Nat

VARIABLES
  query,    \* call -> its query
  stage,    \* call -> what its visit is for: live, refresh or index
  attempt,  \* call -> how often fetch() has tried
  got,      \* call -> posts in hand
  kept,     \* call -> posts of the cache row it is about to improve
  answer,   \* call -> where its answer comes from
  steady,   \* calls during which the row of their query was usable all along (history)
  faults

callVars == <<query, stage, attempt, got, kept, answer>>
vars == <<browserVars, door, outcome, pc, cancels, cache, live, callVars, steady, faults>>

Ends == {"live", "prewarmed", "cache", "index", "fixture", "degraded"}

SearchTypeOK ==
  /\ BrowserTypeOK
  /\ CacheTypeOK
  /\ pc \in [Calls -> Visiting \cup {"idle", "prefer", "resume", "store", "lookup",
                                      "index", "fixture", "done", "cancelled"}]
  /\ query \in [Calls -> Queries]
  /\ stage \in [Calls -> {"live", "refresh", "index"}]
  /\ attempt \in [Calls -> 0..MaxRetries]
  /\ got \in [Calls -> SUBSET Posts]
  /\ kept \in [Calls -> SUBSET Posts]
  /\ answer \in [Calls -> {"none", "error"} \cup Ends]
  /\ steady \subseteq Calls
  /\ faults \in Nat
  /\ cancels + faults <= MaxMishaps

\* Rows of earlier searches and of the prewarm job are there when a process begins.
Init ==
  /\ BrowserInit
  /\ cache \in [Queries -> {{}} \cup {s \in SUBSET Posts : s \in SitePages}]
  /\ live = {q \in Queries : cache[q] # {}}
  /\ pc = [c \in Calls |-> "idle"]
  /\ door = [c \in Calls |-> "browser"]
  /\ outcome = [c \in Calls |-> "none"]
  /\ query \in [Calls -> Queries]
  /\ stage = [c \in Calls |-> "live"]
  /\ attempt = [c \in Calls |-> 0]
  /\ got = [c \in Calls |-> {}]
  /\ kept = [c \in Calls |-> {}]
  /\ answer = [c \in Calls |-> "none"]
  /\ steady = {}
  /\ cancels = 0
  /\ faults = 0

-------------------------------------------------------------------------------
(* What passes the filters.                                                *)

\* Mutation of Good: advertisements pass.
GoodOrAdvert(q, posts, checked) == ForQuery(posts, Terms[q], checked)

\* Rows carry the quality version they were checked under, fresh posts do not.
Good(q, posts, checked) == ForQuery(Authentic(posts), Terms[q], checked)
UsableRow(q) == Good(q, GetCached(q), TRUE) # {}

Set(f, c, v) == [f EXCEPT ![c] = v]

\* The locals of a finished call, or of a finished tier, are gone.
Forget(c) ==
  /\ stage' = Set(stage, c, "live")
  /\ door' = Set(door, c, "browser")
  /\ outcome' = Set(outcome, c, "none")
  /\ attempt' = Set(attempt, c, 0)
  /\ kept' = Set(kept, c, {})

\* The call returns.
Answer(c, from, source, posts) ==
  /\ At(c, from, "done")
  /\ answer' = Set(answer, c, source)
  /\ got' = Set(got, c, posts)
  /\ Forget(c)

\* A new visit of call c, for a stage; only the live stage uses a configured profile.
Visit(c, from, s) ==
  /\ At(c, from, "lock")
  /\ stage' = Set(stage, c, s)
  /\ door' = Set(door, c, IF profile /\ s = "live" THEN "profile" ELSE "browser")
  /\ outcome' = Set(outcome, c, "none")

-------------------------------------------------------------------------------
(* _execute_real().                                                        *)

\* XHS_PREFER_CACHE is read anew by each call.
Call(c, prefer) ==
  /\ IF prefer
       THEN At(c, "idle", "prefer") /\ UNCHANGED <<door, outcome, stage, attempt>>
       ELSE Visit(c, "idle", "live") /\ attempt' = Set(attempt, c, 1)
  /\ UNCHANGED <<browserVars, cacheVars, cancels, query, got, kept, answer, faults>>

\* The lookup before anything else.  An error is a miss.
Prefer(c, fails) ==
  /\ pc[c] = "prefer"
  /\ \/ /\ ~fails /\ UsableRow(query[c])
        /\ Answer(c, "prefer", "prewarmed", Good(query[c], GetCached(query[c]), TRUE))
     \/ /\ fails \/ ~UsableRow(query[c])
        /\ Visit(c, "prefer", "live")
        /\ attempt' = Set(attempt, c, 1)
        /\ UNCHANGED <<got, kept, answer>>
  /\ UNCHANGED <<browserVars, cacheVars, cancels, query>>

\* The work of a visit: a page of results, a rate limit or another failure.
Scrape(c, raw) ==
  /\ stage[c] = "live"
  /\ Leave(c, "posts")
  /\ got' = Set(got, c, raw)
  /\ UNCHANGED <<cacheVars, cancels, query, stage, attempt, kept, answer, faults>>

ScrapeFails(c, result) ==
  /\ stage[c] = "live"
  /\ result \in {"busy", "failed"}
  /\ Leave(c, result)
  /\ UNCHANGED <<cacheVars, cancels, callVars, faults>>

\* The page of each post, when it opens in time, brings its text and images.
Detailed(posts, opened) == {IF p \in opened THEN Detail[p] ELSE p : p \in posts}

\* _enrich_indexed_posts()
Enrich(c, opened) ==
  /\ stage[c] # "live"
  /\ Leave(c, "posts")
  /\ got' = Set(got, c, Detailed(got[c], opened))
  /\ UNCHANGED <<cacheVars, cancels, query, stage, attempt, kept, answer, faults>>

Fresh(c) == Good(query[c], got[c], FALSE)

\* A rate limit is tried again; no authentic post is a failure of the live tier.
AfterLive(c) ==
  /\ pc[c] = "resume"
  /\ stage[c] = "live"
  /\ \/ /\ outcome[c] = "busy" /\ attempt[c] < MaxRetries
        /\ Visit(c, "resume", "live")
        /\ attempt' = Set(attempt, c, attempt[c] + 1)
        /\ UNCHANGED <<got, kept>>
     \/ /\ outcome[c] = "posts" /\ Fresh(c) # {}
        /\ At(c, "resume", "store")
        /\ got' = Set(got, c, Fresh(c))
        /\ Forget(c)
     \/ /\ \/ outcome[c] = "failed"
           \/ outcome[c] = "busy" /\ attempt[c] = MaxRetries
           \/ outcome[c] = "posts" /\ Fresh(c) = {}
        /\ At(c, "resume", "lookup")
        /\ got' = Set(got, c, {})
        /\ Forget(c)
  /\ UNCHANGED <<browserVars, cacheVars, cancels, query, answer, faults>>

\* put_cached() of what the live tier or the index found.
Store(c) ==
  /\ stage[c] # "refresh"
  /\ Answer(c, "store", stage[c], got[c])
  /\ PutCached(query[c], got[c])
  /\ UNCHANGED <<browserVars, cancels, query, faults>>

\* A failing put loses the posts to the next tier.
StoreFails(c) ==
  /\ stage[c] # "refresh"
  /\ At(c, "store", IF stage[c] = "live" THEN "lookup" ELSE "fixture")
  /\ got' = Set(got, c, {})
  /\ Forget(c)
  /\ UNCHANGED <<browserVars, cacheVars, cancels, query, answer>>

\* Mutation of Lookup: a row without images is a miss.
LookupImaged(c, fails) ==
  LET row == Good(query[c], GetCached(query[c]), TRUE)
  IN /\ pc[c] = "lookup"
     /\ \/ /\ fails \/ Images(row) = 0
           /\ At(c, "lookup", "index")
           /\ UNCHANGED <<door, outcome, stage, attempt, got, kept, answer>>
        \/ /\ ~fails /\ Images(row) > 0
           /\ Answer(c, "lookup", "cache", row)
     /\ UNCHANGED <<browserVars, cacheVars, cancels, query>>

\* _load_cached_result() of the second tier.  Posts without any image are opened again.
Lookup(c, fails) ==
  LET row == Good(query[c], GetCached(query[c]), TRUE)
  IN /\ pc[c] = "lookup"
     /\ \/ /\ fails \/ row = {}
           /\ At(c, "lookup", "index")
           /\ UNCHANGED <<door, outcome, stage, attempt, got, kept, answer>>
        \/ /\ ~fails /\ row # {} /\ Images(row) > 0
           /\ Answer(c, "lookup", "cache", row)
        \/ /\ ~fails /\ row # {} /\ Images(row) = 0
           /\ Visit(c, "lookup", "refresh")
           /\ got' = Set(got, c, row)
           /\ kept' = Set(kept, c, row)
           /\ UNCHANGED <<attempt, answer>>
     /\ UNCHANGED <<browserVars, cacheVars, cancels, query>>

\* The row is written again when the visit added images; otherwise it is served as it is.
AfterRefresh(c) ==
  LET better == Good(query[c], IF outcome[c] = "posts" THEN got[c] ELSE kept[c], FALSE)
  IN /\ pc[c] = "resume"
     /\ stage[c] = "refresh"
     /\ IF Images(better) > Images(kept[c])
          THEN /\ At(c, "resume", "store")
               /\ got' = Set(got, c, better)
               /\ UNCHANGED <<door, outcome, stage, attempt, kept, answer>>
          ELSE Answer(c, "resume", "cache", kept[c])
     /\ UNCHANGED <<browserVars, cacheVars, cancels, query, faults>>

StoreRefresh(c) ==
  /\ stage[c] = "refresh"
  /\ Answer(c, "store", "cache", got[c])
  /\ PutCached(query[c], got[c])
  /\ UNCHANGED <<browserVars, cancels, query, faults>>

\* Nobody catches a failure of this put: the registry answers with ok=False.
StoreRefreshFails(c) ==
  /\ stage[c] = "refresh"
  /\ Answer(c, "store", "error", {})
  /\ UNCHANGED <<browserVars, cacheVars, cancels, query>>

\* _merge_index_posts(): the image hit of a note takes the place of its link.
Merged(images, links) ==
  images \cup {p \in links : \A i \in images : NoteOf[i] # NoteOf[p]}

\* The public index: hits that need their page opened, or nothing.
Index(c, images, links) ==
  LET stubs == {p \in Merged(images, links) : NeedsDetail(p)}
  IN /\ pc[c] = "index"
     /\ IF stubs = {}
          THEN At(c, "index", "fixture") /\ UNCHANGED <<door, outcome, stage, got>>
          ELSE Visit(c, "index", "index") /\ got' = Set(got, c, stubs)
     /\ UNCHANGED <<browserVars, cacheVars, cancels, query, attempt, kept, answer, faults>>

\* Index hits are checked for relevance, and not for authenticity.
AfterIndex(c) ==
  LET relevant == ForQuery(got[c], Terms[query[c]], FALSE)
  IN /\ pc[c] = "resume"
     /\ stage[c] = "index"
     /\ At(c, "resume", IF relevant = {} THEN "fixture" ELSE "store")
     /\ got' = Set(got, c, relevant)
     /\ UNCHANGED <<browserVars, door, outcome, cacheVars, cancels, query, stage, attempt,
                    kept, answer, faults>>

Fixture(c, found) ==
  /\ Answer(c, "fixture", IF found THEN "fixture" ELSE "degraded", {})
  /\ UNCHANGED <<browserVars, cacheVars, cancels, query, faults>>

-------------------------------------------------------------------------------
(* The surroundings: database faults, a phase timeout, the row's lifetime. *)

DatabaseFault(c) ==
  /\ cancels + faults < MaxMishaps
  /\ faults' = faults + 1
  /\ Prefer(c, TRUE) \/ Lookup(c, TRUE) \/ StoreFails(c) \/ StoreRefreshFails(c)

Cancel(c) ==
  /\ cancels + faults < MaxMishaps
  /\ pc[c] \notin {"idle", "done", "cancelled"}
  /\ pc' = Set(pc, c, "cancelled")
  /\ cancels' = cancels + 1
  /\ IF pc[c] \in Visiting THEN CancelVisit(c) ELSE UNCHANGED browserVars
  /\ got' = Set(got, c, {})
  /\ Forget(c)
  /\ UNCHANGED <<cacheVars, query, answer, faults>>

RowExpires ==
  /\ \E q \in Queries : Expire(q)
  /\ UNCHANGED <<browserVars, door, outcome, pc, cancels, callVars, faults>>

CallStep(c) ==
  \/ /\ VisitStep(c, stage[c] = "live")
     /\ UNCHANGED <<cacheVars, cancels, callVars, faults>>
  \/ Prefer(c, FALSE) /\ UNCHANGED faults
  \/ \E raw \in SitePages : Scrape(c, raw)
  \/ \E result \in {"busy", "failed"} : ScrapeFails(c, result)
  \/ pc[c] = "work" /\ \E opened \in SUBSET got[c] : Enrich(c, opened)
  \/ AfterLive(c) \/ Store(c)
  \/ Lookup(c, FALSE) /\ UNCHANGED faults
  \/ AfterRefresh(c) \/ StoreRefresh(c)
  \/ \E images \in ImagePages, links \in LinkPages : Index(c, images, links)
  \/ AfterIndex(c)
  \/ \E found \in BOOLEAN : Fixture(c, found)

\* The calls that have begun while their row was usable, and for which it still is.
Steady ==
  steady' = {c \in Calls :
       /\ c \in steady \/ pc[c] = "idle"
       /\ pc'[c] # "idle"
       /\ faults' = faults
       /\ UsableRow(query[c]) /\ UsableRow(query[c])'}

Next ==
  /\ \/ \E c \in Calls :
          \/ \E prefer \in BOOLEAN : Call(c, prefer)
          \/ CallStep(c) \/ DatabaseFault(c) \/ Cancel(c)
     \/ RowExpires
  /\ Steady

Spec == Init /\ [][Next]_vars

\* Every wait has a timeout and asyncio.Lock is fair, so each call goes on.
FairSpec == Spec /\ \A c \in Calls : WF_pc(CallStep(c))

-------------------------------------------------------------------------------
(* Properties.                                                             *)

\* The posts of an answer pass the filters of its tier, whichever row or page they came
\* from and whoever wrote the row meanwhile; and every tier but the last brings some.
AnswersPassFilters ==
  \A c \in Calls : pc[c] = "done" =>
    /\ answer[c] \in {"live", "prewarmed", "cache"} =>
         got[c] # {} /\ got[c] = Authentic(got[c])
    /\ answer[c] = "index" => got[c] # {}
    /\ \A p \in got[c] : p.stub # "link"

\* A row that was usable from the call to its answer is never passed over: the call does
\* not end in the fixture, in nothing or in an error while the database works.
UsableRowServes ==
  \A c \in steady : pc[c] = "done" => answer[c] \notin {"fixture", "degraded", "error"}

\* Every call ends, whatever fails: no lock is kept, no retry goes on for ever.
CallsEnd == \A c \in Calls : (pc[c] # "idle") ~> (pc[c] \in {"done", "cancelled"})
===============================================================================
