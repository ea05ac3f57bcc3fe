------------------------------ MODULE ToolCache ------------------------------
(***************************************************************************)
(* The rows of tool_cache for one source (core/tools/_cache_db.py).  A row *)
(* is never deleted: it is written over, or it expires and stays.  A key   *)
(* is the query it is made from.                                           *)
(***************************************************************************)
EXTENDS FiniteSets

CONSTANTS
  Queries,    \* the queries that are searched for
  Posts       \* the posts the site has

VARIABLES
  cache,      \* query -> payload of its row, {} without a row
  live        \* queries whose row has not expired

cacheVars == <<cache, live>>

CacheTypeOK ==
  /\ cache \in [Queries -> SUBSET Posts]
  /\ live \subseteq {q \in Queries : cache[q] # {}}

CacheInit ==
  /\ cache = [q \in Queries |-> {}]
  /\ live = {}

\* get_cached(): no row and an expired row are the same miss.
GetCached(q) == IF q \in live THEN cache[q] ELSE {}

\* put_cached(): an upsert, which starts a new lifetime.
PutCached(q, posts) ==
  /\ cache' = [cache EXCEPT ![q] = posts]
  /\ live' = live \cup {q}

Expire(q) ==
  /\ q \in live
  /\ live' = live \ {q}
  /\ UNCHANGED cache
===============================================================================
