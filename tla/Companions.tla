------------------------------ MODULE Companions ------------------------------
(***************************************************************************)
(* The companions and the profile of one user, and who goes on a trip:     *)
(* api/companions.py, api/profile.py, the companions of create_trip(),     *)
(* clarify_trip() and skip_clarify_trip() in api/trips.py, and             *)
(* _load_profile_context() of the runner.                                  *)
(*                                                                         *)
(* Requests overlap.  Each runs in one transaction at READ COMMITTED: a    *)
(* statement sees what was committed when it began; a flush waits for      *)
(* another transaction that has written the same row or unique name; and   *)
(* get_request_session() commits after the response has been sent.         *)
(***************************************************************************)
EXTENDS Naturals, FiniteSets

CONSTANTS
  Requests,     \* requests that can be in progress at the same time
  Names,        \* names of companions
  Fold,         \* name -> its lower case form
  NoName,
  Cap,          \* _COMPANION_CAP
  MaxIds,       \* bound: companions ever inserted
  MaxRequests   \* bound: requests

ASSUME CompanionConstants ==
  /\ IsFiniteSet(Requests)
  /\ NoName \notin Names
  /\ Cap \in Nat \ {0} /\ MaxIds \in Nat /\ MaxRequests \in Nat

Ids == 1..MaxIds

VARIABLES
  rows,      \* id -> committed name, NoName without a row
  used,      \* ids given out so far
  known,     \* ids a response has named
  profile,   \* the user has a row of profiles
  trip,      \* the trip: its status, the picked ids, its rows of trip_companions, the
             \* ids handed to the runner and those of the companions it loaded
  pc,        \* request -> its next statement
  kind,      \* request -> what it does
  name,      \* request -> the name it writes
  target,    \* request -> the id it writes
  owned,     \* request -> the picked companions create_trip() has found
  errors,    \* internal errors answered (history)
  overlap,   \* two requests have been in progress at once (history)
  count      \* requests so far

vars == <<rows, used, known, profile, trip, pc, kind, name, target, owned, errors, overlap, count>>

\* The variables of a request.
request == <<kind, name, target, owned>>

Alive == {i \in Ids : rows[i] # NoName}
Statuses == {"none", "clarifying", "queued", "ran"}

CompanionsTypeOK ==
  /\ rows \in [Ids -> Names \cup {NoName}]
  /\ used \in 0..MaxIds
  /\ known \subseteq 1..used
  /\ profile \in BOOLEAN
  /\ trip \in [status : Statuses, parked : BOOLEAN, picked : SUBSET Ids,
               links : SUBSET Ids, args : SUBSET Ids, ran : SUBSET Ids]
  /\ pc \in [Requests -> {"idle", "count", "load", "name", "flush", "commit", "select",
                          "think", "profile", "insert", "rewrite"}]
  /\ kind \in [Requests -> {"none", "create", "update", "delete", "trip", "profile"}]
  /\ name \in [Requests -> Names \cup {NoName}]
  /\ target \in [Requests -> 0..MaxIds]
  /\ owned \in [Requests -> SUBSET Ids]
  /\ errors \in Nat
  /\ overlap \in BOOLEAN
  /\ count \in 0..MaxRequests

NoTrip == [status |-> "none", parked |-> FALSE, picked |-> {}, links |-> {}, args |-> {},
           ran |-> {}]

Init ==
  /\ rows = [i \in Ids |-> NoName]
  /\ used = 0
  /\ known = {}
  /\ profile = FALSE
  /\ trip = NoTrip
  /\ pc = [r \in Requests |-> "idle"]
  /\ kind = [r \in Requests |-> "none"]
  /\ name = [r \in Requests |-> NoName]
  /\ target = [r \in Requests |-> 0]
  /\ owned = [r \in Requests |-> {}]
  /\ errors = 0
  /\ overlap = FALSE
  /\ count = 0

-------------------------------------------------------------------------------
At(r, from, to) ==
  /\ pc[r] = from
  /\ pc' = [pc EXCEPT ![r] = to]

\* A request is over: its locals are gone, an exception nobody handles is an error.
Over(r, from, outcome) ==
  /\ At(r, from, "idle")
  /\ kind' = [kind EXCEPT ![r] = "none"]
  /\ name' = [name EXCEPT ![r] = NoName]
  /\ target' = [target EXCEPT ![r] = 0]
  /\ owned' = [owned EXCEPT ![r] = {}]
  /\ errors' = IF outcome = "error" THEN errors + 1 ELSE errors
  /\ UNCHANGED <<overlap, count>>

\* A request begins with its first statement.
Begin(r, k, n, i, first) ==
  /\ count < MaxRequests
  /\ At(r, "idle", first)
  /\ kind' = [kind EXCEPT ![r] = k]
  /\ name' = [name EXCEPT ![r] = n]
  /\ target' = [target EXCEPT ![r] = i]
  /\ overlap' = (overlap \/ \E s \in Requests \ {r} : pc[s] # "idle")
  /\ count' = count + 1
  /\ UNCHANGED <<rows, used, known, profile, trip, owned, errors>>

-------------------------------------------------------------------------------
(* api/companions.py.                                                      *)

CreateCompanion(r, n) == Begin(r, "create", n, 0, "count")
UpdateCompanion(r, i, n) == i \in known /\ Begin(r, "update", n, i, "load")
DeleteCompanion(r, i) == i \in known /\ Begin(r, "delete", NoName, i, "load")

\* Mutation of CountRows: one too many.
CountLoosely(r) ==
  /\ \/ /\ Cardinality(Alive) > Cap
        /\ Over(r, "count", "refused")
     \/ /\ Cardinality(Alive) <= Cap
        /\ At(r, "count", "name")
        /\ UNCHANGED <<request, errors, overlap, count>>
  /\ UNCHANGED <<rows, used, known, profile, trip>>

\* The cap: 409 when it is reached.
CountRows(r) ==
  /\ \/ /\ Cardinality(Alive) >= Cap
        /\ Over(r, "count", "refused")
     \/ /\ Cardinality(Alive) < Cap
        /\ At(r, "count", "name")
        /\ UNCHANGED <<request, errors, overlap, count>>
  /\ UNCHANGED <<rows, used, known, profile, trip>>

\* _get_owned_companion(): 404 without a row.
Load(r) ==
  /\ \/ /\ target[r] \notin Alive
        /\ Over(r, "load", "refused")
     \/ /\ target[r] \in Alive
        /\ At(r, "load", IF kind[r] = "update" THEN "name" ELSE "flush")
        /\ UNCHANGED <<request, errors, overlap, count>>
  /\ UNCHANGED <<rows, used, known, profile, trip>>

\* _name_taken(): the rows whose name differs in case only.  scalar_one_or_none() raises
\* when there are two.
Twins(r) == {i \in Alive \ {target[r]} : Fold[rows[i]] = Fold[name[r]]}

CheckName(r) ==
  /\ pc[r] = "name"
  /\ \/ /\ Twins(r) # {}
        /\ Over(r, "name", IF Cardinality(Twins(r)) > 1 THEN "error" ELSE "refused")
     \/ /\ Twins(r) = {}
        /\ At(r, "name", "flush")
        /\ UNCHANGED <<request, errors, overlap, count>>
  /\ UNCHANGED <<rows, used, known, profile, trip>>

\* Another transaction has written the row, or the name, and has not committed.
Blocked(r) ==
  \E s \in Requests \ {r} :
    /\ pc[s] = "commit" /\ kind[s] # "profile"
    /\ \/ target[s] = target[r]
       \/ name[r] # NoName /\ name[s] = name[r]

NameExists(r) == \E i \in Alive \ {target[r]} : rows[i] = name[r]

\* session.flush().  The unique name costs a 409; a row that is gone costs an update an
\* internal error, and a delete nothing.
Flush(r) ==
  /\ pc[r] = "flush"
  /\ ~Blocked(r)
  /\ \/ /\ kind[r] = "update" /\ target[r] \notin Alive
        /\ Over(r, "flush", "error")
        /\ UNCHANGED <<used, known>>
     \/ /\ kind[r] = "create" \/ (kind[r] = "update" /\ target[r] \in Alive)
        /\ NameExists(r)
        /\ Over(r, "flush", "refused")
        /\ UNCHANGED <<used, known>>
     \/ /\ kind[r] = "create" /\ ~NameExists(r) /\ used < MaxIds
        /\ At(r, "flush", "commit")
        /\ used' = used + 1
        /\ target' = [target EXCEPT ![r] = used + 1]
        /\ known' = known \cup {used + 1}
        /\ UNCHANGED <<kind, name, owned, errors, overlap, count>>
     \/ /\ kind[r] = "update" /\ target[r] \in Alive /\ ~NameExists(r)
        /\ At(r, "flush", "commit")
        /\ UNCHANGED <<used, known, request, errors, overlap, count>>
     \/ /\ kind[r] = "delete"
        /\ At(r, "flush", "commit")
        /\ UNCHANGED <<used, known, request, errors, overlap, count>>
  /\ UNCHANGED <<rows, profile, trip>>

\* Mutation of Commit: the trips keep a deleted companion.
CommitAlone(r) ==
  /\ kind[r] \notin {"trip", "profile"}
  /\ Over(r, "commit", "done")
  /\ rows' = [rows EXCEPT ![target[r]] = name[r]]
  /\ UNCHANGED <<used, known, profile, trip>>

\* The commit of get_request_session(), when the client has its answer.  A deleted
\* companion leaves the trips (ON DELETE CASCADE).
Commit(r) ==
  /\ kind[r] \notin {"trip", "profile"}
  /\ Over(r, "commit", "done")
  /\ rows' = [rows EXCEPT ![target[r]] = name[r]]
  /\ trip' = IF kind[r] = "delete" THEN [trip EXCEPT !.links = @ \ {target[r]}] ELSE trip
  /\ UNCHANGED <<used, known, profile>>

-------------------------------------------------------------------------------
(* api/profile.py: the first write inserts the row.                        *)

PutProfile(r) == Begin(r, "profile", NoName, 0, "profile")

FindProfile(r) ==
  /\ At(r, "profile", IF profile THEN "rewrite" ELSE "insert")
  /\ UNCHANGED <<rows, used, known, profile, trip, request, errors, overlap, count>>

\* Nobody catches the IntegrityError of a second insert.
FlushProfile(r) ==
  /\ pc[r] \in {"insert", "rewrite"}
  /\ ~\E s \in Requests : kind[s] = "profile" /\ pc[s] = "commit"
  /\ IF pc[r] = "insert" /\ profile
       THEN Over(r, "insert", "error")
       ELSE At(r, pc[r], "commit") /\ UNCHANGED <<request, errors, overlap, count>>
  /\ UNCHANGED <<rows, used, known, profile, trip>>

CommitProfile(r) ==
  /\ kind[r] = "profile"
  /\ Over(r, "commit", "done")
  /\ profile' = TRUE
  /\ UNCHANGED <<rows, used, known, trip>>

-------------------------------------------------------------------------------
(* api/trips.py.                                                           *)

\* create_trip(): the ids of the body, which companions of the user they are, and the
\* questions of the clarifier, during which the transaction stays open.
CreateTrip(r, picked) ==
  /\ trip.status = "none"
  /\ \A s \in Requests : kind[s] # "trip"
  /\ picked \subseteq known
  /\ count < MaxRequests
  /\ At(r, "idle", IF picked = {} THEN "think" ELSE "select")
  /\ kind' = [kind EXCEPT ![r] = "trip"]
  /\ trip' = [trip EXCEPT !.picked = picked]
  /\ overlap' = (overlap \/ \E s \in Requests \ {r} : pc[s] # "idle")
  /\ count' = count + 1
  /\ UNCHANGED <<rows, used, known, profile, name, target, owned, errors>>

SelectOwned(r) ==
  /\ At(r, "select", "think")
  /\ owned' = [owned EXCEPT ![r] = trip.picked \cap Alive]
  /\ UNCHANGED <<rows, used, known, profile, trip, kind, name, target, errors, overlap, count>>

\* A companion deleted meanwhile fails the foreign key, and with it the request.
TripFails(r) ==
  /\ ~(owned[r] \subseteq Alive)
  /\ Over(r, "think", "error")
  /\ trip' = NoTrip
  /\ UNCHANGED <<rows, used, known, profile>>

\* The rows of trip_companions wait for a transaction that deletes one of them.
TripCommits(r, questions) ==
  /\ owned[r] \subseteq Alive
  /\ ~\E s \in Requests : kind[s] = "delete" /\ pc[s] = "commit" /\ target[s] \in owned[r]
  /\ Over(r, "think", "done")
  /\ trip' = [trip EXCEPT !.status = IF questions THEN "clarifying" ELSE "queued",
                          !.parked = questions,
                          !.links = owned[r],
                          !.args = IF questions THEN {} ELSE trip.picked]
  /\ UNCHANGED <<rows, used, known, profile>>

\* clarify_trip() and skip_clarify_trip(), under the lock of the trip's row.
Clarify ==
  /\ trip.status = "clarifying"
  /\ trip' = [trip EXCEPT !.status = "queued", !.args = trip.links]
  /\ UNCHANGED <<rows, used, known, profile, pc, request, errors, overlap, count>>

\* Mutation of LoadContext: everyone.
LoadEveryone(args) == Alive

\* _load_profile_context(): no ids, or an empty list, is everyone.
LoadContext(args) == IF args = {} THEN Alive ELSE args \cap Alive

RunTrip ==
  /\ trip.status = "queued"
  /\ trip' = [trip EXCEPT !.status = "ran", !.ran = LoadContext(trip.args)]
  /\ UNCHANGED <<rows, used, known, profile, pc, request, errors, overlap, count>>

-------------------------------------------------------------------------------
RequestStep(r) ==
  \/ CountRows(r) \/ Load(r) \/ CheckName(r) \/ Flush(r) \/ Commit(r)
  \/ FindProfile(r) \/ FlushProfile(r) \/ CommitProfile(r)
  \/ SelectOwned(r) \/ TripFails(r) \/ \E questions \in BOOLEAN : TripCommits(r, questions)

Next ==
  \/ \E r \in Requests :
       \/ \E n \in Names : CreateCompanion(r, n)
       \/ \E i \in Ids, n \in Names : UpdateCompanion(r, i, n)
       \/ \E i \in Ids : DeleteCompanion(r, i)
       \/ PutProfile(r)
       \/ \E picked \in SUBSET known : CreateTrip(r, picked)
       \/ RequestStep(r)
  \/ Clarify
  \/ RunTrip

Spec == Init /\ [][Next]_vars

-------------------------------------------------------------------------------
(* Properties.                                                             *)

\* As long as no two requests overlap the API keeps its word: the cap, names that differ
\* in more than case, and no internal error.  In a race the cap is passed by the requests
\* that were counting together at most, and the unique constraint keeps names apart letter
\* by letter.
NamesAndCap ==
  /\ ~overlap =>
       /\ Cardinality(Alive) <= Cap
       /\ \A i, j \in Alive : Fold[rows[i]] = Fold[rows[j]] => i = j
       /\ errors = 0
  /\ Cardinality(Alive) <= Cap + Cardinality(Requests) - 1
  /\ \A i, j \in Alive : rows[i] = rows[j] => i = j

\* A trip runs with somebody who was not picked only if nobody was, or if it was parked
\* and lost all of its companions before it went on.
RunsWithPicked ==
  trip.ran \subseteq trip.picked
    \/ trip.picked = {}
    \/ (trip.parked /\ trip.links = {})

\* A trip names companions that exist, and it has picked them: deleting one takes it off
\* every trip, also off one that is parked or is being created meanwhile.
LinksAreAlive == trip.links \subseteq Alive \cap trip.picked

\* trip_runner.py:484: a companion deleted before the runner loads is treated as one the
\* user did not select.  So nobody goes who was not selected.
OnlySelectedRun == trip.picked # {} => trip.ran \subseteq trip.picked
===============================================================================
