------------------------------- MODULE TripPages -------------------------------
(***************************************************************************)
(* What is shown of the trips of one user: the list that is scrolled page  *)
(* by page, the page of a trip and its public copy behind a share link     *)
(* (list_trips(), get_trip(), list_trip_reports(), get_trip_report(),       *)
(* create_share(), revoke_share() and delete_trip() in api/trips.py,       *)
(* get_shared_trip() in api/shared.py).                                    *)
(*                                                                         *)
(* A page is put together from several statements, and the list from       *)
(* several requests, while trips are created, run and deleted, and links   *)
(* are made and revoked.  At READ COMMITTED each statement sees what was   *)
(* committed when it began.  The work on a trip is reduced to the commits  *)
(* that a page can see; TripRuns has the rest of it.  There is one client, *)
(* which looks at the list or at a page, and can leave either.             *)
(***************************************************************************)
EXTENDS Naturals, FiniteSets, SequencesExt

CONSTANTS
  Trips, Tokens,
  NoTrip, NoToken,
  PageSize,      \* limit of the list
  MaxReports     \* bound: reports of a trip

ASSUME PageConstants ==
  /\ NoTrip \notin Trips /\ NoToken \notin Tokens
  /\ PageSize \in Nat \ {0} /\ MaxReports \in Nat

VARIABLES
  status,    \* trips.status; "opening" while create_trip() has not committed
  born,      \* trip -> its place in the order of (created_at, id), 0 before it has one
  reports,   \* trip -> reports stored so far
  saved,     \* trips whose run has stored its report and not yet written its status
  share,     \* token -> its row: the trip, and whether it is there and still valid
  scroll,    \* the list: its cursor (0 before the first page), what the client has seen
  steady,    \* trips that were there from the first page of the list on (history)
  reader     \* a page: its next statement and what it has read

vars == <<status, born, reports, saved, share, scroll, steady, reader>>

tripVars == <<status, born, reports, saved>>

Statuses == {"none", "opening", "clarifying", "running", "complete", "aborted", "gone"}
Visible(t) == status[t] \in {"clarifying", "running", "complete", "aborted"}
LinkStates == {"unused", "minting", "live", "expired", "gone"}
Link == [trip : Trips \cup {NoTrip}, state : LinkStates]
Page == [pc : {"idle", "share", "trip", "report", "done"},
         token : Tokens \cup {NoToken}, trip : Trips \cup {NoTrip},
         status : Statuses, reports : 0..MaxReports, ok : BOOLEAN,
         lawful : BOOLEAN, history : BOOLEAN, want : 0..MaxReports]

\* The trips and links, and the page that is read.
RowsTypeOK ==
  /\ status \in [Trips -> Statuses]
  /\ reports \in [Trips -> 0..MaxReports]
  /\ saved \subseteq Trips
  /\ share \in [Tokens -> Link]
  /\ \A k \in Tokens : share[k].state # "unused" => share[k].trip \in Trips
  /\ reader \in Page
  /\ reader.pc = "share" => reader.token \in Tokens
  /\ reader.pc \in {"trip", "report"} \/ reader.ok => reader.trip \in Trips

PagesTypeOK ==
  /\ RowsTypeOK
  /\ born \in [Trips -> Nat]
  /\ scroll \in [pc : {"idle", "page", "done"}, cursor : Nat, seen : Seq(Trips)]
  /\ steady \subseteq Trips

NoReader == [pc |-> "idle", token |-> NoToken, trip |-> NoTrip, status |-> "none",
             reports |-> 0, ok |-> FALSE, lawful |-> FALSE, history |-> FALSE, want |-> 0]

NoScroll == [pc |-> "idle", cursor |-> 0, seen |-> <<>>]

Init ==
  /\ status = [t \in Trips |-> "none"]
  /\ born = [t \in Trips |-> 0]
  /\ reports = [t \in Trips |-> 0]
  /\ saved = {}
  /\ share = [k \in Tokens |-> [trip |-> NoTrip, state |-> "unused"]]
  /\ scroll = NoScroll
  /\ steady = {}
  /\ reader = NoReader

-------------------------------------------------------------------------------
(* The work on a trip.                                                     *)

SetStatus(t, s) ==
  /\ status' = [status EXCEPT ![t] = s]
  /\ UNCHANGED <<share, scroll, steady, reader>>

\* create_trip() flushes the row, and with it created_at; the clarifier thinks before the
\* commit.
OpenTrip(t) ==
  /\ status[t] = "none"
  /\ SetStatus(t, "opening")
  /\ born' = [born EXCEPT ![t] = Cardinality({u \in Trips : born[u] # 0}) + 1]
  /\ UNCHANGED <<reports, saved>>

CommitTrip(t, questions) ==
  /\ status[t] = "opening"
  /\ SetStatus(t, IF questions THEN "clarifying" ELSE "running")
  /\ UNCHANGED <<born, reports, saved>>

\* clarify_trip(), skip_clarify_trip(), or refine_trip() of a trip that has a report.
Resume(t) ==
  /\ \/ status[t] = "clarifying"
     \/ status[t] = "complete" /\ reports[t] > 0
  /\ SetStatus(t, "running")
  /\ UNCHANGED <<born, reports, saved>>

\* _save_report() and _save_refine_report()
SaveReport(t) ==
  /\ status[t] = "running" /\ t \notin saved /\ reports[t] < MaxReports
  /\ reports' = [reports EXCEPT ![t] = @ + 1]
  /\ saved' = saved \cup {t}
  /\ UNCHANGED <<status, born, share, scroll, steady, reader>>

\* Mutation of Settle: a run whose report was not stored is complete.
SettleAnyway(t, s) ==
  /\ status[t] = "running"
  /\ SetStatus(t, s)
  /\ saved' = saved \ {t}
  /\ UNCHANGED <<born, reports>>

\* The final status: a run that could not store its report is aborted.
Settle(t, s) ==
  /\ status[t] = "running"
  /\ s = "aborted" \/ (s = "complete" /\ t \in saved)
  /\ SetStatus(t, s)
  /\ saved' = saved \ {t}
  /\ UNCHANGED <<born, reports>>

\* delete_trip(): reports and links go with it; a run in progress forbids it.
DeleteTrip(t) ==
  /\ Visible(t)
  /\ status[t] # "running"
  /\ status' = [status EXCEPT ![t] = "gone"]
  /\ reports' = [reports EXCEPT ![t] = 0]
  /\ saved' = saved \ {t}
  /\ share' = [k \in Tokens |->
                 IF share[k].trip = t /\ share[k].state \in {"live", "expired"}
                 THEN [share[k] EXCEPT !.state = "gone"] ELSE share[k]]
  /\ steady' = steady \ {t}
  /\ UNCHANGED <<born, scroll, reader>>

-------------------------------------------------------------------------------
(* Links.                                                                  *)

SetLink(k, link) ==
  /\ share' = [share EXCEPT ![k] = link]
  /\ UNCHANGED <<tripVars, scroll, steady, reader>>

\* create_share() reads the trip ...
Mint(k, t) ==
  /\ share[k].state = "unused"
  /\ Visible(t)
  /\ SetLink(k, [trip |-> t, state |-> "minting"])

\* ... and inserts the link; the foreign key fails when the trip has gone meanwhile.
MintCommit(k) ==
  /\ share[k].state = "minting"
  /\ SetLink(k, [share[k] EXCEPT !.state = IF Visible(share[k].trip) THEN "live" ELSE "gone"])

Revoke(k) ==
  /\ share[k].state \in {"live", "expired"}
  /\ SetLink(k, [share[k] EXCEPT !.state = "gone"])

\* Thirty days pass; the row stays.
ExpireLink(k) ==
  /\ share[k].state = "live"
  /\ SetLink(k, [share[k] EXCEPT !.state = "expired"])

-------------------------------------------------------------------------------
(* The list.                                                               *)

\* The rows below the cursor.
Below(cursor) == {t \in Trips : Visible(t) /\ (cursor = 0 \/ born[t] < cursor)}

\* ORDER BY created_at DESC, id DESC: as many rows are newer as stand before a row.
NewestFirst(rows) ==
  [i \in 1..Cardinality(rows) |->
     CHOOSE t \in rows : Cardinality({u \in rows : born[u] > born[t]}) = i - 1]

\* Mutation of ListTrips: the cursor is the extra row.
ListSkipping ==
  LET rows == NewestFirst(Below(scroll.cursor))
      more == Len(rows) > PageSize
      page == IF more THEN SubSeq(rows, 1, PageSize) ELSE rows
  IN /\ scroll.pc # "done"
     /\ scroll' = [pc |-> IF more THEN "page" ELSE "done",
                   cursor |-> IF more THEN born[rows[PageSize + 1]] ELSE scroll.cursor,
                   seen |-> scroll.seen \o page]
     /\ steady' = IF scroll.pc = "idle" THEN {t \in Trips : Visible(t)} ELSE steady
     /\ reader' = NoReader
     /\ UNCHANGED <<tripVars, share>>

\* list_trips(): one row more than a page tells whether there is another one.
ListTrips ==
  LET rows == NewestFirst(Below(scroll.cursor))
      more == Len(rows) > PageSize
      page == IF more THEN SubSeq(rows, 1, PageSize) ELSE rows
  IN /\ scroll.pc # "done"
     /\ scroll' = [pc |-> IF more THEN "page" ELSE "done",
                   cursor |-> IF more THEN born[page[PageSize]] ELSE scroll.cursor,
                   seen |-> scroll.seen \o page]
     /\ steady' = IF scroll.pc = "idle" THEN {t \in Trips : Visible(t)} ELSE steady
     /\ reader' = NoReader
     /\ UNCHANGED <<tripVars, share>>

-------------------------------------------------------------------------------
(* The page of a trip, for its owner and behind a link.                    *)

Read(next) ==
  /\ reader' = next
  /\ UNCHANGED <<tripVars, share, scroll, steady>>

\* The client leaves the list, or another page.
Open(page) ==
  /\ reader' = page
  /\ scroll' = NoScroll
  /\ steady' = {}
  /\ UNCHANGED <<tripVars, share>>

OpenPage(t) ==
  Open([NoReader EXCEPT !.pc = "trip", !.trip = t, !.lawful = Visible(t)])

\* list_trip_reports(): the history of a trip.
OpenHistory(t) ==
  Open([NoReader EXCEPT !.pc = "trip", !.trip = t, !.lawful = Visible(t),
                        !.history = TRUE])

\* get_trip_report(): one of the reports that the history has named.
OpenReport(n) ==
  /\ reader.pc = "done" /\ reader.ok /\ reader.history
  /\ n \in 1..reader.reports
  /\ Open([NoReader EXCEPT !.pc = "trip", !.trip = reader.trip, !.lawful = reader.lawful,
                           !.want = n])

\* The token is known once the link has been committed.
OpenLink(k) ==
  /\ share[k].state \in {"live", "expired", "gone"}
  /\ Open([NoReader EXCEPT !.pc = "share", !.token = k,
                           !.lawful = (share[k].state = "live")])

\* Mutation of ReadShare: the expiry is not looked at.
ReadAnyShare ==
  /\ reader.pc = "share"
  /\ Read(IF share[reader.token].state \in {"live", "expired"}
          THEN [reader EXCEPT !.pc = "trip", !.trip = share[reader.token].trip]
          ELSE [reader EXCEPT !.pc = "done"])

\* A missing, revoked or expired link is one and the same 404.
ReadShare ==
  /\ reader.pc = "share"
  /\ Read(IF share[reader.token].state = "live"
          THEN [reader EXCEPT !.pc = "trip", !.trip = share[reader.token].trip]
          ELSE [reader EXCEPT !.pc = "done"])

ReadTrip ==
  /\ reader.pc = "trip"
  /\ Read(IF Visible(reader.trip)
          THEN [reader EXCEPT !.pc = "report", !.status = status[reader.trip]]
          ELSE [reader EXCEPT !.pc = "done"])

\* The newest report, all of them, or the one that was asked for, a 404 without it.
ReadReport ==
  /\ reader.pc = "report"
  /\ Read([reader EXCEPT !.pc = "done", !.ok = (reader.want <= reports[reader.trip]),
                         !.reports = reports[reader.trip]])

-------------------------------------------------------------------------------
Next ==
  \/ \E t \in Trips :
       \/ OpenTrip(t) \/ (\E questions \in BOOLEAN : CommitTrip(t, questions))
       \/ Resume(t) \/ SaveReport(t) \/ (\E s \in {"complete", "aborted"} : Settle(t, s))
       \/ DeleteTrip(t) \/ OpenPage(t) \/ OpenHistory(t)
  \/ \E k \in Tokens :
       \/ (\E t \in Trips : Mint(k, t))
       \/ MintCommit(k) \/ Revoke(k) \/ ExpireLink(k) \/ OpenLink(k)
  \/ \E n \in 1..MaxReports : OpenReport(n)
  \/ ListTrips \/ ReadShare \/ ReadTrip \/ ReadReport

Spec == Init /\ [][Next]_vars

-------------------------------------------------------------------------------
(* Properties.                                                             *)

\* A client that has scrolled to the end has seen every trip that was there all along,
\* none twice, newest first, whatever was created and deleted meanwhile.
ScrollIsExact ==
  /\ scroll.pc = "done" => steady \subseteq ToSet(scroll.seen)
  /\ \A i, j \in DOMAIN scroll.seen :
       i < j => born[scroll.seen[i]] > born[scroll.seen[j]]

\* A link that was revoked, had expired or had lost its trip before the request came shows
\* nothing; one that was good shows its own trip, unless it went bad meanwhile.
LinkTellsTruth ==
  reader.pc = "done" /\ reader.token # NoToken =>
    /\ reader.ok => reader.lawful /\ reader.trip = share[reader.token].trip
    /\ reader.lawful /\ ~reader.ok => share[reader.token].state # "live"

\* A page that calls a trip complete shows a report, though it reads them in two
\* statements, and a report that the history has named is found: only a deletion in
\* between leaves a page without one.
CompletePageHasReport ==
  /\ reader.ok /\ reader.status = "complete" =>
       reader.reports > 0 \/ status[reader.trip] = "gone"
  /\ reader.pc = "done" /\ reader.want > 0 /\ ~reader.ok => status[reader.trip] = "gone"
===============================================================================
