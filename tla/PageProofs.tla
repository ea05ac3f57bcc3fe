------------------------------ MODULE PageProofs ------------------------------
(***************************************************************************)
(* Theorems about TripPages, for any number of trips, links and reports    *)
(* and any size of a page.                                                 *)
(***************************************************************************)
EXTENDS TripPages, FiniteSetTheorems, TLAPS

USE PageConstants DEF tripVars

-------------------------------------------------------------------------------
(* Types.                                                                  *)

\* The commits of trips keep the types of rows.
LEMMA TripTypes ==
  ASSUME RowsTypeOK, NEW t \in Trips,
         \/ OpenTrip(t) \/ (\E questions \in BOOLEAN : CommitTrip(t, questions))
         \/ Resume(t) \/ SaveReport(t) \/ (\E s \in {"complete", "aborted"} : Settle(t, s))
  PROVE  RowsTypeOK'
  <1>1. CASE SaveReport(t)
    <2>1. reports[t] + 1 \in 0..MaxReports
      BY <1>1 DEF RowsTypeOK, SaveReport
    <2>2. reports' = [reports EXCEPT ![t] = reports[t] + 1] /\ saved' = saved \cup {t}
      BY <1>1 DEF SaveReport
    <2>3. UNCHANGED <<status, share, reader>>
      BY <1>1 DEF SaveReport
    <2>4. QED BY <2>1, <2>2, <2>3 DEF RowsTypeOK
  <1>2. CASE \/ OpenTrip(t) \/ (\E questions \in BOOLEAN : CommitTrip(t, questions))
             \/ Resume(t) \/ (\E s \in {"complete", "aborted"} : Settle(t, s))
    <2>1. PICK s \in Statuses : status' = [status EXCEPT ![t] = s]
      BY <1>2 DEF OpenTrip, CommitTrip, Resume, Settle, SetStatus, Statuses
    <2>2. UNCHANGED <<reports, share, reader>> /\ saved' \subseteq saved
      BY <1>2 DEF OpenTrip, CommitTrip, Resume, Settle, SetStatus
    <2>3. QED BY <2>1, <2>2 DEF RowsTypeOK
  <1>3. QED BY <1>1, <1>2

\* So do deletions and the actions on links.
LEMMA LinkTypes ==
  ASSUME RowsTypeOK,
         \/ \E t \in Trips : DeleteTrip(t)
         \/ \E k \in Tokens : \/ \E t \in Trips : Mint(k, t)
                              \/ MintCommit(k) \/ Revoke(k) \/ ExpireLink(k)
  PROVE  RowsTypeOK'
  <1>1. ASSUME NEW t \in Trips, DeleteTrip(t) PROVE RowsTypeOK'
    <2>1. /\ status' = [status EXCEPT ![t] = "gone"] /\ reports' = [reports EXCEPT ![t] = 0]
          /\ saved' = saved \ {t} /\ reader' = reader
      BY <1>1 DEF DeleteTrip
    <2>2. ASSUME NEW k \in Tokens
          PROVE  /\ share'[k] \in Link
                 /\ share'[k].state # "unused" => share'[k].trip \in Trips
      <3>1. share'[k] = share[k] \/ share'[k] = [share[k] EXCEPT !.state = "gone"]
        BY <1>1 DEF DeleteTrip
      <3>2. share[k].trip = t => t \in Trips
        OBVIOUS
      <3>3. CASE share'[k] = share[k]
        BY <3>3 DEF RowsTypeOK
      <3>4. CASE share'[k] = [share[k] EXCEPT !.state = "gone"] /\ share[k].trip = t
        BY <3>4 DEF RowsTypeOK, Link, LinkStates
      <3>5. QED BY <1>1, <3>1, <3>3, <3>4 DEF DeleteTrip
    <2>3. share' \in [Tokens -> Link]
      BY <1>1, <2>2 DEF DeleteTrip
    <2>4. QED BY <2>1, <2>2, <2>3 DEF RowsTypeOK, Statuses
  <1>2. ASSUME NEW k \in Tokens, \/ \E t \in Trips : Mint(k, t)
                                 \/ MintCommit(k) \/ Revoke(k) \/ ExpireLink(k)
        PROVE  RowsTypeOK'
    <2>1. PICK link :
            /\ share' = [share EXCEPT ![k] = link]
            /\ \/ \E t \in Trips : link = [trip |-> t, state |-> "minting"]
               \/ \E s \in LinkStates : /\ link = [share[k] EXCEPT !.state = s]
                                        /\ share[k].state # "unused"
      BY <1>2 DEF Mint, MintCommit, Revoke, ExpireLink, SetLink, LinkStates
    <2>2. link \in Link /\ link.trip \in Trips
      BY <2>1 DEF RowsTypeOK, Link, LinkStates
    <2>3. UNCHANGED <<tripVars, reader>>
      BY <1>2 DEF Mint, MintCommit, Revoke, ExpireLink, SetLink
    <2>4. QED BY <2>1, <2>2, <2>3 DEF RowsTypeOK
  <1>3. QED BY <1>1, <1>2

\* And the steps of the client.
LEMMA ClientTypes ==
  ASSUME RowsTypeOK,
         \/ \E t \in Trips : OpenPage(t) \/ OpenHistory(t)
         \/ \E n \in 1..MaxReports : OpenReport(n)
         \/ \E k \in Tokens : OpenLink(k)
         \/ ListTrips \/ ReadShare \/ ReadTrip \/ ReadReport
  PROVE  RowsTypeOK' /\ UNCHANGED <<tripVars, share>>
  <1>1. UNCHANGED <<tripVars, share>>
    BY DEF OpenPage, OpenHistory, OpenReport, OpenLink, Open, ListTrips, ReadShare, ReadTrip,
           ReadReport, Read
  <1>2. NoReader \in Page
    BY DEF NoReader, Page, Statuses
  <1>3. ASSUME NEW t \in Trips, OpenPage(t) \/ OpenHistory(t) PROVE RowsTypeOK'
    <2>1. Visible(t) \in BOOLEAN
      BY DEF Visible
    <2>2. PICK h \in BOOLEAN :
            reader' = [pc |-> "trip", token |-> NoToken, trip |-> t, status |-> "none",
                       reports |-> 0, ok |-> FALSE, lawful |-> Visible(t), history |-> h,
                       want |-> 0]
      BY <1>3 DEF OpenPage, OpenHistory, Open, NoReader
    <2>3. QED BY <1>1, <2>1, <2>2 DEF RowsTypeOK, Page, Statuses
  <1>4. ASSUME NEW n \in 1..MaxReports, OpenReport(n) PROVE RowsTypeOK'
    <2>1. reader.trip \in Trips /\ reader.lawful \in BOOLEAN
      BY <1>4 DEF RowsTypeOK, Page, OpenReport
    <2>2. reader' = [pc |-> "trip", token |-> NoToken, trip |-> reader.trip,
                     status |-> "none", reports |-> 0, ok |-> FALSE,
                     lawful |-> reader.lawful, history |-> FALSE, want |-> n]
      BY <1>4 DEF OpenReport, Open, NoReader
    <2>3. QED BY <1>1, <2>1, <2>2 DEF RowsTypeOK, Page, Statuses
  <1>5. ASSUME NEW k \in Tokens, OpenLink(k) PROVE RowsTypeOK'
    <2>1. reader' = [pc |-> "share", token |-> k, trip |-> NoTrip,
                     status |-> "none", reports |-> 0, ok |-> FALSE,
                     lawful |-> (share[k].state = "live"), history |-> FALSE, want |-> 0]
      BY <1>5 DEF OpenLink, Open, NoReader
    <2>2. QED BY <1>1, <2>1 DEF RowsTypeOK, Page, Statuses
  <1>6. CASE ListTrips
    BY <1>1, <1>2, <1>6 DEF RowsTypeOK, ListTrips, NoReader
  <1>7. CASE ReadShare
    <2>1. reader \in Page /\ reader.token \in Tokens /\ share[reader.token] \in Link
      BY <1>7 DEF RowsTypeOK, ReadShare
    <2>2. CASE share[reader.token].state = "live"
      <3>1. share[reader.token].trip \in Trips
        BY <2>1, <2>2 DEF RowsTypeOK
      <3>2. reader' = [reader EXCEPT !.pc = "trip", !.trip = share[reader.token].trip]
        BY <1>7, <2>2 DEF ReadShare, Read
      <3>3. reader' \in Page /\ reader'.pc = "trip" /\ reader'.trip \in Trips
        BY <2>1, <3>1, <3>2 DEF Page
      <3>4. QED BY <1>1, <3>3 DEF RowsTypeOK
    <2>3. CASE share[reader.token].state # "live"
      <3>1. reader' = [reader EXCEPT !.pc = "done"]
        BY <1>7, <2>3 DEF ReadShare, Read
      <3>2. reader' \in Page /\ reader'.pc = "done" /\ reader'.trip = reader.trip
            /\ reader'.ok = reader.ok
        BY <2>1, <3>1 DEF Page
      <3>3. QED BY <1>1, <3>2 DEF RowsTypeOK
    <2>4. QED BY <2>2, <2>3
  <1>8. CASE ReadTrip
    <2>1. reader \in Page /\ reader.trip \in Trips /\ status[reader.trip] \in Statuses
      BY <1>8 DEF RowsTypeOK, ReadTrip
    <2>2. /\ reader' \in Page /\ reader'.trip = reader.trip /\ reader'.pc \in {"report", "done"}
      BY <1>8, <2>1 DEF ReadTrip, Read, Page
    <2>3. QED BY <1>1, <2>1, <2>2 DEF RowsTypeOK
  <1>9. CASE ReadReport
    <2>1. reader \in Page /\ reader.trip \in Trips /\ reports[reader.trip] \in 0..MaxReports
      BY <1>9 DEF RowsTypeOK, ReadReport
    <2>2. (reader.want <= reports[reader.trip]) \in BOOLEAN
      OBVIOUS
    <2>3. /\ reader' \in Page /\ reader'.trip = reader.trip /\ reader'.pc = "done"
      BY <1>9, <2>1, <2>2 DEF ReadReport, Read, Page
    <2>4. QED BY <1>1, <2>1, <2>3 DEF RowsTypeOK
  <1>10. QED BY <1>1, <1>3, <1>4, <1>5, <1>6, <1>7, <1>8, <1>9

\* Trips, links and the page are well typed in every reachable state.
THEOREM RowsTyped == Spec => []RowsTypeOK
  <1>1. Init => RowsTypeOK
    BY DEF Init, RowsTypeOK, NoReader, Page, Statuses, Link, LinkStates
  <1>2. RowsTypeOK /\ [Next]_vars => RowsTypeOK'
    <2>1. RowsTypeOK /\ UNCHANGED vars => RowsTypeOK'
      BY DEF RowsTypeOK, vars
    <2>2. QED BY <2>1, TripTypes, LinkTypes, ClientTypes DEF Next
  <1>3. QED BY <1>1, <1>2, PTL DEF Spec

-------------------------------------------------------------------------------
(* Why a page tells the truth.                                             *)

\* A complete trip has a report, and so has one whose run has stored it.
ReportsFit ==
  \A t \in Trips :
    /\ status[t] \in {"none", "opening"} => reports[t] = 0 /\ t \notin saved
    /\ status[t] = "complete" \/ t \in saved => reports[t] > 0

\* A link that is there leads to a trip that is there.
LinksFit ==
  \A k \in Tokens : share[k].state \in {"live", "expired"} => Visible(share[k].trip)

\* What a page through a link has read was lawful when it was asked for.
LinkPageFits ==
  reader.token # NoToken =>
    LET link == share[reader.token]
    IN /\ reader.token \in Tokens /\ reader.want = 0
       /\ link.state \in {"live", "expired", "gone"}
       /\ reader.pc = "share" /\ ~reader.lawful => link.state # "live"
       /\ reader.pc \in {"trip", "report"} \/ reader.ok =>
            reader.lawful /\ reader.trip = link.trip
       /\ reader.pc = "done" /\ reader.lawful /\ ~reader.ok => link.state # "live"

\* The trip of the page has n reports, or is gone.
Since(n) == status[reader.trip] = "gone" \/ n <= reports[reader.trip]

\* What a page has read of a trip or of its history stays true until the trip is deleted.
ReportPageFits ==
  /\ reader.want > 0 => reader.trip \in Trips
  /\ reader.ok => reader.pc = "done" /\ Since(reader.reports)
  /\ reader.ok /\ reader.status = "complete" =>
       reader.reports > 0 \/ status[reader.trip] = "gone"
  /\ reader.pc = "report" /\ reader.status = "complete" => Since(1)
  /\ reader.pc \in {"trip", "report"} => Since(reader.want)
  /\ reader.pc = "share" => reader.want = 0
  /\ reader.pc = "done" /\ reader.want > 0 /\ ~reader.ok => status[reader.trip] = "gone"

PageInv == ReportsFit /\ LinksFit /\ LinkPageFits /\ ReportPageFits

\* Trips never come back or lose a report otherwise than by deletion, and links never
\* become valid again.
Onwards ==
  /\ reader' = reader
  /\ \A t \in Trips : \/ status'[t] = "gone"
                      \/ status[t] # "gone" /\ reports'[t] >= reports[t]
  /\ \A k \in Tokens : share[k].state \in {"live", "expired", "gone"} =>
       /\ share'[k].state \in {"live", "expired", "gone"}
       /\ share'[k].trip = share[k].trip
       /\ share[k].state # "live" => share'[k].state # "live"

\* Steps of others leave a page true.
LEMMA OnwardsStep ==
  ASSUME RowsTypeOK, RowsTypeOK', PageInv, Onwards
  PROVE  LinkPageFits' /\ ReportPageFits'
  <1>1. LinkPageFits'
    BY DEF PageInv, LinkPageFits, Onwards
  <1>2. ASSUME NEW n \in Nat, reader.trip \in Trips, Since(n)
        PROVE  status'[reader.trip] = "gone" \/ n <= reports'[reader.trip]
    BY <1>2 DEF RowsTypeOK, Onwards, Since
  <1>3. reader.reports \in Nat /\ reader.want \in Nat /\ reader' = reader
    BY DEF RowsTypeOK, Page, Onwards
  <1>4. reader.pc \in {"trip", "report"} \/ reader.ok => reader.trip \in Trips
    BY DEF RowsTypeOK
  <1>5. reader.trip \in Trips /\ status[reader.trip] = "gone" => status'[reader.trip] = "gone"
    BY DEF Onwards
  <1>6. ReportPageFits
    BY DEF PageInv
  <1>7. ReportPageFits'
    BY <1>2, <1>3, <1>4, <1>5, <1>6 DEF ReportPageFits, Since
  <1>8. QED BY <1>1, <1>7

\* The work on trips goes onwards.
LEMMA TripStep ==
  ASSUME RowsTypeOK, PageInv, NEW t \in Trips,
         \/ OpenTrip(t) \/ (\E questions \in BOOLEAN : CommitTrip(t, questions))
         \/ Resume(t) \/ SaveReport(t) \/ (\E s \in {"complete", "aborted"} : Settle(t, s))
  PROVE  Onwards /\ ReportsFit' /\ LinksFit'
  <1>0. ReportsFit /\ LinksFit
    BY DEF PageInv
  <1>1. CASE SaveReport(t)
    <2>1. /\ reports' = [reports EXCEPT ![t] = reports[t] + 1] /\ saved' = saved \cup {t}
          /\ UNCHANGED <<status, share, reader>> /\ status[t] = "running"
      BY <1>1 DEF SaveReport
    <2>2. \A u \in Trips : reports[u] \in Nat /\ reports'[u] >= reports[u]
      BY <2>1 DEF RowsTypeOK
    <2>3. reports'[t] > 0 /\ \A u \in Trips : u # t => reports'[u] = reports[u]
      BY <2>1, <2>2 DEF RowsTypeOK
    <2>4. Onwards
      BY <2>1, <2>2 DEF Onwards
    <2>5. ReportsFit'
      BY <1>0, <2>1, <2>2, <2>3 DEF ReportsFit
    <2>6. LinksFit'
      BY <1>0, <2>1 DEF LinksFit, Visible
    <2>7. QED BY <2>4, <2>5, <2>6
  <1>2. CASE \/ OpenTrip(t) \/ (\E questions \in BOOLEAN : CommitTrip(t, questions))
             \/ Resume(t) \/ (\E s \in {"complete", "aborted"} : Settle(t, s))
    <2>1. PICK s \in Statuses :
            /\ status' = [status EXCEPT ![t] = s]
            /\ s = "opening" => status[t] = "none"
            /\ s # "opening" => s \in {"clarifying", "running", "complete", "aborted"}
            /\ s = "complete" => t \in saved
            /\ status[t] # "gone"
      BY <1>2 DEF OpenTrip, CommitTrip, Resume, Settle, SetStatus, Statuses
    <2>2. UNCHANGED <<reports, share, reader>> /\ saved' \subseteq saved
      BY <1>2 DEF OpenTrip, CommitTrip, Resume, Settle, SetStatus
    <2>3. /\ status'[t] = s
          /\ \A u \in Trips : u # t => status'[u] = status[u]
          /\ \A u \in Trips : reports[u] \in Nat
      BY <2>1 DEF RowsTypeOK
    <2>4. Onwards
      BY <2>1, <2>2, <2>3, Z3 DEF Onwards
    <2>5. ReportsFit'
      BY <1>0, <2>1, <2>2, <2>3 DEF ReportsFit
    <2>6. \A k \in Tokens : share[k].state \in {"live", "expired"} => share[k].trip \in Trips
      BY DEF RowsTypeOK
    <2>7. \A u \in Trips : Visible(u) => Visible(u)'
      BY <2>1, <2>3 DEF Visible
    <2>8. LinksFit'
      BY <1>0, <2>2, <2>6, <2>7 DEF LinksFit, Visible
    <2>9. QED BY <2>4, <2>5, <2>8
  <1>3. QED BY <1>1, <1>2

\* So do deletions and the actions on links.
LEMMA LinkStep ==
  ASSUME RowsTypeOK, PageInv,
         \/ \E t \in Trips : DeleteTrip(t)
         \/ \E k \in Tokens : \/ \E t \in Trips : Mint(k, t)
                              \/ MintCommit(k) \/ Revoke(k) \/ ExpireLink(k)
  PROVE  Onwards /\ ReportsFit' /\ LinksFit'
  <1>0. ReportsFit /\ LinksFit
    BY DEF PageInv
  <1>1. ASSUME NEW t \in Trips, DeleteTrip(t) PROVE Onwards /\ ReportsFit' /\ LinksFit'
    <2>1. /\ status' = [status EXCEPT ![t] = "gone"] /\ reports' = [reports EXCEPT ![t] = 0]
          /\ saved' = saved \ {t} /\ reader' = reader
          /\ share' = [k \in Tokens |->
                         IF share[k].trip = t /\ share[k].state \in {"live", "expired"}
                         THEN [share[k] EXCEPT !.state = "gone"] ELSE share[k]]
      BY <1>1 DEF DeleteTrip
    <2>2. /\ status'[t] = "gone" /\ reports'[t] = 0
          /\ \A u \in Trips : u # t => status'[u] = status[u] /\ reports'[u] = reports[u]
          /\ \A u \in Trips : reports[u] \in Nat
      BY <2>1 DEF RowsTypeOK
    <2>3. ASSUME NEW k \in Tokens
          PROVE  /\ share'[k].trip = share[k].trip
                 /\ \/ share'[k].state = share[k].state
                    \/ share'[k].state = "gone" /\ share[k].state \in {"live", "expired"}
                 /\ share[k].trip = t => share'[k].state \notin {"live", "expired"}
      BY <2>1 DEF RowsTypeOK, Link
    <2>4. Onwards
      BY <2>1, <2>2, <2>3 DEF Onwards
    <2>5. ReportsFit'
      BY <1>0, <2>1, <2>2 DEF ReportsFit
    <2>6. \A k \in Tokens : share[k].state \in {"live", "expired"} => share[k].trip \in Trips
      BY DEF RowsTypeOK
    <2>7. \A u \in Trips : u # t /\ Visible(u) => Visible(u)'
      BY <2>2 DEF Visible
    <2>8. LinksFit'
      BY <1>0, <2>3, <2>6, <2>7 DEF LinksFit, Visible
    <2>9. QED BY <2>4, <2>5, <2>8
  <1>2. ASSUME NEW k \in Tokens, \/ \E t \in Trips : Mint(k, t)
                                 \/ MintCommit(k) \/ Revoke(k) \/ ExpireLink(k)
        PROVE  Onwards /\ ReportsFit' /\ LinksFit'
    <2>0. /\ share[k] \in Link
          /\ \A x : [share[k] EXCEPT !.state = x] = [trip |-> share[k].trip, state |-> x]
      BY DEF RowsTypeOK, Link
    <2>1. PICK x, s :
            /\ share' = [share EXCEPT ![k] = [trip |-> x, state |-> s]]
            /\ \/ share[k].state = "unused" /\ s = "minting"
               \/ share[k].state = "minting" /\ x = share[k].trip
                  /\ (s = "gone" \/ (s = "live" /\ Visible(x)))
               \/ share[k].state \in {"live", "expired"} /\ x = share[k].trip
                  /\ (s = "gone" \/ (share[k].state = "live" /\ s = "expired"))
      <3>1. ASSUME NEW t \in Trips, Mint(k, t)
            PROVE  /\ share' = [share EXCEPT ![k] = [trip |-> t, state |-> "minting"]]
                   /\ share[k].state = "unused"
        BY <3>1 DEF Mint, SetLink
      <3>2. CASE MintCommit(k)
        <4>1. CASE Visible(share[k].trip)
          <5>1. /\ share[k].state = "minting"
                /\ share' = [share EXCEPT ![k] = [trip |-> share[k].trip, state |-> "live"]]
            BY <2>0, <3>2, <4>1 DEF MintCommit, SetLink
          <5>2. QED BY <4>1, <5>1
        <4>2. CASE ~Visible(share[k].trip)
          <5>1. /\ share[k].state = "minting"
                /\ share' = [share EXCEPT ![k] = [trip |-> share[k].trip, state |-> "gone"]]
            BY <2>0, <3>2, <4>2 DEF MintCommit, SetLink
          <5>2. QED BY <5>1
        <4>3. QED BY <4>1, <4>2
      <3>3. CASE Revoke(k)
        <4>1. /\ share[k].state \in {"live", "expired"}
              /\ share' = [share EXCEPT ![k] = [trip |-> share[k].trip, state |-> "gone"]]
          BY <2>0, <3>3 DEF Revoke, SetLink
        <4>2. QED BY <4>1
      <3>4. CASE ExpireLink(k)
        <4>1. /\ share[k].state = "live"
              /\ share' = [share EXCEPT ![k] = [trip |-> share[k].trip, state |-> "expired"]]
          BY <2>0, <3>4 DEF ExpireLink, SetLink
        <4>2. QED BY <4>1
      <3>5. QED BY <1>2, <3>1, <3>2, <3>3, <3>4
    <2>2. UNCHANGED <<status, reports, saved, reader>>
      BY <1>2 DEF Mint, MintCommit, Revoke, ExpireLink, SetLink
    <2>3. /\ share'[k].trip = x /\ share'[k].state = s
          /\ \A j \in Tokens : j # k => share'[j] = share[j]
      BY <2>1 DEF RowsTypeOK
    <2>4. Onwards
      BY <2>1, <2>2, <2>3 DEF Onwards, RowsTypeOK
    <2>5. ReportsFit'
      BY <1>0, <2>2 DEF ReportsFit
    <2>6. LinksFit'
      BY <1>0, <2>1, <2>2, <2>3 DEF LinksFit, Visible
    <2>7. QED BY <2>4, <2>5, <2>6
  <1>3. QED BY <1>1, <1>2

\* A page that is opened, by its trip or by a link, fits.
LEMMA OpenStep ==
  ASSUME RowsTypeOK, PageInv, UNCHANGED <<status, reports, share>>,
         \/ \E t \in Trips : OpenPage(t) \/ OpenHistory(t)
         \/ \E n \in 1..MaxReports : OpenReport(n)
         \/ \E k \in Tokens : OpenLink(k)
         \/ ListTrips
  PROVE  LinkPageFits' /\ ReportPageFits'
  <1>1. ASSUME NEW t \in Trips, OpenPage(t) \/ OpenHistory(t)
        PROVE  LinkPageFits' /\ ReportPageFits'
    <2>1. reports[t] \in Nat
      BY DEF RowsTypeOK
    <2>2. /\ reader'.pc = "trip" /\ reader'.token = NoToken /\ reader'.trip = t
          /\ reader'.want = 0 /\ reader'.ok = FALSE
      BY <1>1 DEF OpenPage, OpenHistory, Open, NoReader
    <2>3. QED BY <2>1, <2>2 DEF LinkPageFits, ReportPageFits, Since
  <1>2. ASSUME NEW n \in 1..MaxReports, OpenReport(n)
        PROVE  LinkPageFits' /\ ReportPageFits'
    <2>0. /\ reader' = [pc |-> "trip", token |-> NoToken, trip |-> reader.trip,
                        status |-> "none", reports |-> 0, ok |-> FALSE,
                        lawful |-> reader.lawful, history |-> FALSE, want |-> n]
          /\ reader.ok /\ n \in 1..reader.reports
      BY <1>2 DEF OpenReport, Open, NoReader
    <2>1. /\ reader'.pc = "trip" /\ reader'.token = NoToken /\ reader'.trip = reader.trip
          /\ reader'.want = n /\ reader'.ok = FALSE /\ reader.ok /\ n <= reader.reports
      BY <2>0
    <2>2. Since(reader.reports) /\ reader.trip \in Trips /\ reader.reports \in Nat
      BY <2>1 DEF RowsTypeOK, PageInv, ReportPageFits, Page
    <2>3. reports[reader.trip] \in Nat
      BY <2>2 DEF RowsTypeOK
    <2>4. status[reader.trip] = "gone" \/ n <= reports[reader.trip]
      BY <2>1, <2>2, <2>3 DEF Since
    <2>5. QED BY <2>1, <2>2, <2>4 DEF LinkPageFits, ReportPageFits, Since
  <1>3. ASSUME NEW k \in Tokens, OpenLink(k) PROVE LinkPageFits' /\ ReportPageFits'
    <2>1. /\ reader'.pc = "share" /\ reader'.token = k /\ reader'.want = 0
          /\ reader'.ok = FALSE /\ reader'.lawful = (share[k].state = "live")
          /\ share[k].state \in {"live", "expired", "gone"}
      BY <1>3 DEF OpenLink, Open, NoReader
    <2>2. ~reader'.lawful => share[k].state # "live"
      BY <2>1
    <2>3. LinkPageFits'
      BY <2>1, <2>2 DEF LinkPageFits
    <2>4. ReportPageFits'
      BY <2>1 DEF ReportPageFits
    <2>5. QED BY <2>3, <2>4
  <1>4. CASE ListTrips
    BY <1>4 DEF ListTrips, NoReader, LinkPageFits, ReportPageFits
  <1>5. QED BY <1>1, <1>2, <1>3, <1>4

\* A statement of a page keeps it true.
LEMMA ReadStep ==
  ASSUME RowsTypeOK, PageInv, UNCHANGED <<status, reports, share>>,
         ReadShare \/ ReadTrip \/ ReadReport
  PROVE  LinkPageFits' /\ ReportPageFits'
  <1>1. /\ ReportsFit /\ LinksFit /\ LinkPageFits /\ ReportPageFits
        /\ reader \in Page /\ reader.want \in Nat
    BY DEF PageInv, RowsTypeOK, Page
  <1>2. CASE ReadShare
    <2>1. /\ reader.pc = "share" /\ reader.want = 0 /\ reader.ok = FALSE
          /\ reader.token \in Tokens /\ reader.token # NoToken
      BY <1>1, <1>2 DEF ReadShare, ReportPageFits, RowsTypeOK, Page
    <2>2. CASE share[reader.token].state = "live"
      <3>1. reader' = [reader EXCEPT !.pc = "trip", !.trip = share[reader.token].trip]
        BY <1>2, <2>2 DEF ReadShare, Read
      <3>2. /\ reader'.pc = "trip" /\ reader'.trip = share[reader.token].trip
            /\ reader'.want = 0 /\ reader'.ok = FALSE /\ reader'.token = reader.token
            /\ reader'.lawful = reader.lawful
        BY <1>1, <2>1, <3>1 DEF Page
      <3>3. share[reader.token].trip \in Trips
        BY <2>1, <2>2 DEF RowsTypeOK
      <3>4. reports[share[reader.token].trip] \in Nat
        BY <3>3 DEF RowsTypeOK
      <3>5. LinkPageFits'
        BY <1>1, <2>1, <2>2, <3>2 DEF LinkPageFits, Page
      <3>6. ReportPageFits'
        BY <3>2, <3>3, <3>4 DEF ReportPageFits, Since
      <3>7. QED BY <3>5, <3>6
    <2>3. CASE share[reader.token].state # "live"
      <3>1. reader' = [reader EXCEPT !.pc = "done"]
        BY <1>2, <2>3 DEF ReadShare, Read
      <3>2. /\ reader'.pc = "done" /\ reader'.want = 0 /\ reader'.ok = FALSE
            /\ reader'.token = reader.token
        BY <1>1, <2>1, <3>1 DEF Page
      <3>3. QED BY <1>1, <2>1, <2>3, <3>2 DEF LinkPageFits, ReportPageFits
    <2>4. QED BY <2>2, <2>3
  <1>3. CASE ReadTrip
    <2>1. /\ reader.pc = "trip" /\ reader.ok = FALSE /\ Since(reader.want)
          /\ reader.trip \in Trips
      BY <1>1, <1>3 DEF ReadTrip, ReportPageFits, RowsTypeOK, Page
    <2>2. reports[reader.trip] \in Nat /\ status[reader.trip] \in Statuses
      BY <2>1 DEF RowsTypeOK
    <2>3. CASE Visible(reader.trip)
      <3>1. reader' = [reader EXCEPT !.pc = "report", !.status = status[reader.trip]]
        BY <1>3, <2>3 DEF ReadTrip, Read
      <3>2. /\ reader'.pc = "report" /\ reader'.trip = reader.trip /\ reader'.ok = FALSE
            /\ reader'.want = reader.want /\ reader'.token = reader.token
            /\ reader'.lawful = reader.lawful /\ reader'.status = status[reader.trip]
        BY <1>1, <2>1, <3>1 DEF Page
      <3>3. LinkPageFits'
        BY <1>1, <2>1, <3>2 DEF LinkPageFits
      <3>4. status[reader.trip] = "complete" => 1 <= reports[reader.trip]
        BY <1>1, <2>1, <2>2 DEF ReportsFit
      <3>5. ReportPageFits'
        BY <2>1, <3>2, <3>4 DEF ReportPageFits, Since
      <3>6. QED BY <3>3, <3>5
    <2>4. CASE ~Visible(reader.trip)
      <3>1. reader' = [reader EXCEPT !.pc = "done"]
        BY <1>3, <2>4 DEF ReadTrip, Read
      <3>2. /\ reader'.pc = "done" /\ reader'.trip = reader.trip /\ reader'.ok = FALSE
            /\ reader'.want = reader.want /\ reader'.token = reader.token
            /\ reader'.lawful = reader.lawful
        BY <1>1, <2>1, <3>1 DEF Page
      <3>3. LinkPageFits'
        BY <1>1, <2>1, <2>4, <3>2 DEF LinkPageFits, LinksFit
      <3>4. status[reader.trip] \in {"none", "opening", "gone"}
        BY <2>2, <2>4 DEF Visible, Statuses
      <3>5. reader.want > 0 => status[reader.trip] = "gone"
        BY <1>1, <2>1, <2>2, <3>4 DEF ReportsFit, Since
      <3>6. ReportPageFits'
        BY <2>1, <3>2, <3>5 DEF ReportPageFits
      <3>7. QED BY <3>3, <3>6
    <2>5. QED BY <2>3, <2>4
  <1>4. CASE ReadReport
    <2>1. /\ reader.pc = "report" /\ Since(reader.want) /\ reader.trip \in Trips
          /\ reader.status = "complete" => Since(1)
      BY <1>1, <1>4 DEF ReadReport, ReportPageFits, RowsTypeOK
    <2>2. reports[reader.trip] \in Nat
      BY <2>1 DEF RowsTypeOK
    <2>3. reader' = [reader EXCEPT !.pc = "done", !.ok = (reader.want <= reports[reader.trip]),
                                   !.reports = reports[reader.trip]]
      BY <1>4 DEF ReadReport, Read
    <2>4. /\ reader'.pc = "done" /\ reader'.trip = reader.trip
          /\ reader'.ok = (reader.want <= reports[reader.trip])
          /\ reader'.want = reader.want /\ reader'.token = reader.token
          /\ reader'.lawful = reader.lawful /\ reader'.status = reader.status
          /\ reader'.reports = reports[reader.trip]
      BY <1>1, <2>3 DEF Page
    <2>5. /\ reader'.ok => reader.want <= reports[reader.trip]
          /\ ~reader'.ok => ~(reader.want <= reports[reader.trip])
      BY <2>4
    <2>6. LinkPageFits'
      BY <1>1, <2>1, <2>2, <2>4, <2>5 DEF LinkPageFits
    <2>7. ReportPageFits'
      <3>1. /\ status'[reader'.trip] = status[reader.trip]
            /\ reports'[reader'.trip] = reports[reader.trip]
        BY <2>4
      <3>2. /\ status[reader.trip] = "gone" \/ reader.want <= reports[reader.trip]
            /\ reader.status = "complete" =>
                 status[reader.trip] = "gone" \/ 1 <= reports[reader.trip]
        BY <2>1 DEF Since
      <3>3. QED BY <1>1, <2>1, <2>2, <2>4, <2>5, <3>1, <3>2 DEF ReportPageFits, Since
    <2>8. QED BY <2>6, <2>7
  <1>5. QED BY <1>2, <1>3, <1>4

\* The invariant holds in every reachable state.
LEMMA PagesFit == Spec => []PageInv
  <1>1. Init => PageInv
    BY DEF Init, PageInv, ReportsFit, LinksFit, LinkPageFits, ReportPageFits, NoReader
  <1>2. RowsTypeOK /\ RowsTypeOK' /\ PageInv /\ [Next]_vars => PageInv'
    <2>0. SUFFICES ASSUME RowsTypeOK, RowsTypeOK', PageInv, [Next]_vars PROVE PageInv'
      OBVIOUS
    <2>1. CASE UNCHANGED vars
      BY <2>0, <2>1 DEF vars, PageInv, ReportsFit, LinksFit, LinkPageFits, ReportPageFits, Since,
                  Visible
    <2>2. ASSUME Onwards /\ ReportsFit' /\ LinksFit' PROVE PageInv'
      BY <2>0, <2>2, OnwardsStep DEF PageInv
    <2>3. ASSUME NEW t \in Trips,
                 \/ OpenTrip(t) \/ (\E questions \in BOOLEAN : CommitTrip(t, questions))
                 \/ Resume(t) \/ SaveReport(t)
                 \/ (\E s \in {"complete", "aborted"} : Settle(t, s))
          PROVE  PageInv'
      BY <2>0, <2>2, <2>3, TripStep
    <2>4. CASE \/ \E t \in Trips : DeleteTrip(t)
               \/ \E k \in Tokens : \/ \E t \in Trips : Mint(k, t)
                                    \/ MintCommit(k) \/ Revoke(k) \/ ExpireLink(k)
      BY <2>0, <2>2, <2>4, LinkStep
    <2>5. CASE \/ \E t \in Trips : OpenPage(t) \/ OpenHistory(t)
               \/ \E n \in 1..MaxReports : OpenReport(n)
               \/ \E k \in Tokens : OpenLink(k)
               \/ ListTrips \/ ReadShare \/ ReadTrip \/ ReadReport
      <3>1. UNCHANGED <<status, reports, saved, share>>
        BY <2>0, <2>5, ClientTypes
      <3>2. ReportsFit' /\ LinksFit'
        BY <2>0, <3>1 DEF PageInv, ReportsFit, LinksFit, Visible
      <3>3. LinkPageFits' /\ ReportPageFits'
        BY <2>0, <2>5, <3>1, OpenStep, ReadStep
      <3>4. QED BY <3>2, <3>3 DEF PageInv
    <2>6. QED BY <2>0, <2>1, <2>3, <2>4, <2>5 DEF Next
  <1>3. QED BY <1>1, <1>2, RowsTyped, PTL DEF Spec

\* A link that was not good when the request came shows nothing, and one that was shows
\* its own trip unless it went bad meanwhile, whatever else happens between the statements
\* of get_shared_trip().
THEOREM LinksTellTruth == Spec => []LinkTellsTruth
  <1>1. PageInv => LinkTellsTruth
    BY DEF PageInv, LinkPageFits, LinkTellsTruth
  <1>2. QED BY <1>1, PagesFit, PTL

\* A page that calls a trip complete shows a report, and a report of the history is found,
\* unless the trip was deleted in between.
THEOREM PagesHaveReports == Spec => []CompletePageHasReport
  <1>1. PageInv => CompletePageHasReport
    BY DEF PageInv, ReportPageFits, CompletePageHasReport
  <1>2. QED BY <1>1, PagesFit, PTL

-------------------------------------------------------------------------------
(* The list: its pages join without a gap, whatever happens between them.  *)

\* The rows that stand before a row.
Newer(rows, t) == {u \in rows : born[u] > born[t]}

\* Births tell the rows apart.
Apart(rows) ==
  /\ rows \subseteq Trips /\ IsFiniteSet(rows)
  /\ born \in [Trips -> Nat]
  /\ \A t, u \in rows : born[t] = born[u] => t = u

\* The older of two rows has more rows before it.
LEMMA OlderIsLater ==
  ASSUME NEW rows, Apart(rows), NEW t \in rows, NEW u \in rows, born[t] > born[u]
  PROVE  /\ Cardinality(Newer(rows, t)) \in Nat /\ Cardinality(Newer(rows, u)) \in Nat
         /\ Cardinality(Newer(rows, t)) < Cardinality(Newer(rows, u))
  <1> DEFINE NT == Newer(rows, t)
             NU == Newer(rows, u)
  <1>1. NT \in SUBSET rows /\ NU \in SUBSET rows
    BY DEF Newer
  <1>2. NT \cup {t} \in SUBSET NU /\ t \notin NT
    BY DEF Newer, Apart
  <1>3. IsFiniteSet(NT) /\ IsFiniteSet(NU)
    BY <1>1, FS_Subset DEF Apart
  <1>4. Cardinality(NT \cup {t}) = Cardinality(NT) + 1
    BY <1>2, <1>3, FS_AddElement
  <1>5. Cardinality(NT \cup {t}) <= Cardinality(NU)
    BY <1>2, <1>3, FS_Subset
  <1>6. Cardinality(NT) \in Nat /\ Cardinality(NU) \in Nat
    BY <1>3, FS_CardinalityType
  <1> HIDE DEF NT, NU
  <1>7. Cardinality(NT) < Cardinality(NU)
    BY <1>4, <1>5, <1>6
  <1>8. QED BY <1>6, <1>7 DEF NT, NU

\* Every place of the list has a row.
LEMMA PlacesAreFilled ==
  ASSUME NEW rows, Apart(rows)
  PROVE  /\ Cardinality(rows) \in Nat
         /\ \A t \in rows : Cardinality(Newer(rows, t)) \in 0..(Cardinality(rows) - 1)
         /\ \A k \in 0..(Cardinality(rows) - 1) :
              \E t \in rows : Cardinality(Newer(rows, t)) = k
  <1> DEFINE n == Cardinality(rows)
             f == [t \in rows |-> Cardinality(Newer(rows, t))]
  <1>1. n \in Nat
    BY FS_CardinalityType DEF Apart
  <1>2. ASSUME NEW t \in rows
        PROVE  Cardinality(Newer(rows, t)) \in 0..(n - 1)
    <2>1. Newer(rows, t) \in SUBSET (rows \ {t})
      BY DEF Newer, Apart
    <2>2. IsFiniteSet(rows \ {t}) /\ Cardinality(rows \ {t}) = n - 1
      BY FS_RemoveElement DEF Apart
    <2>3. IsFiniteSet(Newer(rows, t)) /\ Cardinality(Newer(rows, t)) <= n - 1
      BY <2>1, <2>2, FS_Subset
    <2>4. Cardinality(Newer(rows, t)) \in Nat
      BY <2>3, FS_CardinalityType
    <2> HIDE DEF n
    <2>5. QED BY <1>1, <2>3, <2>4
  <1>3. ASSUME NEW t \in rows, NEW u \in rows, f[t] = f[u]
        PROVE  t = u
    <2>1. born[t] \in Nat /\ born[u] \in Nat
      BY DEF Apart
    <2>2. ~(born[t] > born[u])
      <3>1. SUFFICES ASSUME born[t] > born[u] PROVE FALSE
        OBVIOUS
      <3>2. QED BY <1>3, <3>1, OlderIsLater
    <2>3. ~(born[u] > born[t])
      <3>1. SUFFICES ASSUME born[u] > born[t] PROVE FALSE
        OBVIOUS
      <3>2. QED BY <1>3, <3>1, OlderIsLater
    <2>4. QED BY <2>1, <2>2, <2>3 DEF Apart
  <1>4. f \in Injection(rows, 0..(n - 1))
    BY <1>2, <1>3 DEF Injection, IsInjective
  <1>5. IsFiniteSet(0..(n - 1)) /\ Cardinality(0..(n - 1)) = n
    <2> HIDE DEF n
    <2>1. 0 \in Int /\ n - 1 \in Int
      BY <1>1
    <2>2. QED BY <1>1, <2>1, FS_Interval
  <1>6. f \in Surjection(rows, 0..(n - 1))
    <2> HIDE DEF f
    <2>1. QED BY <1>4, <1>5, FS_Injection
  <1>7. QED BY <1>1, <1>2, <1>6 DEF Surjection

\* NewestFirst() lists every row once, newest first.
LEMMA ListIsSorted ==
  ASSUME NEW rows, Apart(rows)
  PROVE  /\ NewestFirst(rows) \in Seq(rows)
         /\ Len(NewestFirst(rows)) = Cardinality(rows)
         /\ \A i, j \in 1..Cardinality(rows) :
              i < j => born[NewestFirst(rows)[i]] > born[NewestFirst(rows)[j]]
         /\ \A t \in rows : \E i \in 1..Cardinality(rows) : NewestFirst(rows)[i] = t
  <1> DEFINE n == Cardinality(rows)
             list == NewestFirst(rows)
  <1>1. n \in Nat
    BY PlacesAreFilled
  <1>2. ASSUME NEW i \in 1..n
        PROVE  list[i] \in rows /\ Cardinality(Newer(rows, list[i])) = i - 1
    <2>1. i - 1 \in 0..(n - 1)
      <3> HIDE DEF n
      <3>1. QED BY <1>1, <1>2
    <2>2. \E t \in rows : Cardinality(Newer(rows, t)) = i - 1
      BY <2>1, PlacesAreFilled
    <2>3. list[i] = CHOOSE t \in rows : Cardinality(Newer(rows, t)) = i - 1
      BY DEF NewestFirst, Newer
    <2>4. QED BY <2>2, <2>3
  <1>3. list \in [1..n -> rows]
    BY <1>2 DEF NewestFirst
  <1>4. list \in Seq(rows) /\ Len(list) = n
    <2> HIDE DEF n, list
    <2>1. QED BY <1>1, <1>3
  <1>5. ASSUME NEW i \in 1..n, NEW j \in 1..n, i < j
        PROVE  born[list[i]] > born[list[j]]
    <2>1. list[i] \in rows /\ list[j] \in rows
      BY <1>2
    <2>2. born[list[i]] \in Nat /\ born[list[j]] \in Nat
      BY <2>1 DEF Apart
    <2>3. Cardinality(Newer(rows, list[i])) = i - 1 /\ Cardinality(Newer(rows, list[j])) = j - 1
      BY <1>2
    <2>4. i - 1 # j - 1 /\ ~(j - 1 < i - 1)
      <3> HIDE DEF n
      <3>1. QED BY <1>1, <1>5
    <2>5. list[i] # list[j]
      BY <2>3, <2>4
    <2>6. ~(born[list[j]] > born[list[i]])
      <3>1. SUFFICES ASSUME born[list[j]] > born[list[i]] PROVE FALSE
        OBVIOUS
      <3>2. Cardinality(Newer(rows, list[j])) < Cardinality(Newer(rows, list[i]))
        BY <2>1, <3>1, OlderIsLater
      <3>3. QED BY <2>3, <2>4, <3>2
    <2>7. born[list[i]] # born[list[j]]
      BY <2>1, <2>5 DEF Apart
    <2>8. QED BY <2>2, <2>6, <2>7
  <1>6. ASSUME NEW t \in rows
        PROVE  \E i \in 1..n : list[i] = t
    <2>1. PICK k \in 0..(n - 1) : Cardinality(Newer(rows, t)) = k
      BY PlacesAreFilled
    <2>2. k + 1 \in 1..n /\ (k + 1) - 1 = k
      <3> HIDE DEF n
      <3>1. QED BY <1>1, <2>1
    <2>3. list[k + 1] \in rows /\ Cardinality(Newer(rows, list[k + 1])) = k
      BY <1>2, <2>2
    <2>4. born[t] \in Nat /\ born[list[k + 1]] \in Nat
      BY <2>3 DEF Apart
    <2>5. ~(born[t] > born[list[k + 1]])
      <3>1. SUFFICES ASSUME born[t] > born[list[k + 1]] PROVE FALSE
        OBVIOUS
      <3>2. QED BY <2>1, <2>3, <3>1, OlderIsLater
    <2>6. ~(born[list[k + 1]] > born[t])
      <3>1. SUFFICES ASSUME born[list[k + 1]] > born[t] PROVE FALSE
        OBVIOUS
      <3>2. QED BY <2>1, <2>3, <3>1, OlderIsLater
    <2>7. list[k + 1] = t
      BY <2>3, <2>4, <2>5, <2>6 DEF Apart
    <2>8. QED BY <2>2, <2>7
  <1>7. QED BY <1>4, <1>5, <1>6

\* The trips that have their place in the list, or will have it with their commit.
Stored == {t \in Trips : born[t] # 0}

\* A new trip comes before all others.
BirthsApart ==
  /\ born \in [Trips -> Nat] /\ IsFiniteSet(Stored)
  /\ \A t \in Trips : born[t] <= Cardinality(Stored)
  /\ \A t \in Trips : born[t] = 0 <=> status[t] = "none"
  /\ \A t, u \in Trips : born[t] = born[u] /\ born[t] # 0 => t = u

\* The pages so far, newest first, down to the cursor.
SeenInOrder ==
  /\ scroll \in [pc : {"idle", "page", "done"}, cursor : Nat, seen : Seq(Trips)]
  /\ scroll.pc = "idle" => scroll.cursor = 0 /\ scroll.seen = <<>>
  /\ scroll.pc = "page" => scroll.cursor # 0
  /\ \A i \in DOMAIN scroll.seen :
       /\ born[scroll.seen[i]] # 0
       /\ scroll.pc = "page" => born[scroll.seen[i]] >= scroll.cursor
  /\ \A i, j \in DOMAIN scroll.seen :
       i < j => born[scroll.seen[i]] > born[scroll.seen[j]]

\* A trip that was there all along has been seen, or is still ahead.
SteadyAhead ==
  /\ steady \subseteq Trips
  /\ \A t \in steady :
       /\ Visible(t)
       /\ \/ scroll.pc = "idle"
          \/ \E i \in DOMAIN scroll.seen : scroll.seen[i] = t
          \/ scroll.pc = "page" /\ born[t] < scroll.cursor

ListInv == BirthsApart /\ SeenInOrder /\ SteadyAhead

\* A new trip gets a place of its own, before all others.
LEMMA BirthsStep ==
  ASSUME RowsTypeOK, BirthsApart, [Next]_vars
  PROVE  BirthsApart'
  <1>1. ASSUME NEW t \in Trips, OpenTrip(t)
        PROVE  BirthsApart'
    <2> DEFINE n == Cardinality(Stored)
    <2>1. n \in Nat
      BY FS_CardinalityType DEF BirthsApart
    <2>2. status[t] = "none" /\ born[t] = 0 /\ t \notin Stored
      BY <1>1 DEF OpenTrip, BirthsApart, Stored
    <2>3. born' = [born EXCEPT ![t] = n + 1] /\ status' = [status EXCEPT ![t] = "opening"]
      BY <1>1 DEF OpenTrip, SetStatus, Stored
    <2>4. Stored' = Stored \cup {t}
      BY <2>1, <2>3 DEF BirthsApart, Stored
    <2>5. IsFiniteSet(Stored') /\ Cardinality(Stored') = n + 1
      BY <2>2, <2>4, FS_AddElement DEF BirthsApart
    <2> HIDE DEF n
    <2>6. born' \in [Trips -> Nat] /\ born'[t] = n + 1
          /\ \A u \in Trips \ {t} : born'[u] = born[u] /\ born[u] \in Nat
      BY <2>1, <2>3 DEF BirthsApart
    <2>7. \A u \in Trips : born[u] <= n
      BY DEF BirthsApart, n
    <2>8. \A u \in Trips : born'[u] <= n + 1
      BY <2>1, <2>6, <2>7
    <2>9. \A u \in Trips : born'[u] = 0 <=> status'[u] = "none"
      <3>1. TAKE u \in Trips
      <3>2. CASE u = t
        BY <2>1, <2>3, <2>6, <3>2 DEF RowsTypeOK
      <3>3. CASE u # t
        BY <2>3, <2>6, <3>3 DEF RowsTypeOK, BirthsApart
      <3>4. QED BY <3>2, <3>3
    <2>10. ASSUME NEW u \in Trips, NEW v \in Trips, born'[u] = born'[v], born'[u] # 0
           PROVE  u = v
      <3>1. \A w \in Trips \ {t} : born'[w] # n + 1
        BY <2>1, <2>6, <2>7
      <3>2. CASE u = t \/ v = t
        BY <2>6, <2>10, <3>1, <3>2
      <3>3. CASE u # t /\ v # t
        BY <2>6, <2>10, <3>3 DEF BirthsApart
      <3>4. QED BY <3>2, <3>3
    <2>11. QED BY <2>5, <2>6, <2>8, <2>9, <2>10 DEF BirthsApart
  <1>2. ASSUME born' = born, \A t \in Trips : status'[t] = "none" <=> status[t] = "none"
        PROVE  BirthsApart'
    BY <1>2 DEF BirthsApart, Stored
  <1>3. CASE UNCHANGED <<status, born>>
    BY <1>2, <1>3
  <1>4. ASSUME NEW t \in Trips,
               \/ \E questions \in BOOLEAN : CommitTrip(t, questions)
               \/ Resume(t) \/ (\E s \in {"complete", "aborted"} : Settle(t, s))
               \/ DeleteTrip(t)
        PROVE  BirthsApart'
    <2>1. PICK s \in Statuses \ {"none"} : status' = [status EXCEPT ![t] = s]
      BY <1>4 DEF CommitTrip, Resume, Settle, SetStatus, DeleteTrip, Statuses
    <2>2. born' = born /\ status[t] # "none"
      BY <1>4 DEF CommitTrip, Resume, Settle, SetStatus, DeleteTrip, Visible
    <2>3. QED BY <1>2, <2>1, <2>2 DEF RowsTypeOK
  <1>5. ASSUME NEW t \in Trips, SaveReport(t)
        PROVE  BirthsApart'
    BY <1>3, <1>5 DEF SaveReport
  <1>6. ASSUME NEW k \in Tokens, \/ \E t \in Trips : Mint(k, t)
                                 \/ MintCommit(k) \/ Revoke(k) \/ ExpireLink(k)
        PROVE  BirthsApart'
    BY <1>3, <1>6 DEF Mint, MintCommit, Revoke, ExpireLink, SetLink
  <1>7. QED BY <1>1, <1>3, <1>4, <1>5, <1>6, ClientTypes DEF Next, vars

\* What a step other than ListTrips does to the list.
ScrollEffect ==
  \/ scroll' = NoScroll /\ steady' = {}
  \/ /\ scroll' = scroll /\ steady' \subseteq steady
     /\ \A t \in Trips : born[t] # 0 => born'[t] = born[t]
     /\ \A t \in steady' : Visible(t) => Visible(t)'

\* Every step but ListTrips has one of these effects.
LEMMA ScrollEffects ==
  ASSUME RowsTypeOK, BirthsApart, steady \subseteq Trips, [Next]_vars
  PROVE  ListTrips \/ ScrollEffect
  <1>1. ASSUME NEW t \in Trips, OpenTrip(t)
        PROVE  ScrollEffect
    <2>1. status[t] = "none" /\ born[t] = 0
      BY <1>1 DEF OpenTrip, BirthsApart
    <2>2. /\ status' = [status EXCEPT ![t] = "opening"]
          /\ \A u \in Trips \ {t} : born'[u] = born[u]
          /\ UNCHANGED <<scroll, steady>>
      BY <1>1 DEF OpenTrip, SetStatus, BirthsApart
    <2>3. QED BY <2>1, <2>2 DEF ScrollEffect, Visible, RowsTypeOK
  <1>2. ASSUME NEW t \in Trips,
               \/ \E questions \in BOOLEAN : CommitTrip(t, questions)
               \/ Resume(t) \/ (\E s \in {"complete", "aborted"} : Settle(t, s))
        PROVE  ScrollEffect
    <2>1. PICK s \in {"clarifying", "running", "complete", "aborted"} :
            status' = [status EXCEPT ![t] = s]
      BY <1>2 DEF CommitTrip, Resume, Settle, SetStatus
    <2>2. UNCHANGED <<born, scroll, steady>>
      BY <1>2 DEF CommitTrip, Resume, Settle, SetStatus
    <2>3. QED BY <2>1, <2>2 DEF ScrollEffect, Visible, RowsTypeOK
  <1>3. ASSUME NEW t \in Trips, DeleteTrip(t)
        PROVE  ScrollEffect
    BY <1>3 DEF DeleteTrip, ScrollEffect, Visible, RowsTypeOK
  <1>4. ASSUME UNCHANGED <<status, born, scroll, steady>>
        PROVE  ScrollEffect
    BY <1>4 DEF ScrollEffect, Visible
  <1>5. ASSUME NEW t \in Trips, SaveReport(t)
        PROVE  ScrollEffect
    BY <1>4, <1>5 DEF SaveReport
  <1>6. ASSUME NEW k \in Tokens, \/ \E t \in Trips : Mint(k, t)
                                 \/ MintCommit(k) \/ Revoke(k) \/ ExpireLink(k)
        PROVE  ScrollEffect
    BY <1>4, <1>6 DEF Mint, MintCommit, Revoke, ExpireLink, SetLink
  <1>7. CASE ReadShare \/ ReadTrip \/ ReadReport
    BY <1>4, <1>7 DEF ReadShare, ReadTrip, ReadReport, Read
  <1>8. CASE \/ \E t \in Trips : OpenPage(t) \/ OpenHistory(t)
             \/ \E n \in 1..MaxReports : OpenReport(n)
             \/ \E k \in Tokens : OpenLink(k)
    BY <1>8 DEF OpenPage, OpenHistory, OpenReport, OpenLink, Open, ScrollEffect
  <1>9. CASE UNCHANGED vars
    BY <1>4, <1>9 DEF vars
  <1>10. QED BY <1>1, <1>2, <1>3, <1>5, <1>6, <1>7, <1>8, <1>9 DEF Next

\* They keep the list exact.
LEMMA OthersKeepList ==
  ASSUME BirthsApart, SeenInOrder, SteadyAhead, ScrollEffect
  PROVE  SeenInOrder' /\ SteadyAhead'
  <1>1. CASE scroll' = NoScroll /\ steady' = {}
    BY <1>1 DEF SeenInOrder, SteadyAhead, NoScroll
  <1>2. CASE /\ scroll' = scroll /\ steady' \subseteq steady
             /\ \A t \in Trips : born[t] # 0 => born'[t] = born[t]
             /\ \A t \in steady' : Visible(t) => Visible(t)'
    <2>1. \A i \in DOMAIN scroll.seen : born'[scroll.seen[i]] = born[scroll.seen[i]]
      BY <1>2 DEF SeenInOrder
    <2>2. SeenInOrder'
      BY <1>2, <2>1 DEF SeenInOrder
    <2>3. \A t \in steady : born'[t] = born[t]
      BY <1>2 DEF SteadyAhead, BirthsApart, Visible
    <2>4. SteadyAhead'
      BY <1>2, <2>3 DEF SteadyAhead
    <2>5. QED BY <2>2, <2>4
  <1>3. QED BY <1>1, <1>2 DEF ScrollEffect

\* What the next page adds to the pages before it.
LEMMA PageIsAppended ==
  ASSUME NEW seen \in Seq(Trips), NEW page \in Seq(Trips), born \in [Trips -> Nat],
         \A i, j \in DOMAIN seen : i < j => born[seen[i]] > born[seen[j]],
         \A i, j \in DOMAIN page : i < j => born[page[i]] > born[page[j]],
         \A i \in DOMAIN seen : \A j \in DOMAIN page : born[seen[i]] > born[page[j]]
  PROVE  /\ seen \o page \in Seq(Trips)
         /\ \A i \in DOMAIN (seen \o page) :
              \/ \E k \in DOMAIN seen : (seen \o page)[i] = seen[k]
              \/ \E k \in DOMAIN page : (seen \o page)[i] = page[k]
         /\ \A k \in DOMAIN seen : \E i \in DOMAIN (seen \o page) : (seen \o page)[i] = seen[k]
         /\ \A k \in DOMAIN page : \E i \in DOMAIN (seen \o page) : (seen \o page)[i] = page[k]
         /\ \A i, j \in DOMAIN (seen \o page) :
              i < j => born[(seen \o page)[i]] > born[(seen \o page)[j]]
  <1> DEFINE all == seen \o page
             m == Len(seen)
             n == Len(page)
  <1>1. m \in Nat /\ n \in Nat /\ DOMAIN seen = 1..m /\ DOMAIN page = 1..n
    OBVIOUS
  <1>2. all \in Seq(Trips) /\ DOMAIN all = 1..(m + n)
    OBVIOUS
  <1>3. \A i \in 1..m : all[i] = seen[i]
    OBVIOUS
  <1>4. \A k \in 1..n : all[m + k] = page[k]
    OBVIOUS
  <1> HIDE DEF all, m, n
  <1>5. \A i \in 1..(m + n) : i \in 1..m \/ \E k \in 1..n : i = m + k
    <2>1. TAKE i \in 1..(m + n)
    <2>2. CASE i > m
      <3>1. i - m \in 1..n /\ i = m + (i - m)
        BY <1>1, <2>2
      <3>2. QED BY <3>1
    <2>3. QED BY <1>1, <2>2
  <1>6. \A i \in 1..m : i \in 1..(m + n)
    BY <1>1
  <1>7. \A k \in 1..n : m + k \in 1..(m + n)
    BY <1>1
  <1>8. ASSUME NEW i \in 1..(m + n), NEW j \in 1..(m + n), i < j
        PROVE  born[all[i]] > born[all[j]]
    <2>1. CASE j \in 1..m
      <3>1. i \in 1..m
        BY <1>1, <1>8, <2>1
      <3>2. QED BY <1>1, <1>3, <1>8, <2>1, <3>1
    <2>2. CASE \E k \in 1..n : j = m + k
      <3>1. PICK k \in 1..n : j = m + k
        BY <2>2
      <3>2. CASE i \in 1..m
        BY <1>1, <1>3, <1>4, <3>1, <3>2
      <3>3. CASE \E l \in 1..n : i = m + l
        <4>1. PICK l \in 1..n : i = m + l
          BY <3>3
        <4>2. l < k
          BY <1>1, <1>8, <3>1, <4>1
        <4>3. QED BY <1>1, <1>4, <3>1, <4>1, <4>2
      <3>4. QED BY <1>5, <3>2, <3>3
    <2>3. QED BY <1>5, <2>1, <2>2
  <1>9. \A i \in 1..(m + n) : (\E k \in 1..m : all[i] = seen[k]) \/ \E k \in 1..n : all[i] = page[k]
    BY <1>3, <1>4, <1>5
  <1>10. \A k \in 1..m : \E i \in 1..(m + n) : all[i] = seen[k]
    BY <1>3, <1>6
  <1>11. \A k \in 1..n : \E i \in 1..(m + n) : all[i] = page[k]
    BY <1>4, <1>7
  <1>12. QED BY <1>1, <1>2, <1>8, <1>9, <1>10, <1>11 DEF all

\* The rows of a page, and what it leaves for the next one.
LEMMA PageIsCut ==
  ASSUME NEW rows, Apart(rows), NEW list, list = NewestFirst(rows), Len(list) > PageSize,
         NEW page, page = SubSeq(list, 1, PageSize)
  PROVE  /\ page \in Seq(rows) /\ DOMAIN page = 1..PageSize
         /\ \A i, j \in DOMAIN page : i < j => born[page[i]] > born[page[j]]
         /\ \A i \in DOMAIN page : born[page[i]] >= born[page[PageSize]]
         /\ \A t \in rows : \/ \E i \in DOMAIN page : page[i] = t
                            \/ born[t] < born[page[PageSize]]
  <1> DEFINE n == Cardinality(rows)
  <1>1. /\ list \in Seq(rows) /\ Len(list) = n
        /\ \A i, j \in 1..n : i < j => born[list[i]] > born[list[j]]
        /\ \A t \in rows : \E i \in 1..n : list[i] = t
    BY ListIsSorted
  <1>2. n \in Nat /\ PageSize \in Nat \ {0} /\ PageSize < n
    BY <1>1, PlacesAreFilled DEF PageConstants
  <1> HIDE DEF n
  <1>3. DOMAIN list = 1..n /\ \A i \in 1..n : list[i] \in rows
    BY <1>1
  <1>4. \A i \in 1..PageSize : i \in 1..n
    BY <1>2
  <1>5. page \in Seq(rows) /\ DOMAIN page = 1..PageSize
        /\ \A i \in 1..PageSize : page[i] = list[i]
    BY <1>1, <1>2, <1>3
  <1>6. PageSize \in 1..PageSize /\ \A i \in 1..PageSize : i <= PageSize
    BY <1>2
  <1>7. \A i \in 1..n : born[list[i]] \in Nat
    BY <1>3 DEF Apart
  <1>8. \A i, j \in 1..PageSize : i < j => born[page[i]] > born[page[j]]
    BY <1>1, <1>4, <1>5
  <1>9. ASSUME NEW i \in 1..PageSize
        PROVE  born[page[i]] >= born[page[PageSize]]
    <2>1. CASE i = PageSize
      BY <1>4, <1>5, <1>7, <2>1
    <2>2. CASE i # PageSize
      <3>1. i < PageSize
        BY <1>2, <2>2
      <3>2. born[page[i]] > born[page[PageSize]]
        BY <1>6, <1>8, <3>1
      <3>3. born[page[i]] \in Nat /\ born[page[PageSize]] \in Nat
        BY <1>4, <1>5, <1>6, <1>7
      <3>4. QED BY <3>2, <3>3
    <2>3. QED BY <2>1, <2>2
  <1>10. ASSUME NEW t \in rows
         PROVE  (\E i \in 1..PageSize : page[i] = t) \/ born[t] < born[page[PageSize]]
    <2>1. PICK i \in 1..n : list[i] = t
      BY <1>1
    <2>2. CASE i \in 1..PageSize
      BY <1>5, <2>1, <2>2
    <2>3. CASE i > PageSize
      <3>1. born[list[PageSize]] > born[list[i]]
        BY <1>1, <1>2, <2>3
      <3>2. born[list[PageSize]] \in Nat /\ born[list[i]] \in Nat
        BY <1>4, <1>6, <1>7
      <3>3. born[t] < born[list[PageSize]]
        BY <2>1, <3>1, <3>2
      <3>4. QED BY <1>5, <1>6, <3>3
    <2>4. QED BY <1>2, <2>1, <2>2, <2>3
  <1>11. QED BY <1>5, <1>8, <1>9, <1>10

\* A page of the list keeps it exact.
LEMMA ListStep ==
  ASSUME BirthsApart, SeenInOrder, SteadyAhead, ListTrips
  PROVE  SeenInOrder' /\ SteadyAhead'
  <1> DEFINE rows == Below(scroll.cursor)
             list == NewestFirst(rows)
             more == Len(list) > PageSize
             page == IF more THEN SubSeq(list, 1, PageSize) ELSE list
             seen == scroll.seen
             next == scroll'
  <1>1. rows \in SUBSET Trips /\ rows \in SUBSET Stored
    BY DEF Below, Stored, BirthsApart, Visible
  <1>2. Apart(rows)
    BY <1>1, FS_Subset DEF Apart, BirthsApart, Stored
  <1>3. \A t \in rows : born[t] \in Nat /\ born[t] # 0
    BY <1>1 DEF BirthsApart, Stored
  <1>4. /\ scroll.pc \in {"idle", "page"}
        /\ next = [pc |-> IF more THEN "page" ELSE "done",
                   cursor |-> IF more THEN born[page[PageSize]] ELSE scroll.cursor,
                   seen |-> seen \o page]
        /\ steady' = IF scroll.pc = "idle" THEN {t \in Trips : Visible(t)} ELSE steady
        /\ UNCHANGED <<status, born>>
    BY DEF ListTrips, SeenInOrder
  <1>5. /\ list \in Seq(rows) /\ DOMAIN list = 1..Cardinality(rows)
        /\ \A i, j \in DOMAIN list : i < j => born[list[i]] > born[list[j]]
        /\ \A t \in rows : \E i \in DOMAIN list : list[i] = t
    <2> HIDE DEF rows, list
    <2>1. /\ list \in Seq(rows)
          /\ Len(list) = Cardinality(rows)
          /\ \A i, j \in 1..Cardinality(rows) : i < j => born[list[i]] > born[list[j]]
          /\ \A t \in rows : \E i \in 1..Cardinality(rows) : list[i] = t
      BY <1>2, ListIsSorted DEF list
    <2>2. DOMAIN list = 1..Cardinality(rows)
      BY <2>1
    <2>3. QED BY <2>1, <2>2
  <1>6. /\ page \in Seq(rows)
        /\ \A i, j \in DOMAIN page : i < j => born[page[i]] > born[page[j]]
        /\ more => /\ PageSize \in DOMAIN page
                   /\ \A i \in DOMAIN page : born[page[i]] >= born[page[PageSize]]
        /\ \A t \in rows : \/ \E i \in DOMAIN page : page[i] = t
                           \/ more /\ born[t] < born[page[PageSize]]
    <2>1. CASE more
      <3>1. page = SubSeq(list, 1, PageSize)
        BY <2>1
      <3>2. PageSize \in 1..PageSize
        BY DEF PageConstants
      <3> HIDE DEF rows, page
      <3>3. QED BY <1>2, <2>1, <3>1, <3>2, PageIsCut
    <2>2. CASE ~more
      <3>1. page = list
        BY <2>2
      <3> HIDE DEF rows, list, more, page
      <3>2. QED BY <1>5, <2>2, <3>1
    <2>3. QED BY <2>1, <2>2
  <1>7. /\ seen \in Seq(Trips) /\ scroll.cursor \in Nat
        /\ \A i, j \in DOMAIN seen : i < j => born[seen[i]] > born[seen[j]]
        /\ \A i \in DOMAIN seen : born[seen[i]] # 0
    BY DEF SeenInOrder
  <1>8. \A i \in DOMAIN seen : \A t \in rows : born[seen[i]] > born[t]
    BY <1>4 DEF SeenInOrder, Below, BirthsApart
  <1>9. \A t \in steady' : /\ Visible(t) /\ t \in Trips
                           /\ t \in rows \/ \E i \in DOMAIN seen : seen[i] = t
    <2>1. CASE scroll.pc = "idle"
      BY <1>4, <2>1 DEF SeenInOrder, Below
    <2>2. CASE scroll.pc = "page"
      BY <1>4, <2>2 DEF SteadyAhead, Below
    <2>3. QED BY <1>4, <2>1, <2>2
  <1> DEFINE cursor == IF more THEN born[page[PageSize]] ELSE scroll.cursor
             all == seen \o page
  <1>10. more => cursor \in Nat /\ cursor # 0 /\ cursor = born[page[PageSize]]
    <2> HIDE DEF rows, page, more
    <2>1. QED BY <1>3, <1>6
  <1>11. cursor \in Nat
    BY <1>7, <1>10
  <1>12. /\ page \in Seq(Trips)
         /\ \A i \in DOMAIN page : page[i] \in rows
    <2> HIDE DEF rows, page, more, list
    <2>1. QED BY <1>1, <1>6
  <1>13. \A i \in DOMAIN seen : \A j \in DOMAIN page : born[seen[i]] > born[page[j]]
    BY <1>8, <1>12
  <1>14. born \in [Trips -> Nat]
    BY DEF BirthsApart
  <1>15. /\ all \in Seq(Trips)
         /\ \A i \in DOMAIN all : \/ \E k \in DOMAIN seen : all[i] = seen[k]
                                  \/ \E k \in DOMAIN page : all[i] = page[k]
         /\ \A k \in DOMAIN seen : \E i \in DOMAIN all : all[i] = seen[k]
         /\ \A k \in DOMAIN page : \E i \in DOMAIN all : all[i] = page[k]
         /\ \A i, j \in DOMAIN all : i < j => born[all[i]] > born[all[j]]
    <2> HIDE DEF rows, page, seen
    <2>1. QED BY <1>6, <1>7, <1>12, <1>13, <1>14, PageIsAppended
  <1>16. /\ next.pc = IF more THEN "page" ELSE "done"
         /\ next.cursor = cursor /\ next.seen = all
         /\ next \in [pc : {"idle", "page", "done"}, cursor : Nat, seen : Seq(Trips)]
    <2> HIDE DEF rows, list, page, more, seen, all
    <2>1. next = [pc |-> IF more THEN "page" ELSE "done", cursor |-> cursor, seen |-> all]
      BY <1>4 DEF all
    <2> HIDE DEF next, cursor
    <2>2. QED BY <1>11, <1>15, <2>1
  <1> HIDE DEF rows, list, page, more, seen, all, cursor, next
  <1>17. \A i \in DOMAIN all : born[all[i]] # 0 /\ (more => born[all[i]] >= cursor)
    <2>1. TAKE i \in DOMAIN all
    <2>2. CASE \E k \in DOMAIN seen : all[i] = seen[k]
      <3>1. PICK k \in DOMAIN seen : all[i] = seen[k]
        BY <2>2
      <3>2. born[seen[k]] # 0 /\ born[seen[k]] \in Nat
        BY <1>7, <1>14
      <3>3. ASSUME more PROVE born[seen[k]] >= cursor
        <4>1. cursor = born[page[PageSize]] /\ cursor \in Nat /\ PageSize \in DOMAIN page
          BY <1>6, <1>10, <3>3
        <4>2. born[seen[k]] > cursor
          BY <1>13, <4>1
        <4>3. QED BY <3>2, <4>1, <4>2
      <3>4. QED BY <3>1, <3>2, <3>3
    <2>3. CASE \E k \in DOMAIN page : all[i] = page[k]
      <3>1. PICK k \in DOMAIN page : all[i] = page[k]
        BY <2>3
      <3>2. born[page[k]] # 0
        BY <1>3, <1>12
      <3>3. more => born[page[k]] >= cursor
        BY <1>6, <1>10
      <3>4. QED BY <3>1, <3>2, <3>3
    <2>4. QED BY <1>15, <2>2, <2>3
  <1>18. SeenInOrder'
    <2>1. next.pc # "idle" /\ (next.pc = "page" => more)
      BY <1>16
    <2>2. next.pc = "page" => next.cursor # 0
      BY <1>10, <1>16, <2>1
    <2>3. \A i \in DOMAIN next.seen :
            /\ born'[next.seen[i]] # 0
            /\ next.pc = "page" => born'[next.seen[i]] >= next.cursor
      BY <1>4, <1>16, <1>17, <2>1
    <2>4. \A i, j \in DOMAIN next.seen : i < j => born'[next.seen[i]] > born'[next.seen[j]]
      BY <1>4, <1>15, <1>16
    <2>5. QED BY <1>16, <2>1, <2>2, <2>3, <2>4 DEF SeenInOrder, next
  <1>19. SteadyAhead'
    <2>1. ASSUME NEW t \in steady'
          PROVE  \/ \E i \in DOMAIN all : all[i] = t
                 \/ more /\ born[t] < cursor
      <3>1. CASE \E i \in DOMAIN seen : seen[i] = t
        BY <1>15, <3>1
      <3>2. CASE t \in rows
        BY <1>6, <1>10, <1>15, <3>2
      <3>3. QED BY <1>9, <2>1, <3>1, <3>2
    <2>2. \A t \in steady' : Visible(t)'
      BY <1>4, <1>9 DEF Visible
    <2>3. \A t \in steady' : \/ \E i \in DOMAIN next.seen : next.seen[i] = t
                             \/ next.pc = "page" /\ born'[t] < next.cursor
      <3>1. next.seen = all /\ next.cursor = cursor /\ (more => next.pc = "page")
        BY <1>16
      <3>2. born' = born
        BY <1>4
      <3>3. QED BY <2>1, <3>1, <3>2
    <2>4. QED BY <1>9, <2>2, <2>3 DEF SteadyAhead, next
  <1>20. QED BY <1>18, <1>19

\* The inductive invariant of the list.
LEMMA ListFits == Spec => [](RowsTypeOK /\ ListInv)
  <1>1. Init => ListInv
    <2>1. Init => Stored = {}
      BY DEF Init, Stored
    <2>2. Init => BirthsApart
      BY <2>1, FS_EmptySet DEF Init, BirthsApart
    <2>3. QED BY <2>2 DEF Init, ListInv, SeenInOrder, SteadyAhead, NoScroll
  <1>2. RowsTypeOK /\ ListInv /\ [Next]_vars => ListInv'
    <2>1. SUFFICES ASSUME RowsTypeOK, ListInv, [Next]_vars PROVE ListInv'
      OBVIOUS
    <2>2. BirthsApart'
      BY <2>1, BirthsStep DEF ListInv
    <2>3. ListTrips \/ ScrollEffect
      BY <2>1, ScrollEffects DEF ListInv, SteadyAhead
    <2>4. SeenInOrder' /\ SteadyAhead'
      BY <2>1, <2>3, ListStep, OthersKeepList DEF ListInv
    <2>5. QED BY <2>2, <2>4 DEF ListInv
  <1>3. QED BY <1>1, <1>2, RowsTyped, PTL DEF Spec

\* A client that scrolls to the end sees every trip that was there all along, once, newest
\* first, whatever is created, run and deleted meanwhile.
THEOREM ScrollsAreExact == Spec => []ScrollIsExact
  <1>1. ListInv => ScrollIsExact
    BY DEF ListInv, SteadyAhead, SeenInOrder, ScrollIsExact, ToSet
  <1>2. QED BY <1>1, ListFits, PTL

\* The types of all variables.
THEOREM PagesTyped == Spec => []PagesTypeOK
  <1>1. RowsTypeOK /\ ListInv => PagesTypeOK
    BY DEF ListInv, BirthsApart, SeenInOrder, SteadyAhead, PagesTypeOK
  <1>2. QED BY <1>1, ListFits, PTL
===============================================================================
