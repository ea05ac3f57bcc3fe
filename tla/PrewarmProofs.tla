---------------------------- MODULE PrewarmProofs ----------------------------
(***************************************************************************)
(* Theorems about Prewarm, for any query file, names to try, pages and     *)
(* number of runs and faults: a hit that is on disk stays there, it is in  *)
(* the cache, and its line is in the jsonl file but for one per fault.     *)
(* The gap file has one row for each place that is not covered, the best.  *)
(***************************************************************************)
EXTENDS Prewarm, FiniteSetTheorems, WellFoundedInduction, TLAPS

IsSeq(s) == \E S : s \in Seq(S)

\* A longer list of rows has the rows of the shorter one.
LEMMA AppendKeeps ==
  ASSUME NEW rs, IsSeq(rs), NEW r
  PROVE  IsSeq(Append(rs, r)) /\ OkRows(rs) \subseteq OkRows(Append(rs, r))
  <1>1. PICK S : rs \in Seq(S)
    BY DEF IsSeq
  <1>2. Append(rs, r) \in Seq(S \cup {r})
    BY <1>1
  <1>3. \A i \in DOMAIN rs : i \in DOMAIN Append(rs, r) /\ Append(rs, r)[i] = rs[i]
    BY <1>1
  <1>4. QED BY <1>2, <1>3 DEF IsSeq, OkRows, ToSet

\* Sanitising changes rows that saw no post, and no others.
LEMMA SanitizedKeeps ==
  ASSUME NEW rs, IsSeq(rs)
  PROVE  IsSeq(Sanitized(rs)) /\ OkRows(rs) \subseteq OkRows(Sanitized(rs))
  <1>1. PICK S : rs \in Seq(S)
    BY DEF IsSeq
  <1>2. Sanitized(rs) \in Seq({Sanitized(rs)[i] : i \in DOMAIN rs})
    BY <1>1 DEF Sanitized
  <1>3. ASSUME NEW i \in DOMAIN rs, rs[i].kind = "ok"
        PROVE  i \in DOMAIN Sanitized(rs) /\ Sanitized(rs)[i] = rs[i]
    <2>1. i \in i..Len(rs) /\ ~Suspect(rs[i])
      BY <1>1, <1>3 DEF Suspect
    <2>2. QED BY <2>1 DEF Sanitized
  <1>4. QED BY <1>2, <1>3 DEF IsSeq, OkRows, ToSet

\* What a resumed run holds in memory goes beyond what is on disk.
ReportInv ==
  /\ IsSeq(rows) /\ IsSeq(report.rows)
  /\ pc # "off" => fresh \/ OkRows(report.rows) \subseteq OkRows(rows)

\* The row of a query is added to those of the run.
LEMMA ConcludeKeeps ==
  ASSUME IsSeq(rows), NEW log, Conclude(log)
  PROVE  IsSeq(rows') /\ OkRows(rows) \subseteq OkRows(rows')
  BY AppendKeeps DEF Conclude

\* A step that leaves the report alone and may add a row.
LEMMA Adding ==
  ASSUME ReportInv, UNCHANGED <<report, fresh>>, pc # "off",
         rows' = rows \/ \E log : Conclude(log)
  PROVE  ReportInv'
  <1>1. IsSeq(rows') /\ OkRows(rows) \subseteq OkRows(rows')
    BY ConcludeKeeps DEF ReportInv
  <1>2. QED BY <1>1 DEF ReportInv

\* A step that writes the report.
LEMMA Writing ==
  ASSUME ReportInv, UNCHANGED <<rows, fresh>>, report' = report \/ report' = Whole(rows),
         pc # "off"
  PROVE  /\ ReportInv'
         /\ fresh \/ OkRows(report.rows) \subseteq OkRows(report'.rows)
  BY DEF ReportInv, Whole

LEMMA ReportStep ==
  ASSUME ReportInv, Next
  PROVE  /\ ReportInv'
         /\ \/ OkRows(report.rows) \subseteq OkRows(report'.rows)
            \/ report'.state = "torn"
            \/ fresh
  <1> DEFINE Kept == \/ OkRows(report.rows) \subseteq OkRows(report'.rows)
                     \/ report'.state = "torn"
                     \/ fresh
  <1>1. ASSUME NEW resume \in BOOLEAN, Start(resume) PROVE ReportInv' /\ Kept
    <2>1. /\ rows' = IF resume THEN report.rows ELSE <<>>
          /\ fresh' = ~resume /\ report' = report
      BY <1>1 DEF Start, fileState
    <2>2. IsSeq(<<>>)
      BY DEF IsSeq
    <2>3. QED BY <2>1, <2>2 DEF ReportInv
  <1>2. ASSUME Preflight \/ Save \/ Finish PROVE ReportInv' /\ Kept
    <2>1. /\ UNCHANGED <<rows, fresh>> /\ pc # "off"
          /\ report' = report \/ report' = Whole(rows)
      BY <1>2 DEF Preflight, Save, Finish, runState
    <2>2. QED BY <2>1, Writing
  <1>3. ASSUME \/ \E raw \in Pages : Search(raw)
               \/ \E kind \in {"gated", "error"} : SearchFails(kind)
               \/ Put \/ AppendLocal \/ Mirror \/ StoreFails
        PROVE  ReportInv' /\ Kept
    <2>1. /\ UNCHANGED <<report, fresh>> /\ pc # "off"
          /\ rows' = rows \/ \E log : Conclude(log)
      BY <1>3 DEF Search, SearchFails, Put, AppendLocal, Mirror, StoreFails, runState, fileState
    <2>2. QED BY <2>1, Adding
  <1>4. ASSUME Crash PROVE ReportInv' /\ Kept
    <2>1. /\ pc' = "off" /\ rows' = <<>>
          /\ report' = report \/ report' = TornReport
      BY <1>4 DEF Crash, Goto
    <2>2. IsSeq(<<>>)
      BY DEF IsSeq
    <2>3. QED BY <2>1, <2>2 DEF ReportInv, TornReport
  <1>5. ASSUME NEW shown, Sanitize(shown) PROVE ReportInv' /\ Kept
    <2>1. /\ pc' = "off" /\ rows' = rows /\ report' = Whole(Sanitized(report.rows))
      BY <1>5 DEF Sanitize, runState
    <2>2. QED BY <2>1, SanitizedKeeps DEF ReportInv, Whole
  <1>6. ASSUME ImportLocal PROVE ReportInv' /\ Kept
    BY <1>6 DEF ImportLocal, fileState, runState, ReportInv
  <1>7. QED BY <1>1, <1>2, <1>3, <1>4, <1>5, <1>6 DEF Next, RunStep, Operator

\* A hit that a report on disk records stays recorded, whatever the run finds and wherever
\* it ends, until the file is torn or a run without --resume begins a new one.
THEOREM HitsStay == Spec => HitsKept
  <1>1. Init => ReportInv
    <2>1. IsSeq(<<>>)
      BY DEF IsSeq
    <2>2. QED BY <2>1 DEF Init, ReportInv, NoReport
  <1>2. ReportInv /\ [Next]_vars => ReportInv'
    BY ReportStep DEF vars, ReportInv
  <1>3. ReportInv /\ [Next]_vars =>
          [\/ OkRows(report.rows) \subseteq OkRows(report'.rows)
           \/ report'.state = "torn"
           \/ fresh]_report
    BY ReportStep DEF vars
  <1>4. QED BY <1>1, <1>2, <1>3, PTL DEF Spec, HitsKept

-------------------------------------------------------------------------------
(* The query in hand.                                                      *)

\* A set of naturals has a least element.
LEMMA LeastNatural ==
  ASSUME NEW S \in SUBSET Nat, S # {}
  PROVE  \E m \in S : \A n \in S : m <= n
  <1>1. PICK m \in S : \A n \in S : ~(<<n, m>> \in OpToRel(<, Nat))
    BY NatLessThanWellFounded, WFMin
  <1>2. \A n \in S : ~(n < m)
    BY <1>1 DEF OpToRel
  <1>3. QED BY <1>2

\* There is a first place among some.
LEMMA LeastPlace ==
  ASSUME NEW W \in SUBSET Places, W # {}
  PROVE  \E p \in W : \A r \in W : UpTo(p, r)
  <1> DEFINE I == {p[1] : p \in W}
  <1>1. \A p \in Places : p[1] \in Nat /\ p[2] \in Nat /\ p = <<p[1], p[2]>>
    <2>1. TAKE p \in Places
    <2>2. PICK i \in DOMAIN Items : p \in {i} \X DOMAIN Items[i].queries
      BY DEF Places
    <2>3. PICK k \in DOMAIN Items[i].queries : p = <<i, k>>
      BY <2>2
    <2>4. i \in Nat /\ Items[i].queries \in Seq(Queries)
      BY PrewarmConstants DEF PrewarmConstants
    <2>5. k \in Nat
      BY <2>4
    <2>6. QED BY <2>3, <2>4, <2>5
  <1>2. I \in SUBSET Nat /\ I # {}
    BY <1>1
  <1>3. PICK i \in I : \A j \in I : i <= j
    BY <1>2, LeastNatural
  <1> DEFINE K == {k \in Nat : <<i, k>> \in W}
  <1>4. K \in SUBSET Nat /\ K # {}
    BY <1>1, <1>3
  <1>5. PICK k \in K : \A l \in K : k <= l
    BY <1>4, LeastNatural
  <1>6. <<i, k>> \in W
    OBVIOUS
  <1>7. ASSUME NEW r \in W
        PROVE  UpTo(<<i, k>>, r)
    <2>1. r[1] \in I /\ r[1] \in Nat /\ r[2] \in Nat /\ r = <<r[1], r[2]>> /\ i \in Nat /\ i <= r[1]
      BY <1>1, <1>2, <1>3
    <2>2. CASE r[1] = i
      <3>1. r[2] \in K
        BY <2>1, <2>2
      <3>2. k <= r[2]
        BY <1>5, <3>1
      <3>3. QED BY <2>2, <3>2 DEF UpTo
    <2>3. CASE r[1] # i
      BY <2>1, <2>3 DEF UpTo
    <2>4. QED BY <2>2, <2>3
  <1>8. QED BY <1>6, <1>7

\* Every place has a query, and names to try.
LEMMA PlaceHasNames ==
  ASSUME NEW p \in Places
  PROVE  LET query == Items[p[1]].queries[p[2]]
             names == Attempts[<<Items[p[1]].candidate, query>>]
         IN  query \in Queries /\ names \in Seq(Queries) /\ names # <<>> /\ 0 < Len(names)
  <1> DEFINE query == Items[p[1]].queries[p[2]]
             names == Attempts[<<Items[p[1]].candidate, query>>]
  <1>1. p[1] \in DOMAIN Items /\ p[2] \in DOMAIN Items[p[1]].queries
    BY DEF Places
  <1>2. query \in Queries
    BY <1>1, PrewarmConstants DEF PrewarmConstants
  <1>3. <<Items[p[1]].candidate, query>> \in Pairs
    BY <1>1, <1>2 DEF Pairs
  <1> HIDE DEF query
  <1>4. names \in Seq(Queries) /\ names # <<>>
    BY <1>3, PrewarmConstants DEF PrewarmConstants
  <1>5. \A s \in Seq(Queries) : s # <<>> => 0 < Len(s)
    OBVIOUS
  <1>6. QED BY <1>2, <1>4, <1>5 DEF query

\* While there is work left, the query in hand is one of it.
LEMMA FirstIsLeft ==
  ASSUME work \in SUBSET Places, work # {}
  PROVE  First \in work /\ Original \in Queries /\ Names \in Seq(Queries) /\ 0 < Len(Names)
  <1>1. First \in work
    BY LeastPlace DEF First
  <1>2. QED BY <1>1, PlaceHasNames DEF Original, Names, Candidate

\* The same of the next state.
LEMMA NextIsLeft ==
  ASSUME work' \in SUBSET Places, work' # {}
  PROVE  First' \in work' /\ Original' \in Queries /\ Names' \in Seq(Queries) /\ 0 < Len(Names')
  <1>1. First' \in work'
    BY LeastPlace DEF First
  <1>2. QED BY <1>1, PlaceHasNames DEF Original, Names, Candidate

\* Where a run has a name in hand.
Busy == {"search", "put", "append", "mirror"}

\* A run has a query in hand, and names of it left to try.
WorkFits ==
  /\ work \in SUBSET Places
  /\ pc \in Busy \cup {"preflight", "save"} => work # {}
  /\ IsSeq(tried)
  /\ pc \in Busy => Len(tried) < Len(Names)
  /\ pc \notin Busy => tried = <<>>

\* The query in hand is a matter of the work that is left.
LEMMA SameWork ==
  ASSUME work' = work
  PROVE  First' = First /\ Candidate' = Candidate /\ Original' = Original /\ Names' = Names
  <1>1. First' = First
    BY DEF First
  <1>2. Candidate' = Candidate /\ Original' = Original
    BY <1>1 DEF Candidate, Original
  <1>3. QED BY <1>1, <1>2 DEF Names

\* The name that is tried.
LEMMA InHand ==
  ASSUME WorkFits, pc \in Busy
  PROVE  Current \in Queries /\ Original \in Queries /\ Len(tried) \in Nat /\ Len(Names) \in Nat
  <1>1. Names \in Seq(Queries) /\ Original \in Queries
    BY FirstIsLeft DEF WorkFits
  <1>2. Len(tried) \in Nat /\ Len(Names) \in Nat /\ Len(tried) < Len(Names)
    BY <1>1 DEF WorkFits, IsSeq
  <1>3. Len(tried) + 1 \in 1..Len(Names)
    BY <1>2
  <1>4. QED BY <1>1, <1>2, <1>3 DEF Current

\* What comes of a name: the row of the query, or the next name.
LEMMA Outcome ==
  ASSUME WorkFits, pc \in Busy, NEW kind, Conclude(Log(kind))
  PROVE  \/ /\ pc' = "save" /\ tried' = <<>>
            /\ \E row : /\ rows' = Append(rows, row)
                        /\ "kind" \in DOMAIN row
                        /\ row.kind = kind /\ row.original = Original
                        /\ kind = "ok" => row.query = Current
         \/ /\ pc' = "search" /\ rows' = rows /\ kind # "ok"
            /\ IsSeq(tried') /\ Len(tried') < Len(Names)
  <1> DEFINE log == Log(kind)
  <1>1. PICK S : tried \in Seq(S)
    BY DEF WorkFits, IsSeq
  <1>2. /\ log \in Seq(S \cup {[query |-> Current, kind |-> kind]})
        /\ Len(log) = Len(tried) + 1
        /\ log[Len(log)] = [query |-> Current, kind |-> kind]
    BY <1>1 DEF Log
  <1>3. Len(tried) + 1 <= Len(Names) /\ Len(tried) \in Nat /\ Len(Names) \in Nat
    BY InHand DEF WorkFits
  <1> HIDE DEF log
  <1>4. log[Len(log)].kind = kind /\ log[Len(log)].query = Current
    BY <1>2
  <1>5. CASE kind \in {"ok", "error"} \/ Len(log) = Len(Names)
    <2>1. rows' = Append(rows, ResultRow(log)) /\ tried' = <<>> /\ pc' = "save"
      BY <1>4, <1>5 DEF Conclude, Goto, log
    <2>2. /\ "kind" \in DOMAIN ResultRow(log)
          /\ ResultRow(log).kind = kind /\ ResultRow(log).original = Original
          /\ kind = "ok" => ResultRow(log).query = Current
      BY <1>4 DEF ResultRow
    <2>3. QED BY <2>1, <2>2
  <1>6. CASE ~(kind \in {"ok", "error"} \/ Len(log) = Len(Names))
    <2>1. rows' = rows /\ tried' = log /\ pc' = "search"
      BY <1>4, <1>6 DEF Conclude, Goto, log
    <2>2. Len(log) < Len(Names)
      BY <1>2, <1>3, <1>6
    <2>3. QED BY <1>2, <1>6, <2>1, <2>2 DEF IsSeq
  <1>7. QED BY <1>5, <1>6

\* Every step leaves the work fitting.
LEMMA WorkStep ==
  ASSUME WorkFits, Next
  PROVE  WorkFits'
  <1>1. IsSeq(<<>>)
    BY DEF IsSeq
  <1>2. ASSUME NEW kind, pc \in Busy, Conclude(Log(kind)), work' = work
        PROVE  WorkFits'
    <2>1. Names' = Names /\ work # {}
      BY <1>2, SameWork DEF WorkFits
    <2>2. QED BY <1>1, <1>2, <2>1, Outcome DEF WorkFits, Busy
  <1>3. ASSUME work' = work, tried' = tried, pc \in Busy, pc' \in Busy
        PROVE  WorkFits'
    BY <1>3, SameWork DEF WorkFits
  <1>4. ASSUME NEW resume \in BOOLEAN, Start(resume)
        PROVE  WorkFits'
    <2>1. work' \in SUBSET Places
      BY <1>4 DEF Start, WorkItems
    <2>2. tried' = <<>> /\ pc' = IF work' = {} THEN "finish" ELSE "preflight"
      BY <1>4 DEF Start, Goto
    <2>3. QED BY <1>1, <2>1, <2>2 DEF WorkFits, Busy
  <1>5. CASE Preflight
    <2>1. pc = "preflight" /\ pc' = "search" /\ work' = work /\ tried' = tried
      BY <1>5 DEF Preflight, Goto, runState
    <2>2. work # {} /\ tried = <<>>
      BY <2>1 DEF WorkFits, Busy
    <2>3. Names' = Names /\ 0 < Len(Names)
      BY <2>1, <2>2, SameWork, FirstIsLeft DEF WorkFits
    <2>4. Len(<<>>) = 0
      OBVIOUS
    <2>5. QED BY <1>1, <2>1, <2>2, <2>3, <2>4 DEF WorkFits, Busy
  <1>6. ASSUME NEW raw \in Pages, Search(raw)
        PROVE  WorkFits'
    <2>1. pc \in Busy /\ work' = work
      BY <1>6 DEF Search, Busy
    <2>2. \/ pc' = "put" /\ tried' = tried
          \/ \E kind : Conclude(Log(kind))
      BY <1>6 DEF Search, Goto
    <2>3. QED BY <1>2, <1>3, <2>1, <2>2 DEF Busy
  <1>7. ASSUME NEW kind, SearchFails(kind)
        PROVE  WorkFits'
    BY <1>2, <1>7 DEF SearchFails, Busy
  <1>8. CASE Put
    BY <1>3, <1>8 DEF Put, Goto, Busy, runState
  <1>9. CASE AppendLocal
    <2>1. pc \in Busy /\ work' = work
      BY <1>9 DEF AppendLocal, Busy
    <2>2. \/ pc' = "mirror" /\ tried' = tried
          \/ Conclude(Log("ok"))
      BY <1>9 DEF AppendLocal, Goto
    <2>3. QED BY <1>2, <1>3, <2>1, <2>2 DEF Busy
  <1>10. CASE Mirror
    BY <1>2, <1>10 DEF Mirror, Busy
  <1>11. CASE Save
    <2>1. pc = "save" /\ tried' = tried /\ tried = <<>>
      BY <1>11 DEF Save, WorkFits, Busy
    <2>2. \/ pc' = "stop" /\ work' = work
          \/ work' = work \ {First} /\ pc' = IF work' = {} THEN "finish" ELSE "search"
      BY <1>11 DEF Save, Goto
    <2>3. work' \in SUBSET Places
      BY <2>2 DEF WorkFits
    <2>4. work' # {} => 0 < Len(Names')
      BY <2>3, NextIsLeft
    <2>5. tried' = <<>> /\ Len(<<>>) = 0 /\ IsSeq(tried')
      BY <1>1, <2>1
    <2>6. pc' = "search" => work' # {} /\ Len(tried') < Len(Names')
      BY <2>2, <2>4, <2>5
    <2>7. pc' \in {"stop", "finish", "search"}
      BY <2>2
    <2>8. QED BY <2>3, <2>5, <2>6, <2>7 DEF WorkFits, Busy
  <1>12. CASE Finish
    <2>1. work' = {} /\ tried' = tried /\ pc' = "off" /\ pc \in {"stop", "finish"}
      BY <1>12 DEF Finish, Goto
    <2>2. QED BY <2>1 DEF WorkFits, Busy
  <1>13. CASE StoreFails
    BY <1>2, <1>13 DEF StoreFails, Busy
  <1>14. CASE Crash
    <2>1. work' = {} /\ tried' = <<>> /\ pc' = "off"
      BY <1>14 DEF Crash, Goto
    <2>2. QED BY <1>1, <2>1 DEF WorkFits, Busy
  <1>15. ASSUME \/ ImportLocal \/ \E shown : Sanitize(shown)
         PROVE  WorkFits'
    <2>1. work' = work /\ tried' = tried /\ pc' = "off" /\ pc = "off"
      BY <1>15 DEF ImportLocal, Sanitize, runState
    <2>2. QED BY <2>1 DEF WorkFits, Busy
  <1>16. QED BY <1>4, <1>5, <1>6, <1>7, <1>8, <1>9, <1>10, <1>11, <1>12, <1>13, <1>14, <1>15
         DEF Next, RunStep, Operator

-------------------------------------------------------------------------------
(* The rows and the cache.                                                 *)

\* The rows of rs that count are stored in c.
Stored(c, rs) ==
  \A r \in OkRows(rs) : /\ r.query \in Queries /\ r.original \in Queries
                        /\ c[r.query] # {} /\ c[r.original] # {}

\* What is reported, or about to be, is in the cache.
CacheFits ==
  /\ cache = [q \in Queries |-> cache[q]]
  /\ pc = "put" => found # {}
  /\ pc \in {"append", "mirror"} => cache[Current] # {} /\ Current \in live
  /\ ~moved => Stored(cache, rows) /\ Stored(cache, report.rows)

\* Rows are records that have a kind.
HaveKinds(rs) == \A i \in DOMAIN rs : "kind" \in DOMAIN rs[i]
RowsFit == HaveKinds(rows) /\ HaveKinds(report.rows)

\* Sanitising makes no row a hit.
LEMMA SanitizedAdds ==
  ASSUME NEW rs, HaveKinds(rs)
  PROVE  HaveKinds(Sanitized(rs)) /\ OkRows(Sanitized(rs)) \subseteq OkRows(rs)
  <1>1. DOMAIN Sanitized(rs) = DOMAIN rs
    BY DEF Sanitized
  <1>2. ASSUME NEW i \in DOMAIN rs
        PROVE  /\ "kind" \in DOMAIN Sanitized(rs)[i]
               /\ Sanitized(rs)[i].kind = "ok" => Sanitized(rs)[i] = rs[i]
    <2> DEFINE gate == [rs[i] EXCEPT !.kind = "gate"]
    <2>1. Sanitized(rs)[i] = rs[i] \/ Sanitized(rs)[i] = gate
      BY DEF Sanitized
    <2>2. "kind" \in DOMAIN rs[i]
      BY DEF HaveKinds
    <2>3. "kind" \in DOMAIN gate /\ gate.kind = "gate"
      BY <2>2
    <2> HIDE DEF gate
    <2>4. QED BY <2>1, <2>2, <2>3
  <1>3. QED BY <1>1, <1>2 DEF OkRows, ToSet, HaveKinds

\* They stay so.
LEMMA RowsStep ==
  ASSUME WorkFits, ReportInv, RowsFit, Next
  PROVE  RowsFit'
  <1>1. HaveKinds(<<>>)
    BY DEF HaveKinds
  <1>2. ASSUME NEW row, "kind" \in DOMAIN row
        PROVE  HaveKinds(Append(rows, row))
    <2>1. PICK S : rows \in Seq(S)
      BY DEF ReportInv, IsSeq
    <2>2. \A i \in DOMAIN Append(rows, row) :
            Append(rows, row)[i] = row \/ (i \in DOMAIN rows /\ Append(rows, row)[i] = rows[i])
      BY <2>1
    <2>3. QED BY <1>2, <2>2 DEF RowsFit, HaveKinds
  <1>3. ASSUME NEW kind, pc \in Busy, Conclude(Log(kind))
        PROVE  HaveKinds(rows')
    <2>1. rows' = rows \/ \E row : rows' = Append(rows, row) /\ "kind" \in DOMAIN row
      BY <1>3, Outcome
    <2>2. QED BY <1>2, <2>1 DEF RowsFit
  <1>4. ASSUME NEW resume \in BOOLEAN, Start(resume)
        PROVE  RowsFit'
    <2>1. rows' = (IF resume THEN report.rows ELSE <<>>) /\ report' = report
      BY <1>4 DEF Start, fileState
    <2>2. QED BY <1>1, <2>1 DEF RowsFit
  <1>5. CASE Preflight \/ Save \/ Finish
    <2>1. rows' = rows /\ (report' = report \/ report'.rows = rows)
      BY <1>5 DEF Preflight, Save, Finish, runState, Whole
    <2>2. QED BY <2>1 DEF RowsFit
  <1>6. CASE \/ \E raw \in Pages : Search(raw)
             \/ \E kind \in {"gated", "error"} : SearchFails(kind)
             \/ Put \/ AppendLocal \/ Mirror \/ StoreFails
    <2>1. /\ pc \in Busy /\ report' = report
          /\ rows' = rows \/ \E kind : Conclude(Log(kind))
      BY <1>6 DEF Search, SearchFails, Put, AppendLocal, Mirror, StoreFails, Busy, fileState,
                  runState
    <2>2. QED BY <1>3, <2>1 DEF RowsFit
  <1>7. CASE Crash
    <2>1. rows' = <<>> /\ (report' = report \/ report'.rows = <<>>)
      BY <1>7 DEF Crash, TornReport
    <2>2. QED BY <1>1, <2>1 DEF RowsFit
  <1>8. ASSUME NEW shown, Sanitize(shown)
        PROVE  RowsFit'
    <2>1. rows' = rows /\ report'.rows = Sanitized(report.rows)
      BY <1>8 DEF Sanitize, runState, Whole
    <2>2. QED BY <2>1, SanitizedAdds DEF RowsFit
  <1>9. CASE ImportLocal
    BY <1>9 DEF ImportLocal, fileState, runState, RowsFit
  <1>10. QED BY <1>4, <1>5, <1>6, <1>7, <1>8, <1>9 DEF Next, RunStep, Operator

\* A list that got a row has no other hit than before and that row.
LEMMA AppendAdds ==
  ASSUME NEW rs, IsSeq(rs), NEW row
  PROVE  \A r \in OkRows(Append(rs, row)) : r \in OkRows(rs) \/ (r = row /\ row.kind = "ok")
  <1>1. PICK S : rs \in Seq(S)
    BY DEF IsSeq
  <1> DEFINE more == Append(rs, row)
             n == Len(rs)
  <1>2. /\ DOMAIN more = 1..(n + 1) /\ DOMAIN rs = 1..n /\ n \in Nat
        /\ more[n + 1] = row /\ \A i \in 1..n : more[i] = rs[i]
    BY <1>1
  <1> HIDE DEF more, n
  <1>3. \A i \in DOMAIN more : more[i] = row \/ \E j \in DOMAIN rs : more[i] = rs[j]
    <2>1. TAKE i \in DOMAIN more
    <2>2. i \in 1..n \/ i = n + 1
      BY <1>2
    <2>3. QED BY <1>2, <2>2
  <1>4. QED BY <1>3 DEF OkRows, ToSet, more

\* A row that is written over stays one.
LEMMA PutKeeps ==
  ASSUME CacheFits, NEW q \in Queries, NEW posts, PutCached(q, posts), posts # {}
  PROVE  /\ cache' = [p \in Queries |-> cache'[p]]
         /\ cache'[q] # {} /\ q \in live' /\ live \subseteq live'
         /\ \A p \in Queries : cache[p] # {} => cache'[p] # {}
         /\ \A rs : Stored(cache, rs) => Stored(cache', rs)
  <1>1. cache' = [cache EXCEPT ![q] = posts] /\ live' = live \cup {q}
    BY DEF PutCached
  <1>2. cache = [p \in Queries |-> cache[p]]
    BY DEF CacheFits
  <1>3. /\ cache' = [p \in Queries |-> cache'[p]] /\ cache'[q] = posts
        /\ \A p \in Queries : p # q => cache'[p] = cache[p]
    BY <1>1, <1>2
  <1>4. \A p \in Queries : cache[p] # {} => cache'[p] # {}
    BY <1>3
  <1>5. QED BY <1>1, <1>3, <1>4 DEF Stored

\* The row of a query whose hit is in the cache, or one that is no hit.
LEMMA OutcomeStored ==
  ASSUME WorkFits, pc \in Busy, NEW kind, Conclude(Log(kind)), IsSeq(rows), NEW c,
         kind = "ok" => c[Current] # {} /\ c[Original] # {},
         Stored(c, rows)
  PROVE  Stored(c, rows')
  <1>1. CASE rows' = rows
    BY <1>1
  <1>2. ASSUME NEW row, rows' = Append(rows, row), row.kind = kind, row.original = Original,
               kind = "ok" => row.query = Current
        PROVE  Stored(c, rows')
    BY <1>2, InHand, AppendAdds DEF Stored
  <1>3. QED BY <1>1, <1>2, Outcome

\* Every step leaves the cache fitting the rows.
LEMMA CacheStep ==
  ASSUME WorkFits, CacheFits, ReportInv, RowsFit, Next
  PROVE  CacheFits'
  <1>1. IsSeq(rows)
    BY DEF ReportInv
  <1>2. ASSUME NEW kind, pc \in Busy, Conclude(Log(kind)), UNCHANGED <<report, moved>>,
               cache' = [q \in Queries |-> cache'[q]],
               ~moved => Stored(cache', rows) /\ Stored(cache', report.rows),
               kind = "ok" => cache'[Current] # {} /\ cache'[Original] # {}
        PROVE  CacheFits'
    <2>1. pc' \in {"save", "search"}
      BY <1>2, Outcome
    <2>2. ~moved => Stored(cache', rows')
      BY <1>1, <1>2, OutcomeStored
    <2>3. QED BY <1>2, <2>1, <2>2 DEF CacheFits
  <1>3. ASSUME UNCHANGED <<cache, moved>>, pc' \notin {"put", "append", "mirror"},
               ~moved => Stored(cache, rows') /\ Stored(cache, report'.rows)
        PROVE  CacheFits'
    BY <1>3 DEF CacheFits
  <1>4. Stored(cache, <<>>)
    BY DEF Stored, OkRows, ToSet
  <1>5. ASSUME NEW resume \in BOOLEAN, Start(resume)
        PROVE  CacheFits'
    <2>1. /\ rows' = IF resume THEN report.rows ELSE <<>>
          /\ UNCHANGED <<cache, moved, report>>
          /\ pc' \in {"finish", "preflight"}
      BY <1>5 DEF Start, Goto, cacheVars, fileState
    <2>2. QED BY <1>3, <1>4, <2>1 DEF CacheFits
  <1>6. CASE Preflight \/ Save \/ Finish
    <2>1. /\ UNCHANGED <<cache, moved, rows>>
          /\ report' = report \/ report'.rows = rows
          /\ pc' \in {"search", "stop", "finish", "off"}
      BY <1>6 DEF Preflight, Save, Finish, Goto, cacheVars, runState, Whole
    <2>2. QED BY <1>3, <2>1 DEF CacheFits
  <1>7. ASSUME NEW raw \in Pages, Search(raw)
        PROVE  CacheFits'
    <2>1. pc \in Busy /\ UNCHANGED <<cache, live, report, moved>>
      BY <1>7 DEF Search, Busy, cacheVars, fileState
    <2>2. CASE /\ found' # {} /\ pc' = "put" /\ rows' = rows
      BY <2>1, <2>2 DEF CacheFits
    <2>3. CASE \E kind \in {"blank", "skip"} : Conclude(Log(kind))
      BY <1>2, <2>1, <2>3 DEF CacheFits
    <2>4. QED BY <1>7, <2>2, <2>3 DEF Search, Goto
  <1>8. ASSUME NEW kind, SearchFails(kind)
        PROVE  CacheFits'
    BY <1>2, <1>8 DEF SearchFails, Busy, cacheVars, fileState, CacheFits
  <1>9. CASE Put
    <2>1. /\ pc = "put" /\ pc' = "append" /\ PutCached(Current, found)
          /\ UNCHANGED <<report, moved, rows, work, tried>>
      BY <1>9 DEF Put, Goto, fileState, runState
    <2>2. Current \in Queries /\ found # {}
      BY <2>1, InHand DEF Busy, CacheFits
    <2>3. Current' = Current
      BY <2>1, SameWork DEF Current
    <2>4. QED BY <2>1, <2>2, <2>3, PutKeeps DEF CacheFits
  <1>10. CASE AppendLocal
    <2>1. pc = "append" /\ UNCHANGED <<cache, live, report, moved, work>>
      BY <1>10 DEF AppendLocal, cacheVars
    <2>2. CASE Current = Original /\ Conclude(Log("ok"))
      <3>1. cache[Current] # {} /\ cache' = [q \in Queries |-> cache'[q]]
            /\ (~moved => Stored(cache', rows) /\ Stored(cache', report.rows))
        BY <2>1 DEF CacheFits
      <3>2. cache'[Current] # {} /\ cache'[Original] # {}
        BY <2>1, <2>2, <3>1
      <3>3. pc \in Busy
        BY <2>1 DEF Busy
      <3> HIDE DEF Busy
      <3>4. QED BY <1>2, <2>1, <2>2, <3>1, <3>2, <3>3
    <2>3. CASE pc' = "mirror" /\ UNCHANGED <<rows, tried>>
      <3>1. Current' = Current
        BY <2>1, <2>3, SameWork DEF Current
      <3>2. QED BY <2>1, <2>3, <3>1 DEF CacheFits
    <2>4. QED BY <1>10, <2>2, <2>3 DEF AppendLocal, Goto
  <1>11. CASE Mirror
    <2>1. /\ pc = "mirror" /\ Conclude(Log("ok")) /\ UNCHANGED <<report, moved>>
          /\ IF GetCached(Current) # {}
               THEN PutCached(Original, GetCached(Current)) ELSE UNCHANGED cacheVars
      BY <1>11 DEF Mirror, fileState
    <2>2. GetCached(Current) # {} /\ cache[Current] # {}
      BY <2>1 DEF CacheFits, GetCached
    <2>3. Current \in Queries /\ Original \in Queries
      BY <2>1, InHand DEF Busy
    <2>4. /\ cache' = [p \in Queries |-> cache'[p]]
          /\ cache'[Original] # {} /\ cache'[Current] # {}
          /\ ~moved => Stored(cache', rows) /\ Stored(cache', report.rows)
      BY <2>1, <2>2, <2>3, PutKeeps DEF CacheFits
    <2>5. QED BY <1>2, <2>1, <2>4 DEF Busy
  <1>12. CASE StoreFails
    <2>1. /\ pc \in Busy /\ Conclude(Log("error")) /\ UNCHANGED <<report, moved>>
          /\ \/ pc = "put" /\ PutCached(Current, found)
             \/ UNCHANGED cache
      BY <1>12 DEF StoreFails, Busy, cacheVars
    <2>2. /\ cache' = [p \in Queries |-> cache'[p]]
          /\ ~moved => Stored(cache', rows) /\ Stored(cache', report.rows)
      <3>1. CASE pc = "put" /\ PutCached(Current, found)
        <4>1. Current \in Queries /\ found # {}
          BY <2>1, <3>1, InHand DEF CacheFits
        <4>2. QED BY <3>1, <4>1, PutKeeps DEF CacheFits
      <3>2. CASE UNCHANGED cache
        BY <3>2 DEF CacheFits
      <3>3. QED BY <2>1, <3>1, <3>2
    <2>3. QED BY <1>2, <2>1, <2>2
  <1>13. CASE Crash
    <2>1. /\ pc' = "off" /\ rows' = <<>> /\ UNCHANGED <<cache, moved>>
          /\ report' = report \/ report'.rows = <<>>
      BY <1>13 DEF Crash, Goto, cacheVars, TornReport
    <2>2. QED BY <1>3, <1>4, <2>1 DEF CacheFits
  <1>14. ASSUME NEW shown, Sanitize(shown)
         PROVE  CacheFits'
    <2>1. /\ pc' = "off" /\ UNCHANGED <<cache, moved, rows>>
          /\ report'.rows = Sanitized(report.rows)
      BY <1>14 DEF Sanitize, cacheVars, runState, Whole
    <2>2. OkRows(Sanitized(report.rows)) \subseteq OkRows(report.rows)
      BY SanitizedAdds DEF RowsFit
    <2>3. QED BY <1>3, <2>1, <2>2 DEF CacheFits, Stored
  <1>15. CASE ImportLocal
    <2>1. /\ cache' = [q \in Queries |-> Imported(q)] /\ moved' /\ pc' = "off"
      BY <1>15 DEF ImportLocal
    <2>2. QED BY <2>1 DEF CacheFits
  <1>16. QED BY <1>5, <1>6, <1>7, <1>8, <1>9, <1>10, <1>11, <1>12, <1>13, <1>14, <1>15
         DEF Next, RunStep, Operator

-------------------------------------------------------------------------------
(* The rows and the jsonl file.                                            *)

\* Queries of the hits of rs.
HitQueries(rs) == {r.query : r \in OkRows(rs)}

\* What is reported, and the hit whose line is written and whose row is not.
Hits ==
  HitQueries(rows) \cup HitQueries(report.rows)
    \cup (IF pc = "mirror" THEN {Current} ELSE {})

\* Queries of the lines that the next append leaves whole.
SafeQueries(lines, end) ==
  LET safe == IF end = "open" THEN Front(lines) ELSE lines
  IN {safe[i].query : i \in DOMAIN safe}

\* Hits without a line that stays.
Lost == Hits \ SafeQueries(local, tail)

\* The line that a file without a clean end will spoil.
Debt(end) == IF end = "clean" THEN 0 ELSE 1

\* No more is lost than there were faults, one of which may still be to come.
LossFits ==
  /\ IsSeq(local)
  /\ tail \in {"clean", "cut", "open"}
  /\ tail = "open" => local # <<>>
  /\ faults \in Nat
  /\ IsFiniteSet(Lost)
  /\ Cardinality(Lost) + Debt(tail) <= faults

\* What becomes of a file, and of its queries, when a line is appended.
LEMMA AppendLoses ==
  ASSUME IsSeq(local), tail \in {"clean", "cut", "open"}, tail = "open" => local # <<>>,
         NEW part \in {"none", "cut", "open", "all"}, Appended(part)
  PROVE  /\ IsSeq(local') /\ tail' \in {"clean", "cut", "open"}
         /\ tail' = "open" => local' # <<>>
         /\ SafeQueries(local, tail) \subseteq SafeQueries(local', tail')
         /\ part = "all" => /\ tail' = "clean"
                            /\ tail = "clean" => Current \in SafeQueries(local', tail')
  <1> DEFINE line == [candidate |-> Candidate, query |-> Current, posts |-> found]
             kept == IF tail = "open" THEN Front(local) ELSE local
  <1>1. PICK S : local \in Seq(S)
    BY DEF IsSeq
  <1>2. IsSeq(kept) /\ SafeQueries(local, tail) = {kept[i].query : i \in DOMAIN kept}
    <2>1. local # <<>> => Front(local) \in Seq(S)
      BY <1>1 DEF Front
    <2>2. QED BY <1>1, <2>1 DEF IsSeq, SafeQueries
  <1>3. line.query = Current
    OBVIOUS
  <1> HIDE DEF line
  <1> DEFINE more == Append(local, line)
  <1>4. /\ more \in Seq(S \cup {line}) /\ more # <<>> /\ Len(more) \in Nat \ {0}
        /\ DOMAIN more = 1..Len(more)
        /\ more[Len(more)] = line
        /\ \A i \in DOMAIN local : i \in DOMAIN more /\ more[i] = local[i]
        /\ SubSeq(more, 1, Len(more) - 1) = local
    <2>1. Len(local) \in Nat /\ DOMAIN local = 1..Len(local)
      BY <1>1
    <2>2. more \in Seq(S \cup {line}) /\ Len(more) = Len(local) + 1 /\ more # <<>>
      BY <1>1
    <2>3. more[Len(local) + 1] = line /\ \A i \in 1..Len(local) : more[i] = local[i]
      BY <1>1
    <2>4. SubSeq(more, 1, Len(local)) = local
      BY <1>1
    <2> HIDE DEF more
    <2>5. QED BY <2>1, <2>2, <2>3, <2>4
  <1> HIDE DEF more
  <1>5. Len(more) \in DOMAIN more
    BY <1>4
  <1>6. \/ part = "none" /\ local' = local /\ tail' = tail
        \/ part = "cut" /\ local' = kept /\ tail' = "cut"
        \/ /\ part = "open"
           /\ local' = IF tail = "clean" THEN more ELSE kept
           /\ tail' = IF tail = "clean" THEN "open" ELSE "cut"
        \/ /\ part = "all"
           /\ local' = IF tail = "clean" THEN more ELSE kept
           /\ tail' = "clean"
    BY DEF Appended, line, more
  <1>7. SafeQueries(kept, "cut") = SafeQueries(local, tail)
        /\ SafeQueries(kept, "clean") = SafeQueries(local, tail)
    <2> HIDE DEF kept
    <2>1. QED BY <1>2 DEF SafeQueries
  <1>8. SafeQueries(more, "open") = SafeQueries(local, "clean")
    BY <1>4 DEF SafeQueries, Front
  <1>9. SafeQueries(local, "clean") \subseteq SafeQueries(more, "clean")
        /\ Current \in SafeQueries(more, "clean")
    BY <1>3, <1>4, <1>5 DEF SafeQueries
  <1>10. IsSeq(more) /\ more # <<>>
    BY <1>4 DEF IsSeq
  <1> HIDE DEF kept
  <1>11. CASE part = "none"
    BY <1>6, <1>11
  <1>12. CASE tail = "clean" /\ part = "open"
    BY <1>6, <1>8, <1>10, <1>12
  <1>13. CASE tail = "clean" /\ part = "all"
    BY <1>6, <1>9, <1>10, <1>13
  <1>14. CASE part # "none" /\ (tail # "clean" \/ part = "cut")
    BY <1>2, <1>6, <1>7, <1>14
  <1>15. QED BY <1>11, <1>12, <1>13, <1>14

\* The row of a name that was found has that name; no other is a hit.
LEMMA OutcomeHits ==
  ASSUME WorkFits, pc \in Busy, IsSeq(rows), NEW kind, Conclude(Log(kind)),
         report' = report
  PROVE  Hits' \subseteq HitQueries(rows) \cup HitQueries(report.rows)
                           \cup (IF kind = "ok" THEN {Current} ELSE {})
  <1>1. pc' # "mirror"
    BY Outcome
  <1>2. HitQueries(rows') \subseteq HitQueries(rows) \cup (IF kind = "ok" THEN {Current} ELSE {})
    <2>1. CASE rows' = rows
      BY <2>1
    <2>2. ASSUME NEW row, rows' = Append(rows, row), row.kind = kind,
                 kind = "ok" => row.query = Current
          PROVE  HitQueries(rows') \subseteq
                   HitQueries(rows) \cup (IF kind = "ok" THEN {Current} ELSE {})
      BY <2>2, AppendAdds DEF HitQueries
    <2>3. QED BY <2>1, <2>2, Outcome
  <1>3. QED BY <1>1, <1>2 DEF Hits

\* A loss of at most one more.
LEMMA OneMore ==
  ASSUME NEW S, IsFiniteSet(S), NEW x, NEW T \in SUBSET (S \cup {x})
  PROVE  /\ IsFiniteSet(T) /\ Cardinality(T) \in Nat /\ Cardinality(S) \in Nat
         /\ Cardinality(T) <= Cardinality(S) + 1
  <1>1. /\ IsFiniteSet(S \cup {x})
        /\ Cardinality(S \cup {x}) = IF x \in S THEN Cardinality(S) ELSE Cardinality(S) + 1
    BY FS_AddElement
  <1>2. IsFiniteSet(T) /\ Cardinality(T) <= Cardinality(S \cup {x})
    BY <1>1, FS_Subset
  <1>3. Cardinality(T) \in Nat /\ Cardinality(S) \in Nat
    BY <1>2, FS_CardinalityType
  <1>4. QED BY <1>1, <1>2, <1>3

\* And of none more.
LEMMA FewerLost ==
  ASSUME LossFits, Lost' \subseteq Lost
  PROVE  /\ IsFiniteSet(Lost') /\ Cardinality(Lost') \in Nat /\ Cardinality(Lost) \in Nat
         /\ Cardinality(Lost') <= Cardinality(Lost)
  <1>1. IsFiniteSet(Lost') /\ Cardinality(Lost') <= Cardinality(Lost)
    BY FS_Subset DEF LossFits
  <1>2. QED BY <1>1, FS_CardinalityType DEF LossFits

\* Every step leaves the losses within the faults.
LEMMA LossStep ==
  ASSUME WorkFits, LossFits, ReportInv, RowsFit, Next
  PROVE  LossFits'
  <1>1. IsSeq(rows) /\ IsSeq(report.rows)
    BY DEF ReportInv
  <1>2. ASSUME UNCHANGED <<local, tail>>, faults' \in {faults, faults + 1},
               Hits' \subseteq Hits
        PROVE  LossFits'
    <2>1. Lost' \subseteq Lost
      BY <1>2 DEF Lost
    <2>2. Debt(tail) \in Nat
      BY DEF Debt
    <2>3. QED BY <1>2, <2>1, <2>2, FewerLost DEF LossFits
  <1>3. ASSUME Fault, NEW part \in {"none", "cut", "open", "all"}, Appended(part),
               Hits' \subseteq Hits
        PROVE  LossFits'
    <2>1. /\ IsSeq(local') /\ tail' \in {"clean", "cut", "open"}
          /\ tail' = "open" => local' # <<>>
          /\ SafeQueries(local, tail) \subseteq SafeQueries(local', tail')
      BY <1>3, AppendLoses DEF LossFits
    <2>2. Lost' \subseteq Lost
      BY <1>3, <2>1 DEF Lost
    <2>3. Debt(tail) \in {0, 1} /\ Debt(tail') \in {0, 1} /\ faults' = faults + 1
      BY <1>3 DEF Debt, Fault
    <2>4. QED BY <2>1, <2>2, <2>3, FewerLost DEF LossFits
  <1>4. ASSUME NEW kind, kind # "ok", pc \in Busy, Conclude(Log(kind)), report' = report
        PROVE  Hits' \subseteq Hits
    BY <1>1, <1>4, OutcomeHits DEF Hits
  <1>5. ASSUME UNCHANGED <<rows, report>>, pc' # "mirror"
        PROVE  Hits' \subseteq Hits
    BY <1>5 DEF Hits
  <1>6. HitQueries(<<>>) = {}
    BY DEF HitQueries, OkRows, ToSet
  <1>7. ASSUME NEW resume \in BOOLEAN, Start(resume)
        PROVE  LossFits'
    <2>1. /\ rows' = IF resume THEN report.rows ELSE <<>>
          /\ UNCHANGED <<local, tail, report, faults>> /\ pc' \in {"finish", "preflight"}
      BY <1>7 DEF Start, Goto, fileState
    <2>2. Hits' \subseteq Hits
      BY <1>6, <2>1 DEF Hits
    <2>3. QED BY <1>2, <2>1, <2>2
  <1>8. CASE Preflight \/ Save \/ Finish
    <2>1. /\ UNCHANGED <<local, tail, rows, faults>>
          /\ report' = report \/ report'.rows = rows
          /\ pc' \in {"search", "stop", "finish", "off"}
      BY <1>8 DEF Preflight, Save, Finish, Goto, runState, Whole, bounds
    <2>2. Hits' \subseteq Hits
      BY <2>1 DEF Hits
    <2>3. QED BY <1>2, <2>1, <2>2
  <1>9. ASSUME NEW raw \in Pages, Search(raw)
        PROVE  LossFits'
    <2>1. pc \in Busy /\ UNCHANGED <<local, tail, report, faults>>
      BY <1>9 DEF Search, Busy, fileState, bounds
    <2>2. \/ pc' = "put" /\ rows' = rows
          \/ \E kind \in {"blank", "skip"} : Conclude(Log(kind))
      BY <1>9 DEF Search, Goto
    <2>3. Hits' \subseteq Hits
      BY <1>4, <1>5, <2>1, <2>2
    <2>4. QED BY <1>2, <2>1, <2>3
  <1>10. ASSUME NEW kind \in {"gated", "error"}, SearchFails(kind)
         PROVE  LossFits'
    <2>1. /\ pc \in Busy /\ Conclude(Log(kind))
          /\ UNCHANGED <<local, tail, report, faults>>
      BY <1>10 DEF SearchFails, Busy, fileState, bounds
    <2>2. QED BY <1>2, <1>4, <2>1
  <1>11. CASE Put
    <2>1. pc' = "append" /\ UNCHANGED <<local, tail, report, rows, faults>>
      BY <1>11 DEF Put, Goto, fileState, runState, bounds
    <2>2. QED BY <1>2, <1>5, <2>1
  <1>12. CASE AppendLocal
    <2>1. /\ pc = "append" /\ Appended("all") /\ UNCHANGED <<report, work, faults>>
      BY <1>12 DEF AppendLocal, bounds
    <2>2. Hits' \subseteq Hits \cup {Current}
      <3>1. CASE Conclude(Log("ok"))
        BY <1>1, <2>1, <3>1, OutcomeHits DEF Busy, Hits
      <3>2. CASE pc' = "mirror" /\ UNCHANGED <<rows, tried>>
        <4>1. Current' = Current
          BY <2>1, <3>2, SameWork DEF Current
        <4>2. QED BY <2>1, <3>2, <4>1 DEF Hits
      <3>3. QED BY <1>12, <3>1, <3>2 DEF AppendLocal, Goto
    <2>3. /\ IsSeq(local') /\ tail' = "clean"
          /\ SafeQueries(local, tail) \subseteq SafeQueries(local', tail')
          /\ tail = "clean" => Current \in SafeQueries(local', tail')
      BY <2>1, AppendLoses DEF LossFits
    <2>4. CASE tail = "clean"
      <3>1. Lost' \subseteq Lost
        BY <2>2, <2>3, <2>4 DEF Lost
      <3>2. Debt(tail) = 0 /\ Debt(tail') = 0
        BY <2>3, <2>4 DEF Debt
      <3>3. QED BY <2>1, <2>3, <3>1, <3>2, FewerLost DEF LossFits
    <2>5. CASE tail # "clean"
      <3>1. Lost' \in SUBSET (Lost \cup {Current})
        BY <2>2, <2>3 DEF Lost
      <3>2. Debt(tail) = 1 /\ Debt(tail') = 0
        BY <2>3, <2>5 DEF Debt
      <3>3. /\ IsFiniteSet(Lost') /\ Cardinality(Lost') \in Nat /\ Cardinality(Lost) \in Nat
            /\ Cardinality(Lost') <= Cardinality(Lost) + 1
        BY <3>1, OneMore DEF LossFits
      <3>4. QED BY <2>1, <2>3, <3>2, <3>3 DEF LossFits
    <2>6. QED BY <2>4, <2>5
  <1>13. CASE Mirror
    <2>1. /\ pc = "mirror" /\ Conclude(Log("ok"))
          /\ UNCHANGED <<local, tail, report, faults>>
      BY <1>13 DEF Mirror, fileState, bounds
    <2>2. Hits' \subseteq Hits
      BY <1>1, <2>1, OutcomeHits DEF Busy, Hits
    <2>3. QED BY <1>2, <2>1, <2>2
  <1>14. CASE StoreFails
    <2>1. pc \in Busy /\ Conclude(Log("error")) /\ Fault /\ report' = report
      BY <1>14 DEF StoreFails, Busy
    <2>2. Hits' \subseteq Hits
      BY <1>4, <2>1
    <2>3. UNCHANGED <<local, tail>> \/ \E part \in {"none", "cut", "open"} : Appended(part)
      BY <1>14 DEF StoreFails
    <2>4. QED BY <1>2, <1>3, <2>1, <2>2, <2>3 DEF Fault
  <1>15. CASE Crash
    <2>1. /\ pc' = "off" /\ rows' = <<>> /\ Fault
          /\ report' = report \/ report'.rows = <<>>
      BY <1>15 DEF Crash, Goto, TornReport
    <2>2. Hits' \subseteq Hits
      BY <1>6, <2>1 DEF Hits
    <2>3. UNCHANGED <<local, tail>> \/ \E part \in {"cut", "open", "all"} : Appended(part)
      BY <1>15 DEF Crash
    <2>4. QED BY <1>2, <1>3, <2>1, <2>2, <2>3 DEF Fault
  <1>16. ASSUME NEW shown, Sanitize(shown)
         PROVE  LossFits'
    <2>1. /\ pc' = "off" /\ UNCHANGED <<local, tail, rows, faults>>
          /\ report'.rows = Sanitized(report.rows)
      BY <1>16 DEF Sanitize, runState, Whole, bounds
    <2>2. HitQueries(report'.rows) \subseteq HitQueries(report.rows)
      BY <2>1, SanitizedAdds DEF HitQueries, RowsFit
    <2>3. Hits' \subseteq Hits
      BY <2>1, <2>2 DEF Hits
    <2>4. QED BY <1>2, <2>1, <2>3
  <1>17. CASE ImportLocal
    <2>1. pc = "off" /\ UNCHANGED <<local, tail, rows, report, faults, pc>>
      BY <1>17 DEF ImportLocal, runState, fileState, bounds
    <2>2. QED BY <1>2, <1>5, <2>1
  <1>18. QED BY <1>7, <1>8, <1>9, <1>10, <1>11, <1>12, <1>13, <1>14, <1>15, <1>16, <1>17
         DEF Next, RunStep, Operator

\* The inductive invariant of a run and its files.
RunInv == ReportInv /\ WorkFits /\ RowsFit /\ CacheFits /\ LossFits

\* It holds.
LEMMA RunFits == Spec => []RunInv
  <1>1. Init => RunInv
    <2>1. SUFFICES ASSUME Init PROVE RunInv
      OBVIOUS
    <2>2. IsSeq(<<>>)
      BY DEF IsSeq
    <2>3. OkRows(<<>>) = {}
      BY DEF OkRows, ToSet
    <2>4. ReportInv
      BY <2>1, <2>2 DEF Init, ReportInv, NoReport
    <2>5. WorkFits
      BY <2>1, <2>2 DEF Init, WorkFits, Busy
    <2>6. CacheFits
      BY <2>1, <2>3 DEF Init, CacheInit, CacheFits, Stored, NoReport
    <2>7. Lost = {}
      BY <2>1, <2>3 DEF Init, NoReport, Lost, Hits, HitQueries
    <2>8. LossFits
      BY <2>1, <2>2, <2>7, FS_EmptySet DEF Init, LossFits, Debt
    <2>9. RowsFit
      BY <2>1 DEF Init, NoReport, RowsFit, HaveKinds
    <2>10. QED BY <2>4, <2>5, <2>6, <2>8, <2>9 DEF RunInv
  <1>2. RunInv /\ [Next]_vars => RunInv'
    <2>1. SUFFICES ASSUME RunInv, [Next]_vars PROVE RunInv'
      OBVIOUS
    <2>2. CASE Next
      BY <2>1, <2>2, ReportStep, WorkStep, RowsStep, CacheStep, LossStep DEF RunInv
    <2>3. CASE UNCHANGED vars
      <3>1. UNCHANGED <<cache, live, report, local, tail, moved, pc, fresh, rows, work, tried,
                        found, faults>>
        BY <2>3 DEF vars
      <3>2. Current' = Current /\ Names' = Names
        BY <3>1, SameWork DEF Current
      <3>3. ReportInv' /\ WorkFits' /\ RowsFit' /\ CacheFits'
        BY <2>1, <3>1, <3>2 DEF RunInv, ReportInv, WorkFits, RowsFit, CacheFits
      <3>4. Lost' = Lost
        BY <3>1, <3>2 DEF Lost, Hits
      <3>5. LossFits'
        BY <2>1, <3>1, <3>4 DEF RunInv, LossFits
      <3>6. QED BY <3>3, <3>5 DEF RunInv
    <2>4. QED BY <2>1, <2>2, <2>3
  <1>3. QED BY <1>1, <1>2, PTL DEF Spec

\* What a resumed run leaves out as found is in the cache, under the name that was tried and
\* under the name of the query file, wherever the process ended.
THEOREM HitsAreCached == Spec => []DoneIsCached
  <1>1. CacheFits => DoneIsCached
    BY DEF CacheFits, Stored, DoneIsCached
  <1>2. QED BY <1>1, RunFits, PTL DEF RunInv

\* Every reported hit has its line in the jsonl file, but for one per fault.
THEOREM LossesAreBounded == Spec => []LossPerFault
  <1>1. LossFits => LossPerFault
    <2>1. SUFFICES ASSUME LossFits PROVE LossPerFault
      OBVIOUS
    <2> DEFINE missing == {r.query : r \in OkRows(report.rows)}
                            \ {local[i].query : i \in DOMAIN local}
    <2>2. SafeQueries(local, tail) \subseteq {local[i].query : i \in DOMAIN local}
      <3>1. PICK S : local \in Seq(S)
        BY <2>1 DEF LossFits, IsSeq
      <3>2. CASE tail = "open"
        <4>1. local # <<>>
          BY <2>1, <3>2 DEF LossFits
        <4>2. \A i \in DOMAIN Front(local) : i \in DOMAIN local /\ Front(local)[i] = local[i]
          BY <3>1, <4>1 DEF Front
        <4>3. QED BY <3>2, <4>2 DEF SafeQueries
      <3>3. CASE tail # "open"
        BY <3>3 DEF SafeQueries
      <3>4. QED BY <3>2, <3>3
    <2>3. missing \in SUBSET Lost
      BY <2>2 DEF Lost, Hits, HitQueries
    <2> HIDE DEF missing
    <2>4. /\ IsFiniteSet(missing) /\ Cardinality(missing) <= Cardinality(Lost)
          /\ Cardinality(missing) \in Nat /\ Cardinality(Lost) \in Nat
      BY <2>1, <2>3, FS_Subset, FS_CardinalityType DEF LossFits
    <2>5. Debt(tail) \in Nat /\ faults \in Nat /\ Cardinality(Lost) + Debt(tail) <= faults
      BY <2>1 DEF LossFits, Debt
    <2>6. Cardinality(missing) <= faults
      BY <2>4, <2>5
    <2>7. QED BY <2>6 DEF LossPerFault, missing
  <1>2. QED BY <1>1, RunFits, PTL DEF RunInv

-------------------------------------------------------------------------------
(* The gap file.                                                           *)

\* What the loop has after n rows, from what it had before.
GapsBody(g, n) == IF n = 0 THEN {} ELSE TakeGap(g[n - 1], Items[n].candidate)

\* There is such a function: the one for m rows goes on for another.
LEMMA GapsExist ==
  ASSUME NEW m \in Nat
  PROVE  \E g : g = [n \in 0..m |-> GapsBody(g, n)]
  <1> DEFINE Good(k) == \E g : g = [n \in 0..k |-> GapsBody(g, n)]
             B == {k \in Nat : ~Good(k)}
  <1>1. Good(0)
    <2> DEFINE g == [n \in 0..0 |-> {}]
    <2>1. \A n \in 0..0 : GapsBody(g, n) = {}
      BY DEF GapsBody
    <2>2. g = [n \in 0..0 |-> GapsBody(g, n)]
      BY <2>1
    <2>3. QED BY <2>2
  <1>2. ASSUME NEW k \in Nat, Good(k)
        PROVE  Good(k + 1)
    <2>1. PICK g : g = [n \in 0..k |-> GapsBody(g, n)]
      BY <1>2
    <2> DEFINE h == [n \in 0..(k + 1) |-> IF n = k + 1 THEN GapsBody(g, n) ELSE g[n]]
    <2>2. ASSUME NEW n \in 0..(k + 1)
          PROVE  h[n] = GapsBody(h, n)
      <3>1. CASE n = 0
        <4>1. h[0] = g[0] /\ g[0] = GapsBody(g, 0)
          BY <2>1, <3>1
        <4>2. QED BY <3>1, <4>1 DEF GapsBody
      <3>2. CASE n # 0
        <4>1. n - 1 \in 0..k /\ n - 1 # k + 1
          BY <3>2
        <4>2. h[n - 1] = g[n - 1]
          BY <4>1
        <4>3. h[n] = GapsBody(g, n)
          <5>1. CASE n = k + 1
            BY <5>1
          <5>2. CASE n # k + 1
            <6>1. n \in 0..k
              BY <5>2
            <6>2. QED BY <2>1, <5>2, <6>1
          <5>3. QED BY <5>1, <5>2
        <4> HIDE DEF h
        <4>4. QED BY <3>2, <4>2, <4>3 DEF GapsBody
      <3>3. QED BY <3>1, <3>2
    <2>3. h = [n \in 0..(k + 1) |-> h[n]]
      OBVIOUS
    <2>4. h = [n \in 0..(k + 1) |-> GapsBody(h, n)]
      <3> HIDE DEF h
      <3>1. QED BY <2>2, <2>3
    <2>5. QED BY <2>4
  <1> HIDE DEF Good
  <1>3. B = {}
    <2>1. SUFFICES ASSUME B # {} PROVE FALSE
      OBVIOUS
    <2>2. PICK l \in B : \A k \in B : l <= k
      BY <2>1, LeastNatural
    <2>3. l # 0 /\ l \in Nat
      BY <1>1
    <2>4. l - 1 \in Nat /\ ~(l <= l - 1)
      BY <2>3
    <2>5. Good(l - 1)
      BY <2>2, <2>4
    <2>6. Good((l - 1) + 1)
      BY <1>2, <2>4, <2>5
    <2>7. (l - 1) + 1 = l
      BY <2>3
    <2>8. QED BY <2>6, <2>7
  <1>4. QED BY <1>3 DEF Good

LEMMA ItemsCounted ==
  /\ Len(Items) \in Nat /\ DOMAIN Items = 1..Len(Items)
  BY PrewarmConstants DEF PrewarmConstants

\* The loop, row by row.
LEMMA GapsStep ==
  /\ GapsAfter[0] = {}
  /\ \A n \in 1..Len(Items) : GapsAfter[n] = TakeGap(GapsAfter[n - 1], Items[n].candidate)
  <1> DEFINE N == Len(Items)
  <1>1. N \in Nat
    BY ItemsCounted
  <1>2. \E g : g = [n \in 0..N |-> GapsBody(g, n)]
    BY <1>1, GapsExist
  <1>3. GapsAfter = [n \in 0..N |-> GapsBody(GapsAfter, n)]
    BY <1>2 DEF GapsAfter, GapsBody
  <1> HIDE DEF N
  <1>4. 0 \in 0..N /\ \A n \in 1..N : n \in 0..N /\ n # 0
    BY <1>1
  <1>5. QED BY <1>3, <1>4 DEF GapsBody, N

Ranks == [1..6 -> Int]

\* The order of ranks.
LEMMA BetterOrders ==
  ASSUME NEW a \in Ranks, NEW b \in Ranks, NEW c \in Ranks
  PROVE  ~Better(a, a) /\ (Better(a, b) /\ Better(b, c) => Better(a, c))
  <1>1. ~Better(a, a)
    <2>1. \A i \in 1..6 : ~(a[i] < a[i])
      BY DEF Ranks
    <2>2. QED BY <2>1 DEF Better, Ranks
  <1>2. ASSUME Better(a, b), Better(b, c)
        PROVE  Better(a, c)
    <2>1. PICK i \in 1..6 : a[i] < b[i] /\ \A l \in 1..(i - 1) : a[l] = b[l]
      BY <1>2 DEF Better, Ranks
    <2>2. PICK j \in 1..6 : b[j] < c[j] /\ \A l \in 1..(j - 1) : b[l] = c[l]
      BY <1>2 DEF Better, Ranks
    <2>3. PICK k \in 1..6 : k <= i /\ k <= j /\ (k = i \/ k = j)
      <3>1. CASE i <= j
        BY <3>1
      <3>2. CASE j <= i
        BY <3>2
      <3>3. QED BY <3>1, <3>2
    <2>4. \A l \in 1..(k - 1) : l \in 1..(i - 1) /\ l \in 1..(j - 1)
      BY <2>3
    <2>5. \A l \in 1..(k - 1) : a[l] = c[l]
      BY <2>1, <2>2, <2>4
    <2>6. a[k] \in Int /\ b[k] \in Int /\ c[k] \in Int
      BY DEF Ranks
    <2>7. a[k] < c[k]
      <3>1. CASE k = i /\ k = j
        BY <2>1, <2>2, <2>6, <3>1
      <3>2. CASE k = i /\ k # j
        <4>1. k \in 1..(j - 1)
          BY <2>3, <3>2
        <4>2. QED BY <2>1, <2>2, <3>2, <4>1
      <3>3. CASE k = j /\ k # i
        <4>1. k \in 1..(i - 1)
          BY <2>3, <3>3
        <4>2. QED BY <2>1, <2>2, <3>3, <4>1
      <3>4. QED BY <2>3, <3>1, <3>2, <3>3
    <2>8. QED BY <2>5, <2>7 DEF Better, Ranks
  <1>3. QED BY <1>1, <1>2

\* The rows that the loop has read.
Read(n) == {Items[i].candidate : i \in 1..n}

\* One row for each place of R that is not covered, and the best one.
OneEach(G, R) ==
  /\ G \subseteq R
  /\ \A c \in R : \E d \in Covered \cup G : Key[d] = Key[c]
  /\ \A c, d \in G : Key[c] = Key[d] => c = d
  /\ \A c \in G, d \in Covered : Key[c] # Key[d]
  /\ \A c \in G, d \in R : Key[c] = Key[d] => ~Better(GapRank(d), GapRank(c))

\* It stays so when the loop takes a row.
LEMMA TakeFits ==
  ASSUME NEW R, NEW G, NEW c, OneEach(G, R),
         \A d \in (R \cup {c}) \ Covered : GapRank(d) \in Ranks
  PROVE  OneEach(TakeGap(G, c), R \cup {c})
  <1> DEFINE T == TakeGap(G, c)
             S == R \cup {c}
             rivals == {d \in G : Key[d] = Key[c]}
  <1> USE DEF OneEach
  <1>1. CASE \E d \in Covered : Key[d] = Key[c]
    <2>1. T = G
      BY <1>1 DEF TakeGap
    <2>2. \A d \in G : Key[d] # Key[c]
      BY <1>1
    <2>3. OneEach(G, S)
      BY <1>1, <2>2
    <2>4. QED BY <2>1, <2>3
  <1>2. CASE /\ ~\E d \in Covered : Key[d] = Key[c]
             /\ \E d \in rivals : ~Better(GapRank(c), GapRank(d))
    <2>1. T = G
      BY <1>2 DEF TakeGap
    <2>2. PICK d \in rivals : ~Better(GapRank(c), GapRank(d))
      BY <1>2
    <2>3. OneEach(G, S)
      BY <2>2
    <2>4. QED BY <2>1, <2>3
  <1>3. CASE /\ ~\E d \in Covered : Key[d] = Key[c]
             /\ \A d \in rivals : Better(GapRank(c), GapRank(d))
    <2>1. c \notin Covered
      BY <1>3
    <2> DEFINE H == (G \ rivals) \cup {c}
    <2>2. T = H
      BY <1>3, <2>1 DEF TakeGap
    <2>3. \A e \in R : Key[e] = Key[c] => \E d \in rivals : Key[d] = Key[e]
      BY <1>3
    <2>4. \A e \in R : Key[e] = Key[c] => ~Better(GapRank(e), GapRank(c))
      <3>1. SUFFICES ASSUME NEW e \in R, Key[e] = Key[c], Better(GapRank(e), GapRank(c))
                     PROVE  FALSE
        OBVIOUS
      <3>2. PICK d \in rivals : Key[d] = Key[e]
        BY <2>3, <3>1
      <3>3. Better(GapRank(c), GapRank(d)) /\ ~Better(GapRank(e), GapRank(d))
        BY <1>3, <3>1, <3>2
      <3>4. GapRank(e) \in Ranks /\ GapRank(c) \in Ranks /\ GapRank(d) \in Ranks
        <4>1. e \notin Covered /\ c \notin Covered /\ d \notin Covered
          BY <1>3, <3>1, <3>2
        <4>2. e \in S /\ c \in S /\ d \in S
          BY <3>1, <3>2
        <4>3. QED BY <4>1, <4>2
      <3>5. QED BY <3>1, <3>3, <3>4, BetterOrders
    <2>5. ~Better(GapRank(c), GapRank(c))
      BY <2>1, BetterOrders
    <2>6. \A d \in S : \E e \in Covered \cup H : Key[e] = Key[d]
      OBVIOUS
    <2>7. \A d \in H, e \in S : Key[d] = Key[e] => ~Better(GapRank(e), GapRank(d))
      BY <2>4, <2>5
    <2>8. \A d \in H, e \in Covered : Key[d] # Key[e]
      BY <1>3
    <2>9. H \subseteq S /\ \A d, e \in H : Key[d] = Key[e] => d = e
      OBVIOUS
    <2>10. OneEach(H, S)
      BY <2>6, <2>7, <2>8, <2>9
    <2>11. QED BY <2>2, <2>10
  <1>4. QED BY <1>1, <1>2, <1>3

GapsFit(n) == OneEach(GapsAfter[n], Read(n))

\* It has it after every row.
LEMMA GapsFitAll ==
  ASSUME \A c \in CandidateSet \ Covered : GapRank(c) \in Ranks
  PROVE  GapsFit(Len(Items))
  <1> DEFINE N == Len(Items)
             B == {n \in 0..N : ~GapsFit(n)}
  <1>1. N \in Nat /\ DOMAIN Items = 1..N
    BY ItemsCounted
  <1>2. GapsFit(0)
    BY GapsStep DEF GapsFit, Read, OneEach
  <1>3. ASSUME NEW n \in 1..N, GapsFit(n - 1)
        PROVE  GapsFit(n)
    <2> DEFINE c == Items[n].candidate
               G == GapsAfter[n - 1]
               R == Read(n - 1)
    <2>1. GapsAfter[n] = TakeGap(G, c)
      BY GapsStep
    <2>2. Read(n) = R \cup {c}
      <3>1. 1..n = (1..(n - 1)) \cup {n}
        OBVIOUS
      <3>2. QED BY <3>1 DEF Read
    <2>3. R \cup {c} \subseteq CandidateSet
      <3>1. 1..n \subseteq 1..N
        BY <1>1
      <3>2. QED BY <1>1, <2>2, <3>1 DEF Read, CandidateSet
    <2>4. \A d \in (R \cup {c}) \ Covered : GapRank(d) \in Ranks
      BY <2>3
    <2> HIDE DEF c, R, N, G
    <2>5. OneEach(G, R)
      BY <1>3 DEF GapsFit, R, G
    <2>6. OneEach(TakeGap(G, c), R \cup {c})
      BY <2>4, <2>5, TakeFits
    <2>7. QED BY <2>1, <2>2, <2>6 DEF GapsFit
  <1>4. B = {}
    <2>1. SUFFICES ASSUME B # {} PROVE FALSE
      OBVIOUS
    <2>2. B \in SUBSET Nat
      OBVIOUS
    <2>3. PICK l \in B : \A k \in B : l <= k
      BY <2>1, <2>2, LeastNatural
    <2> HIDE DEF N
    <2>4. l \in 0..N /\ ~GapsFit(l)
      OBVIOUS
    <2>5. l # 0
      BY <1>2, <2>4
    <2>6. l \in 1..N /\ l - 1 \in 0..N /\ ~(l <= l - 1)
      BY <1>1, <2>4, <2>5
    <2>7. GapsFit(l - 1)
      BY <2>3, <2>6
    <2>8. QED BY <1>3, <2>4, <2>6, <2>7
  <1>5. N \in 0..N
    BY <1>1
  <1> HIDE DEF N
  <1>6. QED BY <1>4, <1>5 DEF N

\* A run stores what a page showed.
PostsFit ==
  /\ found \subseteq Posts
  /\ \A i \in DOMAIN local : local[i].posts \subseteq Posts

\* An appended line has the posts of the run, and the others are kept.
LEMMA AppendFits ==
  ASSUME PostsFit, LossFits, NEW part \in {"none", "cut", "open", "all"}, Appended(part)
  PROVE  \A i \in DOMAIN local' : local'[i].posts \subseteq Posts
  <1> DEFINE line == [candidate |-> Candidate, query |-> Current, posts |-> found]
             more == Append(local, line)
             Lines == {l \in {local[i] : i \in DOMAIN local} \cup {line} : l.posts \subseteq Posts}
  <1>1. local \in Seq(Lines)
    <2>1. PICK S : local \in Seq(S)
      BY DEF LossFits, IsSeq
    <2>2. \A i \in DOMAIN local : local[i] \in Lines
      BY DEF PostsFit
    <2> HIDE DEF Lines
    <2>3. QED BY <2>1, <2>2
  <1>2. line \in Lines
    BY DEF PostsFit
  <1>3. local' \in {local, more} \/ (tail = "open" /\ local' = Front(local))
    BY DEF Appended
  <1>4. \A l \in Lines : l.posts \subseteq Posts
    OBVIOUS
  <1> HIDE DEF line, Lines
  <1>5. more \in Seq(Lines)
    BY <1>1, <1>2
  <1>6. tail = "open" => Front(local) \in Seq(Lines)
    <2>1. tail = "open" => local # <<>>
      BY DEF LossFits
    <2>2. QED BY <1>1, <2>1 DEF Front
  <1> HIDE DEF more
  <1>7. local' \in Seq(Lines)
    BY <1>1, <1>3, <1>5, <1>6
  <1>8. QED BY <1>4, <1>7

\* It stays so.
LEMMA PostsStep ==
  ASSUME PostsFit, LossFits, [Next]_vars
  PROVE  PostsFit'
  <1>1. \/ UNCHANGED local
        \/ \E part \in {"none", "cut", "open", "all"} : Appended(part)
    BY DEF Next, RunStep, Operator, Start, Preflight, Search, SearchFails, Put, AppendLocal,
           Mirror, Save, Finish, StoreFails, Crash, Sanitize, ImportLocal, fileState, vars
  <1>2. \A i \in DOMAIN local' : local'[i].posts \subseteq Posts
    BY <1>1, AppendFits DEF PostsFit
  <1>3. \/ found' \in {found, {}}
        \/ \E raw \in Pages : found' = Usable(raw)
    BY DEF Next, RunStep, Operator, Start, Preflight, Search, SearchFails, Put, AppendLocal,
           Mirror, Save, Finish, StoreFails, Crash, Sanitize, ImportLocal, runState, vars
  <1>4. \A raw \in Pages : Usable(raw) \subseteq Posts
    BY PrewarmConstants
       DEF PrewarmConstants, Usable, WithLocalImages, ForCandidate, Authentic, TextUsable
  <1>5. found' \subseteq Posts
    BY <1>3, <1>4 DEF PostsFit
  <1>6. QED BY <1>2, <1>5 DEF PostsFit

\* The rank of a candidate that is not covered is six numbers.
LEMMA RanksAreNumbers ==
  ASSUME PostsFit, IsSeq(report.rows), NEW c \in CandidateSet \ Covered
  PROVE  GapRank(c) \in Ranks
  <1>1. \A kinds : Cardinality(RowsOf(c, kinds)) \in Nat
    <2>1. PICK S : report.rows \in Seq(S)
      BY DEF IsSeq
    <2> DEFINE n == Len(report.rows)
    <2>2. n \in Nat /\ DOMAIN report.rows = 1..n
      BY <2>1
    <2> HIDE DEF n
    <2>3. IsFiniteSet(1..n)
      BY <2>2, FS_Interval
    <2>4. TAKE kinds
    <2>5. RowsOf(c, kinds) \in SUBSET (1..n)
      BY <2>2 DEF RowsOf
    <2>6. QED BY <2>3, <2>5, FS_Subset, FS_CardinalityType
  <1>2. RelevantPosts(c) \in SUBSET Posts
    <2>1. SUFFICES ASSUME NEW p \in RelevantPosts(c) PROVE p \in Posts
      OBVIOUS
    <2>2. PICK i \in DOMAIN local :
            p \in ForCandidate(local[i].posts, Terms[<<c, local[i].query>>],
                               City[local[i].query])
      BY <2>1 DEF RelevantPosts
    <2>3. p \in local[i].posts
      BY <2>2 DEF ForCandidate
    <2>4. QED BY <2>3 DEF PostsFit
  <1>3. IsFiniteSet(Posts)
    BY PrewarmConstants DEF PrewarmConstants
  <1>4. Cardinality(RelevantPosts(c)) \in Nat
    BY <1>2, <1>3, FS_Subset, FS_CardinalityType
  <1>5. Images(RelevantPosts(c)) \in Nat
    <2>1. {p \in RelevantPosts(c) : p.image # "none"} \in SUBSET Posts
      BY <1>2
    <2>2. QED BY <1>3, <2>1, FS_Subset, FS_CardinalityType DEF Images
  <1>6. StatusRank[Coverage(c)] \in Int
    <2>1. Coverage(c) \in {"partial", "no_usable_authentic_posts", "error", "untouched"}
      <3>1. Coverage(c) # "covered"
        BY DEF Covered
      <3>2. QED BY <3>1 DEF Coverage
    <2> HIDE DEF Coverage
    <2>2. StatusRank.partial \in Int /\ StatusRank.untouched \in Int
          /\ StatusRank.no_usable_authentic_posts \in Int /\ StatusRank.error \in Int
      BY DEF StatusRank
    <2>3. QED BY <2>1, <2>2
  <1>7. QED BY <1>1, <1>4, <1>5, <1>6 DEF GapRank, Ranks

\* The posts of a run and of its file are posts.
LEMMA PostsAlwaysFit == Spec => [](PostsFit /\ RunInv)
  <1>1. Init => PostsFit
    BY DEF Init, PostsFit
  <1>2. RunInv => LossFits
    BY DEF RunInv
  <1>3. QED BY <1>1, <1>2, PostsStep, RunFits, PTL DEF Spec

\* The gap file forgets no place, names none twice and none that is covered, and names each by
\* its best row, whatever the report and the jsonl file hold.
THEOREM GapsAreBest == Spec => []GapsKeepEveryPlace
  <1>1. PostsFit /\ RunInv => GapsKeepEveryPlace
    <2>1. SUFFICES ASSUME PostsFit, RunInv PROVE GapsKeepEveryPlace
      OBVIOUS
    <2>2. \A c \in CandidateSet \ Covered : GapRank(c) \in Ranks
      BY <2>1, RanksAreNumbers DEF RunInv, ReportInv
    <2>3. GapsFit(Len(Items))
      BY <2>2, GapsFitAll
    <2>4. Read(Len(Items)) = CandidateSet
      BY ItemsCounted DEF Read, CandidateSet
    <2>5. OneEach(Gaps, CandidateSet)
      BY <2>3, <2>4 DEF GapsFit, Gaps
    <2>6. QED BY <2>5 DEF OneEach, GapsKeepEveryPlace
  <1>2. QED BY <1>1, PostsAlwaysFit, PTL

-------------------------------------------------------------------------------
(* Types.                                                                  *)

\* The candidates of the query file.
Cands == {p[1] : p \in Pairs}

\* The types of the files, of the run and of its bounds.
RunTypes ==
  /\ report \in [state : {"none", "torn", "whole"}, rows : Seq(Row)]
  /\ rows \in Seq(Row)
  /\ tried \in Seq(Attempt)
  /\ pc \in Busy \cup {"off", "preflight", "save", "stop", "finish"}
  /\ fresh \in BOOLEAN

\* The types of the jsonl file.
LinesTyped ==
  /\ local \in Seq(Line)
  /\ tail \in {"clean", "cut", "open"}
  /\ moved \in BOOLEAN

\* A run that goes on has not reached its limit of failures.
Counts ==
  /\ failures \in 0..MaxFailures
  /\ pc \in Busy \cup {"preflight", "save"} => failures < MaxFailures
  /\ starts \in 0..MaxStarts
  /\ faults \in 0..MaxFaults

\* No list is a list of anything.
LEMMA EmptyTyped == \A S : <<>> \in Seq(S)
  OBVIOUS

\* The candidate in hand is one of the file.
LEMMA CandInHand ==
  ASSUME WorkFits, pc \in Busy
  PROVE  Candidate \in Cands
  <1>1. First \in Places /\ Original \in Queries
    BY FirstIsLeft DEF WorkFits
  <1>2. First[1] \in DOMAIN Items
    BY <1>1 DEF Places
  <1>3. <<Candidate, Original>> \in Pairs
    BY <1>1, <1>2 DEF Pairs, Candidate
  <1> DEFINE p == <<Candidate, Original>>
  <1>4. p[1] = Candidate
    OBVIOUS
  <1>5. QED BY <1>3, <1>4 DEF Cands

\* What comes of a name is a row or another attempt.
LEMMA OutcomeTyped ==
  ASSUME WorkFits, pc \in Busy, RunTypes, NEW kind \in AttemptKinds, Conclude(Log(kind))
  PROVE  rows' \in Seq(Row) /\ tried' \in Seq(Attempt) /\ pc' \in {"save", "search"}
  <1> DEFINE new == [query |-> Current, kind |-> kind]
             log == Log(kind)
  <1>1. Current \in Queries /\ Original \in Queries /\ Candidate \in Cands
    BY InHand, CandInHand
  <1>2. new \in Attempt
    BY <1>1 DEF Attempt
  <1>3. log = Append(tried, new)
    BY DEF Log
  <1> HIDE DEF new, log
  <1>4. log \in Seq(Attempt) /\ log[Len(log)] = new
    BY <1>2, <1>3 DEF RunTypes
  <1>5. new.query = Current /\ new.kind = kind
    BY DEF new
  <1>6. ResultRow(log) \in Row
    <2>1. kind \in RowKinds
      BY DEF RowKinds
    <2>2. ResultRow(log) = [candidate |-> Candidate,
                            query |-> IF kind \in {"ok", "error"} THEN Current ELSE Original,
                            original |-> Original, kind |-> kind, attempts |-> log]
      BY <1>4, <1>5 DEF ResultRow
    <2>3. QED BY <1>1, <1>4, <2>1, <2>2 DEF Row, Cands
  <1>7. \/ rows' = Append(rows, ResultRow(log)) /\ tried' = <<>> /\ pc' = "save"
        \/ rows' = rows /\ tried' = log /\ pc' = "search"
    BY DEF Conclude, Goto, log
  <1>8. rows \in Seq(Row) /\ tried \in Seq(Attempt)
    BY DEF RunTypes
  <1>9. Append(rows, ResultRow(log)) \in Seq(Row)
    BY <1>6, <1>8
  <1>10. QED BY <1>4, <1>7, <1>8, <1>9, EmptyTyped

\* A row of the gate is a row.
LEMMA GateTyped ==
  ASSUME NEW r \in Row
  PROVE  [r EXCEPT !.kind = "gate"] \in Row
  BY DEF Row, RowKinds

\* Sanitising makes rows of rows.
LEMMA SanitizedTyped ==
  ASSUME NEW rs \in Seq(Row)
  PROVE  Sanitized(rs) \in Seq(Row)
  <1>1. \A i \in DOMAIN rs : rs[i] \in Row /\ [rs[i] EXCEPT !.kind = "gate"] \in Row
    BY GateTyped
  <1>2. \A i \in 1..Len(rs) : Sanitized(rs)[i] \in Row
    <2>1. TAKE i \in 1..Len(rs)
    <2> DEFINE gate == [rs[i] EXCEPT !.kind = "gate"]
    <2>2. Sanitized(rs)[i] = gate \/ Sanitized(rs)[i] = rs[i]
      BY DEF Sanitized
    <2>3. gate \in Row /\ rs[i] \in Row
      BY <1>1
    <2> HIDE DEF gate
    <2>4. QED BY <2>2, <2>3
  <1>3. Sanitized(rs) = [i \in 1..Len(rs) |-> Sanitized(rs)[i]]
    BY DEF Sanitized
  <1>4. QED BY <1>2, <1>3

\* A line of the run is a line.
LEMMA AppendTyped ==
  ASSUME WorkFits, LossFits, PostsFit, LinesTyped, pc \in Busy,
         NEW part \in {"none", "cut", "open", "all"}, Appended(part)
  PROVE  local' \in Seq(Line) /\ tail' \in {"clean", "cut", "open"}
  <1> DEFINE line == [candidate |-> Candidate, query |-> Current, posts |-> found]
             more == Append(local, line)
  <1>1. line \in Line
    BY InHand, CandInHand DEF Line, PostsFit, Cands
  <1>2. /\ local' \in {local, more} \/ (tail = "open" /\ local' = Front(local))
        /\ tail' \in {tail, "clean", "cut", "open"}
    BY DEF Appended
  <1> HIDE DEF line
  <1>3. more \in Seq(Line)
    BY <1>1 DEF LinesTyped
  <1>4. tail = "open" => Front(local) \in Seq(Line)
    <2>1. tail = "open" => local # <<>>
      BY DEF LossFits
    <2>2. QED BY <2>1 DEF LinesTyped, Front
  <1> HIDE DEF more
  <1>5. QED BY <1>2, <1>3, <1>4 DEF LinesTyped

\* The last line of a query is a line.
LEMMA ImportedPosts ==
  ASSUME LinesTyped, NEW q \in Queries
  PROVE  Imported(q) \in SUBSET Posts
  <1> DEFINE Passes(l) == l.query = q /\ ForCandidate(Authentic(l.posts),
                                           Terms[<<l.candidate, q>>], City[q]) # {}
             lines == {i \in DOMAIN local : Passes(local[i])}
             over == {n \in Nat : \A i \in lines : i <= n}
  <1>1. lines \in SUBSET (1..Len(local)) /\ Len(local) \in Nat
    BY DEF LinesTyped
  <1>2. Imported(q) = IF lines = {} THEN {} ELSE local[Max(lines)].posts
    BY DEF Imported
  <1> HIDE DEF lines
  <1>3. ASSUME lines # {} PROVE Max(lines) \in lines
    <2>1. Len(local) \in over
      BY <1>1
    <2>2. PICK m \in over : \A n \in over : m <= n
      BY <2>1, LeastNatural
    <2>3. m \in lines
      <3>1. SUFFICES ASSUME m \notin lines PROVE FALSE
        OBVIOUS
      <3>2. \A i \in lines : i \in Nat /\ i > 0 /\ i < m
        BY <1>1, <2>2, <3>1
      <3>3. m - 1 \in over
        BY <1>3, <2>2, <3>2
      <3>4. QED BY <2>2, <3>3
    <2>4. \A i \in lines : m >= i
      BY <1>1, <2>2
    <2>5. QED BY <2>3, <2>4 DEF Max
  <1>4. ASSUME lines # {} PROVE local[Max(lines)].posts \in SUBSET Posts
    <2> DEFINE k == Max(lines)
    <2>0. k \in 1..Len(local) /\ local \in Seq(Line)
      BY <1>1, <1>3, <1>4 DEF LinesTyped
    <2> HIDE DEF k
    <2>1. local[k] \in Line
      BY <2>0
    <2>2. \A l \in Line : l.posts \in SUBSET Posts
      BY DEF Line
    <2>3. QED BY <2>1, <2>2 DEF k
  <1>5. QED BY <1>2, <1>4

\* The rows of the run and of the report keep their types.
LEMMA RunTyped ==
  ASSUME WorkFits, RunTypes, Next
  PROVE  RunTypes'
  <1>1. ASSUME NEW kind \in AttemptKinds, pc \in Busy, Conclude(Log(kind)),
               UNCHANGED <<report, fresh>>
        PROVE  RunTypes'
    BY <1>1, OutcomeTyped DEF RunTypes, Busy
  <1>2. ASSUME pc' \in Busy \cup {"off", "preflight", "save", "stop", "finish"},
               UNCHANGED fresh, rows' \in {rows, <<>>}, tried' \in {tried, <<>>},
               report' \in {report, Whole(rows), TornReport}
        PROVE  RunTypes'
    <2>1. TornReport \in [state : {"none", "torn", "whole"}, rows : Seq(Row)]
      BY EmptyTyped DEF TornReport
    <2>2. Whole(rows) \in [state : {"none", "torn", "whole"}, rows : Seq(Row)]
      BY DEF Whole, RunTypes
    <2>3. QED BY <1>2, <2>1, <2>2, EmptyTyped DEF RunTypes
  <1>3. AttemptKinds = {"ok", "blank", "skip", "gated", "error"}
    BY DEF AttemptKinds
  <1>4. ASSUME NEW resume \in BOOLEAN, Start(resume) PROVE RunTypes'
    <2>1. rows' \in {report.rows, <<>>} /\ tried' = <<>> /\ pc' \in {"finish", "preflight"}
          /\ fresh' = ~resume /\ report' = report
      BY <1>4 DEF Start, Goto, fileState
    <2>2. QED BY <2>1, EmptyTyped DEF RunTypes
  <1>5. CASE Preflight
    BY <1>2, <1>5 DEF Preflight, Goto, runState, Busy
  <1>6. ASSUME NEW raw \in Pages, Search(raw) PROVE RunTypes'
    <2>1. CASE Conclude(Log(IF raw = {} THEN "blank" ELSE "skip"))
      BY <1>1, <1>3, <1>6, <2>1 DEF Search, fileState, Busy
    <2>2. CASE pc' = "put" /\ UNCHANGED <<rows, tried>>
      BY <1>2, <1>6, <2>2 DEF Search, fileState, Busy
    <2>3. QED BY <1>6, <2>1, <2>2 DEF Search, Goto
  <1>7. ASSUME NEW kind \in {"gated", "error"}, SearchFails(kind) PROVE RunTypes'
    BY <1>1, <1>3, <1>7 DEF SearchFails, fileState, Busy
  <1>8. CASE Put
    BY <1>2, <1>8 DEF Put, Goto, fileState, runState, Busy
  <1>9. CASE AppendLocal
    <2>1. CASE Conclude(Log("ok"))
      BY <1>1, <1>3, <1>9, <2>1 DEF AppendLocal, Busy
    <2>2. CASE pc' = "mirror" /\ UNCHANGED <<rows, tried>>
      BY <1>2, <1>9, <2>2 DEF AppendLocal, Busy
    <2>3. QED BY <1>9, <2>1, <2>2 DEF AppendLocal, Goto
  <1>10. CASE Mirror
    BY <1>1, <1>3, <1>10 DEF Mirror, fileState, Busy
  <1>11. CASE Save
    BY <1>2, <1>11 DEF Save, Goto, Busy
  <1>12. CASE Finish
    BY <1>2, <1>12 DEF Finish, Goto
  <1>13. CASE StoreFails
    BY <1>1, <1>3, <1>13 DEF StoreFails, Busy
  <1>14. CASE Crash
    BY <1>2, <1>14 DEF Crash, Goto
  <1>15. ASSUME NEW page, Sanitize(page) PROVE RunTypes'
    <2>1. report' = Whole(Sanitized(report.rows)) /\ UNCHANGED <<pc, fresh, rows, tried>>
      BY <1>15 DEF Sanitize, runState
    <2>2. Sanitized(report.rows) \in Seq(Row)
      BY SanitizedTyped DEF RunTypes
    <2>3. QED BY <2>1, <2>2 DEF RunTypes, Whole
  <1>16. CASE ImportLocal
    BY <1>2, <1>16 DEF ImportLocal, fileState, runState, RunTypes
  <1>17. QED
    BY <1>4, <1>5, <1>6, <1>7, <1>8, <1>9, <1>10, <1>11, <1>12, <1>13, <1>14, <1>15, <1>16
    DEF Next, RunStep, Operator

\* So do the lines of the file.
LEMMA LinesStep ==
  ASSUME WorkFits, LossFits, PostsFit, LinesTyped, Next
  PROVE  LinesTyped'
  <1>1. moved' \in BOOLEAN
    BY DEF Next, RunStep, Operator, Start, Preflight, Search, SearchFails, Put, AppendLocal,
           Mirror, Save, Finish, StoreFails, Crash, Sanitize, ImportLocal, LinesTyped
  <1>2. \/ UNCHANGED <<local, tail>>
        \/ pc = "append" /\ \E part \in {"none", "cut", "open", "all"} : Appended(part)
    BY DEF Next, RunStep, Operator, Start, Preflight, Search, SearchFails, Put, AppendLocal,
           Mirror, Save, Finish, StoreFails, Crash, Sanitize, ImportLocal, fileState
  <1>3. QED BY <1>1, <1>2, AppendTyped DEF LinesTyped, Busy

\* So does the cache: what a run puts there is not empty.
LEMMA CacheTyped ==
  ASSUME WorkFits, CacheFits, PostsFit, LinesTyped, CacheTypeOK, Next
  PROVE  CacheTypeOK'
  <1>1. CASE UNCHANGED cacheVars
    BY <1>1 DEF CacheTypeOK, cacheVars
  <1>2. ASSUME NEW q \in Queries, NEW posts \in SUBSET Posts, posts # {}, PutCached(q, posts)
        PROVE  CacheTypeOK'
    BY <1>2 DEF PutCached, CacheTypeOK
  <1>3. CASE pc = "put" /\ PutCached(Current, found)
    BY <1>2, <1>3, InHand DEF CacheFits, PostsFit, Busy
  <1>4. CASE pc = "mirror" /\ GetCached(Current) # {} /\ PutCached(Original, GetCached(Current))
    <2>1. Current \in Queries /\ Original \in Queries
      BY <1>4, InHand DEF Busy
    <2>2. GetCached(Current) \in SUBSET Posts
      BY <2>1 DEF GetCached, CacheTypeOK
    <2>3. QED BY <1>2, <1>4, <2>1, <2>2
  <1>5. CASE ImportLocal
    <2>1. cache' = [q \in Queries |-> Imported(q)] /\ live' = {q \in Queries : Imported(q) # {}}
      BY <1>5 DEF ImportLocal
    <2>2. \A q \in Queries : Imported(q) \in SUBSET Posts
      BY ImportedPosts
    <2>3. QED BY <2>1, <2>2 DEF CacheTypeOK
  <1>6. \/ UNCHANGED cacheVars \/ ImportLocal
        \/ pc = "put" /\ PutCached(Current, found)
        \/ /\ pc = "mirror" /\ GetCached(Current) # {}
           /\ PutCached(Original, GetCached(Current))
    BY DEF Next, RunStep, Operator, Start, Preflight, Search, SearchFails, Put, AppendLocal,
           Mirror, Save, Finish, StoreFails, Crash, Sanitize
  <1>7. QED BY <1>1, <1>3, <1>4, <1>5, <1>6

\* The counters stay within their bounds.
LEMMA CountsStep ==
  ASSUME RunTypes, Counts, WorkFits, Next
  PROVE  Counts'
  <1>1. MaxFailures \in Nat \ {0} /\ MaxStarts \in Nat /\ MaxFaults \in Nat
    BY PrewarmConstants DEF PrewarmConstants
  <1>2. starts \in 0..MaxStarts /\ faults \in 0..MaxFaults /\ failures \in 0..MaxFailures
    BY DEF Counts
  <1>3. ASSUME NEW resume \in BOOLEAN, Start(resume) PROVE Counts'
    <2>1. failures' = 0 /\ starts < MaxStarts /\ starts' = starts + 1 /\ faults' = faults
      BY <1>3 DEF Start
    <2>2. QED BY <1>1, <1>2, <2>1 DEF Counts
  <1>4. ASSUME Crash PROVE Counts'
    <2>1. failures' = 0 /\ faults < MaxFaults /\ faults' = faults + 1 /\ starts' = starts
      BY <1>4 DEF Crash, Fault
    <2>2. QED BY <1>1, <1>2, <2>1 DEF Counts
  <1>5. ASSUME StoreFails PROVE Counts'
    <2>1. failures' = failures /\ faults < MaxFaults /\ faults' = faults + 1 /\ starts' = starts
          /\ pc \in Busy
      BY <1>5 DEF StoreFails, Fault, Busy
    <2>2. QED BY <1>1, <1>2, <2>1 DEF Counts
  <1>6. ASSUME Save PROVE Counts'
    <2> DEFINE strikes == IF rows[Len(rows)].kind = "error" THEN failures + 1 ELSE 0
    <2>1. failures' = strikes /\ UNCHANGED <<starts, faults>> /\ failures < MaxFailures
          /\ strikes \in {0, failures + 1}
      BY <1>6 DEF Save, bounds, Counts
    <2>2. strikes >= MaxFailures => pc' = "stop"
      BY <1>6 DEF Save, Goto
    <2> HIDE DEF strikes
    <2>3. failures' \in 0..MaxFailures
      BY <1>1, <1>2, <2>1
    <2>4. pc' \in Busy \cup {"preflight", "save"} => failures' < MaxFailures
      <3>1. strikes >= MaxFailures \/ strikes < MaxFailures
        BY <1>1, <1>2, <2>1
      <3>2. QED BY <2>1, <2>2, <3>1 DEF Busy
    <2>5. QED BY <1>2, <2>1, <2>3, <2>4 DEF Counts
  <1>7. ASSUME UNCHANGED <<failures, bounds>>,
               pc \in Busy \cup {"preflight"} \/ pc' \in {"off", pc}
        PROVE  Counts'
    BY <1>2, <1>7 DEF Counts, bounds, Busy
  <1>8. QED
    BY <1>3, <1>4, <1>5, <1>6, <1>7 DEF Next, RunStep, Operator, Preflight, Search, SearchFails,
       Put, AppendLocal, Mirror, Finish, Sanitize, ImportLocal, Goto, runState, Busy

\* The invariant PrewarmTyped rests on.
TypeInv == RunTypes /\ LinesTyped /\ CacheTypeOK /\ Counts

\* It holds.
LEMMA TypesHold == Spec => []TypeInv
  <1>1. Init => TypeInv
    <2>1. SUFFICES ASSUME Init PROVE TypeInv
      OBVIOUS
    <2>2. MaxFailures \in Nat \ {0} /\ MaxStarts \in Nat /\ MaxFaults \in Nat
      BY PrewarmConstants DEF PrewarmConstants
    <2>3. RunTypes
      BY <2>1, EmptyTyped DEF Init, RunTypes, NoReport
    <2>4. LinesTyped
      BY <2>1, EmptyTyped DEF Init, LinesTyped
    <2>5. CacheTypeOK
      BY <2>1 DEF Init, CacheInit, CacheTypeOK
    <2>6. Counts
      BY <2>1, <2>2 DEF Init, Counts
    <2>7. QED BY <2>3, <2>4, <2>5, <2>6 DEF TypeInv
  <1>2. TypeInv /\ PostsFit /\ RunInv /\ [Next]_vars => TypeInv'
    <2>1. SUFFICES ASSUME TypeInv, PostsFit, RunInv, [Next]_vars PROVE TypeInv'
      OBVIOUS
    <2>2. CASE Next
      BY <2>1, <2>2, RunTyped, LinesStep, CacheTyped, CountsStep DEF TypeInv, RunInv
    <2>3. CASE UNCHANGED vars
      BY <2>1, <2>3 DEF TypeInv, RunTypes, LinesTyped, CacheTypeOK, Counts, vars
    <2>4. QED BY <2>1, <2>2, <2>3
  <1>3. QED BY <1>1, <1>2, PostsAlwaysFit, PTL DEF Spec

\* Every variable keeps its type: the report and the jsonl file hold rows and lines of the
\* query file, rows of the cache are not empty, and a run stops at its limit of failures.
THEOREM PrewarmTyped == Spec => []PrewarmTypeOK
  <1>1. TypeInv /\ PostsFit /\ RunInv => PrewarmTypeOK
    BY DEF TypeInv, RunTypes, LinesTyped, Counts, Busy, PostsFit, RunInv, WorkFits, PrewarmTypeOK
  <1>2. QED BY <1>1, TypesHold, PostsAlwaysFit, PTL
===============================================================================
