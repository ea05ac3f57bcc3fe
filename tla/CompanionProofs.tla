--------------------------- MODULE CompanionProofs ---------------------------
(***************************************************************************)
(* Theorems about Companions, for any number of requests, names and ids    *)
(* and any cap.                                                            *)
(***************************************************************************)
EXTENDS Companions, FiniteSetTheorems, TLAPS

-------------------------------------------------------------------------------
(* Types.                                                                  *)

TripType == [status : Statuses, parked : BOOLEAN, picked : SUBSET Ids,
             links : SUBSET Ids, args : SUBSET Ids, ran : SUBSET Ids]

\* A request that is over keeps the types of the variables of requests.
LEMMA OverTyped ==
  ASSUME CompanionsTypeOK, NEW r \in Requests, NEW from, NEW outcome, Over(r, from, outcome)
  PROVE  /\ pc' \in [Requests -> {"idle", "count", "load", "name", "flush", "commit",
                                  "select", "think", "profile", "insert", "rewrite"}]
         /\ kind' \in [Requests -> {"none", "create", "update", "delete", "trip", "profile"}]
         /\ name' \in [Requests -> Names \cup {NoName}]
         /\ target' \in [Requests -> 0..MaxIds]
         /\ owned' \in [Requests -> SUBSET Ids]
         /\ errors' \in Nat
         /\ overlap' \in BOOLEAN
         /\ count' \in 0..MaxRequests
  BY CompanionConstants DEF CompanionsTypeOK, Over, At

\* So does one that begins.
LEMMA BeginTyped ==
  ASSUME CompanionsTypeOK, NEW r \in Requests,
         NEW k \in {"create", "update", "delete", "profile"},
         NEW n \in Names \cup {NoName}, NEW i \in 0..MaxIds,
         NEW first \in {"count", "load", "profile"}, Begin(r, k, n, i, first)
  PROVE  CompanionsTypeOK'
  <1>1. count' \in 0..MaxRequests
    BY CompanionConstants DEF CompanionsTypeOK, Begin
  <1>2. overlap' \in BOOLEAN
    BY DEF CompanionsTypeOK, Begin
  <1>3. QED BY <1>1, <1>2 DEF CompanionsTypeOK, Begin, At

\* Every step keeps every variable in its type.
LEMMA TypeStep == CompanionsTypeOK /\ [Next]_vars => CompanionsTypeOK'
  <1> SUFFICES ASSUME CompanionsTypeOK, [Next]_vars PROVE CompanionsTypeOK'
    OBVIOUS
  <1>1. ASSUME NEW r \in Requests, NEW n \in Names, CreateCompanion(r, n)
        PROVE  CompanionsTypeOK'
    BY <1>1, BeginTyped, CompanionConstants DEF CreateCompanion
  <1>2. ASSUME NEW r \in Requests, NEW n \in Names, NEW i \in Ids, UpdateCompanion(r, i, n)
        PROVE  CompanionsTypeOK'
    BY <1>2, BeginTyped, CompanionConstants DEF UpdateCompanion, Ids
  <1>3. ASSUME NEW r \in Requests, NEW i \in Ids, DeleteCompanion(r, i)
        PROVE  CompanionsTypeOK'
    BY <1>3, BeginTyped, CompanionConstants DEF DeleteCompanion, Ids
  <1>4. ASSUME NEW r \in Requests, PutProfile(r) PROVE CompanionsTypeOK'
    BY <1>4, BeginTyped, CompanionConstants DEF PutProfile
  <1>5. ASSUME NEW r \in Requests, NEW picked \in SUBSET known, CreateTrip(r, picked)
        PROVE  CompanionsTypeOK'
    <2>1. count' \in 0..MaxRequests
      BY <1>5, CompanionConstants DEF CompanionsTypeOK, CreateTrip
    <2>2. picked \subseteq Ids
      BY CompanionConstants DEF CompanionsTypeOK, Ids
    <2>3. overlap' \in BOOLEAN
      BY <1>5 DEF CompanionsTypeOK, CreateTrip
    <2>4. QED BY <1>5, <2>1, <2>2, <2>3 DEF CompanionsTypeOK, CreateTrip, At
  <1>6. ASSUME NEW r \in Requests, RequestStep(r) PROVE CompanionsTypeOK'
    <2> USE DEF request, At
    <2>1. CASE CountRows(r)
      BY <2>1, OverTyped DEF CompanionsTypeOK, CountRows
    <2>2. CASE Load(r)
      BY <2>2, OverTyped DEF CompanionsTypeOK, Load
    <2>3. CASE CheckName(r)
      BY <2>3, OverTyped DEF CompanionsTypeOK, CheckName
    <2>4. CASE Flush(r)
      <3>1. \/ UNCHANGED <<used, known>>
            \/ /\ used < MaxIds /\ used' = used + 1 /\ known' = known \cup {used + 1}
        BY <2>4 DEF Flush
      <3>2. /\ used' \in 0..MaxIds /\ known' \subseteq 1..used'
        <4>1. used \in Nat /\ MaxIds \in Nat /\ known \subseteq 1..used
          BY CompanionConstants DEF CompanionsTypeOK
        <4>2. used <= MaxIds
          BY CompanionConstants DEF CompanionsTypeOK
        <4>3. CASE UNCHANGED <<used, known>>
          BY <4>1, <4>2, <4>3, CompanionConstants DEF CompanionsTypeOK
        <4>4. CASE used < MaxIds /\ used' = used + 1 /\ known' = known \cup {used + 1}
          <5>1. used' \in 0..MaxIds
            BY <4>1, <4>2, <4>4
          <5>2. ASSUME NEW i \in known' PROVE i \in 1..used'
            BY <4>1, <4>4, <5>2
          <5>3. QED BY <5>1, <5>2
        <4>5. QED BY <3>1, <4>3, <4>4
      <3>3. UNCHANGED <<rows, profile, trip>>
        BY <2>4 DEF Flush
      <3>4. CASE \E outcome \in {"error", "refused"} : Over(r, "flush", outcome)
        BY <3>2, <3>3, <3>4, OverTyped DEF CompanionsTypeOK
      <3>5. CASE /\ pc' = [pc EXCEPT ![r] = "commit"]
                 /\ UNCHANGED <<kind, name, owned, errors, overlap, count>>
                 /\ target' = [target EXCEPT ![r] = used + 1] /\ used < MaxIds
        <4>1. used + 1 \in 0..MaxIds
          BY <3>5, CompanionConstants DEF CompanionsTypeOK
        <4>2. QED BY <3>2, <3>3, <3>5, <4>1 DEF CompanionsTypeOK
      <3>6. CASE /\ pc' = [pc EXCEPT ![r] = "commit"]
                 /\ UNCHANGED <<request, errors, overlap, count>>
        BY <3>2, <3>3, <3>6 DEF CompanionsTypeOK
      <3>7. QED BY <2>4, <3>4, <3>5, <3>6 DEF Flush
    <2>5. CASE Commit(r)
      <3>2. trip' \in TripType
        BY <2>5 DEF CompanionsTypeOK, Commit, TripType
      <3>3. rows' \in [Ids -> Names \cup {NoName}]
        BY <2>5 DEF CompanionsTypeOK, Commit
      <3>4. QED BY <2>5, <3>2, <3>3, OverTyped DEF CompanionsTypeOK, Commit, TripType
    <2>6. CASE FindProfile(r)
      BY <2>6 DEF CompanionsTypeOK, FindProfile
    <2>7. CASE FlushProfile(r)
      BY <2>7, OverTyped DEF CompanionsTypeOK, FlushProfile
    <2>8. CASE CommitProfile(r)
      BY <2>8, OverTyped DEF CompanionsTypeOK, CommitProfile
    <2>9. CASE SelectOwned(r)
      BY <2>9 DEF CompanionsTypeOK, SelectOwned
    <2>10. CASE TripFails(r)
      BY <2>10, OverTyped DEF CompanionsTypeOK, TripFails, NoTrip, Statuses
    <2>11. CASE \E questions \in BOOLEAN : TripCommits(r, questions)
      <3>1. PICK questions \in BOOLEAN : TripCommits(r, questions)
        BY <2>11
      <3>2. trip' \in TripType
        BY <3>1 DEF CompanionsTypeOK, TripCommits, TripType, Statuses
      <3>3. QED BY <3>1, <3>2, OverTyped DEF CompanionsTypeOK, TripCommits, TripType
    <2>12. QED BY <1>6, <2>1, <2>2, <2>3, <2>4, <2>5, <2>6, <2>7, <2>8, <2>9, <2>10, <2>11
                DEF RequestStep
  <1>7. ASSUME Clarify \/ RunTrip PROVE CompanionsTypeOK'
    <2>1. trip' \in TripType
      <3>1. trip \in TripType /\ LoadContext(trip.args) \in SUBSET Ids
        BY DEF CompanionsTypeOK, TripType, LoadContext, Alive
      <3>2. QED BY <1>7, <3>1 DEF Clarify, RunTrip, Statuses, TripType
    <2>2. QED BY <1>7, <2>1 DEF CompanionsTypeOK, Clarify, RunTrip, TripType, request
  <1>8. CASE UNCHANGED vars
    BY <1>8 DEF CompanionsTypeOK, vars
  <1>9. QED BY <1>1, <1>2, <1>3, <1>4, <1>5, <1>6, <1>7, <1>8 DEF Next

\* Every reachable state is well typed.
THEOREM CompanionsTyped == Spec => []CompanionsTypeOK
  <1>1. Init => CompanionsTypeOK
    <2>1. NoTrip \in TripType
      BY DEF NoTrip, Statuses, TripType
    <2>2. {} \subseteq 1..0 /\ 0 \in 0..MaxIds /\ 0 \in 0..MaxRequests
      BY CompanionConstants
    <2> SUFFICES ASSUME Init PROVE CompanionsTypeOK
      OBVIOUS
    <2>3. trip \in TripType
      BY <2>1 DEF Init
    <2>4. QED BY <2>2, <2>3 DEF Init, CompanionsTypeOK, TripType
  <1>2. QED BY <1>1, TypeStep, PTL DEF Spec

-------------------------------------------------------------------------------
(* Who is picked, linked and taken along.                                  *)

\* A request has a kind until it is over, and one that writes a name has one.
KindsFit ==
  \A r \in Requests :
    /\ pc[r] = "idle" <=> kind[r] = "none"
    /\ pc[r] \in {"select", "think"} <=> kind[r] = "trip"
    /\ kind[r] \in {"create", "update"} => name[r] # NoName

\* At most one request creates the trip, and what it has found was picked.
OneCreator ==
  /\ \A r, s \in Requests : kind[r] = "trip" /\ kind[s] = "trip" => r = s
  /\ \A r \in Requests : kind[r] = "trip" => trip.status = "none"
  /\ \A r \in Requests : owned[r] # {} => kind[r] = "trip"
  /\ \A r \in Requests : owned[r] \subseteq trip.picked

\* What the status of the trip says of the rest of it.
StatusFits ==
  /\ trip.status = "none" => trip.links = {} /\ trip.ran = {}
  /\ trip.status \in {"clarifying", "queued"} => trip.ran = {}
  /\ trip.status = "clarifying" => trip.parked
  /\ trip.status = "queued" =>
       /\ trip.args \subseteq trip.picked
       /\ trip.args = {} => trip.picked = {} \/ (trip.parked /\ trip.links = {})

PickedInv == KindsFit /\ OneCreator /\ StatusFits /\ LinksAreAlive /\ RunsWithPicked

\* The steps of requests on companions and the profile, as far as the trip is concerned.
\* A name of the commit is NoName when it is a deletion only.
Elsewhere ==
  /\ \A r \in Requests : kind'[r] = "trip" <=> kind[r] = "trip"
  /\ \A r \in Requests : owned'[r] = owned[r]
  /\ \/ trip' = trip /\ Alive \subseteq Alive'
     \/ \E i : /\ trip' = [trip EXCEPT !.links = @ \ {i}]
              /\ Alive \ {i} \subseteq Alive'

\* These steps disturb neither the trip nor the request that creates it.
LEMMA ElsewhereStep ==
  ASSUME CompanionsTypeOK, PickedInv, Elsewhere
  PROVE  OneCreator' /\ StatusFits' /\ LinksAreAlive' /\ RunsWithPicked'
  <1>1. /\ trip'.status = trip.status /\ trip'.parked = trip.parked
        /\ trip'.picked = trip.picked /\ trip'.args = trip.args /\ trip'.ran = trip.ran
        /\ trip'.links \subseteq trip.links
    BY DEF CompanionsTypeOK, Elsewhere
  <1>2. OneCreator'
    BY <1>1 DEF PickedInv, OneCreator, Elsewhere
  <1>3. StatusFits'
    BY <1>1 DEF PickedInv, StatusFits
  <1>4. LinksAreAlive'
    BY <1>1 DEF PickedInv, LinksAreAlive, Elsewhere, CompanionsTypeOK
  <1>5. RunsWithPicked'
    BY <1>1 DEF PickedInv, RunsWithPicked
  <1>6. QED BY <1>2, <1>3, <1>4, <1>5

\* A request that is over has no kind, and one on its way keeps its own.
LEMMA KindsOver ==
  ASSUME CompanionsTypeOK, KindsFit, NEW r \in Requests, NEW from, NEW outcome,
         Over(r, from, outcome)
  PROVE  KindsFit'
  BY DEF CompanionsTypeOK, KindsFit, Over, At

LEMMA KindsAt ==
  ASSUME CompanionsTypeOK, KindsFit, NEW r \in Requests, NEW from,
         NEW to \in {"name", "flush", "commit", "insert", "rewrite"},
         from \notin {"idle", "select", "think"}, At(r, from, to), UNCHANGED <<kind, name>>
  PROVE  KindsFit'
  BY DEF CompanionsTypeOK, KindsFit, At

\* The requests of companions.py and profile.py.
LEMMA OthersStep ==
  ASSUME CompanionsTypeOK, PickedInv, NEW r \in Requests,
         \/ \E n \in Names : CreateCompanion(r, n)
         \/ \E i \in Ids, n \in Names : UpdateCompanion(r, i, n)
         \/ \E i \in Ids : DeleteCompanion(r, i)
         \/ PutProfile(r)
         \/ CountRows(r) \/ Load(r) \/ CheckName(r) \/ Flush(r) \/ Commit(r)
         \/ FindProfile(r) \/ FlushProfile(r) \/ CommitProfile(r)
  PROVE  KindsFit' /\ Elsewhere
  <1>k. KindsFit /\ OneCreator
    BY DEF PickedInv
  <1>1. ASSUME NEW k \in {"create", "update", "delete", "profile"}, NEW n, NEW i,
               NEW first \in {"count", "load", "profile"}, Begin(r, k, n, i, first),
               k \in {"create", "update"} => n # NoName
        PROVE  KindsFit' /\ Elsewhere
    BY <1>1, <1>k DEF CompanionsTypeOK, KindsFit, Elsewhere, Begin, At, Alive
  <1>2. ASSUME NEW from, NEW outcome, Over(r, from, outcome),
               from \notin {"idle", "select", "think"}, UNCHANGED <<rows, trip>>
        PROVE  KindsFit' /\ Elsewhere
    <2>1. kind[r] # "trip" /\ owned[r] = {}
      BY <1>2, <1>k DEF KindsFit, OneCreator, Over, At
    <2>2. KindsFit'
      BY <1>2, <1>k, KindsOver
    <2>3. Elsewhere
      BY <1>2, <2>1 DEF CompanionsTypeOK, Elsewhere, Over, Alive
    <2>4. QED BY <2>2, <2>3
  <1>3. ASSUME NEW from, NEW to \in {"name", "flush", "commit", "insert", "rewrite"},
               At(r, from, to), from \notin {"idle", "select", "think"},
               UNCHANGED <<rows, trip, kind, name, owned>>
        PROVE  KindsFit' /\ Elsewhere
    BY <1>3, <1>k, KindsAt DEF Elsewhere, Alive
  <1>4. ASSUME NEW n \in Names, CreateCompanion(r, n) PROVE KindsFit' /\ Elsewhere
    BY <1>1, <1>4, CompanionConstants DEF CreateCompanion
  <1>5. ASSUME NEW i \in Ids, NEW n \in Names, UpdateCompanion(r, i, n)
        PROVE  KindsFit' /\ Elsewhere
    BY <1>1, <1>5, CompanionConstants DEF UpdateCompanion
  <1>6. ASSUME NEW i \in Ids, DeleteCompanion(r, i) PROVE KindsFit' /\ Elsewhere
    BY <1>1, <1>6 DEF DeleteCompanion
  <1>7. ASSUME PutProfile(r) PROVE KindsFit' /\ Elsewhere
    BY <1>1, <1>7 DEF PutProfile
  <1>8. CASE CountRows(r)
    BY <1>2, <1>3, <1>8 DEF CountRows, request
  <1>9. CASE Load(r)
    BY <1>2, <1>3, <1>9 DEF Load, request
  <1>10. CASE CheckName(r)
    BY <1>2, <1>3, <1>10 DEF CheckName, request
  <1>11. CASE Flush(r)
    BY <1>2, <1>3, <1>11 DEF Flush, request
  <1>12. CASE Commit(r)
    <2>1. kind[r] # "trip" /\ kind[r] # "none" /\ owned[r] = {}
      BY <1>12, <1>k DEF KindsFit, OneCreator, Commit, Over, At
    <2>2. KindsFit'
      BY <1>12, <1>k, KindsOver DEF Commit
    <2>3. \A s \in Requests : (kind'[s] = "trip" <=> kind[s] = "trip") /\ owned'[s] = owned[s]
      BY <1>12, <2>1 DEF CompanionsTypeOK, Commit, Over
    <2>4. CASE kind[r] = "delete"
      <3>1. trip' = [trip EXCEPT !.links = @ \ {target[r]}]
        BY <1>12, <2>4 DEF Commit
      <3>2. Alive \ {target[r]} \subseteq Alive'
        BY <1>12 DEF CompanionsTypeOK, Commit, Alive
      <3>3. QED BY <2>2, <2>3, <3>1, <3>2 DEF Elsewhere
    <2>5. CASE kind[r] # "delete"
      <3>1. name[r] # NoName
        BY <1>12, <1>k, <2>1, <2>5 DEF KindsFit, CompanionsTypeOK, Commit
      <3>2. Alive \subseteq Alive' /\ trip' = trip
        BY <1>12, <2>5, <3>1 DEF CompanionsTypeOK, Commit, Alive
      <3>3. QED BY <2>2, <2>3, <3>2 DEF Elsewhere
    <2>6. QED BY <2>4, <2>5
  <1>13. CASE FindProfile(r)
    BY <1>3, <1>13 DEF FindProfile, request
  <1>14. CASE FlushProfile(r)
    BY <1>2, <1>3, <1>14 DEF FlushProfile, request
  <1>15. CASE CommitProfile(r)
    BY <1>2, <1>15 DEF CommitProfile
  <1>16. QED BY <1>4, <1>5, <1>6, <1>7, <1>8, <1>9, <1>10, <1>11, <1>12, <1>13, <1>14, <1>15

\* The steps of create_trip().
LEMMA CreatorStep ==
  ASSUME CompanionsTypeOK, PickedInv, NEW r \in Requests,
         \/ \E picked \in SUBSET known : CreateTrip(r, picked)
         \/ SelectOwned(r) \/ TripFails(r)
         \/ \E questions \in BOOLEAN : TripCommits(r, questions)
  PROVE  PickedInv'
  <1>k. KindsFit /\ OneCreator /\ StatusFits /\ LinksAreAlive /\ RunsWithPicked
    BY DEF PickedInv
  <1>1. ASSUME NEW picked \in SUBSET known, CreateTrip(r, picked) PROVE PickedInv'
    <2>1. KindsFit'
      BY <1>1, <1>k DEF CompanionsTypeOK, KindsFit, CreateTrip, At
    <2>2. trip'.status = "none" /\ trip'.links = {} /\ trip'.ran = {}
      BY <1>1, <1>k DEF CompanionsTypeOK, StatusFits, CreateTrip
    <2>3. \A s \in Requests : owned'[s] = {} /\ (kind'[s] = "trip" => s = r)
      BY <1>1, <1>k DEF CompanionsTypeOK, OneCreator, CreateTrip
    <2>4. QED BY <2>1, <2>2, <2>3
              DEF PickedInv, OneCreator, StatusFits, LinksAreAlive, RunsWithPicked
  <1>2. CASE SelectOwned(r)
    <2>1. KindsFit'
      BY <1>2, <1>k DEF CompanionsTypeOK, KindsFit, SelectOwned, At
    <2>2. OneCreator'
      BY <1>2, <1>k DEF CompanionsTypeOK, KindsFit, OneCreator, SelectOwned, At
    <2>3. QED BY <1>2, <1>k, <2>1, <2>2
              DEF PickedInv, SelectOwned, StatusFits, LinksAreAlive, RunsWithPicked, Alive
  <1>3. CASE TripFails(r)
    <2>1. KindsFit'
      BY <1>3, <1>k, KindsOver DEF TripFails
    <2>2. \A s \in Requests : owned'[s] = {} /\ kind'[s] # "trip"
      BY <1>3, <1>k DEF CompanionsTypeOK, KindsFit, OneCreator, TripFails, Over, At
    <2>3. QED BY <1>3, <2>1, <2>2
              DEF PickedInv, TripFails, NoTrip, OneCreator, StatusFits, LinksAreAlive,
                  RunsWithPicked
  <1>4. ASSUME NEW questions \in BOOLEAN, TripCommits(r, questions) PROVE PickedInv'
    <2>1. KindsFit'
      BY <1>4, <1>k, KindsOver DEF TripCommits
    <2>2. \A s \in Requests : owned'[s] = {} /\ kind'[s] # "trip"
      <3>1. Over(r, "think", "done")
        BY <1>4 DEF TripCommits
      <3>2. QED BY <3>1, <1>k DEF CompanionsTypeOK, KindsFit, OneCreator, Over, At
    <2>3. trip.ran = {}
      <3>1. pc[r] = "think"
        BY <1>4 DEF TripCommits, Over, At
      <3>2. QED BY <3>1, <1>k DEF KindsFit, OneCreator, StatusFits
    <2>4. /\ trip'.status = IF questions THEN "clarifying" ELSE "queued"
          /\ trip'.parked = questions /\ trip'.picked = trip.picked
          /\ trip'.links = owned[r] /\ trip'.ran = {}
          /\ trip'.args = IF questions THEN {} ELSE trip.picked
      BY <1>4, <2>3 DEF CompanionsTypeOK, TripCommits
    <2>5. Alive' = Alive /\ owned[r] \subseteq Alive /\ owned[r] \subseteq trip.picked
      BY <1>4, <1>k DEF TripCommits, OneCreator, Alive
    <2>6. StatusFits' /\ RunsWithPicked' /\ LinksAreAlive'
      BY ONLY <1>4, <2>4, <2>5 DEF StatusFits, RunsWithPicked, LinksAreAlive
    <2>7. OneCreator'
      BY <2>2 DEF OneCreator
    <2>8. QED BY <2>1, <2>6, <2>7 DEF PickedInv
  <1>5. QED BY <1>1, <1>2, <1>3, <1>4

\* clarify_trip(), skip_clarify_trip() and the run.
LEMMA RunStep ==
  ASSUME CompanionsTypeOK, PickedInv, Clarify \/ RunTrip
  PROVE  PickedInv'
  <1>k. KindsFit /\ OneCreator /\ StatusFits /\ LinksAreAlive /\ RunsWithPicked
    BY DEF PickedInv
  <1>1. KindsFit' /\ Alive' = Alive
    BY <1>k DEF KindsFit, Clarify, RunTrip, request, Alive
  <1>2. trip.ran = {} /\ \A r \in Requests : kind[r] # "trip"
    BY <1>k DEF StatusFits, OneCreator, Clarify, RunTrip
  <1>3. CASE Clarify
    <2>1. /\ trip'.status = "queued" /\ trip'.parked /\ trip'.args = trip.links
          /\ trip'.picked = trip.picked /\ trip'.links = trip.links /\ trip'.ran = {}
      BY <1>3, <1>k, <1>2 DEF CompanionsTypeOK, Clarify, StatusFits
    <2>2. QED BY <1>1, <1>2, <1>3, <1>k, <2>1
              DEF PickedInv, OneCreator, StatusFits, LinksAreAlive, RunsWithPicked, Clarify,
                  request
  <1>4. CASE RunTrip
    <2>1. /\ trip'.status = "ran" /\ trip'.parked = trip.parked
          /\ trip'.picked = trip.picked /\ trip'.links = trip.links
          /\ trip'.ran = LoadContext(trip.args)
      BY <1>4 DEF CompanionsTypeOK, RunTrip
    <2>2. RunsWithPicked'
      BY <1>4, <1>k, <2>1 DEF RunsWithPicked, StatusFits, LoadContext, RunTrip
    <2>3. QED BY <1>1, <1>2, <1>4, <1>k, <2>1, <2>2
              DEF PickedInv, OneCreator, StatusFits, LinksAreAlive, RunTrip, request
  <1>5. QED BY <1>3, <1>4

\* PickedInv holds in every reachable state.
LEMMA PickedHolds == Spec => []PickedInv
  <1>1. Init => PickedInv
    BY DEF Init, PickedInv, KindsFit, OneCreator, StatusFits, LinksAreAlive, RunsWithPicked,
           NoTrip
  <1>2. CompanionsTypeOK /\ PickedInv /\ [Next]_vars => PickedInv'
    <2> SUFFICES ASSUME CompanionsTypeOK, PickedInv, [Next]_vars PROVE PickedInv'
      OBVIOUS
    <2>1. ASSUME KindsFit' /\ Elsewhere PROVE PickedInv'
      BY <2>1, ElsewhereStep DEF PickedInv
    <2>2. CASE UNCHANGED vars
      BY <2>2 DEF vars, PickedInv, KindsFit, OneCreator, StatusFits, LinksAreAlive,
                  RunsWithPicked, Alive
    <2>3. CASE Clarify \/ RunTrip
      BY <2>3, RunStep
    <2>4. ASSUME NEW r \in Requests,
                 \/ \E picked \in SUBSET known : CreateTrip(r, picked)
                 \/ SelectOwned(r) \/ TripFails(r)
                 \/ \E questions \in BOOLEAN : TripCommits(r, questions)
          PROVE  PickedInv'
      BY <2>4, CreatorStep
    <2>5. ASSUME NEW r \in Requests,
                 \/ \E n \in Names : CreateCompanion(r, n)
                 \/ \E i \in Ids, n \in Names : UpdateCompanion(r, i, n)
                 \/ \E i \in Ids : DeleteCompanion(r, i)
                 \/ PutProfile(r)
                 \/ CountRows(r) \/ Load(r) \/ CheckName(r) \/ Flush(r) \/ Commit(r)
                 \/ FindProfile(r) \/ FlushProfile(r) \/ CommitProfile(r)
          PROVE  PickedInv'
      BY <2>1, <2>5, OthersStep
    <2>6. QED BY <2>2, <2>3, <2>4, <2>5 DEF Next, RequestStep
  <1>3. QED BY <1>1, <1>2, CompanionsTyped, PTL DEF Spec

\* A trip is linked to companions that exist and were picked, however deletions, the
\* clarifier and the commits interleave.
THEOREM LinksStayAlive == Spec => []LinksAreAlive
  BY PickedHolds, PTL DEF PickedInv

\* Nobody goes on a trip who was not picked, unless nobody was, or all were deleted while
\* it was parked.
THEOREM PickedOnesGo == Spec => []RunsWithPicked
  BY PickedHolds, PTL DEF PickedInv

-------------------------------------------------------------------------------
(* The cap and the names.                                                  *)

\* Request r has written a row of a companion and not committed it.
Writing(r) == pc[r] = "commit" /\ kind[r] # "profile"

\* Each statement belongs to an endpoint; a deletion writes no name.
StatementFits(r) ==
  /\ pc[r] = "count" => kind[r] = "create"
  /\ pc[r] = "load" => kind[r] \in {"update", "delete"}
  /\ pc[r] = "name" => kind[r] \in {"create", "update"}
  /\ pc[r] = "flush" => kind[r] \in {"create", "update", "delete"}
  /\ pc[r] \in {"profile", "insert", "rewrite"} => kind[r] = "profile"
  /\ Writing(r) => kind[r] \in {"create", "update", "delete"}
  /\ kind[r] = "delete" => name[r] = NoName

\* A request for a new companion has no id until its flush, and then one without a row.
IdFits(r) ==
  /\ target[r] <= used
  /\ kind[r] \in {"update", "delete"} => target[r] \in Ids
  /\ kind[r] = "create" /\ pc[r] # "commit" => target[r] = 0
  /\ kind[r] = "create" /\ pc[r] = "commit" => target[r] \in Ids \ Alive

\* Ids are given out once.
IdsFresh == \A i \in Alive : i <= used

\* What the open transaction of r has written stands alone: the row of an update stands,
\* and its name is that of no other row and ...
WriteFits(r) ==
  Writing(r) =>
    /\ kind[r] = "update" => target[r] \in Alive
    /\ name[r] # NoName => \A i \in Alive \ {target[r]} : rows[i] # name[r]

\* ... of no other open transaction, as the row is.
WritersApart ==
  \A r, s \in Requests :
    /\ Writing(r) /\ Writing(s)
    /\ target[r] = target[s] \/ (name[r] # NoName /\ name[r] = name[s])
    => r = s

\* The unique constraint, on what is committed.
NamesApart == \A i, j \in Alive : rows[i] = rows[j] => i = j

RowsInv ==
  /\ \A r \in Requests : StatementFits(r) /\ IdFits(r) /\ WriteFits(r)
  /\ IdsFresh /\ WritersApart /\ NamesApart

\* A step of request r leaves the others alone.
Own(r) ==
  \A o \in Requests \ {r} :
    /\ pc'[o] = pc[o] /\ kind'[o] = kind[o] /\ name'[o] = name[o]
    /\ target'[o] = target[o] /\ owned'[o] = owned[o]

\* A step that neither writes nor commits a row.
LEMMA ReadStep ==
  ASSUME RowsInv, NEW r \in Requests, Own(r), rows' = rows, used' = used,
         ~Writing(r)', StatementFits(r)', IdFits(r)'
  PROVE  RowsInv'
  <1>1. Alive' = Alive BY DEF Alive
  <1>2. ASSUME NEW o \in Requests PROVE StatementFits(o)' /\ IdFits(o)' /\ WriteFits(o)'
    <2>1. CASE o = r BY <2>1 DEF WriteFits
    <2>2. CASE o # r
      BY <1>1, <2>2 DEF RowsInv, Own, StatementFits, IdFits, WriteFits, Writing
    <2>3. QED BY <2>1, <2>2
  <1>3. WritersApart'
    BY DEF RowsInv, Own, WritersApart, Writing
  <1>4. IdsFresh' /\ NamesApart'
    BY <1>1 DEF RowsInv, IdsFresh, NamesApart
  <1>5. QED BY <1>2, <1>3, <1>4 DEF RowsInv

\* A request that is over, without a commit of rows.
LEMMA OverReads ==
  ASSUME CompanionsTypeOK, RowsInv, NEW r \in Requests, NEW from, NEW outcome,
         Over(r, from, outcome), rows' = rows, used' = used
  PROVE  RowsInv'
  <1>1. Own(r) /\ pc'[r] = "idle" /\ kind'[r] = "none" /\ target'[r] = 0
    BY DEF CompanionsTypeOK, Own, Over, At
  <1>2. used \in Nat
    BY CompanionConstants DEF CompanionsTypeOK
  <1>3. QED BY <1>1, <1>2, ReadStep DEF StatementFits, IdFits, Writing

\* A request that begins.
LEMMA BeginReads ==
  ASSUME CompanionsTypeOK, RowsInv, NEW r \in Requests,
         NEW k, NEW n, NEW i \in 0..MaxIds, NEW first, Begin(r, k, n, i, first),
         \/ k = "create" /\ i = 0 /\ first = "count"
         \/ k = "update" /\ i \in known /\ first = "load"
         \/ k = "delete" /\ i \in known /\ n = NoName /\ first = "load"
         \/ k = "profile" /\ i = 0 /\ first = "profile"
  PROVE  RowsInv'
  <1>1. /\ Own(r) /\ pc'[r] = first /\ kind'[r] = k /\ target'[r] = i /\ name'[r] = n
        /\ rows' = rows /\ used' = used
    BY DEF CompanionsTypeOK, Own, Begin, At
  <1>2. used \in Nat /\ MaxIds \in Nat /\ used <= MaxIds /\ known \subseteq 1..used
    BY CompanionConstants DEF CompanionsTypeOK
  <1>3. i <= used /\ (k \in {"update", "delete"} => i \in Ids)
    BY <1>2 DEF Ids
  <1>4. QED BY <1>1, <1>3, ReadStep DEF StatementFits, IdFits, Writing

\* A statement that goes on within its endpoint.
LEMMA GoesOn ==
  ASSUME CompanionsTypeOK, RowsInv, NEW r \in Requests, NEW from, NEW to, At(r, from, to),
         UNCHANGED <<rows, used, kind, name, target>>, owned' \in [Requests -> SUBSET Ids],
         \A o \in Requests \ {r} : owned'[o] = owned[o],
         to \notin {"count", "load"} /\ from # "commit" /\ (to = "commit" => kind[r] = "profile"),
         to = "name" => kind[r] \in {"create", "update"},
         to = "flush" => kind[r] \in {"create", "update", "delete"},
         to \in {"profile", "insert", "rewrite"} => kind[r] = "profile"
  PROVE  RowsInv'
  <1>1. /\ Own(r) /\ pc'[r] = to /\ kind'[r] = kind[r] /\ target'[r] = target[r]
        /\ name'[r] = name[r] /\ pc[r] = from
    BY DEF CompanionsTypeOK, Own, At
  <1>2. Alive' = Alive BY DEF Alive
  <1>3. QED BY <1>1, <1>2, ReadStep DEF RowsInv, StatementFits, IdFits, Writing

\* A flush that succeeds waits for those who have written the row or the name.
LEMMA FlushWrites ==
  ASSUME CompanionsTypeOK, KindsFit, RowsInv, NEW r \in Requests, Flush(r), pc'[r] = "commit"
  PROVE  RowsInv'
  <1>1. /\ pc[r] = "flush" /\ ~Blocked(r)
        /\ UNCHANGED <<rows, kind, name, owned>>
        /\ \A o \in Requests \ {r} : pc'[o] = pc[o] /\ target'[o] = target[o]
        /\ \/ /\ kind[r] = "create" /\ ~NameExists(r) /\ used < MaxIds
              /\ used' = used + 1 /\ target'[r] = used + 1
           \/ /\ kind[r] = "update" /\ target[r] \in Alive /\ ~NameExists(r)
              /\ used' = used /\ target'[r] = target[r]
           \/ /\ kind[r] = "delete" /\ used' = used /\ target'[r] = target[r]
    BY DEF CompanionsTypeOK, Flush, Over, At, request
  <1>2. Alive' = Alive BY <1>1 DEF Alive
  <1>3. /\ used \in Nat /\ MaxIds \in Nat /\ used' \in Nat /\ used <= used'
        /\ Alive \subseteq Ids /\ Ids \subseteq Nat
    BY <1>1, CompanionConstants DEF CompanionsTypeOK, Alive, Ids
  <1>4. ASSUME NEW o \in Requests \ {r} PROVE StatementFits(o)' /\ IdFits(o)' /\ WriteFits(o)'
    <2>1. target[o] \in Nat BY DEF CompanionsTypeOK
    <2>2. QED
      BY <1>1, <1>2, <1>3, <2>1 DEF RowsInv, StatementFits, IdFits, WriteFits, Writing
  <1>5. StatementFits(r)'
    BY <1>1 DEF RowsInv, StatementFits, Writing
  <1>6. IdFits(r)'
    <2>1. CASE kind[r] = "create"
      <3>1. used + 1 \in Ids /\ used + 1 \notin Alive
        BY <1>1, <1>3, <2>1 DEF RowsInv, IdsFresh, Ids
      <3>2. QED BY <1>1, <1>2, <1>3, <2>1, <3>1 DEF IdFits
    <2>2. CASE kind[r] # "create"
      BY <1>1, <1>2, <2>2 DEF RowsInv, IdFits
    <2>3. QED BY <2>1, <2>2
  <1>7. WriteFits(r)'
    <2>1. kind[r] = "create" => target[r] = 0
      BY <1>1 DEF RowsInv, IdFits
    <2>2. 0 \notin Alive BY <1>3 DEF Alive, Ids
    <2>3. kind[r] = "delete" => name[r] = NoName
      BY DEF RowsInv, StatementFits
    <2>4. kind[r] # "delete" => \A i \in Alive \ {target'[r]} : rows[i] # name[r]
      BY <1>1, <2>1, <2>2 DEF NameExists
    <2>5. QED BY <1>1, <1>2, <2>3, <2>4 DEF WriteFits
  <1>8. ASSUME NEW o \in Requests \ {r}, Writing(o)
        PROVE  target[o] # target'[r] /\ ~(name[r] # NoName /\ name[o] = name[r])
    <2>1. pc[o] = "commit" /\ kind[o] # "profile" BY <1>8 DEF Writing
    <2>2. target[o] # target[r] /\ ~(name[r] # NoName /\ name[o] = name[r])
      BY <1>1, <2>1 DEF Blocked
    <2>3. target[o] <= used /\ target[o] \in Nat
      BY DEF RowsInv, IdFits, CompanionsTypeOK
    <2>4. QED BY <1>1, <1>3, <2>2, <2>3
  <1>9. WritersApart'
    <2>1. \A o \in Requests \ {r} : Writing(o)' <=> Writing(o)
      BY <1>1 DEF Writing
    <2>2. QED BY <1>1, <1>8, <2>1 DEF RowsInv, WritersApart
  <1>10. IdsFresh' /\ NamesApart'
    BY <1>1, <1>2, <1>3 DEF RowsInv, IdsFresh, NamesApart
  <1>11. QED BY <1>4, <1>5, <1>6, <1>7, <1>9, <1>10 DEF RowsInv

\* What a commit makes of the rows: one of them changes.
LEMMA CommitRows ==
  ASSUME CompanionsTypeOK, KindsFit, RowsInv, NEW r \in Requests, Commit(r)
  PROVE  /\ Own(r) /\ Writing(r) /\ pc'[r] = "idle" /\ kind'[r] = "none" /\ target'[r] = 0
         /\ kind[r] \in {"create", "update", "delete"}
         /\ target[r] \in Ids /\ rows'[target[r]] = name[r]
         /\ \A i \in Ids \ {target[r]} : rows'[i] = rows[i]
         /\ kind[r] = "delete" <=> name[r] = NoName
         /\ Alive' = IF kind[r] = "delete" THEN Alive \ {target[r]} ELSE Alive \cup {target[r]}
         /\ kind[r] = "update" => target[r] \in Alive
         /\ used' = used
  <1>1. /\ Own(r) /\ pc[r] = "commit" /\ pc'[r] = "idle" /\ kind'[r] = "none" /\ target'[r] = 0
        /\ kind[r] \notin {"trip", "profile"} /\ used' = used
        /\ rows' = [rows EXCEPT ![target[r]] = name[r]]
    BY DEF CompanionsTypeOK, Own, Commit, Over, At
  <1>2. Writing(r) /\ kind[r] \in {"create", "update", "delete"}
    BY <1>1 DEF RowsInv, StatementFits, Writing
  <1>3. target[r] \in Ids
    BY <1>1, <1>2 DEF RowsInv, IdFits
  <1>4. rows'[target[r]] = name[r] /\ \A i \in Ids \ {target[r]} : rows'[i] = rows[i]
    BY <1>1, <1>3 DEF CompanionsTypeOK
  <1>5. kind[r] = "delete" <=> name[r] = NoName
    BY <1>2 DEF RowsInv, StatementFits, KindsFit
  <1>6. Alive' = IF kind[r] = "delete" THEN Alive \ {target[r]} ELSE Alive \cup {target[r]}
    <2>1. \A i \in Ids : i \in Alive' <=> IF i = target[r] THEN kind[r] # "delete" ELSE i \in Alive
      BY <1>3, <1>4, <1>5 DEF Alive
    <2>2. Alive' \subseteq Ids /\ Alive \subseteq Ids
      BY DEF Alive, Ids
    <2>3. QED BY <1>3, <2>1, <2>2
  <1>7. kind[r] = "update" => target[r] \in Alive
    BY <1>2 DEF RowsInv, WriteFits
  <1>8. QED BY <1>1, <1>2, <1>3, <1>4, <1>5, <1>6, <1>7

\* A commit keeps rows, names and open transactions apart.
LEMMA CommitApart ==
  ASSUME CompanionsTypeOK, KindsFit, RowsInv, NEW r \in Requests, Commit(r)
  PROVE  RowsInv'
  <1> DEFINE t == target[r]
  <1>1. /\ Own(r) /\ Writing(r) /\ pc'[r] = "idle" /\ kind'[r] = "none" /\ target'[r] = 0
        /\ t \in Ids /\ rows'[t] = name[r]
        /\ \A i \in Ids \ {t} : rows'[i] = rows[i]
        /\ kind[r] = "delete" <=> name[r] = NoName
        /\ Alive' = IF kind[r] = "delete" THEN Alive \ {t} ELSE Alive \cup {t}
        /\ used' = used
    BY CommitRows
  <1>2. used \in Nat /\ t <= used /\ Alive \subseteq Ids
    BY CompanionConstants DEF CompanionsTypeOK, RowsInv, IdFits, Alive
  <1>3. \A o \in Requests \ {r} : Writing(o)' <=> Writing(o)
    BY <1>1 DEF Own, Writing
  <1>4. ASSUME NEW o \in Requests \ {r}, Writing(o)
        PROVE  target[o] # t /\ ~(name[o] # NoName /\ name[o] = name[r])
    BY <1>1, <1>4 DEF RowsInv, WritersApart
  <1>5. StatementFits(r)' /\ IdFits(r)' /\ WriteFits(r)'
    BY <1>1, <1>2 DEF StatementFits, IdFits, WriteFits, Writing
  <1>6. ASSUME NEW o \in Requests \ {r} PROVE StatementFits(o)' /\ IdFits(o)' /\ WriteFits(o)'
    <2>1. StatementFits(o)'
      BY <1>1 DEF RowsInv, Own, StatementFits, Writing
    <2>2. IdFits(o)'
      <3>1. kind[o] = "create" /\ pc[o] = "commit" => target[o] # t /\ target[o] \in Ids \ Alive
        BY <1>4 DEF RowsInv, IdFits, Writing
      <3>2. QED BY <1>1, <3>1 DEF RowsInv, Own, IdFits
    <2>3. WriteFits(o)'
      <3>1. ASSUME Writing(o), kind[o] = "update" PROVE target[o] \in Alive'
        BY <1>1, <1>4, <3>1 DEF RowsInv, WriteFits
      <3>2. ASSUME Writing(o), name[o] # NoName, NEW i \in Alive' \ {target[o]}
            PROVE  rows'[i] # name[o]
        <4>1. CASE i = t BY <1>1, <1>4, <3>2, <4>1
        <4>2. CASE i # t
          <5>1. i \in Alive /\ i \in Ids BY <1>1, <1>2, <3>2, <4>2
          <5>2. QED BY <1>1, <3>2, <4>2, <5>1 DEF RowsInv, WriteFits
        <4>3. QED BY <4>1, <4>2
      <3>3. QED BY <1>1, <1>3, <3>1, <3>2 DEF WriteFits, Own
    <2>4. QED BY <2>1, <2>2, <2>3
  <1>7. WritersApart'
    <2>1. ~Writing(r)' BY <1>1 DEF Writing
    <2>2. QED BY <1>1, <1>3, <2>1 DEF RowsInv, WritersApart, Own
  <1>8. IdsFresh'
    BY <1>1, <1>2 DEF RowsInv, IdsFresh
  <1>9. NamesApart'
    <2>1. ASSUME NEW i \in Alive' \ {t} PROVE i \in Alive /\ rows'[i] = rows[i]
      BY <1>1, <1>2
    <2>2. ASSUME NEW i \in Alive' \ {t}, t \in Alive' PROVE rows'[i] # rows'[t]
      <3>1. name[r] # NoName BY <1>1, <2>2
      <3>2. rows[i] # name[r] BY <1>1, <2>1, <3>1 DEF RowsInv, WriteFits
      <3>3. QED BY <1>1, <2>1, <3>2
    <2>3. ASSUME NEW i \in Alive', NEW j \in Alive', rows'[i] = rows'[j] PROVE i = j
      <3>1. CASE i = t BY <2>2, <2>3, <3>1
      <3>2. CASE j = t BY <2>2, <2>3, <3>2
      <3>3. CASE i # t /\ j # t BY <2>1, <2>3, <3>3 DEF RowsInv, NamesApart
      <3>4. QED BY <3>1, <3>2, <3>3
    <2>4. QED BY <2>3 DEF NamesApart
  <1>10. QED BY <1>5, <1>6, <1>7, <1>8, <1>9 DEF RowsInv

\* Every step keeps rows, names and open transactions apart.
LEMMA RowsStep ==
  ASSUME CompanionsTypeOK, KindsFit, RowsInv, [Next]_vars
  PROVE  RowsInv'
  <1>1. ASSUME UNCHANGED <<rows, used, pc, request>> PROVE RowsInv'
    <2>1. Alive' = Alive BY <1>1 DEF Alive
    <2>2. ASSUME NEW r \in Requests PROVE StatementFits(r)' /\ IdFits(r)' /\ WriteFits(r)'
      BY <1>1, <2>1 DEF RowsInv, request, StatementFits, IdFits, WriteFits, Writing
    <2>3. WritersApart' BY <1>1 DEF RowsInv, request, WritersApart, Writing
    <2>4. IdsFresh' /\ NamesApart' BY <1>1, <2>1 DEF RowsInv, IdsFresh, NamesApart
    <2>5. QED BY <2>2, <2>3, <2>4 DEF RowsInv
  <1>2. ASSUME NEW r \in Requests, NEW n \in Names, CreateCompanion(r, n) PROVE RowsInv'
    BY <1>2, BeginReads, CompanionConstants DEF CreateCompanion
  <1>3. ASSUME NEW r \in Requests, NEW i \in Ids, NEW n \in Names, UpdateCompanion(r, i, n)
        PROVE  RowsInv'
    BY <1>3, BeginReads, CompanionConstants DEF UpdateCompanion, Ids
  <1>4. ASSUME NEW r \in Requests, NEW i \in Ids, DeleteCompanion(r, i) PROVE RowsInv'
    BY <1>4, BeginReads, CompanionConstants DEF DeleteCompanion, Ids
  <1>5. ASSUME NEW r \in Requests, PutProfile(r) PROVE RowsInv'
    BY <1>5, BeginReads, CompanionConstants DEF PutProfile
  <1>6. ASSUME NEW r \in Requests, NEW picked \in SUBSET known, CreateTrip(r, picked)
        PROVE  RowsInv'
    <2>1. /\ Own(r) /\ pc'[r] \in {"think", "select"} /\ kind'[r] = "trip"
          /\ target'[r] = target[r] /\ rows' = rows /\ used' = used
      BY <1>6 DEF CompanionsTypeOK, Own, CreateTrip, At
    <2>2. target[r] <= used BY DEF RowsInv, IdFits
    <2>3. QED BY <2>1, <2>2, ReadStep DEF StatementFits, IdFits, Writing
  <1>7. ASSUME NEW r \in Requests, RequestStep(r) PROVE RowsInv'
    <2>f. StatementFits(r) BY DEF RowsInv
    <2>o. owned \in [Requests -> SUBSET Ids] BY DEF CompanionsTypeOK
    <2>1. CASE CountRows(r)
      <3>1. CASE Over(r, "count", "refused") BY <2>1, <3>1, OverReads DEF CountRows
      <3>2. CASE At(r, "count", "name") /\ UNCHANGED request
        <4>1. kind[r] = "create" BY <2>f, <3>2 DEF StatementFits, At
        <4>2. QED BY <2>1, <2>o, <3>2, <4>1, GoesOn DEF CountRows, request
      <3>3. QED BY <2>1, <3>1, <3>2 DEF CountRows
    <2>2. CASE Load(r)
      <3>1. CASE Over(r, "load", "refused") BY <2>2, <3>1, OverReads DEF Load
      <3>2. CASE At(r, "load", IF kind[r] = "update" THEN "name" ELSE "flush")
                 /\ UNCHANGED request
        <4>1. kind[r] \in {"update", "delete"} BY <2>f, <3>2 DEF StatementFits, At
        <4>2. QED BY <2>2, <2>o, <3>2, <4>1, GoesOn DEF Load, request
      <3>3. QED BY <2>2, <3>1, <3>2 DEF Load
    <2>3. CASE CheckName(r)
      <3>1. ASSUME NEW outcome, Over(r, "name", outcome) PROVE RowsInv'
        BY <2>3, <3>1, OverReads DEF CheckName
      <3>2. CASE At(r, "name", "flush") /\ UNCHANGED request
        <4>1. kind[r] \in {"create", "update"} BY <2>f, <3>2 DEF StatementFits, At
        <4>2. QED BY <2>3, <2>o, <3>2, <4>1, GoesOn DEF CheckName, request
      <3>3. QED BY <2>3, <3>1, <3>2 DEF CheckName
    <2>4. CASE Flush(r)
      <3>1. ASSUME NEW outcome, Over(r, "flush", outcome), used' = used PROVE RowsInv'
        BY <2>4, <3>1, OverReads DEF Flush
      <3>2. CASE At(r, "flush", "commit")
        <4>1. pc'[r] = "commit" BY <3>2 DEF CompanionsTypeOK, At
        <4>2. QED BY <2>4, <4>1, FlushWrites
      <3>3. QED BY <2>4, <3>1, <3>2 DEF Flush
    <2>5. CASE Commit(r)
      BY <2>5, CommitApart
    <2>6. CASE FindProfile(r)
      <3>1. kind[r] = "profile" BY <2>6, <2>f DEF StatementFits, FindProfile, At
      <3>2. QED BY <2>6, <2>o, <3>1, GoesOn DEF FindProfile, request
    <2>7. CASE FlushProfile(r)
      <3>1. CASE Over(r, "insert", "error") BY <2>7, <3>1, OverReads DEF FlushProfile
      <3>2. CASE At(r, pc[r], "commit") /\ UNCHANGED request
        <4>1. kind[r] = "profile" /\ pc[r] # "commit"
          BY <2>7, <2>f DEF StatementFits, FlushProfile
        <4>2. QED BY <2>7, <2>o, <3>2, <4>1, GoesOn DEF FlushProfile, request
      <3>3. QED BY <2>7, <3>1, <3>2 DEF FlushProfile
    <2>8. CASE CommitProfile(r)
      BY <2>8, OverReads DEF CommitProfile
    <2>9. CASE SelectOwned(r)
      <3>1. owned' \in [Requests -> SUBSET Ids] /\ \A o \in Requests \ {r} : owned'[o] = owned[o]
        BY <2>9 DEF CompanionsTypeOK, SelectOwned
      <3>2. QED BY <2>9, <3>1, GoesOn DEF SelectOwned
    <2>10. CASE TripFails(r)
      BY <2>10, OverReads DEF TripFails
    <2>11. ASSUME NEW questions \in BOOLEAN, TripCommits(r, questions) PROVE RowsInv'
      BY <2>11, OverReads DEF TripCommits
    <2>12. QED BY <1>7, <2>1, <2>2, <2>3, <2>4, <2>5, <2>6, <2>7, <2>8, <2>9, <2>10, <2>11
                DEF RequestStep
  <1>8. ASSUME Clarify \/ RunTrip \/ UNCHANGED vars PROVE RowsInv'
    BY <1>1, <1>8 DEF Clarify, RunTrip, vars, request
  <1>9. QED BY <1>2, <1>3, <1>4, <1>5, <1>6, <1>7, <1>8 DEF Next

-------------------------------------------------------------------------------
(* Counting.                                                               *)

\* The requests that the cap has let pass and that have not committed.
Adding == {r \in Requests : kind[r] = "create" /\ pc[r] \in {"name", "flush", "commit"}}

\* Whoever passed the cap counted a free place, and so did the others on their way.
PlacesCounted == Cardinality(Alive) + Cardinality(Adding) <= Cap + Cardinality(Requests) - 1

\* The sets counted are finite.
LEMMA Finite ==
  /\ IsFiniteSet(Alive) /\ Cardinality(Alive) \in Nat
  /\ IsFiniteSet(Adding) /\ Cardinality(Adding) \in Nat
  /\ Cardinality(Requests) \in Nat /\ Cardinality(Adding) <= Cardinality(Requests)
  <1>1. IsFiniteSet(Ids)
    BY CompanionConstants, FS_Interval DEF Ids
  <1>2. Alive \in SUBSET Ids /\ Adding \in SUBSET Requests
    BY DEF Alive, Adding
  <1>3. QED BY <1>1, <1>2, CompanionConstants, FS_Subset, FS_CardinalityType

\* Fewer rows and fewer requests on their way do no harm.
LEMMA FewerPlaces ==
  ASSUME PlacesCounted, NEW A \in SUBSET Alive, NEW D \in SUBSET Adding
  PROVE  Cardinality(A) + Cardinality(D) <= Cap + Cardinality(Requests) - 1
  <1>1. /\ IsFiniteSet(Alive) /\ Cardinality(Alive) \in Nat
        /\ IsFiniteSet(Adding) /\ Cardinality(Adding) \in Nat /\ Cardinality(Requests) \in Nat
    BY Finite
  <1>2. Cardinality(A) <= Cardinality(Alive) /\ Cardinality(D) <= Cardinality(Adding)
    BY <1>1, FS_Subset
  <1>3. Cardinality(A) \in Nat /\ Cardinality(D) \in Nat
    BY <1>1, FS_Subset, FS_CardinalityType
  <1>4. QED BY <1>1, <1>2, <1>3, CompanionConstants DEF PlacesCounted

\* Every step keeps the count: only CountRows lets a request pass, and a commit turns a
\* request on its way into a row.
LEMMA PlacesStep ==
  ASSUME CompanionsTypeOK, KindsFit, RowsInv, PlacesCounted, [Next]_vars
  PROVE  PlacesCounted'
  <1>1. ASSUME Alive' \subseteq Alive, Adding' \subseteq Adding PROVE PlacesCounted'
    <2>1. Cardinality(Alive') + Cardinality(Adding') <= Cap + Cardinality(Requests) - 1
      BY <1>1, FewerPlaces
    <2>2. QED BY <2>1 DEF PlacesCounted
  \* A step of r that does not pass the cap, and no step on rows.
  <1>2. ASSUME NEW r \in Requests, rows' = rows,
               \A o \in Requests \ {r} : pc'[o] = pc[o] /\ kind'[o] = kind[o],
               r \in Adding \/ ~(kind'[r] = "create" /\ pc'[r] \in {"name", "flush", "commit"})
        PROVE  PlacesCounted'
    <2>1. Alive' = Alive BY <1>2 DEF Alive
    <2>2. Adding' \subseteq Adding BY <1>2 DEF Adding
    <2>3. QED BY <1>1, <2>1, <2>2
  <1>3. ASSUME NEW r \in Requests, NEW from, NEW outcome, Over(r, from, outcome), rows' = rows
        PROVE  PlacesCounted'
    <2>1. /\ \A o \in Requests \ {r} : pc'[o] = pc[o] /\ kind'[o] = kind[o]
          /\ pc'[r] = "idle"
      BY <1>3 DEF CompanionsTypeOK, Over, At
    <2>2. QED BY <1>2, <1>3, <2>1
  <1>4. ASSUME NEW r \in Requests, NEW from, NEW to, At(r, from, to), kind' = kind, rows' = rows,
               \/ to \notin {"name", "flush", "commit"}
               \/ from \in {"name", "flush"}
               \/ kind[r] # "create"
        PROVE  PlacesCounted'
    <2>1. /\ \A o \in Requests \ {r} : pc'[o] = pc[o] /\ kind'[o] = kind[o]
          /\ pc[r] = from /\ pc'[r] = to /\ kind'[r] = kind[r]
      BY <1>4 DEF CompanionsTypeOK, At
    <2>2. r \in Adding \/ ~(kind'[r] = "create" /\ pc'[r] \in {"name", "flush", "commit"})
      BY <1>4, <2>1 DEF Adding
    <2>3. QED BY <1>2, <1>4, <2>1, <2>2
  <1>5. ASSUME NEW r \in Requests, NEW k, NEW n, NEW i,
               NEW first \in {"count", "load", "profile"}, Begin(r, k, n, i, first)
        PROVE  PlacesCounted'
    <2>1. /\ \A o \in Requests \ {r} : pc'[o] = pc[o] /\ kind'[o] = kind[o]
          /\ pc'[r] = first /\ rows' = rows
      BY <1>5 DEF CompanionsTypeOK, Begin, At
    <2>2. QED BY <1>2, <2>1
  <1>6. ASSUME NEW r \in Requests, NEW picked \in SUBSET known, CreateTrip(r, picked)
        PROVE  PlacesCounted'
    <2>1. /\ \A o \in Requests \ {r} : pc'[o] = pc[o] /\ kind'[o] = kind[o]
          /\ kind'[r] = "trip" /\ rows' = rows
      BY <1>6 DEF CompanionsTypeOK, CreateTrip, At
    <2>2. QED BY <1>2, <2>1
  <1>7. ASSUME NEW r \in Requests, CountRows(r) PROVE PlacesCounted'
    <2>1. CASE Over(r, "count", "refused") BY <1>3, <1>7, <2>1 DEF CountRows
    <2>2. CASE Cardinality(Alive) < Cap
      <3>1. Alive' = Alive BY <1>7 DEF CountRows, Alive
      <3>2. Cardinality(Alive) \in Nat /\ Cardinality(Requests) \in Nat
        BY Finite
      <3>3. Cardinality(Adding') \in Nat /\ Cardinality(Adding') <= Cardinality(Requests)
        <4>1. Adding' \in SUBSET Requests BY DEF Adding
        <4>2. QED BY <4>1, CompanionConstants, FS_Subset, FS_CardinalityType
      <3>4. Cardinality(Alive') + Cardinality(Adding') <= Cap + Cardinality(Requests) - 1
        BY <2>2, <3>1, <3>2, <3>3, CompanionConstants
      <3>5. QED BY <3>4 DEF PlacesCounted
    <2>3. QED BY <1>7, <2>1, <2>2 DEF CountRows
  <1>8. ASSUME NEW r \in Requests, Commit(r) PROVE PlacesCounted'
    <2>1. /\ Own(r) /\ Writing(r) /\ pc'[r] = "idle"
          /\ kind[r] \in {"create", "update", "delete"}
          /\ Alive' = IF kind[r] = "delete" THEN Alive \ {target[r]} ELSE Alive \cup {target[r]}
          /\ kind[r] = "update" => target[r] \in Alive
      BY <1>8, CommitRows
    <2>2. Adding' \subseteq Adding \ {r}
      BY <2>1 DEF Adding, Own
    <2>3. CASE kind[r] # "create"
      <3>1. Alive' \subseteq Alive BY <2>1, <2>3
      <3>2. QED BY <1>1, <2>2, <3>1
    <2>4. CASE kind[r] = "create"
      <3>1. r \in Adding BY <2>1, <2>4 DEF Adding, Writing
      <3>2. /\ IsFiniteSet(Alive) /\ Cardinality(Alive) \in Nat
            /\ IsFiniteSet(Adding) /\ Cardinality(Adding) \in Nat /\ Cardinality(Requests) \in Nat
        BY Finite
      <3>3. Alive' = Alive \cup {target[r]} BY <2>1, <2>4
      <3>4. Cardinality(Alive') \in Nat /\ Cardinality(Alive') <= Cardinality(Alive) + 1
        <4>1. /\ IsFiniteSet(Alive \cup {target[r]})
              /\ Cardinality(Alive \cup {target[r]}) =
                   IF target[r] \in Alive THEN Cardinality(Alive) ELSE Cardinality(Alive) + 1
          BY <3>2, FS_AddElement
        <4>2. QED BY <3>2, <3>3, <4>1
      <3>5. Cardinality(Adding') \in Nat /\ Cardinality(Adding') <= Cardinality(Adding) - 1
        <4>1. /\ IsFiniteSet(Adding \ {r})
              /\ Cardinality(Adding \ {r}) = Cardinality(Adding) - 1
          BY <3>1, <3>2, FS_RemoveElement
        <4>2. Adding' \in SUBSET (Adding \ {r}) BY <2>2
        <4>3. QED BY <4>1, <4>2, FS_Subset, FS_CardinalityType
      <3>6. Cardinality(Alive') + Cardinality(Adding') <= Cap + Cardinality(Requests) - 1
        BY <3>2, <3>4, <3>5, CompanionConstants DEF PlacesCounted
      <3>7. QED BY <3>6 DEF PlacesCounted
    <2>5. QED BY <2>3, <2>4
  <1>9. ASSUME NEW r \in Requests, RequestStep(r) PROVE PlacesCounted'
    <2>f. StatementFits(r) BY DEF RowsInv
    <2>1. CASE CountRows(r) BY <1>7, <2>1
    <2>2. CASE Load(r)
      <3>1. pc[r] = "load" BY <2>2 DEF Load, Over, At
      <3>2. kind[r] # "create" BY <2>f, <3>1 DEF StatementFits
      <3>3. QED BY <1>3, <1>4, <2>2, <3>2 DEF Load, request
    <2>3. CASE CheckName(r)
      BY <1>3, <1>4, <2>3 DEF CheckName, request
    <2>4. CASE Flush(r)
      BY <1>3, <1>4, <2>4 DEF Flush, request
    <2>5. CASE Commit(r) BY <1>8, <2>5
    <2>6. CASE FindProfile(r)
      BY <1>4, <2>6 DEF FindProfile, request
    <2>7. CASE FlushProfile(r)
      <3>1. kind[r] # "create" BY <2>7, <2>f DEF StatementFits, FlushProfile
      <3>2. QED BY <1>3, <1>4, <2>7, <3>1 DEF FlushProfile, request
    <2>8. CASE CommitProfile(r)
      BY <1>3, <2>8 DEF CommitProfile
    <2>9. CASE SelectOwned(r)
      BY <1>4, <2>9 DEF SelectOwned
    <2>10. CASE TripFails(r)
      BY <1>3, <2>10 DEF TripFails
    <2>11. ASSUME NEW questions \in BOOLEAN, TripCommits(r, questions) PROVE PlacesCounted'
      BY <1>3, <2>11 DEF TripCommits
    <2>12. QED BY <1>9, <2>1, <2>2, <2>3, <2>4, <2>5, <2>6, <2>7, <2>8, <2>9, <2>10, <2>11
                DEF RequestStep
  <1>10. ASSUME Clarify \/ RunTrip \/ UNCHANGED vars PROVE PlacesCounted'
    <2>1. Alive' = Alive /\ Adding' = Adding
      BY <1>10 DEF Clarify, RunTrip, vars, request, Alive, Adding
    <2>2. QED BY <1>1, <2>1
  <1>11. ASSUME NEW r \in Requests,
                \/ \E n \in Names : CreateCompanion(r, n)
                \/ \E i \in Ids, n \in Names : UpdateCompanion(r, i, n)
                \/ \E i \in Ids : DeleteCompanion(r, i)
                \/ PutProfile(r)
         PROVE  PlacesCounted'
    BY <1>5, <1>11 DEF CreateCompanion, UpdateCompanion, DeleteCompanion, PutProfile
  <1>12. QED BY <1>6, <1>9, <1>10, <1>11 DEF Next

-------------------------------------------------------------------------------
(* One request at a time.                                                  *)

\* What a request on its way has read still holds.
Sound(r) ==
  /\ r \in Adding => Cardinality(Alive) < Cap
  /\ kind[r] = "update" /\ pc[r] \in {"name", "flush", "commit"} => target[r] \in Alive
  /\ kind[r] \in {"create", "update"} /\ pc[r] \in {"flush", "commit"} => Twins(r) = {}
  /\ pc[r] = "insert" => ~profile
  /\ owned[r] \subseteq Alive

\* The promise of the API, without a race.
Kept ==
  /\ Cardinality(Alive) <= Cap
  /\ \A i, j \in Alive : Fold[rows[i]] = Fold[rows[j]] => i = j
  /\ errors = 0

\* As long as no two requests overlap, one works at a time, on what it has read.
Undisturbed ==
  ~overlap =>
    /\ \A r, s \in Requests : pc[r] # "idle" /\ pc[s] # "idle" => r = s
    /\ \A r \in Requests : Sound(r)
    /\ Kept

\* A step of r, when the others are idle.
LEMMA AloneStep ==
  ASSUME CompanionsTypeOK, PickedInv, NEW r \in Requests, Own(r),
         \A o \in Requests \ {r} : pc[o] = "idle",
         Sound(r)', Kept'
  PROVE  Undisturbed'
  <1>1. ASSUME NEW o \in Requests \ {r}
        PROVE  pc'[o] = "idle" /\ kind'[o] = "none" /\ owned'[o] = {}
    BY DEF Own, PickedInv, KindsFit, OneCreator
  <1>2. ASSUME NEW o \in Requests \ {r} PROVE Sound(o)'
    BY <1>1 DEF Sound, Adding
  <1>3. QED BY <1>1, <1>2 DEF Undisturbed

\* A request that is over leaves nothing unsound.
LEMMA OverAlone ==
  ASSUME CompanionsTypeOK, PickedInv, NEW r \in Requests,
         \A o \in Requests \ {r} : pc[o] = "idle",
         NEW from, NEW outcome, Over(r, from, outcome), Kept'
  PROVE  Undisturbed'
  <1>1. Own(r) /\ pc'[r] = "idle" /\ kind'[r] = "none" /\ owned'[r] = {}
    BY DEF CompanionsTypeOK, Own, Over, At
  <1>2. Sound(r)' BY <1>1 DEF Sound, Adding
  <1>3. QED BY <1>1, <1>2, AloneStep

\* At most one companion has a name that differs in case only.
LEMMA OneTwin ==
  ASSUME Kept, NEW r \in Requests
  PROVE  ~(Cardinality(Twins(r)) > 1)
  <1>1. Twins(r) \subseteq Alive /\ \A i, j \in Twins(r) : i = j
    BY DEF Kept, Twins
  <1>2. CASE Twins(r) = {}
    BY <1>2, FS_EmptySet
  <1>3. CASE Twins(r) # {}
    <2>1. PICK i : i \in Twins(r) BY <1>3
    <2>2. Twins(r) = {i} BY <1>1, <2>1
    <2>3. Cardinality({i}) = 1 BY FS_Singleton
    <2>4. QED BY <2>2, <2>3
  <1>4. QED BY <1>2, <1>3

\* Every step of a request that works alone.
LEMMA RequestAlone ==
  ASSUME CompanionsTypeOK, PickedInv, RowsInv, Undisturbed, ~overlap,
         NEW r \in Requests, RequestStep(r)
  PROVE  Undisturbed'
  <1>1. pc[r] # "idle"
    <2>1. CASE CountRows(r) \/ Load(r) \/ CheckName(r) \/ Flush(r) \/ Commit(r)
      BY <2>1 DEF CountRows, Load, CheckName, Flush, Commit, Over, At
    <2>2. CASE FindProfile(r) \/ FlushProfile(r) \/ CommitProfile(r)
      BY <2>2 DEF FindProfile, FlushProfile, CommitProfile, Over, At
    <2>3. CASE SelectOwned(r) \/ TripFails(r) \/ \E q \in BOOLEAN : TripCommits(r, q)
      BY <2>3 DEF SelectOwned, TripFails, TripCommits, Over, At
    <2>4. QED BY <2>1, <2>2, <2>3 DEF RequestStep
  <1>2. /\ \A o \in Requests \ {r} : pc[o] = "idle"
        /\ Sound(r) /\ Kept
    BY <1>1 DEF Undisturbed
  <1>f. StatementFits(r) /\ IdFits(r) /\ KindsFit BY DEF RowsInv, PickedInv
  <1>3. ASSUME NEW from, NEW outcome \in {"done", "refused"}, Over(r, from, outcome), rows' = rows
        PROVE  Undisturbed'
    <2>1. Alive' = Alive /\ errors' = errors BY <1>3 DEF Alive, Over
    <2>2. Kept' BY <1>2, <1>3, <2>1 DEF Kept
    <2>3. QED BY <1>2, <1>3, <2>2, OverAlone
  <1>4. ASSUME NEW from, NEW to, At(r, from, to), UNCHANGED <<rows, kind, name, errors>>,
               \A o \in Requests \ {r} : target'[o] = target[o] /\ owned'[o] = owned[o],
               Sound(r)'
        PROVE  Undisturbed'
    <2>1. Alive' = Alive BY <1>4 DEF Alive
    <2>2. Kept' BY <1>2, <1>4, <2>1 DEF Kept
    <2>3. Own(r) BY <1>4 DEF CompanionsTypeOK, Own, At
    <2>4. QED BY <1>2, <1>4, <2>2, <2>3, AloneStep
  \* A step that leaves locals and rows as they are.
  <1>5. ASSUME NEW from, NEW to, At(r, from, to), UNCHANGED <<rows, profile, kind, name, target, owned>>
        PROVE  /\ Alive' = Alive /\ Twins(r)' = Twins(r)
               /\ pc[r] = from /\ pc'[r] = to
               /\ kind'[r] = kind[r] /\ target'[r] = target[r] /\ owned'[r] = owned[r]
               /\ profile' = profile
               /\ r \in Adding' <=> kind[r] = "create" /\ to \in {"name", "flush", "commit"}
    BY <1>5 DEF CompanionsTypeOK, At, Alive, Twins, Adding
  <1>6. CASE CountRows(r)
    <2>1. CASE Over(r, "count", "refused") BY <1>3, <1>6, <2>1 DEF CountRows
    <2>2. CASE /\ Cardinality(Alive) < Cap /\ At(r, "count", "name")
               /\ UNCHANGED <<request, errors>>
      <3>1. UNCHANGED <<rows, profile, kind, name, target, owned, errors>>
        BY <1>6, <2>2 DEF CountRows, request
      <3>2. kind[r] = "create" BY <1>f, <2>2 DEF StatementFits, At
      <3>3. Sound(r)'
        BY <1>2, <1>5, <2>2, <3>1, <3>2 DEF Sound
      <3>4. QED BY <1>4, <2>2, <3>1, <3>3
    <2>3. QED BY <1>6, <2>1, <2>2 DEF CountRows
  <1>7. CASE Load(r)
    <2> DEFINE to == IF kind[r] = "update" THEN "name" ELSE "flush"
    <2>1. CASE Over(r, "load", "refused") BY <1>3, <1>7, <2>1 DEF Load
    <2>2. CASE target[r] \in Alive /\ At(r, "load", to) /\ UNCHANGED <<request, errors>>
      <3>1. UNCHANGED <<rows, profile, kind, name, target, owned, errors>>
        BY <1>7, <2>2 DEF Load, request
      <3>2. kind[r] \in {"update", "delete"} BY <1>f, <2>2 DEF StatementFits, At
      <3>3. /\ Alive' = Alive /\ pc'[r] = to /\ kind'[r] = kind[r] /\ target'[r] = target[r]
            /\ owned'[r] = owned[r] /\ r \notin Adding'
        BY <1>5, <2>2, <3>1, <3>2
      <3>4. Sound(r)'
        BY <1>2, <2>2, <3>2, <3>3 DEF Sound
      <3>5. QED BY <1>4, <2>2, <3>1, <3>4
    <2>3. QED BY <1>7, <2>1, <2>2 DEF Load
  <1>8. CASE CheckName(r)
    <2>1. CASE Over(r, "name", IF Cardinality(Twins(r)) > 1 THEN "error" ELSE "refused")
      <3>1. Over(r, "name", "refused") BY <1>2, <2>1, OneTwin
      <3>2. QED BY <1>3, <1>8, <3>1 DEF CheckName
    <2>2. CASE Twins(r) = {} /\ At(r, "name", "flush") /\ UNCHANGED <<request, errors>>
      <3>1. UNCHANGED <<rows, profile, kind, name, target, owned, errors>>
        BY <1>8, <2>2 DEF CheckName, request
      <3>2. /\ Alive' = Alive /\ Twins(r)' = {} /\ pc[r] = "name" /\ pc'[r] = "flush"
            /\ kind'[r] = kind[r] /\ target'[r] = target[r] /\ owned'[r] = owned[r]
            /\ r \in Adding' => kind[r] = "create"
        BY <1>5, <2>2, <3>1
      <3>3. r \in Adding' => r \in Adding BY <3>2 DEF Adding
      <3>4. Sound(r)'
        BY <1>2, <3>2, <3>3 DEF Sound
      <3>5. QED BY <1>4, <2>2, <3>1, <3>4
    <2>3. QED BY <1>8, <2>1, <2>2 DEF CheckName
  <1>9. CASE Flush(r)
    <2>1. pc[r] = "flush" /\ rows' = rows /\ profile' = profile BY <1>9 DEF Flush
    <2>2. CASE Over(r, "flush", "refused") BY <1>3, <2>1, <2>2
    <2>3. ~(kind[r] = "update" /\ target[r] \notin Alive)
      BY <1>2, <2>1 DEF Sound
    <2>4. CASE /\ kind[r] = "create" /\ used < MaxIds /\ At(r, "flush", "commit")
               /\ target' = [target EXCEPT ![r] = used + 1]
               /\ UNCHANGED <<kind, name, owned, errors>>
      <3>1. /\ pc'[r] = "commit" /\ kind'[r] = "create" /\ owned'[r] = owned[r]
            /\ Alive' = Alive /\ target[r] = 0 /\ r \in Adding /\ Twins(r) = {}
            /\ \A o \in Requests \ {r} : target'[o] = target[o]
        BY <1>2, <1>f, <2>1, <2>4 DEF CompanionsTypeOK, At, Alive, IdFits, Adding, Sound
      <3>2. 0 \notin Alive BY CompanionConstants DEF Alive, Ids
      <3>3. Twins(r)' = {}
        BY <2>1, <2>4, <3>1, <3>2 DEF Twins
      <3>4. Sound(r)'
        BY <1>2, <3>1, <3>3 DEF Sound
      <3>5. QED BY <1>4, <2>1, <2>4, <3>1, <3>4
    <2>5. CASE /\ kind[r] \in {"update", "delete"} /\ At(r, "flush", "commit")
               /\ UNCHANGED <<request, errors>>
      <3>1. UNCHANGED <<rows, profile, kind, name, target, owned, errors>>
        BY <2>1, <2>5 DEF request
      <3>2. /\ Alive' = Alive /\ Twins(r)' = Twins(r) /\ pc'[r] = "commit"
            /\ kind'[r] = kind[r] /\ target'[r] = target[r] /\ owned'[r] = owned[r]
            /\ r \notin Adding'
        BY <1>5, <2>5, <3>1
      <3>3. Sound(r)'
        BY <1>2, <2>1, <3>2 DEF Sound
      <3>4. QED BY <1>4, <2>5, <3>1, <3>3
    <2>6. QED BY <1>9, <2>2, <2>3, <2>4, <2>5 DEF Flush
  <1>10. CASE Commit(r)
    <2> DEFINE t == target[r]
    <2>1. /\ Writing(r) /\ t \in Ids /\ rows'[t] = name[r]
          /\ kind[r] \in {"create", "update", "delete"}
          /\ \A i \in Ids \ {t} : rows'[i] = rows[i]
          /\ Alive' = IF kind[r] = "delete" THEN Alive \ {t} ELSE Alive \cup {t}
          /\ kind[r] = "update" => t \in Alive
      BY <1>f, <1>10, CommitRows
    <2>2. /\ IsFiniteSet(Alive) /\ Cardinality(Alive) \in Nat /\ Alive \subseteq Ids
      BY Finite DEF Alive
    <2>3. Cardinality(Alive') <= Cap
      <3>1. CASE kind[r] = "create"
        <4>1. Cardinality(Alive) < Cap
          BY <1>2, <2>1, <3>1 DEF Sound, Adding, Writing
        <4>2. Cardinality(Alive \cup {t}) =
                IF t \in Alive THEN Cardinality(Alive) ELSE Cardinality(Alive) + 1
          BY <2>2, FS_AddElement
        <4>3. Alive' = Alive \cup {t} BY <2>1, <3>1
        <4>4. QED BY <2>2, <4>1, <4>2, <4>3, CompanionConstants
      <3>2. CASE kind[r] # "create"
        <4>1. Alive' \in SUBSET Alive BY <2>1, <3>2
        <4>2. Cardinality(Alive') \in Nat /\ Cardinality(Alive') <= Cardinality(Alive)
          BY <2>2, <4>1, FS_Subset, FS_CardinalityType
        <4>3. QED BY <1>2, <2>2, <4>2, CompanionConstants DEF Kept
      <3>3. QED BY <3>1, <3>2
    <2>4. ASSUME NEW i \in Alive' \ {t} PROVE i \in Alive /\ rows'[i] = rows[i]
      BY <2>1, <2>2, <2>4
    <2>5. ASSUME NEW i \in Alive' \ {t}, t \in Alive' PROVE Fold[rows'[i]] # Fold[rows'[t]]
      <3>1. kind[r] \in {"create", "update"} BY <2>1, <2>5
      <3>2. Twins(r) = {} BY <1>2, <2>1, <3>1 DEF Sound, Writing
      <3>3. QED BY <2>1, <2>4, <2>5, <3>2 DEF Twins
    <2>6. ASSUME NEW i \in Alive', NEW j \in Alive', Fold[rows'[i]] = Fold[rows'[j]]
          PROVE  i = j
      <3>1. CASE i = t BY <2>5, <2>6, <3>1
      <3>2. CASE j = t BY <2>5, <2>6, <3>2
      <3>3. CASE i # t /\ j # t BY <1>2, <2>4, <2>6, <3>3 DEF Kept
      <3>4. QED BY <3>1, <3>2, <3>3
    <2>7. errors' = 0 /\ Over(r, "commit", "done")
      BY <1>2, <1>10 DEF Commit, Over, Kept
    <2>8. Kept' BY <2>3, <2>6, <2>7 DEF Kept
    <2>9. QED BY <1>2, <2>7, <2>8, OverAlone
  <1>11. CASE FindProfile(r)
    <2>1. At(r, "profile", IF profile THEN "rewrite" ELSE "insert")
          /\ UNCHANGED <<rows, profile, kind, name, target, owned, errors>>
      BY <1>11 DEF FindProfile, request
    <2>2. Sound(r)'
      BY <1>2, <1>5, <2>1 DEF Sound
    <2>3. QED BY <1>4, <2>1, <2>2
  <1>12. CASE FlushProfile(r)
    <2>1. kind[r] = "profile" /\ pc[r] \in {"insert", "rewrite"}
      BY <1>12, <1>f DEF StatementFits, FlushProfile
    <2>2. ~(pc[r] = "insert" /\ profile) BY <1>2 DEF Sound
    <2>3. At(r, pc[r], "commit") /\ UNCHANGED <<rows, profile, kind, name, target, owned, errors>>
      BY <1>12, <2>2 DEF FlushProfile, request
    <2>4. Sound(r)'
      BY <1>2, <1>5, <2>1, <2>3 DEF Sound
    <2>5. QED BY <1>4, <2>3, <2>4
  <1>13. CASE CommitProfile(r)
    BY <1>3, <1>13 DEF CommitProfile
  <1>14. CASE SelectOwned(r)
    <2>1. /\ At(r, "select", "think") /\ UNCHANGED <<rows, profile, kind, name, target, errors>>
          /\ owned' = [owned EXCEPT ![r] = trip.picked \cap Alive]
      BY <1>14 DEF SelectOwned
    <2>2. /\ pc'[r] = "think" /\ owned'[r] = trip.picked \cap Alive /\ Alive' = Alive
          /\ \A o \in Requests \ {r} : target'[o] = target[o] /\ owned'[o] = owned[o]
      BY <2>1 DEF CompanionsTypeOK, At, Alive
    <2>3. Sound(r)' BY <2>2 DEF Sound, Adding
    <2>4. QED BY <1>4, <2>1, <2>2, <2>3
  <1>15. CASE TripFails(r)
    BY <1>2, <1>15 DEF Sound, TripFails
  <1>16. ASSUME NEW questions \in BOOLEAN, TripCommits(r, questions) PROVE Undisturbed'
    BY <1>3, <1>16 DEF TripCommits
  <1>17. QED BY <1>6, <1>7, <1>8, <1>9, <1>10, <1>11, <1>12, <1>13, <1>14, <1>15, <1>16
             DEF RequestStep

\* Every step of the system.
LEMMA UndisturbedStep ==
  ASSUME CompanionsTypeOK, PickedInv, RowsInv, Undisturbed, [Next]_vars
  PROVE  Undisturbed'
  <1> SUFFICES ASSUME ~overlap' PROVE Undisturbed'
    BY DEF Undisturbed
  \* A request that begins finds the others idle.
  <1>1. ASSUME NEW r \in Requests, NEW k, NEW n, NEW i,
               NEW first \in {"count", "load", "profile"}, Begin(r, k, n, i, first)
        PROVE  Undisturbed'
    <2>1. /\ ~overlap /\ \A o \in Requests \ {r} : pc[o] = "idle"
          /\ pc[r] = "idle" /\ pc'[r] = first /\ owned' = owned /\ errors' = errors
          /\ rows' = rows /\ Own(r)
      BY <1>1 DEF CompanionsTypeOK, Begin, At, Own
    <2>2. owned[r] = {} BY <2>1 DEF PickedInv, KindsFit, OneCreator
    <2>3. Sound(r)' BY <2>1, <2>2 DEF Sound, Adding
    <2>4. Kept' BY <2>1 DEF Undisturbed, Kept, Alive
    <2>5. QED BY <2>1, <2>3, <2>4, AloneStep
  <1>2. ASSUME NEW r \in Requests, NEW picked \in SUBSET known, CreateTrip(r, picked)
        PROVE  Undisturbed'
    <2>1. /\ ~overlap /\ \A o \in Requests \ {r} : pc[o] = "idle"
          /\ pc[r] = "idle" /\ pc'[r] \in {"think", "select"} /\ kind'[r] = "trip"
          /\ owned' = owned /\ errors' = errors
          /\ rows' = rows /\ Own(r)
      BY <1>2 DEF CompanionsTypeOK, CreateTrip, At, Own
    <2>2. owned[r] = {} BY <2>1 DEF PickedInv, KindsFit, OneCreator
    <2>3. Sound(r)' BY <2>1, <2>2 DEF Sound, Adding
    <2>4. Kept' BY <2>1 DEF Undisturbed, Kept, Alive
    <2>5. QED BY <2>1, <2>3, <2>4, AloneStep
  <1>3. ASSUME NEW r \in Requests, RequestStep(r) PROVE Undisturbed'
    <2>1. overlap' = overlap
      <3>1. CASE CountRows(r) \/ Load(r) \/ CheckName(r) \/ Flush(r) \/ Commit(r)
        BY <3>1 DEF CountRows, Load, CheckName, Flush, Commit, Over
      <3>2. CASE FindProfile(r) \/ FlushProfile(r) \/ CommitProfile(r)
        BY <3>2 DEF FindProfile, FlushProfile, CommitProfile, Over
      <3>3. CASE SelectOwned(r) \/ TripFails(r) \/ \E q \in BOOLEAN : TripCommits(r, q)
        BY <3>3 DEF SelectOwned, TripFails, TripCommits, Over
      <3>4. QED BY <1>3, <3>1, <3>2, <3>3 DEF RequestStep
    <2>2. QED BY <1>3, <2>1, RequestAlone
  <1>4. ASSUME Clarify \/ RunTrip \/ UNCHANGED vars PROVE Undisturbed'
    <2>1. UNCHANGED <<rows, profile, pc, kind, name, target, owned, errors, overlap>>
      BY <1>4 DEF Clarify, RunTrip, vars, request
    <2>2. Alive' = Alive /\ Adding' = Adding BY <2>1 DEF Alive, Adding
    <2>3. \A r \in Requests : Sound(r) => Sound(r)'
      BY <2>1, <2>2 DEF Sound, Twins
    <2>4. Kept => Kept' BY <2>1, <2>2 DEF Kept
    <2>5. QED BY <2>1, <2>3, <2>4 DEF Undisturbed
  <1>5. ASSUME NEW r \in Requests,
               \/ \E n \in Names : CreateCompanion(r, n)
               \/ \E i \in Ids, n \in Names : UpdateCompanion(r, i, n)
               \/ \E i \in Ids : DeleteCompanion(r, i)
               \/ PutProfile(r)
        PROVE  Undisturbed'
    BY <1>1, <1>5 DEF CreateCompanion, UpdateCompanion, DeleteCompanion, PutProfile
  <1>6. QED BY <1>2, <1>3, <1>4, <1>5 DEF Next

\* The three invariants hold: before any request there is nothing to race for.
LEMMA CompanionsKept == Spec => [](RowsInv /\ PlacesCounted /\ Undisturbed)
  <1>1. Init => RowsInv /\ PlacesCounted /\ Undisturbed
    <2> SUFFICES ASSUME Init PROVE RowsInv /\ PlacesCounted /\ Undisturbed
      OBVIOUS
    <2>1. /\ Alive = {} /\ Adding = {} /\ Cardinality(Alive) = 0 /\ Cardinality(Adding) = 0
      <3>1. Alive = {} /\ Adding = {} BY DEF Init, Alive, Adding
      <3>2. QED BY <3>1, FS_EmptySet
    <2>2. RowsInv
      BY <2>1 DEF Init, RowsInv, StatementFits, IdFits, WriteFits, Writing, IdsFresh,
                  WritersApart, NamesApart
    <2>3. PlacesCounted
      BY <2>1, Finite, CompanionConstants DEF PlacesCounted
    <2>4. Undisturbed
      BY <2>1, CompanionConstants DEF Init, Undisturbed, Sound, Kept
    <2>5. QED BY <2>2, <2>3, <2>4
  <1>2. /\ CompanionsTypeOK /\ PickedInv /\ [Next]_vars
        /\ RowsInv /\ PlacesCounted /\ Undisturbed
        => (RowsInv /\ PlacesCounted /\ Undisturbed)'
    <2>1. PickedInv => KindsFit BY DEF PickedInv
    <2>2. QED BY <2>1, RowsStep, PlacesStep, UndisturbedStep
  <1>3. QED BY <1>1, <1>2, CompanionsTyped, PickedHolds, PTL DEF Spec

\* Without overlapping requests the API keeps its word: the cap, names that differ in more
\* than case, and no internal error.  In a race of any number of requests the cap is passed
\* by fewer than these, and names differ at least letter by letter.
THEOREM CapAndNamesHold == Spec => []NamesAndCap
  <1>1. RowsInv /\ PlacesCounted /\ Undisturbed => NamesAndCap
    <2> SUFFICES ASSUME RowsInv, PlacesCounted, Undisturbed PROVE NamesAndCap
      OBVIOUS
    <2>1. Cardinality(Alive) <= Cap + Cardinality(Requests) - 1
      BY Finite, CompanionConstants DEF PlacesCounted
    <2>2. QED BY <2>1 DEF NamesAndCap, RowsInv, NamesApart, Undisturbed, Kept
  <1>2. QED BY <1>1, CompanionsKept, PTL
===============================================================================
