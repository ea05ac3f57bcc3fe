----------------------------- MODULE AccountProofs -----------------------------
(***************************************************************************)
(* Theorems about Accounts, for any number of requests, crashes and wrong  *)
(* passwords.                                                              *)
(***************************************************************************)
EXTENDS Accounts, TLAPS

-------------------------------------------------------------------------------
(* The inductive invariant.                                                *)

\* A row is visible when its issuer is done, and matched only when it is visible.
RowsAreIssued ==
  /\ \A c \in Requests : code[c] # "none" => pc[c] = "done"
  /\ \A r \in Requests : \A c \in seen[r] : pc[c] = "done"

\* An open transaction has written its own new row or rows that were visible; only
\* at some of the statements has it written any.
Holding == {"insert", "mail", "load", "respond", "commit", "drop_user"}

WritesAreOpen ==
  \A r \in Requests :
    /\ pc[r] \notin Holding => writes[r] = {}
    /\ \A c \in writes[r] : c = r \/ pc[c] = "done"

\* A new row is in the index: it supersedes what is active, and it has no rival.
NewRowsAlone ==
  \A r \in Requests : r \in writes[r] =>
    /\ pc[r] \in {"mail", "respond", "commit"}
    /\ Active(purpose[r]) \subseteq writes[r]
    /\ \A o \in Requests : o \in writes[o] /\ purpose[o] = purpose[r] => o = r

\* Statements belong to endpoints: only two issue codes, only one drops rows.
Issuing == {"insert_user", "lookup", "save", "update", "insert", "mail"}
Dropping == {"drop", "drop_user"}

KindsAgree ==
  \A r \in Requests :
    /\ pc[r] \in Issuing => kind[r] \in {"register", "request_code"}
    /\ pc[r] \in Dropping => kind[r] = "delete"

\* A sign-in that got beyond consume_code() holds the row it has read.
SignsIn(r) == kind[r] \in {"verify", "login_with_code"}

ConsumersHold ==
  \A r \in Requests :
    SignsIn(r) /\ pc[r] \in {"load", "respond", "commit"} => writes[r] = seen[r]

\* No two open transactions have written the same row.
LocksAreExclusive ==
  \A r, o \in Requests : writes[r] \cap writes[o] # {} => o = r

\* A request that issues a code has a purpose, and has written rows of that one only.
OwnPurpose ==
  \A r \in Requests :
    /\ pc[r] \in {"save", "update", "insert"} => purpose[r] \in Purposes
    /\ pc[r] = "update" => \A c \in seen[r] : purpose[c] = purpose[r]
    /\ pc[r] = "insert" => \A c \in writes[r] : purpose[c] = purpose[r]

CodesInv ==
  /\ LocksAreExclusive
  /\ OwnPurpose
  /\ RowsAreIssued
  /\ WritesAreOpen
  /\ NewRowsAlone
  /\ KindsAgree
  /\ ConsumersHold
  /\ OneActiveCode
  /\ UsedIsSpent

-------------------------------------------------------------------------------
(* Types.                                                                  *)

\* A mail more keeps the type of the list.
LEMMA MailsTyped ==
  ASSUME mailed \in Seq(Requests), NEW r \in Requests
  PROVE  Append(mailed, r) \in Seq(Requests)
  OBVIOUS

\* A step of a request moves its own program counter only, to a statement or an end.
LEMMA PcMoves ==
  ASSUME NEW r \in Requests, Begin(r) \/ Step(r) \/ TimedOut(r)
  PROVE  /\ \E to \in InFlight \cup Over : pc' = [pc EXCEPT ![r] = to]
         /\ \/ kind' = kind
            \/ \E k \in Kinds : kind' = [kind EXCEPT ![r] = k]
  <1> USE DEF Go, Fail, InFlight, Over
  <1>1. CASE Register(r) \/ RequestCode(r)
    BY <1>1 DEF Call, Register, RequestCode
  <1>2. CASE LoginWithCode(r) \/ Login(r)
    BY <1>2 DEF Call, LoginWithCode, Login
  <1>3. CASE Verify(r) \/ FindCode(r)
    BY <1>3 DEF Verify, FindCode, ReadCode
  <1>4. CASE Delete(r) \/ DropCodes(r) \/ DropUser(r)
    BY <1>4 DEF Call, Delete, DropCodes, DropUser
  <1>5. CASE InsertUser(r) \/ Lookup(r) \/ StartUpdate(r) \/ FinishUpdate(r)
    BY <1>5 DEF InsertUser, Lookup, StartUpdate, FinishUpdate
  <1>6. CASE InsertCode(r) \/ Mail(r) \/ MailFails(r)
    BY <1>6 DEF InsertCode, Mail, MailFails
  <1>7. CASE Consume(r) \/ LoadUser(r) \/ Miss(r)
    BY <1>7 DEF Consume, LoadUser, Miss
  <1>8. CASE Respond(r) \/ Commit(r) \/ TimedOut(r)
    BY <1>8 DEF Respond, Commit, TimedOut
  <1>9. QED BY <1>1, <1>2, <1>3, <1>4, <1>5, <1>6, <1>7, <1>8 DEF Begin, Step

\* Every step of a request keeps the types.
LEMMA RequestTyped ==
  ASSUME AccountTypeOK, NEW r \in Requests, Begin(r) \/ Step(r) \/ TimedOut(r)
  PROVE  AccountTypeOK'
  <1>p. pc' \in [Requests -> {"idle"} \cup InFlight \cup Over]
    BY PcMoves DEF AccountTypeOK
  <1>k. kind' \in [Requests -> Kinds \cup {"none"}]
    BY PcMoves DEF AccountTypeOK
  <1> USE <1>p, <1>k, AccountConstants DEF AccountTypeOK
  <1>1. CASE Register(r) \/ RequestCode(r) \/ LoginWithCode(r) \/ Login(r)
    BY <1>1 DEF Register, RequestCode, LoginWithCode, Login
  <1>2. CASE Verify(r) \/ FindCode(r)
    <2>1. \/ seen' = seen
          \/ \E c \in Requests : seen' = [seen EXCEPT ![r] = {c}]
      BY <1>2 DEF Verify, FindCode, ReadCode, Active
    <2>2. seen' \in [Requests -> SUBSET Requests]
      BY <2>1
    <2>3. QED BY <1>2, <2>2 DEF Verify, FindCode, ReadCode
  <1>3. CASE InsertUser(r) \/ Lookup(r) \/ LoadUser(r) \/ Respond(r)
    BY <1>3 DEF InsertUser, Lookup, LoadUser, Respond, Fail, Purposes
  <1>4. CASE StartUpdate(r) \/ FinishUpdate(r) \/ InsertCode(r)
    BY <1>4 DEF StartUpdate, FinishUpdate, InsertCode, Fail, Active
  <1>5. CASE Mail(r) \/ MailFails(r)
    <2>1. mailed' = Append(mailed, r) \/ mailed' = mailed
      BY <1>5 DEF Mail, MailFails
    <2>2. mailed' \in Seq(Requests)
      BY <2>1, MailsTyped
    <2>3. QED BY <1>5, <2>2 DEF Mail, MailFails, Fail
  <1>6. CASE Consume(r) \/ Delete(r) \/ DropCodes(r) \/ TimedOut(r)
    BY <1>6 DEF Consume, Delete, DropCodes, TimedOut, Fail
  <1>7. CASE Miss(r)
    BY <1>7 DEF Miss, Fail
  <1>8. CASE DropUser(r) \/ Commit(r)
    <2>1. code' \in [Requests -> {"none", "active", "consumed"}]
      BY <1>8 DEF DropUser, Commit, Committed
    <2>2. QED BY <1>8, <2>1 DEF DropUser, Commit, Fail
  <1>9. QED BY <1>1, <1>2, <1>3, <1>4, <1>5, <1>6, <1>7, <1>8 DEF Begin, Step

\* AccountTypeOK is inductive.
LEMMA TypeStep == AccountTypeOK /\ [Next]_vars => AccountTypeOK'
  <1> SUFFICES ASSUME AccountTypeOK, [Next]_vars PROVE AccountTypeOK'
    OBVIOUS
  <1>1. CASE Cool BY <1>1 DEF AccountTypeOK, Cool
  <1>2. CASE Crash
    <2>1. pc' \in [Requests -> {"idle"} \cup InFlight \cup Over]
      BY <1>2 DEF AccountTypeOK, Crash, Over
    <2>2. crashes' \in 0..MaxCrashes
      BY AccountConstants, <1>2 DEF AccountTypeOK, Crash
    <2>3. QED BY <1>2, <2>1, <2>2 DEF AccountTypeOK, Crash
  <1>3. CASE UNCHANGED vars BY <1>3 DEF AccountTypeOK, vars
  <1>4. QED BY <1>1, <1>2, <1>3, RequestTyped DEF Next

\* Every reachable state is well typed: the counters stay within their bounds, and the
\* statements a request can be at are those of its handlers.
THEOREM AccountTyped == Spec => []AccountTypeOK
  <1>1. Init => AccountTypeOK
    <2> SUFFICES ASSUME Init PROVE AccountTypeOK
      OBVIOUS
    <2>1. 0 \in 0..MaxFailed /\ 0 \in 0..MaxCrashes
      BY AccountConstants
    <2>2. <<>> \in Seq(Requests)
      OBVIOUS
    <2>3. QED BY <2>1, <2>2 DEF Init, AccountTypeOK
  <1>2. QED BY <1>1, TypeStep, PTL DEF Spec

-------------------------------------------------------------------------------
(* What a step of one request may do to the codes.                         *)

\* It touches no other request; its purpose is chosen before it writes; a statement
\* matches what is committed; and the rows change by its commit only, which ends it.
LocalEffect(r) ==
  /\ \A o \in Requests \ {r} :
       /\ pc'[o] = pc[o] /\ kind'[o] = kind[o] /\ purpose'[o] = purpose[o]
       /\ seen'[o] = seen[o] /\ writes'[o] = writes[o]
  /\ pc[r] \in {"idle"} \cup InFlight
  /\ purpose'[r] = purpose[r] \/ pc[r] \in {"insert_user", "lookup"}
  /\ seen'[r] = seen[r] \/ \A c \in seen'[r] : code[c] # "none"
  /\ \/ code' = code
     \/ code' = Committed(r) /\ pc'[r] = "done"

\* It ends its transaction, goes on with what it has written, writes rows it has
\* matched, or adds its own under the index.
WriteEffect(r) ==
  \/ writes'[r] = {}
  \/ /\ writes'[r] = writes[r]
     /\ pc[r] \in Holding => pc'[r] \in Holding
     /\ pc[r] \in {"mail", "respond", "commit"} => pc'[r] \in {"respond", "commit"}
     /\ code' = code
  \/ writes'[r] \subseteq seen[r] /\ Free(r) /\ pc'[r] \in Holding /\ code' = code
  \/ /\ writes'[r] = writes[r] \cup {r}
     /\ ~Contested(r)
     /\ Active(purpose[r]) \subseteq writes[r]
     /\ pc[r] = "insert" /\ pc'[r] = "mail"
     /\ code' = code

\* Every step of a request has these two effects.
LEMMA Effects ==
  ASSUME AccountTypeOK, NEW r \in Requests, Begin(r) \/ Step(r) \/ TimedOut(r)
  PROVE  LocalEffect(r) /\ WriteEffect(r)
  <1> USE DEF AccountTypeOK, LocalEffect, WriteEffect, Go, Fail, InFlight, Holding
  <1>1. CASE Register(r) \/ RequestCode(r) \/ LoginWithCode(r) \/ Login(r)
    BY <1>1 DEF Call, Register, RequestCode, LoginWithCode, Login
  <1>2. CASE Verify(r) \/ FindCode(r)
    BY <1>2 DEF Verify, FindCode, ReadCode, Active
  <1>3. CASE Delete(r) \/ DropCodes(r)
    BY <1>3 DEF Call, Delete, DropCodes, Waits
  <1>4. CASE InsertUser(r) \/ Lookup(r)
    BY <1>4 DEF InsertUser, Lookup
  <1>5. CASE StartUpdate(r) \/ FinishUpdate(r)
    BY <1>5 DEF StartUpdate, FinishUpdate, Active, Waits
  <1>6. CASE InsertCode(r)
    BY <1>6 DEF InsertCode, Waits
  <1>7. CASE Mail(r) \/ MailFails(r) \/ Respond(r)
    BY <1>7 DEF Mail, MailFails, Respond
  <1>8. CASE Consume(r) \/ LoadUser(r) \/ Miss(r) \/ TimedOut(r)
    BY <1>8 DEF Consume, LoadUser, Miss, TimedOut, Waits
  <1>9. CASE DropUser(r) \/ Commit(r)
    BY <1>9 DEF DropUser, Commit
  <1>10. QED BY <1>1, <1>2, <1>3, <1>4, <1>5, <1>6, <1>7, <1>8, <1>9 DEF Begin, Step

-------------------------------------------------------------------------------
(* The invariant is preserved: one lemma per part.                         *)

\* A row that is visible has an issuer that takes no further step.
LEMMA IssuerIsNotRunning ==
  ASSUME AccountTypeOK, RowsAreIssued, WritesAreOpen, NEW r \in Requests, LocalEffect(r)
  PROVE  /\ pc[r] # "done"
         /\ code[r] = "none"
         /\ \A o \in Requests : r \notin seen[o] /\ (r \in writes[o] => o = r)
  BY DEF RowsAreIssued, WritesAreOpen, LocalEffect, InFlight

\* What is active after a step was active before and not written, or is the new row.
LEMMA ActiveAfter ==
  ASSUME AccountTypeOK, RowsAreIssued, WritesAreOpen, NewRowsAlone, NEW r \in Requests,
         LocalEffect(r), NEW p
  PROVE  \/ code' = code /\ Active(p)' = Active(p)
         \/ /\ code' = Committed(r)
            /\ \A c \in Active(p)' :
                 \/ c \in Active(p) \ writes[r]
                 \/ c = r /\ r \in writes[r] /\ purpose[r] = p
  <1>1. code[r] = "none" BY IssuerIsNotRunning
  <1>2. CASE code' = code
    <2>1. \A c \in Requests : code[c] = "active" => purpose'[c] = purpose[c]
      BY <1>1 DEF LocalEffect
    <2>2. QED BY <1>2, <2>1 DEF Active
  <1>3. CASE code' = Committed(r)
    <2>1. ASSUME NEW c \in Active(p)'
          PROVE  \/ c \in Active(p) \ writes[r]
                 \/ c = r /\ r \in writes[r] /\ purpose[r] = p
      <3>1. c \in Requests /\ Committed(r)[c] = "active" /\ purpose'[c] = p
        BY <1>3, <2>1 DEF Active
      <3>2. CASE c \in writes[r]
        <4>1. c = r BY <3>1, <3>2 DEF Committed
        <4>2. purpose'[r] = purpose[r]
          BY <3>2, <4>1 DEF NewRowsAlone, LocalEffect
        <4>3. QED BY <3>1, <3>2, <4>1, <4>2
      <3>3. CASE c \notin writes[r]
        <4>1. code[c] = "active" BY <3>1, <3>3 DEF Committed
        <4>2. purpose'[c] = purpose[c] BY <1>1, <3>1, <4>1 DEF LocalEffect
        <4>3. QED BY <3>1, <3>3, <4>1, <4>2 DEF Active
      <3>4. QED BY <3>2, <3>3
    <2>2. QED BY <1>3, <2>1
  <1>4. QED BY <1>2, <1>3 DEF LocalEffect

\* Rows appear when their issuer commits.
LEMMA RowsStep ==
  ASSUME AccountTypeOK, AccountTypeOK', CodesInv, NEW r \in Requests, LocalEffect(r)
  PROVE  RowsAreIssued'
  <1>1. pc[r] # "done" /\ \A o \in Requests : r \notin seen[o]
    BY IssuerIsNotRunning DEF CodesInv
  <1>2. ASSUME NEW c \in Requests, code'[c] # "none" PROVE pc'[c] = "done"
    <2>1. CASE code' = code
      BY <1>1, <1>2, <2>1 DEF CodesInv, RowsAreIssued, LocalEffect
    <2>2. CASE code' = Committed(r) /\ pc'[r] = "done"
      <3>1. c = r \/ pc[c] = "done"
        BY <1>2, <2>2 DEF CodesInv, RowsAreIssued, WritesAreOpen, Committed
      <3>2. QED BY <2>2, <3>1 DEF LocalEffect
    <2>3. QED BY <2>1, <2>2 DEF LocalEffect
  <1>3. ASSUME NEW o \in Requests, NEW c \in seen'[o] PROVE pc'[c] = "done"
    <2>1. c \in Requests BY <1>3 DEF AccountTypeOK
    <2>2. pc[c] = "done"
      BY <1>3, <2>1 DEF CodesInv, RowsAreIssued, LocalEffect
    <2>3. QED BY <1>1, <2>1, <2>2 DEF LocalEffect
  <1>4. QED BY <1>2, <1>3 DEF RowsAreIssued

\* Only matched rows and the own row are written.
LEMMA WritesStep ==
  ASSUME AccountTypeOK, AccountTypeOK', CodesInv, NEW r \in Requests,
         LocalEffect(r), WriteEffect(r)
  PROVE  WritesAreOpen'
  <1>1. pc[r] # "done"
    BY IssuerIsNotRunning DEF CodesInv
  <1>2. ASSUME NEW o \in Requests \ {r} PROVE pc'[o] \notin Holding => writes'[o] = {}
    BY DEF CodesInv, WritesAreOpen, LocalEffect
  <1>3. pc'[r] \notin Holding => writes'[r] = {}
    BY DEF CodesInv, WritesAreOpen, WriteEffect, Holding
  <1>4. ASSUME NEW o \in Requests, NEW c \in writes'[o] PROVE c = o \/ pc'[c] = "done"
    <2>1. c \in Requests BY <1>4 DEF AccountTypeOK
    <2>2. c = o \/ pc[c] = "done"
      <3>1. CASE o = r
        BY <1>4, <3>1, <2>1 DEF CodesInv, RowsAreIssued, WritesAreOpen, WriteEffect
      <3>2. CASE o # r
        BY <1>4, <3>2 DEF CodesInv, WritesAreOpen, LocalEffect
      <3>3. QED BY <3>1, <3>2
    <2>3. QED BY <1>1, <2>1, <2>2 DEF LocalEffect
  <1>5. QED BY <1>2, <1>3, <1>4 DEF WritesAreOpen

\* A new row has all active rows of its purpose, and no rival, until it is committed.
LEMMA NewRowsStep ==
  ASSUME AccountTypeOK, AccountTypeOK', CodesInv, NEW r \in Requests,
         LocalEffect(r), WriteEffect(r)
  PROVE  NewRowsAlone'
  <1>i. /\ RowsAreIssued /\ WritesAreOpen /\ NewRowsAlone
        /\ \A o \in Requests : r \notin seen[o] /\ (r \in writes[o] => o = r)
    BY IssuerIsNotRunning DEF CodesInv
  \* Who has its own row written now had it before, or is r at its INSERT.
  <1>1. ASSUME NEW o \in Requests, o \in writes'[o]
        PROVE  /\ purpose'[o] = purpose[o]
               /\ \/ o \in writes[o] /\ writes'[o] = writes[o]
                  \/ /\ o = r /\ pc[r] = "insert" /\ pc'[r] = "mail" /\ code' = code
                     /\ writes'[r] = writes[r] \cup {r}
                     /\ ~Contested(r) /\ Active(purpose[r]) \subseteq writes[r]
    BY <1>i, <1>1 DEF NewRowsAlone, LocalEffect, WriteEffect
  <1>2. ASSUME NEW o \in Requests, o \in writes'[o]
        PROVE  pc'[o] \in {"mail", "respond", "commit"}
    BY <1>i, <1>1, <1>2 DEF NewRowsAlone, LocalEffect, WriteEffect, Holding
  <1>3. ASSUME NEW o \in Requests, o \in writes'[o], NEW q \in Requests, q \in writes'[q],
               purpose'[q] = purpose'[o]
        PROVE  q = o
    <2>1. purpose[q] = purpose[o] BY <1>1, <1>3
    <2>2. CASE o \in writes[o] /\ q \in writes[q]
      BY <2>1, <2>2, <1>i DEF NewRowsAlone
    <2>3. CASE o = r /\ q # r
      BY <1>1, <1>3, <2>1, <2>2, <2>3 DEF Contested
    <2>4. CASE q = r /\ o # r
      BY <1>1, <1>3, <2>1, <2>2, <2>4 DEF Contested
    <2>5. QED BY <1>1, <1>3, <2>2, <2>3, <2>4
  <1>4. ASSUME NEW o \in Requests, o \in writes'[o]
        PROVE  Active(purpose[o])' \subseteq writes'[o]
    <2>1. purpose'[o] = purpose[o] BY <1>1, <1>4
    <2>2. Active(purpose[o]) \subseteq writes'[o]
      BY <1>i, <1>1, <1>4 DEF NewRowsAlone
    <2> DEFINE p == purpose[o]
    <2>3. Active(p) = {c \in Requests : code[c] = "active" /\ purpose[c] = p}
      BY DEF Active
    <2>4. \A c \in Requests : code'[c] = "active" /\ purpose'[c] = p => c \in writes'[o]
      <3> SUFFICES ASSUME NEW c \in Requests, code'[c] = "active", purpose'[c] = p
                   PROVE  c \in writes'[o]
        OBVIOUS
      <3>1. code[r] = "none" /\ pc[r] # "done" BY <1>i, IssuerIsNotRunning
      <3>2. CASE code[c] = "active"
        <4>1. c # r BY <3>1, <3>2
        <4>2. purpose[c] = p BY <4>1 DEF LocalEffect
        <4>3. QED BY <2>2, <2>3, <3>2, <4>2
      <3>3. CASE code[c] # "active"
        <4>1. code' = Committed(r) /\ pc'[r] = "done" BY <3>3 DEF LocalEffect
        <4>2. c = r /\ r \in writes[r] BY <3>3, <4>1 DEF Committed
        <4>3. purpose[r] = p BY <1>i, <4>2 DEF NewRowsAlone, LocalEffect
        <4>4. o # r BY <1>2, <1>4, <4>1
        <4>5. o \in writes[o] BY <1>1, <1>4, <4>4
        <4>6. QED BY <1>i, <4>2, <4>3, <4>4, <4>5 DEF NewRowsAlone
      <3>4. QED BY <3>2, <3>3
    <2>5. QED BY <2>1, <2>4 DEF Active
  <1>5. QED BY <1>2, <1>3, <1>4, <1>1 DEF NewRowsAlone

\* A commit leaves at most one active row of a purpose.
LEMMA OneActiveStep ==
  ASSUME AccountTypeOK, CodesInv, NEW r \in Requests, LocalEffect(r)
  PROVE  OneActiveCode'
  <1>1. ASSUME NEW p \in Purposes, NEW c \in Active(p)', NEW d \in Active(p)' PROVE c = d
    <2>i. RowsAreIssued /\ WritesAreOpen /\ NewRowsAlone /\ OneActiveCode
      BY DEF CodesInv
    <2>1. CASE code' = code /\ Active(p)' = Active(p)
      BY <1>1, <2>i, <2>1 DEF OneActiveCode
    <2>2. CASE \A x \in Active(p)' :
                 \/ x \in Active(p) \ writes[r]
                 \/ x = r /\ r \in writes[r] /\ purpose[r] = p
      <3>1. r \in writes[r] /\ purpose[r] = p => Active(p) \subseteq writes[r]
        BY <2>i DEF NewRowsAlone
      <3>2. QED BY <1>1, <2>i, <2>2, <3>1 DEF OneActiveCode
    <2>3. QED BY <2>i, <2>1, <2>2, ActiveAfter
  <1>2. QED BY <1>1 DEF OneActiveCode

\* How the statements of the endpoints follow one another.
HandlerEffect(r) ==
  /\ pc'[r] \in Issuing =>
       kind'[r] \in {"register", "request_code"} \/ (pc[r] \in Issuing /\ kind'[r] = kind[r])
  /\ pc'[r] \in Dropping =>
       kind'[r] = "delete" \/ (pc[r] \in Dropping /\ kind'[r] = kind[r])
  /\ SignsIn(r)' /\ pc'[r] \in {"load", "respond", "commit"} =>
       \/ writes'[r] = seen'[r]
       \/ /\ kind'[r] = kind[r] /\ seen'[r] = seen[r] /\ writes'[r] = writes[r]
          /\ pc[r] \in {"load", "respond", "mail"}
  /\ pc'[r] = "done" =>
       /\ code' = Committed(r) /\ kind'[r] = kind[r] /\ seen'[r] = seen[r]
       /\ pc[r] \in {"commit", "drop_user"}
  /\ pc'[r] \in {"save", "update", "insert"} =>
       \/ purpose'[r] \in Purposes
       \/ purpose'[r] = purpose[r] /\ pc[r] \in {"save", "update", "insert"}
  /\ pc'[r] = "update" => seen'[r] = Active(purpose[r]) /\ purpose'[r] = purpose[r]
  /\ pc'[r] = "insert" =>
       pc[r] = "update" /\ writes'[r] \subseteq seen[r] /\ purpose'[r] = purpose[r]

\* Every step of a request keeps to that order.
LEMMA HandlerEffects ==
  ASSUME AccountTypeOK, NEW r \in Requests, Begin(r) \/ Step(r) \/ TimedOut(r)
  PROVE  HandlerEffect(r)
  <1> USE DEF AccountTypeOK, HandlerEffect, SignsIn, Issuing, Dropping, Purposes, Go, Fail
  <1>1. CASE Register(r) \/ RequestCode(r) \/ LoginWithCode(r) \/ Login(r)
    BY <1>1 DEF Call, Register, RequestCode, LoginWithCode, Login
  <1>2. CASE Verify(r) \/ FindCode(r)
    BY <1>2 DEF Verify, FindCode, ReadCode
  <1>3. CASE Delete(r) \/ DropCodes(r)
    BY <1>3 DEF Call, Delete, DropCodes
  <1>4. CASE InsertUser(r) \/ Lookup(r)
    BY <1>4 DEF InsertUser, Lookup
  <1>5. CASE StartUpdate(r) \/ FinishUpdate(r) \/ InsertCode(r)
    BY <1>5 DEF StartUpdate, FinishUpdate, InsertCode
  <1>6. CASE Mail(r) \/ MailFails(r) \/ Respond(r)
    BY <1>6 DEF Mail, MailFails, Respond
  <1>7. CASE Consume(r) \/ LoadUser(r) \/ Miss(r) \/ TimedOut(r)
    BY <1>7 DEF Consume, LoadUser, Miss, TimedOut
  <1>8. CASE DropUser(r) \/ Commit(r)
    BY <1>8 DEF DropUser, Commit
  <1>9. QED BY <1>1, <1>2, <1>3, <1>4, <1>5, <1>6, <1>7, <1>8 DEF Begin, Step

\* Statements stay with their endpoints, and a sign-in holds what it has read.
LEMMA HandlersStep ==
  ASSUME AccountTypeOK, AccountTypeOK', CodesInv, NEW r \in Requests,
         LocalEffect(r), HandlerEffect(r)
  PROVE  KindsAgree' /\ ConsumersHold'
  <1>i. KindsAgree /\ ConsumersHold BY DEF CodesInv
  <1>1. ASSUME NEW o \in Requests
        PROVE  /\ pc'[o] \in Issuing => kind'[o] \in {"register", "request_code"}
               /\ pc'[o] \in Dropping => kind'[o] = "delete"
    BY <1>i DEF KindsAgree, LocalEffect, HandlerEffect
  <1>2. ASSUME NEW o \in Requests, SignsIn(o)', pc'[o] \in {"load", "respond", "commit"}
        PROVE  writes'[o] = seen'[o]
    <2>1. CASE o = r
      BY <1>i, <1>2, <2>1 DEF KindsAgree, ConsumersHold, HandlerEffect, SignsIn, Issuing
    <2>2. CASE o # r
      BY <1>i, <1>2, <2>2 DEF ConsumersHold, LocalEffect, SignsIn
    <2>3. QED BY <2>1, <2>2
  <1>3. QED BY <1>1, <1>2 DEF KindsAgree, ConsumersHold

\* Rows are written by one transaction at a time, and by a request for a code within
\* its purpose.
LEMMA LocksStep ==
  ASSUME AccountTypeOK, AccountTypeOK', CodesInv, NEW r \in Requests,
         LocalEffect(r), WriteEffect(r), HandlerEffect(r)
  PROVE  LocksAreExclusive' /\ OwnPurpose'
  <1>i. /\ RowsAreIssued /\ WritesAreOpen /\ LocksAreExclusive /\ OwnPurpose
        /\ pc[r] # "done"
        /\ \A o \in Requests : r \notin seen[o] /\ (r \in writes[o] => o = r)
    BY IssuerIsNotRunning DEF CodesInv
  <1>1. ASSUME NEW o \in Requests \ {r}, NEW c \in writes'[o] PROVE c \notin writes'[r]
    <2>1. c \in writes[o] /\ c \in Requests /\ c # r
      BY <1>i, <1>1 DEF LocalEffect, AccountTypeOK
    <2>2. c \notin writes[r]
      BY <1>i, <2>1 DEF LocksAreExclusive
    <2>3. Free(r) => c \notin seen[r]
      BY <2>1 DEF Free, Locked
    <2>4. QED BY <2>1, <2>2, <2>3 DEF WriteEffect
  <1>2. ASSUME NEW a \in Requests, NEW b \in Requests, NEW c \in writes'[a] \cap writes'[b]
        PROVE  a = b
    <2>1. CASE a = r BY <1>1, <1>2, <2>1
    <2>2. CASE b = r BY <1>1, <1>2, <2>2
    <2>3. CASE a # r /\ b # r
      BY <1>i, <1>2, <2>3 DEF LocksAreExclusive, LocalEffect
    <2>4. QED BY <2>1, <2>2, <2>3
  <1>3. ASSUME NEW o \in Requests, pc'[o] = "update", NEW c \in seen'[o]
        PROVE  purpose'[c] = purpose'[o]
    <2>t. c \in Requests BY <1>3 DEF AccountTypeOK
    <2>1. CASE o = r
      BY <1>i, <1>3, <2>t, <2>1 DEF HandlerEffect, LocalEffect, Active, RowsAreIssued
    <2>2. CASE o # r
      BY <1>i, <1>3, <2>t, <2>2 DEF OwnPurpose, LocalEffect
    <2>3. QED BY <2>1, <2>2
  <1>4. ASSUME NEW o \in Requests, pc'[o] = "insert", NEW c \in writes'[o]
        PROVE  purpose'[c] = purpose'[o]
    <2>t. c \in Requests BY <1>4 DEF AccountTypeOK
    <2>1. CASE o = r
      BY <1>i, <1>4, <2>t, <2>1 DEF HandlerEffect, LocalEffect, OwnPurpose
    <2>2. CASE o # r
      BY <1>i, <1>4, <2>t, <2>2 DEF OwnPurpose, LocalEffect
    <2>3. QED BY <2>1, <2>2
  <1>5. ASSUME NEW o \in Requests, pc'[o] \in {"save", "update", "insert"}
        PROVE  purpose'[o] \in Purposes
    BY <1>i, <1>5 DEF HandlerEffect, LocalEffect, OwnPurpose
  <1>6. QED BY <1>2, <1>3, <1>4, <1>5 DEF LocksAreExclusive, OwnPurpose

\* A code that was used does not become active again: a commit activates its own new
\* row only, which nobody has read yet.
LEMMA UsedStep ==
  ASSUME AccountTypeOK, AccountTypeOK', CodesInv, NEW r \in Requests,
         LocalEffect(r), HandlerEffect(r)
  PROVE  UsedIsSpent'
  <1>i. /\ RowsAreIssued /\ WritesAreOpen /\ KindsAgree /\ ConsumersHold /\ UsedIsSpent
        /\ pc[r] # "done" /\ \A o \in Requests : r \notin seen[o]
    BY IssuerIsNotRunning DEF CodesInv
  <1>1. ASSUME NEW o \in Requests, SignedIn(o)', NEW c \in seen'[o]
        PROVE  code'[c] # "active"
    <2>t. c \in Requests BY <1>1 DEF AccountTypeOK
    <2>1. CASE o = r
      <3>1. /\ code' = Committed(r) /\ kind'[r] = kind[r] /\ seen'[r] = seen[r]
            /\ pc[r] = "commit" /\ SignsIn(r)
        BY <1>i, <1>1, <2>1 DEF HandlerEffect, SignedIn, SignsIn, KindsAgree, Dropping
      <3>2. c \in writes[r] /\ c # r
        BY <1>i, <1>1, <2>1, <3>1 DEF ConsumersHold
      <3>3. QED BY <2>t, <3>1, <3>2 DEF Committed, SignsIn
    <2>2. CASE o # r
      <3>1. SignedIn(o) /\ c \in seen[o] /\ c # r
        BY <1>i, <1>1, <2>2 DEF LocalEffect, SignedIn
      <3>2. code[c] # "active" BY <1>i, <3>1 DEF UsedIsSpent
      <3>3. QED BY <2>t, <3>1, <3>2 DEF LocalEffect, Committed
    <2>3. QED BY <2>1, <2>2
  <1>2. QED BY <1>1 DEF UsedIsSpent

\* The invariant is inductive.
LEMMA CodesStep == AccountTypeOK /\ CodesInv /\ [Next]_vars => CodesInv'
  <1> SUFFICES ASSUME AccountTypeOK, CodesInv, [Next]_vars PROVE CodesInv'
    OBVIOUS
  <1>t. AccountTypeOK' BY TypeStep
  <1>1. ASSUME NEW r \in Requests, Begin(r) \/ Step(r) \/ TimedOut(r) PROVE CodesInv'
    <2>1. LocalEffect(r) /\ WriteEffect(r) BY <1>1, Effects
    <2>2. HandlerEffect(r) BY <1>1, HandlerEffects
    <2>3. RowsAreIssued' BY <1>t, <2>1, RowsStep
    <2>4. WritesAreOpen' BY <1>t, <2>1, WritesStep
    <2>5. NewRowsAlone' BY <1>t, <2>1, NewRowsStep
    <2>6. KindsAgree' /\ ConsumersHold' BY <1>t, <2>1, <2>2, HandlersStep
    <2>7. OneActiveCode' BY <2>1, OneActiveStep
    <2>8. UsedIsSpent' BY <1>t, <2>1, <2>2, UsedStep
    <2>9. LocksAreExclusive' /\ OwnPurpose' BY <1>t, <2>1, <2>2, LocksStep
    <2>10. QED BY <2>3, <2>4, <2>5, <2>6, <2>7, <2>8, <2>9 DEF CodesInv
  <1>2. CASE Crash
    <2>1. /\ UNCHANGED <<code, kind, purpose, seen>>
          /\ writes' = [r \in Requests |-> {}]
          /\ \A r \in Requests : pc'[r] = IF pc[r] \in InFlight THEN "lost" ELSE pc[r]
      BY <1>2 DEF Crash
    <2>2. RowsAreIssued' /\ WritesAreOpen' /\ NewRowsAlone'
      <3>1. RowsAreIssued'
        <4>1. \A c \in Requests : pc[c] = "done" => pc'[c] = "done"
          BY <2>1 DEF InFlight
        <4>2. QED BY <1>t, <2>1, <4>1 DEF AccountTypeOK, CodesInv, RowsAreIssued
      <3>2. \A r \in Requests : writes'[r] = {}
        BY <2>1
      <3>3. QED BY <3>1, <3>2 DEF WritesAreOpen, NewRowsAlone
    <2>3. KindsAgree' /\ ConsumersHold'
      BY <2>1 DEF KindsAgree, ConsumersHold, Issuing, Dropping, InFlight
    <2>4. OneActiveCode'
      BY <2>1 DEF CodesInv, OneActiveCode, Active
    <2>5. UsedIsSpent'
      <3>1. \A r \in Requests : SignedIn(r)' => SignedIn(r)
        BY <2>1 DEF SignedIn
      <3>2. QED BY <2>1, <3>1 DEF CodesInv, UsedIsSpent
    <2>6. LocksAreExclusive' /\ OwnPurpose'
      BY <2>1 DEF LocksAreExclusive, OwnPurpose, InFlight
    <2>7. QED BY <2>2, <2>3, <2>4, <2>5, <2>6 DEF CodesInv
  <1>3. CASE Cool \/ UNCHANGED vars
    <2>1. UNCHANGED <<code, kind, purpose, seen, writes, pc>>
      BY <1>3 DEF Cool, vars
    <2>2. RowsAreIssued' /\ WritesAreOpen' /\ NewRowsAlone'
      BY <2>1 DEF CodesInv, RowsAreIssued, WritesAreOpen, NewRowsAlone, Active
    <2>3. KindsAgree' /\ ConsumersHold'
      BY <2>1 DEF CodesInv, KindsAgree, ConsumersHold, SignsIn
    <2>4. OneActiveCode' /\ UsedIsSpent'
      BY <2>1 DEF CodesInv, OneActiveCode, Active, UsedIsSpent, SignedIn
    <2>5. LocksAreExclusive' /\ OwnPurpose'
      BY <2>1 DEF CodesInv, LocksAreExclusive, OwnPurpose
    <2>6. QED BY <2>2, <2>3, <2>4, <2>5 DEF CodesInv
  <1>4. QED BY <1>1, <1>2, <1>3 DEF Next

-------------------------------------------------------------------------------
\* The invariant holds: before any request there is no row and no transaction.
THEOREM CodesSafe == Spec => []CodesInv
  <1>1. Init => CodesInv
    BY DEF Init, CodesInv, RowsAreIssued, WritesAreOpen, NewRowsAlone, KindsAgree,
           LocksAreExclusive, OwnPurpose, ConsumersHold, OneActiveCode, UsedIsSpent,
           Active, SignedIn, Issuing, Dropping
  <1>2. QED BY <1>1, AccountTyped, CodesStep, PTL DEF Spec

\* There is never more than one active code of a purpose, however many requests for
\* one cross each other, time out or crash.
THEOREM OneCode == Spec => []OneActiveCode
  <1>1. CodesInv => OneActiveCode BY DEF CodesInv
  <1>2. QED BY <1>1, CodesSafe, PTL

\* A code with which somebody has signed in is never active again.
THEOREM UsedStaysSpent == Spec => []UsedIsSpent
  <1>1. CodesInv => UsedIsSpent BY DEF CodesInv
  <1>2. QED BY <1>1, CodesSafe, PTL

\* Somebody who waits for rows waits for a request that is past its statements on
\* them or at its INSERT; and an INSERT waits for one that does not wait.
LEMMA NoCircle == AccountTypeOK /\ CodesInv => NoWaitCycle
  <1> SUFFICES ASSUME AccountTypeOK, CodesInv,
                      NEW s \in Requests, pc[s] \in InFlight,
                      \A r \in Requests : pc[r] \in InFlight => Waits(r)
               PROVE  FALSE
    BY DEF NoWaitCycle
  <1>i. /\ RowsAreIssued /\ WritesAreOpen /\ NewRowsAlone /\ OneActiveCode
        /\ LocksAreExclusive /\ OwnPurpose
    BY DEF CodesInv
  \* Who has written rows waits at its INSERT, if at all, and has no new row yet.
  <1>1. ASSUME NEW o \in Requests, NEW c \in writes[o]
        PROVE  pc[o] = "insert" /\ Contested(o) /\ c # o /\ purpose[c] = purpose[o]
    <2>1. pc[o] \in Holding
      BY <1>i, <1>1 DEF WritesAreOpen
    <2>2. Waits(o)
      BY <2>1 DEF Holding, InFlight
    <2>3. pc[o] = "insert" /\ Contested(o)
      BY <2>1, <2>2 DEF Waits, Holding
    <2>4. o \notin writes[o]
      BY <1>i, <2>3 DEF NewRowsAlone
    <2>5. QED BY <1>i, <1>1, <2>3, <2>4 DEF OwnPurpose
  \* Nobody waits at an INSERT.
  <1>2. ASSUME NEW r \in Requests, pc[r] = "insert", Contested(r) PROVE FALSE
    <2>o. PICK o \in Requests \ {r} : \E c \in writes[o] :
            purpose[c] = purpose[r] /\ (c = o \/ code[c] = "active")
      BY <1>2 DEF Contested
    <2>1. PICK c \in writes[o] :
            purpose[c] = purpose[r] /\ (c = o \/ code[c] = "active")
      BY <2>o
    <2>2. /\ pc[o] = "insert" /\ Contested(o) /\ code[c] = "active" /\ c \in Requests
          /\ purpose[c] = purpose[o]
      BY <1>1, <2>1 DEF AccountTypeOK
    <2>q. PICK q \in Requests \ {o} : \E d \in writes[q] :
            purpose[d] = purpose[o] /\ (d = q \/ code[d] = "active")
      BY <2>2 DEF Contested
    <2>3. PICK d \in writes[q] : purpose[d] = purpose[o] /\ (d = q \/ code[d] = "active")
      BY <2>q
    <2>4. code[d] = "active" /\ d \in Requests /\ purpose[d] = purpose[c]
      BY <1>1, <2>2, <2>3 DEF AccountTypeOK
    <2>5. purpose[c] \in Purposes
      BY <1>i, <2>2 DEF OwnPurpose
    <2>6. c = d
      BY <1>i, <2>2, <2>4, <2>5 DEF OneActiveCode, Active
    <2>7. QED BY <1>i, <2>1, <2>3, <2>6 DEF LocksAreExclusive
  \* So nobody has written anything, and only registrations wait, for one another.
  <1>3. \A r \in Requests : writes[r] = {}
    BY <1>1, <1>2
  <1>4. \A r \in Requests : pc[r] \in InFlight => pc[r] = "insert_user"
    BY <1>3 DEF Waits, Free, Locked, Contested
  <1>5. \A r \in Requests : ~Inserting(r)
    BY <1>4 DEF Inserting
  <1>6. QED BY <1>4, <1>5 DEF Waits

\* Requests never wait in a circle, for any number of them: this needs the order of
\* the statements of every handler, and that rows are locked before a code is inserted.
THEOREM NobodyCircles == Spec => []NoWaitCycle
  <1>1. QED BY NoCircle, AccountTyped, CodesSafe, PTL

-------------------------------------------------------------------------------
(* The last mail works: a row that a request supersedes was mailed before  *)
(* the request's own, and nothing else takes a committed code away but a   *)
(* sign-in with it or a deletion.                                          *)

\* Who issues codes.
Issues(r) == kind[r] \in {"register", "request_code"}
Reading == {"find", "consume", "load"}
Telling == {"respond", "commit"}

\* The endpoint behind the later statements, and the rows that are written there.
HandlersKnown ==
  \A r \in Requests :
    /\ pc[r] \in Reading => SignsIn(r)
    /\ kind[r] = "delete" => pc[r] \in Dropping \cup Over
    /\ pc[r] = "drop_user" => writes[r] = seen[r]
    /\ ~Issues(r) /\ ~SignsIn(r) /\ kind[r] # "delete" => writes[r] = {}
    /\ Issues(r) /\ pc[r] \in {"mail"} \cup Telling =>
         r \in writes[r] /\ \A c \in writes[r] : purpose[c] = purpose[r]

\* Position j comes after every mail of c.
After(c, j, s) == \A i \in DOMAIN s : s[i] = c => i < j

\* A request whose mail is out was mailed after the rows it supersedes.
MailedLater ==
  \A r \in Requests :
    Issues(r) /\ pc[r] \in Telling =>
      \E j \in DOMAIN mailed :
        mailed[j] = r /\ \A c \in writes[r] \ {r} : After(c, j, mailed)

\* A later mail of the same purpose was committed; or a sign-in or a deletion has taken
\* the code.
Superseded(c) ==
  \E j \in DOMAIN mailed :
    /\ Issued(mailed[j])
    /\ purpose[mailed[j]] = purpose[c]
    /\ After(c, j, mailed)

Taken(c) ==
  \E r \in Requests :
    pc[r] = "done" /\ kind[r] \in {"verify", "login_with_code", "delete"} /\ c \in seen[r]

\* What was mailed and committed works until one of these happens.
IssuedLasts ==
  \A c \in Requests : Issued(c) => code[c] = "active" \/ Superseded(c) \/ Taken(c)

MailInv == HandlersKnown /\ MailedLater /\ IssuedLasts

\* What a step of request r does to the mails, and to what it holds.
MailEffect(r) ==
  /\ mailed' = mailed \/ (mailed' = Append(mailed, r) /\ pc[r] = "mail")
  /\ kind'[r] = kind[r] \/ (pc[r] = "idle" /\ writes'[r] = writes[r])
  /\ pc'[r] \in Reading => SignsIn(r)' \/ (pc[r] \in Reading /\ kind'[r] = kind[r])
  /\ kind'[r] = "delete" => pc'[r] \in Dropping \cup Over \/ pc[r] \notin Dropping
  /\ kind'[r] = "delete" /\ pc[r] = "idle" => pc'[r] \in Dropping \cup Over \/ kind[r] = "delete"
  /\ pc'[r] = "drop_user" => writes'[r] = seen'[r]
  /\ \/ writes'[r] = {} \/ writes'[r] = writes[r]
     \/ pc[r] \in Issuing \cup Reading \cup Dropping /\ kind'[r] = kind[r]
  /\ Issues(r)' /\ pc'[r] \in {"mail"} \cup Telling =>
       /\ kind'[r] = kind[r] /\ purpose'[r] = purpose[r]
       /\ \/ /\ pc[r] = "insert" /\ pc'[r] = "mail"
             /\ writes'[r] = writes[r] \cup {r} /\ mailed' = mailed
          \/ /\ pc[r] = "mail" /\ pc'[r] = "respond"
             /\ writes'[r] = writes[r] /\ mailed' = Append(mailed, r)
          \/ /\ pc[r] = "respond" /\ pc'[r] = "commit"
             /\ writes'[r] = writes[r] /\ mailed' = mailed
          \/ pc[r] \in Reading

\* Every step of a request has this effect.
LEMMA MailEffects ==
  ASSUME AccountTypeOK, NEW r \in Requests, Begin(r) \/ Step(r) \/ TimedOut(r)
  PROVE  MailEffect(r)
  <1> USE DEF AccountTypeOK, MailEffect, SignsIn, Issues, Reading, Telling, Issuing, Dropping,
              Over, Go, Fail
  <1>1. CASE Register(r) \/ RequestCode(r) \/ LoginWithCode(r) \/ Login(r)
    BY <1>1 DEF Call, Register, RequestCode, LoginWithCode, Login
  <1>2. CASE Verify(r) \/ FindCode(r)
    BY <1>2 DEF Verify, FindCode, ReadCode
  <1>3. CASE Delete(r) \/ DropCodes(r)
    BY <1>3 DEF Call, Delete, DropCodes
  <1>4. CASE InsertUser(r) \/ Lookup(r)
    BY <1>4 DEF InsertUser, Lookup
  <1>5. CASE StartUpdate(r) \/ FinishUpdate(r) \/ InsertCode(r)
    BY <1>5 DEF StartUpdate, FinishUpdate, InsertCode
  <1>6. CASE Mail(r) \/ MailFails(r) \/ Respond(r)
    BY <1>6 DEF Mail, MailFails, Respond
  <1>7. CASE Consume(r) \/ LoadUser(r) \/ Miss(r) \/ TimedOut(r)
    BY <1>7 DEF Consume, LoadUser, Miss, TimedOut
  <1>8. CASE DropUser(r) \/ Commit(r)
    BY <1>8 DEF DropUser, Commit
  <1>9. QED BY <1>1, <1>2, <1>3, <1>4, <1>5, <1>6, <1>7, <1>8 DEF Begin, Step

\* Endpoints keep to their statements, and a new row to its purpose.
LEMMA HandlersKnownStep ==
  ASSUME AccountTypeOK, AccountTypeOK', CodesInv, HandlersKnown, NEW r \in Requests,
         LocalEffect(r), MailEffect(r)
  PROVE  HandlersKnown'
  <1>i. /\ KindsAgree /\ OwnPurpose /\ RowsAreIssued /\ WritesAreOpen
        /\ pc[r] # "done"
        /\ \A o \in Requests : r \notin seen[o] /\ (r \in writes[o] => o = r)
    BY IssuerIsNotRunning DEF CodesInv
  <1>1. ASSUME NEW o \in Requests \ {r}
        PROVE  /\ pc'[o] \in Reading => SignsIn(o)'
               /\ kind'[o] = "delete" => pc'[o] \in Dropping \cup Over
               /\ pc'[o] = "drop_user" => writes'[o] = seen'[o]
               /\ ~Issues(o)' /\ ~SignsIn(o)' /\ kind'[o] # "delete" => writes'[o] = {}
               /\ Issues(o)' /\ pc'[o] \in {"mail"} \cup Telling =>
                    o \in writes'[o] /\ \A c \in writes'[o] : purpose'[c] = purpose'[o]
    <2>1. /\ pc'[o] = pc[o] /\ kind'[o] = kind[o] /\ purpose'[o] = purpose[o]
          /\ seen'[o] = seen[o] /\ writes'[o] = writes[o]
      BY DEF LocalEffect
    <2>2. \A c \in writes[o] : purpose'[c] = purpose[c]
      BY <1>i DEF LocalEffect, AccountTypeOK
    <2>3. QED BY <2>1, <2>2 DEF HandlersKnown, SignsIn, Issues
  <1>2. pc'[r] \in Reading => SignsIn(r)'
    BY DEF MailEffect, HandlersKnown, SignsIn
  <1>3. kind'[r] = "delete" => pc'[r] \in Dropping \cup Over
    BY DEF MailEffect, HandlersKnown, LocalEffect, InFlight, Over, Dropping
  <1>4. pc'[r] = "drop_user" => writes'[r] = seen'[r]
    BY DEF MailEffect
  <1>5. ~Issues(r)' /\ ~SignsIn(r)' /\ kind'[r] # "delete" => writes'[r] = {}
    BY <1>i DEF MailEffect, HandlersKnown, KindsAgree, WritesAreOpen, Issues, SignsIn, Holding
  <1>6. ASSUME Issues(r)', pc'[r] \in {"mail"} \cup Telling
        PROVE  r \in writes'[r] /\ \A c \in writes'[r] : purpose'[c] = purpose'[r]
    <2>1. /\ kind'[r] = kind[r] /\ purpose'[r] = purpose[r]
          /\ ~SignsIn(r) /\ Issues(r)
          /\ \/ /\ pc[r] = "insert" /\ writes'[r] = writes[r] \cup {r}
             \/ /\ pc[r] \in {"mail", "respond"} /\ writes'[r] = writes[r]
      BY <1>6 DEF MailEffect, HandlersKnown, Issues, SignsIn
    <2>2. \A c \in Requests : purpose'[c] = purpose[c]
      BY <2>1 DEF LocalEffect
    <2>3. writes[r] \subseteq Requests /\ writes'[r] \subseteq Requests
      BY DEF AccountTypeOK
    <2>4. CASE pc[r] = "insert"
      BY <1>i, <2>1, <2>2, <2>3, <2>4 DEF OwnPurpose
    <2>5. CASE pc[r] # "insert"
      BY <2>1, <2>2, <2>3, <2>5 DEF HandlersKnown, Telling
    <2>6. QED BY <2>4, <2>5
  <1>7. QED BY <1>1, <1>2, <1>3, <1>4, <1>5, <1>6 DEF HandlersKnown

\* One more mail, of another request, leaves the order as it is.
LEMMA AfterKept ==
  ASSUME NEW s \in Seq(Requests), NEW r \in Requests, NEW t \in {s, Append(s, r)},
         NEW j \in DOMAIN s
  PROVE  /\ j \in DOMAIN t /\ t[j] = s[j]
         /\ \A c \in Requests \ {r} : After(c, j, s) => After(c, j, t)
  <1>1. CASE t = s BY <1>1
  <1>2. CASE t = Append(s, r)
    <2>1. /\ Len(s) \in Nat /\ DOMAIN s = 1..Len(s) /\ DOMAIN t = 1..(Len(s) + 1)
          /\ t[Len(s) + 1] = r /\ \A i \in 1..Len(s) : t[i] = s[i]
      BY <1>2
    <2>2. j \in DOMAIN t /\ t[j] = s[j] BY <2>1
    <2>3. ASSUME NEW c \in Requests \ {r}, After(c, j, s), NEW i \in DOMAIN t, t[i] = c
          PROVE  i < j
      <3>1. i # Len(s) + 1 BY <2>1, <2>3
      <3>2. i \in 1..Len(s) BY <2>1, <2>3, <3>1
      <3>3. QED BY <2>1, <2>3, <3>2 DEF After
    <2>4. QED BY <2>2, <2>3 DEF After
  <1>3. QED BY <1>1, <1>2

\* A mail goes out behind those of the rows it supersedes, which were committed before.
LEMMA MailedLaterStep ==
  ASSUME AccountTypeOK, AccountTypeOK', CodesInv, HandlersKnown, MailedLater,
         NEW r \in Requests, LocalEffect(r), MailEffect(r)
  PROVE  MailedLater'
  <1>i. /\ RowsAreIssued /\ WritesAreOpen
        /\ pc[r] # "done"
        /\ \A o \in Requests : r \notin seen[o] /\ (r \in writes[o] => o = r)
    BY IssuerIsNotRunning DEF CodesInv
  <1>m. mailed \in Seq(Requests) /\ mailed' \in {mailed, Append(mailed, r)}
    BY DEF AccountTypeOK, MailEffect
  <1> SUFFICES ASSUME NEW o \in Requests, Issues(o)', pc'[o] \in Telling
               PROVE  \E j \in DOMAIN mailed' :
                        mailed'[j] = o /\ \A c \in writes'[o] \ {o} : After(c, j, mailed')
    BY DEF MailedLater, After
  \* The mail was out already.
  <1>1. ASSUME Issues(o), pc[o] \in Telling, writes'[o] = writes[o]
        PROVE  \E j \in DOMAIN mailed' :
                 mailed'[j] = o /\ \A c \in writes'[o] \ {o} : After(c, j, mailed')
    <2>1. PICK j \in DOMAIN mailed :
            mailed[j] = o /\ \A c \in writes[o] \ {o} : After(c, j, mailed)
      BY <1>1 DEF MailedLater
    <2>2. \A c \in writes[o] \ {o} : c \in Requests \ {r}
      BY <1>i DEF AccountTypeOK
    <2>3. /\ j \in DOMAIN mailed' /\ mailed'[j] = o
          /\ \A c \in Requests \ {r} : After(c, j, mailed) => After(c, j, mailed')
      BY <1>m, <2>1, AfterKept
    <2>4. QED BY <1>1, <2>1, <2>2, <2>3
  \* The mail goes out in this step.
  <1>2. ASSUME o = r, pc[r] = "mail", writes'[r] = writes[r], mailed' = Append(mailed, r)
        PROVE  \E j \in DOMAIN mailed' :
                 mailed'[j] = o /\ \A c \in writes'[o] \ {o} : After(c, j, mailed')
    <2> DEFINE j == Len(mailed) + 1
    <2>1. /\ Len(mailed) \in Nat /\ DOMAIN mailed' = 1..j /\ mailed'[j] = r
      BY <1>m, <1>2
    <2>2. ASSUME NEW c \in writes'[o] \ {o}, NEW i \in DOMAIN mailed', mailed'[i] = c
          PROVE  i < j
      BY <1>2, <2>1, <2>2
    <2>3. j \in DOMAIN mailed' BY <2>1
    <2> HIDE DEF j
    <2>4. QED BY <1>2, <2>1, <2>2, <2>3 DEF After
  <1>3. CASE o # r
    <2>1. Issues(o) /\ pc[o] \in Telling /\ writes'[o] = writes[o]
      BY <1>3 DEF LocalEffect, Issues
    <2>2. QED BY <1>1, <2>1
  <1>4. CASE o = r
    <2>1. Issues(r) /\ ~SignsIn(r)
      BY <1>4 DEF MailEffect, Issues, SignsIn
    <2>2. pc[r] \notin Reading BY <2>1 DEF HandlersKnown
    <2>3. CASE pc[r] = "mail"
      BY <1>2, <1>4, <2>2, <2>3 DEF MailEffect, Telling
    <2>4. CASE pc[r] # "mail"
      <3>1. pc[r] = "respond" /\ writes'[r] = writes[r]
        BY <1>4, <2>2, <2>4 DEF MailEffect, Telling
      <3>2. QED BY <1>1, <1>4, <2>1, <3>1 DEF Telling
    <2>5. QED BY <2>3, <2>4
  <1>5. QED BY <1>3, <1>4

\* A commit that takes a code away is one of a later mail, a sign-in or a deletion.
LEMMA IssuedLastsStep ==
  ASSUME AccountTypeOK, AccountTypeOK', CodesInv, MailInv, NEW r \in Requests,
         LocalEffect(r), MailEffect(r), HandlerEffect(r)
  PROVE  IssuedLasts'
  <1>i. /\ RowsAreIssued /\ WritesAreOpen /\ KindsAgree /\ ConsumersHold
        /\ HandlersKnown /\ MailedLater /\ IssuedLasts
        /\ pc[r] # "done"
        /\ \A o \in Requests : r \notin seen[o] /\ (r \in writes[o] => o = r)
    BY IssuerIsNotRunning DEF CodesInv, MailInv
  <1>m. mailed \in Seq(Requests) /\ mailed' \in {mailed, Append(mailed, r)}
    BY DEF AccountTypeOK, MailEffect
  <1> SUFFICES ASSUME NEW c \in Requests, Issued(c)', code'[c] # "active"
               PROVE  Superseded(c)' \/ Taken(c)'
    BY DEF IssuedLasts
  \* What is told stays so.
  <1>1. ASSUME Superseded(c), c # r PROVE Superseded(c)'
    <2>1. PICK j \in DOMAIN mailed :
            Issued(mailed[j]) /\ purpose[mailed[j]] = purpose[c] /\ After(c, j, mailed)
      BY <1>1 DEF Superseded
    <2>2. /\ j \in DOMAIN mailed' /\ mailed'[j] = mailed[j] /\ After(c, j, mailed')
      BY <1>1, <1>m, <2>1, AfterKept
    <2>3. mailed[j] \in Requests \ {r}
      BY <1>i, <1>m, <2>1 DEF Issued
    <2>4. Issued(mailed[j])' /\ purpose'[mailed[j]] = purpose'[c]
      <3>1. /\ pc'[mailed[j]] = pc[mailed[j]] /\ kind'[mailed[j]] = kind[mailed[j]]
            /\ purpose'[mailed[j]] = purpose[mailed[j]] /\ purpose'[c] = purpose[c]
        BY <1>1, <2>3 DEF LocalEffect
      <3>2. mailed'[j] = mailed[j] BY <2>2
      <3>3. QED BY <2>1, <2>2, <3>1 DEF Issued
    <2>5. QED BY <2>2, <2>4 DEF Superseded, Issued, After
  <1>2. ASSUME Taken(c) PROVE Taken(c)'
    <2>1. PICK o \in Requests :
            /\ pc[o] = "done" /\ kind[o] \in {"verify", "login_with_code", "delete"}
            /\ c \in seen[o]
      BY <1>2 DEF Taken
    <2>2. o # r BY <1>i, <2>1
    <2>3. QED BY <2>1, <2>2 DEF Taken, LocalEffect
  <1>3. CASE c = r
    <2>1. code' = Committed(r) /\ kind'[r] = kind[r] /\ pc[r] \in {"commit", "drop_user"}
      BY <1>3 DEF HandlerEffect, Issued
    <2>2. Issues(r) /\ kind[r] # "delete"
      BY <1>3, <2>1 DEF Issued, Issues
    <2>3. pc[r] = "commit" BY <1>i, <2>1, <2>2 DEF KindsAgree, Dropping
    <2>4. r \in writes[r] BY <1>i, <2>2, <2>3 DEF HandlersKnown, Telling
    <2>5. code'[r] = "active" BY <2>1, <2>2, <2>4 DEF Committed
    <2>6. QED BY <1>3, <2>5
  <1>4. CASE c # r
    <2>1. Issued(c) BY <1>4 DEF Issued, LocalEffect
    <2>2. CASE code[c] # "active"
      BY <1>i, <1>1, <1>2, <1>4, <2>1, <2>2 DEF IssuedLasts
    <2>3. CASE code[c] = "active"
      <3>1. code' = Committed(r) /\ pc'[r] = "done"
        BY <2>3 DEF LocalEffect
      <3>2. kind'[r] = kind[r] /\ seen'[r] = seen[r] /\ pc[r] \in {"commit", "drop_user"}
        BY <3>1 DEF HandlerEffect
      <3>3. c \in writes[r] BY <2>3, <3>1 DEF Committed
      <3>4. Issues(r) \/ SignsIn(r) \/ kind[r] = "delete"
        BY <1>i, <3>3 DEF HandlersKnown
      <3>5. CASE Issues(r)
        <4>1. pc[r] = "commit" BY <1>i, <3>2, <3>5 DEF KindsAgree, Dropping, Issues
        <4>2. PICK j \in DOMAIN mailed :
                mailed[j] = r /\ \A d \in writes[r] \ {r} : After(d, j, mailed)
          BY <1>i, <3>5, <4>1 DEF MailedLater, Telling
        <4>3. After(c, j, mailed) BY <1>4, <3>3, <4>2
        <4>4. /\ j \in DOMAIN mailed' /\ mailed'[j] = r /\ After(c, j, mailed')
          BY <1>4, <1>m, <4>2, <4>3, AfterKept
        <4>5. purpose[c] = purpose[r]
          BY <1>i, <3>3, <3>5, <4>1 DEF HandlersKnown, Telling
        <4>6. purpose'[c] = purpose'[r]
          BY <1>4, <4>1, <4>5 DEF LocalEffect
        <4>7. kind'[r] \in {"register", "request_code"} /\ pc'[r] = "done"
          BY <3>1, <3>2, <3>5 DEF Issues
        <4>8. Superseded(c)' BY <4>4, <4>6, <4>7 DEF Superseded, Issued, After
        <4>9. QED BY <4>8
      <3>6. CASE SignsIn(r)
        <4>1. pc[r] = "commit" BY <1>i, <3>2, <3>6 DEF KindsAgree, Dropping, SignsIn
        <4>2. c \in seen[r] BY <1>i, <3>3, <3>6, <4>1 DEF ConsumersHold
        <4>3. QED BY <3>1, <3>2, <3>6, <4>2 DEF Taken, SignsIn
      <3>7. CASE kind[r] = "delete"
        <4>1. pc[r] = "drop_user" BY <1>i, <3>2, <3>7 DEF HandlersKnown, Dropping, Over
        <4>2. c \in seen[r] BY <1>i, <3>3, <4>1 DEF HandlersKnown
        <4>3. QED BY <3>1, <3>2, <3>7, <4>2 DEF Taken
      <3>8. QED BY <3>4, <3>5, <3>6, <3>7
    <2>4. QED BY <2>2, <2>3
  <1>5. QED BY <1>3, <1>4

\* The invariant is inductive.
LEMMA MailStep == AccountTypeOK /\ CodesInv /\ MailInv /\ [Next]_vars => MailInv'
  <1> SUFFICES ASSUME AccountTypeOK, CodesInv, MailInv, [Next]_vars PROVE MailInv'
    OBVIOUS
  <1>t. AccountTypeOK' BY TypeStep
  <1>1. ASSUME NEW r \in Requests, Begin(r) \/ Step(r) \/ TimedOut(r) PROVE MailInv'
    <2>1. LocalEffect(r) BY <1>1, Effects
    <2>2. HandlerEffect(r) BY <1>1, HandlerEffects
    <2>3. MailEffect(r) BY <1>1, MailEffects
    <2>4. HandlersKnown' BY <1>t, <2>1, <2>3, HandlersKnownStep DEF MailInv
    <2>5. MailedLater' BY <1>t, <2>1, <2>3, MailedLaterStep DEF MailInv
    <2>6. IssuedLasts' BY <1>t, <2>1, <2>2, <2>3, IssuedLastsStep
    <2>7. QED BY <2>4, <2>5, <2>6 DEF MailInv
  \* After a crash nobody is within its statements; what is done stays so.
  <1>2. CASE Crash
    <2>1. /\ UNCHANGED <<code, kind, purpose, seen, mailed>>
          /\ \A r \in Requests : writes'[r] = {}
          /\ \A r \in Requests : pc'[r] = IF pc[r] \in InFlight THEN "lost" ELSE pc[r]
      BY <1>2 DEF Crash
    <2>2. \A r \in Requests : /\ pc'[r] \notin InFlight
                              /\ pc[r] = "done" <=> pc'[r] = "done"
                              /\ pc[r] \in Dropping \cup Over => pc'[r] \in Over
      BY <2>1 DEF InFlight, Dropping, Over
    <2>3. HandlersKnown'
      <3>1. \A r \in Requests : pc'[r] \notin Reading \cup {"drop_user", "mail"} \cup Telling
        BY <2>2 DEF InFlight, Reading, Telling
      <3>2. QED BY <2>1, <2>2, <3>1 DEF MailInv, HandlersKnown, Issues, SignsIn
    <2>4. MailedLater'
      <3>1. \A r \in Requests : pc'[r] \notin Telling BY <2>2 DEF InFlight, Telling
      <3>2. QED BY <3>1 DEF MailedLater
    <2>5. IssuedLasts'
      <3>1. \A c \in Requests : Issued(c) <=> Issued(c)' BY <2>1, <2>2 DEF Issued
      <3>2. ASSUME NEW c \in Requests, Superseded(c) PROVE Superseded(c)'
        <4>1. \A j \in DOMAIN mailed : mailed[j] \in Requests BY DEF AccountTypeOK
        <4>2. QED BY <2>1, <3>1, <3>2, <4>1 DEF Superseded, After, Issued
      <3>3. ASSUME NEW c \in Requests, Taken(c) PROVE Taken(c)'
        BY <2>1, <2>2, <3>3 DEF Taken
      <3>4. QED BY <2>1, <3>1, <3>2, <3>3 DEF MailInv, IssuedLasts
    <2>6. QED BY <2>3, <2>4, <2>5 DEF MailInv
  <1>3. CASE Cool \/ UNCHANGED vars
    <2>1. UNCHANGED <<code, kind, purpose, seen, writes, pc, mailed>>
      BY <1>3 DEF Cool, vars
    <2>2. HandlersKnown' BY <2>1 DEF MailInv, HandlersKnown, Issues, SignsIn
    <2>3. MailedLater' BY <2>1 DEF MailInv, MailedLater, Issues, After
    <2>4. IssuedLasts'
      BY <2>1 DEF MailInv, IssuedLasts, Issued, Superseded, Taken, After
    <2>5. QED BY <2>2, <2>3, <2>4 DEF MailInv
  <1>4. QED BY <1>1, <1>2, <1>3 DEF Next

\* The last mail that was sent and committed for a purpose carries the code that works,
\* however many requests for codes, sign-ins and deletions cross each other, fail at the
\* mail server, time out or are lost in a crash.
THEOREM LastMailLasts == Spec => []LastMailWorks
  <1>1. Init => MailInv
    <2> SUFFICES ASSUME Init PROVE MailInv
      OBVIOUS
    <2>1. \A r \in Requests : kind[r] = "none" /\ pc[r] = "idle" /\ writes[r] = {}
      BY DEF Init
    <2>2. QED BY <2>1 DEF MailInv, HandlersKnown, MailedLater, IssuedLasts, Issued, Issues,
                          SignsIn, Reading, Telling
  <1>2. AccountTypeOK /\ MailInv => LastMailWorks
    <2> SUFFICES ASSUME AccountTypeOK, MailInv, NEW i \in DOMAIN mailed,
                        Issued(mailed[i]),
                        \A j \in (i + 1)..Len(mailed) :
                          ~(Issued(mailed[j]) /\ purpose[mailed[j]] = purpose[mailed[i]]),
                        ~Taken(mailed[i])
                 PROVE  code[mailed[i]] = "active"
      BY DEF LastMailWorks, Taken
    <2>1. mailed \in Seq(Requests) /\ mailed[i] \in Requests BY DEF AccountTypeOK
    <2>2. ~Superseded(mailed[i])
      <3> SUFFICES ASSUME NEW j \in DOMAIN mailed, Issued(mailed[j]),
                          purpose[mailed[j]] = purpose[mailed[i]],
                          After(mailed[i], j, mailed)
                   PROVE  FALSE
        BY DEF Superseded
      <3>1. i < j BY DEF After
      <3>2. DOMAIN mailed = 1..Len(mailed) /\ Len(mailed) \in Nat BY <2>1
      <3>3. j \in (i + 1)..Len(mailed) BY <3>1, <3>2
      <3>4. QED BY <3>3
    <2>3. QED BY <2>1, <2>2 DEF MailInv, IssuedLasts
  <1>3. QED BY <1>1, <1>2, AccountTyped, CodesSafe, MailStep, PTL DEF Spec
===============================================================================
