------------------------------- MODULE Accounts -------------------------------
(***************************************************************************)
(* One email address: its account and its codes, and the requests of       *)
(* api/auth.py and DELETE /api/me that work on them (core/auth/codes.py,   *)
(* lockout.py, rate_limit.py).                                             *)
(*                                                                         *)
(* A request is one transaction.  PostgreSQL at READ COMMITTED: a          *)
(* statement sees what was committed when it started, an UPDATE or DELETE  *)
(* waits for rows another transaction has written and looks at them again, *)
(* and an INSERT waits for rivals in a unique index.  So a statement that  *)
(* can wait is two steps.  The request's session commits after its         *)
(* response is sent, and an exception, HTTPException included, rolls back. *)
(*                                                                         *)
(* A code is named by the request that issued it.                          *)
(***************************************************************************)
EXTENDS Naturals, Sequences

CONSTANTS
  Requests,
  Kinds,        \* the endpoints that are called
  MaxFailed,    \* settings.login_max_failed_attempts
  MaxCrashes    \* process restarts

ASSUME AccountConstants ==
  /\ Kinds \subseteq {"register", "request_code", "verify", "login_with_code",
                      "login", "delete"}
  /\ MaxFailed \in Nat \ {0}
  /\ MaxCrashes \in Nat

VARIABLES
  user,       \* the users row, as committed
  strikes,    \* its failed_login_attempts; MaxFailed: locked_until is set
  code,       \* request -> the email_codes row it issued, as committed
  hot,        \* the limiter has seen this address less than 60 s ago
  mailed,     \* codes the mail server took, in order
  kind,       \* request -> its endpoint
  pc,         \* request -> the next statement
  purpose,    \* request -> the purpose of the code it issues or looks for
  seen,       \* request -> code rows its current statement has matched
  writes,     \* request -> code rows it has written and not committed
  stale,      \* requests whose users row was deleted after they loaded it
  misses,     \* wrong passwords since the last sign-in (history, capped)
  crashes

vars == <<user, strikes, code, hot, mailed, kind, pc, purpose, seen, writes,
          stale, misses, crashes>>

Purposes == {"verify_email", "login"}
InFlight == {"insert_user", "lookup", "save", "update", "insert", "mail", "respond",
             "find", "consume", "load", "miss", "drop", "drop_user", "commit"}
Over == {"done", "failed", "refused", "silent", "lost"}

AccountTypeOK ==
  /\ user \in {"none", "unverified", "verified"}
  /\ strikes \in 0..MaxFailed
  /\ code \in [Requests -> {"none", "active", "consumed"}]
  /\ hot \in BOOLEAN
  /\ mailed \in Seq(Requests)
  /\ kind \in [Requests -> Kinds \cup {"none"}]
  /\ pc \in [Requests -> {"idle"} \cup InFlight \cup Over]
  /\ purpose \in [Requests -> Purposes \cup {"none"}]
  /\ seen \in [Requests -> SUBSET Requests]
  /\ writes \in [Requests -> SUBSET Requests]
  /\ stale \subseteq Requests
  /\ misses \in 0..MaxFailed
  /\ crashes \in 0..MaxCrashes

\* Nobody has registered, or an account was verified some time ago.
Init ==
  /\ user \in {"none", "verified"}
  /\ strikes = 0
  /\ code = [r \in Requests |-> "none"]
  /\ hot = FALSE
  /\ mailed = <<>>
  /\ kind = [r \in Requests |-> "none"]
  /\ pc = [r \in Requests |-> "idle"]
  /\ purpose = [r \in Requests |-> "none"]
  /\ seen = [r \in Requests |-> {}]
  /\ writes = [r \in Requests |-> {}]
  /\ stale = {}
  /\ misses = 0
  /\ crashes = 0

-------------------------------------------------------------------------------
(* Transactions.                                                           *)

Go(r, from, to) ==
  /\ pc[r] = from
  /\ pc' = [pc EXCEPT ![r] = to]

\* A request to endpoint k; its first statement leaves it at `to`.
Call(r, k, to) ==
  /\ k \in Kinds
  /\ Go(r, "idle", to)
  /\ kind' = [kind EXCEPT ![r] = k]

\* Request r raises: session_scope() rolls back.
Fail(r, from) ==
  /\ Go(r, from, "failed")
  /\ writes' = [writes EXCEPT ![r] = {}]

\* Row c is written by a transaction other than r's.
Locked(c, r) == \E o \in Requests \ {r} : c \in writes[o]

Free(r) == \A c \in seen[r] : ~Locked(c, r)

\* register() holds an uncommitted users row.
Inserting(r) == kind[r] = "register" /\ pc[r] \in InFlight \ {"insert_user"}

Active(p) == {c \in Requests : code[c] = "active" /\ purpose[c] = p}

\* What the commit of r makes of the code rows.
Committed(r) ==
  [c \in Requests |->
     IF c \notin writes[r] THEN code[c]
     ELSE IF kind[r] = "delete" THEN "none"
     ELSE IF c = r THEN "active" ELSE "consumed"]

\* A row that rivals r's in the partial unique index is inserted or changed elsewhere.
Contested(r) ==
  \E o \in Requests \ {r} : \E c \in writes[o] :
    purpose[c] = purpose[r] /\ (c = o \/ code[c] = "active")

\* The next statement of r waits for another transaction.
Waits(r) ==
  \/ pc[r] = "insert_user" /\ \E o \in Requests : Inserting(o)
  \/ pc[r] \in {"update", "consume", "drop"} /\ ~Free(r)
  \/ pc[r] = "insert" /\ Contested(r)

-------------------------------------------------------------------------------
(* Issuing a code: register() and request_code().                          *)

\* The two uniqueness queries; another name that is taken is a failure as well.
Register(r) ==
  /\ \/ user = "none" /\ Call(r, "register", "insert_user")
     \/ Call(r, "register", "failed")
  /\ UNCHANGED <<user, strikes, code, hot, mailed, purpose, seen, writes,
                 stale, misses, crashes>>

\* INSERT INTO users waits for a rival's transaction; its commit makes a conflict.
InsertUser(r) ==
  /\ ~Waits(r)
  /\ IF user = "none"
       THEN /\ Go(r, "insert_user", "save")
            /\ purpose' = [purpose EXCEPT ![r] = "verify_email"]
            /\ UNCHANGED writes
       ELSE Fail(r, "insert_user") /\ UNCHANGED purpose
  /\ UNCHANGED <<user, strikes, code, hot, mailed, kind, seen, stale, misses,
                 crashes>>

\* limiter.allow(): recorded before anything is sent.
RequestCode(r) ==
  /\ Call(r, "request_code", IF hot THEN "refused" ELSE "lookup")
  /\ hot' = TRUE
  /\ UNCHANGED <<user, strikes, code, mailed, purpose, seen, writes, stale, misses,
                 crashes>>

\* Sixty seconds have passed.
Cool ==
  /\ hot
  /\ hot' = FALSE
  /\ UNCHANGED <<user, strikes, code, mailed, kind, pc, purpose, seen, writes,
                 stale, misses, crashes>>

\* The user decides the purpose; an unknown address is answered in silence.
Lookup(r) ==
  /\ IF user = "none"
       THEN Go(r, "lookup", "silent") /\ UNCHANGED purpose
       ELSE /\ Go(r, "lookup", "save")
            /\ purpose' = [purpose EXCEPT
                 ![r] = IF user = "verified" THEN "login" ELSE "verify_email"]
  /\ UNCHANGED <<user, strikes, code, hot, mailed, kind, seen, writes, stale,
                 misses, crashes>>

\* Mutation of StartUpdate: the purpose is missing in the WHERE clause.
StartUpdateAll(r) ==
  /\ Go(r, "save", "update")
  /\ seen' = [seen EXCEPT ![r] = {c \in Requests : code[c] = "active"}]
  /\ UNCHANGED <<user, strikes, code, hot, mailed, kind, purpose, writes,
                 stale, misses, crashes>>

\* save_code(): UPDATE of the active rows for this purpose ...
StartUpdate(r) ==
  /\ Go(r, "save", "update")
  /\ seen' = [seen EXCEPT ![r] = Active(purpose[r])]
  /\ UNCHANGED <<user, strikes, code, hot, mailed, kind, purpose, writes,
                 stale, misses, crashes>>

\* ... which are still active when nobody else holds them ...
FinishUpdate(r) ==
  /\ Go(r, "update", "insert")
  /\ ~Waits(r)
  /\ writes' = [writes EXCEPT ![r] = {c \in seen[r] : code[c] = "active"}]
  /\ UNCHANGED <<user, strikes, code, hot, mailed, kind, purpose, seen, stale,
                 misses, crashes>>

\* Mutation of InsertCode: the index is not unique.
InsertCodeAnyway(r) ==
  /\ Go(r, "insert", "mail")
  /\ writes' = [writes EXCEPT ![r] = @ \cup {r}]
  /\ UNCHANGED <<user, strikes, code, hot, mailed, kind, purpose, seen, stale,
                 misses, crashes>>

\* ... and INSERT, under the partial unique index.
InsertCode(r) ==
  /\ ~Waits(r)
  /\ IF Active(purpose[r]) \subseteq writes[r]
       THEN Go(r, "insert", "mail") /\ writes' = [writes EXCEPT ![r] = @ \cup {r}]
       ELSE Fail(r, "insert")
  /\ UNCHANGED <<user, strikes, code, hot, mailed, kind, purpose, seen, stale,
                 misses, crashes>>

\* The code goes out before it is committed.
Mail(r) ==
  /\ Go(r, "mail", "respond")
  /\ mailed' = Append(mailed, r)
  /\ UNCHANGED <<user, strikes, code, hot, kind, purpose, seen, writes, stale,
                 misses, crashes>>

\* Mutation of MailFails: the error is swallowed and the session is never closed.
MailHangs(r) ==
  /\ Go(r, "mail", "failed")
  /\ UNCHANGED <<user, strikes, code, hot, mailed, kind, purpose, seen, writes,
                 stale, misses,
                 crashes>>

\* EmailSendError, which may come after the server took the mail: 503.
MailFails(r) ==
  /\ Fail(r, "mail")
  /\ mailed' = Append(mailed, r) \/ UNCHANGED mailed
  /\ UNCHANGED <<user, strikes, code, hot, kind, purpose, seen, stale, misses, crashes>>

-------------------------------------------------------------------------------
(* Using a code: verify() and login_with_code().                           *)

\* verify_code(): the active row, not expired, and the code that was typed.
ReadCode(r, p, from) ==
  /\ \/ \E c \in Active(p) :
          /\ \E i \in DOMAIN mailed : mailed[i] = c
          /\ Go(r, from, "consume")
          /\ seen' = [seen EXCEPT ![r] = {c}]
     \/ Go(r, from, "failed") /\ UNCHANGED seen
  /\ UNCHANGED <<user, strikes, code, hot, mailed, purpose, writes, stale,
                 misses, crashes>>

Verify(r) ==
  /\ "verify" \in Kinds
  /\ kind' = [kind EXCEPT ![r] = "verify"]
  /\ ReadCode(r, "verify_email", "idle")

LoginWithCode(r) ==
  /\ Call(r, "login_with_code", IF user = "verified" THEN "find" ELSE "failed")
  /\ UNCHANGED <<user, strikes, code, hot, mailed, purpose, seen, writes,
                 stale, misses, crashes>>

FindCode(r) == ReadCode(r, "login", "find") /\ UNCHANGED kind

\* Mutation of Consume: the row is not marked.
ConsumeNothing(r) ==
  /\ Go(r, "consume", IF kind[r] = "verify" THEN "load" ELSE "respond")
  /\ UNCHANGED <<user, strikes, code, hot, mailed, kind, purpose, seen, writes,
                 stale, misses,
                 crashes>>

\* consume_code(): UPDATE by primary key, whatever became of the row meanwhile; a
\* row that was deleted is an error.
Consume(r) ==
  /\ ~Waits(r)
  /\ IF \E c \in seen[r] : code[c] = "none"
       THEN Fail(r, "consume")
       ELSE /\ Go(r, "consume", IF kind[r] = "verify" THEN "load" ELSE "respond")
            /\ writes' = [writes EXCEPT ![r] = seen[r]]
  /\ UNCHANGED <<user, strikes, code, hot, mailed, kind, purpose, seen, stale,
                 misses, crashes>>

\* verify() loads the user only now.
LoadUser(r) ==
  /\ IF user = "none" THEN Fail(r, "load") ELSE Go(r, "load", "respond") /\ UNCHANGED writes
  /\ UNCHANGED <<user, strikes, code, hot, mailed, kind, purpose, seen, stale,
                 misses, crashes>>

-------------------------------------------------------------------------------
(* Passwords: login().                                                     *)

\* Unknown, locked, unverified, or a wrong password, which is counted.
Login(r) ==
  /\ \/ user = "verified" /\ strikes < MaxFailed /\ Call(r, "login", "respond")
     \/ user # "none" /\ strikes < MaxFailed /\ Call(r, "login", "miss")
     \/ Call(r, "login", "failed")
  /\ UNCHANGED <<user, strikes, code, hot, mailed, purpose, seen, writes,
                 stale, misses, crashes>>

\* Mutation of Miss: the count is committed, by a database that adds one.
MissUncapped(r) ==
  /\ Fail(r, "miss")
  /\ strikes' = strikes + 1
  /\ misses' = IF misses < MaxFailed THEN misses + 1 ELSE misses
  /\ UNCHANGED <<user, code, hot, mailed, kind, purpose, seen, stale, crashes>>

\* record_failed_attempt() and flush(); the HTTPException then takes it back.
Miss(r) ==
  /\ Fail(r, "miss")
  /\ misses' = IF misses < MaxFailed THEN misses + 1 ELSE misses
  /\ UNCHANGED <<user, strikes, code, hot, mailed, kind, purpose, seen, stale,
                 crashes>>

-------------------------------------------------------------------------------
(* Deleting the account: delete_me().                                      *)

\* DELETE of all code rows of the address ...
Delete(r) ==
  /\ IF user = "verified"
       THEN /\ Call(r, "delete", "drop")
            /\ seen' = [seen EXCEPT ![r] = {c \in Requests : code[c] # "none"}]
       ELSE Call(r, "delete", "failed") /\ UNCHANGED seen
  /\ UNCHANGED <<user, strikes, code, hot, mailed, purpose, writes, stale,
                 misses, crashes>>

DropCodes(r) ==
  /\ Go(r, "drop", "drop_user")
  /\ ~Waits(r)
  /\ writes' = [writes EXCEPT ![r] = seen[r]]
  /\ UNCHANGED <<user, strikes, code, hot, mailed, kind, purpose, seen, stale,
                 misses, crashes>>

\* Request o has read the users row and will write it by its key.
Loaded(o) ==
  \/ kind[o] \in {"login", "login_with_code", "delete"} /\ pc[o] \in InFlight
  \/ kind[o] = "verify" /\ pc[o] \in {"respond", "commit"}

\* ... then of the user, and commit.
DropUser(r) ==
  /\ Go(r, "drop_user", "done")
  /\ IF r \in stale
       THEN UNCHANGED <<user, strikes, misses, stale>>
       ELSE /\ user' = "none"
            /\ strikes' = 0
            /\ misses' = 0
            /\ stale' = stale \cup {o \in Requests : Loaded(o)}
  /\ code' = Committed(r)
  /\ writes' = [writes EXCEPT ![r] = {}]
  /\ UNCHANGED <<hot, mailed, kind, purpose, seen, crashes>>

-------------------------------------------------------------------------------
\* The client hears of success.
Respond(r) ==
  /\ Go(r, "respond", "commit")
  /\ UNCHANGED <<user, strikes, code, hot, mailed, kind, purpose, seen, writes,
                 stale, misses,
                 crashes>>

\* The session's commit, with the pending changes of the users row: a sign-in whose
\* user was deleted meanwhile fails here.
Commit(r) ==
  LET signsIn == kind[r] \in {"verify", "login_with_code", "login"} IN
  /\ IF signsIn /\ r \in stale
       THEN Fail(r, "commit") /\ UNCHANGED <<user, strikes, code, misses>>
       ELSE /\ Go(r, "commit", "done")
            /\ user' = CASE kind[r] = "register" -> "unverified"
                         [] kind[r] = "verify" -> "verified"
                         [] OTHER -> user
            /\ strikes' = IF signsIn THEN 0 ELSE strikes
            /\ misses' = IF signsIn THEN 0 ELSE misses
            /\ code' = Committed(r)
            /\ writes' = [writes EXCEPT ![r] = {}]
  /\ UNCHANGED <<hot, mailed, kind, purpose, seen, stale, crashes>>

\* The process dies: the database rolls back, the limiter forgets.
Crash ==
  /\ crashes < MaxCrashes
  /\ crashes' = crashes + 1
  /\ hot' = FALSE
  /\ pc' = [r \in Requests |-> IF pc[r] \in InFlight THEN "lost" ELSE pc[r]]
  /\ writes' = [r \in Requests |-> {}]
  /\ UNCHANGED <<user, strikes, code, mailed, kind, purpose, seen, stale, misses>>

\* statement_timeout cancels a statement that waits for too long.
TimedOut(r) ==
  /\ \E at \in {"insert_user", "update", "insert", "consume", "drop"} : Fail(r, at)
  /\ UNCHANGED <<user, strikes, code, hot, mailed, kind, purpose, seen, stale,
                 misses, crashes>>

Begin(r) ==
  \/ Register(r) \/ RequestCode(r) \/ Verify(r) \/ LoginWithCode(r) \/ Login(r) \/ Delete(r)

Step(r) ==
  \/ InsertUser(r) \/ Lookup(r) \/ StartUpdate(r) \/ FinishUpdate(r) \/ InsertCode(r)
  \/ Mail(r) \/ MailFails(r) \/ FindCode(r) \/ Consume(r) \/ LoadUser(r) \/ Miss(r)
  \/ DropCodes(r) \/ DropUser(r) \/ Respond(r) \/ Commit(r)

Next ==
  \/ \E r \in Requests : Begin(r) \/ Step(r) \/ TimedOut(r)
  \/ Cool
  \/ Crash

Spec == Init /\ [][Next]_vars

-------------------------------------------------------------------------------
(* Properties.                                                             *)

Issued(c) == kind[c] \in {"register", "request_code"} /\ pc[c] = "done"
SignedIn(r) == kind[r] \in {"verify", "login_with_code"} /\ pc[r] = "done"

\* At most one code of a purpose is active, whatever runs at the same time; else
\* verify_code()'s scalar_one_or_none() raises for good.
OneActiveCode == \A p \in Purposes : \A c, d \in Active(p) : c = d

\* The last code that was mailed and committed for a purpose works until it is used
\* or the account is deleted: no crossing of requests leaves the user with a mail
\* that the database does not know.
LastMailWorks ==
  \A i \in DOMAIN mailed :
    LET c == mailed[i] IN
    /\ Issued(c)
    /\ \A j \in (i + 1)..Len(mailed) : ~(Issued(mailed[j]) /\ purpose[mailed[j]] = purpose[c])
    /\ \A r \in Requests :
         pc[r] = "done" /\ kind[r] \in {"verify", "login_with_code", "delete"} => c \notin seen[r]
    => code[c] = "active"

\* A code that somebody has signed in with cannot be read again, even when a request
\* for a new code was superseding it at the time.
UsedIsSpent == \A r \in Requests : SignedIn(r) => \A c \in seen[r] : code[c] # "active"

\* Requests never wait in a circle, whatever rows they lock and in whatever order:
\* as long as one is open, one can go on.
NoWaitCycle ==
  (\E r \in Requests : pc[r] \in InFlight) =>
    \E r \in Requests : pc[r] \in InFlight /\ ~Waits(r)

-------------------------------------------------------------------------------
(* What docs say and the code does not do (violation runs).                *)

\* codes.py: "Single-use: enforced by a partial unique index ... plus an explicit
\* UPDATE".
SingleUse ==
  \A r, o \in Requests : SignedIn(r) /\ SignedIn(o) /\ r # o => seen[r] \cap seen[o] = {}

\* test_login_lockout_after_n_failed_attempts: after login_max_failed_attempts wrong
\* passwords the account is locked.
MissesLock == user # "none" /\ misses = MaxFailed => strikes = MaxFailed
===============================================================================
