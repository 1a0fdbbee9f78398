------------------------------ MODULE Accounts ------------------------------
(***************************************************************************)
(* The owner's sign-in: a password and a second factor, which is a code of *)
(* the installed authenticator (TOTP) or a single-use recovery code.  A    *)
(* factor buys one thing: a session, an enrollment that will replace the   *)
(* authenticator, or the authorisation of one update.                      *)
(*                                                                         *)
(* A sign-in reads the owner and verifies the factor outside any           *)
(* transaction and consumes it in a second step, so other requests, a      *)
(* restart or offline work on the database may come between.  Write        *)
(* transactions are serialised (BEGIN IMMEDIATE), so each is one step.     *)
(* The offline operations (snapshot, restore, recover-owner) need the lock *)
(* the API holds while it runs, so every request is gone.                  *)
(*                                                                         *)
(* Secrets are numbered in the order they are drawn; an enrollment token   *)
(* is drawn with its secret and stands for it.  A session is named by the  *)
(* factor that bought it.  A row that has expired is one no query sees, so *)
(* expiry removes it.  Two steps never share a code.                       *)
(***************************************************************************)
EXTENDS Naturals, FiniteSets

CONSTANTS Requests,     \* the password slots (2 in the code)
          Passwords,    \* salted password hashes
          Codes,        \* numbers of the recovery codes of a secret (10 in the code)
          Updates,      \* ids of update requests
          Presented,    \* steps whose codes are presented
          MaxSecrets,   \* bound on the secrets drawn
          MaxStep,      \* bound on the clock, in steps of 30 s
          MaxHost,      \* bound on snapshots, restores and recoveries
          None

ASSUME AccountsAssumption ==
  /\ {MaxSecrets, MaxHost} \subseteq Nat /\ MaxStep \in Nat \ {0}
  /\ Presented \subseteq 0 .. MaxStep + 1
  /\ None \notin Passwords

VARIABLES
  now,       \* the current step
  db,        \* the database
  request,   \* what each request in flight has read
  backup,    \* the database in the backup at hand
  drawn,     \* secrets drawn so far
  host,      \* snapshots, restores and recoveries so far
  spent,     \* history: factors that have bought something
  again      \* history: factors that have bought a second thing

vars == <<now, db, request, backup, drawn, host, spent, again>>

Secrets == 1 .. MaxSecrets
Steps   == 0 .. MaxStep + 1
Totp    == {"totp"} \X Secrets \X Presented
Recovery == {"code"} \X Secrets \X Codes
Factors == Totp \union Recovery

NoMfa        == [secret |-> 0, last |-> 0]
NoEnrollment == [secret |-> 0, owner |-> None, first |-> FALSE, under |-> 0]
NoFactor     == <<"none", 0, 0>>
NoRequest    == [kind |-> "none", owner |-> None, secret |-> 0, factor |-> NoFactor]
NoUpdate     == [state |-> "none", session |-> NoFactor]

\* The tables: users joined with installation, owner_mfa, owner_recovery,
\* auth_enrollment, user_sessions and update_authorizations.
Empty == [owner |-> None, mfa |-> NoMfa, codes |-> {}, enrollment |-> NoEnrollment,
          sessions |-> {}, updates |-> [u \in Updates |-> NoUpdate]]

Init ==
  /\ now = 1
  /\ db = Empty
  /\ request = [r \in Requests |-> NoRequest]
  /\ backup = Empty
  /\ drawn = 0
  /\ host = 0
  /\ spent = {}
  /\ again = {}

-----------------------------------------------------------------------------
(* Factors *)

Pending == {u \in Updates : db.updates[u].state = "PENDING"}

Cancelled(updates) ==
  [u \in Updates |-> IF updates[u].state = "PENDING"
                     THEN [updates[u] EXCEPT !.state = "CANCELLED"] ELSE updates[u]]

\* VerifyTOTP: the codes it takes now.
Accepted == (now - 1) .. (now + 1)

\* secondFactor: a code must be of the secret and the step that were read; a
\* recovery code is looked at only when it is consumed.
SecondFactor(f, mfa) ==
  \/ f \in Totp /\ f[2] = mfa.secret /\ f[3] \in Accepted /\ f[3] > mfa.last
  \/ f \in Recovery /\ f[2] <= drawn

\* The mutation of consumeFactor without AND secret=?3.
ConsumableAny(f, secret) ==
  \/ f \in Totp /\ db.mfa.secret # 0 /\ db.mfa.last < f[3]
  \/ f \in Recovery /\ f \in db.codes

\* consumeFactor: whether the row is still there to be updated or deleted.
Consumable(f, secret) ==
  \/ f \in Totp /\ db.mfa.secret = secret /\ db.mfa.last < f[3]
  \/ f \in Recovery /\ f \in db.codes

\* The mutation that verifies a code and forgets to record its step.
ConsumedForgets(f) ==
  IF f \in Totp THEN db ELSE [db EXCEPT !.codes = @ \ {f}]

\* The database once f is consumed.
Consumed(f) ==
  IF f \in Totp THEN [db EXCEPT !.mfa.last = f[3]] ELSE [db EXCEPT !.codes = @ \ {f}]

\* History: f buys one thing.
Buys(f) ==
  /\ spent' = spent \union {f}
  /\ again' = again \union ({f} \intersect spent)

-----------------------------------------------------------------------------
(* Requests: signIn reads and verifies, then commits. *)

Idle(r) == request[r] = NoRequest

Done(r) == request' = [request EXCEPT ![r] = NoRequest]

\* A sign-in or a replacement whose password and factor have been verified.
Verify(r, kind, f) ==
  /\ Idle(r)
  /\ db.owner # None /\ db.mfa # NoMfa
  /\ SecondFactor(f, db.mfa)
  /\ request' = [request EXCEPT ![r] = [kind |-> kind, owner |-> db.owner,
                                        secret |-> db.mfa.secret, factor |-> f]]
  /\ UNCHANGED <<now, db, backup, host, drawn, spent, again>>

\* A setup: nobody has an authenticator, and an owner there is knows the password.
VerifySetup(r, p) ==
  /\ Idle(r)
  /\ db.mfa = NoMfa
  /\ db.owner \in {None, p}
  /\ request' = [request EXCEPT ![r] = [kind |-> IF db.owner = None THEN "first" ELSE "setup",
                                        owner |-> p, secret |-> 0, factor |-> NoFactor]]
  /\ UNCHANGED <<now, db, backup, host, drawn, spent, again>>

\* The transaction of a sign-in.
CommitLogin(r) ==
  LET q == request[r] IN
  /\ q.kind = "login"
  /\ Done(r)
  /\ \/ /\ Consumable(q.factor, q.secret)
        /\ db' = [Consumed(q.factor) EXCEPT !.sessions = @ \union {q.factor}]
        /\ Buys(q.factor)
     \/ /\ ~ Consumable(q.factor, q.secret)     \* 401
        /\ UNCHANGED <<db, spent, again>>
  /\ UNCHANGED <<now, backup, host, drawn>>

\* auth_enrollment holds one row; a later enrollment overwrites an earlier one.
\* Its user_id is null (first) when there was no owner.  `under' is history: the
\* authenticator whose factor opened it, 0 for a setup.
Enrolled(d, q) ==
  [d EXCEPT !.enrollment = [secret |-> drawn + 1, owner |-> q.owner,
                            first |-> q.kind = "first", under |-> q.factor[2]]]

\* beginEnrollment for a replacement.
BeginReplacement(r) ==
  LET q == request[r] IN
  /\ q.kind = "replace"
  /\ Done(r)
  /\ \/ /\ Consumable(q.factor, q.secret)
        /\ drawn < MaxSecrets /\ drawn' = drawn + 1
        /\ db' = Enrolled(Consumed(q.factor), q)
        /\ Buys(q.factor)
     \/ /\ ~ Consumable(q.factor, q.secret)     \* 401
        /\ UNCHANGED <<db, drawn, spent, again>>
  /\ UNCHANGED <<now, backup, host>>

\* The mutation that trusts what was read before the transaction.
ConfiguredTrusted == FALSE

\* beginEnrollment for a setup asks again, in its transaction, whether an
\* authenticator is installed.
Configured == db.mfa # NoMfa

BeginSetup(r) ==
  LET q == request[r] IN
  /\ q.kind \in {"first", "setup"}
  /\ Done(r)
  /\ \/ /\ ~ Configured
        /\ drawn < MaxSecrets /\ drawn' = drawn + 1
        /\ db' = Enrolled(db, q)
     \/ /\ Configured                           \* 409
        /\ UNCHANGED <<db, drawn>>
  /\ UNCHANGED <<now, backup, host, spent, again>>

\* The client has gone, or the transaction fails and is rolled back.
Abandon(r) ==
  /\ ~ Idle(r)
  /\ Done(r)
  /\ UNCHANGED <<now, db, backup, host, drawn, spent, again>>

-----------------------------------------------------------------------------
(* Transactions of one step *)

\* confirmEnrollment: the owner of the row, created if the row has none.
OwnerOf(e) == IF e.first THEN db.owner = None ELSE db.owner = e.owner

\* The mutation that leaves the sessions of the old authenticator.
RevokedUpdates(d) == [d EXCEPT !.updates = Cancelled(@)]

\* The mutation that leaves the authorised update.
RevokedSessions(d) == [d EXCEPT !.sessions = {}]

\* What is left of sessions and update authorisations when the authenticator changes.
Revoked(d) == [d EXCEPT !.sessions = {}, !.updates = Cancelled(@)]

\* confirmEnrollment: a code of the new secret installs it, replaces the recovery
\* codes, revokes what the old one gave and signs in.
ConfirmEnrollment(step) ==
  LET e == db.enrollment
      f == <<"totp", e.secret, step>> IN
  /\ e # NoEnrollment
  /\ step \in Accepted
  /\ OwnerOf(e)
  /\ db' = [Revoked(db) EXCEPT !.owner = e.owner,
                               !.mfa = [secret |-> e.secret, last |-> step],
                               !.codes = {"code"} \X {e.secret} \X Codes,
                               !.enrollment = NoEnrollment,
                               !.sessions = @ \union {f}]
  /\ Buys(f)
  /\ UNCHANGED <<now, request, backup, host, drawn>>

\* userRoutes: a session counts only while an authenticator is installed.
Authorized(s) == s \in db.sessions /\ db.owner # None /\ db.mfa # NoMfa

\* authorizeUpdate: the factor is verified and consumed in the same transaction.  A
\* request id that is known already is a receipt and changes nothing.
AuthorizeUpdate(u, s, f) ==
  /\ Authorized(s)
  /\ db.updates[u] = NoUpdate
  /\ Pending = {}
  /\ f \in Totp /\ SecondFactor(f, db.mfa) /\ Consumable(f, db.mfa.secret)
  /\ db' = [Consumed(f) EXCEPT !.updates[u] = [state |-> "PENDING", session |-> s]]
  /\ Buys(f)
  /\ UNCHANGED <<now, request, backup, host, drawn>>

\* dispatchUpdate, once the host has answered: handed over, or cancelled because
\* the session has gone or the host refuses it.
Dispatch(u) ==
  /\ u \in Pending
  /\ \/ /\ Authorized(db.updates[u].session)
        /\ db' = [db EXCEPT !.updates[u].state = "DISPATCHED"]
     \/ db' = [db EXCEPT !.updates[u].state = "CANCELLED"]
  /\ UNCHANGED <<now, request, backup, host, drawn, spent, again>>

\* Signing out, or seven days: the session is gone.
SessionEnds(s) ==
  /\ s \in db.sessions
  /\ db' = [db EXCEPT !.sessions = @ \ {s}]
  /\ UNCHANGED <<now, request, backup, host, drawn, spent, again>>

\* Ten minutes have passed.
EnrollmentExpires ==
  /\ db.enrollment # NoEnrollment
  /\ db' = [db EXCEPT !.enrollment = NoEnrollment]
  /\ UNCHANGED <<now, request, backup, host, drawn, spent, again>>

Tick ==
  /\ now < MaxStep
  /\ now' = now + 1
  /\ UNCHANGED <<db, request, backup, host, drawn, spent, again>>

-----------------------------------------------------------------------------
(* The host *)

OnHost == host < MaxHost /\ host' = host + 1

NoRequests == request' = [r \in Requests |-> NoRequest]

\* snapshot: the copy is made under the lock the API holds while it runs.
Snapshot ==
  /\ OnHost
  /\ backup' = db
  /\ NoRequests
  /\ UNCHANGED <<now, db, drawn, spent, again>>

\* The API process ends; what it had in hand is gone.
Restart ==
  /\ \E r \in Requests : ~ Idle(r)
  /\ NoRequests
  /\ UNCHANGED <<now, db, backup, drawn, host, spent, again>>

\* RecoverOwner: api recover-owner, which runs while the API does not.
RecoverOwner(p) ==
  /\ OnHost
  /\ db.owner # None /\ p # db.owner           \* a fresh salt
  /\ db' = [Empty EXCEPT !.owner = p, !.updates = Cancelled(db.updates)]
  /\ NoRequests
  /\ UNCHANGED <<now, backup, drawn, spent, again>>

\* The mutation that fences the current step and forgets the next one.
FencedCurrent(last) == IF last > now THEN last ELSE now

\* The mutation that fences one step more than a code can be taken for.
FencedTooFar(last) == IF last > now + 2 THEN last ELSE now + 2

\* revoke_restored_auth: the last step a restored authenticator may have taken.
Fenced(last) == IF last > now + 1 THEN last ELSE now + 1

RestoredAuth(d) ==
  [d EXCEPT !.sessions = {}, !.enrollment = NoEnrollment, !.codes = {},
            !.updates = Cancelled(@),
            !.mfa = IF @ = NoMfa THEN @ ELSE [secret |-> @.secret, last |-> Fenced(@.last)]]

\* restore: the installation stands still; what it had is kept as another backup.
Restore ==
  /\ OnHost
  /\ db' = RestoredAuth(backup)
  /\ backup' \in {backup, db}
  /\ NoRequests
  /\ UNCHANGED <<now, drawn, spent, again>>

-----------------------------------------------------------------------------
Next ==
  \/ \E r \in Requests :
       \/ \E k \in {"login", "replace"}, f \in Factors : Verify(r, k, f)
       \/ \E p \in Passwords : VerifySetup(r, p)
       \/ CommitLogin(r)
       \/ BeginReplacement(r)
       \/ BeginSetup(r)
       \/ Abandon(r)
  \/ \E t \in Presented : ConfirmEnrollment(t)
  \/ \E u \in Updates, s \in Factors, f \in Totp : AuthorizeUpdate(u, s, f)
  \/ \E u \in Updates : Dispatch(u)
  \/ \E s \in Factors : SessionEnds(s)
  \/ EnrollmentExpires
  \/ Tick
  \/ Snapshot
  \/ Restart
  \/ \E p \in Passwords : RecoverOwner(p)
  \/ Restore

Spec == Init /\ [][Next]_vars

-----------------------------------------------------------------------------
MfaRow == [secret : 0 .. MaxSecrets, last : Steps]
EnrollmentRow == [secret : 0 .. MaxSecrets, owner : Passwords \union {None},
                  first : BOOLEAN, under : 0 .. MaxSecrets]
UpdateRow == [state : {"none", "PENDING", "DISPATCHED", "CANCELLED"},
              session : Factors \union {NoFactor}]
DbType == [owner : Passwords \union {None}, mfa : MfaRow, codes : SUBSET Recovery,
           enrollment : EnrollmentRow, sessions : SUBSET Factors,
           updates : [Updates -> UpdateRow]]
RequestType == [kind : {"none", "login", "replace", "first", "setup"},
                owner : Passwords \union {None}, secret : 0 .. MaxSecrets,
                factor : Factors \union {NoFactor}]

\* The tables, the requests and the histories are what the code can hold.
TypeOK ==
  /\ now \in 1 .. MaxStep
  /\ db \in DbType
  /\ backup \in DbType
  /\ request \in [Requests -> RequestType]
  /\ drawn \in 0 .. MaxSecrets
  /\ host \in 0 .. MaxHost
  /\ spent \subseteq Factors
  /\ again \subseteq Factors

\* A factor buys at most one session, enrollment, update or installation, whatever
\* requests are in flight together and whatever old backup is restored.
NoReplay == again = {}

\* Sessions, recovery codes and the update that waits all come from the authenticator
\* that is installed: what a replaced or recovered one gave is worth nothing, also to
\* a request that was verified before the replacement.
OneAuthenticator ==
  /\ \A s \in db.sessions : s[2] = db.mfa.secret
  /\ \A c \in db.codes : c[2] = db.mfa.secret
  /\ \A u \in Pending : db.updates[u].session[2] = db.mfa.secret

\* The enrollment that is open was opened under the authenticator it will replace,
\* or none is installed, and by the owner there is; so confirming it never replaces
\* one that its requester did not prove.
EnrollmentIsCurrent ==
  db.enrollment # NoEnrollment =>
    /\ db.enrollment.under = db.mfa.secret
    /\ OwnerOf(db.enrollment)

\* The owner is never shut out for long: the step recorded is never beyond the next
\* one, so a code is taken again within two steps of the clock.  (And every variable
\* has its type.)
LockoutIsShort == TypeOK /\ (db.mfa # NoMfa => db.mfa.last <= now + 1)
=============================================================================
