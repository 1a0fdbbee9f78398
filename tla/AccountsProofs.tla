--------------------------- MODULE AccountsProofs ---------------------------
(***************************************************************************)
(* The invariants of module Accounts, for any number of requests, secrets, *)
(* codes, updates, and any length of time.                                 *)
(*                                                                         *)
(* None of them is inductive alone.  That no factor buys twice needs to    *)
(* know where every spent factor stands: a spent code of the installed     *)
(* secret is behind the recorded step, one of another secret may come back *)
(* with an old backup, but no later than a step after now, which is where  *)
(* the restoration moves the recorded step.  What a request has read stays *)
(* true until it commits, because the operations that would change it run  *)
(* only when there are no requests.                                        *)
(***************************************************************************)
EXTENDS Accounts, TLAPS

\* Secrets are drawn once, and no recorded step is beyond the next one; all of it
\* also in the backup.
MfaInv ==
  \A d \in {db, backup} : /\ d.mfa.secret = 0 => d.mfa = NoMfa
                          /\ d.mfa.secret <= drawn
                          /\ d.mfa.last <= now + 1

\* Where the factors are that have bought something.
SpentInv ==
  \A f \in spent :
    /\ f[2] <= drawn
    /\ f \in Totp => f[3] <= now + 1 /\ (f[2] = db.mfa.secret => f[3] <= db.mfa.last)
    /\ f \notin db.codes

\* The secret of an open enrollment is not installed and has bought nothing yet.
EnrollInv ==
  db.enrollment # NoEnrollment =>
    /\ db.enrollment.secret # 0 /\ db.enrollment.secret <= drawn
    /\ db.enrollment.secret # db.mfa.secret
    /\ \A f \in spent : f[2] # db.enrollment.secret

\* What a request has read is still true of the owner.
RequestInv ==
  \A r \in Requests :
    LET q == request[r] IN
    /\ q.kind \in {"login", "replace"} =>
         /\ q.factor \in Factors /\ q.owner # None /\ q.owner = db.owner
         /\ q.factor \in Totp => q.factor[2] = q.secret /\ q.factor[3] <= now + 1
    /\ q.kind = "first" => db.owner = None \/ db.mfa # NoMfa
    /\ q.kind = "setup" => q.owner # None /\ q.owner = db.owner
    /\ q.kind \in {"first", "setup"} => q.factor = NoFactor

Inv == /\ TypeOK /\ MfaInv /\ SpentInv /\ EnrollInv /\ RequestInv
       /\ NoReplay /\ OneAuthenticator /\ EnrollmentIsCurrent

-----------------------------------------------------------------------------
(* Factors and the tables *)

\* What a factor is made of; a code is not a recovery code.
LEMMA FactorFacts ==
  /\ \A f \in Totp : f[1] = "totp" /\ f[2] \in Secrets /\ f[3] \in Presented
  /\ \A f \in Recovery : f[1] = "code" /\ f[2] \in Secrets
  /\ \A f \in Totp : f \notin Recovery
  /\ \A f : f \in Factors <=> f \in Totp \/ f \in Recovery
  /\ \A f \in Factors : f[2] \in Secrets
  /\ NoFactor[2] = 0
<1>1. \A f \in Totp : f[1] = "totp" /\ f[2] \in Secrets /\ f[3] \in Presented
  BY DEF Totp
<1>2. \A f \in Recovery : f[1] = "code" /\ f[2] \in Secrets
  BY DEF Recovery
<1>3. \A f \in Totp : f \notin Recovery
  BY <1>1, <1>2
<1>4. \A f : f \in Factors <=> f \in Totp \/ f \in Recovery
  BY Zenon DEF Factors
<1>5. NoFactor[2] = 0
  BY DEF NoFactor
<1> QED
  BY <1>1, <1>2, <1>3, <1>4, <1>5, Zenon

\* The factor a confirmed enrollment signs in with, and the codes it comes with.
LEMMA NewFactors ==
  ASSUME NEW s \in Secrets, NEW t \in Presented
  PROVE  /\ <<"totp", s, t>> \in Totp
         /\ <<"totp", s, t>>[2] = s /\ <<"totp", s, t>>[3] = t
         /\ {"code"} \X {s} \X Codes \subseteq Recovery
         /\ \A c \in {"code"} \X {s} \X Codes : c[2] = s
<1>1. <<"totp", s, t>> \in Totp
  BY DEF Totp
<1>2. <<"totp", s, t>>[2] = s /\ <<"totp", s, t>>[3] = t
  OBVIOUS
<1>3. ASSUME NEW c \in {"code"} \X {s} \X Codes
      PROVE  c \in Recovery /\ c[2] = s
  BY <1>3 DEF Recovery
<1> QED
  BY <1>1, <1>2, <1>3, Zenon

\* Cancelling leaves no update that waits.
LEMMA CancelledFacts ==
  ASSUME NEW d \in DbType
  PROVE  /\ Cancelled(d.updates) \in [Updates -> UpdateRow]
         /\ \A u \in Updates : Cancelled(d.updates)[u].state # "PENDING"
<1>1. d.updates \in [Updates -> UpdateRow]
  BY DEF DbType
<1>2. ASSUME NEW u \in Updates
      PROVE  /\ (IF d.updates[u].state = "PENDING" THEN [d.updates[u] EXCEPT !.state = "CANCELLED"]
                                                   ELSE d.updates[u]) \in UpdateRow
             /\ (IF d.updates[u].state = "PENDING" THEN [d.updates[u] EXCEPT !.state = "CANCELLED"]
                                                   ELSE d.updates[u]).state # "PENDING"
  <2>1. d.updates[u] \in UpdateRow
    BY <1>1
  <2> QED
    BY <2>1 DEF UpdateRow
<1> QED
  BY <1>2 DEF Cancelled

\* The columns of the tables.
LEMMA DbFacts ==
  ASSUME NEW d \in DbType
  PROVE  /\ d.owner \in Passwords \union {None} /\ d.mfa \in MfaRow
         /\ d.codes \subseteq Recovery /\ d.enrollment \in EnrollmentRow
         /\ d.sessions \subseteq Factors /\ d.updates \in [Updates -> UpdateRow]
         /\ d.mfa.secret \in 0 .. MaxSecrets /\ d.mfa.last \in Steps
         /\ d.mfa = [secret |-> d.mfa.secret, last |-> d.mfa.last]
<1>1. d.mfa \in MfaRow
  BY DEF DbType
<1> QED
  BY <1>1 DEF DbType, MfaRow

\* The rows there are when there is nothing.
LEMMA EmptyFacts ==
  /\ NoMfa \in MfaRow /\ NoMfa.secret = 0 /\ NoMfa.last = 0
  /\ NoEnrollment \in EnrollmentRow
  /\ NoUpdate \in UpdateRow /\ NoUpdate.state = "none"
  /\ NoRequest \in RequestType /\ NoRequest.kind = "none"
  /\ Empty \in DbType
<1>1. NoMfa \in MfaRow /\ NoMfa.secret = 0 /\ NoMfa.last = 0
  BY AccountsAssumption DEF NoMfa, MfaRow, Steps
<1>2. NoEnrollment \in EnrollmentRow
  BY AccountsAssumption DEF NoEnrollment, EnrollmentRow
<1>3. NoUpdate \in UpdateRow /\ NoUpdate.state = "none"
  BY DEF NoUpdate, UpdateRow
<1>4. NoRequest \in RequestType /\ NoRequest.kind = "none"
  BY AccountsAssumption DEF NoRequest, RequestType
<1>5. Empty \in DbType
  BY <1>1, <1>2, <1>3 DEF Empty, DbType
<1> QED
  BY <1>1, <1>2, <1>3, <1>4, <1>5

\* The numbers there are.
LEMMA NumberFacts ==
  ASSUME TypeOK
  PROVE  /\ MaxSecrets \in Nat /\ MaxStep \in Nat /\ MaxHost \in Nat
         /\ now \in Nat /\ drawn \in Nat /\ drawn <= MaxSecrets
         /\ \A d \in DbType : d.mfa.secret \in Nat /\ d.mfa.last \in Nat /\ d.enrollment.secret \in Nat
         /\ \A f \in Totp : f[3] \in Nat /\ f[3] \in Steps
         /\ \A f \in Factors : f[2] \in Nat /\ f[2] # 0
<1>1. MaxSecrets \in Nat /\ MaxStep \in Nat /\ MaxHost \in Nat /\ Steps \subseteq Nat
  BY AccountsAssumption DEF Steps
<1>2. now \in Nat /\ drawn \in Nat /\ drawn <= MaxSecrets
  BY <1>1 DEF TypeOK
<1>3. \A d \in DbType : d.mfa.secret \in Nat /\ d.mfa.last \in Nat
  <2> TAKE d \in DbType
  <2>1. d.mfa.secret \in 0 .. MaxSecrets /\ d.mfa.last \in Steps
    BY DbFacts
  <2>2. \A n \in 0 .. MaxSecrets : n \in Nat
    BY <1>1
  <2>3. \A n \in Steps : n \in Nat
    BY <1>1
  <2> QED
    BY <2>1, <2>2, <2>3, Zenon
<1>4. \A d \in DbType : d.enrollment.secret \in Nat
  BY <1>1 DEF DbType, EnrollmentRow
<1>5. \A f \in Totp : f[3] \in Steps
  BY FactorFacts, AccountsAssumption DEF Steps
<1>6. \A f \in Factors : f[2] \in Nat /\ f[2] # 0
  BY <1>1, FactorFacts DEF Secrets
<1> QED
  BY <1>1, <1>2, <1>3, <1>4, <1>5, <1>6

\* What consuming a factor leaves.
LEMMA ConsumedFacts ==
  ASSUME TypeOK, NEW f \in Factors
  PROVE  /\ Consumed(f) \in DbType
         /\ Consumed(f).owner = db.owner /\ Consumed(f).enrollment = db.enrollment
         /\ Consumed(f).sessions = db.sessions /\ Consumed(f).updates = db.updates
         /\ Consumed(f).mfa.secret = db.mfa.secret
         /\ Consumed(f).mfa.last = IF f \in Totp THEN f[3] ELSE db.mfa.last
         /\ Consumed(f).codes = IF f \in Totp THEN db.codes ELSE db.codes \ {f}
<1>0. db \in DbType /\ db.mfa \in MfaRow
  BY DbFacts DEF TypeOK
<1>1. CASE f \in Totp
  <2>1. f[3] \in Steps
    BY <1>1, FactorFacts, AccountsAssumption DEF Steps
  <2>2. Consumed(f) = [db EXCEPT !.mfa.last = f[3]]
    BY <1>1 DEF Consumed
  <2> QED
    BY <1>0, <1>1, <2>1, <2>2 DEF DbType, MfaRow
<1>2. CASE f \notin Totp
  <2>2. Consumed(f) = [db EXCEPT !.codes = db.codes \ {f}]
    BY <1>2 DEF Consumed
  <2> QED
    BY <1>0, <1>2, <2>2 DEF DbType
<1> QED
  BY <1>1, <1>2

-----------------------------------------------------------------------------
(* What the actions have in common *)

\* A factor that can still be consumed is of the installed authenticator and has
\* bought nothing.
LEMMA ConsumableFacts ==
  ASSUME Inv, NEW f \in Factors, NEW s, Consumable(f, s),
         f \in Totp => f[2] = s
  PROVE  /\ f[2] = db.mfa.secret /\ f \notin spent
         /\ f \in Totp => db.mfa.last < f[3]
         /\ f \notin Totp => f \in db.codes
         /\ db.mfa.secret # 0 /\ db.mfa.secret \in Secrets
<1>1. f[2] \in Secrets /\ (f \notin Totp => f \in Recovery)
  BY FactorFacts
<1>2. CASE f \in Totp
  <2>1. f[2] = db.mfa.secret /\ db.mfa.last < f[3]
    BY <1>2, FactorFacts DEF Consumable
  <2>2. f[3] \in Nat /\ db.mfa.last \in Nat
    BY <1>2, NumberFacts DEF Inv, TypeOK
  <2>3. f \notin spent
    BY <1>2, <2>1, <2>2 DEF Inv, SpentInv
  <2> QED
    BY <1>1, <1>2, <2>1, <2>3, AccountsAssumption DEF Secrets
<1>3. CASE f \notin Totp
  <2>1. f \in db.codes
    BY <1>3 DEF Consumable
  <2>2. f[2] = db.mfa.secret /\ f \notin spent
    BY <2>1 DEF Inv, SpentInv, OneAuthenticator
  <2> QED
    BY <1>1, <1>3, <2>1, <2>2, AccountsAssumption DEF Secrets
<1> QED
  BY <1>2, <1>3

\* Consuming keeps the books.
LEMMA ConsumingSteps ==
  ASSUME Inv, NEW f \in Factors, NEW s, Consumable(f, s),
         f \in Totp => f[2] = s /\ f[3] <= now + 1,
         Buys(f), now' = now, backup' = backup, drawn' \in drawn .. MaxSecrets,
         db'.mfa = Consumed(f).mfa, db'.codes = Consumed(f).codes
  PROVE  MfaInv' /\ SpentInv' /\ NoReplay' /\ spent' \subseteq Factors /\ again' \subseteq Factors
<1>1. /\ f[2] = db.mfa.secret /\ f \notin spent
      /\ f \in Totp => db.mfa.last < f[3]
      /\ f \notin Totp => f \in db.codes
      /\ db.mfa.secret # 0 /\ db.mfa.secret \in Secrets
  BY ConsumableFacts
<1>2. /\ db'.mfa.secret = db.mfa.secret
      /\ db'.mfa.last = IF f \in Totp THEN f[3] ELSE db.mfa.last
      /\ db'.codes = IF f \in Totp THEN db.codes ELSE db.codes \ {f}
  BY ConsumedFacts DEF Inv
<1>3. spent' = spent \union {f} /\ again' = {}
  BY <1>1 DEF Buys, Inv, NoReplay
<1>4. /\ db.mfa.secret \in Nat /\ db.mfa.last \in Nat /\ drawn \in Nat /\ drawn' \in Nat
      /\ drawn <= drawn' /\ now \in Nat /\ backup.mfa.secret \in Nat /\ backup.mfa.last \in Nat
      /\ \A g \in Factors : g[2] \in Nat
      /\ \A g \in Totp : g[3] \in Nat
  BY NumberFacts DEF Inv, TypeOK
<1>5. MfaInv'
  <2>1. /\ db'.mfa.secret # 0 /\ db'.mfa.secret <= drawn' /\ db'.mfa.last <= now' + 1
    BY <1>1, <1>2, <1>4 DEF Inv, MfaInv
  <2>2. /\ backup.mfa.secret = 0 => backup.mfa = NoMfa
        /\ backup.mfa.secret <= drawn' /\ backup.mfa.last <= now + 1
    BY <1>4 DEF Inv, MfaInv
  <2> QED
    BY <2>1, <2>2 DEF MfaInv
<1>6. SpentInv'
  <2> SUFFICES ASSUME NEW g \in spent'
               PROVE  /\ g[2] <= drawn'
                      /\ g \in Totp => g[3] <= now' + 1 /\ (g[2] = db'.mfa.secret => g[3] <= db'.mfa.last)
                      /\ g \notin db'.codes
    BY DEF SpentInv
  <2>1. CASE g = f
    BY <1>1, <1>2, <1>4, <2>1, FactorFacts DEF Inv, MfaInv, SpentInv, TypeOK, DbType
  <2>2. CASE g \in spent
    <3>1. g[2] <= drawn /\ g \notin db.codes /\ g \in Factors
      BY <2>2 DEF Inv, SpentInv, TypeOK
    <3>2. ASSUME g \in Totp
          PROVE  g[3] <= now + 1 /\ (g[2] = db.mfa.secret => g[3] <= db.mfa.last)
      BY <2>2, <3>2 DEF Inv, SpentInv
    <3> QED
      BY <1>1, <1>2, <1>4, <3>1, <3>2
  <2> QED
    BY <1>3, <2>1, <2>2
<1>7. spent' \subseteq Factors /\ again' \subseteq Factors
  BY <1>3 DEF Inv, TypeOK
<1> QED
  BY <1>3, <1>5, <1>6, <1>7 DEF NoReplay

\* What the requests that stay have read is still true when the owner stays and no
\* authenticator is removed.
LEMMA RequestsStay ==
  ASSUME Inv, now' >= now, now' \in Nat, db'.owner = db.owner, db.mfa # NoMfa => db'.mfa # NoMfa,
         \A r \in Requests : request'[r] \in {request[r], NoRequest}
  PROVE  RequestInv'
<1> SUFFICES ASSUME NEW r \in Requests, request'[r] = request[r]
             PROVE  LET q == request'[r] IN
                    /\ q.kind \in {"login", "replace"} =>
                         /\ q.factor \in Factors /\ q.owner # None /\ q.owner = db'.owner
                         /\ q.factor \in Totp => q.factor[2] = q.secret /\ q.factor[3] <= now' + 1
                    /\ q.kind = "first" => db'.owner = None \/ db'.mfa # NoMfa
                    /\ q.kind = "setup" => q.owner # None /\ q.owner = db'.owner
                    /\ q.kind \in {"first", "setup"} => q.factor = NoFactor
  BY EmptyFacts DEF RequestInv
<1>1. now \in Nat /\ \A g \in Totp : g[3] \in Nat
  BY NumberFacts DEF Inv
<1> QED
  BY <1>1 DEF Inv, RequestInv

\* The enrollment that is open stays current while the owner, the authenticator and
\* the enrollment stay, and nothing is bought with its secret.
LEMMA EnrollmentStays ==
  ASSUME Inv, db'.owner = db.owner, db'.mfa.secret = db.mfa.secret,
         db'.enrollment = db.enrollment, drawn' >= drawn, drawn' \in Nat,
         \A f \in spent' : f \in spent \/ f[2] = db.mfa.secret
  PROVE  EnrollInv' /\ EnrollmentIsCurrent'
<1>0. db.enrollment.secret \in Nat /\ drawn \in Nat
  BY NumberFacts DEF Inv, TypeOK
<1>1. EnrollInv'
  BY <1>0 DEF Inv, EnrollInv
<1>2. EnrollmentIsCurrent'
  BY DEF Inv, EnrollmentIsCurrent, OwnerOf
<1> QED
  BY <1>1, <1>2

-----------------------------------------------------------------------------
(* One lemma per action *)

LEMMA InitHolds == Init => Inv
<1> SUFFICES ASSUME Init PROVE Inv
  OBVIOUS
<1>1. /\ Empty.owner = None /\ Empty.mfa = NoMfa /\ Empty.codes = {} /\ Empty.enrollment = NoEnrollment
      /\ Empty.sessions = {} /\ Empty.updates = [u \in Updates |-> NoUpdate]
  BY DEF Empty
<1>2. TypeOK
  BY EmptyFacts, AccountsAssumption DEF Init, TypeOK
<1>3. MfaInv /\ SpentInv /\ EnrollInv /\ NoReplay /\ EnrollmentIsCurrent
  BY <1>1, EmptyFacts DEF Init, MfaInv, SpentInv, EnrollInv, NoReplay, EnrollmentIsCurrent
<1>4. RequestInv
  BY EmptyFacts DEF Init, RequestInv
<1>5. OneAuthenticator
  BY <1>1, EmptyFacts DEF Init, OneAuthenticator, Pending
<1> QED
  BY <1>2, <1>3, <1>4, <1>5 DEF Inv

\* A step that leaves the tables and the histories.
LEMMA NothingWritten ==
  ASSUME Inv, UNCHANGED <<db, drawn, spent, again>>, backup' \in {backup, db},
         now' \in now .. MaxStep, host' \in 0 .. MaxHost,
         request' \in [Requests -> RequestType], RequestInv'
  PROVE  Inv'
<1>0. now \in Nat /\ now' \in Nat /\ now <= now' /\ MaxStep \in Nat /\ db \in DbType /\ backup \in DbType
  BY NumberFacts DEF Inv, TypeOK
<1>1. TypeOK'
  BY <1>0 DEF Inv, TypeOK
<1>2. MfaInv'
  <2>1. /\ db.mfa.last \in Nat /\ backup.mfa.last \in Nat
    BY <1>0, NumberFacts DEF Inv
  <2> QED
    BY <1>0, <2>1 DEF Inv, MfaInv
<1>3. SpentInv'
  <2> SUFFICES ASSUME NEW f \in spent, f \in Totp
               PROVE  f[3] <= now' + 1
    BY DEF Inv, SpentInv
  <2>1. f[3] \in Nat /\ f[3] <= now + 1
    BY NumberFacts DEF Inv, SpentInv
  <2> QED
    BY <1>0, <2>1
<1>4. EnrollInv' /\ NoReplay' /\ OneAuthenticator' /\ EnrollmentIsCurrent'
  BY DEF Inv, EnrollInv, NoReplay, OneAuthenticator, Pending, EnrollmentIsCurrent, OwnerOf
<1> QED
  BY <1>1, <1>2, <1>3, <1>4 DEF Inv

LEMMA VerifyKeeps ==
  ASSUME Inv, NEW r \in Requests, NEW k \in {"login", "replace"}, NEW f \in Factors, Verify(r, k, f)
  PROVE  Inv'
<1> DEFINE q == [kind |-> k, owner |-> db.owner, secret |-> db.mfa.secret, factor |-> f]
<1>0. request' = [request EXCEPT ![r] = q] /\ UNCHANGED <<now, db, backup, host, drawn, spent, again>>
  BY DEF Verify
<1>1. q \in RequestType
  BY DbFacts DEF Inv, TypeOK, RequestType
<1>2. request \in [Requests -> RequestType] /\ request' \in [Requests -> RequestType]
  BY <1>0, <1>1 DEF Inv, TypeOK
<1>3. f \in Totp => f[2] = db.mfa.secret /\ f[3] <= now + 1
  BY FactorFacts, NumberFacts DEF Verify, SecondFactor, Accepted, Inv
<1>4. /\ q.kind = k /\ q.owner = db.owner /\ q.secret = db.mfa.secret /\ q.factor = f
      /\ db.owner # None
  BY DEF Verify
<1> HIDE DEF q
<1>5. RequestInv'
  <2> SUFFICES ASSUME NEW x \in Requests
               PROVE  LET y == request'[x] IN
                      /\ y.kind \in {"login", "replace"} =>
                           /\ y.factor \in Factors /\ y.owner # None /\ y.owner = db.owner
                           /\ y.factor \in Totp => y.factor[2] = y.secret /\ y.factor[3] <= now + 1
                      /\ y.kind = "first" => db.owner = None \/ db.mfa # NoMfa
                      /\ y.kind = "setup" => y.owner # None /\ y.owner = db.owner
                      /\ y.kind \in {"first", "setup"} => y.factor = NoFactor
    BY <1>0 DEF RequestInv
  <2>1. CASE x = r
    BY <1>0, <1>2, <1>3, <1>4, <2>1
  <2>2. CASE x # r
    <3>1. request'[x] = request[x]
      BY <1>0, <1>2, <2>2
    <3> QED
      BY <3>1 DEF Inv, RequestInv
  <2> QED
    BY <2>1, <2>2
<1>6. now' \in now .. MaxStep /\ host' \in 0 .. MaxHost
  BY <1>0, NumberFacts DEF Inv, TypeOK
<1> QED
  BY <1>0, <1>2, <1>5, <1>6, NothingWritten

LEMMA VerifySetupKeeps ==
  ASSUME Inv, NEW r \in Requests, NEW p \in Passwords, VerifySetup(r, p)
  PROVE  Inv'
<1> DEFINE q == [kind |-> IF db.owner = None THEN "first" ELSE "setup",
                 owner |-> p, secret |-> 0, factor |-> NoFactor]
<1>0. request' = [request EXCEPT ![r] = q] /\ UNCHANGED <<now, db, backup, host, drawn, spent, again>>
  BY DEF VerifySetup
<1>1. q \in RequestType
  BY AccountsAssumption DEF RequestType
<1>2. request \in [Requests -> RequestType] /\ request' \in [Requests -> RequestType]
  BY <1>0, <1>1 DEF Inv, TypeOK
<1>4. /\ q.kind \in {"first", "setup"} /\ q.factor = NoFactor /\ q.owner # None
      /\ q.kind = "first" => db.owner = None
      /\ q.kind = "setup" => q.owner = db.owner
  BY AccountsAssumption DEF VerifySetup
<1> HIDE DEF q
<1>5. RequestInv'
  <2> SUFFICES ASSUME NEW x \in Requests
               PROVE  LET y == request'[x] IN
                      /\ y.kind \in {"login", "replace"} =>
                           /\ y.factor \in Factors /\ y.owner # None /\ y.owner = db.owner
                           /\ y.factor \in Totp => y.factor[2] = y.secret /\ y.factor[3] <= now + 1
                      /\ y.kind = "first" => db.owner = None \/ db.mfa # NoMfa
                      /\ y.kind = "setup" => y.owner # None /\ y.owner = db.owner
                      /\ y.kind \in {"first", "setup"} => y.factor = NoFactor
    BY <1>0 DEF RequestInv
  <2>1. CASE x = r
    BY <1>0, <1>2, <1>4, <2>1
  <2>2. CASE x # r
    <3>1. request'[x] = request[x]
      BY <1>0, <1>2, <2>2
    <3> QED
      BY <3>1 DEF Inv, RequestInv
  <2> QED
    BY <2>1, <2>2
<1>6. now' \in now .. MaxStep /\ host' \in 0 .. MaxHost
  BY <1>0, NumberFacts DEF Inv, TypeOK
<1> QED
  BY <1>0, <1>2, <1>5, <1>6, NothingWritten

\* Requests that end, and steps of the clock and the host that write nothing.
LEMMA RequestsEndKeeps ==
  ASSUME Inv, \/ \E r \in Requests : Abandon(r)
              \/ Tick
              \/ Snapshot
              \/ Restart
  PROVE  Inv'
<1>0. request \in [Requests -> RequestType] /\ now \in Nat /\ MaxStep \in Nat /\ MaxHost \in Nat
  BY NumberFacts DEF Inv, TypeOK
<1>1. /\ UNCHANGED <<db, drawn, spent, again>> /\ backup' \in {backup, db}
      /\ now' \in now .. MaxStep /\ host' \in 0 .. MaxHost
  BY <1>0 DEF Abandon, Tick, Snapshot, Restart, OnHost, Inv, TypeOK
<1>2. /\ request' \in [Requests -> RequestType]
      /\ \A r \in Requests : request'[r] \in {request[r], NoRequest}
  BY <1>0, EmptyFacts DEF Abandon, Tick, Snapshot, Restart, Done, NoRequests
<1>3. RequestInv'
  BY <1>0, <1>1, <1>2, RequestsStay
<1> QED
  BY <1>1, <1>2, <1>3, NothingWritten

\* The authenticator's sessions, codes and waiting update, when it stays.
LEMMA AuthenticatorStays ==
  ASSUME Inv, db'.mfa.secret = db.mfa.secret, db'.codes \subseteq db.codes,
         \A s \in db'.sessions : s \in db.sessions \/ s[2] = db.mfa.secret,
         \A u \in Updates : db'.updates[u].state = "PENDING" =>
                              db'.updates[u] = db.updates[u] \/ db'.updates[u].session[2] = db.mfa.secret
  PROVE  OneAuthenticator'
<1>1. \A s \in db'.sessions : s[2] = db'.mfa.secret
  BY DEF Inv, OneAuthenticator
<1>2. \A c \in db'.codes : c[2] = db'.mfa.secret
  BY DEF Inv, OneAuthenticator
<1>3. ASSUME NEW u \in Updates, db'.updates[u].state = "PENDING"
      PROVE  db'.updates[u].session[2] = db'.mfa.secret
  BY <1>3 DEF Inv, OneAuthenticator, Pending
<1> QED
  BY <1>1, <1>2, <1>3 DEF OneAuthenticator, Pending

\* What a request of kind k holds of the owner and its factor.
LEMMA RequestFacts ==
  ASSUME Inv, NEW r \in Requests, request[r].kind \in {"login", "replace"}
  PROVE  LET q == request[r] IN
         /\ q.factor \in Factors /\ q.owner # None /\ q.owner = db.owner
         /\ q.factor \in Totp => q.factor[2] = q.secret /\ q.factor[3] <= now + 1
  BY DEF Inv, RequestInv

LEMMA DoneFacts ==
  ASSUME Inv, NEW r \in Requests, Done(r)
  PROVE  /\ request' \in [Requests -> RequestType]
         /\ \A x \in Requests : request'[x] \in {request[x], NoRequest}
<1>1. request \in [Requests -> RequestType]
  BY DEF Inv, TypeOK
<1> QED
  BY <1>1, EmptyFacts DEF Done

LEMMA CommitLoginKeeps ==
  ASSUME Inv, NEW r \in Requests, CommitLogin(r)
  PROVE  Inv'
<1> DEFINE f == request[r].factor
           d == Consumed(f)
<1>0. /\ request' \in [Requests -> RequestType]
      /\ \A x \in Requests : request'[x] \in {request[x], NoRequest}
      /\ now' = now /\ backup' = backup /\ host' = host /\ drawn' = drawn
      /\ now \in Nat /\ drawn \in Nat /\ MaxStep \in Nat /\ MaxSecrets \in Nat /\ drawn <= MaxSecrets
      /\ request[r].kind = "login"
  BY DoneFacts, NumberFacts DEF CommitLogin, Inv
<1>1. CASE UNCHANGED <<db, spent, again>>
  <2>1. RequestInv'
    BY <1>0, <1>1, RequestsStay
  <2>2. now' \in now .. MaxStep /\ host' \in 0 .. MaxHost
    BY <1>0 DEF Inv, TypeOK
  <2> QED
    BY <1>0, <1>1, <2>1, <2>2, NothingWritten
<1>2. CASE /\ Consumable(f, request[r].secret)
           /\ db' = [d EXCEPT !.sessions = @ \union {f}]
           /\ Buys(f)
  <2>1. f \in Factors /\ (f \in Totp => f[2] = request[r].secret /\ f[3] <= now + 1)
    BY <1>0, RequestFacts
  <2> HIDE DEF f
  <2>2. /\ d \in DbType
        /\ d.owner = db.owner /\ d.enrollment = db.enrollment
        /\ d.sessions = db.sessions /\ d.updates = db.updates
        /\ d.mfa.secret = db.mfa.secret
        /\ d.codes \subseteq db.codes
    BY <2>1, ConsumedFacts DEF Inv
  <2>3. /\ f[2] = db.mfa.secret /\ db.mfa.secret # 0
    BY <1>2, <2>1, ConsumableFacts
  <2> HIDE DEF d
  <2>4. /\ db' \in DbType /\ db'.owner = d.owner /\ db'.mfa = d.mfa /\ db'.codes = d.codes
        /\ db'.enrollment = d.enrollment /\ db'.sessions = d.sessions \union {f}
        /\ db'.updates = d.updates
    BY <1>2, <2>1, <2>2 DEF DbType
  <2>5. MfaInv' /\ SpentInv' /\ NoReplay' /\ spent' \subseteq Factors /\ again' \subseteq Factors
    <3>1. drawn' \in drawn .. MaxSecrets
      BY <1>0
    <3>2. db'.mfa = Consumed(f).mfa /\ db'.codes = Consumed(f).codes
      BY <2>4 DEF d
    <3> QED
      BY <1>0, <1>2, <2>1, <3>1, <3>2, ConsumingSteps
  <2>6. RequestInv'
    <3>1. db'.mfa # NoMfa
      BY <2>2, <2>3, <2>4, EmptyFacts
    <3> QED
      BY <1>0, <2>2, <2>4, <3>1, RequestsStay
  <2>7. EnrollInv' /\ EnrollmentIsCurrent'
    <3>1. \A g \in spent' : g \in spent \/ g[2] = db.mfa.secret
      BY <1>2, <2>3 DEF Buys
    <3> QED
      BY <1>0, <2>2, <2>4, <3>1, EnrollmentStays
  <2>8. OneAuthenticator'
    BY <2>2, <2>3, <2>4, AuthenticatorStays
  <2>9. TypeOK'
    BY <1>0, <2>4, <2>5 DEF TypeOK, Inv
  <2> QED
    BY <2>5, <2>6, <2>7, <2>8, <2>9 DEF Inv
<1> QED
  BY <1>1, <1>2 DEF CommitLogin

\* A new enrollment, by the owner there is and under the authenticator there is.
LEMMA NewEnrollment ==
  ASSUME Inv, drawn' = drawn + 1, drawn < MaxSecrets, db'.owner = db.owner,
         db'.mfa.secret = db.mfa.secret, NEW o, NEW b,
         db'.enrollment = [secret |-> drawn + 1, owner |-> o, first |-> b, under |-> db.mfa.secret],
         IF b THEN db.owner = None ELSE db.owner = o,
         \A f \in spent' : f \in spent \/ f[2] = db.mfa.secret
  PROVE  EnrollInv' /\ EnrollmentIsCurrent'
<1>0. drawn \in Nat /\ db.mfa.secret \in Nat /\ db.mfa.secret <= drawn
  BY NumberFacts DEF Inv, TypeOK, MfaInv
<1>1. /\ db'.enrollment.secret = drawn + 1 /\ db'.enrollment.owner = o
      /\ db'.enrollment.first = b /\ db'.enrollment.under = db.mfa.secret
  OBVIOUS
<1>2. \A f \in spent' : f[2] # drawn + 1
  <2>1. ASSUME NEW f \in spent
        PROVE  f[2] # drawn + 1
    <3>1. f[2] <= drawn /\ f[2] \in Nat
      BY NumberFacts DEF Inv, SpentInv, TypeOK
    <3> QED
      BY <1>0, <3>1
  <2> QED
    BY <1>0, <2>1
<1>3. EnrollInv'
  BY <1>0, <1>1, <1>2 DEF EnrollInv
<1>4. EnrollmentIsCurrent'
  BY <1>1 DEF EnrollmentIsCurrent, OwnerOf
<1> QED
  BY <1>3, <1>4

LEMMA BeginReplacementKeeps ==
  ASSUME Inv, NEW r \in Requests, BeginReplacement(r)
  PROVE  Inv'
<1> DEFINE q == request[r]
           f == q.factor
           d == Consumed(f)
           e == [secret |-> drawn + 1, owner |-> q.owner, first |-> q.kind = "first", under |-> f[2]]
<1>0. /\ request' \in [Requests -> RequestType]
      /\ \A x \in Requests : request'[x] \in {request[x], NoRequest}
      /\ now' = now /\ backup' = backup /\ host' = host
      /\ now \in Nat /\ drawn \in Nat /\ MaxStep \in Nat /\ MaxSecrets \in Nat /\ drawn <= MaxSecrets
      /\ q.kind = "replace"
  BY DoneFacts, NumberFacts DEF BeginReplacement, Inv
<1>1. CASE UNCHANGED <<db, drawn, spent, again>>
  <2>1. RequestInv'
    BY <1>0, <1>1, RequestsStay
  <2>2. now' \in now .. MaxStep /\ host' \in 0 .. MaxHost
    BY <1>0 DEF Inv, TypeOK
  <2> QED
    BY <1>0, <1>1, <2>1, <2>2, NothingWritten
<1>2. CASE /\ Consumable(f, q.secret)
           /\ drawn < MaxSecrets /\ drawn' = drawn + 1
           /\ db' = Enrolled(d, q)
           /\ Buys(f)
  <2>1. /\ f \in Factors /\ (f \in Totp => f[2] = q.secret /\ f[3] <= now + 1)
        /\ q.owner = db.owner /\ q.owner # None /\ db.owner \in Passwords \union {None}
    BY <1>0, RequestFacts, DbFacts DEF Inv, TypeOK
  <2>2. /\ d \in DbType
        /\ d.owner = db.owner /\ d.enrollment = db.enrollment
        /\ d.sessions = db.sessions /\ d.updates = db.updates
        /\ d.mfa.secret = db.mfa.secret
        /\ d.codes \subseteq db.codes
    BY <2>1, ConsumedFacts DEF Inv
  <2>3. /\ f[2] = db.mfa.secret /\ db.mfa.secret # 0 /\ db.mfa.secret \in Secrets
    BY <1>2, <2>1, ConsumableFacts
  <2>3a. e \in EnrollmentRow
    BY <1>0, <1>2, <2>1, <2>3 DEF EnrollmentRow, Secrets
  <2>3b. db' = [d EXCEPT !.enrollment = e]
    BY <1>2 DEF Enrolled
  <2> HIDE DEF d, e
  <2>4. /\ db' \in DbType /\ db'.owner = d.owner /\ db'.mfa = d.mfa /\ db'.codes = d.codes
        /\ db'.enrollment = e /\ db'.sessions = d.sessions
        /\ db'.updates = d.updates
    BY <2>2, <2>3a, <2>3b DEF DbType
  <2>5. MfaInv' /\ SpentInv' /\ NoReplay' /\ spent' \subseteq Factors /\ again' \subseteq Factors
    <3>1. drawn' \in drawn .. MaxSecrets
      BY <1>0, <1>2
    <3>2. db'.mfa = Consumed(f).mfa /\ db'.codes = Consumed(f).codes
      BY <2>4 DEF d
    <3> QED
      BY <1>0, <1>2, <2>1, <3>1, <3>2, ConsumingSteps
  <2>6. RequestInv'
    <3>1. db'.mfa # NoMfa
      BY <2>2, <2>3, <2>4, EmptyFacts
    <3> QED
      BY <1>0, <2>2, <2>4, <3>1, RequestsStay
  <2>7. EnrollInv' /\ EnrollmentIsCurrent'
    <3>1. \A g \in spent' : g \in spent \/ g[2] = db.mfa.secret
      BY <1>2, <2>3 DEF Buys
    <3>2. db'.enrollment = [secret |-> drawn + 1, owner |-> q.owner, first |-> FALSE, under |-> db.mfa.secret]
      BY <1>0, <2>3, <2>4 DEF e
    <3> QED
      BY <1>2, <2>1, <2>2, <2>4, <3>1, <3>2, NewEnrollment
  <2>8. OneAuthenticator'
    BY <2>2, <2>3, <2>4, AuthenticatorStays
  <2>9. TypeOK'
    BY <1>0, <1>2, <2>4, <2>5 DEF TypeOK, Inv
  <2> QED
    BY <2>5, <2>6, <2>7, <2>8, <2>9 DEF Inv
<1> QED
  BY <1>1, <1>2 DEF BeginReplacement

LEMMA BeginSetupKeeps ==
  ASSUME Inv, NEW r \in Requests, BeginSetup(r)
  PROVE  Inv'
<1> DEFINE q == request[r]
           e == [secret |-> drawn + 1, owner |-> q.owner, first |-> q.kind = "first", under |-> q.factor[2]]
<1>0. /\ request' \in [Requests -> RequestType]
      /\ \A x \in Requests : request'[x] \in {request[x], NoRequest}
      /\ now' = now /\ backup' = backup /\ host' = host /\ spent' = spent /\ again' = again
      /\ now \in Nat /\ drawn \in Nat /\ MaxStep \in Nat /\ MaxSecrets \in Nat /\ drawn <= MaxSecrets
      /\ q.kind \in {"first", "setup"}
  BY DoneFacts, NumberFacts DEF BeginSetup, Inv
<1>1. CASE UNCHANGED <<db, drawn>>
  <2>1. RequestInv'
    BY <1>0, <1>1, RequestsStay
  <2>2. now' \in now .. MaxStep /\ host' \in 0 .. MaxHost
    BY <1>0 DEF Inv, TypeOK
  <2> QED
    BY <1>0, <1>1, <2>1, <2>2, NothingWritten
<1>2. CASE /\ ~ Configured
           /\ drawn < MaxSecrets /\ drawn' = drawn + 1
           /\ db' = Enrolled(db, q)
  <2>1. /\ q.factor[2] = 0 /\ db.mfa.secret = 0 /\ db \in DbType /\ db.mfa = NoMfa
        /\ q.owner \in Passwords \union {None}
    <3>1. q.factor = NoFactor /\ q \in RequestType
      BY <1>0 DEF Inv, RequestInv, TypeOK
    <3>2. db.mfa = NoMfa
      BY <1>2 DEF Configured
    <3> QED
      BY <3>1, <3>2, FactorFacts, EmptyFacts DEF Inv, TypeOK, RequestType
  <2>2. e \in EnrollmentRow
    BY <1>0, <1>2, <2>1 DEF EnrollmentRow
  <2>3. db' = [db EXCEPT !.enrollment = e]
    BY <1>2 DEF Enrolled
  <2> HIDE DEF e
  <2>4. /\ db' \in DbType /\ db'.owner = db.owner /\ db'.mfa = db.mfa /\ db'.codes = db.codes
        /\ db'.enrollment = e /\ db'.sessions = db.sessions
        /\ db'.updates = db.updates
    BY <2>1, <2>2, <2>3 DEF DbType
  <2>5. MfaInv' /\ SpentInv' /\ NoReplay'
    <3>1. \A f \in spent : f[2] \in Nat
      BY NumberFacts DEF Inv, TypeOK
    <3>2. backup.mfa.secret \in Nat /\ db.mfa.secret \in Nat
      BY NumberFacts DEF Inv, TypeOK
    <3>3. MfaInv'
      BY <1>0, <1>2, <2>4, <3>2 DEF Inv, MfaInv
    <3>4. SpentInv'
      BY <1>0, <1>2, <2>4, <3>1 DEF Inv, SpentInv
    <3> QED
      BY <1>0, <3>3, <3>4 DEF Inv, NoReplay
  <2>6. RequestInv'
    BY <1>0, <2>4, RequestsStay
  <2>7. EnrollInv' /\ EnrollmentIsCurrent'
    <3>2. db'.enrollment = [secret |-> drawn + 1, owner |-> q.owner, first |-> q.kind = "first",
                            under |-> db.mfa.secret]
      BY <2>1, <2>4 DEF e
    <3>3. IF q.kind = "first" THEN db.owner = None ELSE db.owner = q.owner
      BY <1>0, <2>1 DEF Inv, RequestInv
    <3>4. \A g \in spent' : g \in spent \/ g[2] = db.mfa.secret
      BY <1>0
    <3> QED
      BY <1>2, <2>4, <3>2, <3>3, <3>4, NewEnrollment
  <2>8. OneAuthenticator'
    BY <2>4, AuthenticatorStays
  <2>9. TypeOK'
    BY <1>0, <1>2, <2>4 DEF TypeOK, Inv
  <2> QED
    BY <2>5, <2>6, <2>7, <2>8, <2>9 DEF Inv
<1> QED
  BY <1>1, <1>2 DEF BeginSetup

LEMMA ConfirmEnrollmentKeeps ==
  ASSUME Inv, NEW t \in Presented, ConfirmEnrollment(t)
  PROVE  Inv'
<1> DEFINE e == db.enrollment
           f == <<"totp", e.secret, t>>
           new == {"code"} \X {e.secret} \X Codes
<1>0. /\ e # NoEnrollment /\ t \in Accepted /\ OwnerOf(e) /\ Buys(f)
      /\ db' = [Revoked(db) EXCEPT !.owner = e.owner, !.mfa = [secret |-> e.secret, last |-> t],
                                   !.codes = new, !.enrollment = NoEnrollment,
                                   !.sessions = @ \union {f}]
      /\ UNCHANGED <<now, request, backup, host, drawn>>
  BY DEF ConfirmEnrollment
<1>1. /\ now \in Nat /\ drawn \in Nat /\ drawn <= MaxSecrets /\ MaxSecrets \in Nat /\ db \in DbType
      /\ e.secret \in Nat /\ e \in EnrollmentRow /\ e.owner \in Passwords \union {None}
  BY NumberFacts, DbFacts DEF Inv, TypeOK, EnrollmentRow
<1>2. /\ e.secret # 0 /\ e.secret <= drawn /\ e.secret # db.mfa.secret /\ e.secret \in Secrets
      /\ \A g \in spent : g[2] # e.secret
  BY <1>0, <1>1 DEF Inv, EnrollInv, Secrets
<1>3. /\ f \in Totp /\ f[2] = e.secret /\ f[3] = t
      /\ new \subseteq Recovery /\ \A c \in new : c[2] = e.secret
  BY <1>2, NewFactors
<1>4. f \in Factors /\ f \notin Recovery /\ t \in Steps /\ t \in Nat /\ t <= now + 1
  BY <1>0, <1>1, <1>3, FactorFacts, NumberFacts DEF Accepted, Inv
<1> HIDE DEF f, new
<1>5. /\ db' \in DbType /\ db'.owner = e.owner /\ db'.mfa = [secret |-> e.secret, last |-> t]
      /\ db'.codes = new /\ db'.enrollment = NoEnrollment /\ db'.sessions = {f}
      /\ db'.updates = Cancelled(db.updates)
  <2>1. Cancelled(db.updates) \in [Updates -> UpdateRow] /\ NoEnrollment \in EnrollmentRow
    BY <1>1, CancelledFacts, EmptyFacts
  <2>2. [secret |-> e.secret, last |-> t] \in MfaRow
    BY <1>1, <1>2, <1>4 DEF MfaRow
  <2>3. Revoked(db) = [db EXCEPT !.sessions = {}, !.updates = Cancelled(db.updates)]
    BY DEF Revoked
  <2> HIDE DEF e
  <2> QED
    BY <1>0, <1>1, <1>3, <1>4, <2>1, <2>2, <2>3 DEF DbType
<1>6. db'.mfa.secret = e.secret /\ db'.mfa.last = t /\ db'.mfa # NoMfa
  BY <1>2, <1>5, EmptyFacts
<1>7. spent' = spent \union {f} /\ again' = {}
  BY <1>0, <1>2, <1>3 DEF Buys, Inv, NoReplay
<1>8. TypeOK'
  BY <1>0, <1>4, <1>5, <1>7 DEF Inv, TypeOK
<1>9. MfaInv'
  <2>1. /\ backup.mfa.secret = 0 => backup.mfa = NoMfa
        /\ backup.mfa.secret <= drawn /\ backup.mfa.last <= now + 1
    BY DEF Inv, MfaInv
  <2> QED
    BY <1>0, <1>2, <1>4, <1>6, <2>1 DEF MfaInv
<1>10. SpentInv'
  <2> SUFFICES ASSUME NEW g \in spent'
               PROVE  /\ g[2] <= drawn
                      /\ g \in Totp => g[3] <= now + 1 /\ (g[2] = e.secret => g[3] <= t)
                      /\ g \notin new
    BY <1>0, <1>5, <1>6 DEF SpentInv
  <2>1. CASE g = f
    BY <1>2, <1>3, <1>4, <2>1
  <2>2. CASE g \in spent
    BY <1>2, <1>3, <2>2 DEF Inv, SpentInv
  <2> QED
    BY <1>7, <2>1, <2>2
<1>11. EnrollInv' /\ EnrollmentIsCurrent' /\ NoReplay'
  BY <1>5, <1>7 DEF EnrollInv, EnrollmentIsCurrent, NoReplay
<1>12. OneAuthenticator'
  <2>1. \A u \in Updates : db'.updates[u].state # "PENDING"
    BY <1>1, <1>5, CancelledFacts
  <2> QED
    BY <1>3, <1>5, <1>6, <2>1 DEF OneAuthenticator, Pending
<1>13. RequestInv'
  <2>1. db.owner = None \/ e.owner = db.owner
    BY <1>0 DEF OwnerOf
  <2>2. db'.owner = e.owner /\ now' = now /\ request' = request
    BY <1>0, <1>5
  <2> QED
    BY <1>6, <2>1, <2>2 DEF Inv, RequestInv
<1> QED
  BY <1>8, <1>9, <1>10, <1>11, <1>12, <1>13 DEF Inv

LEMMA AuthorizeUpdateKeeps ==
  ASSUME Inv, NEW u \in Updates, NEW s \in Factors, NEW f \in Totp, AuthorizeUpdate(u, s, f)
  PROVE  Inv'
<1> DEFINE d == Consumed(f)
           row == [state |-> "PENDING", session |-> s]
<1>0. /\ s \in db.sessions /\ SecondFactor(f, db.mfa) /\ Consumable(f, db.mfa.secret)
      /\ db' = [d EXCEPT !.updates[u] = row] /\ Buys(f)
      /\ UNCHANGED <<now, request, backup, host, drawn>>
  BY DEF AuthorizeUpdate, Authorized
<1>1. /\ now \in Nat /\ drawn \in Nat /\ drawn <= MaxSecrets /\ MaxSecrets \in Nat /\ db \in DbType
      /\ f \in Factors /\ f \notin Recovery
  BY NumberFacts, FactorFacts DEF Inv, TypeOK
<1>2. f[2] = db.mfa.secret /\ f[3] <= now + 1
  BY <1>0, <1>1, NumberFacts DEF SecondFactor, Accepted, Inv
<1>3. /\ d \in DbType
      /\ d.owner = db.owner /\ d.enrollment = db.enrollment
      /\ d.sessions = db.sessions /\ d.updates = db.updates
      /\ d.mfa.secret = db.mfa.secret
      /\ d.codes \subseteq db.codes
  BY <1>1, ConsumedFacts DEF Inv
<1>4. db.mfa.secret # 0 /\ s[2] = db.mfa.secret
  BY <1>0, <1>1, <1>2, ConsumableFacts DEF Inv, OneAuthenticator
<1>5. row \in UpdateRow
  BY DEF UpdateRow
<1>6. row.state = "PENDING" /\ row.session = s
  OBVIOUS
<1> HIDE DEF d, row
<1>7. /\ db' \in DbType /\ db'.owner = d.owner /\ db'.mfa = d.mfa /\ db'.codes = d.codes
      /\ db'.enrollment = d.enrollment /\ db'.sessions = d.sessions
      /\ db'.updates = [d.updates EXCEPT ![u] = row]
  BY <1>0, <1>3, <1>5 DEF DbType
<1>8. MfaInv' /\ SpentInv' /\ NoReplay' /\ spent' \subseteq Factors /\ again' \subseteq Factors
  <2>1. drawn' \in drawn .. MaxSecrets
    BY <1>0, <1>1
  <2>2. db'.mfa = Consumed(f).mfa /\ db'.codes = Consumed(f).codes
    BY <1>7 DEF d
  <2> QED
    BY <1>0, <1>1, <1>2, <2>1, <2>2, ConsumingSteps
<1>9. RequestInv'
  <2>1. db'.mfa # NoMfa
    BY <1>3, <1>4, <1>7, EmptyFacts
  <2> QED
    BY <1>0, <1>1, <1>3, <1>7, <2>1, RequestsStay
<1>10. EnrollInv' /\ EnrollmentIsCurrent'
  <2>1. \A g \in spent' : g \in spent \/ g[2] = db.mfa.secret
    BY <1>0, <1>2 DEF Buys
  <2> QED
    BY <1>0, <1>1, <1>3, <1>7, <2>1, EnrollmentStays
<1>11. OneAuthenticator'
  <2>1. \A v \in Updates : db'.updates[v] = IF v = u THEN row ELSE db.updates[v]
    BY <1>1, <1>3, <1>7 DEF DbType
  <2> QED
    BY <1>3, <1>4, <1>6, <1>7, <2>1, AuthenticatorStays
<1>12. TypeOK'
  BY <1>0, <1>7, <1>8 DEF TypeOK, Inv
<1> QED
  BY <1>8, <1>9, <1>10, <1>11, <1>12 DEF Inv

\* Steps that take something away: a session, an enrollment, an update that waits.
LEMMA TakenAway ==
  ASSUME Inv, db' \in DbType, db'.owner = db.owner, db'.mfa = db.mfa, db'.codes = db.codes,
         db'.enrollment \in {db.enrollment, NoEnrollment}, db'.sessions \subseteq db.sessions,
         \A u \in Updates : db'.updates[u].state = "PENDING" => db'.updates[u] = db.updates[u],
         UNCHANGED <<now, request, backup, host, drawn, spent, again>>
  PROVE  Inv'
<1>1. TypeOK'
  BY DEF Inv, TypeOK
<1>2. MfaInv' /\ SpentInv' /\ NoReplay'
  BY DEF Inv, MfaInv, SpentInv, NoReplay
<1>3. EnrollInv' /\ EnrollmentIsCurrent'
  BY DEF Inv, EnrollInv, EnrollmentIsCurrent, OwnerOf
<1>4. OneAuthenticator'
  BY AuthenticatorStays
<1>5. RequestInv'
  BY DEF Inv, RequestInv
<1> QED
  BY <1>1, <1>2, <1>3, <1>4, <1>5 DEF Inv

LEMMA DispatchKeeps ==
  ASSUME Inv, NEW u \in Updates, Dispatch(u)
  PROVE  Inv'
<1>0. db \in DbType /\ db.updates \in [Updates -> UpdateRow]
  BY DbFacts DEF Inv, TypeOK
<1>1. PICK st \in {"DISPATCHED", "CANCELLED"} : db' = [db EXCEPT !.updates[u].state = st]
  BY DEF Dispatch
<1> DEFINE row == [db.updates[u] EXCEPT !.state = st]
<1>2. row \in UpdateRow /\ row.state = st
  BY <1>0 DEF UpdateRow
<1>3. db' = [db EXCEPT !.updates = [db.updates EXCEPT ![u] = row]]
  BY <1>1
<1> HIDE DEF row
<1>4. /\ db' \in DbType /\ db'.owner = db.owner /\ db'.mfa = db.mfa /\ db'.codes = db.codes
      /\ db'.enrollment = db.enrollment /\ db'.sessions = db.sessions
      /\ db'.updates = [db.updates EXCEPT ![u] = row]
  BY <1>0, <1>2, <1>3 DEF DbType
<1>5. \A v \in Updates : db'.updates[v] = IF v = u THEN row ELSE db.updates[v]
  BY <1>0, <1>4
<1>6. UNCHANGED <<now, request, backup, host, drawn, spent, again>>
  BY DEF Dispatch
<1> QED
  BY <1>2, <1>4, <1>5, <1>6, TakenAway

LEMMA SessionEndsKeeps ==
  ASSUME Inv, NEW s \in Factors, SessionEnds(s)
  PROVE  Inv'
<1>0. db \in DbType
  BY DEF Inv, TypeOK
<1>1. /\ db' \in DbType /\ db'.owner = db.owner /\ db'.mfa = db.mfa /\ db'.codes = db.codes
      /\ db'.enrollment = db.enrollment /\ db'.sessions = db.sessions \ {s}
      /\ db'.updates = db.updates
      /\ UNCHANGED <<now, request, backup, host, drawn, spent, again>>
  BY <1>0 DEF SessionEnds, DbType
<1> QED
  BY <1>1, TakenAway

LEMMA EnrollmentExpiresKeeps ==
  ASSUME Inv, EnrollmentExpires
  PROVE  Inv'
<1>0. db \in DbType /\ NoEnrollment \in EnrollmentRow
  BY EmptyFacts DEF Inv, TypeOK
<1>1. /\ db' \in DbType /\ db'.owner = db.owner /\ db'.mfa = db.mfa /\ db'.codes = db.codes
      /\ db'.enrollment = NoEnrollment /\ db'.sessions = db.sessions
      /\ db'.updates = db.updates
      /\ UNCHANGED <<now, request, backup, host, drawn, spent, again>>
  BY <1>0 DEF EnrollmentExpires, DbType
<1> QED
  BY <1>1, TakenAway

\* The host leaves no request, session, code, enrollment or update that waits, and
\* fences the authenticator it leaves.
LEMMA HostClears ==
  ASSUME Inv, db' \in DbType, db'.codes = {}, db'.enrollment = NoEnrollment, db'.sessions = {},
         \A u \in Updates : db'.updates[u].state # "PENDING",
         db'.mfa = NoMfa \/ (/\ db'.mfa.secret \in 1 .. drawn
                             /\ db'.mfa.last = now + 1),
         backup' \in {backup, db}, OnHost, NoRequests, UNCHANGED <<now, drawn, spent, again>>
  PROVE  Inv'
<1>0. /\ now \in Nat /\ drawn \in Nat /\ MaxHost \in Nat /\ db \in DbType /\ backup \in DbType
      /\ \A f \in spent : f[2] # 0
  BY NumberFacts DEF Inv, TypeOK
<1>1. TypeOK'
  <2>1. host' \in 0 .. MaxHost
    BY <1>0 DEF Inv, TypeOK, OnHost
  <2>2. request' \in [Requests -> RequestType]
    BY EmptyFacts DEF NoRequests
  <2> QED
    BY <1>0, <2>1, <2>2 DEF Inv, TypeOK
<1>2. MfaInv'
  <2>1. /\ db'.mfa.secret = 0 => db'.mfa = NoMfa
        /\ db'.mfa.secret <= drawn /\ db'.mfa.last <= now + 1
    BY <1>0, EmptyFacts
  <2>2. /\ backup'.mfa.secret = 0 => backup'.mfa = NoMfa
        /\ backup'.mfa.secret <= drawn /\ backup'.mfa.last <= now + 1
    BY DEF Inv, MfaInv
  <2> QED
    BY <2>1, <2>2 DEF MfaInv
<1>3. SpentInv'
  <2> SUFFICES ASSUME NEW f \in spent
               PROVE  /\ f[2] <= drawn
                      /\ f \in Totp => f[3] <= now + 1 /\ (f[2] = db'.mfa.secret => f[3] <= db'.mfa.last)
    BY DEF SpentInv
  <2>1. f[2] <= drawn /\ (f \in Totp => f[3] <= now + 1)
    BY DEF Inv, SpentInv
  <2>2. CASE db'.mfa = NoMfa
    BY <1>0, <2>1, <2>2, EmptyFacts
  <2>3. CASE db'.mfa.last = now + 1
    BY <2>1, <2>3
  <2> QED
    BY <2>2, <2>3
<1>4. EnrollInv' /\ EnrollmentIsCurrent' /\ NoReplay' /\ OneAuthenticator'
  BY DEF Inv, EnrollInv, EnrollmentIsCurrent, NoReplay, OneAuthenticator, Pending
<1>5. RequestInv'
  BY EmptyFacts DEF RequestInv, NoRequests
<1> QED
  BY <1>1, <1>2, <1>3, <1>4, <1>5 DEF Inv

LEMMA RecoverOwnerKeeps ==
  ASSUME Inv, NEW p \in Passwords, RecoverOwner(p)
  PROVE  Inv'
<1>0. db \in DbType /\ Empty \in DbType /\ Cancelled(db.updates) \in [Updates -> UpdateRow]
  BY EmptyFacts, CancelledFacts DEF Inv, TypeOK
<1>1. /\ Empty.mfa = NoMfa /\ Empty.codes = {} /\ Empty.enrollment = NoEnrollment /\ Empty.sessions = {}
  BY DEF Empty
<1>2. /\ db' \in DbType /\ db'.mfa = Empty.mfa /\ db'.codes = Empty.codes
      /\ db'.enrollment = Empty.enrollment /\ db'.sessions = Empty.sessions
      /\ db'.updates = Cancelled(db.updates)
  BY <1>0 DEF RecoverOwner, DbType
<1>3. \A u \in Updates : db'.updates[u].state # "PENDING"
  BY <1>0, <1>2, CancelledFacts
<1>4. OnHost /\ NoRequests /\ backup' = backup /\ UNCHANGED <<now, drawn, spent, again>>
  BY DEF RecoverOwner
<1> QED
  BY <1>1, <1>2, <1>3, <1>4, HostClears

LEMMA RestoreKeeps ==
  ASSUME Inv, Restore
  PROVE  Inv'
<1> DEFINE m == IF backup.mfa = NoMfa THEN NoMfa ELSE [secret |-> backup.mfa.secret,
                                                         last |-> Fenced(backup.mfa.last)]
<1>0. /\ backup \in DbType /\ Cancelled(backup.updates) \in [Updates -> UpdateRow]
      /\ NoEnrollment \in EnrollmentRow /\ backup.mfa \in MfaRow
      /\ backup.mfa.secret \in Nat /\ backup.mfa.last \in Nat /\ now \in Nat /\ drawn \in Nat
      /\ now \in 1 .. MaxStep /\ MaxStep \in Nat
  BY EmptyFacts, CancelledFacts, DbFacts, NumberFacts DEF Inv, TypeOK
<1>1. /\ backup.mfa.secret = 0 => backup.mfa = NoMfa
      /\ backup.mfa.secret <= drawn /\ backup.mfa.last <= now + 1
  BY DEF Inv, MfaInv
<1>2. Fenced(backup.mfa.last) = now + 1 /\ now + 1 \in Steps
  BY <1>0, <1>1 DEF Fenced, Steps
<1>3. m \in MfaRow /\ (m = NoMfa \/ (m.secret \in 1 .. drawn /\ m.last = now + 1))
  BY <1>0, <1>1, <1>2, EmptyFacts DEF MfaRow
<1>4. db' = [backup EXCEPT !.sessions = {}, !.enrollment = NoEnrollment, !.codes = {},
                           !.updates = Cancelled(backup.updates), !.mfa = m]
  <2>1. db' = RestoredAuth(backup)
    BY DEF Restore
  <2> QED
    BY <2>1 DEF RestoredAuth
<1> HIDE DEF m
<1>5. /\ db' \in DbType /\ db'.mfa = m /\ db'.codes = {} /\ db'.enrollment = NoEnrollment
      /\ db'.sessions = {} /\ db'.updates = Cancelled(backup.updates)
  BY <1>0, <1>3, <1>4 DEF DbType
<1>6. \A u \in Updates : db'.updates[u].state # "PENDING"
  BY <1>0, <1>5, CancelledFacts
<1>7. OnHost /\ NoRequests /\ backup' \in {backup, db} /\ UNCHANGED <<now, drawn, spent, again>>
  BY DEF Restore
<1> QED
  BY <1>3, <1>5, <1>6, <1>7, HostClears

-----------------------------------------------------------------------------
(* The theorems *)

LEMMA NextKeeps == Inv /\ [Next]_vars => Inv'
<1> SUFFICES ASSUME Inv, [Next]_vars PROVE Inv'
  OBVIOUS
<1>1. ASSUME UNCHANGED vars PROVE Inv'
  BY <1>1 DEF vars, Inv, TypeOK, MfaInv, SpentInv, EnrollInv, RequestInv, NoReplay,
              OneAuthenticator, Pending, EnrollmentIsCurrent, OwnerOf
<1>2. ASSUME NEW r \in Requests,
             \/ \E k \in {"login", "replace"}, f \in Factors : Verify(r, k, f)
             \/ \E p \in Passwords : VerifySetup(r, p)
             \/ CommitLogin(r)
             \/ BeginReplacement(r)
             \/ BeginSetup(r)
             \/ Abandon(r)
      PROVE  Inv'
  BY <1>2, VerifyKeeps, VerifySetupKeeps, CommitLoginKeeps, BeginReplacementKeeps,
     BeginSetupKeeps, RequestsEndKeeps
<1>3. ASSUME \/ \E t \in Presented : ConfirmEnrollment(t)
             \/ \E u \in Updates, s \in Factors, f \in Totp : AuthorizeUpdate(u, s, f)
             \/ \E u \in Updates : Dispatch(u)
             \/ \E s \in Factors : SessionEnds(s)
             \/ EnrollmentExpires
      PROVE  Inv'
  BY <1>3, ConfirmEnrollmentKeeps, AuthorizeUpdateKeeps, DispatchKeeps, SessionEndsKeeps,
     EnrollmentExpiresKeeps
<1>4. ASSUME Tick \/ Snapshot \/ Restart \/ Restore \/ \E p \in Passwords : RecoverOwner(p)
      PROVE  Inv'
  BY <1>4, RequestsEndKeeps, RecoverOwnerKeeps, RestoreKeeps
<1> QED
  BY <1>1, <1>2, <1>3, <1>4 DEF Next

\* The inductive invariant holds in every state.
THEOREM Invariance == Spec => []Inv
  BY InitHolds, NextKeeps, PTL DEF Spec

\* consumeFactor and revoke_restored_auth: no factor buys a second session,
\* enrollment, update or installation, also across a restored backup.
THEOREM NoFactorBuysTwice == Spec => []NoReplay
<1>1. Inv => NoReplay
  BY DEF Inv
<1> QED
  BY <1>1, Invariance, PTL

\* confirmEnrollment and the host's revocations: sessions, recovery codes and the
\* waiting update are all of the authenticator that is installed.
THEOREM OldAuthenticatorsGiveNothing == Spec => []OneAuthenticator
<1>1. Inv => OneAuthenticator
  BY DEF Inv
<1> QED
  BY <1>1, Invariance, PTL

\* beginEnrollment: an open enrollment was opened under the authenticator it will
\* replace, by the owner there is.
THEOREM EnrollmentsAreCurrent == Spec => []EnrollmentIsCurrent
<1>1. Inv => EnrollmentIsCurrent
  BY DEF Inv
<1> QED
  BY <1>1, Invariance, PTL

\* revoke_restored_auth: the recorded step is never beyond the next one, so that the
\* owner waits two steps of the clock at most.
THEOREM LockoutsAreShort == Spec => []LockoutIsShort
<1>1. Inv => LockoutIsShort
  BY DEF Inv, MfaInv, LockoutIsShort
<1> QED
  BY <1>1, Invariance, PTL
=============================================================================
