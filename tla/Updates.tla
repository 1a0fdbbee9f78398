------------------------------ MODULE Updates ------------------------------
(***************************************************************************)
(* How the installation updates itself.  The owner authorises a release in *)
(* the API (authorizeUpdate), whose dispatcher hands it over a socket to   *)
(* the host's bridge (Bridge.start); the bridge keeps a receipt and wakes  *)
(* the coordinator, which queues a job (queue) and runs it (Coordinator):  *)
(* close admission, check that nothing is broadcast, save a recovery set,  *)
(* install, verify, commit, or restore what was saved.  An administrator   *)
(* may queue a job as well.                                                *)
(*                                                                         *)
(* Bridge, coordinator and administrator exclude each other with           *)
(* coordinator.lock, so `host' is whichever of them holds it.  The process *)
(* may die before any step.  A step makes one durable write, but for the   *)
(* writes of one kind that a repetition makes again: the files of a        *)
(* release, and the phase of the journal that says they are in place.      *)
(* The database is reduced to the authorisations and to whether a          *)
(* broadcast is on; the installation to the release its files are from.    *)
(***************************************************************************)
EXTENDS Naturals, FiniteSets

CONSTANTS Jobs,         \* request ids
          Asked,        \* those the owner may use, and
          Queued,       \* those the administrator may use
          MaxRelease,   \* releases are 1 .. MaxRelease, 0 is installed at first
          MaxWakes,     \* wake_attempts (8 in the code)
          MaxResumes,   \* rollback_resumes (8 in the code)
          MaxStarts,    \* StartLimitBurst (3 in the unit)
          MaxFaults,    \* bound on deaths and reboots
          None

Releases == 0 .. MaxRelease
Auth == {"none", "PENDING", "DISPATCHED", "CANCELLED"}
Database == [auth : [Jobs -> Auth], busy : BOOLEAN]
Saved == [db : Database, files : Releases]     \* the recovery set of a job

ASSUME UpdatesAssumption ==
  /\ {MaxRelease, MaxWakes, MaxResumes, MaxStarts, MaxFaults} \subseteq Nat
  /\ Asked \subseteq Jobs /\ Queued \subseteq Jobs
  /\ None \notin Jobs /\ None \notin Saved

VARIABLES
  \* the API
  db,          \* update_authorizations.state, and whether a broadcast is on
  grant,       \* whether the session behind each authorisation still counts
  admitted,    \* an API mutation holds the shared admission lock
  checked,     \* the release it has found good to ask for, or 0
  dispatch,    \* dispatchUpdate, which holds it too
  \* the bridge
  receipt,     \* requests/<id>.json
  wakes,       \* its wake_attempts
  requested,   \* requested.json
  offered,     \* candidate.json
  \* the coordinator
  job,         \* <id>/job.json, with what the driver leaves in <id>/
  current,     \* current.json
  watermark,   \* watermark.json
  wants,       \* the release each id was asked for
  marker,      \* active.json
  installed,   \* the release whose files are in place
  unit,        \* the coordinator's service: to be run, and its recent starts
  host,        \* the process that holds coordinator.lock
  faults       \* deaths and reboots so far

apiVars    == <<db, grant, admitted, checked, dispatch>>
bridgeVars == <<receipt, wakes, requested, offered>>
engineVars == <<job, current, watermark, wants, marker, installed>>
vars == <<db, grant, admitted, checked, dispatch, receipt, wakes, requested, offered, job,
          current, watermark, wants, marker, installed, unit, host, faults>>

Mixed == MaxRelease + 1      \* files of two releases

Finished  == {"SUCCEEDED", "ROLLED_BACK", "FAILED"}
TERMINAL  == Finished \union {"RECOVERY_REQUIRED"}
Decided   == {"COMMITTED", "RECOVERED", "ABORTED"}
Uncertain == {"INSTALLING", "VERIFYING", "ROLLING_BACK", "ROLLBACK_VERIFYING"}
PHASES    == TERMINAL \union Decided \union Uncertain \union {"QUEUED", "PREPARING", "ABORTING"}

\* What each decision is called once admission is open again.
Terminal(phase) == CASE phase = "COMMITTED" -> "SUCCEEDED"
                     [] phase = "RECOVERED" -> "ROLLED_BACK"
                     [] phase = "ABORTED"   -> "FAILED"

\* `made': the directory exists, job.json does not.  `late': the deadline of
\* the request or, once there is one, of the job has passed.
Job == [phase : PHASES \union {"none", "made"}, old : Releases, resumes : 0 .. MaxResumes,
        late : BOOLEAN, planned : BOOLEAN,
        saved : Saved \union {None}]
NoJob == [phase |-> "none", old |-> 0, resumes |-> 0, late |-> FALSE, planned |-> FALSE,
          saved |-> None]

\* The stages of the processes, each named for what it does next.
Calling  == {"accept", "publish", "wake"}
Offering == {"examine", "present"}
Queueing == {"stage", "verify", "point"}
Holding  == {"decide", "idle", "plan", "prepare", "install", "replace", "health", "rollback",
             "restore", "rewrite", "recheck", "abort", "reverify", "release", "finish"}
Stages   == Calling \union Offering \union Queueing \union Holding \union {"load", "hold", "off"}
Off == [proc |-> "off", at |-> "off", job |-> None, guarded |-> FALSE]
NoDispatch == [at |-> "off", job |-> None]

TypeOK ==
  /\ db \in Database
  /\ grant \in [Jobs -> {"live", "signed_out", "expired"}]
  /\ admitted \in BOOLEAN /\ checked \in Releases
  /\ dispatch \in [at : {"off", "sent", "accepted", "refused"}, job : Jobs \union {None}]
  /\ receipt \in [Jobs -> {"none", "REQUESTED", "FAILED"}]
  /\ wakes \in [Jobs -> 0 .. MaxWakes]
  /\ {requested, current, marker} \subseteq Jobs \union {None}
  /\ {offered, watermark} \subseteq Releases
  /\ job \in [Jobs -> Job]
  /\ wants \in [Jobs -> Releases]
  /\ installed \in Releases \union {Mixed}
  /\ unit \in [due : BOOLEAN, starts : 0 .. MaxStarts + 1]
  /\ host \in [proc : {"off", "bridge", "offer", "cli", "resume"}, at : Stages,
               job : Jobs \union {None}, guarded : BOOLEAN]
  /\ faults \in 0 .. MaxFaults

Init ==
  /\ db = [auth |-> [j \in Jobs |-> "none"], busy |-> FALSE]
  /\ grant = [j \in Jobs |-> "live"]
  /\ admitted = FALSE /\ checked = 0
  /\ dispatch = NoDispatch
  /\ receipt = [j \in Jobs |-> "none"]
  /\ wakes = [j \in Jobs |-> 0]
  /\ requested = None /\ current = None /\ marker = None
  /\ offered = 0 /\ watermark = 0
  /\ job = [j \in Jobs |-> NoJob]
  /\ wants = [j \in Jobs |-> 0]
  /\ installed = 0
  /\ unit = [due |-> FALSE, starts |-> 0]
  /\ host = Off
  /\ faults = 0

-----------------------------------------------------------------------------
\* What the records on disk say.

HasJob(j) == job[j].phase \notin {"none", "made"}
Status(j) == IF HasJob(j) THEN job[j].phase ELSE receipt[j]

\* mutant: a job that needs recovery counts as finished
OpenUnlessStuck(p) == p # None /\ Status(p) \notin TERMINAL

\* The pointer p names something unfinished.
Open(p) == p # None /\ Status(p) \notin Finished

\* release.Verify: newer than what is installed, no older than ever accepted.
Verified(r, base) == r > base /\ r >= watermark

\* Bridge.candidate offers release r.
Candidate(r) == /\ offered = r
                /\ installed # Mixed
                /\ Verified(r, installed)

\* The coordinator has the admission lock exclusively.
Exclusive == host.at \in Holding

\* mutant: the lock alone, which a dead coordinator no longer holds
EntersUnlocked == ~Exclusive

\* maintenance.Enter: a shared lock, and no marker.
Enters == ~Exclusive /\ marker = None

Write(j, phase) == job' = [job EXCEPT ![j].phase = phase]

\* A terminal phase; what else was recorded is not read again.
Settle(j, phase) == job' = [job EXCEPT ![j] = [NoJob EXCEPT !.phase = phase]]
Goes(stage) == host' = [host EXCEPT !.at = stage]

\* systemctl start: nothing new for a unit that is to run already.
Wakes == unit' = [unit EXCEPT !.due = TRUE]

-----------------------------------------------------------------------------
\* The API.  Every request that is not a GET runs inside Enter; its writes
\* are transactions, and wait for the dispatcher's.

Enter == /\ Enters /\ ~admitted
         /\ admitted' = TRUE
         /\ UNCHANGED <<db, grant, checked, dispatch, bridgeVars, engineVars, unit, host, faults>>

Leave == /\ admitted
         /\ admitted' = FALSE /\ checked' = 0
         /\ UNCHANGED <<db, grant, dispatch, bridgeVars, engineVars, unit, host, faults>>

Commits(data) == /\ admitted /\ dispatch = NoDispatch
                 /\ db' = data
                 /\ admitted' = FALSE /\ checked' = 0
                 /\ UNCHANGED <<dispatch, bridgeVars, job, current, watermark, marker,
                                installed, unit, host, faults>>

\* Any other mutation: here, one that starts or ends a broadcast.
Mutate == /\ Commits([db EXCEPT !.busy = ~@])
          /\ UNCHANGED <<grant, wants>>

Pending == {j \in Jobs : db.auth[j] = "PENDING"}
Cancelled(data, js) ==
  [data EXCEPT !.auth = [j \in Jobs |-> IF j \in js /\ @[j] = "PENDING" THEN "CANCELLED" ELSE @[j]]]

\* A new authenticator signs the owner out and cancels what is pending.
Replace == /\ Pending # {}
           /\ Commits(Cancelled(db, Jobs))
           /\ UNCHANGED <<grant, wants>>

\* The job Bridge.status shows, whichever of the two is the later one.
Shown == IF requested = None /\ current = None THEN {None} ELSE {requested, current} \ {None}

\* The route's checks of a new request: a release is on offer, the job shown
\* is finished, and nothing is broadcast.
MayAsk == /\ Candidate(offered)
          /\ \E p \in Shown : ~Open(p)
          /\ ~db.busy
Ask == /\ admitted /\ checked = 0 /\ MayAsk
       /\ checked' = offered
       /\ UNCHANGED <<db, grant, admitted, dispatch, bridgeVars, engineVars, unit, host, faults>>

\* The owner's request j for what was checked, with a fresh code: by now the
\* answers may be out of date.  Pending authorisations that have expired give
\* way, others do not.
Authorize(j) ==
  LET data == Cancelled(db, {k \in Jobs : grant[k] = "expired"})
  IN  /\ checked # 0
      /\ db.auth[j] = "none" /\ wants[j] \in {0, checked}
      /\ \A k \in Jobs : data.auth[k] # "PENDING"
      /\ Commits([data EXCEPT !.auth[j] = "PENDING"])
      /\ wants' = [wants EXCEPT ![j] = checked]
      /\ UNCHANGED grant

\* The session behind an authorisation ends, or 24 hours pass.
Lapse(j, how) == /\ j \in Pending /\ grant[j] = "live"
                 /\ grant' = [grant EXCEPT ![j] = how]
                 /\ UNCHANGED <<db, admitted, checked, dispatch, bridgeVars, engineVars, unit,
                                host, faults>>

\* dispatchUpdate, inside Enter: an authorisation without authority is
\* cancelled, ...
DispatchCancels(j) == /\ Enters /\ dispatch = NoDispatch
                      /\ j \in Pending /\ grant[j] # "live"
                      /\ db' = Cancelled(db, {j})
                      /\ UNCHANGED <<grant, admitted, checked, dispatch, bridgeVars, engineVars, 
                                     unit, host, faults>>

\* ... any other is sent to the bridge; a bridge that cannot have the
\* coordinator's lock answers `busy', which changes nothing.
DispatchSends(j) == /\ Enters /\ dispatch = NoDispatch
                    /\ j \in Pending /\ grant[j] = "live"
                    /\ host = Off
                    /\ dispatch' = [at |-> "sent", job |-> j]
                    /\ host' = [Off EXCEPT !.proc = "bridge", !.at = "accept", !.job = j]
                    /\ UNCHANGED <<db, grant, admitted, checked, bridgeVars, engineVars, unit, faults>>

\* The answer is recorded: delivered, or cancelled because refused.
Recorded(answer) == IF answer = "accepted" THEN "DISPATCHED" ELSE "CANCELLED"
DispatchCommits == /\ dispatch.at \in {"accepted", "refused"}
                   /\ db' = [db EXCEPT !.auth[dispatch.job] =
                               IF @ = "PENDING" THEN Recorded(dispatch.at) ELSE @]
                   /\ dispatch' = NoDispatch
                   /\ UNCHANGED <<grant, admitted, checked, bridgeVars, engineVars, unit, host, faults>>

\* The call or the API dies, or eight seconds pass: it stays pending.
DispatchLost == /\ dispatch # NoDispatch
                /\ dispatch' = NoDispatch
                /\ UNCHANGED <<db, grant, admitted, checked, bridgeVars, engineVars, unit, host, faults>>

-----------------------------------------------------------------------------
\* Bridge.start, under coordinator.lock.

\* It ends with this answer, heard if the dispatcher still waits.
Answers(answer) ==
  /\ host' = Off
  /\ dispatch' = IF dispatch.at # "sent" \/ answer = "error" THEN NoDispatch
                 ELSE [dispatch EXCEPT !.at = answer]

\* Nothing else may be under way, receipts without a pointer included.
Busy == \/ Open(requested) \/ Open(current)
        \/ \E k \in Jobs : receipt[k] # "none" /\ Open(k)

\* Bridge.candidate says that the release is not to be had; it cannot say so
\* while the verifier fails.
Withdrawn(r) == offered # r \/ (installed # Mixed /\ r <= installed)

\* Nothing changes when another update is under way, or when a verifier that
\* has something to verify fails.
CallAccepts ==
  LET j == host.job IN
  /\ host.at = "accept"
  /\ \/ /\ receipt[j] # "none" \/ HasJob(j)
        /\ Goes("publish")
        /\ UNCHANGED <<receipt, dispatch>>
     \/ /\ receipt[j] = "none" /\ ~HasJob(j)
        /\ Busy \/ offered # 0
        /\ Answers("error")
        /\ UNCHANGED receipt
     \/ /\ receipt[j] = "none" /\ ~HasJob(j)
        /\ ~Busy /\ Withdrawn(wants[j])
        /\ Answers("refused")
        /\ UNCHANGED receipt
     \/ /\ receipt[j] = "none" /\ ~HasJob(j)
        /\ ~Busy /\ Candidate(wants[j])
        /\ receipt' = [receipt EXCEPT ![j] = "REQUESTED"]
        /\ Goes("publish")
        /\ UNCHANGED dispatch
  /\ UNCHANGED <<db, grant, admitted, checked, wakes, requested, offered, engineVars, unit, faults>>

\* The pointer follows the receipt; a repeated request repairs it.
CallPublishes ==
  LET j == host.job IN
  /\ host.at = "publish"
  /\ \/ /\ Status(j) = "REQUESTED" /\ requested # j /\ Open(requested)
        /\ Answers("error")
        /\ UNCHANGED requested
     \/ /\ ~(Status(j) = "REQUESTED" /\ requested # j /\ Open(requested))
        /\ requested' = IF Status(j) = "REQUESTED" THEN j ELSE requested
        /\ Goes("wake")
        /\ UNCHANGED dispatch
  /\ UNCHANGED <<db, grant, admitted, checked, receipt, wakes, offered, engineVars, unit, faults>>

\* systemctl start, at most MaxWakes times; after that a request without a job
\* has failed.
CallWakes ==
  LET j == host.job
      waiting == Status(j) \in {"REQUESTED", "QUEUED"}
      counted == receipt[j] # "none"
  IN
  /\ host.at = "wake"
  /\ \/ /\ ~waiting
        /\ Answers("accepted")
        /\ UNCHANGED <<receipt, wakes, unit>>
     \/ /\ waiting /\ counted /\ wakes[j] >= MaxWakes
        /\ \/ HasJob(j) /\ Answers("error") /\ UNCHANGED receipt
           \/ ~HasJob(j) /\ Answers("accepted") /\ receipt' = [receipt EXCEPT ![j] = "FAILED"]
        /\ UNCHANGED <<wakes, unit>>
     \/ /\ waiting /\ (counted => wakes[j] < MaxWakes)
        /\ wakes' = IF counted THEN [wakes EXCEPT ![j] = @ + 1] ELSE wakes
        /\ \/ Wakes /\ Answers("accepted")
           \/ UNCHANGED unit /\ Answers("error")
        /\ UNCHANGED receipt
  /\ UNCHANGED <<db, grant, admitted, checked, requested, offered, engineVars,  faults>>

-----------------------------------------------------------------------------
\* The administrator's commands.

\* updater_bridge.py offer holds the lock for as long as copying and verifying
\* a bundle takes.
OfferBegins == /\ host = Off
               /\ host' = [Off EXCEPT !.proc = "offer", !.at = "examine"]
               /\ UNCHANGED <<apiVars, bridgeVars, engineVars, unit, faults>>
OfferVerifies(r) == /\ host.at = "examine"
                    /\ r # offered /\ installed # Mixed /\ Verified(r, installed)
                    /\ watermark' = r
                    /\ Goes("present")
                    /\ UNCHANGED <<apiVars, bridgeVars, job, current, wants, marker, installed,
                                   unit, faults>>
OfferPublishes == /\ host.at = "present"
                  /\ offered' = watermark
                  /\ host' = Off
                  /\ UNCHANGED <<apiVars, receipt, wakes, requested, engineVars, unit, faults>>

\* What was copied goes; metadata once accepted stays accepted.
OfferFails == /\ host.proc = "offer"
              /\ host' = Off
              /\ UNCHANGED <<apiVars, bridgeVars, engineVars, unit, faults>>

\* updater.py queue: refused while an owner's request or the current job is
\* open.  The same id again repairs the pointer of a job that is only queued.
CliQueue(j, r) ==
  /\ host = Off
  /\ requested # j => ~Open(requested)
  /\ r > 0 /\ wants[j] \in {0, r}
  /\ wants' = [wants EXCEPT ![j] = r]
  /\ \/ /\ job[j].phase = "none" /\ ~Open(current)
        /\ host' = [Off EXCEPT !.proc = "cli", !.at = "stage", !.job = j]
        /\ UNCHANGED unit
     \/ /\ job[j].phase = "QUEUED" /\ current # j /\ ~Open(current)
        /\ host' = [Off EXCEPT !.proc = "cli", !.at = "point", !.job = j]
        /\ UNCHANGED unit
     \/ /\ job[j].phase = "QUEUED" /\ current = j
        /\ Wakes \/ UNCHANGED unit
        /\ UNCHANGED host
  /\ UNCHANGED <<apiVars, bridgeVars, job, current, watermark, marker, installed, faults>>

-----------------------------------------------------------------------------
\* The coordinator's service: which job it runs (resume_requested), and
\* queueing it first.

\* mutant: an owner's request, once made, hides every other job
ServesRequested(p) == IF p = None \/ requested \notin {None, p} THEN Off
                      ELSE [Off EXCEPT !.proc = "resume", !.at = "load", !.job = p]

\* A finished owner's request must not hide the current job.
Serves(p) == IF p = None THEN Off ELSE [Off EXCEPT !.proc = "resume", !.at = "load", !.job = p]

\* Two open journals: the process reports a conflict and fails.
Conflict == /\ Open(requested) /\ HasJob(requested)
            /\ current # requested /\ Open(current)

\* An attempt at starting the service; systemd counts them.
Attempt(due) == /\ unit.due /\ unit.starts < MaxStarts
                /\ unit' = [due |-> due, starts |-> unit.starts + 1]

ServiceStarts ==
  LET p == requested
      queues == ~job[p].late /\ Candidate(wants[p]) /\ job[p].phase = "none" /\ ~Open(current)
  IN
  /\ host = Off /\ ~Conflict
  /\ \/ /\ Open(p) /\ HasJob(p)
        /\ host' = Serves(p)
        /\ UNCHANGED receipt
     \/ /\ p # None /\ ~HasJob(p) /\ receipt[p] = "REQUESTED" /\ queues
        /\ host' = [Off EXCEPT !.proc = "resume", !.at = "stage", !.job = p]
        /\ UNCHANGED receipt
     \/ /\ p # None /\ ~HasJob(p) /\ receipt[p] = "REQUESTED" /\ ~queues
        /\ receipt' = [receipt EXCEPT ![p] = "FAILED"]
        /\ host' = Serves(current)
     \/ /\ ~Open(p)
        /\ host' = Serves(current)
        /\ UNCHANGED receipt
  /\ Attempt(host' # Off)
  /\ UNCHANGED <<apiVars, wakes, requested, offered, engineVars, faults>>

\* It finds coordinator.lock taken (LOCK_NB), or a conflict, and exits with 1;
\* ten seconds later systemd tries again, ...
ServiceFails == /\ host.proc # "resume"
                /\ host # Off \/ Conflict
                /\ Attempt(TRUE)
                /\ UNCHANGED <<apiVars, bridgeVars, engineVars, host, faults>>

\* ... unless that would be one start too many: then the unit is left failed,
\* and so is whatever was to wake it.
ServiceRefused == /\ unit.due /\ unit.starts >= MaxStarts
                  /\ host.proc # "resume"
                  /\ unit' = [due |-> FALSE, starts |-> MaxStarts + 1]
                  /\ UNCHANGED <<apiVars, bridgeVars, engineVars, host, faults>>

\* StartLimitIntervalSec goes by: never between an attempt and the next, which
\* are ten seconds apart.
IntervalPasses == /\ unit.starts # 0
                  /\ \/ ~unit.due
                     \/ host.proc = "resume" /\ host.at \in Queueing \union Holding
                  /\ unit' = [unit EXCEPT !.starts = 0]
                  /\ UNCHANGED <<apiVars, bridgeVars, engineVars, host, faults>>

QueueStages == /\ host.at = "stage"
               /\ Write(host.job, "made")
               /\ Goes("verify")
               /\ UNCHANGED <<apiVars, bridgeVars, current, watermark, wants, marker,
                              installed, unit, faults>>

QueueVerifies ==
  LET j == host.job IN
  /\ host.at = "verify"
  /\ installed # Mixed /\ Verified(wants[j], installed)
  /\ job' = [job EXCEPT ![j] = [NoJob EXCEPT !.phase = "QUEUED", !.old = installed]]
  /\ watermark' = wants[j]
  /\ Goes("point")
  /\ UNCHANGED <<apiVars, bridgeVars, current, wants, marker, installed, unit, faults>>

\* Verification or staging fails: the directory goes, and so does an owner's
\* request; metadata once accepted stays accepted.
QueueFails ==
  LET j == host.job IN
  /\ host.at = "verify"
  /\ Write(j, "none")
  /\ watermark' \in {watermark} \union {r \in {wants[j]} : installed # Mixed /\ Verified(r, installed)}
  /\ \/ /\ host.proc = "cli"
        /\ host' = Off
        /\ UNCHANGED <<receipt, unit>>
     \/ /\ host.proc = "resume"
        /\ receipt' = [receipt EXCEPT ![j] = "FAILED"]
        /\ host' = Serves(current)
        /\ unit' = [unit EXCEPT !.due = host' # Off]
  /\ UNCHANGED <<apiVars, wakes, requested, offered, current, wants, marker, installed, faults>>

QueuePoints == /\ host.at = "point"
               /\ current' = host.job
               /\ \/ host.proc = "cli" /\ host' = Off /\ (Wakes \/ UNCHANGED unit)
                  \/ host.proc = "resume" /\ Goes("load") /\ UNCHANGED unit
               /\ UNCHANGED <<apiVars, bridgeVars, job, watermark, wants, marker, installed,
                              faults>>

-----------------------------------------------------------------------------
\* Coordinator.resume.  `guarded': inside a try whose handler writes
\* RECOVERY_REQUIRED.

J == host.job
Phase == job[J].phase
Exits == host' = Off /\ unit' = [unit EXCEPT !.due = FALSE]
engineOnly == <<apiVars, bridgeVars, current, watermark, wants, faults>>

\* A decision whose admission is already open is only recorded.
Load == /\ host.at = "load"
        /\ \/ /\ Phase \in TERMINAL
              /\ Exits /\ UNCHANGED job
           \/ /\ Phase \in Decided /\ marker # J
              /\ Settle(J, Terminal(Phase)) /\ Exits
           \/ /\ Phase \notin TERMINAL /\ (Phase \in Decided => marker = J)
              /\ Goes("hold") /\ UNCHANGED <<job, unit>>
        /\ UNCHANGED <<engineOnly, marker, installed>>

\* mutant: the dispatcher is not waited for
DrainedApi == ~admitted

\* Fence.hold waits until no admitted work is left, then writes the marker.
Drained == ~admitted /\ dispatch = NoDispatch
Hold == /\ host.at = "hold"
        /\ Drained /\ marker \in {None, J}
        /\ marker' = J
        /\ Goes("decide")
        /\ UNCHANGED <<engineOnly, job, installed, unit>>

\* 55 seconds pass: the process exits with 1.
HoldTimesOut == /\ host.at = "hold"
                /\ ~Drained \/ marker \notin {None, J}
                /\ host' = Off
                /\ UNCHANGED <<apiVars, bridgeVars, engineVars, unit, faults>>

\* What an interrupted job is resumed with: installation never is.
Resumption(phase) == CASE phase \in Decided -> "reverify"
                       [] phase \in Uncertain -> "rollback"
                       [] phase \in {"PREPARING", "ABORTING"} -> "abort"
                       [] OTHER -> "idle"
Decide == /\ host.at = "decide"
          /\ \/ /\ Phase = "QUEUED" /\ job[J].late
                /\ Write(J, "ABORTED")
                /\ Goes("release")
             \/ /\ ~(Phase = "QUEUED" /\ job[J].late)
                /\ host' = [host EXCEPT !.at = Resumption(Phase),
                                        !.guarded = Resumption(Phase) \in {"reverify", "abort"}]
                /\ job' = IF Resumption(Phase) = "abort" THEN [job EXCEPT ![J].phase = "ABORTING"]
                          ELSE job
          /\ UNCHANGED <<engineOnly, marker, installed, unit>>

\* mutant: the installation is not compared with the one the job was queued for
IdleHostUnchecked(j) == Verified(wants[j], job[j].old) /\ ~db.busy /\ ~job[j].planned

\* driver.idle: still what the job was queued for, nothing broadcast, planned once.
IdleHost(j) == /\ installed = job[j].old
               /\ Verified(wants[j], job[j].old)
               /\ ~db.busy
               /\ ~job[j].planned
Idle == /\ host.at = "idle" /\ IdleHost(J)
        /\ job' = [job EXCEPT ![J].planned = TRUE]
        /\ Goes("plan")
        /\ UNCHANGED <<engineOnly, marker, installed, unit>>
NotIdle == /\ host.at \in {"idle", "plan"}
           /\ Write(J, "ABORTED")
           /\ Goes("release")
           /\ UNCHANGED <<engineOnly, marker, installed, unit>>
Plan == /\ host.at = "plan"
        /\ Write(J, "PREPARING")
        /\ Goes("prepare")
        /\ UNCHANGED <<engineOnly, marker, installed, unit>>

\* The recovery set: database and files, verified before INSTALLING.
Prepare == /\ host.at = "prepare"
           /\ job' = [job EXCEPT ![J].saved = [db |-> db, files |-> installed],
                                 ![J].phase = "INSTALLING"]
           /\ Goes("install")
           /\ UNCHANGED <<engineOnly, marker, installed, unit>>
PrepareFails == /\ host.at = "prepare"
                /\ Write(J, "ABORTING")
                /\ host' = [host EXCEPT !.at = "abort", !.guarded = TRUE]
                /\ UNCHANGED <<engineOnly, marker, installed, unit>>

Install == /\ host.at = "install"
           /\ installed' = Mixed
           /\ Goes("replace")
           /\ UNCHANGED <<engineOnly, job, marker, unit>>
InstallEnds == /\ host.at = "replace"
               /\ installed' = wants[J]
               /\ Write(J, "VERIFYING")
               /\ Goes("health")
               /\ UNCHANGED <<engineOnly, marker, unit>>
InstallFails == /\ host.at \in {"install", "replace", "health"}
                /\ Write(J, "ROLLING_BACK")
                /\ Goes("rollback")
                /\ UNCHANGED <<engineOnly, marker, installed, unit>>
Commit == /\ host.at = "health" /\ installed = wants[J]
          /\ Write(J, "COMMITTED")
          /\ Goes("release")
          /\ UNCHANGED <<engineOnly, marker, installed, unit>>

\* rollback: at most MaxResumes times and not after the deadline.
Exhausted(j) == job[j].resumes >= MaxResumes \/ job[j].late
Rollback == /\ host.at = "rollback"
            /\ \/ /\ Exhausted(J)
                  /\ Settle(J, "RECOVERY_REQUIRED") /\ Exits
               \/ /\ ~Exhausted(J)
                  /\ job' = [job EXCEPT ![J].phase = "ROLLING_BACK", ![J].resumes = @ + 1]
                  /\ host' = [host EXCEPT !.at = "restore", !.guarded = TRUE]
                  /\ UNCHANGED unit
            /\ UNCHANGED <<engineOnly, marker, installed>>

\* restore_snapshot: what was saved, no broadcast, nobody signed in; then the
\* files.
Revoked(data) == [Cancelled(data, Jobs) EXCEPT !.busy = FALSE]
Restore == /\ host.at = "restore" /\ job[J].saved # None
           /\ db' = Revoked(job[J].saved.db)
           /\ installed' = Mixed
           /\ Goes("rewrite")
           /\ UNCHANGED <<grant, admitted, checked, dispatch, bridgeVars, job, current,
                          watermark, wants, marker, unit, faults>>
RestoreEnds == /\ host.at = "rewrite"
               /\ installed' = job[J].saved.files
               /\ Write(J, "ROLLBACK_VERIFYING")
               /\ Goes("recheck")
               /\ UNCHANGED <<engineOnly, marker, unit>>

\* The old release is healthy: after a restoration, an abort, or at a resumption.
Recover == /\ \/ host.at = "recheck" /\ installed = job[J].old /\ Write(J, "RECOVERED")
              \/ host.at = "abort" /\ installed = job[J].old /\ Write(J, "ABORTED")
              \/ /\ host.at = "reverify"
                 /\ installed = IF Phase = "COMMITTED" THEN wants[J] ELSE job[J].old
                 /\ UNCHANGED job
           /\ Goes("release")
           /\ UNCHANGED <<engineOnly, marker, installed, unit>>

\* finish: open admission, then say so.
Release == /\ host.at = "release"
           /\ marker' = None
           /\ Goes("finish")
           /\ UNCHANGED <<engineOnly, job, installed, unit>>
Finish == /\ host.at = "finish"
          /\ Settle(J, Terminal(Phase)) /\ Exits
          /\ UNCHANGED <<engineOnly, marker, installed>>

\* mutant: giving up opens admission
GuardedFailsOpen == /\ host.guarded
                    /\ Settle(J, "RECOVERY_REQUIRED") /\ Exits
                    /\ marker' = None
                    /\ UNCHANGED <<engineOnly, installed>>

\* Anything that fails inside the guarded part, the writes of finish included.
GuardedFails == /\ host.guarded
                /\ Settle(J, "RECOVERY_REQUIRED") /\ Exits
                /\ UNCHANGED <<engineOnly, marker, installed>>

-----------------------------------------------------------------------------
\* Faults and time.

\* The process dies, or a write outside the guarded part fails; systemd starts
\* the service again.
Dies == /\ host # Off /\ faults < MaxFaults
        /\ host' = Off
        /\ faults' = faults + 1
        /\ UNCHANGED <<apiVars, bridgeVars, engineVars, unit>>

\* Booting starts the service, and the count of its starts.
Reboot == /\ host = Off /\ Drained /\ faults < MaxFaults
          /\ unit' = [due |-> TRUE, starts |-> 0]
          /\ faults' = faults + 1
          /\ UNCHANGED <<apiVars, bridgeVars, engineVars, host>>

\* 24 hours pass for a request or a job.
Expire(j) == /\ ~job[j].late
             /\ Status(j) \notin TERMINAL \union {"none"}
             /\ job' = [job EXCEPT ![j].late = TRUE]
             /\ UNCHANGED <<apiVars, bridgeVars, current, watermark, wants, marker, installed, unit,
                            host, faults>>

-----------------------------------------------------------------------------
Api == \/ Enter \/ Leave \/ Mutate \/ Replace
       \/ Ask
       \/ \E j \in Asked : \/ Authorize(j) \/ Lapse(j, "signed_out") \/ Lapse(j, "expired")
                           \/ DispatchCancels(j) \/ DispatchSends(j)
       \/ DispatchCommits \/ DispatchLost
Offer == OfferBegins \/ OfferPublishes \/ OfferFails \/ \E r \in Releases : OfferVerifies(r)
Admin == \/ Offer
         \/ \E j \in Queued, r \in Releases : CliQueue(j, r)
Service == ServiceStarts \/ ServiceFails \/ ServiceRefused
Call == CallAccepts \/ CallPublishes \/ CallWakes
Queue == QueueStages \/ QueueVerifies \/ QueueFails \/ QueuePoints
Forward == \/ Decide \/ Idle \/ NotIdle \/ Plan \/ Prepare \/ Install \/ InstallEnds \/ Commit
           \/ Release \/ Finish
Backward == PrepareFails \/ InstallFails \/ Rollback \/ Restore \/ RestoreEnds \/ Recover \/ GuardedFails
Fault == Dies \/ Reboot \/ IntervalPasses \/ \E j \in Jobs : Expire(j)

Next == \/ Api \/ Admin \/ Call \/ Service \/ Queue \/ Load \/ Hold \/ HoldTimesOut
        \/ Forward \/ Backward \/ Fault

\* The process that holds coordinator.lock goes on: with its next step, or the
\* failure that ends it.
Process == \/ Call \/ OfferPublishes \/ OfferFails \/ Queue \/ Load \/ Hold \/ HoldTimesOut
           \/ Forward \/ Backward

\* Nothing is assumed of the owner, the API and the time limits.  A service that
\* is due is started, fails to start or is refused.
Fairness == WF_vars(Process) /\ WF_vars(Service)

Spec == Init /\ [][Next]_vars /\ Fairness
-----------------------------------------------------------------------------
\* Properties.

\* A job that has closed admission and has not been settled.
Engaged == {j \in Jobs : HasJob(j) /\ job[j].phase \notin Finished \union {"QUEUED"}}

\* One update at a time: whatever pointers and journals a death left behind, no
\* job is engaged beside another, not even beside one that needs recovery, and
\* the marker is never somebody else's (and every variable has its type).
OneAtATime == /\ TypeOK
              /\ \A j \in Engaged : Engaged = {j} /\ marker \in {None, j}

\* While the installation may be incomplete, admission is closed for this job
\* and nothing admitted earlier is left, in the coordinator's lifetime and
\* after its death; and nothing is broadcast.
Closed == Uncertain \union {"PREPARING", "ABORTING"}
FencedWhileUncertain ==
  /\ \A j \in Jobs : job[j].phase \in Closed => marker = j /\ Drained /\ ~db.busy
  /\ installed = Mixed => marker # None

\* A committed update is newer than the installation it saved: a job queued
\* long ago and repaired later is not installed over what came meanwhile.
NoDowngrade == \A j \in Jobs : job[j].phase = "COMMITTED" => wants[j] > job[j].saved.files

\* A restoration brings back the database as it is, but for the sign-ins it
\* revokes: nothing written after admission opened is ever rewound.
NoRewind == [][host.at = "restore" /\ host'.at = "rewrite" => db' = Revoked(db)]_vars

\* Admission opens only on the release that the journal has decided for.
OpensDecided ==
  [][marker # None /\ marker' = None =>
       /\ job[marker].phase \in Decided /\ installed # Mixed
       /\ job[marker].phase = "COMMITTED" => installed = wants[marker]
       /\ job[marker].phase = "RECOVERED" => installed = job[marker].saved.files]_vars

\* A job the service is due to run is settled, or given up for recovery, or
\* systemd refuses to start the service once more: no death, lock or reboot
\* makes it end well with the job still to be run.
DueSettles == \A j \in Jobs :
  (unit.due /\ j \in {requested, current} /\ Status(j) \notin TERMINAL)
    ~> (Status(j) \in TERMINAL \/ unit.starts > MaxStarts)
=============================================================================
