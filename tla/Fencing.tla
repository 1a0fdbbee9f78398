------------------------------- MODULE Fencing -------------------------------
(***************************************************************************)
(* Controller passes, the Node Agent and its containers, seen through the  *)
(* fencing token that orders them.                                         *)
(*                                                                         *)
(* Every pass of the controller takes a new token from SQLite, announces   *)
(* it to the agent with PUT /v1/draining, reconciles each allocation with  *)
(* commands that carry the token, and finally removes orphan containers.   *)
(* A command may be lost, refused, executed without its answer reaching    *)
(* the controller (the HTTP client gives up after five seconds), or        *)
(* executed long afterwards.  Both processes may crash between any two     *)
(* steps, and the database may be restored from an older backup.           *)
(*                                                                         *)
(* Why a session is started, stopped or left alone is the subject of       *)
(* module Reconcile; here those choices are left open, so what holds here  *)
(* holds for every policy.                                                 *)
(***************************************************************************)
EXTENDS Naturals, FiniteSets

CONSTANTS Alloc,        \* worker_allocations.id (UUIDs, never reused)
          None,         \* no message, no allocation, no container
          MaxFence,     \* bound on controller_fencing.value
          MaxInFlight,  \* bound on commands that are on their way
          Restores      \* whether backups are taken and restored

ASSUME FencingAssumption == /\ MaxFence \in Nat
                            /\ MaxInFlight \in Nat
                            /\ Restores \in BOOLEAN
                            /\ None \notin Alloc
                            /\ None \notin [op : {"drain", "start", "stop", "update", "sweep"},
                                            alloc : Alloc \cup {None}, gen : Nat, fence : Nat]
                            /\ None \notin [gen : Nat, fence : Nat, up : BOOLEAN]

VARIABLES
  \* SQLite
  dbFence,      \* controller_fencing.value
  row,          \* worker_allocations: absent, active, or a terminal state
  rowGen,       \* worker_allocations.desired_generation
  \* the controller's goroutine
  pc,           \* where Once is
  fence,        \* the pass's token
  hb,           \* fencing_token of the last heartbeat
  todo,         \* sessions of the pass not reconciled yet, by allocation
  cur,          \* the allocation being reconciled
  seen,         \* whether Inspect found a container for cur
  orphans,      \* containers listed and not judged yet
  await,        \* the command whose answer is awaited
  reply,        \* that answer
  \* between them
  net,          \* commands sent and not handled yet
  \* the Node Agent
  memFence,     \* Agent.fence
  fenceFile,    \* the high watermark in StateFile
  job,          \* the command being executed under Agent.mu
  \* Docker
  worker,       \* the container stream-worker-<allocation>, with its labels
  \* backup archive
  backup        \* the counter and the watermark it holds

dbVars     == <<dbFence, row, rowGen>>
passVars   == <<pc, fence, hb, todo, cur, seen, orphans>>
callVars   == <<await, reply>>
agentVars  == <<memFence, fenceFile, job>>
vars == <<dbFence, row, rowGen, pc, fence, hb, todo, cur, seen, orphans,
          await, reply, net, memFence, fenceFile, job, worker, backup>>

RowState == {"absent", "active", "stopped"}

Command == [op    : {"drain", "start", "stop", "update", "sweep"},
            alloc : Alloc \cup {None}, gen : Nat, fence : Nat]

Worker == [gen : Nat, fence : Nat, up : BOOLEAN]

PassState == {"idle", "heartbeat", "advance", "await", "reconcile",
              "inspect", "decide", "sweep"}

TypeOK ==
  /\ dbFence \in Nat
  /\ row \in [Alloc -> RowState]
  /\ rowGen \in [Alloc -> Nat]
  /\ pc \in PassState
  /\ fence \in Nat
  /\ hb \in Nat
  /\ todo \in SUBSET Alloc
  /\ cur \in Alloc \cup {None}
  /\ seen \in BOOLEAN
  /\ orphans \in SUBSET Alloc
  /\ await \in Command \cup {None}
  /\ reply \in {"none", "ok", "error"}
  /\ net \in SUBSET Command
  /\ memFence \in Nat
  /\ fenceFile \in Nat
  /\ job \in Command \cup {None}
  /\ worker \in [Alloc -> Worker \cup {None}]
  /\ backup \in [db : Nat, file : Nat]

Init ==
  /\ dbFence = 0
  /\ row = [a \in Alloc |-> "absent"]
  /\ rowGen = [a \in Alloc |-> 0]
  /\ pc = "idle" /\ fence = 0 /\ hb = 0 /\ todo = {} /\ cur = None
  /\ seen = FALSE /\ orphans = {}
  /\ await = None /\ reply = "none"
  /\ net = {}
  /\ memFence = 0 /\ fenceFile = 0 /\ job = None
  /\ worker = [a \in Alloc |-> None]
  /\ backup = [db |-> 0, file |-> 0]

-----------------------------------------------------------------------------
(* The controller: one pass of Once *)

Larger(m, n) == IF m > n THEN m ELSE n

\* Once: the pass takes its token before it looks at anything.
NextFence ==
  /\ pc = "idle"
  /\ dbFence < MaxFence
  /\ dbFence' = dbFence + 1
  /\ fence' = dbFence + 1
  /\ pc' = "heartbeat"
  /\ UNCHANGED <<row, rowGen, hb, todo, cur, seen, orphans, await, reply, net,
                 memFence, fenceFile, job, worker, backup>>

\* Mutant of Watermark: the state file is not read back after a restart.
WatermarkInMemory == memFence

\* readFence: the larger of the remembered and the stored watermark.
Watermark == Larger(memFence, fenceFile)

\* GET /v1/heartbeat waits for Agent.mu, so never runs beside a command.
Heartbeat ==
  /\ pc = "heartbeat"
  /\ job = None
  /\ memFence' = Watermark
  /\ hb' = Watermark
  /\ pc' = "advance"
  /\ UNCHANGED <<dbFence, row, rowGen, fence, todo, cur, seen, orphans, await, reply, net,
                 fenceFile, job, worker, backup>>

\* Mutant of PassFence: the heartbeat's token is ignored.
PassFenceUnchecked == fence

\* The token of the pass once the heartbeat is known: a restored database may
\* be behind the agent, and catches up.
PassFence == IF hb >= fence THEN Larger(dbFence, hb) + 1 ELSE fence

\* The request goes out; what was only needed to decide on it is dead.
Send(m) == /\ Cardinality(net) < MaxInFlight
           /\ net' = net \cup {m}
           /\ await' = m
           /\ reply' = "none"
           /\ pc' = "await"
           /\ hb' = 0 /\ cur' = None /\ seen' = FALSE

\* AdvanceFence when needed, then PUT /v1/draining with the pass's token.
AdvanceFence ==
  /\ pc = "advance"
  /\ PassFence <= MaxFence
  /\ fence' = PassFence
  /\ dbFence' = IF hb >= fence THEN PassFence ELSE dbFence
  /\ Send([op |-> "drain", alloc |-> None, gen |-> 1, fence |-> PassFence])
  /\ UNCHANGED <<row, rowGen, todo, orphans, memFence, fenceFile, job, worker, backup>>

\* The pass is over: its locals are dead.
EndPass == /\ pc' = "idle"
           /\ fence' = 0 /\ hb' = 0 /\ todo' = {} /\ cur' = None
           /\ seen' = FALSE /\ orphans' = {}
           /\ await' = None /\ reply' = "none"

\* The agent took the token: list the sessions that are not ended.  An absent
\* allocation stands for a session that may still get one.
DrainAcknowledged ==
  /\ pc = "await" /\ await.op = "drain" /\ reply = "ok"
  /\ pc' = "reconcile"
  /\ todo' = {a \in Alloc : row[a] # "stopped"}
  /\ await' = None /\ reply' = "none"
  /\ UNCHANGED <<dbFence, row, rowGen, fence, hb, cur, seen, orphans, net,
                 memFence, fenceFile, job, worker, backup>>

\* reconcile(a): nothing to do for this session (draining, no free slot, no
\* output and no allocation).
Skip(a) ==
  /\ pc = "reconcile" /\ a \in todo
  /\ todo' = todo \ {a}
  /\ UNCHANGED <<dbFence, row, rowGen, pc, fence, hb, cur, seen, orphans, await, reply, net,
                 memFence, fenceFile, job, worker, backup>>

\* reconcile(a): the session runs; give it an allocation if it has none.
Consider(a) ==
  /\ pc = "reconcile" /\ a \in todo
  /\ todo' = todo \ {a}
  /\ cur' = a
  /\ pc' = "inspect"
  /\ row' = [row EXCEPT ![a] = "active"]
  /\ rowGen' = [rowGen EXCEPT ![a] = IF row[a] = "absent" THEN 1 ELSE rowGen[a]]
  /\ UNCHANGED <<dbFence, fence, hb, seen, orphans, await, reply, net,
                 memFence, fenceFile, job, worker, backup>>

\* reconcile(a): the session is to stop, or lost its last output.
SendStop(a) ==
  /\ pc = "reconcile" /\ a \in todo /\ row[a] = "active"
  /\ todo' = todo \ {a}
  /\ Send([op |-> "stop", alloc |-> a, gen |-> rowGen[a], fence |-> fence])
  /\ UNCHANGED <<dbFence, row, rowGen, fence, orphans,
                 memFence, fenceFile, job, worker, backup>>

\* GET /v1/workers/{id}
Inspect ==
  /\ pc = "inspect"
  /\ seen' = (worker[cur] # None)
  /\ pc' = "decide"
  /\ UNCHANGED <<dbFence, row, rowGen, fence, hb, todo, cur, orphans, await, reply, net,
                 memFence, fenceFile, job, worker, backup>>

\* The inspection failed, the worker is healthy, or it is too early to act.
LeaveAlone ==
  /\ pc \in {"inspect", "decide"}
  /\ pc' = "reconcile"
  /\ cur' = None /\ seen' = FALSE
  /\ UNCHANGED <<dbFence, row, rowGen, fence, hb, todo, orphans, await, reply, net,
                 memFence, fenceFile, job, worker, backup>>

\* A healthy worker with another configuration is updated in place.
SendUpdate ==
  /\ pc = "decide" /\ seen
  /\ Send([op |-> "update", alloc |-> cur, gen |-> rowGen[cur], fence |-> fence])
  /\ UNCHANGED <<dbFence, row, rowGen, fence, todo, orphans,
                 memFence, fenceFile, job, worker, backup>>

\* Too many restarts: the worker is removed and the session fails.
GiveUp ==
  /\ pc = "decide"
  /\ Send([op |-> "stop", alloc |-> cur, gen |-> rowGen[cur], fence |-> fence])
  /\ UNCHANGED <<dbFence, row, rowGen, fence, todo, orphans,
                 memFence, fenceFile, job, worker, backup>>

\* Mutant of NextGeneration: only a changed configuration costs a generation.
NextGenerationChanged(changed) == IF changed THEN rowGen[cur] + 1 ELSE rowGen[cur]

\* A container that exists, or a changed configuration, costs a generation.
NextGeneration(changed) == IF seen \/ changed THEN rowGen[cur] + 1 ELSE rowGen[cur]

\* Mutant of CommitAndStart: the generation is not committed before the start.
StartUncommitted(changed) ==
  /\ pc = "decide"
  /\ UNCHANGED rowGen
  /\ Send([op |-> "start", alloc |-> cur, gen |-> NextGeneration(changed), fence |-> fence])
  /\ UNCHANGED <<dbFence, row, fence, todo, orphans,
                 memFence, fenceFile, job, worker, backup>>

\* The generation is committed first, then the worker is started.
CommitAndStart(changed) ==
  /\ pc = "decide"
  /\ rowGen' = [rowGen EXCEPT ![cur] = NextGeneration(changed)]
  /\ Send([op |-> "start", alloc |-> cur, gen |-> NextGeneration(changed), fence |-> fence])
  /\ UNCHANGED <<dbFence, row, fence, todo, orphans,
                 memFence, fenceFile, job, worker, backup>>

\* Mutant of CommitStopped: the row is closed whatever the agent answers.
CommitStoppedAnyway ==
  /\ pc = "await" /\ await.op = "stop"
  /\ row' = [row EXCEPT ![await.alloc] = "stopped"]
  /\ pc' = "reconcile"
  /\ await' = None /\ reply' = "none"
  /\ UNCHANGED <<dbFence, rowGen, fence, hb, todo, cur, seen, orphans, net,
                 memFence, fenceFile, job, worker, backup>>

\* Mutant of CommitStopped: a state the schema does not know.
CommitUnknownState ==
  /\ pc = "await" /\ await.op = "stop" /\ reply = "ok"
  /\ row' = [row EXCEPT ![await.alloc] = "ended"]
  /\ pc' = "reconcile"
  /\ await' = None /\ reply' = "none"
  /\ UNCHANGED <<dbFence, rowGen, fence, hb, todo, cur, seen, orphans, net,
                 memFence, fenceFile, job, worker, backup>>

\* The agent confirmed the removal: the row becomes STOPPED or FAILED.
CommitStopped ==
  /\ pc = "await" /\ await.op = "stop" /\ reply = "ok"
  /\ row' = [row EXCEPT ![await.alloc] = "stopped"]
  /\ pc' = "reconcile"
  /\ await' = None /\ reply' = "none"
  /\ UNCHANGED <<dbFence, rowGen, fence, hb, todo, cur, seen, orphans, net,
                 memFence, fenceFile, job, worker, backup>>

\* A start or an update was answered, or a call of reconcile failed: the
\* error is logged and the pass goes on with the next session.
NextSession ==
  /\ pc = "await"
  /\ \/ await.op \in {"start", "update"}
     \/ await.op = "stop" /\ reply # "ok"
  /\ pc' = "reconcile"
  /\ await' = None /\ reply' = "none"
  /\ UNCHANGED <<dbFence, row, rowGen, fence, hb, todo, cur, seen, orphans, net,
                 memFence, fenceFile, job, worker, backup>>

\* GET /v1/workers, after the last session.
ListWorkers ==
  /\ pc = "reconcile" /\ todo = {}
  /\ orphans' = {a \in Alloc : worker[a] # None}
  /\ pc' = "sweep"
  /\ UNCHANGED <<dbFence, row, rowGen, fence, hb, todo, cur, seen, await, reply, net,
                 memFence, fenceFile, job, worker, backup>>

\* The worker belongs to an open allocation of a running session.
KeepWorker(a) ==
  /\ pc = "sweep" /\ a \in orphans /\ row[a] = "active"
  /\ orphans' = orphans \ {a}
  /\ UNCHANGED <<dbFence, row, rowGen, pc, fence, hb, todo, cur, seen, await, reply, net,
                 memFence, fenceFile, job, worker, backup>>

\* It does not, or the session is meanwhile to stop: DELETE.
SweepOrphan(a) ==
  /\ pc = "sweep" /\ a \in orphans
  /\ orphans' = orphans \ {a}
  /\ Send([op |-> "sweep", alloc |-> a, gen |-> 0, fence |-> fence])
  /\ UNCHANGED <<dbFence, row, rowGen, fence, todo,
                 memFence, fenceFile, job, worker, backup>>

SweepAnswered ==
  /\ pc = "await" /\ await.op = "sweep" /\ reply = "ok"
  /\ pc' = "sweep"
  /\ await' = None /\ reply' = "none"
  /\ UNCHANGED <<dbFence, row, rowGen, fence, hb, todo, cur, seen, orphans, net,
                 memFence, fenceFile, job, worker, backup>>

\* The pass ends: normally, on an error that Once returns, or because the API
\* process dies.  Commands already sent stay on their way.
PassEnds ==
  /\ pc # "idle"
  /\ EndPass
  /\ UNCHANGED <<dbFence, row, rowGen, net, memFence, fenceFile, job, worker, backup>>

-----------------------------------------------------------------------------
(* The Node Agent *)

Answer(m, r) == reply' = IF await = m THEN r ELSE reply

\* Mutant of Accept: a stale token is not refused.
AcceptStale(m) ==
  /\ m \in net /\ job = None
  /\ net' = net \ {m}
  /\ fenceFile' = Larger(fenceFile, m.fence)
  /\ memFence' = m.fence
  /\ job' = m
  /\ UNCHANGED <<dbFence, row, rowGen, pc, fence, hb, todo, cur, seen, orphans,
                 await, reply, worker, backup>>

\* accept: the token is not behind the watermark; the watermark is stored
\* before the command has any effect.
Accept(m) ==
  /\ m \in net /\ job = None
  /\ m.fence >= Watermark
  /\ net' = net \ {m}
  /\ fenceFile' = Larger(fenceFile, m.fence)
  /\ memFence' = m.fence
  /\ job' = m
  /\ UNCHANGED <<dbFence, row, rowGen, pc, fence, hb, todo, cur, seen, orphans,
                 await, reply, worker, backup>>

\* accept fails: the token is stale, the command is invalid, expired or met
\* by the maintenance gate, or the watermark could not be made durable (the
\* rename may have happened all the same).
Refuse(m) ==
  /\ m \in net /\ job = None
  /\ net' = net \ {m}
  /\ memFence' = Watermark
  /\ fenceFile' \in {fenceFile, Larger(fenceFile, m.fence)}
  /\ Answer(m, "error")
  /\ UNCHANGED <<dbFence, row, rowGen, pc, fence, hb, todo, cur, seen, orphans,
                 await, job, worker, backup>>

JobDone(r) == /\ job' = None
              /\ Answer(job, r)
              /\ UNCHANGED <<dbFence, row, rowGen, pc, fence, hb, todo, cur, seen, orphans,
                             await, net, memFence, fenceFile, backup>>

\* PUT /v1/draining, and the PUTs on a worker: no container comes or goes.
RunUpdate ==
  /\ job # None /\ job.op \in {"drain", "update"}
  /\ UNCHANGED worker
  /\ \E r \in {"ok", "error"} : JobDone(r)

\* Runtime.Stop: docker stop, then docker rm.  A failure may leave the
\* container, still running or already stopped.
RunStop ==
  /\ job # None /\ job.op \in {"stop", "sweep"}
  /\ \/ /\ worker' = [worker EXCEPT ![job.alloc] = None]
        /\ JobDone("ok")
     \/ /\ worker[job.alloc] # None
        /\ \E left \in {worker[job.alloc].up, FALSE} :
             worker' = [worker EXCEPT ![job.alloc].up = left]
        /\ JobDone("error")

\* Runtime.Start refuses: draining, no capacity, Docker unavailable, or the
\* container carries a later token.
StartRefused ==
  /\ job # None /\ job.op = "start"
  /\ UNCHANGED worker
  /\ JobDone("error")

\* The generation to start already runs.
Adopted == worker[job.alloc] # None /\ worker[job.alloc].gen = job.gen /\ worker[job.alloc].up

\* Runtime.Start adopts a container of its generation, or replaces whatever is
\* there by a new one.  A failed handoff removes that again, or leaves it when
\* the request was cancelled.
StartLaunches ==
  /\ job # None /\ job.op = "start"
  /\ worker[job.alloc] # None => worker[job.alloc].fence <= job.fence
  /\ \/ /\ worker' = IF Adopted THEN worker
                     ELSE [worker EXCEPT ![job.alloc] =
                             [gen |-> job.gen, fence |-> job.fence, up |-> TRUE]]
        /\ \E r \in {"ok", "error"} : JobDone(r)
     \/ /\ ~Adopted
        /\ worker' = [worker EXCEPT ![job.alloc] = None]
        /\ JobDone("error")

\* The agent process dies: the watermark it remembered is gone.
AgentCrash ==
  /\ job' = None
  /\ memFence' = 0
  /\ memFence # 0 \/ job # None
  /\ UNCHANGED <<dbFence, row, rowGen, pc, fence, hb, todo, cur, seen, orphans,
                 await, reply, net, fenceFile, worker, backup>>

\* The worker process exits; its container stays, stopped (--restart no).
WorkerExit(a) ==
  /\ worker[a] # None /\ worker[a].up
  /\ worker' = [worker EXCEPT ![a].up = FALSE]
  /\ UNCHANGED <<dbFence, row, rowGen, pc, fence, hb, todo, cur, seen, orphans,
                 await, reply, net, memFence, fenceFile, job, backup>>

-----------------------------------------------------------------------------
(* Offline backup and restore (infra/selfhost/backup.py) *)

\* The API is stopped, SQLite and the agent's watermark are copied.
Snapshot ==
  /\ Restores
  /\ EndPass
  /\ backup' = [db |-> dbFence, file |-> fenceFile]
  /\ backup' # backup
  /\ UNCHANGED <<dbFence, row, rowGen, net, memFence, fenceFile, job, worker>>

\* Mutant of RestoredWatermark: the archive's file replaces the agent's.
RestoredWatermarkReplaced == backup.file

\* The watermark survives the restore: the larger of the two.
RestoredWatermark == Larger(fenceFile, backup.file)

\* Refused while a container exists.  API, edge and agent are stopped, so
\* nothing is on its way; every allocation of the restored database is closed.
\* An allocation made after the backup has no row any more, and its identity
\* never returns: it counts as closed.
RestoreSnapshot ==
  /\ Restores
  /\ \A a \in Alloc : worker[a] = None
  /\ EndPass
  /\ net' = {}
  /\ job' = None /\ memFence' = 0
  /\ dbFence' = backup.db
  /\ row' = [a \in Alloc |-> IF row[a] = "absent" THEN "absent" ELSE "stopped"]
  /\ fenceFile' = RestoredWatermark
  /\ UNCHANGED <<rowGen, worker, backup>>

-----------------------------------------------------------------------------
Controller ==
  \/ NextFence \/ Heartbeat \/ AdvanceFence \/ DrainAcknowledged
  \/ \E a \in Alloc : Skip(a) \/ Consider(a) \/ SendStop(a) \/ KeepWorker(a) \/ SweepOrphan(a)
  \/ Inspect \/ LeaveAlone \/ SendUpdate \/ GiveUp
  \/ \E changed \in BOOLEAN : CommitAndStart(changed)
  \/ CommitStopped \/ NextSession \/ ListWorkers \/ SweepAnswered \/ PassEnds

Agent ==
  \/ \E m \in net : Accept(m) \/ Refuse(m)
  \/ RunUpdate \/ RunStop \/ StartRefused \/ StartLaunches
  \/ AgentCrash
  \/ \E a \in Alloc : WorkerExit(a)

Operator == Snapshot \/ RestoreSnapshot

Next == Controller \/ Agent \/ Operator

Spec == Init /\ [][Next]_vars

-----------------------------------------------------------------------------
(* Properties *)

\* Once the controller has committed an allocation as STOPPED or FAILED no
\* container of it exists, ever again: a start command delayed past the
\* commit finds its token behind the agent's watermark.
StopIsFinal == \A a \in Alloc : row[a] = "stopped" => worker[a] = None

\* A container never runs ahead of the database: its allocation is recorded
\* and its generation committed, so an orphan pass that finds it after a
\* lost response can tell that it belongs (the comment in onceNode).
CommittedFirst ==
  \A a \in Alloc : worker[a] # None => /\ row[a] # "absent"
                                       /\ worker[a].gen <= rowGen[a]

\* What Inspect reported is still so when reconcile acts on it, although
\* commands of earlier passes may still be on their way.
InspectionStable == pc = "decide" => (seen <=> worker[cur] # None)

\* From the moment the pass announces itself until it ends, the agent's
\* watermark is never ahead of the pass's token: the controller, even after a
\* restore to an older counter, is never fenced out by its own past.
NotFencedOut ==
  pc \in {"await", "reconcile", "inspect", "decide", "sweep"} => fenceFile <= fence

\* While a pass reconciles, the only command that can be executing is one of
\* its own.
PassGoverns ==
  /\ \/ pc \in {"reconcile", "inspect", "decide", "sweep"}
     \/ pc = "await" /\ await.op # "drain"
  /\ job # None
  => job.fence = fence

\* A generation is given to one container only: when a start is executed, what
\* is there carries an earlier one, so Runtime.Start never adopts a container
\* that was started with another token and other secrets.
FreshGeneration ==
  job # None /\ job.op = "start" /\ worker[job.alloc] # None
  => worker[job.alloc].gen < job.gen

\* The stored watermark never goes back, neither in a restart of the agent
\* nor in a restore of the installation.
WatermarkMonotone == [][fenceFile' >= fenceFile]_vars

\* The control plane implements the promise of WorkerAuthority.
Authority == INSTANCE WorkerAuthority WITH
               present <- {a \in Alloc : worker[a] # None}
ImplementsAuthority == Authority!Spec
==============================================================================
