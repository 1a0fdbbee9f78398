------------------------------ MODULE Reconcile ------------------------------
(***************************************************************************)
(* What the controller does with one broadcast session: the decisions of   *)
(* onceNode and reconcile, the agent and the Docker runtime they drive,    *)
(* the worker they run, and the owner who meanwhile changes outputs and    *)
(* slate, stops the session, disables the stream or drains the node.       *)
(*                                                                         *)
(* A call to the agent either fails before it has an effect, or has its    *)
(* effect and is answered, or has its effect and the answer is lost.  It   *)
(* has no effect later on: that is what module Fencing establishes.        *)
(* Faults are counted against budgets, so that everything that may happen  *)
(* infinitely often is part of the program.                                *)
(***************************************************************************)
EXTENDS Naturals, FiniteSets

CONSTANTS None,             \* no allocation, no container
          RestartLimit,     \* starts without a stable run in between (5 in the code)
          ControlFaults,    \* budget: lost or failed calls, API and agent restarts
          WorkerFaults,     \* budget: worker exits and silent status endpoints
          CutHandoffs,      \* budget: starts cut between docker run and the handoff
          OutputChanges,    \* budget: changes of the outputs
          SlateChanges,     \* budget: changes of the slate
          Drains            \* whether the owner may drain the node

\* An allocation is closed and replaced only after the outputs went away and
\* came back, so this many identities are enough.
AllocId == 1 .. (OutputChanges + 1)

Hash  == [out : Nat, slate : BOOLEAN]
Stage == {"created",     \* docker run is done, managed-worker waits for its files
          "active",      \* the worker process runs
          "exited"}

\* A row of worker_allocations, and a container.
Row == [id : AllocId, state : {"PENDING", "STARTING", "RUNNING"}, gen : Nat, hash : Hash,
        restarts : Nat, healthy : BOOLEAN, backoff : BOOLEAN]
Container == [gen : Nat, stage : Stage, ready : BOOLEAN, out : Nat, slate : BOOLEAN]

\* What GET /v1/workers/{id} tells about the worker of the row.
Verdict == {"missing",   \* there is no container
            "unfit",     \* it has exited, or is of another generation
            "quiet",     \* it runs the row's generation and reports nothing
            "fit"}       \* it runs the row's generation and reports

ASSUME ReconcileAssumption ==
  /\ RestartLimit \in Nat \ {0}
  /\ {ControlFaults, WorkerFaults, CutHandoffs, OutputChanges, SlateChanges} \subseteq Nat
  /\ Drains \in BOOLEAN
  /\ None \notin Row /\ None \notin Container

VARIABLES
  \* SQLite
  session,      \* stream_sessions: phase and desired
  enabled,      \* streams.enabled
  out,          \* destinations: whether any is enabled, and their generation
  slate,        \* source_slates.forced
  drainNode,    \* media_nodes.state = 'DRAINING'
  alloc,        \* the open row of worker_allocations
  allocs,       \* rows made so far
  \* the controller's goroutine
  pc,
  want,         \* session.desired as listed by the pass
  drain,        \* drainNode as read by the pass
  conf,         \* the configuration read by the pass, as it is hashed
  seen,         \* what the inspection told
  why,          \* why a worker is being removed
  orphans,      \* containers listed and not judged yet
  \* the agent and Docker
  agentDraining,
  box,          \* the container of each allocation
  \* budgets spent
  spent

dbVars    == <<session, enabled, out, slate, drainNode, alloc, allocs>>
ownerVars == <<enabled, out, slate, drainNode>>
passVars  == <<pc, want, drain, conf, seen, why, orphans>>
vars == <<session, enabled, out, slate, drainNode, alloc, allocs, pc, want, drain,
          conf, seen, why, orphans, agentDraining, box, spent>>

Phase    == {"SCHEDULING", "STARTING", "LIVE", "STOPPING", "ENDED", "FAILED"}
Terminal == {"ENDED", "FAILED"}
Budget == [control : 0..ControlFaults, worker : 0..WorkerFaults, handoff : 0..CutHandoffs,
           output : 0..OutputChanges, slate : 0..SlateChanges]

TypeOK ==
  /\ session \in [phase : Phase, desired : {"RUNNING", "STOPPED"}]
  /\ enabled \in BOOLEAN
  /\ out \in [on : BOOLEAN, gen : Nat]
  /\ slate \in BOOLEAN
  /\ drainNode \in BOOLEAN
  /\ alloc \in {None} \cup Row
  /\ allocs \in 0..(OutputChanges + 1)
  /\ pc \in {"idle", "announce", "list", "reconcile", "policy", "inspect", "decide",
             "outputs", "slate", "record", "starting", "start", "stop", "close", "listing", "sweep"}
  /\ want \in {"RUNNING", "STOPPED"}
  /\ drain \in BOOLEAN
  /\ conf \in Hash
  /\ seen \in Verdict
  /\ why \in {"ended", "no output", "exhausted"}
  /\ orphans \in SUBSET AllocId
  /\ agentDraining \in BOOLEAN
  /\ box \in [AllocId -> {None} \cup Container]
  /\ spent \in Budget

Nothing == [out |-> 0, slate |-> FALSE]

Init ==
  /\ session = [phase |-> "SCHEDULING", desired |-> "RUNNING"]
  /\ enabled = TRUE
  /\ out = [on |-> TRUE, gen |-> 1]
  /\ slate = FALSE
  /\ drainNode = FALSE
  /\ alloc = None /\ allocs = 0
  /\ pc = "idle" /\ want = "RUNNING" /\ drain = FALSE /\ conf = Nothing
  /\ seen = "missing" /\ why = "ended" /\ orphans = {}
  /\ agentDraining = FALSE
  /\ box = [i \in AllocId |-> None]
  /\ spent = [control |-> 0, worker |-> 0, handoff |-> 0, output |-> 0, slate |-> 0]

\* A fault or a change of the given kind happens now.
Spend(kind, limit) == /\ spent[kind] < limit
                      /\ spent' = [spent EXCEPT ![kind] = @ + 1]
ControlFault == Spend("control", ControlFaults)

Running(b) == b # None /\ b.stage # "exited"

\* Runtime.inspect reads resources.json inside every running container, and
\* fails for one whose files were never handed over.
Unreadable(b) == b # None /\ b.stage = "created"

\* Runtime.List fails as a whole when one container cannot be inspected.
Listable == \A i \in AllocId : ~Unreadable(box[i])

-----------------------------------------------------------------------------
(* One pass: onceNode *)

\* The pass is over; what it knew is gone.
EndPass == /\ pc' = "idle"
           /\ want' = "RUNNING" /\ drain' = FALSE /\ conf' = Nothing
           /\ seen' = "missing" /\ why' = "ended" /\ orphans' = {}

\* reconcile returns, with or without an error: on to the orphans.
EndReconcile == /\ pc' = "listing"
                /\ want' = "RUNNING" /\ drain' = FALSE /\ conf' = Nothing
                /\ seen' = "missing" /\ why' = "ended"
                /\ UNCHANGED orphans

\* GET /v1/heartbeat lists the containers.  A pass whose heartbeat fails
\* returns at once and has changed nothing.
Heartbeat ==
  /\ pc = "idle"
  /\ Listable
  /\ pc' = "announce"
  /\ UNCHANGED <<dbVars, want, drain, conf, seen, why, orphans, agentDraining, box, spent>>

\* Reads media_nodes.state and sends it to the agent.
Announce ==
  /\ pc = "announce"
  /\ \/ /\ pc' = "list"
        /\ drain' = drainNode
        /\ agentDraining' = drainNode
        /\ UNCHANGED <<want, conf, seen, why, orphans, spent>>
     \/ /\ ControlFault
        /\ agentDraining' \in {agentDraining, drainNode}
        /\ EndPass
  /\ UNCHANGED <<dbVars, box>>

\* Mutant of Open: a session that is stopping is not listed any more.
OpenUnlessStopping == session.phase \notin Terminal \cup {"STOPPING"}

Open == session.phase \notin Terminal

\* Sessions of disabled streams are to stop; then the open ones are listed.
ListSessions ==
  /\ pc = "list"
  /\ session' = IF Open /\ ~enabled THEN [phase |-> "STOPPING", desired |-> "STOPPED"]
                ELSE session
  /\ want' = IF Open THEN session'.desired ELSE "RUNNING"
  /\ pc' = IF Open THEN "reconcile" ELSE "listing"
  /\ drain' = (Open /\ drain)
  /\ UNCHANGED <<ownerVars, alloc, allocs, conf, seen, why, orphans, agentDraining, box, spent>>

\* reconcile: the row and the outputs are read; a session that is to stop, or
\* has no output, gives up its worker first.
LoadSession ==
  /\ pc = "reconcile"
  /\ \/ /\ want = "STOPPED" \/ ~out.on
        /\ alloc # None
        /\ pc' = "stop"
        /\ why' = IF want = "STOPPED" THEN "ended" ELSE "no output"
        /\ want' = "RUNNING" /\ drain' = FALSE
        /\ UNCHANGED <<conf, seen, orphans>>
     \/ /\ want = "STOPPED" /\ alloc = None
        /\ pc' = "close" /\ why' = "ended"
        /\ want' = "RUNNING" /\ drain' = FALSE
        /\ UNCHANGED <<conf, seen, orphans>>
     \/ /\ want = "RUNNING" /\ ~out.on /\ alloc = None
        /\ EndReconcile
     \/ /\ want = "RUNNING" /\ out.on
        /\ pc' = "policy"
        /\ conf' = [conf EXCEPT !.out = out.gen]
        /\ UNCHANGED <<want, drain, seen, why, orphans>>
  /\ UNCHANGED <<dbVars, agentDraining, box, spent>>

\* The slate policy completes the configuration.  Without a row one is made,
\* unless the node drains.
EnsureAllocation ==
  /\ pc = "policy"
  /\ LET hash == [conf EXCEPT !.slate = slate]
     IN \/ /\ alloc = None /\ drain
           /\ EndReconcile
           /\ UNCHANGED <<alloc, allocs>>
        \/ /\ alloc # None \/ ~drain
           /\ IF alloc # None THEN UNCHANGED <<alloc, allocs>>
              ELSE /\ allocs' = allocs + 1
                   /\ alloc' = [id |-> allocs + 1, state |-> "PENDING", gen |-> 1,
                                hash |-> hash, restarts |-> 0,
                                healthy |-> FALSE, backoff |-> FALSE]
           /\ conf' = hash
           /\ pc' = "inspect"
           /\ drain' = FALSE
           /\ UNCHANGED <<want, seen, why, orphans>>
  /\ UNCHANGED <<session, ownerVars, agentDraining, box, spent>>

-----------------------------------------------------------------------------
(* GET /v1/workers/{id}, and what reconcile decides on the answer.  Between  *)
(* the two the worker, the owner and time go on.                             *)

Cur == box[alloc.id]
SameGeneration == Cur # None /\ Cur.gen = alloc.gen

\* status tells whether the worker's status endpoint answered.
Told(status) ==
  CASE Cur = None -> "missing"
    [] Cur # None /\ (Cur.stage = "exited" \/ ~SameGeneration) -> "unfit"
    [] OTHER -> IF status THEN "fit" ELSE "quiet"

\* A ready worker may be silent for once.
Inspect ==
  /\ pc = "inspect"
  /\ ~Unreadable(Cur)
  /\ LET answers == Cur # None /\ Cur.ready
     IN \/ seen' = Told(answers) /\ UNCHANGED spent
        \/ answers /\ seen' = Told(FALSE) /\ Spend("worker", WorkerFaults)
  /\ pc' = "decide"
  /\ UNCHANGED <<dbVars, want, drain, conf, why, orphans, agentDraining, box>>

InspectFails ==
  /\ pc = "inspect"
  /\ IF Unreadable(Cur) THEN UNCHANGED spent ELSE ControlFault
  /\ EndReconcile
  /\ UNCHANGED <<dbVars, agentDraining, box>>

ConfigChanged == alloc.hash # conf

\* observe: the worker is as it should be.  After a minute of it the restart
\* counter starts afresh.  The phase is not touched once a stop is requested.
Observe ==
  /\ pc = "decide" /\ seen = "fit" /\ ~ConfigChanged
  /\ \E restarts \in {0, alloc.restarts} :
       alloc' = [alloc EXCEPT !.state = "RUNNING", !.healthy = TRUE, !.restarts = restarts]
  /\ \E phase \in {"STARTING", "LIVE"} :
       session' = IF session.desired = "RUNNING" THEN [session EXCEPT !.phase = phase]
                  ELSE session
  /\ EndReconcile
  /\ UNCHANGED <<ownerVars, allocs, agentDraining, box, spent>>


\* A worker found fit takes a new configuration in place.
UpdateInPlace ==
  /\ pc = "decide" /\ seen = "fit" /\ ConfigChanged
  /\ pc' = "outputs"
  /\ seen' = "missing"
  /\ UNCHANGED <<dbVars, want, drain, conf, why, orphans, agentDraining, box, spent>>

\* Mutant of Unfit: a changed configuration always costs a restart.
UnfitWhenChanged == seen # "fit" \/ ConfigChanged

\* Neither applies: the worker was missing, exited, silent or of another generation.
Unfit == seen # "fit"

\* A worker that may still be starting up, or only lost its voice for a moment.
MayRecover == seen = "quiet" /\ ~ConfigChanged

\* Too early to act: retry_after, or 30 s (60 s for a first start) of grace.
Wait ==
  /\ pc = "decide" /\ Unfit
  /\ alloc.backoff \/ MayRecover
  /\ EndReconcile
  /\ UNCHANGED <<dbVars, agentDraining, box, spent>>

Exhausted == alloc.restarts >= RestartLimit /\ ~ConfigChanged

GiveUp ==
  /\ pc = "decide" /\ Unfit
  /\ ~alloc.backoff
  /\ Exhausted
  /\ pc' = "stop" /\ why' = "exhausted"
  /\ conf' = Nothing /\ seen' = "missing"
  /\ UNCHANGED <<dbVars, want, drain, orphans, agentDraining, box, spent>>

\* Identity and backoff are committed before the worker is started.
CommitStart ==
  /\ pc = "decide" /\ Unfit
  /\ ~alloc.backoff
  /\ ~Exhausted
  /\ alloc' = [alloc EXCEPT !.gen = IF seen # "missing" \/ ConfigChanged THEN @ + 1 ELSE @,
                            !.hash = conf, !.state = "STARTING", !.restarts = @ + 1,
                            !.backoff = TRUE, !.healthy = FALSE]
  /\ pc' = "starting"
  /\ seen' = "missing"
  /\ UNCHANGED <<session, ownerVars, allocs, want, drain, conf, why, orphans, agentDraining,
                 box, spent>>

\* Whatever was requested meanwhile, the phase becomes STARTING.
SetStarting ==
  /\ pc = "starting"
  /\ session' = [session EXCEPT !.phase = "STARTING"]
  /\ pc' = "start"
  /\ UNCHANGED <<ownerVars, alloc, allocs, want, drain, conf, seen, why, orphans,
                 agentDraining, box, spent>>

-----------------------------------------------------------------------------
(* Calls that change the worker *)

\* Runtime.Start adopts the generation that already runs, or launches it.
Launched == IF Running(Cur) /\ SameGeneration THEN Cur
            ELSE [gen |-> alloc.gen, stage |-> "active", ready |-> FALSE,
                  out |-> conf.out, slate |-> conf.slate]

\* POST /v1/workers.  A failing start may have removed the old container, or
\* only stopped it; a lost answer changes nothing of what was done.
StartWorker ==
  /\ pc = "start"
  /\ IF agentDraining /\ ~Running(Cur) THEN UNCHANGED <<box, spent>>
     ELSE \/ box' = [box EXCEPT ![alloc.id] = Launched] /\ UNCHANGED spent
          \/ /\ ControlFault
             /\ \/ box' \in {box, [box EXCEPT ![alloc.id] = None],
                             [box EXCEPT ![alloc.id] = Launched]}
                \/ /\ Running(Cur)
                   /\ box' = [box EXCEPT ![alloc.id].stage = "exited",
                                         ![alloc.id].ready = FALSE]
  /\ EndReconcile
  /\ UNCHANGED <<dbVars, agentDraining>>

\* The request is cancelled, or the agent dies, after docker run and before
\* the files are received: the cleanup is cancelled with it.
StartCut ==
  /\ pc = "start"
  /\ ~(agentDraining /\ ~Running(Cur))
  /\ Spend("handoff", CutHandoffs)
  /\ box' = [box EXCEPT ![alloc.id] = [gen |-> alloc.gen, stage |-> "created", ready |-> FALSE,
                                       out |-> 0, slate |-> FALSE]]
  /\ EndReconcile
  /\ UNCHANGED <<dbVars, agentDraining>>

\* PUT .../destinations: the running pipeline reconciles its branches.
PutOutputs ==
  /\ pc = "outputs"
  /\ \/ /\ Running(Cur)
        /\ box' = [box EXCEPT ![alloc.id].out = conf.out]
        /\ pc' = "slate"
        /\ UNCHANGED <<want, drain, conf, seen, why, orphans, spent>>
     \/ /\ Running(Cur) /\ ControlFault
        /\ box' \in {box, [box EXCEPT ![alloc.id].out = conf.out]}
        /\ EndReconcile
     \/ /\ ~Running(Cur)
        /\ EndReconcile
        /\ UNCHANGED <<box, spent>>
  /\ UNCHANGED <<dbVars, agentDraining>>

\* PUT .../slate
PutSlate ==
  /\ pc = "slate"
  /\ \/ /\ Running(Cur)
        /\ box' = [box EXCEPT ![alloc.id].slate = conf.slate]
        /\ pc' = "record"
        /\ UNCHANGED <<want, drain, conf, seen, why, orphans, spent>>
     \/ /\ Running(Cur) /\ ControlFault
        /\ box' \in {box, [box EXCEPT ![alloc.id].slate = conf.slate]}
        /\ EndReconcile
     \/ /\ ~Running(Cur)
        /\ EndReconcile
        /\ UNCHANGED <<box, spent>>
  /\ UNCHANGED <<dbVars, agentDraining>>

\* Only now the new configuration counts as applied.
RecordHash ==
  /\ pc = "record"
  /\ alloc' = [alloc EXCEPT !.hash = conf]
  /\ EndReconcile
  /\ UNCHANGED <<session, ownerVars, allocs, agentDraining, box, spent>>

\* What a failing docker stop or docker rm leaves.
HalfStopped(i) == IF Running(box[i])
                  THEN {box, [box EXCEPT ![i] = None],
                        [box EXCEPT ![i].stage = "exited", ![i].ready = FALSE]}
                  ELSE {box, [box EXCEPT ![i] = None]}

\* Mutant of StopWorker: the error of the agent is ignored.
StopWorkerUnchecked ==
  /\ pc = "stop"
  /\ \/ box' = [box EXCEPT ![alloc.id] = None] /\ UNCHANGED spent
     \/ ControlFault /\ box' \in HalfStopped(alloc.id)
  /\ pc' = "close"
  /\ UNCHANGED <<dbVars, want, drain, conf, seen, why, orphans, agentDraining>>

\* DELETE /v1/workers/{id}
StopWorker ==
  /\ pc = "stop"
  /\ \/ /\ box' = [box EXCEPT ![alloc.id] = None]
        /\ pc' = "close"
        /\ UNCHANGED <<want, drain, conf, seen, why, orphans, spent>>
     \/ /\ ControlFault
        /\ box' \in HalfStopped(alloc.id)
        /\ EndReconcile
  /\ UNCHANGED <<dbVars, agentDraining>>

\* The transaction that follows the removal.
CloseAllocation ==
  /\ pc = "close"
  /\ alloc' = None
  /\ session' = CASE why = "ended"     -> [session EXCEPT !.phase = "ENDED"]
                  [] why = "exhausted" -> [phase |-> "FAILED", desired |-> "STOPPED"]
                  [] why = "no output" -> IF session.desired = "RUNNING"
                                          THEN [session EXCEPT !.phase = "SCHEDULING"]
                                          ELSE session
  /\ EndReconcile
  /\ UNCHANGED <<ownerVars, allocs, agentDraining, box, spent>>

-----------------------------------------------------------------------------
(* Orphans *)

ListWorkers ==
  /\ pc = "listing"
  /\ \/ /\ Listable
        /\ orphans' = {i \in AllocId : box[i] # None}
        /\ pc' = "sweep"
        /\ UNCHANGED <<want, drain, conf, seen, why>>
     \/ ~Listable /\ EndPass
  /\ UNCHANGED <<dbVars, agentDraining, box, spent>>

Belongs(i) == /\ alloc # None /\ alloc.id = i
              /\ session.desired = "RUNNING"
              /\ session.phase \notin Terminal

\* The next listed container is kept or removed; an error ends the pass.
Sweep ==
  /\ pc = "sweep" /\ orphans # {}
  /\ \E i \in orphans :
       \/ /\ orphans' = orphans \ {i}
          /\ box' = IF Belongs(i) THEN box ELSE [box EXCEPT ![i] = None]
          /\ UNCHANGED <<pc, want, drain, conf, seen, why, spent>>
       \/ /\ ~Belongs(i)
          /\ ControlFault
          /\ box' \in HalfStopped(i)
          /\ EndPass
  /\ UNCHANGED <<dbVars, agentDraining>>

PassDone ==
  /\ pc = "sweep" /\ orphans = {}
  /\ EndPass
  /\ UNCHANGED <<dbVars, agentDraining, box, spent>>

\* The API process dies or the pass runs out of time, between any two steps.
PassAborts ==
  /\ pc # "idle"
  /\ ControlFault
  /\ EndPass
  /\ UNCHANGED <<dbVars, agentDraining, box>>

Controller ==
  \/ Heartbeat \/ Announce \/ ListSessions \/ LoadSession \/ EnsureAllocation
  \/ Inspect \/ InspectFails \/ Observe \/ UpdateInPlace \/ Wait \/ GiveUp \/ CommitStart
  \/ SetStarting \/ StartWorker \/ PutOutputs \/ PutSlate \/ RecordHash
  \/ StopWorker \/ CloseAllocation \/ ListWorkers \/ Sweep \/ PassDone

-----------------------------------------------------------------------------
(* The rest of the world *)

\* retry_after passes: 1 s for the first start, at most 32 s.
BackoffElapses ==
  /\ alloc # None /\ alloc.backoff
  /\ alloc' = [alloc EXCEPT !.backoff = FALSE]
  /\ UNCHANGED <<session, ownerVars, allocs, passVars, agentDraining, box, spent>>

\* The worker has prepared its fallback and serves its status.
WorkerReady(i) ==
  /\ box[i] # None /\ box[i].stage = "active" /\ ~box[i].ready
  /\ box' = [box EXCEPT ![i].ready = TRUE]
  /\ UNCHANGED <<dbVars, passVars, agentDraining, spent>>

\* The process exits; its container stays (--restart no).
WorkerExit(i) ==
  /\ Running(box[i])
  /\ Spend("worker", WorkerFaults)
  /\ box' = [box EXCEPT ![i].stage = "exited", ![i].ready = FALSE]
  /\ UNCHANGED <<dbVars, passVars, agentDraining>>

\* The agent restarts: it forgets that the node drains.
AgentRestart ==
  /\ agentDraining
  /\ ControlFault
  /\ agentDraining' = FALSE
  /\ UNCHANGED <<dbVars, passVars, box>>

\* StopSession commits a stop intent.  Whether the source allows it is the
\* subject of module Ingest.
StopSession ==
  /\ session.phase \notin Terminal /\ session.desired = "RUNNING"
  /\ session' = [phase |-> "STOPPING", desired |-> "STOPPED"]
  /\ UNCHANGED <<ownerVars, alloc, allocs, passVars, agentDraining, box, spent>>

\* Enables or disables the stream.
UpdateStream ==
  /\ enabled' = ~enabled
  /\ UNCHANGED <<session, out, slate, drainNode, alloc, allocs, passVars, agentDraining, box, spent>>

\* userOutput: every edit, removal or retry makes a new generation.
ChangeOutputs ==
  /\ Spend("output", OutputChanges)
  /\ \E on \in BOOLEAN : out' = [on |-> on, gen |-> out.gen + 1]
  /\ UNCHANGED <<session, enabled, slate, drainNode, alloc, allocs, passVars, agentDraining, box>>

\* userSlate
ChangeSlate ==
  /\ Spend("slate", SlateChanges)
  /\ slate' = ~slate
  /\ UNCHANGED <<session, enabled, out, drainNode, alloc, allocs, passVars, agentDraining, box>>

\* DrainNode: there is no way back.
DrainNode ==
  /\ Drains /\ ~drainNode
  /\ drainNode' = TRUE
  /\ UNCHANGED <<session, enabled, out, slate, alloc, allocs, passVars, agentDraining, box, spent>>

World ==
  \/ BackoffElapses
  \/ \E i \in AllocId : WorkerReady(i) \/ WorkerExit(i)
  \/ AgentRestart \/ StopSession \/ UpdateStream \/ ChangeOutputs \/ ChangeSlate \/ DrainNode

Next == Controller \/ StartCut \/ PassAborts \/ World

\* The controller ticks for ever, time passes, and a worker that runs gets
\* ready.  Nothing is assumed of the owner or of faults.
Fairness == /\ WF_vars(Controller)
            /\ WF_vars(BackoffElapses)
            /\ \A i \in AllocId : WF_vars(WorkerReady(i))

Spec == Init /\ [][Next]_vars /\ Fairness

-----------------------------------------------------------------------------
(* Properties *)

\* When a session is over no container of it is left, whatever was lost,
\* changed or crashed while it was being started, updated or removed (and every
\* variable has its type).
OverMeansGone == /\ TypeOK
                 /\ session.phase \in Terminal => \A i \in AllocId : box[i] = None

\* Containers of closed allocations do not exist, so the orphan sweep never
\* finds anything but the worker of a session that is meanwhile to stop.
NoOrphans == \A i \in AllocId : box[i] # None => alloc # None /\ alloc.id = i

Serving == alloc # None /\ Cur # None /\ Cur.ready /\ SameGeneration

\* No start was cut short and no worker has failed or been silent so far.
Sound == spent.worker = 0 /\ spent.handoff = 0

\* The running pass looked at the worker before it got ready, and has not
\* acted on that yet.
Overtaken == pc = "decide" /\ seen = "quiet"

\* As long as workers are sound, one that serves is neither replaced nor
\* removed, nor is its removal or replacement decided, while its session is
\* to run and has an output: lost answers, restarts of the API or the agent,
\* draining and changes of the configuration do not interrupt it.  The one
\* exception is a worker that gets ready between the inspection of a pass and
\* its decision: it may still be replaced or given up as not ready.  (A removal
\* decided earlier, for a worker given up or for outputs that were off, is
\* carried out all the same.)
NoInterruption ==
  [][/\ Sound' /\ Serving /\ ~Overtaken
     /\ session.desired = "RUNNING" /\ out.on /\ why = "ended"
     => /\ alloc' # None /\ alloc'.gen = alloc.gen
        /\ Cur' # None /\ Cur'.gen = Cur.gen
        /\ why' = "ended"]_vars

\* A session that is to stop ends: its worker is removed and recorded so.
StopCompletes == session.desired = "STOPPED" ~> session.phase \in Terminal

\* The session is over, or has no worker and needs none.
Settled == \/ session.phase \in Terminal
           \/ alloc = None /\ (drainNode \/ ~out.on) /\ (\A i \in AllocId : box[i] = None)

Updated == alloc # None /\ out.on /\ Cur # None /\ Cur.ready

==============================================================================
