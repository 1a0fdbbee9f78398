--------------------------- MODULE ReconcileProofs ---------------------------
(***************************************************************************)
(* The safety properties of module Reconcile, for every restart limit and  *)
(* any number of faults and of changes by the owner.                       *)
(*                                                                         *)
(* The argument is about what the controller may rely on between two of    *)
(* its steps: that the row it works on is still open, that the containers  *)
(* are gone when it closes the row, that a session that has ended is not   *)
(* worked on, and that a worker about to be started is not one that        *)
(* serves.  The bound on the allocations is part of it: a second one is    *)
(* only made when the outputs went away and came back in between.          *)
(***************************************************************************)
EXTENDS Reconcile, TLAPS

\* Where the controller is when it has no session in hand.
Quiet == {"idle", "announce", "list", "listing", "sweep"}

\* Where it works on a row that it will not replace.
Working == {"inspect", "decide", "outputs", "slate", "record"}

\* A session that has ended has no open row, and is not in the controller's hands.
EndedInv == session.phase \in Terminal => alloc = None /\ pc \in Quiet

\* The row the controller works on is open.
RowInv == pc \in Working \cup {"starting", "start", "stop"} => alloc # None

\* A row is closed when no container is left.
CloseInv == pc = "close" => \A i \in AllocId : box[i] = None

\* The container is of the row's generation or an earlier one; one that answers runs.
BoxInv == \A i \in AllocId :
            box[i] # None => /\ alloc # None => box[i].gen <= alloc.gen
                             /\ box[i].ready => box[i].stage = "active"

\* A worker that is about to be started does not exist in that generation.
StartInv == pc \in {"starting", "start"} /\ Cur # None => Cur.gen < alloc.gen

\* What the inspection told of a worker that is missing or unfit still holds when it
\* is acted on: only a running worker changes by itself, and it does not come back.
SeenInv == pc = "decide" =>
             /\ seen = "missing" => Cur = None
             /\ seen = "unfit" /\ Cur # None => Cur.stage = "exited" \/ Cur.gen # alloc.gen

\* A stop the pass has seen, or acts on, is a stop the owner has asked for.
WantInv == /\ want = "STOPPED" => session.desired = "STOPPED"
           /\ pc \in {"stop", "close"} /\ why = "ended" => session.desired = "STOPPED"

\* Every allocation but the first was paid for by a change of the outputs.
BoundInv ==
  /\ allocs <= spent.output + 1
  /\ alloc = None /\ session.phase \notin Terminal => allocs <= spent.output
  /\ alloc = None /\ pc = "policy" /\ ~out.on => allocs + 1 <= spent.output
  /\ alloc # None /\ ~out.on => allocs <= spent.output
  /\ pc \in {"stop", "close"} /\ why = "no output" => allocs <= spent.output

Inv == /\ TypeOK /\ NoOrphans /\ EndedInv /\ RowInv /\ CloseInv
       /\ BoxInv /\ StartInv /\ SeenInv /\ WantInv /\ BoundInv

-----------------------------------------------------------------------------
(* Facts about the parameters, the rows and the containers *)

LEMMA BudgetFacts ==
  /\ RestartLimit \in Nat /\ ControlFaults \in Nat /\ WorkerFaults \in Nat
  /\ CutHandoffs \in Nat /\ OutputChanges \in Nat /\ SlateChanges \in Nat
  /\ \A i \in AllocId : i \in Nat
  BY ReconcileAssumption DEF AllocId

\* An open row is a row, and an existing container a container.
LEMMA TypeFacts ==
  ASSUME TypeOK
  PROVE  /\ alloc # None => alloc \in Row /\ alloc.id \in AllocId /\ alloc.gen \in Nat
         /\ \A i \in AllocId : box[i] # None => box[i] \in Container /\ box[i].gen \in Nat
         /\ allocs \in Nat /\ spent.output \in Nat /\ spent.output <= OutputChanges
         /\ spent.worker \in Nat /\ spent.handoff \in Nat
<1>1. alloc # None => alloc \in Row /\ alloc.id \in AllocId /\ alloc.gen \in Nat
  BY DEF TypeOK, Row
<1>2. \A i \in AllocId : box[i] # None => box[i] \in Container /\ box[i].gen \in Nat
  BY DEF TypeOK, Container
<1>3. allocs \in Nat
  <2>1. allocs \in 0 .. (OutputChanges + 1)
    BY Zenon DEF TypeOK
  <2> QED
    BY <2>1, BudgetFacts
<1>4. /\ spent.output \in Nat /\ spent.output <= OutputChanges
      /\ spent.worker \in Nat /\ spent.handoff \in Nat
  <2>1. spent \in Budget
    BY Zenon DEF TypeOK
  <2> QED
    BY <2>1, BudgetFacts DEF Budget
<1> QED
  BY <1>1, <1>2, <1>3, <1>4

\* Faults of the controller's calls and of workers leave the other budgets.
LEMMA FaultFacts ==
  ASSUME TypeOK, \/ UNCHANGED spent
                 \/ Spend("control", ControlFaults)
                 \/ Spend("worker", WorkerFaults)
                 \/ Spend("handoff", CutHandoffs)
                 \/ Spend("slate", SlateChanges)
  PROVE  spent' \in Budget /\ spent'.output = spent.output
<1>0. spent \in Budget
  BY Zenon DEF TypeOK
<1>1. CASE UNCHANGED spent
  BY <1>0, <1>1
<1>2. CASE Spend("control", ControlFaults)
  BY <1>0, <1>2, BudgetFacts DEF Spend, Budget
<1>3. CASE Spend("worker", WorkerFaults)
  BY <1>0, <1>3, BudgetFacts DEF Spend, Budget
<1>4. CASE Spend("handoff", CutHandoffs)
  BY <1>0, <1>4, BudgetFacts DEF Spend, Budget
<1>5. CASE Spend("slate", SlateChanges)
  BY <1>0, <1>5, BudgetFacts DEF Spend, Budget
<1> QED
  BY <1>1, <1>2, <1>3, <1>4, <1>5

\* What a pass knows, when it ends or leaves the session.
LEMMA EndFacts ==
  ASSUME TypeOK, EndPass \/ EndReconcile
  PROVE  /\ pc' \in {"idle", "listing"} /\ pc' \in Quiet /\ want' = "RUNNING" /\ why' = "ended" /\ seen' = "missing"
         /\ drain' = FALSE /\ conf' \in Hash /\ orphans' \in SUBSET AllocId
<1>1. Nothing \in Hash
  BY DEF Nothing, Hash
<1>2. orphans \in SUBSET AllocId
  BY Zenon DEF TypeOK
<1> QED
  BY <1>1, <1>2 DEF EndPass, EndReconcile, Quiet

\* Changes of one container.
LEMMA BoxFacts ==
  ASSUME TypeOK, NEW i \in AllocId, NEW c \in {None} \cup Container
  PROVE  /\ [box EXCEPT ![i] = c] \in [AllocId -> {None} \cup Container]
         /\ \A j \in AllocId : [box EXCEPT ![i] = c][j] = IF j = i THEN c ELSE box[j]
  BY DEF TypeOK

\* The worker process has exited.
LEMMA ExitFacts ==
  ASSUME TypeOK, NEW i \in AllocId, box[i] # None,
         box' = [box EXCEPT ![i].stage = "exited", ![i].ready = FALSE]
  PROVE  /\ box' \in [AllocId -> {None} \cup Container]
         /\ \A j \in AllocId \ {i} : box'[j] = box[j]
         /\ box'[i] # None /\ box'[i].gen = box[i].gen /\ ~ box'[i].ready
         /\ box'[i].stage = "exited"
<1>1. box[i] \in Container
  BY TypeFacts
<1> DEFINE c == [box[i] EXCEPT !.stage = "exited", !.ready = FALSE]
<1>2. c \in Container /\ c.gen = box[i].gen /\ c.ready = FALSE /\ c.stage = "exited"
  BY <1>1 DEF Container, Stage
<1>3. box' = [box EXCEPT ![i] = c]
  BY DEF TypeOK
<1>4. c # None
  BY <1>2, ReconcileAssumption
<1> HIDE DEF c
<1>5. /\ [box EXCEPT ![i] = c] \in [AllocId -> {None} \cup Container]
      /\ \A j \in AllocId : [box EXCEPT ![i] = c][j] = IF j = i THEN c ELSE box[j]
  BY <1>2, BoxFacts
<1> QED
  BY <1>2, <1>3, <1>4, <1>5

-----------------------------------------------------------------------------
(* The steps that leave the row, its generation and the outputs alone, and at *)
(* most take something away from the containers.                              *)

PassMoves ==
  \/ pc' \in Quiet
  \/ pc' = pc /\ why' = why /\ seen' = seen
  \/ pc \in Working /\ pc' \in Working \ {"decide"}
  \/ pc = "starting" /\ pc' = "start"
  \/ pc' = "reconcile" /\ session.phase \notin Terminal

RowKept == \/ alloc' = alloc
           \/ alloc # None /\ alloc' \in Row /\ alloc'.id = alloc.id /\ alloc'.gen = alloc.gen

BoxesKept == \A i \in AllocId :
               box'[i] # None => /\ box[i] # None /\ box'[i].gen = box[i].gen
                                 /\ box'[i].ready => box'[i].stage = "active"
                                 /\ box[i].stage = "exited" => box'[i].stage = "exited"

SessionKept == /\ session'.phase \in Terminal <=> session.phase \in Terminal
               /\ session.desired = "STOPPED" => session'.desired = "STOPPED"
               /\ want' = "STOPPED" => want = "STOPPED" \/ session'.desired = "STOPPED"

\* Such a step keeps the invariant.
LEMMA Ordinary ==
  ASSUME Inv, TypeOK', PassMoves, RowKept, BoxesKept, SessionKept,
         UNCHANGED <<allocs, out>>, spent'.output = spent.output
  PROVE  Inv'
<1>0. /\ alloc' = None <=> alloc = None
      /\ alloc # None => alloc'.id = alloc.id /\ alloc'.gen = alloc.gen
  BY ReconcileAssumption DEF RowKept
<1>1. NoOrphans'
  BY <1>0 DEF Inv, NoOrphans, BoxesKept
<1>2. EndedInv'
  BY <1>0 DEF Inv, EndedInv, SessionKept, PassMoves, Quiet, Working
<1>3. RowInv'
  BY <1>0 DEF Inv, RowInv, PassMoves, Quiet, Working
<1>4. CloseInv'
  BY DEF Inv, CloseInv, PassMoves, Quiet, Working, BoxesKept
<1>5. BoxInv'
  BY <1>0 DEF Inv, BoxInv, BoxesKept
<1>6. StartInv'
  <2> SUFFICES ASSUME pc' \in {"starting", "start"}, Cur' # None
               PROVE  Cur'.gen < alloc'.gen
    BY DEF StartInv
  <2>1. pc \in {"starting", "start"} /\ alloc # None
    BY DEF PassMoves, Quiet, Working, Inv, RowInv
  <2>2. box[alloc.id] # None /\ box'[alloc.id].gen = box[alloc.id].gen
    BY <1>0, <2>1, TypeFacts DEF Inv, Cur, BoxesKept
  <2>3. Cur.gen < alloc.gen
    BY <2>1, <2>2 DEF Inv, StartInv, Cur
  <2> QED
    BY <1>0, <2>1, <2>2, <2>3 DEF Cur
<1>6a. SeenInv'
  <2> SUFFICES ASSUME pc' = "decide"
               PROVE  /\ seen' = "missing" => Cur' = None
                      /\ seen' = "unfit" /\ Cur' # None => Cur'.stage = "exited" \/ Cur'.gen # alloc'.gen
    BY DEF SeenInv
  <2>1. pc = "decide" /\ seen' = seen /\ alloc # None
    BY DEF PassMoves, Quiet, Working, Inv, RowInv
  <2>2. alloc.id \in AllocId /\ Cur' = box'[alloc.id]
    BY <1>0, <2>1, TypeFacts DEF Inv, Cur
  <2>3. Cur' # None => /\ box[alloc.id] # None /\ Cur'.gen = box[alloc.id].gen
                       /\ box[alloc.id].stage = "exited" => Cur'.stage = "exited"
    BY <2>2 DEF BoxesKept
  <2> QED
    BY <1>0, <2>1, <2>2, <2>3 DEF Inv, SeenInv, Cur
<1>7. WantInv'
  BY DEF Inv, WantInv, SessionKept, PassMoves, Quiet, Working
<1>8. BoundInv'
  BY <1>0 DEF Inv, BoundInv, SessionKept, PassMoves, Quiet, Working
<1> QED
  BY <1>1, <1>2, <1>3, <1>4, <1>5, <1>6, <1>6a, <1>7, <1>8 DEF Inv

\* The case of a step of the pass, of a worker or of the owner that leaves the rows.
LEMMA OrdinaryPass ==
  ASSUME Inv, UNCHANGED dbVars, PassMoves, BoxesKept, box' \in [AllocId -> {None} \cup Container],
         want' \in {want, "RUNNING"}, drain' \in BOOLEAN, conf' \in Hash, orphans' \in SUBSET AllocId,
         pc' \in Quiet \cup Working \cup {pc}, why' \in {why, "ended"}, seen' \in {seen, "missing"},
         agentDraining' \in BOOLEAN, spent' \in Budget, spent'.output = spent.output
  PROVE  Inv'
<1>1. TypeOK'
  <2>1. /\ pc' \in {"idle", "announce", "list", "reconcile", "policy", "inspect", "decide",
                    "outputs", "slate", "record", "starting", "start", "stop", "close", "listing", "sweep"}
        /\ want' \in {"RUNNING", "STOPPED"} /\ why' \in {"ended", "no output", "exhausted"}
        /\ seen' \in Verdict
    BY DEF Inv, TypeOK, Quiet, Working, Verdict
  <2> QED
    BY <2>1, Zenon DEF Inv, TypeOK, dbVars
<1>2. RowKept /\ SessionKept /\ UNCHANGED <<allocs, out>>
  BY DEF RowKept, SessionKept, dbVars
<1> QED
  BY <1>1, <1>2, Ordinary

\* The case in which the pass ends, or leaves the session.
LEMMA EndingPass ==
  ASSUME Inv, UNCHANGED dbVars, EndPass \/ EndReconcile,
         BoxesKept, box' \in [AllocId -> {None} \cup Container],
         agentDraining' \in BOOLEAN, spent' \in Budget, spent'.output = spent.output
  PROVE  Inv'
<1>1. /\ pc' \in Quiet /\ want' = "RUNNING" /\ why' = "ended" /\ seen' = "missing"
      /\ drain' = FALSE /\ conf' \in Hash /\ orphans' \in SUBSET AllocId
  BY EndFacts DEF Inv
<1>2. PassMoves
  BY <1>1 DEF PassMoves
<1> QED
  BY <1>1, <1>2, OrdinaryPass

\* Containers that stay, or of which one is gone or has exited.
LEMMA BoxesStay ==
  ASSUME Inv, box' = box
  PROVE  BoxesKept /\ box' \in [AllocId -> {None} \cup Container]
  BY DEF Inv, TypeOK, BoxInv, BoxesKept

LEMMA BoxRemoved ==
  ASSUME Inv, NEW i \in AllocId, box' = [box EXCEPT ![i] = None]
  PROVE  BoxesKept /\ box' \in [AllocId -> {None} \cup Container]
<1>1. /\ box' \in [AllocId -> {None} \cup Container]
      /\ \A j \in AllocId : box'[j] = IF j = i THEN None ELSE box[j]
  BY BoxFacts DEF Inv
<1> QED
  BY <1>1 DEF Inv, BoxInv, BoxesKept

LEMMA BoxExited ==
  ASSUME Inv, NEW i \in AllocId, box[i] # None,
         box' = [box EXCEPT ![i].stage = "exited", ![i].ready = FALSE]
  PROVE  BoxesKept /\ box' \in [AllocId -> {None} \cup Container]
<1>1. /\ box' \in [AllocId -> {None} \cup Container]
      /\ \A j \in AllocId \ {i} : box'[j] = box[j]
      /\ box'[i] # None /\ box'[i].gen = box[i].gen /\ ~ box'[i].ready
      /\ box'[i].stage = "exited"
  BY ExitFacts DEF Inv
<1> QED
  BY <1>1 DEF Inv, BoxInv, BoxesKept

LEMMA BoxHalfStopped ==
  ASSUME Inv, NEW i \in AllocId, box' \in HalfStopped(i)
  PROVE  BoxesKept /\ box' \in [AllocId -> {None} \cup Container]
<1>1. CASE box' = box
  BY <1>1, BoxesStay
<1>2. CASE box' = [box EXCEPT ![i] = None]
  BY <1>2, BoxRemoved
<1>3. CASE box[i] # None /\ box' = [box EXCEPT ![i].stage = "exited", ![i].ready = FALSE]
  BY <1>3, BoxExited
<1> QED
  BY <1>1, <1>2, <1>3 DEF HalfStopped, Running

-----------------------------------------------------------------------------
(* One lemma per action, or per group of actions of one kind *)

LEMMA InitHolds == Init => Inv
<1> SUFFICES ASSUME Init PROVE Inv
  OBVIOUS
<1>1. \A i \in AllocId : box[i] = None
  BY DEF Init
<1>2. /\ session \in [phase : Phase, desired : {"RUNNING", "STOPPED"}]
      /\ out \in [on : BOOLEAN, gen : Nat] /\ conf \in Hash
      /\ box \in [AllocId -> {None} \cup Container]
  BY DEF Init, Phase, Nothing, Hash
<1>3. spent \in Budget /\ spent.output = 0 /\ allocs \in 0 .. (OutputChanges + 1)
  BY BudgetFacts DEF Init, Budget
<1>4. TypeOK
  BY <1>2, <1>3 DEF Init, TypeOK, Verdict
<1>5. NoOrphans /\ EndedInv /\ RowInv /\ CloseInv /\ BoxInv /\ StartInv /\ SeenInv /\ WantInv /\ BoundInv
  BY <1>1, <1>3 DEF Init, NoOrphans, EndedInv, Terminal, RowInv, Working, CloseInv, BoxInv, StartInv,
                    SeenInv, WantInv, BoundInv
<1> QED
  BY <1>4, <1>5 DEF Inv

\* Steps that only move the pass, or end it.
LEMMA PassKeeps ==
  ASSUME Inv, \/ Heartbeat \/ Announce \/ InspectFails \/ ListWorkers \/ PassDone \/ PassAborts
              \/ UpdateInPlace \/ Wait
  PROVE  Inv'
<1>0. /\ box' = box /\ UNCHANGED dbVars
      /\ agentDraining \in BOOLEAN /\ drainNode \in BOOLEAN /\ drain \in BOOLEAN /\ conf \in Hash
      /\ orphans \in SUBSET AllocId /\ TypeOK /\ spent \in Budget
  BY Zenon DEF Heartbeat, Announce, InspectFails, ListWorkers, PassDone, PassAborts,
         UpdateInPlace, Wait, Inv, TypeOK
<1>1. BoxesKept /\ box' \in [AllocId -> {None} \cup Container]
  BY <1>0, BoxesStay
<1>2. spent' \in Budget /\ spent'.output = spent.output
  <2>1. UNCHANGED spent \/ ControlFault \/ Spend("worker", WorkerFaults)
    BY DEF Heartbeat, Announce, InspectFails, ListWorkers, PassDone, PassAborts,
           UpdateInPlace, Wait
  <2> QED
    BY <1>0, <2>1, FaultFacts DEF ControlFault
<1>3. agentDraining' \in BOOLEAN
  BY <1>0 DEF Heartbeat, Announce, InspectFails, ListWorkers, PassDone, PassAborts,
         UpdateInPlace, Wait
<1>4. \/ EndPass \/ EndReconcile
      \/ /\ PassMoves /\ pc' \in Quiet \cup Working
         /\ want' = want /\ why' = why /\ seen' \in {seen, "missing"}
         /\ drain' \in BOOLEAN /\ conf' \in Hash
         /\ orphans' \in SUBSET AllocId
  BY <1>0 DEF Heartbeat, Announce, InspectFails, ListWorkers, PassDone, PassAborts,
         UpdateInPlace, Wait, PassMoves, Quiet, Working
<1> QED
  BY <1>0, <1>1, <1>2, <1>3, <1>4, EndingPass, OrdinaryPass

\* Steps of the agent and the workers, and of the sweep.
LEMMA SweepKeeps ==
  ASSUME Inv, Sweep
  PROVE  Inv'
<1>0. /\ UNCHANGED dbVars /\ agentDraining' = agentDraining /\ agentDraining \in BOOLEAN
      /\ drain \in BOOLEAN /\ conf \in Hash /\ orphans \in SUBSET AllocId /\ TypeOK /\ spent \in Budget
  BY Zenon DEF Sweep, Inv, TypeOK
<1>1. PICK i \in orphans :
        \/ /\ orphans' = orphans \ {i}
           /\ box' = IF Belongs(i) THEN box ELSE [box EXCEPT ![i] = None]
           /\ UNCHANGED <<pc, want, drain, conf, seen, why, spent>>
        \/ /\ ControlFault
           /\ box' \in HalfStopped(i)
           /\ EndPass
  BY DEF Sweep
<1>2. i \in AllocId
  BY <1>0
<1>3. CASE /\ orphans' = orphans \ {i}
           /\ box' = IF Belongs(i) THEN box ELSE [box EXCEPT ![i] = None]
           /\ UNCHANGED <<pc, want, drain, conf, seen, why, spent>>
  <2>1. BoxesKept /\ box' \in [AllocId -> {None} \cup Container]
    BY <1>2, <1>3, BoxesStay, BoxRemoved
  <2> QED
    BY <1>0, <1>3, <2>1, OrdinaryPass DEF PassMoves
<1>4. CASE ControlFault /\ box' \in HalfStopped(i) /\ EndPass
  <2>1. BoxesKept /\ box' \in [AllocId -> {None} \cup Container]
    BY <1>2, <1>4, BoxHalfStopped
  <2>2. spent' \in Budget /\ spent'.output = spent.output
    BY <1>0, <1>4, FaultFacts DEF ControlFault
  <2> QED
    BY <1>0, <1>4, <2>1, <2>2, EndingPass
<1> QED
  BY <1>1, <1>3, <1>4

LEMMA WorkerKeeps ==
  ASSUME Inv, NEW i \in AllocId, WorkerReady(i) \/ WorkerExit(i)
  PROVE  Inv'
<1>0. /\ UNCHANGED dbVars /\ agentDraining' = agentDraining /\ agentDraining \in BOOLEAN
      /\ drain \in BOOLEAN /\ conf \in Hash /\ orphans \in SUBSET AllocId /\ TypeOK /\ spent \in Budget
      /\ UNCHANGED <<pc, want, drain, conf, seen, why, orphans>>
  BY Zenon DEF WorkerReady, WorkerExit, passVars, Inv, TypeOK
<1>1. spent' \in Budget /\ spent'.output = spent.output
  BY <1>0, FaultFacts DEF WorkerReady, WorkerExit
<1>2. BoxesKept /\ box' \in [AllocId -> {None} \cup Container]
  <2>1. CASE WorkerExit(i)
    BY <2>1, BoxExited DEF WorkerExit, Running
  <2>2. CASE WorkerReady(i)
    <3> DEFINE c == [box[i] EXCEPT !.ready = TRUE]
    <3>1. box[i] # None /\ box[i].stage = "active" /\ box[i] \in Container
      BY <1>0, <2>2, TypeFacts DEF WorkerReady
    <3>2. c \in Container /\ c.gen = box[i].gen /\ c.stage = "active"
      BY <3>1 DEF Container
    <3>3. box' = [box EXCEPT ![i] = c]
      BY <2>2 DEF WorkerReady
    <3> HIDE DEF c
    <3>4. /\ [box EXCEPT ![i] = c] \in [AllocId -> {None} \cup Container]
          /\ \A j \in AllocId : [box EXCEPT ![i] = c][j] = IF j = i THEN c ELSE box[j]
      BY <1>0, <3>2, BoxFacts
    <3> QED
      BY <3>1, <3>2, <3>3, <3>4 DEF BoxesKept, Inv, BoxInv
  <2> QED
    BY <2>1, <2>2
<1> QED
  BY <1>0, <1>1, <1>2, OrdinaryPass DEF PassMoves

\* The owner's changes other than of the outputs, and the agent's restart.
LEMMA OwnerKeeps ==
  ASSUME Inv, AgentRestart \/ UpdateStream \/ ChangeSlate \/ DrainNode \/ StopSession
  PROVE  Inv'
<1>0. /\ UNCHANGED <<pc, want, drain, conf, seen, why, orphans, box, alloc, allocs, out>>
      /\ TypeOK /\ spent \in Budget
  BY Zenon DEF AgentRestart, UpdateStream, ChangeSlate, DrainNode, StopSession, passVars, dbVars,
               ownerVars, Inv, TypeOK
<1>1. spent' \in Budget /\ spent'.output = spent.output
  <2>1. UNCHANGED spent \/ Spend("control", ControlFaults) \/ Spend("slate", SlateChanges)
    BY DEF AgentRestart, UpdateStream, ChangeSlate, DrainNode, StopSession, ControlFault
  <2> QED
    BY <1>0, <2>1, FaultFacts
<1>2. BoxesKept
  BY <1>0, BoxesStay
<1>3. /\ session' \in [phase : Phase, desired : {"RUNNING", "STOPPED"}]
      /\ session'.phase \in Terminal <=> session.phase \in Terminal
      /\ session.desired = "STOPPED" => session'.desired = "STOPPED"
  <2>1. CASE session' = session
    BY <2>1 DEF Inv, TypeOK
  <2>2. CASE StopSession
    BY <2>2 DEF StopSession, Phase, Terminal
  <2> QED
    BY <2>1, <2>2 DEF AgentRestart, UpdateStream, ChangeSlate, DrainNode, dbVars
<1>4. enabled' \in BOOLEAN /\ slate' \in BOOLEAN /\ drainNode' \in BOOLEAN /\ agentDraining' \in BOOLEAN
  BY <1>0, Zenon DEF AgentRestart, UpdateStream, ChangeSlate, DrainNode, StopSession, dbVars,
               ownerVars, TypeOK
<1>5. TypeOK'
  BY <1>0, <1>1, <1>3, <1>4, Zenon DEF TypeOK
<1> QED
  BY <1>0, <1>1, <1>2, <1>3, <1>5, Ordinary DEF PassMoves, RowKept, SessionKept

\* Steps that write the row without a new identity.
LEMMA RowKeeps ==
  ASSUME Inv, \/ Observe
              \/ RecordHash
              \/ BackoffElapses
  PROVE  Inv'
<1>0. /\ UNCHANGED <<allocs, out, box, enabled, slate, drainNode, agentDraining>>
      /\ TypeOK /\ spent \in Budget /\ alloc # None /\ alloc \in Row /\ conf \in Hash
  <2>1. UNCHANGED <<allocs, out, box, enabled, slate, drainNode, agentDraining>>
    BY DEF Observe, RecordHash, BackoffElapses, ownerVars
  <2>2. alloc # None
    BY DEF Observe, RecordHash, BackoffElapses, Inv, RowInv, Working
  <2>3. TypeOK /\ spent \in Budget /\ conf \in Hash
    BY Zenon DEF Inv, TypeOK
  <2> QED
    BY <2>1, <2>2, <2>3, TypeFacts
<1>1. spent' \in Budget /\ spent'.output = spent.output
  <2>1. UNCHANGED spent \/ Spend("worker", WorkerFaults)
    BY DEF Observe, RecordHash, BackoffElapses
  <2> QED
    BY <1>0, <2>1, FaultFacts
<1>2. alloc' \in Row /\ alloc'.id = alloc.id /\ alloc'.gen = alloc.gen
  <2>1. CASE Observe
    <3>1. PICK n \in {0, alloc.restarts} :
            alloc' = [alloc EXCEPT !.state = "RUNNING", !.healthy = TRUE, !.restarts = n]
      BY <2>1 DEF Observe
    <3>2. n \in Nat
      BY <1>0 DEF Row
    <3> QED
      BY <1>0, <3>1, <3>2 DEF Row
  <2>2. CASE RecordHash
    BY <1>0, <2>2 DEF RecordHash, Row
  <2>3. CASE BackoffElapses
    BY <1>0, <2>3 DEF BackoffElapses, Row
  <2> QED
    BY <2>1, <2>2, <2>3
<1>3. /\ session' \in [phase : Phase, desired : {"RUNNING", "STOPPED"}]
      /\ session'.phase \in Terminal <=> session.phase \in Terminal
      /\ session'.desired = session.desired
  <2>0. session \in [phase : Phase, desired : {"RUNNING", "STOPPED"}]
    BY <1>0, Zenon DEF TypeOK
  <2>1. CASE session' = session
    BY <2>0, <2>1
  <2>2. CASE Observe
    <3>1. PICK ph \in {"STARTING", "LIVE"} :
            session' = IF session.desired = "RUNNING" THEN [session EXCEPT !.phase = ph] ELSE session
      BY <2>2 DEF Observe
    <3>2. session.phase \notin Terminal
      BY <1>0 DEF Inv, EndedInv
    <3> QED
      BY <2>0, <3>1, <3>2 DEF Phase, Terminal
  <2> QED
    BY <2>1, <2>2 DEF RecordHash, BackoffElapses
<1>4. /\ pc' \in Quiet \/ (pc' = pc /\ why' = why /\ seen' = seen)
      /\ seen' \in Verdict
      /\ want' \in {want, "RUNNING"} /\ drain' \in BOOLEAN /\ conf' \in Hash
      /\ orphans' \in SUBSET AllocId /\ why' \in {why, "ended"}
  <2>1. CASE EndReconcile
    BY <1>0, <2>1, EndFacts DEF Verdict
  <2>2. CASE UNCHANGED <<pc, want, drain, conf, seen, why, orphans>>
    BY <1>0, <2>2 DEF TypeOK
  <2> QED
    BY <2>1, <2>2 DEF Observe, RecordHash, BackoffElapses, passVars
<1>5. TypeOK'
  <2>1. /\ pc' \in {"idle", "announce", "list", "reconcile", "policy", "inspect", "decide",
                    "outputs", "slate", "record", "starting", "start", "stop", "close", "listing", "sweep"}
        /\ want' \in {"RUNNING", "STOPPED"} /\ why' \in {"ended", "no output", "exhausted"}
    BY <1>4 DEF Inv, TypeOK, Quiet
  <2> QED
    BY <1>0, <1>1, <1>2, <1>3, <1>4, <2>1 DEF TypeOK
<1>6. BoxesKept
  BY <1>0, BoxesStay
<1> QED
  BY <1>0, <1>1, <1>2, <1>3, <1>4, <1>5, <1>6, Ordinary DEF PassMoves, RowKept, SessionKept

LEMMA ListSessionsKeeps ==
  ASSUME Inv, ListSessions
  PROVE  Inv'
<1>0. /\ UNCHANGED <<enabled, out, slate, drainNode, alloc, allocs, conf, seen, why, orphans,
                     agentDraining, box, spent>>
      /\ TypeOK /\ session \in [phase : Phase, desired : {"RUNNING", "STOPPED"}] /\ pc = "list"
      /\ drain \in BOOLEAN
  BY Zenon DEF ListSessions, ownerVars, Inv, TypeOK
<1>1. /\ session' \in [phase : Phase, desired : {"RUNNING", "STOPPED"}]
      /\ session'.phase \in Terminal <=> session.phase \in Terminal
      /\ session.desired = "STOPPED" => session'.desired = "STOPPED"
  BY <1>0 DEF ListSessions, Open, Phase, Terminal
<1>2. /\ pc' = "listing" \/ (pc' = "reconcile" /\ session.phase \notin Terminal)
      /\ want' = "RUNNING" \/ want' = session'.desired
      /\ drain' \in BOOLEAN
  BY <1>0 DEF ListSessions, Open
<1>3. TypeOK'
  <2>1. want' \in {"RUNNING", "STOPPED"}
    BY <1>1, <1>2
  <2> QED
    BY <1>0, <1>1, <1>2, <2>1 DEF TypeOK
<1>4. PassMoves
  BY <1>2 DEF PassMoves, Quiet
<1>5. RowKept /\ SessionKept
  BY <1>0, <1>1, <1>2 DEF RowKept, SessionKept
<1>6. BoxesKept
  BY <1>0, BoxesStay
<1> QED
  BY <1>0, <1>3, <1>4, <1>5, <1>6, Ordinary

LEMMA SetStartingKeeps ==
  ASSUME Inv, SetStarting
  PROVE  Inv'
<1>0. /\ UNCHANGED <<enabled, out, slate, drainNode, alloc, allocs, want, drain, conf, seen, why, orphans,
                     agentDraining, box, spent>>
      /\ TypeOK /\ session \in [phase : Phase, desired : {"RUNNING", "STOPPED"}]
      /\ pc = "starting" /\ pc' = "start"
  BY Zenon DEF SetStarting, ownerVars, Inv, TypeOK
<1>1. /\ session' \in [phase : Phase, desired : {"RUNNING", "STOPPED"}]
      /\ session'.phase = "STARTING" /\ session'.desired = session.desired
  BY <1>0 DEF SetStarting, Phase
<1>2. session.phase \notin Terminal
  BY <1>0 DEF Inv, EndedInv, Quiet
<1>3. TypeOK'
  BY <1>0, <1>1 DEF TypeOK
<1>4. PassMoves /\ RowKept /\ SessionKept
  BY <1>0, <1>1, <1>2 DEF PassMoves, RowKept, SessionKept, Terminal
<1>5. BoxesKept
  BY <1>0, BoxesStay
<1> QED
  BY <1>0, <1>3, <1>4, <1>5, Ordinary

\* Calls that update the container in place, and a removal that fails.
LEMMA UpdateKeeps ==
  ASSUME Inv, PutOutputs \/ PutSlate
  PROVE  Inv'
<1> DEFINE bo == [box[alloc.id] EXCEPT !.out = conf.out]
           bs == [box[alloc.id] EXCEPT !.slate = conf.slate]
<1>0. /\ UNCHANGED dbVars /\ agentDraining' = agentDraining /\ agentDraining \in BOOLEAN
      /\ drain \in BOOLEAN /\ conf \in Hash /\ orphans \in SUBSET AllocId /\ TypeOK /\ spent \in Budget
      /\ alloc # None /\ alloc.id \in AllocId
  <2>1. /\ UNCHANGED dbVars /\ agentDraining' = agentDraining /\ agentDraining \in BOOLEAN
        /\ drain \in BOOLEAN /\ conf \in Hash /\ orphans \in SUBSET AllocId /\ TypeOK /\ spent \in Budget
    BY Zenon DEF PutOutputs, PutSlate, Inv, TypeOK
  <2>2. alloc # None
    BY DEF PutOutputs, PutSlate, Inv, RowInv, Working
  <2> QED
    BY <2>1, <2>2, TypeFacts
<1>1. conf.out \in Nat /\ conf.slate \in BOOLEAN
  BY <1>0 DEF Hash
<1>2. spent' \in Budget /\ spent'.output = spent.output
  <2>1. UNCHANGED spent \/ Spend("control", ControlFaults)
    BY DEF PutOutputs, PutSlate, ControlFault
  <2> QED
    BY <1>0, <2>1, FaultFacts
<1>3. \/ box' = box
      \/ Running(Cur) /\ \E c \in {bo, bs} : box' = [box EXCEPT ![alloc.id] = c]
  BY DEF PutOutputs, PutSlate
<1>4. BoxesKept /\ box' \in [AllocId -> {None} \cup Container]
  <2>1. CASE box' = box
    BY <2>1, BoxesStay
  <2>2. ASSUME NEW c \in {bo, bs}, Running(Cur), box' = [box EXCEPT ![alloc.id] = c]
        PROVE  BoxesKept /\ box' \in [AllocId -> {None} \cup Container]
    <3>1. box[alloc.id] # None /\ box[alloc.id] \in Container
      BY <1>0, <2>2, TypeFacts DEF Running, Cur
    <3>2. /\ c \in Container /\ c.gen = box[alloc.id].gen
          /\ c.ready = box[alloc.id].ready /\ c.stage = box[alloc.id].stage
      BY <1>1, <2>2, <3>1 DEF Container
    <3> HIDE DEF bo, bs
    <3>3. /\ box' \in [AllocId -> {None} \cup Container]
          /\ \A j \in AllocId : box'[j] = IF j = alloc.id THEN c ELSE box[j]
      BY <1>0, <2>2, <3>2, BoxFacts
    <3> QED
      BY <1>0, <3>1, <3>2, <3>3 DEF BoxesKept, Inv, BoxInv
  <2> QED
    BY <1>3, <2>1, <2>2
<1>5. \/ EndReconcile
      \/ /\ PassMoves /\ pc' \in Working
         /\ UNCHANGED <<want, drain, conf, seen, why, orphans>>
  BY DEF PutOutputs, PutSlate, PassMoves, Working
<1> QED
  BY <1>0, <1>2, <1>4, <1>5, EndingPass, OrdinaryPass

\* A container of the row's generation comes up, in a pass that ends with it.
LEMMA LaunchKeeps ==
  ASSUME Inv, pc = "start", NEW c \in Container, c.gen = alloc.gen, c.ready = FALSE,
         box' = [box EXCEPT ![alloc.id] = c], EndReconcile, UNCHANGED dbVars,
         agentDraining' = agentDraining, spent' \in Budget, spent'.output = spent.output
  PROVE  Inv'
<1>0. alloc # None /\ alloc.id \in AllocId /\ alloc.gen \in Nat /\ TypeOK
  BY TypeFacts DEF Inv, RowInv
<1>1. /\ box' \in [AllocId -> {None} \cup Container]
      /\ \A j \in AllocId : box'[j] = IF j = alloc.id THEN c ELSE box[j]
  BY <1>0, BoxFacts
<1>2. /\ pc' \in {"idle", "listing"} /\ pc' \in Quiet /\ want' = "RUNNING" /\ why' = "ended" /\ seen' = "missing"
      /\ drain' = FALSE /\ conf' \in Hash /\ orphans' \in SUBSET AllocId
  BY <1>0, EndFacts
<1>3. alloc' = alloc /\ session' = session /\ allocs' = allocs /\ out' = out
  BY DEF dbVars
<1>4. TypeOK'
  BY <1>0, <1>1, <1>2 DEF TypeOK, Verdict, dbVars
<1>5. NoOrphans'
  BY <1>0, <1>1, <1>3 DEF Inv, NoOrphans
<1>6. BoxInv'
  <2> SUFFICES ASSUME NEW i \in AllocId, box'[i] # None
               PROVE  box'[i].gen <= alloc.gen /\ (box'[i].ready => box'[i].stage = "active")
    BY <1>3 DEF BoxInv
  <2>1. CASE i = alloc.id
    BY <1>0, <1>1, <2>1
  <2>2. CASE i # alloc.id
    BY <1>0, <1>1, <2>2 DEF Inv, BoxInv
  <2> QED
    BY <2>1, <2>2
<1>7. EndedInv' /\ RowInv' /\ CloseInv' /\ StartInv' /\ SeenInv' /\ WantInv'
  BY <1>2, <1>3 DEF Inv, EndedInv, RowInv, CloseInv, StartInv, SeenInv, WantInv, Working
<1>8. BoundInv'
  BY <1>2, <1>3 DEF Inv, BoundInv
<1> QED
  BY <1>4, <1>5, <1>6, <1>7, <1>8 DEF Inv

LEMMA StartWorkerKeeps ==
  ASSUME Inv, StartWorker
  PROVE  Inv'
<1> DEFINE new == [gen |-> alloc.gen, stage |-> "active", ready |-> FALSE,
                   out |-> conf.out, slate |-> conf.slate]
<1>0. /\ UNCHANGED dbVars /\ agentDraining' = agentDraining /\ agentDraining \in BOOLEAN
      /\ TypeOK /\ spent \in Budget /\ alloc # None /\ alloc.id \in AllocId /\ alloc.gen \in Nat
      /\ pc = "start" /\ EndReconcile /\ conf \in Hash
  <2>1. /\ UNCHANGED dbVars /\ agentDraining' = agentDraining /\ agentDraining \in BOOLEAN
        /\ TypeOK /\ spent \in Budget /\ pc = "start" /\ EndReconcile /\ conf \in Hash
    BY Zenon DEF StartWorker, Inv, TypeOK
  <2>2. alloc # None
    BY <2>1 DEF Inv, RowInv
  <2> QED
    BY <2>1, <2>2, TypeFacts
<1>1. new \in Container /\ new.gen = alloc.gen /\ new.ready = FALSE
  BY <1>0 DEF Container, Stage, Hash
<1>2. spent' \in Budget /\ spent'.output = spent.output
  <2>1. UNCHANGED spent \/ Spend("control", ControlFaults)
    BY DEF StartWorker, ControlFault
  <2> QED
    BY <1>0, <2>1, FaultFacts
<1>3. Launched \in {box[alloc.id], new}
  BY DEF Launched, Cur
<1> HIDE DEF new
<1>4. CASE box' = [box EXCEPT ![alloc.id] = Launched]
  <2>1. CASE Launched = new
    BY <1>0, <1>1, <1>2, <1>4, <2>1, LaunchKeeps
  <2>2. CASE Launched = box[alloc.id]
    <3>1. box' = box
      BY <1>0, <1>4, <2>2 DEF TypeOK
    <3> QED
      BY <1>0, <1>2, <3>1, BoxesStay, EndingPass
  <2> QED
    BY <1>3, <2>1, <2>2
<1>5. CASE box' = box \/ box' = [box EXCEPT ![alloc.id] = None]
  <2>1. BoxesKept /\ box' \in [AllocId -> {None} \cup Container]
    BY <1>0, <1>5, BoxesStay, BoxRemoved
  <2> QED
    BY <1>0, <1>2, <2>1, EndingPass
<1>6. CASE Running(Cur) /\ box' = [box EXCEPT ![alloc.id].stage = "exited", ![alloc.id].ready = FALSE]
  <2>1. BoxesKept /\ box' \in [AllocId -> {None} \cup Container]
    BY <1>0, <1>6, BoxExited DEF Running, Cur
  <2> QED
    BY <1>0, <1>2, <2>1, EndingPass
<1> QED
  BY <1>4, <1>5, <1>6 DEF StartWorker

LEMMA StartCutKeeps ==
  ASSUME Inv, StartCut
  PROVE  Inv'
<1> DEFINE c == [gen |-> alloc.gen, stage |-> "created", ready |-> FALSE, out |-> 0, slate |-> FALSE]
<1>0. /\ UNCHANGED dbVars /\ agentDraining' = agentDraining /\ TypeOK
      /\ pc = "start" /\ EndReconcile /\ Spend("handoff", CutHandoffs)
      /\ box' = [box EXCEPT ![alloc.id] = c]
  BY Zenon DEF StartCut, Inv
<1>1. alloc # None /\ alloc.gen \in Nat
  BY <1>0, TypeFacts DEF Inv, RowInv
<1>2. c \in Container /\ c.gen = alloc.gen /\ c.ready = FALSE
  BY <1>1 DEF Container, Stage
<1>3. spent' \in Budget /\ spent'.output = spent.output
  BY <1>0, FaultFacts
<1> HIDE DEF c
<1> QED
  BY <1>0, <1>2, <1>3, LaunchKeeps

LEMMA LoadSessionKeeps ==
  ASSUME Inv, LoadSession
  PROVE  Inv'
<1>0. /\ UNCHANGED dbVars /\ agentDraining' = agentDraining /\ box' = box /\ spent' = spent
      /\ TypeOK /\ pc = "reconcile" /\ drain \in BOOLEAN /\ conf \in Hash /\ orphans \in SUBSET AllocId
      /\ agentDraining \in BOOLEAN /\ spent \in Budget /\ want \in {"RUNNING", "STOPPED"}
      /\ why \in {"ended", "no output", "exhausted"}
  BY Zenon DEF LoadSession, Inv, TypeOK
<1>1. UNCHANGED <<session, alloc, allocs, out>> /\ session.phase \notin Terminal
  BY <1>0 DEF dbVars, Inv, EndedInv, Quiet
<1>2. CASE EndReconcile
  BY <1>0, <1>2, BoxesStay, EndingPass
<1>3. CASE /\ want = "STOPPED" \/ ~out.on
           /\ alloc # None
           /\ pc' = "stop"
           /\ why' = IF want = "STOPPED" THEN "ended" ELSE "no output"
           /\ want' = "RUNNING" /\ drain' = FALSE
           /\ UNCHANGED <<conf, seen, orphans>>
  <2>1. TypeOK'
    BY <1>0, <1>3 DEF TypeOK, dbVars
  <2>2. NoOrphans' /\ EndedInv' /\ RowInv' /\ CloseInv' /\ BoxInv' /\ StartInv' /\ SeenInv' /\ WantInv'
    BY <1>0, <1>1, <1>3 DEF Inv, NoOrphans, EndedInv, RowInv, CloseInv, BoxInv, StartInv, SeenInv, WantInv, Working
  <2>3. BoundInv'
    BY <1>0, <1>1, <1>3 DEF Inv, BoundInv
  <2> QED
    BY <2>1, <2>2, <2>3 DEF Inv
<1>4. CASE /\ want = "STOPPED" /\ alloc = None
           /\ pc' = "close" /\ why' = "ended"
           /\ want' = "RUNNING" /\ drain' = FALSE
           /\ UNCHANGED <<conf, seen, orphans>>
  <2>1. TypeOK'
    BY <1>0, <1>4 DEF TypeOK, dbVars
  <2>2. \A i \in AllocId : box[i] = None
    BY <1>4 DEF Inv, NoOrphans
  <2>3. NoOrphans' /\ EndedInv' /\ RowInv' /\ CloseInv' /\ BoxInv' /\ StartInv' /\ SeenInv' /\ WantInv'
    BY <1>0, <1>1, <1>4, <2>2 DEF Inv, NoOrphans, EndedInv, RowInv, CloseInv, BoxInv, StartInv, SeenInv, WantInv, Working
  <2>4. BoundInv'
    BY <1>0, <1>1, <1>4 DEF Inv, BoundInv
  <2> QED
    BY <2>1, <2>3, <2>4 DEF Inv
<1>5. CASE /\ out.on
           /\ pc' = "policy"
           /\ conf' = [conf EXCEPT !.out = out.gen]
           /\ UNCHANGED <<want, drain, seen, why, orphans>>
  <2>0. conf' \in Hash
    <3>1. out.gen \in Nat
      BY <1>0 DEF TypeOK
    <3> QED
      BY <1>0, <1>5, <3>1 DEF Hash
  <2>1. TypeOK'
    BY <1>0, <1>5, <2>0 DEF TypeOK, dbVars
  <2>2. NoOrphans' /\ EndedInv' /\ RowInv' /\ CloseInv' /\ BoxInv' /\ StartInv' /\ SeenInv' /\ WantInv'
    BY <1>0, <1>1, <1>5 DEF Inv, NoOrphans, EndedInv, RowInv, CloseInv, BoxInv, StartInv, SeenInv, WantInv, Working
  <2>3. BoundInv'
    BY <1>0, <1>1, <1>5 DEF Inv, BoundInv
  <2> QED
    BY <2>1, <2>2, <2>3 DEF Inv
<1> QED
  BY <1>2, <1>3, <1>4, <1>5 DEF LoadSession

LEMMA EnsureAllocationKeeps ==
  ASSUME Inv, EnsureAllocation
  PROVE  Inv'
<1> DEFINE hash == [conf EXCEPT !.slate = slate]
           row == [id |-> allocs + 1, state |-> "PENDING", gen |-> 1, hash |-> hash, restarts |-> 0,
                   healthy |-> FALSE, backoff |-> FALSE]
<1>0. /\ UNCHANGED <<session, enabled, out, slate, drainNode, agentDraining, box, spent>>
      /\ TypeOK /\ pc = "policy" /\ slate \in BOOLEAN /\ conf \in Hash
  BY Zenon DEF EnsureAllocation, ownerVars, Inv, TypeOK
<1>1. hash \in Hash /\ session.phase \notin Terminal
  BY <1>0 DEF Hash, Inv, EndedInv, Quiet
<1>2. CASE EndReconcile /\ UNCHANGED <<alloc, allocs>>
  <2>1. UNCHANGED dbVars /\ agentDraining' \in BOOLEAN /\ spent' \in Budget /\ spent'.output = spent.output
    BY <1>0, <1>2 DEF dbVars, TypeOK
  <2> QED
    BY <1>0, <1>2, <2>1, BoxesStay, EndingPass
<1> DEFINE Enters == /\ conf' = hash /\ pc' = "inspect" /\ drain' = FALSE
                     /\ UNCHANGED <<want, seen, why, orphans>>
<1>3. CASE alloc # None /\ UNCHANGED <<alloc, allocs>> /\ Enters
  <2>1. TypeOK'
    BY <1>0, <1>1, <1>3 DEF TypeOK
  <2>2. NoOrphans' /\ EndedInv' /\ RowInv' /\ CloseInv' /\ BoxInv' /\ StartInv' /\ SeenInv' /\ WantInv'
    BY <1>0, <1>1, <1>3 DEF Inv, NoOrphans, EndedInv, RowInv, CloseInv, BoxInv, StartInv, SeenInv, WantInv, Working
  <2>3. BoundInv'
    BY <1>0, <1>1, <1>3 DEF Inv, BoundInv
  <2> QED
    BY <2>1, <2>2, <2>3 DEF Inv
<1>4. CASE alloc = None /\ allocs' = allocs + 1 /\ alloc' = row /\ Enters
  <2>1. /\ allocs \in Nat /\ spent.output \in Nat /\ spent.output <= OutputChanges /\ OutputChanges \in Nat
        /\ allocs <= spent.output /\ (~out.on => allocs + 1 <= spent.output)
    BY <1>0, <1>1, <1>4, TypeFacts, BudgetFacts DEF Inv, BoundInv
  <2>2. allocs + 1 \in AllocId /\ allocs + 1 \in 0 .. (OutputChanges + 1)
    BY <2>1 DEF AllocId
  <2>3. row \in Row
    BY <1>1, <2>2 DEF Row
  <2>4. row # None
    BY <2>3, ReconcileAssumption
  <2>5. \A i \in AllocId : box[i] = None
    BY <1>4 DEF Inv, NoOrphans
  <2>6. /\ alloc' \in Row /\ alloc' # None /\ conf' \in Hash /\ pc' = "inspect" /\ drain' = FALSE
        /\ UNCHANGED <<want, seen, why, orphans>> /\ allocs' = allocs + 1
    BY <1>1, <1>4, <2>3, <2>4
  <2> HIDE DEF row, hash
  <2>7. TypeOK'
    BY <1>0, <2>2, <2>6 DEF TypeOK
  <2>8. NoOrphans' /\ EndedInv' /\ RowInv' /\ CloseInv' /\ BoxInv' /\ StartInv' /\ SeenInv' /\ WantInv'
    BY <1>0, <1>1, <2>5, <2>6 DEF Inv, NoOrphans, EndedInv, RowInv, CloseInv, BoxInv, StartInv, SeenInv, WantInv, Working
  <2>9. BoundInv'
    BY <1>0, <2>1, <2>6 DEF BoundInv
  <2> QED
    BY <2>7, <2>8, <2>9 DEF Inv
<1> QED
  BY <1>2, <1>3, <1>4 DEF EnsureAllocation

\* What the inspection tells is so.
LEMMA InspectKeeps ==
  ASSUME Inv, Inspect
  PROVE  Inv'
<1>0. /\ UNCHANGED dbVars /\ UNCHANGED <<want, drain, conf, why, orphans, agentDraining, box>>
      /\ TypeOK /\ pc = "inspect" /\ pc' = "decide"
      /\ UNCHANGED spent \/ Spend("worker", WorkerFaults)
  BY Zenon DEF Inspect, Inv
<1>1. spent' \in Budget /\ spent'.output = spent.output
  BY <1>0, FaultFacts
<1>2. PICK g \in BOOLEAN : seen' = Told(g)
  BY DEF Inspect
<1>3. /\ seen' \in Verdict
      /\ seen' = "missing" => Cur = None
      /\ seen' = "unfit" => Cur.stage = "exited" \/ Cur.gen # alloc.gen
  BY <1>2 DEF Told, Verdict, SameGeneration
<1>4. alloc # None /\ UNCHANGED <<session, alloc, allocs, out>> /\ session.phase \notin Terminal
  BY <1>0 DEF Inv, RowInv, EndedInv, Working, Quiet, dbVars
<1>5. TypeOK'
  BY <1>0, <1>1, <1>3 DEF TypeOK, dbVars
<1>6. NoOrphans' /\ EndedInv' /\ RowInv' /\ CloseInv' /\ BoxInv' /\ StartInv' /\ WantInv'
  BY <1>0, <1>4 DEF Inv, NoOrphans, EndedInv, RowInv, CloseInv, BoxInv, StartInv, WantInv, Working
<1>7. SeenInv'
  BY <1>0, <1>3, <1>4 DEF SeenInv, Cur
<1>8. BoundInv'
  BY <1>0, <1>1, <1>4 DEF Inv, BoundInv
<1> QED
  BY <1>5, <1>6, <1>7, <1>8 DEF Inv

LEMMA GiveUpKeeps ==
  ASSUME Inv, GiveUp
  PROVE  Inv'
<1>0. /\ UNCHANGED dbVars /\ UNCHANGED <<want, drain, orphans, agentDraining, box>>
      /\ TypeOK /\ pc = "decide" /\ pc' = "stop" /\ why' = "exhausted" /\ conf' = Nothing
      /\ seen' = "missing" /\ UNCHANGED spent
  BY Zenon DEF GiveUp, Inv
<1>1. spent' \in Budget /\ spent'.output = spent.output /\ conf' \in Hash /\ seen' \in Verdict
  BY <1>0, FaultFacts DEF Nothing, Hash, Verdict
<1>2. alloc # None /\ UNCHANGED <<session, alloc, allocs, out>> /\ session.phase \notin Terminal
  BY <1>0 DEF Inv, RowInv, EndedInv, Working, Quiet, dbVars
<1>3. TypeOK'
  BY <1>0, <1>1 DEF TypeOK, dbVars
<1>4. NoOrphans' /\ EndedInv' /\ RowInv' /\ CloseInv' /\ BoxInv' /\ StartInv' /\ SeenInv' /\ WantInv'
  BY <1>0, <1>2 DEF Inv, NoOrphans, EndedInv, RowInv, CloseInv, BoxInv, StartInv, SeenInv, WantInv, Working
<1>5. BoundInv'
  BY <1>0, <1>1, <1>2 DEF Inv, BoundInv
<1> QED
  BY <1>3, <1>4, <1>5 DEF Inv

LEMMA CommitStartKeeps ==
  ASSUME Inv, CommitStart
  PROVE  Inv'
<1>0. /\ UNCHANGED <<session, enabled, out, slate, drainNode, allocs>>
      /\ UNCHANGED <<want, drain, conf, why, orphans, agentDraining, box>>
      /\ TypeOK /\ pc = "decide" /\ pc' = "starting" /\ conf \in Hash
      /\ seen' = "missing" /\ UNCHANGED spent
  BY Zenon DEF CommitStart, Inv, ownerVars, TypeOK
<1>1. spent' \in Budget /\ spent'.output = spent.output /\ seen' \in Verdict
  BY <1>0, FaultFacts DEF Verdict
<1>2. alloc # None /\ alloc \in Row /\ alloc.id \in AllocId /\ alloc.gen \in Nat
      /\ session.phase \notin Terminal
  BY <1>0, TypeFacts DEF Inv, RowInv, EndedInv, Working, Quiet
<1>3. /\ alloc' \in Row /\ alloc'.id = alloc.id
      /\ alloc'.gen = IF seen # "missing" \/ ConfigChanged THEN alloc.gen + 1 ELSE alloc.gen
  <2>1. alloc' = [alloc EXCEPT !.gen = IF seen # "missing" \/ ConfigChanged THEN @ + 1 ELSE @,
                               !.hash = conf, !.state = "STARTING", !.restarts = @ + 1,
                               !.backoff = TRUE, !.healthy = FALSE]
    BY DEF CommitStart
  <2> DEFINE g == IF seen # "missing" \/ ConfigChanged THEN alloc.gen + 1 ELSE alloc.gen
             n == alloc.restarts + 1
  <2>2. alloc' = [alloc EXCEPT !.gen = g, !.hash = conf, !.state = "STARTING", !.restarts = n,
                               !.backoff = TRUE, !.healthy = FALSE]
    BY <2>1
  <2>3. g \in Nat /\ n \in Nat
    BY <1>2 DEF Row
  <2>4. g = IF seen # "missing" \/ ConfigChanged THEN alloc.gen + 1 ELSE alloc.gen
    OBVIOUS
  <2> HIDE DEF g, n
  <2> QED
    BY <1>0, <1>2, <2>2, <2>3, <2>4 DEF Row
<1>4. alloc' # None
  BY <1>3, ReconcileAssumption
<1>5. TypeOK'
  BY <1>0, <1>1, <1>3 DEF TypeOK
<1>6. BoxInv' /\ StartInv'
  <2>1. \A i \in AllocId : box[i] # None => box[i].gen \in Nat /\ box[i].gen <= alloc.gen
                                           /\ (box[i].ready => box[i].stage = "active")
    BY <1>0, <1>2, TypeFacts DEF Inv, BoxInv
  <2>2. BoxInv'
    BY <1>0, <1>2, <1>3, <2>1 DEF BoxInv
  <2>3. StartInv'
    BY <1>0, <1>2, <1>3, <2>1 DEF Inv, SeenInv, StartInv, Cur
  <2> QED
    BY <2>2, <2>3
<1>7. NoOrphans' /\ EndedInv' /\ RowInv' /\ CloseInv' /\ SeenInv' /\ WantInv'
  BY <1>0, <1>2, <1>3, <1>4 DEF Inv, NoOrphans, EndedInv, RowInv, CloseInv, SeenInv, WantInv, Working
<1>8. BoundInv'
  BY <1>0, <1>1, <1>2, <1>4 DEF Inv, BoundInv
<1> QED
  BY <1>5, <1>6, <1>7, <1>8 DEF Inv

LEMMA StopWorkerKeeps ==
  ASSUME Inv, StopWorker
  PROVE  Inv'
<1>0. /\ UNCHANGED dbVars /\ agentDraining' = agentDraining /\ agentDraining \in BOOLEAN
      /\ TypeOK /\ pc = "stop" /\ spent \in Budget
  BY Zenon DEF StopWorker, Inv, TypeOK
<1>1. /\ alloc # None /\ alloc.id \in AllocId /\ UNCHANGED <<session, alloc, allocs, out>>
      /\ session.phase \notin Terminal
  BY <1>0, TypeFacts DEF Inv, RowInv, EndedInv, Quiet, dbVars
<1>2. CASE ControlFault /\ box' \in HalfStopped(alloc.id) /\ EndReconcile
  <2>1. BoxesKept /\ box' \in [AllocId -> {None} \cup Container]
    BY <1>1, <1>2, BoxHalfStopped
  <2>2. spent' \in Budget /\ spent'.output = spent.output
    BY <1>0, <1>2, FaultFacts DEF ControlFault
  <2> QED
    BY <1>0, <1>2, <2>1, <2>2, EndingPass
<1>3. CASE /\ box' = [box EXCEPT ![alloc.id] = None]
           /\ pc' = "close"
           /\ UNCHANGED <<want, drain, conf, seen, why, orphans, spent>>
  <2>1. /\ box' \in [AllocId -> {None} \cup Container]
        /\ \A j \in AllocId : box'[j] = IF j = alloc.id THEN None ELSE box[j]
    BY <1>0, <1>1, <1>3, BoxFacts
  <2>2. \A j \in AllocId : box'[j] = None
    BY <2>1 DEF Inv, NoOrphans
  <2>3. TypeOK'
    BY <1>0, <1>3, <2>1 DEF TypeOK, dbVars
  <2>4. NoOrphans' /\ EndedInv' /\ RowInv' /\ CloseInv' /\ BoxInv' /\ StartInv' /\ SeenInv' /\ WantInv'
    BY <1>0, <1>1, <1>3, <2>2 DEF Inv, NoOrphans, EndedInv, RowInv, CloseInv, BoxInv, StartInv, SeenInv, WantInv, Working
  <2>5. BoundInv'
    BY <1>0, <1>1, <1>3 DEF Inv, BoundInv
  <2> QED
    BY <2>3, <2>4, <2>5 DEF Inv
<1> QED
  BY <1>2, <1>3 DEF StopWorker

LEMMA CloseAllocationKeeps ==
  ASSUME Inv, CloseAllocation
  PROVE  Inv'
<1>0. /\ UNCHANGED <<enabled, out, slate, drainNode, allocs, agentDraining, box, spent>>
      /\ TypeOK /\ pc = "close" /\ alloc' = None /\ EndReconcile
      /\ session \in [phase : Phase, desired : {"RUNNING", "STOPPED"}]
      /\ why \in {"ended", "no output", "exhausted"}
  BY Zenon DEF CloseAllocation, Inv, ownerVars, TypeOK
<1>1. /\ pc' \in {"idle", "listing"} /\ pc' \in Quiet /\ want' = "RUNNING" /\ why' = "ended" /\ seen' = "missing"
      /\ drain' = FALSE /\ conf' \in Hash /\ orphans' \in SUBSET AllocId
  BY <1>0, EndFacts
<1>2. /\ session.phase \notin Terminal /\ \A i \in AllocId : box[i] = None
  BY <1>0 DEF Inv, EndedInv, CloseInv, Quiet
<1>3. /\ session' \in [phase : Phase, desired : {"RUNNING", "STOPPED"}]
      /\ session'.phase \notin Terminal => why = "no output"
  <2>1. CASE why = "ended"
    <3>1. session' = [session EXCEPT !.phase = "ENDED"]
      BY <2>1 DEF CloseAllocation
    <3> QED
      BY <1>0, <3>1 DEF Phase, Terminal
  <2>2. CASE why = "exhausted"
    <3>1. session' = [phase |-> "FAILED", desired |-> "STOPPED"]
      BY <2>2 DEF CloseAllocation
    <3> QED
      BY <3>1 DEF Phase, Terminal
  <2>3. CASE why = "no output"
    <3>1. session' = IF session.desired = "RUNNING" THEN [session EXCEPT !.phase = "SCHEDULING"]
                     ELSE session
      BY <2>3 DEF CloseAllocation
    <3> QED
      BY <1>0, <2>3, <3>1 DEF Phase
  <2> QED
    BY <1>0, <2>1, <2>2, <2>3
<1>4. TypeOK'
  BY <1>0, <1>1, <1>3 DEF TypeOK, Verdict
<1>5. NoOrphans' /\ EndedInv' /\ RowInv' /\ CloseInv' /\ BoxInv' /\ StartInv' /\ SeenInv' /\ WantInv'
  BY <1>0, <1>1, <1>2 DEF Inv, NoOrphans, EndedInv, RowInv, CloseInv, BoxInv, StartInv, SeenInv, WantInv, Working
<1>6. BoundInv'
  BY <1>0, <1>1, <1>3 DEF Inv, BoundInv
<1> QED
  BY <1>4, <1>5, <1>6 DEF Inv

LEMMA ChangeOutputsKeeps ==
  ASSUME Inv, ChangeOutputs
  PROVE  Inv'
<1>0. /\ UNCHANGED <<session, enabled, slate, drainNode, alloc, allocs, agentDraining, box>>
      /\ UNCHANGED <<pc, want, drain, conf, seen, why, orphans>>
      /\ TypeOK /\ spent \in Budget /\ out \in [on : BOOLEAN, gen : Nat]
  BY Zenon DEF ChangeOutputs, Inv, passVars, TypeOK
<1>1. spent' \in Budget /\ spent'.output = spent.output + 1
  BY <1>0, BudgetFacts DEF ChangeOutputs, Spend, Budget
<1>2. out' \in [on : BOOLEAN, gen : Nat]
  BY <1>0 DEF ChangeOutputs
<1>3. TypeOK'
  <2>1. /\ session' \in [phase : Phase, desired : {"RUNNING", "STOPPED"}]
        /\ enabled' \in BOOLEAN /\ slate' \in BOOLEAN /\ drainNode' \in BOOLEAN
        /\ alloc' \in {None} \cup Row /\ allocs' \in 0 .. (OutputChanges + 1)
        /\ want' \in {"RUNNING", "STOPPED"} /\ drain' \in BOOLEAN /\ conf' \in Hash
        /\ why' \in {"ended", "no output", "exhausted"} /\ orphans' \in SUBSET AllocId
        /\ agentDraining' \in BOOLEAN /\ box' \in [AllocId -> {None} \cup Container]
    BY <1>0, Zenon DEF TypeOK
  <2>2. pc' = pc
    BY <1>0
  <2> QED
    BY <1>0, <1>1, <1>2, <2>1, <2>2, Zenon DEF TypeOK
<1>4. NoOrphans' /\ EndedInv' /\ RowInv' /\ CloseInv' /\ BoxInv' /\ StartInv' /\ SeenInv' /\ WantInv'
  BY <1>0 DEF Inv, NoOrphans, EndedInv, RowInv, CloseInv, BoxInv, StartInv, SeenInv, WantInv, Cur
<1>5. BoundInv'
  <2>1. allocs \in Nat /\ spent.output \in Nat
    BY <1>0, TypeFacts
  <2>2. pc = "policy" => session.phase \notin Terminal
    BY DEF Inv, EndedInv, Quiet
  <2>3. /\ allocs <= spent.output + 1
        /\ alloc = None /\ session.phase \notin Terminal => allocs <= spent.output
        /\ pc \in {"stop", "close"} /\ why = "no output" => allocs <= spent.output
    BY DEF Inv, BoundInv
  <2>3a. \A n, m, k \in Nat : m = n + 1 /\ k <= n + 1 => k <= m /\ (k <= n => k + 1 <= m)
    OBVIOUS
  <2>3b. spent'.output \in Nat
    BY <1>1, <2>1
  <2>4. /\ allocs <= spent'.output
        /\ alloc = None /\ session.phase \notin Terminal => allocs + 1 <= spent'.output
    BY <1>1, <2>1, <2>3, <2>3a, <2>3b, Zenon
  <2>5. allocs <= spent'.output + 1
    BY <1>1, <2>1, <2>4
  <2> QED
    BY <1>0, <2>2, <2>4, <2>5 DEF BoundInv
<1> QED
  BY <1>3, <1>4, <1>5 DEF Inv

LEMMA NextKeeps == Inv /\ [Next]_vars => Inv'
<1> SUFFICES ASSUME Inv, [Next]_vars PROVE Inv'
  OBVIOUS
<1>1. ASSUME UNCHANGED vars PROVE Inv'
  <2>1. TypeOK'
    <3>1. /\ UNCHANGED <<session, enabled, out, slate, drainNode, alloc, allocs, agentDraining, box, spent>>
          /\ UNCHANGED <<pc, want, drain, conf, seen, why, orphans>>
      BY <1>1 DEF vars
    <3>2. /\ session' \in [phase : Phase, desired : {"RUNNING", "STOPPED"}]
          /\ enabled' \in BOOLEAN /\ out' \in [on : BOOLEAN, gen : Nat] /\ slate' \in BOOLEAN
          /\ drainNode' \in BOOLEAN /\ alloc' \in {None} \cup Row
          /\ allocs' \in 0 .. (OutputChanges + 1) /\ agentDraining' \in BOOLEAN
          /\ box' \in [AllocId -> {None} \cup Container] /\ spent' \in Budget
      BY <3>1, Zenon DEF Inv, TypeOK
    <3> QED
      BY <3>1, <3>2, Zenon DEF Inv, TypeOK
  <2>2. NoOrphans' /\ EndedInv' /\ RowInv' /\ CloseInv' /\ BoxInv' /\ StartInv' /\ SeenInv' /\ WantInv' /\ BoundInv'
    BY <1>1 DEF vars, Inv, NoOrphans, EndedInv, RowInv, CloseInv, BoxInv, StartInv, SeenInv, WantInv,
                BoundInv, Cur
  <2> QED
    BY <2>1, <2>2 DEF Inv
<1>2. ASSUME Controller PROVE Inv'
  BY <1>2, PassKeeps, ListSessionsKeeps, LoadSessionKeeps, EnsureAllocationKeeps, RowKeeps,
     InspectKeeps, GiveUpKeeps, CommitStartKeeps, SetStartingKeeps, StartWorkerKeeps, UpdateKeeps,
     StopWorkerKeeps, CloseAllocationKeeps, SweepKeeps DEF Controller
<1>3. ASSUME World PROVE Inv'
  BY <1>3, RowKeeps, WorkerKeeps, OwnerKeeps, ChangeOutputsKeeps DEF World
<1> QED
  BY <1>1, <1>2, <1>3, StartCutKeeps, PassKeeps DEF Next

-----------------------------------------------------------------------------
(* The theorems *)

\* The inductive invariant holds in every state.
THEOREM Invariance == Spec => []Inv
  BY InitHolds, NextKeeps, PTL DEF Spec

\* reconcile closes a row only after its container is gone: a session that is over
\* has none left.
THEOREM EndedSessionsLeaveNothing == Spec => []OverMeansGone
<1>1. Inv => OverMeansGone
  BY DEF Inv, OverMeansGone, EndedInv, NoOrphans
<1> QED
  BY <1>1, Invariance, PTL

\* onceNode: every container is that of the open allocation, so the sweep finds no
\* orphan of a closed one.
THEOREM NoContainerIsForgotten == Spec => []NoOrphans
<1>1. Inv => NoOrphans
  BY DEF Inv
<1> QED
  BY <1>1, Invariance, PTL

-----------------------------------------------------------------------------
(* A worker that serves is left alone. *)

\* The worker is where it was.
Undisturbed == /\ alloc' # None /\ alloc'.id = alloc.id /\ alloc'.gen = alloc.gen
               /\ box'[alloc.id] # None /\ box'[alloc.id].gen = box[alloc.id].gen
               /\ why' = "ended"

\* What is known when a worker serves a session that is to run.
LEMMA ServingFacts ==
  ASSUME Inv, Serving, session.desired = "RUNNING", why = "ended"
  PROVE  /\ alloc # None /\ alloc \in Row /\ alloc.id \in AllocId
         /\ box[alloc.id] # None /\ box[alloc.id] \in Container
         /\ box[alloc.id].stage = "active" /\ box[alloc.id].ready /\ box[alloc.id].gen = alloc.gen
         /\ pc \notin {"starting", "start", "stop", "close"}
         /\ want # "STOPPED" /\ session.phase \notin Terminal
         /\ box \in [AllocId -> {None} \cup Container]
<1>1. /\ alloc # None /\ alloc \in Row /\ alloc.id \in AllocId
      /\ box[alloc.id] # None /\ box[alloc.id] \in Container
      /\ box[alloc.id].ready /\ box[alloc.id].gen = alloc.gen /\ alloc.gen \in Nat
  BY TypeFacts DEF Inv, Serving, Cur, SameGeneration
<1>2. box[alloc.id].stage = "active"
  BY <1>1 DEF Inv, BoxInv
<1>3. pc \notin {"starting", "start"}
  <2> SUFFICES ASSUME pc \in {"starting", "start"} PROVE FALSE
    OBVIOUS
  <2>1. box[alloc.id].gen < alloc.gen
    BY <1>1 DEF Inv, StartInv, Cur
  <2> QED
    BY <1>1, <2>1
<1>4. pc \notin {"stop", "close"} /\ want # "STOPPED" /\ session.phase \notin Terminal
  BY <1>1 DEF Inv, WantInv, EndedInv
<1> QED
  BY <1>1, <1>2, <1>3, <1>4 DEF Inv, TypeOK

\* A pass that is not overtaken by the worker finds it fit.
LEMMA FoundFit ==
  ASSUME Inv, Serving, ~ Overtaken, session.desired = "RUNNING", why = "ended", pc = "decide"
  PROVE  ~ Unfit
<1>1. /\ box[alloc.id] # None /\ box[alloc.id].stage = "active" /\ box[alloc.id].gen = alloc.gen
  BY ServingFacts
<1>2. seen \in Verdict
  BY Zenon DEF Inv, TypeOK
<1>3. seen \notin {"missing", "unfit", "quiet"}
  BY <1>1 DEF Inv, SeenInv, Cur, Overtaken
<1> QED
  BY <1>2, <1>3 DEF Unfit, Verdict

\* Steps of the pass.
LEMMA PassLeavesAlone ==
  ASSUME Inv, Controller, Serving, ~ Overtaken, session.desired = "RUNNING", out.on, why = "ended"
  PROVE  Undisturbed
<1>0. /\ alloc # None /\ alloc \in Row /\ alloc.id \in AllocId
      /\ box[alloc.id] # None /\ box[alloc.id] \in Container
      /\ pc \notin {"starting", "start", "stop", "close"}
      /\ want # "STOPPED" /\ session.phase \notin Terminal
      /\ box \in [AllocId -> {None} \cup Container]
  BY ServingFacts
<1>1. ~ GiveUp /\ ~ CommitStart
  BY FoundFit DEF GiveUp, CommitStart
<1>2. ~ (SetStarting \/ StartWorker \/ StopWorker \/ CloseAllocation)
  BY <1>0 DEF SetStarting, StartWorker, StopWorker, CloseAllocation
<1>3. CASE \/ Heartbeat \/ Announce \/ ListSessions \/ Inspect \/ InspectFails \/ ListWorkers \/ PassDone
           \/ UpdateInPlace \/ Wait
  <2>1. UNCHANGED <<alloc, box>>
    BY <1>3 DEF Heartbeat, Announce, ListSessions, Inspect, InspectFails, ListWorkers, PassDone,
                UpdateInPlace, Wait, dbVars
  <2>2. why' = why \/ EndPass \/ EndReconcile
    BY <1>3 DEF Heartbeat, Announce, ListSessions, Inspect, InspectFails, ListWorkers, PassDone,
                UpdateInPlace, Wait
  <2> QED
    BY <1>0, <2>1, <2>2 DEF Undisturbed, EndPass, EndReconcile
<1>4. CASE LoadSession
  <2>1. UNCHANGED <<alloc, box>> /\ why' = "ended"
    BY <1>0, <1>4 DEF LoadSession, dbVars, EndReconcile
  <2> QED
    BY <1>0, <2>1 DEF Undisturbed
<1>5. CASE EnsureAllocation
  <2>1. UNCHANGED <<alloc, box>> /\ why' = "ended"
    BY <1>0, <1>5 DEF EnsureAllocation, EndReconcile
  <2> QED
    BY <1>0, <2>1 DEF Undisturbed
<1>6. CASE Observe
  <2>1. PICK n \in {0, alloc.restarts} :
          alloc' = [alloc EXCEPT !.state = "RUNNING", !.healthy = TRUE, !.restarts = n]
    BY <1>6 DEF Observe
  <2>2. n \in Nat
    BY <1>0 DEF Row
  <2>3. alloc' \in Row /\ alloc'.id = alloc.id /\ alloc'.gen = alloc.gen
    BY <1>0, <2>1, <2>2 DEF Row
  <2>4. box' = box /\ why' = "ended"
    BY <1>6 DEF Observe, EndReconcile
  <2> QED
    BY <1>0, <2>3, <2>4, ReconcileAssumption DEF Undisturbed
<1>7. CASE RecordHash
  <2>1. conf \in Hash
    BY Zenon DEF Inv, TypeOK
  <2>2. alloc' \in Row /\ alloc'.id = alloc.id /\ alloc'.gen = alloc.gen
    BY <1>0, <1>7, <2>1 DEF RecordHash, Row
  <2>3. box' = box /\ why' = "ended"
    BY <1>7 DEF RecordHash, EndReconcile
  <2> QED
    BY <1>0, <2>2, <2>3, ReconcileAssumption DEF Undisturbed
<1>8. CASE PutOutputs \/ PutSlate
  <2>1. alloc' = alloc /\ why' = "ended"
    BY <1>8 DEF PutOutputs, PutSlate, dbVars, EndReconcile
  <2>2. \/ box' = box
        \/ box' = [box EXCEPT ![alloc.id] = [box[alloc.id] EXCEPT !.out = conf.out]]
        \/ box' = [box EXCEPT ![alloc.id] = [box[alloc.id] EXCEPT !.slate = conf.slate]]
    BY <1>8 DEF PutOutputs, PutSlate
  <2>3. conf.out \in Nat /\ conf.slate \in BOOLEAN
    BY DEF Inv, TypeOK, Hash
  <2>4. box'[alloc.id] \in Container /\ box'[alloc.id].gen = box[alloc.id].gen
    BY <1>0, <2>2, <2>3 DEF Container
  <2> QED
    BY <1>0, <2>1, <2>4, ReconcileAssumption DEF Undisturbed
<1>9. CASE Sweep
  <2>1. alloc' = alloc /\ why' = "ended"
    BY <1>9 DEF Sweep, dbVars, EndPass
  <2>2. PICK i \in orphans :
          \/ box' = IF Belongs(i) THEN box ELSE [box EXCEPT ![i] = None]
          \/ ~ Belongs(i) /\ box' \in HalfStopped(i)
    BY <1>9 DEF Sweep
  <2>3. i \in AllocId
    BY DEF Inv, TypeOK
  <2>4. box'[alloc.id] = box[alloc.id]
    <3>1. CASE i = alloc.id
      BY <1>0, <2>2, <3>1 DEF Belongs
    <3>2. CASE i # alloc.id
      BY <1>0, <2>2, <2>3, <3>2 DEF HalfStopped
    <3> QED
      BY <3>1, <3>2
  <2> QED
    BY <1>0, <2>1, <2>4 DEF Undisturbed
<1> QED
  BY <1>1, <1>2, <1>3, <1>4, <1>5, <1>6, <1>7, <1>8, <1>9 DEF Controller

\* The other steps.
LEMMA WorldLeavesAlone ==
  ASSUME Inv, StartCut \/ PassAborts \/ World, Sound', Serving, session.desired = "RUNNING",
         why = "ended"
  PROVE  Undisturbed
<1>0. /\ alloc # None /\ alloc \in Row /\ alloc.id \in AllocId
      /\ box[alloc.id] # None /\ box[alloc.id] \in Container
      /\ pc \notin {"starting", "start", "stop", "close"}
      /\ box \in [AllocId -> {None} \cup Container]
  BY ServingFacts
<1>1. ~ StartCut
  BY <1>0 DEF StartCut
<1>2. \A i \in AllocId : ~ WorkerExit(i)
  <2>1. spent \in Budget /\ spent'.worker = 0
    BY Zenon DEF Inv, TypeOK, Sound
  <2>2. ~ Spend("worker", WorkerFaults)
    BY <2>1 DEF Spend, Budget
  <2> QED
    BY <2>2 DEF WorkerExit
<1>3. CASE \/ PassAborts \/ AgentRestart \/ StopSession \/ UpdateStream \/ ChangeOutputs
           \/ ChangeSlate \/ DrainNode
  <2>1. UNCHANGED <<alloc, box>> /\ why' = "ended"
    BY <1>3 DEF PassAborts, AgentRestart, StopSession, UpdateStream, ChangeOutputs, ChangeSlate,
                DrainNode, dbVars, passVars, EndPass
  <2> QED
    BY <1>0, <2>1 DEF Undisturbed
<1>4. CASE BackoffElapses
  <2>1. alloc' \in Row /\ alloc'.id = alloc.id /\ alloc'.gen = alloc.gen
    BY <1>0, <1>4 DEF BackoffElapses, Row
  <2>2. box' = box /\ why' = "ended"
    BY <1>4 DEF BackoffElapses, passVars
  <2> QED
    BY <1>0, <2>1, <2>2, ReconcileAssumption DEF Undisturbed
<1>5. ASSUME NEW i \in AllocId, WorkerReady(i) PROVE Undisturbed
  <2>1. alloc' = alloc /\ why' = "ended"
    BY <1>5 DEF WorkerReady, dbVars, passVars
  <2>2. box' = [box EXCEPT ![i] = [box[i] EXCEPT !.ready = TRUE]] /\ box[i] # None
    BY <1>5 DEF WorkerReady
  <2>3. box'[alloc.id] \in Container /\ box'[alloc.id].gen = box[alloc.id].gen
    BY <1>0, <2>2 DEF Container
  <2> QED
    BY <1>0, <2>1, <2>3, ReconcileAssumption DEF Undisturbed
<1> QED
  BY <1>1, <1>2, <1>3, <1>4, <1>5 DEF World

\* reconcile, StartWorker and the sweep: as long as no worker fails, one that serves
\* a session that is to run and has an output is neither replaced nor removed, nor is
\* that decided, unless the pass had looked at it before it was ready.
THEOREM ServingWorkersAreLeftAlone == Spec => NoInterruption
<1>1. ASSUME Inv, [Next]_vars
      PROVE  [/\ Sound' /\ Serving /\ ~Overtaken
              /\ session.desired = "RUNNING" /\ out.on /\ why = "ended"
              => /\ alloc' # None /\ alloc'.gen = alloc.gen
                 /\ Cur' # None /\ Cur'.gen = Cur.gen
                 /\ why' = "ended"]_vars
  <2>1. CASE UNCHANGED vars
    BY <2>1
  <2>2. CASE Next
    <3> SUFFICES ASSUME Sound', Serving, ~ Overtaken, session.desired = "RUNNING", out.on, why = "ended"
                 PROVE  /\ alloc' # None /\ alloc'.gen = alloc.gen
                        /\ Cur' # None /\ Cur'.gen = Cur.gen
                        /\ why' = "ended"
      OBVIOUS
    <3>1. Undisturbed
      BY <1>1, <2>2, PassLeavesAlone, WorldLeavesAlone DEF Next
    <3> QED
      BY <3>1 DEF Undisturbed, Cur
  <2> QED
    BY <1>1, <2>1, <2>2
<1> QED
  BY <1>1, Invariance, PTL DEF Spec, NoInterruption

==============================================================================
