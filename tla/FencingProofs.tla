---------------------------- MODULE FencingProofs ----------------------------
(***************************************************************************)
(* The safety properties of module Fencing, for every set of allocations   *)
(* and every bound.                                                        *)
(*                                                                         *)
(* The invariants of Fencing are not inductive: that no container appears  *)
(* after the commit depends on where the older tokens are.  Inv adds the   *)
(* order of the four places a token can be in (the counter, the pass, the  *)
(* messages, the watermark), what the pass has sent under its own token,   *)
(* and what an acknowledged stop means until it is committed.              *)
(***************************************************************************)
EXTENDS Fencing, TLAPS

\* The pass has the agent's acknowledgement of its token.
Governing == \/ pc \in {"reconcile", "inspect", "decide", "sweep"}
             \/ pc = "await" /\ await.op # "drain"

\* A wait has a command, and the other states have none.
AwaitInv ==
  /\ pc = "await" <=> await # None
  /\ reply # "none" => await # None
  /\ pc = "await" /\ await.op # "drain" => await.alloc \in Alloc
  /\ pc = "await" /\ await.op \in {"start", "stop", "update"} =>
       row[await.alloc] = "active" /\ await.alloc \notin todo
  /\ pc = "await" => await.fence = fence
  /\ pc \in {"inspect", "decide"} => cur \in Alloc \ todo /\ row[cur] = "active"
  /\ \A m \in net \cup {job} : m # None /\ m.op # "drain" => m.alloc \in Alloc
  /\ \A a \in todo : row[a] # "stopped"

\* Where the tokens are: nobody holds one above the counter, except for an
\* agent whose database was restored, and then nothing is on its way.
TokenInv ==
  /\ \A m \in net : m.fence <= dbFence
  /\ memFence <= fenceFile
  /\ job # None => job.fence = fenceFile
  /\ pc # "idle" => fence = dbFence
  /\ pc = "advance" => fenceFile <= hb \/ fenceFile <= dbFence
  /\ fenceFile > dbFence =>
       net = {} /\ job = None /\ pc \in {"idle", "heartbeat", "advance"}
  /\ Governing => fenceFile = fence
  /\ pc = "await" => fenceFile <= fence
  /\ pc = "await" /\ await.op = "drain" /\ reply = "ok" => fenceFile = fence

\* Of the commands that carry the pass's own token, those for an allocation
\* come after it was taken off the list.
OwnInv ==
  \A m \in net \cup {job} :
    m # None /\ m.fence = dbFence /\ pc # "idle" =>
      /\ pc \notin {"heartbeat", "advance"}
      /\ m.op # "drain" => Governing
      /\ m.op \in {"start", "stop", "update"} =>
           /\ m.alloc \notin todo
           /\ pc \in {"inspect", "decide"} => m.alloc # cur
           /\ pc = "await" /\ await.op = "stop" => m = await \/ m.alloc # await.alloc
      /\ m.op = "sweep" => pc = "sweep" \/ (pc = "await" /\ await.op = "sweep")

\* No start is left that could act on a closed allocation.
StartInv ==
  /\ \A m \in net : m.op = "start" /\ row[m.alloc] = "stopped" => m.fence < fenceFile
  /\ job # None /\ job.op = "start" => row[job.alloc] # "stopped"
  /\ \A m \in net \cup {job} : m # None /\ m.op = "start" =>
       row[m.alloc] # "absent" /\ m.gen <= rowGen[m.alloc]

\* An acknowledged stop stays true until it is committed.
AckInv == pc = "await" /\ await.op = "stop" /\ reply = "ok" => worker[await.alloc] = None

Inv == /\ TypeOK /\ AwaitInv /\ TokenInv /\ OwnInv /\ StartInv /\ AckInv
       /\ StopIsFinal /\ CommittedFirst /\ InspectionStable

USE FencingAssumption DEF RowState, PassState

-----------------------------------------------------------------------------
(* Every action preserves Inv *)

\* NextFence preserves the invariant: it begins a pass with a new token.
LEMMA NextFenceInv ==
  ASSUME Inv, NextFence
  PROVE  Inv'
BY DEF Inv, TypeOK, AwaitInv, TokenInv, OwnInv, StartInv, AckInv,
       StopIsFinal, CommittedFirst, InspectionStable, Governing,
       Command, Worker, NextFence

\* Heartbeat preserves the invariant: it reads the watermark.
LEMMA HeartbeatInv ==
  ASSUME Inv, Heartbeat
  PROVE  Inv'
BY DEF Inv, TypeOK, AwaitInv, TokenInv, OwnInv, StartInv, AckInv,
       StopIsFinal, CommittedFirst, InspectionStable, Governing,
       Command, Worker, Heartbeat, Watermark, Larger

\* AdvanceFence preserves the invariant: the pass's token is above every token in the messages and the watermark.
LEMMA AdvanceFenceInv ==
  ASSUME Inv, AdvanceFence
  PROVE  Inv'
<1> USE DEF Inv, AdvanceFence, Send, PassFence, Larger
<1>1. TypeOK'
  <2> DEFINE f == PassFence
             m == [op |-> "drain", alloc |-> None, gen |-> 1, fence |-> f]
  <2>1. f \in Nat /\ dbFence' \in Nat
    BY DEF TypeOK
  <2>2. m \in Command
    BY <2>1 DEF Command
  <2>3. /\ net' = net \cup {m} /\ await' = m /\ fence' = f
        /\ reply' = "none" /\ pc' = "await" /\ hb' = 0 /\ cur' = None /\ seen' = FALSE
        /\ UNCHANGED <<row, rowGen, todo, orphans, memFence, fenceFile, job, worker, backup>>
    OBVIOUS
  <2> HIDE DEF f, m, AdvanceFence
  <2> QED
    BY <2>1, <2>2, <2>3 DEF TypeOK
<1>2. AwaitInv'
  BY DEF TypeOK, AwaitInv, Command, Worker
<1>3. TokenInv'
  BY DEF TypeOK, AwaitInv, TokenInv, OwnInv, Governing, Command, Worker
<1>4. OwnInv'
  BY DEF TypeOK, AwaitInv, TokenInv, OwnInv, Governing, Command, Worker
<1>5. StartInv'
  BY DEF TypeOK, AwaitInv, TokenInv, OwnInv, StartInv, Governing, StopIsFinal, Command, Worker
<1>6. AckInv'
  BY DEF TypeOK, AwaitInv, TokenInv, OwnInv, AckInv, Governing, Command, Worker
<1>7. StopIsFinal'
  BY DEF TypeOK, AwaitInv, AckInv, StartInv, StopIsFinal, Command, Worker
<1>8. CommittedFirst'
  BY DEF TypeOK, AwaitInv, StartInv, CommittedFirst, Command, Worker
<1>9. InspectionStable'
  BY DEF TypeOK, AwaitInv, TokenInv, OwnInv, Governing, InspectionStable, Command, Worker
<1> QED
  BY <1>1, <1>2, <1>3, <1>4, <1>5, <1>6, <1>7, <1>8, <1>9

\* DrainAcknowledged preserves the invariant: the agent has the token, so the pass governs.
LEMMA DrainAcknowledgedInv ==
  ASSUME Inv, DrainAcknowledged
  PROVE  Inv'
<1> USE DEF Inv, DrainAcknowledged
<1>1. TypeOK'
  BY DEF TypeOK, Command, Worker
<1>2. AwaitInv'
  BY DEF TypeOK, AwaitInv, Command, Worker
<1>3. TokenInv'
  BY DEF TypeOK, AwaitInv, TokenInv, OwnInv, Governing, Command, Worker
<1>4. OwnInv'
  BY DEF TypeOK, AwaitInv, TokenInv, OwnInv, Governing, Command, Worker
<1>5. StartInv'
  BY DEF TypeOK, AwaitInv, TokenInv, OwnInv, StartInv, Governing, StopIsFinal, Command, Worker
<1>6. AckInv'
  BY DEF TypeOK, AwaitInv, TokenInv, OwnInv, AckInv, Governing, Command, Worker
<1>7. StopIsFinal'
  BY DEF TypeOK, AwaitInv, AckInv, StartInv, StopIsFinal, Command, Worker
<1>8. CommittedFirst'
  BY DEF TypeOK, AwaitInv, StartInv, CommittedFirst, Command, Worker
<1>9. InspectionStable'
  BY DEF TypeOK, AwaitInv, TokenInv, OwnInv, Governing, InspectionStable, Command, Worker
<1> QED
  BY <1>1, <1>2, <1>3, <1>4, <1>5, <1>6, <1>7, <1>8, <1>9

\* Skip preserves the invariant: it leaves a session alone.
LEMMA SkipInv ==
  ASSUME NEW a \in Alloc, Inv, Skip(a)
  PROVE  Inv'
BY DEF Inv, TypeOK, AwaitInv, TokenInv, OwnInv, StartInv, AckInv,
       StopIsFinal, CommittedFirst, InspectionStable, Governing,
       Command, Worker, Skip

\* Consider preserves the invariant: it takes up a session.
LEMMA ConsiderInv ==
  ASSUME NEW a \in Alloc, Inv, Consider(a)
  PROVE  Inv'
BY DEF Inv, TypeOK, AwaitInv, TokenInv, OwnInv, StartInv, AckInv,
       StopIsFinal, CommittedFirst, InspectionStable, Governing,
       Command, Worker, Consider

\* SendStop preserves the invariant: the first command of the pass for this allocation.
LEMMA SendStopInv ==
  ASSUME NEW a \in Alloc, Inv, SendStop(a)
  PROVE  Inv'
<1> USE DEF Inv, SendStop, Send
<1>1. TypeOK'
  <2>1. [op |-> "stop", alloc |-> a, gen |-> rowGen[a], fence |-> fence] \in Command
    BY DEF TypeOK, AwaitInv, Command
  <2> QED
    BY <2>1 DEF TypeOK, AwaitInv
<1>2. AwaitInv'
  BY DEF TypeOK, AwaitInv, Command, Worker
<1>3. TokenInv'
  BY DEF TypeOK, AwaitInv, TokenInv, OwnInv, Governing, Command, Worker
<1>4. OwnInv'
  BY DEF TypeOK, AwaitInv, TokenInv, OwnInv, Governing, Command, Worker
<1>5. StartInv'
  BY DEF TypeOK, AwaitInv, TokenInv, OwnInv, StartInv, Governing, StopIsFinal, Command, Worker
<1>6. AckInv'
  BY DEF TypeOK, AwaitInv, TokenInv, OwnInv, AckInv, Governing, Command, Worker
<1>7. StopIsFinal'
  BY DEF TypeOK, AwaitInv, AckInv, StartInv, StopIsFinal, Command, Worker
<1>8. CommittedFirst'
  BY DEF TypeOK, AwaitInv, StartInv, CommittedFirst, Command, Worker
<1>9. InspectionStable'
  BY DEF TypeOK, AwaitInv, TokenInv, OwnInv, Governing, InspectionStable, Command, Worker
<1> QED
  BY <1>1, <1>2, <1>3, <1>4, <1>5, <1>6, <1>7, <1>8, <1>9

\* Inspect preserves the invariant: what is seen is what is there.
LEMMA InspectInv ==
  ASSUME Inv, Inspect
  PROVE  Inv'
<1> USE DEF Inv, Inspect
<1>1. TypeOK'
  BY DEF TypeOK, Command, Worker
<1>2. AwaitInv'
  BY DEF TypeOK, AwaitInv, Command, Worker
<1>3. TokenInv'
  BY DEF TypeOK, AwaitInv, TokenInv, OwnInv, Governing, Command, Worker
<1>4. OwnInv'
  BY DEF TypeOK, AwaitInv, TokenInv, OwnInv, Governing, Command, Worker
<1>5. StartInv'
  BY DEF TypeOK, AwaitInv, TokenInv, OwnInv, StartInv, Governing, StopIsFinal, Command, Worker
<1>6. AckInv'
  BY DEF TypeOK, AwaitInv, TokenInv, OwnInv, AckInv, Governing, Command, Worker
<1>7. StopIsFinal'
  BY DEF TypeOK, AwaitInv, AckInv, StartInv, StopIsFinal, Command, Worker
<1>8. CommittedFirst'
  BY DEF TypeOK, AwaitInv, StartInv, CommittedFirst, Command, Worker
<1>9. InspectionStable'
  BY DEF TypeOK, AwaitInv, TokenInv, OwnInv, Governing, InspectionStable, Command, Worker
<1> QED
  BY <1>1, <1>2, <1>3, <1>4, <1>5, <1>6, <1>7, <1>8, <1>9

\* LeaveAlone preserves the invariant: nothing is sent.
LEMMA LeaveAloneInv ==
  ASSUME Inv, LeaveAlone
  PROVE  Inv'
<1> USE DEF Inv, LeaveAlone
<1>1. TypeOK'
  BY DEF TypeOK, Command, Worker
<1>2. AwaitInv'
  BY DEF TypeOK, AwaitInv, Command, Worker
<1>3. TokenInv'
  BY DEF TypeOK, AwaitInv, TokenInv, OwnInv, Governing, Command, Worker
<1>4. OwnInv'
  BY DEF TypeOK, AwaitInv, TokenInv, OwnInv, Governing, Command, Worker
<1>5. StartInv'
  BY DEF TypeOK, AwaitInv, TokenInv, OwnInv, StartInv, Governing, StopIsFinal, Command, Worker
<1>6. AckInv'
  BY DEF TypeOK, AwaitInv, TokenInv, OwnInv, AckInv, Governing, Command, Worker
<1>7. StopIsFinal'
  BY DEF TypeOK, AwaitInv, AckInv, StartInv, StopIsFinal, Command, Worker
<1>8. CommittedFirst'
  BY DEF TypeOK, AwaitInv, StartInv, CommittedFirst, Command, Worker
<1>9. InspectionStable'
  BY DEF TypeOK, AwaitInv, TokenInv, OwnInv, Governing, InspectionStable, Command, Worker
<1> QED
  BY <1>1, <1>2, <1>3, <1>4, <1>5, <1>6, <1>7, <1>8, <1>9

\* SendUpdate preserves the invariant: the first command of the pass for the current allocation.
LEMMA SendUpdateInv ==
  ASSUME Inv, SendUpdate
  PROVE  Inv'
<1> USE DEF Inv, SendUpdate, Send
<1>1. TypeOK'
  <2>1. [op |-> "update", alloc |-> cur, gen |-> rowGen[cur], fence |-> fence] \in Command
    BY DEF TypeOK, AwaitInv, Command
  <2> QED
    BY <2>1 DEF TypeOK, AwaitInv
<1>2. AwaitInv'
  BY DEF TypeOK, AwaitInv, Command, Worker
<1>3. TokenInv'
  BY DEF TypeOK, AwaitInv, TokenInv, OwnInv, Governing, Command, Worker
<1>4. OwnInv'
  BY DEF TypeOK, AwaitInv, TokenInv, OwnInv, Governing, Command, Worker
<1>5. StartInv'
  BY DEF TypeOK, AwaitInv, TokenInv, OwnInv, StartInv, Governing, StopIsFinal, Command, Worker
<1>6. AckInv'
  BY DEF TypeOK, AwaitInv, TokenInv, OwnInv, AckInv, Governing, Command, Worker
<1>7. StopIsFinal'
  BY DEF TypeOK, AwaitInv, AckInv, StartInv, StopIsFinal, Command, Worker
<1>8. CommittedFirst'
  BY DEF TypeOK, AwaitInv, StartInv, CommittedFirst, Command, Worker
<1>9. InspectionStable'
  BY DEF TypeOK, AwaitInv, TokenInv, OwnInv, Governing, InspectionStable, Command, Worker
<1> QED
  BY <1>1, <1>2, <1>3, <1>4, <1>5, <1>6, <1>7, <1>8, <1>9

\* GiveUp preserves the invariant: the first command of the pass for the current allocation.
LEMMA GiveUpInv ==
  ASSUME Inv, GiveUp
  PROVE  Inv'
<1> USE DEF Inv, GiveUp, Send
<1>1. TypeOK'
  <2>1. [op |-> "stop", alloc |-> cur, gen |-> rowGen[cur], fence |-> fence] \in Command
    BY DEF TypeOK, AwaitInv, Command
  <2> QED
    BY <2>1 DEF TypeOK, AwaitInv
<1>2. AwaitInv'
  BY DEF TypeOK, AwaitInv, Command, Worker
<1>3. TokenInv'
  BY DEF TypeOK, AwaitInv, TokenInv, OwnInv, Governing, Command, Worker
<1>4. OwnInv'
  BY DEF TypeOK, AwaitInv, TokenInv, OwnInv, Governing, Command, Worker
<1>5. StartInv'
  BY DEF TypeOK, AwaitInv, TokenInv, OwnInv, StartInv, Governing, StopIsFinal, Command, Worker
<1>6. AckInv'
  BY DEF TypeOK, AwaitInv, TokenInv, OwnInv, AckInv, Governing, Command, Worker
<1>7. StopIsFinal'
  BY DEF TypeOK, AwaitInv, AckInv, StartInv, StopIsFinal, Command, Worker
<1>8. CommittedFirst'
  BY DEF TypeOK, AwaitInv, StartInv, CommittedFirst, Command, Worker
<1>9. InspectionStable'
  BY DEF TypeOK, AwaitInv, TokenInv, OwnInv, Governing, InspectionStable, Command, Worker
<1> QED
  BY <1>1, <1>2, <1>3, <1>4, <1>5, <1>6, <1>7, <1>8, <1>9

\* CommitAndStart preserves the invariant: the generation is committed with the command.
LEMMA CommitAndStartInv ==
  ASSUME NEW changed \in BOOLEAN, Inv, CommitAndStart(changed)
  PROVE  Inv'
<1> USE DEF Inv, CommitAndStart, Send, NextGeneration
<1>1. TypeOK'
  <2> DEFINE g == NextGeneration(changed)
             m == [op |-> "start", alloc |-> cur, gen |-> g, fence |-> fence]
  <2>1. cur \in Alloc /\ g \in Nat
    BY DEF TypeOK, AwaitInv
  <2>2. m \in Command
    BY <2>1 DEF TypeOK, Command
  <2>3. /\ net' = net \cup {m} /\ await' = m /\ rowGen' = [rowGen EXCEPT ![cur] = g]
        /\ reply' = "none" /\ pc' = "await" /\ hb' = 0 /\ cur' = None /\ seen' = FALSE
        /\ UNCHANGED <<dbFence, row, fence, todo, orphans, memFence, fenceFile, job, worker, backup>>
    OBVIOUS
  <2> HIDE DEF g, m, CommitAndStart
  <2> QED
    BY <2>1, <2>2, <2>3 DEF TypeOK
<1>2. AwaitInv'
  BY DEF TypeOK, AwaitInv, Command, Worker
<1>3. TokenInv'
  BY DEF TypeOK, AwaitInv, TokenInv, OwnInv, Governing, Command, Worker
<1>4. OwnInv'
  BY DEF TypeOK, AwaitInv, TokenInv, OwnInv, Governing, Command, Worker
<1>5. StartInv'
  BY DEF TypeOK, AwaitInv, TokenInv, OwnInv, StartInv, Governing, StopIsFinal, Command, Worker
<1>6. AckInv'
  BY DEF TypeOK, AwaitInv, TokenInv, OwnInv, AckInv, Governing, Command, Worker
<1>7. StopIsFinal'
  BY DEF TypeOK, AwaitInv, AckInv, StartInv, StopIsFinal, Command, Worker
<1>8. CommittedFirst'
  BY DEF TypeOK, AwaitInv, StartInv, CommittedFirst, Command, Worker
<1>9. InspectionStable'
  BY DEF TypeOK, AwaitInv, TokenInv, OwnInv, Governing, InspectionStable, Command, Worker
<1> QED
  BY <1>1, <1>2, <1>3, <1>4, <1>5, <1>6, <1>7, <1>8, <1>9

\* CommitStopped preserves the invariant: the container is gone and every start left is behind the watermark.
LEMMA CommitStoppedInv ==
  ASSUME Inv, CommitStopped
  PROVE  Inv'
<1> USE DEF Inv, CommitStopped
<1>1. TypeOK'
  BY DEF TypeOK, Command, Worker
<1>2. AwaitInv'
  BY DEF TypeOK, AwaitInv, Command, Worker
<1>3. TokenInv'
  BY DEF TypeOK, AwaitInv, TokenInv, OwnInv, Governing, Command, Worker
<1>4. OwnInv'
  BY DEF TypeOK, AwaitInv, TokenInv, OwnInv, Governing, Command, Worker
<1>5. StartInv'
  BY DEF TypeOK, AwaitInv, TokenInv, OwnInv, StartInv, Governing, StopIsFinal, Command, Worker
<1>6. AckInv'
  BY DEF TypeOK, AwaitInv, TokenInv, OwnInv, AckInv, Governing, Command, Worker
<1>7. StopIsFinal'
  BY DEF TypeOK, AwaitInv, AckInv, StartInv, StopIsFinal, Command, Worker
<1>8. CommittedFirst'
  BY DEF TypeOK, AwaitInv, StartInv, CommittedFirst, Command, Worker
<1>9. InspectionStable'
  BY DEF TypeOK, AwaitInv, TokenInv, OwnInv, Governing, InspectionStable, Command, Worker
<1> QED
  BY <1>1, <1>2, <1>3, <1>4, <1>5, <1>6, <1>7, <1>8, <1>9

\* NextSession preserves the invariant: it goes on after an answer.
LEMMA NextSessionInv ==
  ASSUME Inv, NextSession
  PROVE  Inv'
BY DEF Inv, TypeOK, AwaitInv, TokenInv, OwnInv, StartInv, AckInv,
       StopIsFinal, CommittedFirst, InspectionStable, Governing,
       Command, Worker, NextSession

\* ListWorkers preserves the invariant: it lists the containers.
LEMMA ListWorkersInv ==
  ASSUME Inv, ListWorkers
  PROVE  Inv'
BY DEF Inv, TypeOK, AwaitInv, TokenInv, OwnInv, StartInv, AckInv,
       StopIsFinal, CommittedFirst, InspectionStable, Governing,
       Command, Worker, ListWorkers

\* KeepWorker preserves the invariant: it keeps a container.
LEMMA KeepWorkerInv ==
  ASSUME NEW a \in Alloc, Inv, KeepWorker(a)
  PROVE  Inv'
BY DEF Inv, TypeOK, AwaitInv, TokenInv, OwnInv, StartInv, AckInv,
       StopIsFinal, CommittedFirst, InspectionStable, Governing,
       Command, Worker, KeepWorker

\* SweepOrphan preserves the invariant: every session has been reconciled by now.
LEMMA SweepOrphanInv ==
  ASSUME NEW a \in Alloc, Inv, SweepOrphan(a)
  PROVE  Inv'
<1> USE DEF Inv, SweepOrphan, Send
<1>1. TypeOK'
  <2>1. [op |-> "sweep", alloc |-> a, gen |-> 0, fence |-> fence] \in Command
    BY DEF TypeOK, AwaitInv, Command
  <2> QED
    BY <2>1 DEF TypeOK, AwaitInv
<1>2. AwaitInv'
  BY DEF TypeOK, AwaitInv, Command, Worker
<1>3. TokenInv'
  BY DEF TypeOK, AwaitInv, TokenInv, OwnInv, Governing, Command, Worker
<1>4. OwnInv'
  BY DEF TypeOK, AwaitInv, TokenInv, OwnInv, Governing, Command, Worker
<1>5. StartInv'
  BY DEF TypeOK, AwaitInv, TokenInv, OwnInv, StartInv, Governing, StopIsFinal, Command, Worker
<1>6. AckInv'
  BY DEF TypeOK, AwaitInv, TokenInv, OwnInv, AckInv, Governing, Command, Worker
<1>7. StopIsFinal'
  BY DEF TypeOK, AwaitInv, AckInv, StartInv, StopIsFinal, Command, Worker
<1>8. CommittedFirst'
  BY DEF TypeOK, AwaitInv, StartInv, CommittedFirst, Command, Worker
<1>9. InspectionStable'
  BY DEF TypeOK, AwaitInv, TokenInv, OwnInv, Governing, InspectionStable, Command, Worker
<1> QED
  BY <1>1, <1>2, <1>3, <1>4, <1>5, <1>6, <1>7, <1>8, <1>9

\* SweepAnswered preserves the invariant: it goes on with the sweep.
LEMMA SweepAnsweredInv ==
  ASSUME Inv, SweepAnswered
  PROVE  Inv'
BY DEF Inv, TypeOK, AwaitInv, TokenInv, OwnInv, StartInv, AckInv,
       StopIsFinal, CommittedFirst, InspectionStable, Governing,
       Command, Worker, SweepAnswered

\* PassEnds preserves the invariant: commands on their way keep their tokens.
LEMMA PassEndsInv ==
  ASSUME Inv, PassEnds
  PROVE  Inv'
<1> USE DEF Inv, PassEnds, EndPass
<1>1. TypeOK'
  BY DEF TypeOK, Command, Worker
<1>2. AwaitInv'
  BY DEF TypeOK, AwaitInv, Command, Worker
<1>3. TokenInv'
  BY DEF TypeOK, AwaitInv, TokenInv, OwnInv, Governing, Command, Worker
<1>4. OwnInv'
  BY DEF TypeOK, AwaitInv, TokenInv, OwnInv, Governing, Command, Worker
<1>5. StartInv'
  BY DEF TypeOK, AwaitInv, TokenInv, OwnInv, StartInv, Governing, StopIsFinal, Command, Worker
<1>6. AckInv'
  BY DEF TypeOK, AwaitInv, TokenInv, OwnInv, AckInv, Governing, Command, Worker
<1>7. StopIsFinal'
  BY DEF TypeOK, AwaitInv, AckInv, StartInv, StopIsFinal, Command, Worker
<1>8. CommittedFirst'
  BY DEF TypeOK, AwaitInv, StartInv, CommittedFirst, Command, Worker
<1>9. InspectionStable'
  BY DEF TypeOK, AwaitInv, TokenInv, OwnInv, Governing, InspectionStable, Command, Worker
<1> QED
  BY <1>1, <1>2, <1>3, <1>4, <1>5, <1>6, <1>7, <1>8, <1>9

\* Accept preserves the invariant: it stores the watermark first.
LEMMA AcceptInv ==
  ASSUME NEW m \in net, Inv, Accept(m)
  PROVE  Inv'
BY DEF Inv, TypeOK, AwaitInv, TokenInv, OwnInv, StartInv, AckInv,
       StopIsFinal, CommittedFirst, InspectionStable, Governing,
       Command, Worker, Accept, Watermark, Larger

\* Refuse preserves the invariant: it executes nothing.
LEMMA RefuseInv ==
  ASSUME NEW m \in net, Inv, Refuse(m)
  PROVE  Inv'
BY DEF Inv, TypeOK, AwaitInv, TokenInv, OwnInv, StartInv, AckInv,
       StopIsFinal, CommittedFirst, InspectionStable, Governing,
       Command, Worker, Refuse, Answer, Watermark, Larger

\* RunUpdate preserves the invariant: it touches no container.
LEMMA RunUpdateInv ==
  ASSUME Inv, RunUpdate
  PROVE  Inv'
BY DEF Inv, TypeOK, AwaitInv, TokenInv, OwnInv, StartInv, AckInv,
       StopIsFinal, CommittedFirst, InspectionStable, Governing,
       Command, Worker, RunUpdate, JobDone, Answer

\* RunStop preserves the invariant: a container goes, never of the allocation under inspection.
LEMMA RunStopInv ==
  ASSUME Inv, RunStop
  PROVE  Inv'
<1> USE DEF Inv, RunStop, JobDone, Answer
<1>1. TypeOK'
  <2>1. job.alloc \in Alloc
    BY DEF AwaitInv
  <2>2. worker[job.alloc] # None =>
          \A u \in BOOLEAN : [worker[job.alloc] EXCEPT !.up = u] \in Worker
    BY <2>1 DEF TypeOK, Worker
  <2>3. worker' \in [Alloc -> Worker \cup {None}]
    <3>1. CASE worker' = [worker EXCEPT ![job.alloc] = None]
      BY <3>1, <2>1 DEF TypeOK
    <3>2. CASE /\ worker[job.alloc] # None
               /\ \E left \in {worker[job.alloc].up, FALSE} :
                    worker' = [worker EXCEPT ![job.alloc].up = left]
      <4>1. worker[job.alloc].up \in BOOLEAN
        BY <3>2, <2>1 DEF TypeOK, Worker
      <4>2. PICK left \in BOOLEAN : worker' = [worker EXCEPT ![job.alloc].up = left]
        BY <3>2, <4>1
      <4> QED
        BY <3>2, <4>2, <2>1, <2>2 DEF TypeOK
    <3> QED
      BY <3>1, <3>2
  <2> QED
    BY <2>3 DEF TypeOK
<1>2. AwaitInv'
  BY DEF TypeOK, AwaitInv, Command, Worker
<1>3. TokenInv'
  BY DEF TypeOK, AwaitInv, TokenInv, OwnInv, Governing, Command, Worker
<1>4. OwnInv'
  BY DEF TypeOK, AwaitInv, TokenInv, OwnInv, Governing, Command, Worker
<1>5. StartInv'
  BY DEF TypeOK, AwaitInv, TokenInv, OwnInv, StartInv, Governing, StopIsFinal, Command, Worker
<1>6. AckInv'
  BY DEF TypeOK, AwaitInv, TokenInv, OwnInv, AckInv, Governing, Command, Worker
<1>7. StopIsFinal'
  BY DEF TypeOK, AwaitInv, AckInv, StartInv, StopIsFinal, Command, Worker
<1>8. CommittedFirst'
  BY DEF TypeOK, AwaitInv, StartInv, CommittedFirst, Command, Worker
<1>9. InspectionStable'
  BY DEF TypeOK, AwaitInv, TokenInv, OwnInv, Governing, InspectionStable, Command, Worker
<1> QED
  BY <1>1, <1>2, <1>3, <1>4, <1>5, <1>6, <1>7, <1>8, <1>9

\* StartRefused preserves the invariant: it touches no container.
LEMMA StartRefusedInv ==
  ASSUME Inv, StartRefused
  PROVE  Inv'
BY DEF Inv, TypeOK, AwaitInv, TokenInv, OwnInv, StartInv, AckInv,
       StopIsFinal, CommittedFirst, InspectionStable, Governing,
       Command, Worker, StartRefused, JobDone, Answer

\* StartLaunches preserves the invariant: a container comes, for an allocation that is open.
LEMMA StartLaunchesInv ==
  ASSUME Inv, StartLaunches
  PROVE  Inv'
<1> USE DEF Inv, StartLaunches, Adopted, JobDone, Answer
<1>1. TypeOK'
  <2>1. job.alloc \in Alloc
    BY DEF AwaitInv
  <2>2. [gen |-> job.gen, fence |-> job.fence, up |-> TRUE] \in Worker
    BY DEF TypeOK, Command, Worker
  <2>3. worker' \in [Alloc -> Worker \cup {None}]
    BY <2>1, <2>2 DEF TypeOK
  <2> QED
    BY <2>3 DEF TypeOK
<1>2. AwaitInv'
  BY DEF TypeOK, AwaitInv, Command, Worker
<1>3. TokenInv'
  BY DEF TypeOK, AwaitInv, TokenInv, OwnInv, Governing, Command, Worker
<1>4. OwnInv'
  BY DEF TypeOK, AwaitInv, TokenInv, OwnInv, Governing, Command, Worker
<1>5. StartInv'
  BY DEF TypeOK, AwaitInv, TokenInv, OwnInv, StartInv, Governing, StopIsFinal, Command, Worker
<1>6. AckInv'
  BY DEF TypeOK, AwaitInv, TokenInv, OwnInv, AckInv, Governing, Command, Worker
<1>7. StopIsFinal'
  BY DEF TypeOK, AwaitInv, AckInv, StartInv, StopIsFinal, Command, Worker
<1>8. CommittedFirst'
  BY DEF TypeOK, AwaitInv, StartInv, CommittedFirst, Command, Worker
<1>9. InspectionStable'
  BY DEF TypeOK, AwaitInv, TokenInv, OwnInv, Governing, InspectionStable, Command, Worker
<1> QED
  BY <1>1, <1>2, <1>3, <1>4, <1>5, <1>6, <1>7, <1>8, <1>9

\* AgentCrash preserves the invariant: it forgets only what is stored.
LEMMA AgentCrashInv ==
  ASSUME Inv, AgentCrash
  PROVE  Inv'
BY DEF Inv, TypeOK, AwaitInv, TokenInv, OwnInv, StartInv, AckInv,
       StopIsFinal, CommittedFirst, InspectionStable, Governing,
       Command, Worker, AgentCrash

\* WorkerExit preserves the invariant: the container stays.
LEMMA WorkerExitInv ==
  ASSUME NEW a \in Alloc, Inv, WorkerExit(a)
  PROVE  Inv'
<1> USE DEF Inv, WorkerExit
<1>1. TypeOK'
  <2>1. [worker[a] EXCEPT !.up = FALSE] \in Worker
    BY DEF TypeOK, Worker
  <2>2. worker' \in [Alloc -> Worker \cup {None}]
    BY <2>1 DEF TypeOK
  <2> QED
    BY <2>2 DEF TypeOK
<1>2. AwaitInv'
  BY DEF TypeOK, AwaitInv, Command, Worker
<1>3. TokenInv'
  BY DEF TypeOK, AwaitInv, TokenInv, OwnInv, Governing, Command, Worker
<1>4. OwnInv'
  BY DEF TypeOK, AwaitInv, TokenInv, OwnInv, Governing, Command, Worker
<1>5. StartInv'
  BY DEF TypeOK, AwaitInv, TokenInv, OwnInv, StartInv, Governing, StopIsFinal, Command, Worker
<1>6. AckInv'
  BY DEF TypeOK, AwaitInv, TokenInv, OwnInv, AckInv, Governing, Command, Worker
<1>7. StopIsFinal'
  BY DEF TypeOK, AwaitInv, AckInv, StartInv, StopIsFinal, Command, Worker
<1>8. CommittedFirst'
  BY DEF TypeOK, AwaitInv, StartInv, CommittedFirst, Command, Worker
<1>9. InspectionStable'
  <2>1. [worker[a] EXCEPT !.up = FALSE] # None
    BY DEF TypeOK, Worker
  <2> QED
    BY <2>1 DEF TypeOK, AwaitInv, TokenInv, OwnInv, Governing, InspectionStable
<1> QED
  BY <1>1, <1>2, <1>3, <1>4, <1>5, <1>6, <1>7, <1>8, <1>9

\* Snapshot preserves the invariant: the counter and the watermark are copied.
LEMMA SnapshotInv ==
  ASSUME Inv, Snapshot
  PROVE  Inv'
<1> USE DEF Inv, Snapshot, EndPass
<1>1. TypeOK'
  BY DEF TypeOK, Command, Worker
<1>2. AwaitInv'
  BY DEF TypeOK, AwaitInv, Command, Worker
<1>3. TokenInv'
  BY DEF TypeOK, AwaitInv, TokenInv, OwnInv, Governing, Command, Worker
<1>4. OwnInv'
  BY DEF TypeOK, AwaitInv, TokenInv, OwnInv, Governing, Command, Worker
<1>5. StartInv'
  BY DEF TypeOK, AwaitInv, TokenInv, OwnInv, StartInv, Governing, StopIsFinal, Command, Worker
<1>6. AckInv'
  BY DEF TypeOK, AwaitInv, TokenInv, OwnInv, AckInv, Governing, Command, Worker
<1>7. StopIsFinal'
  BY DEF TypeOK, AwaitInv, AckInv, StartInv, StopIsFinal, Command, Worker
<1>8. CommittedFirst'
  BY DEF TypeOK, AwaitInv, StartInv, CommittedFirst, Command, Worker
<1>9. InspectionStable'
  BY DEF TypeOK, AwaitInv, TokenInv, OwnInv, Governing, InspectionStable, Command, Worker
<1> QED
  BY <1>1, <1>2, <1>3, <1>4, <1>5, <1>6, <1>7, <1>8, <1>9

\* RestoreSnapshot preserves the invariant: nothing runs and nothing is on its way.
LEMMA RestoreSnapshotInv ==
  ASSUME Inv, RestoreSnapshot
  PROVE  Inv'
<1> USE DEF Inv, RestoreSnapshot, RestoredWatermark, EndPass, Larger
<1>1. TypeOK'
  BY DEF TypeOK, Command, Worker
<1>2. AwaitInv'
  BY DEF TypeOK, AwaitInv, Command, Worker
<1>3. TokenInv'
  BY DEF TypeOK, AwaitInv, TokenInv, OwnInv, Governing, Command, Worker
<1>4. OwnInv'
  BY DEF TypeOK, AwaitInv, TokenInv, OwnInv, Governing, Command, Worker
<1>5. StartInv'
  BY DEF TypeOK, AwaitInv, TokenInv, OwnInv, StartInv, Governing, StopIsFinal, Command, Worker
<1>6. AckInv'
  BY DEF TypeOK, AwaitInv, TokenInv, OwnInv, AckInv, Governing, Command, Worker
<1>7. StopIsFinal'
  BY DEF TypeOK, AwaitInv, AckInv, StartInv, StopIsFinal, Command, Worker
<1>8. CommittedFirst'
  BY DEF TypeOK, AwaitInv, StartInv, CommittedFirst, Command, Worker
<1>9. InspectionStable'
  BY DEF TypeOK, AwaitInv, TokenInv, OwnInv, Governing, InspectionStable, Command, Worker
<1> QED
  BY <1>1, <1>2, <1>3, <1>4, <1>5, <1>6, <1>7, <1>8, <1>9

-----------------------------------------------------------------------------
(* The theorems *)

LEMMA InitInv == Init => Inv
<1> SUFFICES ASSUME Init PROVE Inv
  OBVIOUS
<1> USE DEF Init
<1>1. TypeOK
  BY DEF TypeOK
<1>2. AwaitInv /\ TokenInv /\ OwnInv
  BY DEF AwaitInv, TokenInv, OwnInv, Governing
<1>3. StartInv /\ AckInv /\ StopIsFinal /\ CommittedFirst /\ InspectionStable
  BY DEF StartInv, AckInv, StopIsFinal, CommittedFirst, InspectionStable
<1> QED
  BY <1>1, <1>2, <1>3 DEF Inv

LEMMA NextInv == Inv /\ [Next]_vars => Inv'
<1> SUFFICES ASSUME Inv, [Next]_vars PROVE Inv'
  OBVIOUS
<1>1. CASE Controller
  BY <1>1, NextFenceInv, HeartbeatInv, AdvanceFenceInv, DrainAcknowledgedInv, SkipInv,
     ConsiderInv, SendStopInv, InspectInv, LeaveAloneInv, SendUpdateInv, GiveUpInv,
     CommitAndStartInv, CommitStoppedInv, NextSessionInv, ListWorkersInv, KeepWorkerInv,
     SweepOrphanInv, SweepAnsweredInv, PassEndsInv
     DEF Controller
<1>2. CASE Agent
  BY <1>2, AcceptInv, RefuseInv, RunUpdateInv, RunStopInv, StartRefusedInv,
     StartLaunchesInv, AgentCrashInv, WorkerExitInv
     DEF Agent
<1>3. CASE Operator
  BY <1>3, SnapshotInv, RestoreSnapshotInv DEF Operator
<1>4. CASE UNCHANGED vars
  BY <1>4 DEF vars, Inv, TypeOK, AwaitInv, TokenInv, OwnInv, StartInv, AckInv,
       StopIsFinal, CommittedFirst, InspectionStable, Governing
<1> QED
  BY <1>1, <1>2, <1>3, <1>4 DEF Next

\* The inductive invariant holds in every reachable state.
THEOREM Invariance == Spec => []Inv
BY InitInv, NextInv, PTL DEF Spec

\* Every variable keeps its type, whatever is lost, delayed or restored.
THEOREM TypeCorrect == Spec => []TypeOK
<1>1. Inv => TypeOK
  BY DEF Inv
<1> QED
  BY <1>1, Invariance, PTL

\* No container exists for an allocation whose end was committed, for any
\* number of passes, delayed commands, crashes and restores.
THEOREM StoppedForever == Spec => []StopIsFinal
<1>1. Inv => StopIsFinal
  BY DEF Inv
<1> QED
  BY <1>1, Invariance, PTL

\* A container always has its allocation and its generation in the database.
THEOREM WorkersAreCommitted == Spec => []CommittedFirst
<1>1. Inv => CommittedFirst
  BY DEF Inv
<1> QED
  BY <1>1, Invariance, PTL

\* No command of an earlier pass invalidates what Inspect has seen.
THEOREM InspectionHolds == Spec => []InspectionStable
<1>1. Inv => InspectionStable
  BY DEF Inv
<1> QED
  BY <1>1, Invariance, PTL

\* A pass that has announced itself is never behind the agent's watermark.
THEOREM NeverFencedOut == Spec => []NotFencedOut
<1>1. Inv => NotFencedOut
  BY DEF Inv, TypeOK, TokenInv, NotFencedOut, Governing
<1> QED
  BY <1>1, Invariance, PTL

\* While a pass reconciles, the agent executes no command but the pass's own.
THEOREM OnlyOwnCommands == Spec => []PassGoverns
<1>1. Inv => PassGoverns
  BY DEF Inv, TokenInv, PassGoverns, Governing
<1> QED
  BY <1>1, Invariance, PTL

-----------------------------------------------------------------------------
(* Generations *)

IsStart(m) == m # None /\ m.op = "start"

\* Of the starts that can still be executed there is one per allocation, and
\* its generation is ahead of the container's.
FreshInv ==
  /\ IsStart(job) => job \notin net
  /\ \A m \in net \cup {job} : IsStart(m) => m.fence <= fenceFile
  /\ \A m, n \in net \cup {job} :
       /\ IsStart(m) /\ IsStart(n)
       /\ m.fence = fenceFile /\ n.fence = fenceFile
       /\ m.alloc = n.alloc
       => m = n
  /\ \A m \in net \cup {job} :
       IsStart(m) /\ m.fence = fenceFile /\ worker[m.alloc] # None
       => worker[m.alloc].gen < m.gen

\* A step that sends no start and leaves the agent and Docker alone.
LEMMA FreshByController ==
  ASSUME FreshInv, UNCHANGED <<job, fenceFile, worker>>,
         \A m \in net' : m \in net \/ ~IsStart(m)
  PROVE  FreshInv'
BY DEF FreshInv, IsStart

\* CommitAndStart sends the only start of this pass for its allocation, with
\* a generation above that of the container Inspect has seen.
LEMMA FreshByStart ==
  ASSUME Inv, FreshInv, NEW changed \in BOOLEAN, CommitAndStart(changed)
  PROVE  FreshInv'
<1> DEFINE s == [op |-> "start", alloc |-> cur, gen |-> NextGeneration(changed), fence |-> fence]
<1>1. /\ net' = net \cup {s}
      /\ UNCHANGED <<job, fenceFile, worker>>
  BY DEF CommitAndStart, Send
<1>2. /\ cur \in Alloc
      /\ fence = fenceFile /\ fence = dbFence /\ fence \in Nat
      /\ pc = "decide"
  BY DEF CommitAndStart, Inv, TypeOK, AwaitInv, TokenInv, Governing
<1>3. \A m \in net \cup {job} : IsStart(m) /\ m.fence = fenceFile => m.alloc # cur
  BY <1>2 DEF Inv, OwnInv, IsStart
<1>4. worker[cur] # None => worker[cur].gen < NextGeneration(changed)
  <2>1. SUFFICES ASSUME worker[cur] # None PROVE worker[cur].gen < NextGeneration(changed)
    OBVIOUS
  <2>2. seen
    BY <1>2, <2>1 DEF Inv, InspectionStable
  <2>3. worker[cur].gen \in Nat /\ rowGen[cur] \in Nat /\ worker[cur].gen <= rowGen[cur]
    BY <1>2, <2>1 DEF Inv, TypeOK, CommittedFirst, Worker
  <2> QED
    BY <2>2, <2>3 DEF NextGeneration
<1>5. /\ s.op = "start" /\ s.alloc = cur /\ s.fence = fence
      /\ s.gen = NextGeneration(changed)
  OBVIOUS
<1> HIDE DEF s
<1>6. IsStart(job) => job \notin net'
  BY <1>1, <1>2, <1>3, <1>5 DEF FreshInv, IsStart
<1>7. \A m \in (net \cup {job})' : IsStart(m) => m.fence <= fenceFile'
  BY <1>1, <1>2, <1>5 DEF FreshInv
<1>8. \A m, n \in (net \cup {job})' :
        /\ IsStart(m) /\ IsStart(n)
        /\ m.fence = fenceFile' /\ n.fence = fenceFile'
        /\ m.alloc = n.alloc
        => m = n
  BY <1>1, <1>2, <1>3, <1>5 DEF FreshInv
<1>9. \A m \in (net \cup {job})' :
        IsStart(m) /\ m.fence = fenceFile' /\ worker'[m.alloc] # None
        => worker'[m.alloc].gen < m.gen
  BY <1>1, <1>4, <1>5 DEF FreshInv
<1> QED
  BY <1>1, <1>6, <1>7, <1>8, <1>9 DEF FreshInv, IsStart

\* Accepting or refusing a command may raise the watermark, past every start.
LEMMA FreshByAccept ==
  ASSUME Inv, FreshInv, NEW m \in net, Accept(m) \/ Refuse(m)
  PROVE  FreshInv'
<1>1. /\ m.fence \in Nat /\ fenceFile \in Nat
      /\ \A n \in net \cup {job} : IsStart(n) => n.fence \in Nat
  BY DEF Inv, TypeOK, Command, IsStart
<1>2. /\ fenceFile' \in {fenceFile, Larger(fenceFile, m.fence)}
      /\ net' = net \ {m} /\ UNCHANGED worker
      /\ job' \in {job, m}
      /\ job = None
  BY DEF Accept, Refuse
<1>3. fenceFile' \in Nat /\ fenceFile' >= fenceFile
  BY <1>1, <1>2 DEF Larger
<1>4. \A n \in (net \cup {job})' : n \in net \cup {job}
  BY <1>2
<1>5. IsStart(job') => job' \notin net'
  BY <1>2 DEF IsStart
<1>6. \A n \in net \cup {job} :
        IsStart(n) => n.fence <= fenceFile' /\ (n.fence = fenceFile' => n.fence = fenceFile)
  BY <1>1, <1>3 DEF FreshInv
<1> QED
  BY <1>2, <1>4, <1>5, <1>6 DEF FreshInv, IsStart

\* A start that launches its container was the last one for it.
LEMMA FreshByLaunch ==
  ASSUME Inv, FreshInv, StartLaunches
  PROVE  FreshInv'
<1>1. /\ job' = None /\ UNCHANGED <<net, fenceFile>>
      /\ IsStart(job) /\ job.fence = fenceFile /\ job.alloc \in Alloc
      /\ \A a \in Alloc : a # job.alloc => worker'[a] = worker[a]
  BY DEF StartLaunches, JobDone, IsStart, Inv, TypeOK, AwaitInv, TokenInv
<1>2. \A m \in net : IsStart(m) /\ m.fence = fenceFile => m.alloc # job.alloc
  BY <1>1 DEF FreshInv
<1>3. \A m \in net : IsStart(m) => m.alloc \in Alloc
  BY DEF Inv, AwaitInv, IsStart
<1> QED
  BY <1>1, <1>2, <1>3 DEF FreshInv, IsStart

\* Containers that stop or exit keep their generation.
LEMMA FreshByExit ==
  ASSUME Inv, FreshInv, UNCHANGED <<net, fenceFile>>, job' \in {job, None},
         \A a \in Alloc : worker'[a] # None => /\ worker[a] # None
                                               /\ worker'[a].gen = worker[a].gen
  PROVE  FreshInv'
<1>1. \A m \in net \cup {job} : IsStart(m) => m.alloc \in Alloc
  BY DEF Inv, AwaitInv, IsStart
<1> QED
  BY <1>1 DEF FreshInv, IsStart

LEMMA FreshNext == Inv /\ FreshInv /\ [Next]_vars => FreshInv'
<1> SUFFICES ASSUME Inv, FreshInv, [Next]_vars PROVE FreshInv'
  OBVIOUS
<1>1. CASE Controller
  <2>1. CASE \E changed \in BOOLEAN : CommitAndStart(changed)
    BY <2>1, FreshByStart
  <2>2. CASE ~ \E changed \in BOOLEAN : CommitAndStart(changed)
    <3>1. UNCHANGED <<job, fenceFile, worker>>
      BY <1>1, <2>2 DEF Controller, NextFence, Heartbeat, AdvanceFence, DrainAcknowledged,
         Skip, Consider, SendStop, KeepWorker, SweepOrphan, Inspect, LeaveAlone, SendUpdate,
         GiveUp, CommitStopped, NextSession, ListWorkers, SweepAnswered, PassEnds
    <3>2. \A m \in net' : m \in net \/ ~IsStart(m)
      BY <1>1, <2>2 DEF Controller, NextFence, Heartbeat, AdvanceFence, DrainAcknowledged,
         Skip, Consider, SendStop, KeepWorker, SweepOrphan, Inspect, LeaveAlone, SendUpdate,
         GiveUp, CommitStopped, NextSession, ListWorkers, SweepAnswered, PassEnds, Send, IsStart
    <3> QED
      BY <3>1, <3>2, FreshByController
  <2> QED
    BY <2>1, <2>2
<1>2. CASE Agent
  <2>1. CASE \E m \in net : Accept(m) \/ Refuse(m)
    BY <2>1, FreshByAccept
  <2>2. CASE StartLaunches
    BY <2>2, FreshByLaunch
  <2>3. CASE RunUpdate \/ StartRefused \/ AgentCrash
    BY <2>3, FreshByExit DEF RunUpdate, StartRefused, AgentCrash, JobDone
  <2>4. CASE RunStop
    <3>1. /\ UNCHANGED <<net, fenceFile>> /\ job' = None
          /\ worker \in [Alloc -> Worker \cup {None}]
      BY <2>4 DEF RunStop, JobDone, Inv, TypeOK
    <3>2. \A a \in Alloc : worker'[a] # None => worker[a] # None /\ worker'[a].gen = worker[a].gen
      BY <2>4, <3>1 DEF RunStop, Worker
    <3> QED
      BY <3>1, <3>2, FreshByExit
  <2>5. CASE \E a \in Alloc : WorkerExit(a)
    <3>1. /\ UNCHANGED <<net, fenceFile, job>>
          /\ worker \in [Alloc -> Worker \cup {None}]
      BY <2>5 DEF WorkerExit, Inv, TypeOK
    <3>2. \A a \in Alloc : worker'[a] # None => worker[a] # None /\ worker'[a].gen = worker[a].gen
      BY <2>5, <3>1 DEF WorkerExit, Worker
    <3> QED
      BY <3>1, <3>2, FreshByExit
  <2> QED
    BY <1>2, <2>1, <2>2, <2>3, <2>4, <2>5 DEF Agent
<1>3. CASE Snapshot
  BY <1>3, FreshByController DEF Snapshot, EndPass
<1>4. CASE RestoreSnapshot
  BY <1>4 DEF RestoreSnapshot, FreshInv, IsStart
<1>5. CASE UNCHANGED vars
  BY <1>5, FreshByController DEF vars
<1> QED
  BY <1>1, <1>2, <1>3, <1>4, <1>5 DEF Next, Operator

\* A generation is never given to a second container: when a start is executed
\* the container it finds, if any, is of an earlier generation.
THEOREM GenerationsAreFresh == Spec => []FreshGeneration
<1>1. Init => FreshInv
  BY DEF Init, FreshInv, IsStart
<1>2. Inv /\ FreshInv => FreshGeneration
  BY DEF Inv, TokenInv, FreshInv, FreshGeneration, IsStart
<1> QED
  BY <1>1, <1>2, FreshNext, Invariance, PTL DEF Spec

\* No step, a restore included, lowers the stored watermark.
THEOREM WatermarkNeverLowered == Spec => WatermarkMonotone
<1>1. Inv /\ [Next]_vars => [fenceFile' >= fenceFile]_vars
  <2> SUFFICES ASSUME Inv, Next PROVE fenceFile' >= fenceFile
    OBVIOUS
  <2>1. fenceFile \in Nat /\ \A m \in net : m.fence \in Nat
    BY DEF Inv, TypeOK, Command
  <2>2. backup.file \in Nat
    BY DEF Inv, TypeOK
  <2>3. CASE Controller
    <3>1. CASE NextFence \/ Heartbeat \/ AdvanceFence \/ DrainAcknowledged \/ Inspect \/ LeaveAlone
      BY <2>1, <3>1 DEF NextFence, Heartbeat, AdvanceFence, DrainAcknowledged, Inspect, LeaveAlone
    <3>2. CASE \E a \in Alloc : Skip(a) \/ Consider(a) \/ SendStop(a) \/ KeepWorker(a) \/ SweepOrphan(a)
      BY <2>1, <3>2 DEF Skip, Consider, SendStop, KeepWorker, SweepOrphan
    <3>3. CASE SendUpdate \/ GiveUp
      BY <2>1, <3>3 DEF SendUpdate, GiveUp
    <3>5. ASSUME NEW changed \in BOOLEAN, CommitAndStart(changed) PROVE fenceFile' >= fenceFile
      BY <2>1, <3>5 DEF CommitAndStart
    <3>4. CASE CommitStopped \/ NextSession \/ ListWorkers \/ SweepAnswered \/ PassEnds
      BY <2>1, <3>4 DEF CommitStopped, NextSession, ListWorkers, SweepAnswered, PassEnds
    <3> QED
      BY <2>3, <3>1, <3>2, <3>3, <3>4, <3>5 DEF Controller
  <2>4. CASE Agent
    BY <2>1, <2>4 DEF Agent, Accept, Refuse, Larger, RunUpdate, RunStop, StartRefused,
       StartLaunches, JobDone, AgentCrash, WorkerExit
  <2>5. CASE Operator
    BY <2>1, <2>2, <2>5 DEF Operator, Snapshot, RestoreSnapshot, RestoredWatermark, Larger
  <2> QED
    BY <2>3, <2>4, <2>5 DEF Next
<1> QED
  BY <1>1, Invariance, PTL DEF Spec, WatermarkMonotone

-----------------------------------------------------------------------------
(* Refinement *)

\* Every step of the detailed specification is one of WorkerAuthority or
\* leaves the rows and the containers' presence alone.
LEMMA StepSimulation == Inv /\ [Next]_vars => [Authority!Next]_(Authority!vars)
<1> DEFINE present == {a \in Alloc : worker[a] # None}
<1> SUFFICES ASSUME Inv, [Next]_vars PROVE [Authority!Next]_(Authority!vars)
  OBVIOUS
<1> USE DEF Authority!Next, Authority!vars
<1>0. row \in [Alloc -> RowState] /\ worker \in [Alloc -> Worker \cup {None}]
  BY DEF Inv, TypeOK
<1>1. ASSUME UNCHANGED <<row, worker>> PROVE UNCHANGED Authority!vars
  BY <1>1
<1>2. CASE Controller
  <2>1. ASSUME NEW a \in Alloc, Consider(a) PROVE [Authority!Next]_(Authority!vars)
    <3>1. row[a] \in {"absent", "active"} /\ UNCHANGED worker
      BY <2>1 DEF Consider, Inv, TypeOK, AwaitInv
    <3>2. CASE row[a] = "absent"
      BY <2>1, <3>1, <3>2 DEF Consider, Authority!Open
    <3>3. CASE row[a] = "active"
      BY <1>0, <1>1, <2>1, <3>1, <3>3 DEF Consider
    <3> QED
      BY <3>1, <3>2, <3>3
  <2>2. CASE CommitStopped
    <3>1. await.alloc \in Alloc /\ row[await.alloc] = "active" /\ worker[await.alloc] = None
      BY <2>2 DEF CommitStopped, Inv, AwaitInv, AckInv
    <3>2. Authority!Close(await.alloc)
      BY <2>2, <3>1 DEF CommitStopped, Authority!Close
    <3> QED
      BY <3>1, <3>2
  <2>3. ASSUME NEW a \in Alloc,
               Skip(a) \/ SendStop(a) \/ KeepWorker(a) \/ SweepOrphan(a)
        PROVE  UNCHANGED <<row, worker>>
    BY <2>3 DEF Skip, SendStop, KeepWorker, SweepOrphan
  <2>4. ASSUME NextFence \/ Heartbeat \/ AdvanceFence \/ DrainAcknowledged \/ Inspect \/ LeaveAlone
        PROVE  UNCHANGED <<row, worker>>
    BY <2>4 DEF NextFence, Heartbeat, AdvanceFence, DrainAcknowledged, Inspect, LeaveAlone
  <2>5. ASSUME SendUpdate \/ GiveUp PROVE UNCHANGED <<row, worker>>
    BY <2>5 DEF SendUpdate, GiveUp
  <2>6. ASSUME NEW changed \in BOOLEAN, CommitAndStart(changed) PROVE UNCHANGED <<row, worker>>
    BY <2>6 DEF CommitAndStart
  <2>7. ASSUME NextSession \/ ListWorkers \/ SweepAnswered \/ PassEnds PROVE UNCHANGED <<row, worker>>
    BY <2>7 DEF NextSession, ListWorkers, SweepAnswered, PassEnds
  <2> QED
    BY <1>1, <1>2, <2>1, <2>2, <2>3, <2>4, <2>5, <2>6, <2>7 DEF Controller
<1>3. CASE Agent
  <2>1. CASE RunStop
    <3>1. job.alloc \in Alloc /\ UNCHANGED row
      BY <2>1 DEF RunStop, JobDone, Inv, AwaitInv
    <3>2. CASE worker' = [worker EXCEPT ![job.alloc] = None]
      <4>1. PICK a \in Alloc : a = job.alloc
        BY <3>1
      <4>2. Authority!Remove(a)
        BY <1>0, <3>1, <3>2, <4>1 DEF Authority!Remove
      <4> QED
        BY <4>2
    <3>3. CASE /\ worker[job.alloc] # None
               /\ \E left \in {worker[job.alloc].up, FALSE} :
                    worker' = [worker EXCEPT ![job.alloc].up = left]
      <4>1. PICK left \in {worker[job.alloc].up, FALSE} :
              worker' = [worker EXCEPT ![job.alloc].up = left]
        BY <3>3
      <4>2. [worker[job.alloc] EXCEPT !.up = left] # None
        BY <1>0, <3>1, <3>3, <4>1 DEF Worker
      <4>3. present' = present
        BY <1>0, <3>1, <3>3, <4>1, <4>2
      <4> QED
        BY <3>1, <4>3
    <3> QED
      BY <2>1, <3>2, <3>3 DEF RunStop
  <2>2. CASE StartLaunches
    <3>1. /\ job.alloc \in Alloc /\ row[job.alloc] = "active" /\ UNCHANGED row
      BY <2>2, <1>0 DEF StartLaunches, JobDone, Inv, AwaitInv, StartInv
    <3>2. CASE worker' = [worker EXCEPT ![job.alloc] = None]
      <4>1. PICK a \in Alloc : a = job.alloc
        BY <3>1
      <4>2. Authority!Remove(a)
        BY <1>0, <3>1, <3>2, <4>1 DEF Authority!Remove
      <4> QED
        BY <4>2
    <3>3. CASE worker' = [worker EXCEPT ![job.alloc] =
                            [gen |-> job.gen, fence |-> job.fence, up |-> TRUE]]
      <4>1. [gen |-> job.gen, fence |-> job.fence, up |-> TRUE] # None
        <5>1. job \in Command
          BY <2>2 DEF StartLaunches, Inv, TypeOK
        <5>2. [gen |-> job.gen, fence |-> job.fence, up |-> TRUE] \in [gen : Nat, fence : Nat, up : BOOLEAN]
          BY <5>1 DEF Command
        <5> QED
          BY <5>2, FencingAssumption
      <4>2. PICK a \in Alloc : a = job.alloc
        BY <3>1
      <4>3. Authority!Launch(a)
        BY <1>0, <3>1, <3>3, <4>1, <4>2 DEF Authority!Launch
      <4> QED
        BY <4>3
    <3>4. CASE worker' = worker
      BY <3>1, <3>4
    <3> QED
      BY <2>2, <3>2, <3>3, <3>4 DEF StartLaunches
  <2>3. ASSUME NEW a \in Alloc, WorkerExit(a) PROVE UNCHANGED Authority!vars
    <3>1. [worker[a] EXCEPT !.up = FALSE] # None
      BY <1>0, <2>3 DEF WorkerExit, Worker
    <3>2. present' = present
      BY <1>0, <2>3, <3>1 DEF WorkerExit
    <3> QED
      BY <2>3, <3>2 DEF WorkerExit
  <2>4. ASSUME NEW m \in net, Accept(m) \/ Refuse(m) PROVE UNCHANGED <<row, worker>>
    BY <2>4 DEF Accept, Refuse
  <2>5. ASSUME RunUpdate \/ StartRefused \/ AgentCrash PROVE UNCHANGED <<row, worker>>
    BY <2>5 DEF RunUpdate, StartRefused, AgentCrash, JobDone
  <2> QED
    BY <1>1, <1>3, <2>1, <2>2, <2>3, <2>4, <2>5 DEF Agent
<1>4. CASE Operator
  <2>1. CASE Snapshot
    BY <1>1, <2>1 DEF Snapshot
  <2>2. CASE RestoreSnapshot
    BY <2>2 DEF RestoreSnapshot, Authority!CloseAll
  <2> QED
    BY <1>4, <2>1, <2>2 DEF Operator
<1>5. CASE UNCHANGED vars
  BY <1>1, <1>5 DEF vars
<1> QED
  BY <1>2, <1>3, <1>4, <1>5 DEF Next

\* The controller, the agent and their fencing implement WorkerAuthority.
THEOREM FencingImplementsAuthority == Spec => ImplementsAuthority
<1>1. Init => Authority!Init
  BY DEF Init, Authority!Init
<1> QED
  BY <1>1, StepSimulation, Invariance, PTL DEF Spec, ImplementsAuthority, Authority!Spec
==============================================================================
