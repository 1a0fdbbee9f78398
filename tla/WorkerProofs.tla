---------------------------- MODULE WorkerProofs ----------------------------
(***************************************************************************)
(* The safety property of module Worker, for any destinations, attempts,   *)
(* queue lengths and numbers of failures.                                  *)
(*                                                                         *)
(* A message ends the worker when it is the input's, or when its element   *)
(* no longer has a branch.  An output that was neither removed nor failed  *)
(* to be built always has one: replacing it happens under the mutex that   *)
(* the watcher takes.  So nothing on the bus, in the watcher's hands or in *)
(* the event channel speaks of the input unless the input has failed.      *)
(***************************************************************************)
EXTENDS Worker, FiniteSetTheorems, TLAPS

\* The outputs that are not remembered as such have a branch.
BareInv == \A d \in Dest \ bare : branch[d].generation # 0

\* The input works and every output has had a branch all along.
Intact == source /\ bare = {}

\* Messages and events that are about one output.
BranchMessage == [kind : {"playing", "error", "rejected"}, dest : Dest]
BranchEvent == [kind : {"streaming", "error", "rejected", "stopped"}, dest : Dest,
                generation : Generation]

LocalInv == Intact => /\ phase # "lost" /\ bus \in Seq(BranchMessage)
                      /\ held \in Seq(BranchEvent) /\ events \in Seq(BranchEvent)

Inv == TypeOK /\ BareInv /\ LocalInv

-----------------------------------------------------------------------------
(* Types *)

ConfigRow == [generation : Generation, on : BOOLEAN]
BranchRow == [generation : 0 .. MaxGeneration, is : {"none", "starting", "up", "down"},
              reconnecting : BOOLEAN]
StatusRow == [state : {"CONNECTING", "STREAMING", "RECONNECTING", "FAILED", "STOPPED"},
              generation : 0 .. MaxGeneration]

PipeType == /\ config \in [Dest -> ConfigRow] /\ applied \in BOOLEAN
            /\ branch \in [Dest -> BranchRow] /\ stuck \in SUBSET Dest
QueueType == /\ bus \in Seq(Message) /\ held \in Seq(Event) /\ Len(held) <= 1
             /\ events \in Seq(Event) /\ Len(events) <= Capacity
LoopType == /\ states \in [Dest -> State \cup {NoState}] /\ timers \in [Dest \X Generation -> Nat]
            /\ status \in [Dest -> StatusRow] /\ tries \in [Dest -> Nat]
BoundType == /\ phase \in {"running", "told", "lost"} /\ source \in BOOLEAN /\ bare \in SUBSET Dest
             /\ failures \in 0 .. MaxFailures /\ echoes \in 0 .. MaxEchoes /\ faults \in 0 .. MaxFaults

LEMMA TypeParts == ASSUME TypeOK PROVE PipeType /\ QueueType /\ LoopType /\ BoundType
  BY Zenon DEF TypeOK, PipeType, QueueType, LoopType, BoundType, ConfigRow, BranchRow, StatusRow

LEMMA TypeJoin == ASSUME PipeType', QueueType', LoopType', BoundType' PROVE TypeOK'
  BY Zenon DEF TypeOK, PipeType, QueueType, LoopType, BoundType, ConfigRow, BranchRow, StatusRow

LEMMA BoundFacts ==
  /\ MaxAttempts \in Nat \ {0} /\ Capacity \in Nat \ {0} /\ MaxGeneration \in Nat \ {0}
  /\ MaxFailures \in Nat /\ MaxEchoes \in Nat /\ MaxFaults \in Nat
  /\ Generation \subseteq Nat \ {0} /\ Generation \subseteq 0 .. MaxGeneration /\ 1 \in Generation
  BY WorkerAssumption DEF Generation

LEMMA BranchFacts ==
  ASSUME TypeOK, NEW d \in Dest
  PROVE  /\ branch[d] \in BranchRow /\ branch[d].generation \in 0 .. MaxGeneration
         /\ branch[d].generation # 0 => branch[d].generation \in Generation
<1>1. branch[d] \in BranchRow
  BY TypeParts DEF PipeType
<1> QED
  BY <1>1, BoundFacts DEF BranchRow, Generation

LEMMA NewBranchFacts ==
  /\ NoBranch \in BranchRow
  /\ \A g \in Generation : NewBranch(g) \in BranchRow /\ NewBranch(g).generation = g
  BY BoundFacts DEF NoBranch, NewBranch, BranchRow

LEMMA NewStateFacts == NewState \in State
  BY BoundFacts DEF NewState, State

LEMMA StateFacts ==
  ASSUME TypeOK, NEW d \in Dest
  PROVE  EnsureState(d) \in State
<1>1. states[d] \in State \cup {NoState}
  BY TypeParts DEF LoopType
<1> QED
  BY <1>1, NewStateFacts DEF EnsureState, NoState

LEMMA ObserveFacts ==
  ASSUME NEW st \in [Dest -> StatusRow], NEW d \in Dest, NEW g \in Generation,
         NEW state \in {"CONNECTING", "STREAMING", "RECONNECTING", "FAILED", "STOPPED"}
  PROVE  Observe(st, d, state, g) \in [Dest -> StatusRow]
<1>1. [state |-> state, generation |-> g] \in StatusRow
  BY BoundFacts DEF StatusRow
<1> QED
  BY <1>1 DEF Observe

\* Kinds tell messages and events of an output from those of the input.
LEMMA MessageFacts ==
  /\ BranchMessage \subseteq Message
  /\ \A k \in {"input", "eos"} : [kind |-> k] \in Message
  /\ \A m \in Message : /\ m.kind \in {"playing", "error", "rejected", "input", "eos"}
                        /\ m.kind \notin {"input", "eos"} => m \in BranchMessage /\ m.dest \in Dest
  /\ \A m \in BranchMessage : m.kind \notin {"input", "eos"}
  BY DEF Message, BranchMessage

LEMMA EventFacts ==
  /\ BranchEvent \subseteq Event /\ [kind |-> "input"] \in Event
  /\ \A e \in Event : e.kind # "input" => e \in BranchEvent
  /\ \A e \in BranchEvent : e.kind # "input" /\ e.dest \in Dest /\ e.generation \in Generation
  BY DEF Event, BranchEvent

-----------------------------------------------------------------------------
(* Queues *)

LEMMA QueueFacts ==
  ASSUME NEW S, NEW s \in Seq(S)
  PROVE  /\ << >> \in Seq(S) /\ Len(s) \in Nat
         /\ \A x \in S : Append(s, x) \in Seq(S) /\ << x >> \in Seq(S) /\ Len(<< x >>) = 1
         /\ s # << >> => Head(s) \in S /\ Tail(s) \in Seq(S) /\ Len(Tail(s)) = Len(s) - 1
  OBVIOUS

\* What is published fits, and is of the same kind as what was there.
LEMMA PublishedFacts ==
  ASSUME NEW S, events \in Seq(S), NEW new \in Seq(S)
  PROVE  Published(new) \in Seq(S) /\ Len(Published(new)) <= Capacity
<1> DEFINE all == events \o new
           n == Min({Len(all), Capacity})
<1>1. all \in Seq(S) /\ Len(all) \in Nat /\ Capacity \in Nat
  BY BoundFacts
<1> HIDE DEF all
<1>2. n \in {Len(all), Capacity} /\ n <= Len(all) /\ n <= Capacity
  <2>1. \E x \in {Len(all), Capacity} : \A y \in {Len(all), Capacity} : x =< y
    BY <1>1
  <2> QED
    BY <2>1 DEF Min
<1> HIDE DEF n
<1>3. n \in 0 .. Len(all)
  BY <1>1, <1>2
<1>4. SubSeq(all, 1, n) \in Seq(S) /\ Len(SubSeq(all, 1, n)) = n
  BY <1>1, <1>3
<1> QED
  BY <1>2, <1>4 DEF Published, all, n

LEMMA StoppedFacts ==
  ASSUME TypeOK, NEW d \in Dest, branch[d].generation # 0
  PROVE  Stopped(d) \in BranchEvent
  BY BranchFacts DEF Stopped, BranchEvent

\* Every output has a branch while everything is intact.
LEMMA IntactFacts ==
  ASSUME Inv, Intact, NEW d \in Dest
  PROVE  branch[d].generation # 0
  BY DEF Inv, BareInv, Intact

-----------------------------------------------------------------------------
(* Steps *)

\* The branches stay.
LEMMA BranchesStay ==
  ASSUME Inv, UNCHANGED bare, \A d \in Dest : branch[d].generation # 0 => branch'[d].generation # 0
  PROVE  BareInv'
  BY DEF Inv, BareInv

LEMMA PipelineKeeps ==
  ASSUME Inv, Pipeline
  PROVE  Inv'
<1>0. TypeOK /\ PipeType /\ QueueType /\ LoopType /\ BoundType
  BY TypeParts DEF Inv
<1>1. /\ UNCHANGED <<phase, source, config, applied, stuck, held, events, bare, faults>>
      /\ UNCHANGED <<states, timers, status, tries>>
  BY DEF Pipeline, SinkPlays, BranchFails, FailureEchoes, bounds, serviceVars
<1>2. PICK d \in Dest, kind \in {"playing", "error", "rejected"} :
        /\ bus' = Append(bus, [kind |-> kind, dest |-> d])
        /\ \/ branch' = branch
           \/ \E is \in {"up", "down"} : branch' = [branch EXCEPT ![d].is = is]
  BY DEF Pipeline, SinkPlays, BranchFails, FailureEchoes
<1>3. [kind |-> kind, dest |-> d] \in BranchMessage
  BY DEF BranchMessage
<1>4. branch' \in [Dest -> BranchRow] /\ \A c \in Dest : branch'[c].generation = branch[c].generation
  <2>1. CASE branch' = branch
    BY <1>0, <2>1 DEF PipeType
  <2>2. ASSUME NEW is \in {"up", "down"}, branch' = [branch EXCEPT ![d].is = is]
        PROVE  branch' \in [Dest -> BranchRow] /\ \A c \in Dest : branch'[c].generation = branch[c].generation
    <3> DEFINE b == [branch[d] EXCEPT !.is = is]
    <3>1. b \in BranchRow /\ b.generation = branch[d].generation
      BY <1>0, BranchFacts DEF BranchRow
    <3>2. branch' = [branch EXCEPT ![d] = b]
      BY <2>2
    <3> HIDE DEF b
    <3> QED
      BY <1>0, <3>1, <3>2 DEF PipeType
  <2> QED
    BY <1>2, <2>1, <2>2
<1>5. failures' \in 0 .. MaxFailures /\ echoes' \in 0 .. MaxEchoes
  BY <1>0, BoundFacts DEF Pipeline, SinkPlays, BranchFails, FailureEchoes, bounds, BoundType
<1>6. /\ bus' \in Seq(Message)
      /\ bus \in Seq(BranchMessage) => bus' \in Seq(BranchMessage)
  BY <1>0, <1>2, <1>3, MessageFacts, QueueFacts DEF QueueType
<1>7. TypeOK'
  BY <1>0, <1>1, <1>4, <1>5, <1>6, TypeJoin DEF PipeType, QueueType, LoopType, BoundType
<1>8. BareInv'
  BY <1>1, <1>4, BranchesStay
<1>9. LocalInv'
  BY <1>1, <1>6 DEF Inv, LocalInv, Intact
<1> QED
  BY <1>7, <1>8, <1>9 DEF Inv

LEMMA InputFailsKeeps ==
  ASSUME Inv, NEW kind \in {"input", "eos"}, InputFails(kind)
  PROVE  Inv'
<1>0. TypeOK /\ PipeType /\ QueueType /\ LoopType /\ BoundType
  BY TypeParts DEF Inv
<1>1. /\ UNCHANGED <<phase, config, applied, branch, stuck, held, events, bare>>
      /\ UNCHANGED <<states, timers, status, tries, failures, echoes, faults>>
      /\ source' = FALSE /\ bus' = Append(bus, [kind |-> kind])
  BY DEF InputFails, bounds, serviceVars
<1>2. bus' \in Seq(Message)
  BY <1>0, <1>1, MessageFacts, QueueFacts DEF QueueType
<1>3. TypeOK'
  BY <1>0, <1>1, <1>2, TypeJoin DEF PipeType, QueueType, LoopType, BoundType
<1>4. BareInv'
  BY <1>1, BranchesStay
<1>5. LocalInv'
  BY <1>1 DEF LocalInv, Intact
<1> QED
  BY <1>3, <1>4, <1>5 DEF Inv

\* What the watcher makes of a message.
LEMMA ReadFacts ==
  ASSUME TypeOK, held = << >>, NEW m \in Message, ReadMessage(m)
  PROVE  /\ branch' \in [Dest -> BranchRow]
         /\ \A d \in Dest : branch'[d].generation = branch[d].generation
         /\ held' \in Seq(Event) /\ Len(held') <= 1
         /\ m \in BranchMessage /\ BranchByElement(m.dest) => held' \in Seq(BranchEvent)
<1>0. PipeType /\ branch \in [Dest -> BranchRow]
  BY TypeParts DEF PipeType
<1>1. ASSUME NEW S, NEW x \in S PROVE << x >> \in Seq(S) /\ Len(<< x >>) <= 1
  OBVIOUS
<1>2. << >> \in Seq(Event) /\ << >> \in Seq(BranchEvent) /\ Len(<< >>) <= 1
  OBVIOUS
<1>3. CASE branch' = branch /\ held' = << [kind |-> "input"] >> /\ ~ (m \in BranchMessage /\ BranchByElement(m.dest))
  BY <1>0, <1>1, <1>3, EventFacts
<1>4. CASE branch' = branch /\ held' = held
  BY <1>0, <1>2, <1>4
<1>5. ASSUME m.kind \in {"playing", "error", "rejected"}, BranchByElement(m.dest),
             NEW again \in BOOLEAN, branch' = [branch EXCEPT ![m.dest].reconnecting = again],
             NEW kind \in {"streaming", "error", "rejected"},
             held' = << [kind |-> kind, dest |-> m.dest, generation |-> branch[m.dest].generation] >>
      PROVE  /\ branch' \in [Dest -> BranchRow]
             /\ \A d \in Dest : branch'[d].generation = branch[d].generation
             /\ held' \in Seq(Event) /\ Len(held') <= 1 /\ held' \in Seq(BranchEvent)
  <2> DEFINE b == [branch[m.dest] EXCEPT !.reconnecting = again]
             x == [kind |-> kind, dest |-> m.dest, generation |-> branch[m.dest].generation]
  <2>1. m.dest \in Dest
    BY <1>5, MessageFacts
  <2>2. b \in BranchRow /\ b.generation = branch[m.dest].generation
    BY <2>1, BranchFacts DEF BranchRow
  <2>3. x \in BranchEvent
    BY <1>5, <2>1, BranchFacts DEF BranchEvent, BranchByElement
  <2>4. branch' = [branch EXCEPT ![m.dest] = b] /\ held' = << x >>
    BY <1>5
  <2> HIDE DEF b, x
  <2>5. branch' \in [Dest -> BranchRow] /\ \A d \in Dest : branch'[d].generation = branch[d].generation
    BY <1>0, <2>1, <2>2, <2>4
  <2> QED
    BY <1>1, <2>3, <2>4, <2>5, EventFacts
<1>6. CASE m.kind \in {"error", "rejected"} /\ BranchByElement(m.dest)
  BY <1>5, <1>6 DEF ReadMessage
<1>7. CASE m.kind = "playing" /\ BranchByElement(m.dest)
  BY <1>5, <1>7 DEF ReadMessage
<1>8. CASE m.kind \in {"playing", "error", "rejected"} /\ ~ BranchByElement(m.dest)
  BY <1>3, <1>4, <1>8 DEF ReadMessage
<1>9. CASE m.kind \in {"input", "eos"}
  BY <1>3, <1>4, <1>9, MessageFacts DEF ReadMessage
<1> QED
  BY <1>6, <1>7, <1>8, <1>9, MessageFacts

\* While everything is intact, the message has a branch.
LEMMA WatchBusKeeps ==
  ASSUME Inv, WatchBus
  PROVE  Inv'
<1>0. TypeOK /\ PipeType /\ QueueType /\ LoopType /\ BoundType
  BY TypeParts DEF Inv
<1>1. /\ UNCHANGED <<phase, source, config, applied, stuck, events, bare>>
      /\ UNCHANGED <<states, timers, status, tries, failures, echoes, faults>>
      /\ bus # << >> /\ held = << >> /\ ReadMessage(Head(bus)) /\ bus' = Tail(bus)
  BY DEF WatchBus, bounds, serviceVars
<1>2. Head(bus) \in Message /\ bus' \in Seq(Message)
  BY <1>0, <1>1, QueueFacts DEF QueueType
<1>3. /\ branch' \in [Dest -> BranchRow]
      /\ \A d \in Dest : branch'[d].generation = branch[d].generation
      /\ held' \in Seq(Event) /\ Len(held') <= 1
      /\ Head(bus) \in BranchMessage /\ BranchByElement(Head(bus).dest) => held' \in Seq(BranchEvent)
  BY <1>0, <1>1, <1>2, ReadFacts
<1>4. TypeOK'
  BY <1>0, <1>1, <1>2, <1>3, TypeJoin DEF PipeType, QueueType, LoopType, BoundType
<1>5. BareInv'
  BY <1>1, <1>3, BranchesStay
<1>6. LocalInv'
  <2> SUFFICES ASSUME Intact' PROVE /\ phase' # "lost" /\ bus' \in Seq(BranchMessage)
                                    /\ held' \in Seq(BranchEvent) /\ events' \in Seq(BranchEvent)
    BY DEF LocalInv
  <2>1. Intact
    BY <1>1 DEF Intact
  <2>2. phase # "lost" /\ bus \in Seq(BranchMessage) /\ events \in Seq(BranchEvent)
    BY <2>1 DEF Inv, LocalInv
  <2>3. Head(bus) \in BranchMessage /\ bus' \in Seq(BranchMessage)
    BY <1>1, <2>2, QueueFacts
  <2>4. BranchByElement(Head(bus).dest)
    BY <2>1, <2>3, IntactFacts DEF BranchByElement, BranchMessage
  <2> QED
    BY <1>1, <1>3, <2>2, <2>3, <2>4
<1> QED
  BY <1>4, <1>5, <1>6 DEF Inv

LEMMA PublishKeeps ==
  ASSUME Inv, Publish
  PROVE  Inv'
<1>0. TypeOK /\ PipeType /\ QueueType /\ LoopType /\ BoundType
  BY TypeParts DEF Inv
<1>1. /\ UNCHANGED <<phase, source, config, applied, branch, stuck, bus, bare>>
      /\ UNCHANGED <<states, timers, status, tries, failures, echoes, faults>>
      /\ events' = Published(held) /\ held' = << >>
  BY DEF Publish, bounds, serviceVars
<1>2. events' \in Seq(Event) /\ Len(events') <= Capacity
  BY <1>0, <1>1, PublishedFacts DEF QueueType
<1>3. held' \in Seq(Event) /\ held' \in Seq(BranchEvent) /\ Len(held') <= 1
  BY <1>1
<1>4. TypeOK'
  BY <1>0, <1>1, <1>2, <1>3, TypeJoin DEF PipeType, QueueType, LoopType, BoundType
<1>5. BareInv'
  BY <1>1, BranchesStay
<1>6. held \in Seq(BranchEvent) /\ events \in Seq(BranchEvent) => events' \in Seq(BranchEvent)
  BY <1>1, PublishedFacts
<1>7. LocalInv'
  BY <1>1, <1>3, <1>6 DEF Inv, LocalInv, Intact
<1> QED
  BY <1>4, <1>5, <1>7 DEF Inv

\* Branches come and go; outputs without one are remembered.
LEMMA BuildFacts ==
  ASSUME TypeOK, NEW missing \in SUBSET Dest, NEW built \in SUBSET missing, NEW gone,
         NEW generation \in [Dest -> 0 .. MaxGeneration],
         \A d \in missing : generation[d] \in Generation,
         AddBranches(missing, built), Replaced(gone, built, generation)
  PROVE  /\ branch' \in [Dest -> BranchRow] /\ stuck' \in SUBSET Dest
         /\ faults' \in 0 .. MaxFaults /\ bare' \in SUBSET Dest /\ bare \subseteq bare' /\ BareInv'
<1>0. PipeType /\ BoundType
  BY TypeParts
<1>1. faults' \in 0 .. MaxFaults /\ stuck' \in SUBSET Dest
  BY <1>0, BoundFacts DEF AddBranches, BoundType, PipeType
<1>2. /\ branch' = [d \in Dest |-> IF d \in built THEN NewBranch(generation[d])
                                   ELSE IF d \in gone THEN NoBranch
                                   ELSE branch[d]]
      /\ bare' = bare \cup {d \in Dest : branch'[d].generation = 0}
  BY DEF Replaced
<1>3. branch' \in [Dest -> BranchRow]
  BY <1>0, <1>2, NewBranchFacts DEF PipeType
<1>4. bare' \in SUBSET Dest /\ bare \subseteq bare' /\ BareInv'
  BY <1>0, <1>2 DEF BoundType, BareInv
<1> QED
  BY <1>1, <1>3, <1>4

\* The branches that go say so.
LEMMA ApplyFacts ==
  ASSUME TypeOK, NEW want \in [Dest -> ConfigRow], ApplyDestinations(want)
  PROVE  /\ config' = want /\ applied' \in BOOLEAN /\ branch' \in [Dest -> BranchRow]
         /\ tries' \in [Dest -> Nat] /\ faults' \in 0 .. MaxFaults /\ stuck' \in SUBSET Dest
         /\ events' \in Seq(Event) /\ Len(events') <= Capacity
         /\ events \in Seq(BranchEvent) => events' \in Seq(BranchEvent)
         /\ bare' \in SUBSET Dest /\ bare \subseteq bare' /\ BareInv'
<1> DEFINE gone == Outdated(want)
           missing == {d \in Dest : want[d].on /\ (branch[d].generation = 0 \/ d \in gone)}
<1>0. PipeType /\ QueueType /\ LoopType /\ BoundType
  BY TypeParts
<1>1. gone \in SUBSET Dest /\ \A d \in gone : Stopped(d) \in BranchEvent
  BY StoppedFacts DEF Outdated
<1>2. PICK q \in SetToSeqs(gone) : events' = Published([i \in DOMAIN q |-> Stopped(q[i])])
  BY DEF ApplyDestinations
<1> DEFINE generation == [d \in Dest |-> want[d].generation]
<1>3. PICK built \in SUBSET missing :
        /\ AddBranches(missing, built) /\ Replaced(gone, built, generation)
        /\ applied' = (built = missing)
  BY DEF ApplyDestinations
<1>4. config' = want /\ tries' = [d \in Dest |-> IF d \in missing THEN 0 ELSE tries[d]]
  BY DEF ApplyDestinations
<1>5. missing \subseteq Dest
  OBVIOUS
<1> HIDE DEF gone, missing
<1>6. ASSUME TRUE
      PROVE  /\ events' \in Seq(Event) /\ Len(events') <= Capacity
             /\ events \in Seq(BranchEvent) => events' \in Seq(BranchEvent)
  <2> DEFINE n == Cardinality(gone)
             new == [i \in DOMAIN q |-> Stopped(q[i])]
  <2>1. n \in Nat
    BY <1>1, WorkerAssumption, FS_Subset, FS_CardinalityType
  <2>2. q \in [1 .. n -> gone]
    BY DEF SetToSeqs
  <2> HIDE DEF n
  <2>3. new \in [1 .. n -> BranchEvent]
    BY <1>1, <2>2
  <2>4. events' = Published(new)
    BY <1>2
  <2> HIDE DEF new
  <2>5. new \in Seq(BranchEvent)
    BY <2>1, <2>3
  <2>6. new \in Seq(Event)
    BY <2>5, EventFacts
  <2> QED
    BY <1>0, <2>4, <2>5, <2>6, PublishedFacts DEF QueueType
<1>7. generation \in [Dest -> 0 .. MaxGeneration] /\ \A d \in Dest : generation[d] \in Generation
  BY BoundFacts DEF ConfigRow
<1> HIDE DEF generation
<1>8. /\ branch' \in [Dest -> BranchRow] /\ stuck' \in SUBSET Dest
      /\ faults' \in 0 .. MaxFaults /\ bare' \in SUBSET Dest /\ bare \subseteq bare' /\ BareInv'
  BY <1>3, <1>5, <1>7, BuildFacts
<1>9. tries' \in [Dest -> Nat]
  BY <1>0, <1>4 DEF LoopType
<1>10. applied' \in BOOLEAN
  BY <1>3
<1> QED
  BY <1>4, <1>6, <1>8, <1>9, <1>10

LEMMA ApplyKeeps ==
  ASSUME Inv, NEW want \in [Dest -> ConfigRow], ApplyDestinations(want),
         UNCHANGED <<phase, source, bus, held, states, timers, status, failures, echoes>>
  PROVE  Inv'
<1>0. TypeOK /\ PipeType /\ QueueType /\ LoopType /\ BoundType
  BY TypeParts DEF Inv
<1>1. /\ config' = want /\ applied' \in BOOLEAN /\ branch' \in [Dest -> BranchRow]
      /\ tries' \in [Dest -> Nat] /\ faults' \in 0 .. MaxFaults /\ stuck' \in SUBSET Dest
      /\ events' \in Seq(Event) /\ Len(events') <= Capacity
      /\ events \in Seq(BranchEvent) => events' \in Seq(BranchEvent)
      /\ bare' \in SUBSET Dest /\ bare \subseteq bare' /\ BareInv'
  BY <1>0, ApplyFacts
<1>2. TypeOK'
  BY <1>0, <1>1, TypeJoin DEF PipeType, QueueType, LoopType, BoundType
<1>3. Intact' => Intact
  BY <1>1 DEF Intact
<1>4. LocalInv'
  BY <1>1, <1>3 DEF Inv, LocalInv
<1> QED
  BY <1>1, <1>2, <1>4 DEF Inv

LEMMA ChangeKeeps ==
  ASSUME Inv, NEW d \in Dest, ChangeDestination(d)
  PROVE  Inv'
<1>0. config \in [Dest -> ConfigRow]
  BY TypeParts DEF Inv, PipeType
<1>1. PICK on \in (IF Removals THEN BOOLEAN ELSE {TRUE}) :
        ApplyDestinations([config EXCEPT ![d] = [generation |-> @.generation + 1, on |-> on]])
  BY DEF ChangeDestination
<1> DEFINE h == config[d].generation + 1
           row == [generation |-> h, on |-> on]
           want == [config EXCEPT ![d] = row]
<1>2. config[d].generation \in Generation /\ config[d].generation < MaxGeneration
  BY <1>0 DEF ChangeDestination, ConfigRow
<1>3. row \in ConfigRow
  <2>1. h \in Generation
    BY <1>2, BoundFacts DEF Generation
  <2>2. on \in BOOLEAN
    BY WorkerAssumption
  <2> HIDE DEF h
  <2> QED
    BY <2>1, <2>2 DEF ConfigRow
<1>4. ApplyDestinations(want)
  BY <1>1
<1> HIDE DEF row
<1>5. want \in [Dest -> ConfigRow]
  BY <1>0, <1>3
<1> HIDE DEF want
<1>6. UNCHANGED <<phase, source, bus, held, states, timers, status, failures, echoes>>
  BY DEF ChangeDestination
<1> QED
  BY <1>4, <1>5, <1>6, ApplyKeeps

LEMMA RepeatKeeps ==
  ASSUME Inv, RepeatDestinations
  PROVE  Inv'
<1>1. config \in [Dest -> ConfigRow]
  BY TypeParts DEF Inv, PipeType
<1> QED
  BY <1>1, ApplyKeeps DEF RepeatDestinations

-----------------------------------------------------------------------------
(* Service.Run *)

\* What the loop makes of an event of output d, of generation g.
LEMMA HandledFacts ==
  ASSUME TypeOK, NEW d \in Dest, NEW g \in Generation, NEW permanent,
         \/ OnStreaming(d, g) \/ OnStopped(d, g) \/ OnSuperseded(d, g)
         \/ OnFailed(d, g, permanent) \/ OnRetryable(d, g, permanent)
  PROVE  /\ states' \in [Dest -> State \cup {NoState}] /\ timers' \in [Dest \X Generation -> Nat]
         /\ status' \in [Dest -> StatusRow] /\ phase' = phase
<1>0. /\ states \in [Dest -> State \cup {NoState}] /\ timers \in [Dest \X Generation -> Nat]
      /\ status \in [Dest -> StatusRow]
  BY TypeParts DEF LoopType
<1> DEFINE s == EnsureState(d)
<1>1. /\ s \in State /\ s.attempt \in 0 .. MaxAttempts /\ g \in 0 .. MaxGeneration
      /\ MaxAttempts \in Nat
  BY StateFacts, BoundFacts DEF State
<1>2. \A r \in State \cup {NoState} : [states EXCEPT ![d] = r] \in [Dest -> State \cup {NoState}]
  BY <1>0
<1>3. \A st \in {"STREAMING", "RECONNECTING", "FAILED", "STOPPED"} : Observe(status, d, st, g) \in [Dest -> StatusRow]
  BY <1>0, ObserveFacts
<1>4. Attempts(d) \in 0 .. MaxAttempts
  BY <1>1 DEF Attempts
<1>5. CASE OnStreaming(d, g)
  <2> DEFINE r == [s EXCEPT !.generation = g, !.since = "recent", !.waiting = FALSE, !.terminal = FALSE]
  <2>1. states' = [states EXCEPT ![d] = r] /\ status' = Observe(status, d, "STREAMING", g)
        /\ UNCHANGED <<timers, phase>>
    BY <1>5 DEF OnStreaming
  <2> HIDE DEF s
  <2>2. r \in State
    BY <1>1 DEF State
  <2> HIDE DEF r
  <2> QED
    BY <1>0, <1>2, <1>3, <2>1, <2>2
<1>6. CASE OnStopped(d, g)
  BY <1>0, <1>2, <1>3, <1>6 DEF OnStopped
<1>7. CASE OnSuperseded(d, g)
  BY <1>0, <1>1, <1>2, <1>7 DEF OnSuperseded
<1>8. CASE OnFailed(d, g, permanent)
  <2> DEFINE n == Attempts(d)
             r == [s EXCEPT !.generation = g, !.attempt = n, !.terminal = TRUE]
  <2>1. states' = [states EXCEPT ![d] = r] /\ status' = Observe(status, d, "FAILED", g)
        /\ UNCHANGED <<timers, phase>>
    BY <1>8 DEF OnFailed
  <2> HIDE DEF s, n
  <2>2. r \in State
    BY <1>1, <1>4 DEF State, n
  <2> HIDE DEF r
  <2> QED
    BY <1>0, <1>2, <1>3, <2>1, <2>2
<1>9. CASE OnRetryable(d, g, permanent)
  <2> DEFINE n == Attempts(d) + 1
             r == [s EXCEPT !.generation = g, !.attempt = n, !.waiting = TRUE]
  <2>1. states' = [states EXCEPT ![d] = r] /\ status' = Observe(status, d, "RECONNECTING", g)
        /\ timers' = [timers EXCEPT ![<<d, g>>] = @ + 1] /\ phase' = phase
    BY <1>9 DEF OnRetryable
  <2>2. n \in 0 .. MaxAttempts
    BY <1>1, <1>4, <1>9 DEF OnRetryable, GivesUp
  <2> HIDE DEF s, n
  <2>3. r \in State
    BY <1>1, <2>2 DEF State
  <2> HIDE DEF r
  <2>4. timers' \in [Dest \X Generation -> Nat]
    BY <1>0, <2>1
  <2> QED
    BY <1>2, <1>3, <2>1, <2>3, <2>4
<1> QED
  BY <1>5, <1>6, <1>7, <1>8, <1>9

LEMMA HandleEventKeeps ==
  ASSUME Inv, HandleEvent
  PROVE  Inv'
<1>0. TypeOK /\ PipeType /\ QueueType /\ LoopType /\ BoundType
  BY TypeParts DEF Inv
<1> DEFINE e == Head(events)
<1>1. /\ UNCHANGED <<source, config, applied, branch, stuck, bus, held, tries, bare, failures, echoes, faults>>
      /\ events # << >> /\ events' = Tail(events)
      /\ \/ e.kind = "streaming" /\ OnStreaming(e.dest, e.generation)
         \/ e.kind = "stopped" /\ OnStopped(e.dest, e.generation)
         \/ /\ e.kind \in {"error", "rejected"}
            /\ \/ OnSuperseded(e.dest, e.generation)
               \/ OnFailed(e.dest, e.generation, e.kind = "rejected")
               \/ OnRetryable(e.dest, e.generation, e.kind = "rejected")
         \/ e.kind = "input" /\ OnInputLost
  BY DEF HandleEvent, bounds
<1>2. e \in Event /\ events' \in Seq(Event) /\ Len(events') <= Capacity
  BY <1>0, <1>1, QueueFacts, BoundFacts DEF QueueType
<1>3. events \in Seq(BranchEvent) => e \in BranchEvent /\ events' \in Seq(BranchEvent)
  BY <1>1, QueueFacts
<1> HIDE DEF e
<1>4. /\ states' \in [Dest -> State \cup {NoState}] /\ timers' \in [Dest \X Generation -> Nat]
      /\ status' \in [Dest -> StatusRow] /\ phase' \in {phase, "lost"} /\ (e \in BranchEvent => phase' = phase)
  <2>1. CASE e.kind = "input"
    BY <1>0, <1>1, <2>1, EventFacts DEF OnInputLost, LoopType
  <2>2. CASE e.kind # "input"
    <3>1. e.dest \in Dest /\ e.generation \in Generation
      BY <1>2, <2>2, EventFacts
    <3> DEFINE dest == e.dest
               g == e.generation
               permanent == e.kind = "rejected"
    <3>2. \/ OnStreaming(dest, g) \/ OnStopped(dest, g) \/ OnSuperseded(dest, g)
          \/ OnFailed(dest, g, permanent) \/ OnRetryable(dest, g, permanent)
      BY <1>1, <2>2
    <3>3. dest \in Dest /\ g \in Generation
      BY <3>1
    <3> HIDE DEF dest, g, permanent
    <3> QED
      BY <1>0, <3>2, <3>3, HandledFacts
  <2> QED
    BY <2>1, <2>2
<1>5. TypeOK'
  BY <1>0, <1>1, <1>2, <1>4, TypeJoin DEF PipeType, QueueType, LoopType, BoundType
<1>6. BareInv'
  BY <1>1, BranchesStay
<1>7. LocalInv'
  BY <1>1, <1>3, <1>4 DEF Inv, LocalInv, Intact
<1> QED
  BY <1>5, <1>6, <1>7 DEF Inv

LEMMA HandleRetryKeeps ==
  ASSUME Inv, NEW d \in Dest, NEW g \in Generation, HandleRetry(d, g)
  PROVE  Inv'
<1>0. TypeOK /\ PipeType /\ QueueType /\ LoopType /\ BoundType
  BY TypeParts DEF Inv
<1>1. /\ UNCHANGED <<phase, source, config, applied, bus, held, failures, echoes>>
      /\ timers[<<d, g>>] > 0 /\ timers' = [timers EXCEPT ![<<d, g>>] = @ - 1]
  BY DEF HandleRetry
<1>2. timers' \in [Dest \X Generation -> Nat]
  BY <1>0, <1>1 DEF LoopType
<1>3. Observe(status, d, "CONNECTING", g) \in [Dest -> StatusRow]
  BY <1>0, ObserveFacts DEF LoopType
<1>4. Observe(Observe(status, d, "CONNECTING", g), d, "RECONNECTING", g) \in [Dest -> StatusRow]
  BY <1>3, ObserveFacts
<1>5. /\ status' \in [Dest -> StatusRow] /\ tries' \in [Dest -> Nat]
  BY <1>0, <1>3, <1>4 DEF HandleRetry, LoopType
<1>6. states' \in [Dest -> State \cup {NoState}]
  <2>1. CASE UNCHANGED states
    BY <1>0, <2>1 DEF LoopType
  <2>2. CASE Due(d, g) /\ states' = [states EXCEPT ![d].waiting = FALSE]
    <3> DEFINE r == [states[d] EXCEPT !.waiting = FALSE]
    <3>1. states[d] \in State
      BY <1>0, <2>2 DEF LoopType, Due, NoState
    <3>2. r \in State
      BY <3>1 DEF State
    <3>3. states' = [states EXCEPT ![d] = r]
      BY <2>2
    <3> HIDE DEF r
    <3> QED
      BY <1>0, <3>2, <3>3 DEF LoopType
  <2> QED
    BY <2>1, <2>2 DEF HandleRetry
<1>7. CASE UNCHANGED <<branch, stuck, events, bare, faults>>
  <2>1. TypeOK'
    BY <1>0, <1>1, <1>2, <1>5, <1>6, <1>7, TypeJoin DEF PipeType, QueueType, LoopType, BoundType
  <2>2. BareInv'
    BY <1>1, <1>7, BranchesStay
  <2>3. LocalInv'
    BY <1>1, <1>7 DEF Inv, LocalInv, Intact
  <2> QED
    BY <2>1, <2>2, <2>3 DEF Inv
<1>8. CASE ReconnectDestination(d)
  <2> DEFINE generation == [c \in Dest |-> branch[c].generation]
  <2>1. /\ generation \in [Dest -> 0 .. MaxGeneration] /\ generation[d] \in Generation
    BY <1>0, <1>8, BranchFacts DEF ReconnectDestination
  <2>2. Stopped(d) \in BranchEvent /\ Stopped(d) \in Event
    BY <1>0, <1>8, StoppedFacts, EventFacts DEF ReconnectDestination
  <2>3. << Stopped(d) >> \in Seq(BranchEvent) /\ << Stopped(d) >> \in Seq(Event)
    BY <2>2
  <2>4. /\ events' \in Seq(Event) /\ Len(events') <= Capacity
        /\ events \in Seq(BranchEvent) => events' \in Seq(BranchEvent)
    BY <1>0, <1>8, <2>3, PublishedFacts DEF ReconnectDestination, QueueType
  <2>5. PICK built \in SUBSET {d} : AddBranches({d}, built) /\ Replaced({d}, built, generation)
    BY <1>8 DEF ReconnectDestination
  <2> HIDE DEF generation
  <2>6. /\ branch' \in [Dest -> BranchRow] /\ stuck' \in SUBSET Dest
        /\ faults' \in 0 .. MaxFaults /\ bare' \in SUBSET Dest /\ bare \subseteq bare' /\ BareInv'
    <3>1. {d} \in SUBSET Dest
      OBVIOUS
    <3> QED
      BY <1>0, <2>1, <2>5, <3>1, BuildFacts
  <2>7. TypeOK'
    BY <1>0, <1>1, <1>2, <1>5, <1>6, <2>4, <2>6, TypeJoin DEF PipeType, QueueType, LoopType, BoundType
  <2>8. LocalInv'
    BY <1>1, <2>4, <2>6 DEF Inv, LocalInv, Intact
  <2> QED
    BY <2>6, <2>7, <2>8 DEF Inv
<1> QED
  BY <1>7, <1>8 DEF HandleRetry

LEMMA StabiliseKeeps ==
  ASSUME Inv, NEW d \in Dest, Stabilise(d)
  PROVE  Inv'
<1>0. TypeOK /\ PipeType /\ QueueType /\ LoopType /\ BoundType
  BY TypeParts DEF Inv
<1>1. /\ UNCHANGED <<phase, source, config, applied, branch, stuck, bus, held, events, timers, status>>
      /\ UNCHANGED <<bare, failures, echoes, faults>> /\ tries' = [tries EXCEPT ![d] = 0]
  BY DEF Stabilise, runtimeVars, bounds
<1> DEFINE r == [states[d] EXCEPT !.since = "stable"]
<1>2. states[d] \in State
  BY <1>0 DEF LoopType, Stabilise, NoState
<1>3. r \in State
  BY <1>2 DEF State
<1>4. states' = [states EXCEPT ![d] = r]
  BY DEF Stabilise
<1> HIDE DEF r
<1>5. states' \in [Dest -> State \cup {NoState}] /\ tries' \in [Dest -> Nat]
  BY <1>0, <1>1, <1>3, <1>4 DEF LoopType
<1>6. TypeOK'
  BY <1>0, <1>1, <1>5, TypeJoin DEF PipeType, QueueType, LoopType, BoundType
<1>7. BareInv'
  BY <1>1, BranchesStay
<1>8. LocalInv'
  BY <1>1 DEF Inv, LocalInv, Intact
<1> QED
  BY <1>6, <1>7, <1>8 DEF Inv

\* Being told to stop changes nothing else; neither does nothing at all.
LEMMA StopKeeps ==
  ASSUME Inv, Terminate \/ UNCHANGED vars
  PROVE  Inv'
<1>0. TypeOK /\ PipeType /\ QueueType /\ LoopType /\ BoundType
  BY TypeParts DEF Inv
<1>1. /\ UNCHANGED <<source, config, applied, branch, stuck, bus, held, events, states, timers, status, tries>>
      /\ UNCHANGED <<bare, failures, echoes, faults>> /\ phase' \in {phase, "told"}
  BY DEF Terminate, runtimeVars, serviceVars, bounds, vars
<1>2. TypeOK'
  BY <1>0, <1>1, TypeJoin DEF PipeType, QueueType, LoopType, BoundType
<1>3. BareInv'
  BY <1>1, BranchesStay
<1>4. LocalInv'
  BY <1>1 DEF Inv, LocalInv, Intact
<1> QED
  BY <1>2, <1>3, <1>4 DEF Inv

LEMMA InitHolds == Init => Inv
<1> SUFFICES ASSUME Init PROVE Inv
  OBVIOUS
<1>1. TypeOK
  <2>1. [generation |-> 1, on |-> TRUE] \in ConfigRow /\ NewBranch(1) \in BranchRow
    BY BoundFacts, NewBranchFacts DEF ConfigRow
  <2>2. [state |-> "CONNECTING", generation |-> 0] \in StatusRow
    BY BoundFacts DEF StatusRow
  <2>3. config \in [Dest -> ConfigRow] /\ branch \in [Dest -> BranchRow] /\ status \in [Dest -> StatusRow]
    BY <2>1, <2>2 DEF Init
  <2>4. states \in [Dest -> State \cup {NoState}] /\ timers \in [Dest \X Generation -> Nat] /\ tries \in [Dest -> Nat]
    BY NewStateFacts DEF Init
  <2>5. /\ bus \in Seq(Message) /\ held \in Seq(Event) /\ Len(held) <= 1
        /\ events \in Seq(Event) /\ Len(events) <= Capacity
    BY BoundFacts DEF Init
  <2>6. failures \in 0 .. MaxFailures /\ echoes \in 0 .. MaxEchoes /\ faults \in 0 .. MaxFaults
    BY BoundFacts DEF Init
  <2>7. /\ phase \in {"running", "told", "lost"} /\ source \in BOOLEAN /\ applied \in BOOLEAN
        /\ stuck \in SUBSET Dest /\ bare \in SUBSET Dest
    BY DEF Init
  <2> QED
    BY <2>3, <2>4, <2>5, <2>6, <2>7, Zenon DEF TypeOK, ConfigRow, BranchRow, StatusRow
<1>3. BareInv
  BY DEF Init, BareInv, NewBranch
<1>4. LocalInv
  BY DEF Init, LocalInv
<1> QED
  BY <1>1, <1>3, <1>4 DEF Inv

\* The invariant holds in every state of the worker.
THEOREM Invariance == Spec => []Inv
<1>1. ASSUME Inv, [Next]_vars PROVE Inv'
  BY <1>1, PipelineKeeps, InputFailsKeeps, WatchBusKeeps, PublishKeeps, ChangeKeeps, RepeatKeeps,
     HandleEventKeeps, HandleRetryKeeps, StabiliseKeeps, StopKeeps DEF Next
<1>2. Inv /\ [Next]_vars => Inv'
  BY <1>1
<1> QED
  BY <1>2, InitHolds, PTL DEF Spec

-----------------------------------------------------------------------------
(* What it says of outages *)

\* The failure of an output that was neither removed nor failed to be built does not
\* end the worker, whatever its elements report, in whatever order it is read, however
\* often the branch is rebuilt and whatever else is changed (watchBus,
\* ApplyDestinations under the mutex).
THEOREM OutagesAreLocal == Spec => []OutageIsLocal
<1>1. Inv => OutageIsLocal
  BY DEF Inv, OutageIsLocal, LocalInv, Intact
<1> QED
  BY <1>1, Invariance, PTL
=============================================================================
