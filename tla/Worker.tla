------------------------------- MODULE Worker -------------------------------
(***************************************************************************)
(* The outputs of one running worker: the GStreamer branches that feed the *)
(* destinations, the bus watcher that turns pipeline messages into runtime *)
(* events, the loop of Service.Run that retries failed branches, and the   *)
(* status the worker reports.  They meet in a bounded event channel that   *)
(* drops what it cannot hold, and in sleeping goroutines that ask for a    *)
(* retry later.                                                            *)
(*                                                                         *)
(* A bus message names the element it comes from and elements are named    *)
(* after their destination, so a message outlives the branch that posted   *)
(* it.  Time is abstract: a branch has been streaming for StableInterval   *)
(* or not, and a sleeping retry may come due at any moment.  What the      *)
(* worker shows (source, slate) does not touch the branches and is left    *)
(* out; the source appears only by its failure, which ends the worker.     *)
(***************************************************************************)
EXTENDS Naturals, SequencesExt

CONSTANTS Dest,
          MaxAttempts,     \* WORKER_RECONNECT_MAX_ATTEMPTS
          Capacity,        \* of the event channel
          MaxGeneration,   \* bound on the generations of a destination
          Removals,        \* whether outputs may be disabled while running
          Ends,            \* whether the input may fail and SIGTERM may come
          MaxFailures,     \* bound on failures of the branches
          MaxEchoes,       \* bound on further messages of a failed branch
          MaxFaults        \* bound on branches that cannot be built

ASSUME WorkerAssumption ==
  /\ IsFiniteSet(Dest)
  /\ {MaxAttempts, Capacity, MaxGeneration} \subseteq Nat \ {0}
  /\ {MaxFailures, MaxEchoes, MaxFaults} \subseteq Nat
  /\ {Removals, Ends} \subseteq BOOLEAN

VARIABLES
  \* the process and its input
  phase,      \* running, told to stop (ctx), or stopped by the input's loss
  source,     \* whether the input still works
  \* gstRuntime
  config,     \* the destinations last sent: generation, and whether wanted
  applied,    \* whether the worker has accepted them
  branch,     \* generation (0: no branch) and condition of each branch
  stuck,      \* destinations whose elements are left in the pipeline without a branch
  bus,        \* messages the watcher has not read
  held,       \* events the watcher is about to publish (at most one)
  events,     \* the event channel
  \* Service.Run
  states,     \* destinationState of each destination
  timers,     \* retry requests sleeping or in the retry channel, counted
  \* Status
  status,     \* what GET /v1/status says of each destination
  \* for the properties and bounds
  tries,      \* reconnections since the branch last was stable or was changed
  bare,       \* destinations that have been without a branch
  failures, echoes, faults

runtimeVars == <<config, applied, branch, stuck, bus, held, events>>
serviceVars == <<states, timers, status, tries>>
bounds == <<bare, failures, echoes, faults>>
vars == <<phase, source, config, applied, branch, stuck, bus, held, events, states, timers, status,
          tries, bare, failures, echoes, faults>>

Generation == 1..MaxGeneration

Message == [kind : {"playing", "error", "rejected"}, dest : Dest] \cup [kind : {"input", "eos"}]
Event == [kind : {"streaming", "error", "rejected", "stopped"}, dest : Dest,
          generation : Generation] \cup [kind : {"input"}]

NoState == [known |-> FALSE]
State == [known : {TRUE}, attempt : 0..MaxAttempts, generation : 0..MaxGeneration,
          since : {"never", "recent", "stable"}, waiting : BOOLEAN, terminal : BOOLEAN]

TypeOK ==
  /\ phase \in {"running", "told", "lost"}
  /\ source \in BOOLEAN
  /\ config \in [Dest -> [generation : Generation, on : BOOLEAN]]
  /\ applied \in BOOLEAN
  /\ branch \in [Dest -> [generation : 0..MaxGeneration,
                        is : {"none", "starting", "up", "down"}, reconnecting : BOOLEAN]]
  /\ stuck \in SUBSET Dest
  /\ bus \in Seq(Message)
  /\ held \in Seq(Event) /\ Len(held) <= 1
  /\ events \in Seq(Event) /\ Len(events) <= Capacity
  /\ states \in [Dest -> State \cup {NoState}]
  /\ timers \in [Dest \X Generation -> Nat]
  /\ status \in [Dest -> [state : {"CONNECTING", "STREAMING", "RECONNECTING", "FAILED",
                                 "STOPPED"}, generation : 0..MaxGeneration]]
  /\ tries \in [Dest -> Nat]
  /\ bare \in SUBSET Dest
  /\ failures \in 0..MaxFailures
  /\ echoes \in 0..MaxEchoes
  /\ faults \in 0..MaxFaults

NoBranch == [generation |-> 0, is |-> "none", reconnecting |-> FALSE]
NewBranch(g) == [generation |-> g, is |-> "starting", reconnecting |-> FALSE]
NewState == [known |-> TRUE, attempt |-> 0, generation |-> 0, since |-> "never",
             waiting |-> FALSE, terminal |-> FALSE]

\* Run has made a state for every destination and started the pipeline.
Init ==
  /\ phase = "running"
  /\ source = TRUE
  /\ config = [d \in Dest |-> [generation |-> 1, on |-> TRUE]]
  /\ applied = TRUE
  /\ branch = [d \in Dest |-> NewBranch(1)]
  /\ stuck = {}
  /\ bus = << >>
  /\ held = << >>
  /\ events = << >>
  /\ states = [d \in Dest |-> NewState]
  /\ timers = [r \in Dest \X Generation |-> 0]
  /\ status = [d \in Dest |-> [state |-> "CONNECTING", generation |-> 0]]
  /\ tries = [d \in Dest |-> 0]
  /\ bare = {}
  /\ failures = 0
  /\ echoes = 0
  /\ faults = 0

-----------------------------------------------------------------------------
(* The pipeline: what GStreamer does by itself, and the bus.               *)

SinkPlays(d) ==
  /\ branch[d].is = "starting"
  /\ branch' = [branch EXCEPT ![d].is = "up"]
  /\ bus' = Append(bus, [kind |-> "playing", dest |-> d])
  /\ UNCHANGED <<config, applied, stuck, held, events, bounds>>

\* The server closes the connection, or refuses it for good.
BranchFails(d, kind) ==
  /\ branch[d].is \in {"starting", "up"}
  /\ failures < MaxFailures
  /\ branch' = [branch EXCEPT ![d].is = "down"]
  /\ bus' = Append(bus, [kind |-> kind, dest |-> d])
  /\ failures' = failures + 1
  /\ UNCHANGED <<config, applied, stuck, held, events, bare, echoes, faults>>

\* Another element of the failed branch reports the same failure.
FailureEchoes(d, kind) ==
  /\ branch[d].is = "down"
  /\ echoes < MaxEchoes
  /\ bus' = Append(bus, [kind |-> kind, dest |-> d])
  /\ echoes' = echoes + 1
  /\ UNCHANGED <<config, applied, branch, stuck, held, events, bare, failures, faults>>

Pipeline ==
  /\ phase = "running"
  /\ \E d \in Dest :
       \/ SinkPlays(d)
       \/ \E kind \in {"error", "rejected"} : BranchFails(d, kind) \/ FailureEchoes(d, kind)
  /\ UNCHANGED <<phase, source, serviceVars>>

\* The input or the encoder fails, or ends.
InputFails(kind) ==
  /\ Ends
  /\ phase = "running"
  /\ source
  /\ source' = FALSE
  /\ bus' = Append(bus, [kind |-> kind])
  /\ UNCHANGED <<phase, config, applied, branch, stuck, held, events, serviceVars, bounds>>

-----------------------------------------------------------------------------
(* watchBus: it looks the branch up under the mutex and publishes after    *)
(* releasing it.                                                           *)

\* Mutant of BranchByElement: only the first message of a failure finds it.
ArmedBranch(d) == branch[d].generation # 0 /\ ~branch[d].reconnecting

\* branchByElementLocked: the branch that now carries the element's name.
BranchByElement(d) == branch[d].generation # 0

AnyReconnecting == \E d \in Dest : branch[d].reconnecting

\* A read message, and the event it will become.
ReadMessage(m) ==
  \/ /\ m.kind \in {"error", "rejected"}
     /\ BranchByElement(m.dest)
     /\ branch' = [branch EXCEPT ![m.dest].reconnecting = TRUE]
     /\ held' = << [kind |-> m.kind, dest |-> m.dest,
                   generation |-> branch[m.dest].generation] >>
  \/ /\ m.kind \in {"error", "rejected"}
     /\ ~BranchByElement(m.dest)
     /\ held' = << [kind |-> "input"] >>
     /\ UNCHANGED branch
  \/ /\ m.kind = "playing"
     /\ BranchByElement(m.dest)
     /\ branch' = [branch EXCEPT ![m.dest].reconnecting = FALSE]
     /\ held' = << [kind |-> "streaming", dest |-> m.dest,
                   generation |-> branch[m.dest].generation] >>
  \/ /\ m.kind = "playing"
     /\ ~BranchByElement(m.dest)
     /\ UNCHANGED <<branch, held>>
  \/ /\ m.kind = "input" \/ (m.kind = "eos" /\ ~AnyReconnecting)
     /\ held' = << [kind |-> "input"] >>
     /\ UNCHANGED branch
  \/ /\ m.kind = "eos"
     /\ AnyReconnecting
     /\ UNCHANGED <<branch, held>>

WatchBus ==
  /\ phase = "running"
  /\ bus # << >>
  /\ held = << >>
  /\ ReadMessage(Head(bus))
  /\ bus' = Tail(bus)
  /\ UNCHANGED <<phase, source, config, applied, stuck, events, serviceVars, bounds>>

\* publish never waits: what does not fit is dropped.
Published(new) ==
  LET all == events \o new IN SubSeq(all, 1, Min({Len(all), Capacity}))

Publish ==
  /\ phase = "running"
  /\ held # << >>
  /\ events' = Published(held)
  /\ held' = << >>
  /\ UNCHANGED <<phase, source, config, applied, branch, stuck, bus, serviceVars, bounds>>

-----------------------------------------------------------------------------
(* Branches are added and removed under the mutex.  Elements that cannot   *)
(* be made or linked leave no branch behind.  Those that were added to the *)
(* pipeline before a link failed stay in it, and their names are taken:    *)
(* adding elements of the same names fails from then on.  (A branch that   *)
(* cannot be activated is recorded all the same, and its elements report   *)
(* it: that is a branch which fails as soon as it is built.)               *)

Stopped(d) == [kind |-> "stopped", dest |-> d, generation |-> branch[d].generation]

\* addBranchLocked, for each of the missing branches in some order, until one
\* cannot be built.
AddBranches(missing, built) ==
  /\ built \subseteq missing \ stuck
  /\ \/ /\ built = missing \/ missing \cap stuck # {}
        /\ UNCHANGED <<stuck, faults>>
     \/ /\ faults < MaxFaults
        /\ faults' = faults + 1
        /\ \E d \in (missing \ stuck) \ built : stuck' \in {stuck, stuck \cup {d}}

\* What the branches are then; those without one are remembered.
Replaced(gone, built, generation) ==
  /\ branch' = [d \in Dest |-> IF d \in built THEN NewBranch(generation[d])
                               ELSE IF d \in gone THEN NoBranch
                               ELSE branch[d]]
  /\ bare' = bare \cup {d \in Dest : branch'[d].generation = 0}

\* ReconnectDestination
ReconnectDestination(d) ==
  /\ branch[d].generation # 0
  /\ events' = Published(<< Stopped(d) >>)
  /\ \E built \in SUBSET {d} : /\ AddBranches({d}, built)
                               /\ Replaced({d}, built, [c \in Dest |-> branch[c].generation])

\* ApplyDestinations: branches that are unwanted or older than wanted go,
\* those missing then come, unless building one of them fails.
Outdated(want) == {d \in Dest : /\ branch[d].generation # 0
                                /\ \/ ~want[d].on
                                   \/ want[d].generation > branch[d].generation}

ApplyDestinations(want) ==
  LET gone    == Outdated(want)
      missing == {d \in Dest : want[d].on /\ (branch[d].generation = 0 \/ d \in gone)}
  IN /\ \E q \in SetToSeqs(gone) : events' = Published([i \in DOMAIN q |-> Stopped(q[i])])
     /\ \E built \in SUBSET missing :
          /\ AddBranches(missing, built)
          /\ Replaced(gone, built, [d \in Dest |-> want[d].generation])
          /\ applied' = (built = missing)
     /\ config' = want
     /\ tries' = [d \in Dest |-> IF d \in missing THEN 0 ELSE tries[d]]

\* PUT /v1/destinations after a change of one output: a new generation.
ChangeDestination(d) ==
  /\ phase = "running"
  /\ config[d].generation < MaxGeneration
  /\ \E on \in (IF Removals THEN BOOLEAN ELSE {TRUE}) :
       ApplyDestinations([config EXCEPT ![d] = [generation |-> @.generation + 1,
                                                on |-> on]])
  /\ UNCHANGED <<phase, source, bus, held, states, timers, status, failures, echoes>>

\* The controller repeats a snapshot that was not applied completely.
RepeatDestinations ==
  /\ phase = "running"
  /\ ~applied
  /\ ApplyDestinations(config)
  /\ UNCHANGED <<phase, source, bus, held, states, timers, status, failures, echoes>>

-----------------------------------------------------------------------------
(* Service.Run                                                             *)

\* Mutant of Observe: an event of the same generation is taken for an old one.
ObserveNewer(st, d, state, g) ==
  IF g <= st[d].generation THEN st
  ELSE [st EXCEPT ![d] = [state |-> state, generation |-> g]]

\* Status.Observe: events of an older generation are ignored.
Observe(st, d, state, g) ==
  IF g < st[d].generation THEN st
  ELSE [st EXCEPT ![d] = [state |-> state, generation |-> g]]

EnsureState(d) == IF states[d].known THEN states[d] ELSE NewState

OnStreaming(d, g) ==
  /\ states' = [states EXCEPT ![d] = [EnsureState(d) EXCEPT
                  !.generation = g, !.since = "recent", !.waiting = FALSE,
                  !.terminal = FALSE]]
  /\ status' = Observe(status, d, "STREAMING", g)
  /\ UNCHANGED <<timers, phase>>

OnStopped(d, g) ==
  /\ states' = [states EXCEPT ![d] = NoState]
  /\ status' = Observe(status, d, "STOPPED", g)
  /\ UNCHANGED <<timers, phase>>

\* Mutant of Superseded: an error of the current generation is ignored too.
SupersededSame(d, g) ==
  LET state == EnsureState(d)
  IN g <= state.generation \/ state.waiting \/ state.terminal

\* An error the loop does not act on.
Superseded(d, g) ==
  LET state == EnsureState(d)
  IN g < state.generation \/ state.waiting \/ state.terminal

\* The attempts that count: none once the branch has been stable.
Attempts(d) == IF EnsureState(d).since = "stable" THEN 0 ELSE EnsureState(d).attempt

OnSuperseded(d, g) ==
  /\ Superseded(d, g)
  /\ states' = [states EXCEPT ![d] = EnsureState(d)]
  /\ UNCHANGED <<timers, status, phase>>

GivesUp(d, permanent) == permanent \/ Attempts(d) >= MaxAttempts

OnFailed(d, g, permanent) ==
  /\ ~Superseded(d, g)
  /\ GivesUp(d, permanent)
  /\ states' = [states EXCEPT ![d] = [EnsureState(d) EXCEPT
                  !.generation = g, !.attempt = Attempts(d), !.terminal = TRUE]]
  /\ status' = Observe(status, d, "FAILED", g)
  /\ UNCHANGED <<timers, phase>>

OnRetryable(d, g, permanent) ==
  /\ ~Superseded(d, g)
  /\ ~GivesUp(d, permanent)
  /\ states' = [states EXCEPT ![d] = [EnsureState(d) EXCEPT
                  !.generation = g, !.attempt = Attempts(d) + 1, !.waiting = TRUE]]
  /\ timers' = [timers EXCEPT ![<<d, g>>] = @ + 1]
  /\ status' = Observe(status, d, "RECONNECTING", g)
  /\ UNCHANGED phase

OnInputLost == phase' = "lost" /\ UNCHANGED <<states, timers, status>>

HandleEvent ==
  /\ phase = "running"
  /\ events # << >>
  /\ LET e == Head(events)
     IN \/ e.kind = "streaming" /\ OnStreaming(e.dest, e.generation)
        \/ e.kind = "stopped" /\ OnStopped(e.dest, e.generation)
        \/ /\ e.kind \in {"error", "rejected"}
           /\ \/ OnSuperseded(e.dest, e.generation)
              \/ OnFailed(e.dest, e.generation, e.kind = "rejected")
              \/ OnRetryable(e.dest, e.generation, e.kind = "rejected")
        \/ e.kind = "input" /\ OnInputLost
  /\ events' = Tail(events)
  /\ UNCHANGED <<source, config, applied, branch, stuck, bus, held, tries, bounds>>

\* A retry request that still applies.
Due(d, g) ==
  /\ states[d].known
  /\ states[d].generation = g
  /\ ~states[d].terminal

HandleRetry(d, g) ==
  /\ phase = "running"
  /\ timers[<<d, g>>] > 0
  /\ timers' = [timers EXCEPT ![<<d, g>>] = @ - 1]
  /\ LET connecting == Observe(status, d, "CONNECTING", g)
     IN \/ /\ ~Due(d, g)
           /\ UNCHANGED <<branch, stuck, events, states, status, tries, bare, faults>>
        \/ /\ Due(d, g)
           /\ states' = [states EXCEPT ![d].waiting = FALSE]
           /\ ReconnectDestination(d)
           /\ tries' = [tries EXCEPT ![d] = @ + 1]
           /\ status' = IF branch'[d].generation # 0 THEN connecting
                        ELSE Observe(connecting, d, "RECONNECTING", g)
        \/ /\ Due(d, g)
           /\ branch[d].generation = 0
           /\ states' = [states EXCEPT ![d].waiting = FALSE]
           /\ status' = Observe(connecting, d, "RECONNECTING", g)
           /\ UNCHANGED <<branch, stuck, events, tries, bare, faults>>
  /\ UNCHANGED <<phase, source, config, applied, bus, held, failures, echoes>>

\* A branch has been streaming for StableInterval.
Stabilise(d) ==
  /\ phase = "running"
  /\ states[d].known
  /\ states[d].since = "recent"
  /\ states' = [states EXCEPT ![d].since = "stable"]
  /\ tries' = [tries EXCEPT ![d] = 0]
  /\ UNCHANGED <<phase, source, runtimeVars, timers, status, bounds>>

\* SIGTERM: Run stops the pipeline and returns.
Terminate ==
  /\ Ends
  /\ phase = "running"
  /\ phase' = "told"
  /\ UNCHANGED <<source, runtimeVars, serviceVars, bounds>>

Next ==
  \/ Pipeline
  \/ \E kind \in {"input", "eos"} : InputFails(kind)
  \/ WatchBus
  \/ Publish
  \/ \E d \in Dest : ChangeDestination(d)
  \/ RepeatDestinations
  \/ HandleEvent
  \/ \E d \in Dest, g \in Generation : HandleRetry(d, g)
  \/ \E d \in Dest : Stabilise(d)
  \/ Terminate

\* The watcher and the loop run, sleeping retries come due, branches that are
\* being started come up or fail, and the controller repeats its snapshot.
Fairness ==
  /\ WF_vars(WatchBus)
  /\ WF_vars(Publish)
  /\ WF_vars(HandleEvent)
  /\ WF_vars(RepeatDestinations)
  /\ WF_vars(Pipeline)
  /\ \A d \in Dest, g \in Generation : WF_vars(HandleRetry(d, g))

Spec == Init /\ [][Next]_vars /\ Fairness

-----------------------------------------------------------------------------
(* Properties                                                              *)

\* The failure of an output, whichever of its elements report it, however often it
\* is rebuilt and whatever else is edited meanwhile, does not end the worker
\* (watchBus, Run).  The exception is an output that has been without a branch, because
\* it was removed or could not be built: a message that still names one of its elements
\* is taken for a failure of the input.  (And every variable has its type.)
OutageIsLocal == TypeOK /\ (phase = "lost" => ~source \/ bare # {})

\* The reconnections of a branch that is never stable are limited: after
\* MaxAttempts of them the loop gives the destination up (Run: MaxAttempts).
BoundedCircuit == \A d \in Dest : tries[d] <= MaxAttempts

\* What becomes of a failed branch that is not forgotten: it is built again or replaced,
\* or is no longer wanted, or the loop has given it up, or the worker ends.
Attended(d) == \/ branch[d].is \in {"starting", "up"}
               \/ ~config[d].on
               \/ states[d].known /\ states[d].terminal
               \/ phase # "running"

\* It is wanted and has no branch: building it has failed.
Unbuilt(d) == config[d].on /\ branch[d].generation = 0

\* No order of errors, retries, configuration changes and late events makes the loop
\* forget a failed branch (Run, watchBus), as long as the branch can be built again.
\* If it cannot, the output is left without one and without a retry.
OutputRecovers == \A d \in Dest : branch[d].is = "down" ~> Attended(d) \/ Unbuilt(d)

\* The reported state of an output that goes on streaming becomes STREAMING
\* and stays so (Status.Observe, Run).
StatusTellsTruth ==
  \A d \in Dest :
    <>[](phase = "running" /\ branch[d].is = "up") => <>[](status[d].state = "STREAMING")
=============================================================================
