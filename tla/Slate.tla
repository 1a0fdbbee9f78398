------------------------------- MODULE Slate --------------------------------
(***************************************************************************)
(* What a worker sends while its input comes and goes.  rawSourceLoop      *)
(* connects to the source again and again; every decoded frame of an       *)
(* attempt moves lastSource.  rawLoop looks at lastSource and at the       *)
(* owner's policy every 20 ms, selects the source, the slate or black, and *)
(* publishes what it selected into a channel that drops what it cannot     *)
(* hold.  The service consumes the channel and keeps the status.           *)
(*                                                                         *)
(* Time is abstract: lastSource is zero, less than two seconds old (fresh) *)
(* or older.  While the input is good frames keep coming; while it is not, *)
(* time passes.  An attempt begins a second after the last one ended, in   *)
(* which rawLoop has looked at least once (ticked).                        *)
(***************************************************************************)
EXTENDS Naturals, Sequences

CONSTANTS Capacity,     \* of the channel (128 in the code)
          MaxChanges    \* bound on changes of input and policy, and on failures

ASSUME SlateAssumption == Capacity \in Nat \ {0} /\ MaxChanges \in Nat

VARIABLES
  input,      \* what the source sends: nothing, a supported stream or another
  policy,     \* the slate policy in force
  lastSource, \* when the last frame was decoded
  phase,      \* of rawSourceLoop
  rejected,   \* the attempt has seen an unsupported stream
  fed,        \* its decoder holds a frame
  loop,       \* of rawLoop
  looked,     \* what rawLoop has read under the mutex
  shown,      \* mode, previousLive and previousForced
  selected,   \* the active pads
  ticked,     \* rawLoop has looked since the last attempt ended
  events,     \* the channel
  dropped,    \* history: an event was dropped
  status,     \* the input part of the worker's Snapshot
  service,    \* of Service.Run
  cancelled,  \* the context of both loops
  changes     \* changes and failures so far

sourceVars  == <<lastSource, phase, rejected, fed>>
loopVars    == <<loop, looked, shown, selected>>
serviceVars == <<status, service>>
vars == <<input, policy, lastSource, phase, rejected, fed, loop, looked, shown, selected,
          ticked, events, dropped, status, service, cancelled, changes>>

Policies == [forced : BOOLEAN, onSourceLoss : BOOLEAN]
Event(t, forced, live) == [type |-> t, forced |-> forced, live |-> live]
NoStatus == [error |-> FALSE, active |-> FALSE, forced |-> FALSE, live |-> FALSE,
             unavailable |-> FALSE]

\* startFallback
Init ==
  /\ input = "none"
  /\ policy \in Policies
  /\ lastSource = "zero"
  /\ phase = "resolve" /\ rejected = FALSE /\ fed = FALSE
  /\ loop = "idle"
  /\ looked = [live |-> FALSE, policy |-> policy]
  /\ shown = [mode |-> "", live |-> FALSE, forced |-> FALSE]
  /\ selected = "slate"
  /\ ticked = TRUE
  /\ events = <<>> /\ dropped = FALSE
  /\ status = NoStatus
  /\ service = "running"
  /\ cancelled = FALSE
  /\ changes = 0

Change == changes < MaxChanges /\ changes' = changes + 1

-----------------------------------------------------------------------------
(* The channel *)

Publish(e) ==
  IF Len(events) < Capacity THEN events' = Append(events, e) /\ UNCHANGED dropped
  ELSE dropped' = TRUE /\ UNCHANGED events

-----------------------------------------------------------------------------
(* The world: the source, and the owner's policy as PUT /v1/slate applies it *)

InputChanges(i) ==
  /\ i # input
  /\ Change
  /\ input' = i
  /\ UNCHANGED <<policy, sourceVars, loopVars, ticked, events, dropped, serviceVars, cancelled>>

ApplySlatePolicy(p) ==
  /\ service = "running"
  /\ p # policy
  /\ Change
  /\ policy' = p
  /\ UNCHANGED <<input, sourceVars, loopVars, ticked, events, dropped, serviceVars, cancelled>>

\* Two seconds without a frame.
Age ==
  /\ lastSource = "fresh"
  /\ ~ fed /\ (input # "good" \/ rejected \/ phase # "playing")
  /\ lastSource' = "stale"
  /\ UNCHANGED <<input, policy, phase, rejected, fed, loopVars, ticked, events, dropped,
                 serviceVars, cancelled, changes>>

-----------------------------------------------------------------------------
(* rawSourceLoop *)

\* Mutant of After: lastSource is reset before the pipeline stands still.
AfterResetFirst(p) ==
  CASE p = "playing" -> "reset" [] p = "reset" -> "null" [] p = "null" -> "pause"

\* The deferred steps of an attempt, last one first: the pipeline goes to Null,
\* lastSource is reset.
After(p) ==
  CASE p = "playing" -> "null" [] p = "null" -> "reset" [] p = "reset" -> "pause"

\* resolveSource, and building and starting the pipeline; an address that needs no
\* lookup is used though the context is over.
Resolve ==
  /\ phase = "resolve"
  /\ \/ phase' = "playing" /\ UNCHANGED changes
     \/ /\ \/ cancelled /\ UNCHANGED changes
           \/ Change
        /\ phase' = "reset"
  /\ rejected' = FALSE /\ fed' = FALSE
  /\ UNCHANGED <<input, policy, lastSource, loopVars, ticked, events, dropped, serviceVars,
                 cancelled>>

\* The pipeline of the attempt runs until it is in Null.
Flowing == phase \in {"playing", "null"}

\* A supported stream is parsed and reaches the decoder.
Decode ==
  /\ Flowing /\ input = "good" /\ ~ rejected /\ ~ fed
  /\ fed' = TRUE
  /\ UNCHANGED <<input, policy, lastSource, phase, rejected, loopVars, ticked, events, dropped,
                 serviceVars, cancelled, changes>>

\* The probe after the decoder
Frame ==
  /\ fed
  /\ fed' = FALSE
  /\ lastSource' = "fresh"
  /\ UNCHANGED <<input, policy, phase, rejected, loopVars, ticked, events, dropped, serviceVars,
                 cancelled, changes>>

\* reject: another codec, or a picture too large
Reject ==
  /\ Flowing /\ input = "bad" /\ ~ rejected
  /\ rejected' = TRUE
  /\ Publish(Event("InputRejected", FALSE, FALSE))
  /\ UNCHANGED <<input, policy, lastSource, phase, fed, loopVars, ticked, serviceVars,
                 cancelled, changes>>

\* The attempt ends: cancelled, rejected, or five seconds without a frame.
AttemptEnds ==
  /\ phase = "playing"
  /\ cancelled \/ rejected \/ (input = "none" /\ lastSource # "fresh")
  /\ phase' = After(phase)
  /\ UNCHANGED <<input, policy, lastSource, rejected, fed, loopVars, ticked, events, dropped,
                 serviceVars, cancelled, changes>>

\* An error or the end of the stream on the attempt's bus.
AttemptFails ==
  /\ phase = "playing"
  /\ Change
  /\ phase' = After(phase)
  /\ UNCHANGED <<input, policy, lastSource, rejected, fed, loopVars, ticked, events, dropped,
                 serviceVars, cancelled>>

ToNull ==
  /\ phase = "null"
  /\ phase' = After(phase)
  /\ fed' = FALSE
  /\ UNCHANGED <<input, policy, lastSource, rejected, loopVars, ticked, events, dropped,
                 serviceVars, cancelled, changes>>

Reset ==
  /\ phase = "reset"
  /\ phase' = After(phase)
  /\ lastSource' = "zero"
  /\ ticked' = FALSE
  /\ UNCHANGED <<input, policy, rejected, fed, loopVars, events, dropped, serviceVars, cancelled,
                 changes>>

\* The pause of a second, or the end.
Again ==
  /\ phase = "pause"
  /\ \/ cancelled /\ phase' = "done"
     \/ ~ cancelled /\ ticked /\ phase' = "resolve"
  /\ UNCHANGED <<input, policy, lastSource, rejected, fed, loopVars, ticked, events, dropped,
                 serviceVars, cancelled, changes>>

-----------------------------------------------------------------------------
(* rawLoop *)

\* One tick reads under the mutex; when the context is over too, select may still
\* take the tick ...
Look ==
  /\ loop = "idle"
  /\ loop' = "looked"
  /\ looked' = [live |-> lastSource = "fresh", policy |-> policy]
  /\ ticked' = TRUE
  /\ UNCHANGED <<input, policy, sourceVars, shown, selected, events, dropped, serviceVars,
                 cancelled, changes>>

\* Mutant of Mode: the slate is forced only where it also follows a loss.
ModeOnLoss(live, p) ==
  IF live /\ ~ p.forced THEN "source" ELSE IF p.onSourceLoss THEN "slate" ELSE "none"

Mode(live, p) ==
  IF live /\ ~ p.forced THEN "source"
  ELSE IF p.forced \/ p.onSourceLoss THEN "slate" ELSE "none"

\* Mutant of Changed: only another mode is worth an event.
ChangedMode(next, live, forced) == next # shown.mode

Changed(next, live, forced) ==
  next # shown.mode \/ live # shown.live \/ forced # shown.forced

Kind(mode) ==
  CASE mode = "source" -> "InputLive"
    [] mode = "slate" -> "FallbackActive"
    [] mode = "none" -> "InputUnavailable"

\* ... and selects and publishes without it, when something has changed.
Select ==
  LET live == looked.live
      forced == looked.policy.forced
      next == Mode(live, looked.policy) IN
  /\ loop = "looked"
  /\ loop' = "idle"
  /\ \/ /\ Changed(next, live, forced)
        /\ selected' = next
        /\ Publish(Event(Kind(next), forced, live))
        /\ shown' = [mode |-> next, live |-> live, forced |-> forced]
     \/ /\ ~ Changed(next, live, forced)
        /\ UNCHANGED <<selected, events, dropped, shown>>
  /\ UNCHANGED <<input, policy, sourceVars, looked, ticked, serviceVars, cancelled, changes>>

\* Mutant of SlateFails: rawLoop returns without a word.
SlateFailsSilently ==
  /\ loop = "idle"
  /\ Change
  /\ loop' = "returned"
  /\ UNCHANGED <<input, policy, sourceVars, looked, shown, selected, ticked, events, dropped,
                 serviceVars, cancelled>>

\* The decoder of the slate fails or cannot be rewound.
SlateFails ==
  /\ loop = "idle"
  /\ Change
  /\ Publish(Event("InputError", FALSE, FALSE))
  /\ loop' = "returned"
  /\ UNCHANGED <<input, policy, sourceVars, looked, shown, selected, ticked, serviceVars,
                 cancelled>>

LoopReturns ==
  /\ loop = "idle" /\ cancelled
  /\ loop' = "returned"
  /\ UNCHANGED <<input, policy, sourceVars, looked, shown, selected, ticked, events, dropped,
                 serviceVars, cancelled, changes>>

\* startFallback: cancel() after rawLoop, so that the other loop ends too.
LoopCancels ==
  /\ loop = "returned"
  /\ loop' = "done"
  /\ cancelled' = TRUE
  /\ UNCHANGED <<input, policy, sourceVars, looked, shown, selected, ticked, events, dropped,
                 serviceVars, changes>>

-----------------------------------------------------------------------------
(* The service *)

\* Mutant of Observe: what is live again keeps its old error.
ObserveKeepsError(e) ==
  CASE e.type = "InputLive" -> [NoStatus EXCEPT !.live = TRUE, !.error = status.error]
    [] e.type = "InputRejected" -> [status EXCEPT !.error = TRUE, !.live = FALSE]
    [] e.type = "FallbackActive" -> [error |-> status.error, active |-> TRUE,
                                     forced |-> e.forced, live |-> e.live,
                                     unavailable |-> FALSE]
    [] e.type = "InputUnavailable" -> [NoStatus EXCEPT !.unavailable = TRUE,
                                                       !.error = status.error]
    [] e.type = "InputError" -> NoStatus

\* Status.Observe, for the events of the input.
Observe(e) ==
  CASE e.type = "InputLive" -> [NoStatus EXCEPT !.live = TRUE]
    [] e.type = "InputRejected" -> [status EXCEPT !.error = TRUE, !.live = FALSE]
    [] e.type = "FallbackActive" -> [error |-> status.error /\ ~ e.live, active |-> TRUE,
                                     forced |-> e.forced, live |-> e.live,
                                     unavailable |-> FALSE]
    [] e.type = "InputUnavailable" -> [NoStatus EXCEPT !.unavailable = TRUE,
                                                       !.error = status.error]
    [] e.type = "InputError" -> NoStatus

\* Service.Run: one event; an input error ends it.
Consume ==
  /\ service = "running" /\ events # <<>>
  /\ events' = Tail(events)
  /\ status' = Observe(Head(events))
  /\ service' = IF Head(events).type = "InputError" THEN "stopping" ELSE service
  /\ UNCHANGED <<input, policy, sourceVars, loopVars, ticked, dropped, cancelled, changes>>

\* The worker is told to stop; the loops' context is derived from the one cancelled.
Terminate ==
  /\ service = "running"
  /\ service' = "stopping"
  /\ cancelled' = TRUE
  /\ UNCHANGED <<input, policy, sourceVars, loopVars, ticked, events, dropped, status, changes>>

\* Stop: cancel, then wait for both loops; nothing reads the channel any more.
Stop ==
  /\ service = "stopping"
  /\ \/ /\ ~ cancelled
        /\ cancelled' = TRUE
        /\ UNCHANGED serviceVars
     \/ /\ loop = "done" /\ phase = "done"
        /\ service' = "stopped"
        /\ status' = NoStatus
        /\ UNCHANGED cancelled
  /\ UNCHANGED <<input, policy, sourceVars, loopVars, ticked, events, dropped, changes>>

-----------------------------------------------------------------------------
SourceLoop == Resolve \/ Decode \/ Frame \/ Reject \/ AttemptEnds \/ ToNull \/ Reset \/ Again
RawLoop    == Look \/ Select \/ LoopReturns \/ LoopCancels

Next ==
  \/ \E i \in {"none", "good", "bad"} : InputChanges(i)
  \/ \E p \in Policies : ApplySlatePolicy(p)
  \/ Age
  \/ SourceLoop \/ AttemptFails
  \/ RawLoop \/ SlateFails
  \/ Consume \/ Terminate \/ Stop

\* Both loops run on timers, frames that are there are decoded, time passes, and the
\* service reads its channel; select takes each of its cases in time.  Nothing makes
\* the world change or the worker stop.
Fairness ==
  /\ WF_vars(Age)
  /\ WF_vars(Resolve) /\ WF_vars(Decode) /\ WF_vars(Frame) /\ WF_vars(Reject)
  /\ WF_vars(AttemptEnds \/ ToNull \/ Reset \/ Again)
  /\ WF_vars(RawLoop) /\ SF_vars(LoopReturns)
  /\ WF_vars(Consume) /\ WF_vars(Stop)

Spec == Init /\ [][Next]_vars /\ Fairness

-----------------------------------------------------------------------------
Modes == {"source", "slate", "none"}

\* Each goroutine is at a step it has, and the channel holds no more than it can.
TypeOK ==
  /\ input \in {"none", "good", "bad"}
  /\ policy \in Policies
  /\ lastSource \in {"zero", "fresh", "stale"}
  /\ phase \in {"resolve", "playing", "null", "reset", "pause", "done"}
  /\ loop \in {"idle", "looked", "returned", "done"}
  /\ looked \in [live : BOOLEAN, policy : Policies]
  /\ shown \in [mode : Modes \union {""}, live : BOOLEAN, forced : BOOLEAN]
  /\ selected \in Modes
  /\ Len(events) <= Capacity
  /\ status \in [error : BOOLEAN, active : BOOLEAN, forced : BOOLEAN, live : BOOLEAN,
                 unavailable : BOOLEAN]
  /\ service \in {"running", "stopping", "stopped"}
  /\ {rejected, fed, ticked, dropped, cancelled} \subseteq BOOLEAN
  /\ changes \in 0 .. MaxChanges

\* No frame of an attempt that is over makes the input look live: between attempts
\* there is no last frame.  (And every variable has its type.)
NoGhostInput == /\ TypeOK
                /\ phase \in {"pause", "resolve", "done"} => lastSource = "zero"

\* Once input and policy have settled, what is sent is what they ask for.
SelectionFollows ==
  <>[](\/ cancelled \/ loop = "returned"
       \/ /\ selected = "slate" <=> policy.forced \/ (input # "good" /\ policy.onSourceLoss)
          /\ selected = "source" <=> input = "good" /\ ~ policy.forced)

\* Once they have settled, the status tells what is sent and why, unless the channel
\* has had to drop an event.
StatusFollows ==
  <>[](\/ service # "running" \/ loop \in {"returned", "done"} \/ dropped
       \/ /\ status.active = (selected = "slate")
          /\ status.unavailable = (selected = "none")
          /\ status.forced = policy.forced
          /\ status.live = (input = "good")
          /\ input = "good" => ~ status.error
          /\ input = "bad" => status.error)

\* A worker that stops comes to its end, though nothing reads what its loops publish;
\* and when the slate itself fails the worker ends (and is started again by the
\* controller), unless the event that says so is dropped.
WorkerEnds ==
  /\ service = "stopping" ~> service = "stopped"
  /\ loop = "returned" ~> service = "stopped" \/ dropped
=============================================================================
