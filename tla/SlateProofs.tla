---------------------------- MODULE SlateProofs -----------------------------
(***************************************************************************)
(* The safety of module Slate, for a channel of any capacity and any number*)
(* of changes and failures.                                                *)
(*                                                                         *)
(* NoGhostInput is not inductive: a frame that the decoder still holds when*)
(* lastSource is reset would set it again.  FrameInv adds that a decoder   *)
(* holds a frame only while its pipeline runs, which is why the deferred   *)
(* steps of an attempt stop the pipeline first.  EventsInv says what the   *)
(* channel holds, from which the service makes the status.                 *)
(***************************************************************************)
EXTENDS Slate, SequenceTheorems, TLAPS

Kinds == {"InputLive", "InputRejected", "FallbackActive", "InputUnavailable", "InputError"}
Events == [type : Kinds, forced : BOOLEAN, live : BOOLEAN]

\* The channel holds events of the input.
EventsInv == events \in Seq(Events)

\* Only the decoder of a pipeline that runs holds a frame.
FrameInv == fed => Flowing

Inv == NoGhostInput /\ EventsInv /\ FrameInv

-----------------------------------------------------------------------------
(* The operators of the model *)

LEMMA BoundFacts == Capacity \in Nat /\ Capacity > 0 /\ MaxChanges \in Nat
  BY SlateAssumption

LEMMA EventFacts ==
  ASSUME NEW t \in Kinds, NEW f \in BOOLEAN, NEW l \in BOOLEAN
  PROVE  Event(t, f, l) \in Events
  BY DEF Event, Events

\* The mode is one of three, and each has its event.
LEMMA ModeFacts ==
  ASSUME NEW live \in BOOLEAN, NEW p \in Policies
  PROVE  Mode(live, p) \in Modes /\ Kind(Mode(live, p)) \in Kinds
  BY DEF Mode, Modes, Kind, Kinds

\* publish keeps the channel within its capacity.
LEMMA PublishKeeps ==
  ASSUME TypeOK, EventsInv, NEW e \in Events, Publish(e)
  PROVE  EventsInv' /\ Len(events)' <= Capacity /\ dropped' \in BOOLEAN
<1>1. Len(events) \in Nat /\ Len(events) <= Capacity /\ dropped \in BOOLEAN /\ events \in Seq(Events)
  BY LenProperties DEF TypeOK, EventsInv
<1>2. CASE Len(events) < Capacity
  <2>1. events' = Append(events, e) /\ dropped' = dropped
    BY <1>2 DEF Publish
  <2>2. events' \in Seq(Events) /\ Len(events') = Len(events) + 1
    BY <1>1, <2>1, AppendProperties
  <2> QED
    BY <1>1, <1>2, <2>1, <2>2, BoundFacts DEF EventsInv
<1>3. CASE ~ (Len(events) < Capacity)
  BY <1>1, <1>3 DEF Publish, EventsInv
<1> QED
  BY <1>2, <1>3

StatusRow == [error : BOOLEAN, active : BOOLEAN, forced : BOOLEAN, live : BOOLEAN,
              unavailable : BOOLEAN]

\* Every event leaves a status that can be reported.
LEMMA ObserveFacts ==
  ASSUME status \in StatusRow, NEW e \in Events
  PROVE  Observe(e) \in StatusRow
<1>1. NoStatus \in StatusRow /\ e.type \in Kinds /\ e.forced \in BOOLEAN /\ e.live \in BOOLEAN
  BY DEF NoStatus, StatusRow, Events
<1>2. /\ [NoStatus EXCEPT !.live = TRUE] \in StatusRow
      /\ [status EXCEPT !.error = TRUE, !.live = FALSE] \in StatusRow
      /\ [error |-> status.error /\ ~ e.live, active |-> TRUE, forced |-> e.forced, live |-> e.live,
          unavailable |-> FALSE] \in StatusRow
      /\ [NoStatus EXCEPT !.unavailable = TRUE, !.error = status.error] \in StatusRow
  BY <1>1 DEF StatusRow
<1> QED
  BY <1>1, <1>2 DEF Observe, Kinds

LEMMA ChangeFacts ==
  ASSUME TypeOK, UNCHANGED changes \/ Change
  PROVE  changes' \in 0 .. MaxChanges
<1>1. changes \in 0 .. MaxChanges
  BY DEF TypeOK
<1> QED
  BY <1>1, BoundFacts DEF Change

-----------------------------------------------------------------------------
(* The type invariant in two parts, and one lemma per group of actions *)

SourceType == /\ input \in {"none", "good", "bad"} /\ policy \in Policies
              /\ lastSource \in {"zero", "fresh", "stale"}
              /\ phase \in {"resolve", "playing", "null", "reset", "pause", "done"}
              /\ rejected \in BOOLEAN /\ fed \in BOOLEAN
LoopType == /\ loop \in {"idle", "looked", "returned", "done"}
            /\ looked \in [live : BOOLEAN, policy : Policies]
            /\ shown \in [mode : Modes \union {""}, live : BOOLEAN, forced : BOOLEAN]
            /\ selected \in Modes /\ ticked \in BOOLEAN
ChannelType == Len(events) <= Capacity /\ dropped \in BOOLEAN
ServiceType == status \in StatusRow /\ service \in {"running", "stopping", "stopped"} /\ cancelled \in BOOLEAN

LEMMA TypeParts ==
  TypeOK <=> SourceType /\ LoopType /\ ChannelType /\ ServiceType /\ changes \in 0 .. MaxChanges
<1>1. ASSUME NEW a, NEW b, NEW c, NEW d, NEW e
      PROVE  {a, b, c, d, e} \subseteq BOOLEAN <=>
               a \in BOOLEAN /\ b \in BOOLEAN /\ c \in BOOLEAN /\ d \in BOOLEAN /\ e \in BOOLEAN
  OBVIOUS
<1>2. {rejected, fed, ticked, dropped, cancelled} \subseteq BOOLEAN <=>
        /\ rejected \in BOOLEAN /\ fed \in BOOLEAN /\ ticked \in BOOLEAN
        /\ dropped \in BOOLEAN /\ cancelled \in BOOLEAN
  BY <1>1
<1> QED
  BY <1>2, Zenon DEF TypeOK, SourceType, LoopType, ChannelType, ServiceType, StatusRow

LEMMA TypeJoin ==
  ASSUME SourceType', LoopType', ChannelType', ServiceType', changes' \in 0 .. MaxChanges
  PROVE  TypeOK'
<1>1. {rejected', fed', ticked', dropped', cancelled'} \subseteq BOOLEAN
  BY DEF SourceType, LoopType, ChannelType, ServiceType
<1> QED
  BY <1>1, Zenon DEF TypeOK, SourceType, LoopType, ChannelType, ServiceType, StatusRow

\* No frame from between two attempts.
GhostInv == phase \in {"pause", "resolve", "done"} => lastSource = "zero"

LEMMA InitHolds == Init => Inv
<1> SUFFICES ASSUME Init PROVE Inv
  OBVIOUS
<1>1. SourceType /\ LoopType /\ ServiceType
  BY DEF Init, SourceType, LoopType, ServiceType, Policies, Modes, NoStatus, StatusRow
<1>2. ChannelType /\ EventsInv /\ changes \in 0 .. MaxChanges
  <2>1. events = <<>> /\ Len(<<>>) = 0 /\ <<>> \in Seq(Events)
    BY EmptySeq DEF Init
  <2> QED
    <3>1. changes = 0 /\ dropped = FALSE
      BY DEF Init
    <3>2. 0 \in 0 .. MaxChanges /\ 0 <= Capacity
      BY BoundFacts
    <3> QED
      BY <2>1, <3>1, <3>2 DEF ChannelType, EventsInv
<1>3. GhostInv /\ FrameInv
  BY DEF Init, GhostInv, FrameInv
<1> QED
  BY <1>1, <1>2, <1>3, TypeParts DEF Inv, NoGhostInput, GhostInv

\* The world and the attempts: neither rawLoop nor the service takes part.
LEMMA SourceKeeps ==
  ASSUME Inv,
         \/ \E i \in {"none", "good", "bad"} : InputChanges(i)
         \/ \E p \in Policies : ApplySlatePolicy(p)
         \/ Age \/ SourceLoop \/ AttemptFails
  PROVE  Inv'
<1>0. TypeOK /\ EventsInv /\ SourceType /\ GhostInv /\ FrameInv
  BY TypeParts DEF Inv, NoGhostInput, GhostInv
<1>1. ServiceType'
  BY <1>0, TypeParts DEF InputChanges, ApplySlatePolicy, Age, SourceLoop, AttemptFails, Resolve, Decode,
     Frame, Reject, AttemptEnds, ToNull, Reset, Again, serviceVars, ServiceType
<1>2. LoopType'
  BY <1>0, TypeParts DEF InputChanges, ApplySlatePolicy, Age, SourceLoop, AttemptFails, Resolve, Decode,
     Frame, Reject, AttemptEnds, ToNull, Reset, Again, loopVars, LoopType
<1>3. ChannelType' /\ EventsInv'
  <2>1. CASE Reject
    <3>1. Event("InputRejected", FALSE, FALSE) \in Events
      BY EventFacts DEF Kinds
    <3> QED
      BY <1>0, <2>1, <3>1, PublishKeeps DEF Reject, ChannelType
  <2>2. CASE UNCHANGED <<events, dropped>>
    BY <1>0, <2>2, TypeParts DEF ChannelType, EventsInv
  <2> QED
    BY <2>1, <2>2 DEF InputChanges, ApplySlatePolicy, Age, SourceLoop, AttemptFails, Resolve, Decode,
       Frame, AttemptEnds, ToNull, Reset, Again
<1>4. changes' \in 0 .. MaxChanges
  <2>1. UNCHANGED changes \/ Change
    BY DEF InputChanges, ApplySlatePolicy, Age, SourceLoop, AttemptFails, Resolve, Decode,
       Frame, Reject, AttemptEnds, ToNull, Reset, Again
  <2> QED
    BY <1>0, <2>1, ChangeFacts
<1>5. SourceType' /\ GhostInv' /\ FrameInv'
  <2>1. CASE \/ \E i \in {"none", "good", "bad"} : InputChanges(i)
             \/ \E p \in Policies : ApplySlatePolicy(p)
             \/ Age
    BY <1>0, <2>1 DEF InputChanges, ApplySlatePolicy, Age, sourceVars, SourceType, GhostInv, FrameInv, Flowing
  <2>2. CASE Resolve \/ Decode \/ Frame \/ Reject
    BY <1>0, <2>2 DEF Resolve, Decode, Frame, Reject, SourceType, GhostInv, FrameInv, Flowing
  <2>3. CASE AttemptEnds \/ AttemptFails \/ ToNull \/ Reset \/ Again
    <3>1. After("playing") = "null" /\ After("null") = "reset" /\ After("reset") = "pause"
      BY DEF After
    <3>2. CASE AttemptEnds \/ AttemptFails
      BY <1>0, <3>1, <3>2 DEF AttemptEnds, AttemptFails, SourceType, GhostInv, FrameInv, Flowing
    <3>3. CASE ToNull
      BY <1>0, <3>1, <3>3 DEF ToNull, SourceType, GhostInv, FrameInv, Flowing
    <3>5. CASE Reset
      <4>1. /\ phase = "reset" /\ phase' = "pause" /\ lastSource' = "zero"
            /\ UNCHANGED <<input, policy, rejected, fed>>
        BY <3>1, <3>5 DEF Reset
      <4>2. ~ fed
        BY <1>0, <4>1 DEF FrameInv, Flowing
      <4> QED
        BY <1>0, <4>1, <4>2 DEF SourceType, GhostInv, FrameInv
    <3>4. CASE Again
      BY <1>0, <3>4 DEF Again, SourceType, GhostInv, FrameInv, Flowing
    <3> QED
      BY <2>3, <3>2, <3>3, <3>4, <3>5
  <2> QED
    BY <2>1, <2>2, <2>3 DEF SourceLoop
<1> QED
  BY <1>1, <1>2, <1>3, <1>4, <1>5, TypeJoin DEF Inv, NoGhostInput, GhostInv

\* rawLoop, which leaves the attempts alone.
LEMMA LoopKeeps ==
  ASSUME Inv, RawLoop \/ SlateFails
  PROVE  Inv'
<1>0. /\ TypeOK /\ EventsInv /\ SourceType /\ LoopType /\ ServiceType /\ GhostInv /\ FrameInv
  BY TypeParts DEF Inv, NoGhostInput, GhostInv
<1>1. SourceType' /\ GhostInv' /\ FrameInv'
  <2>1. UNCHANGED <<input, policy, lastSource, phase, rejected, fed>>
    BY DEF RawLoop, SlateFails, Look, Select, LoopReturns, LoopCancels, sourceVars
  <2> QED
    BY <1>0, <2>1 DEF SourceType, GhostInv, FrameInv, Flowing
<1>2. ServiceType'
  BY <1>0 DEF RawLoop, SlateFails, Look, Select, LoopReturns, LoopCancels, serviceVars, ServiceType
<1>3. changes' \in 0 .. MaxChanges
  <2>1. UNCHANGED changes \/ Change
    BY DEF RawLoop, SlateFails, Look, Select, LoopReturns, LoopCancels
  <2> QED
    BY <1>0, <2>1, ChangeFacts
<1>4. LoopType' /\ ChannelType' /\ EventsInv'
  <2>1. CASE Select
    <3> DEFINE live == looked.live
               forced == looked.policy.forced
               next == Mode(live, looked.policy)
    <3>1. live \in BOOLEAN /\ forced \in BOOLEAN /\ looked.policy \in Policies
      BY <1>0 DEF LoopType, Policies
    <3>2. next \in Modes /\ Kind(next) \in Kinds
      BY <3>1, ModeFacts
    <3>3. /\ loop' = "idle" /\ UNCHANGED <<looked, ticked>>
          /\ \/ /\ selected' = next /\ Publish(Event(Kind(next), forced, live))
                /\ shown' = [mode |-> next, live |-> live, forced |-> forced]
             \/ UNCHANGED <<selected, events, dropped, shown>>
      BY <2>1 DEF Select
    <3>4. Event(Kind(next), forced, live) \in Events
      BY <3>1, <3>2, EventFacts
    <3> HIDE DEF live, forced, next
    <3>5. LoopType'
      <4>1. shown' \in [mode : Modes \union {""}, live : BOOLEAN, forced : BOOLEAN] /\ selected' \in Modes
        <5>1. [mode |-> next, live |-> live, forced |-> forced]
                 \in [mode : Modes \union {""}, live : BOOLEAN, forced : BOOLEAN]
          BY <3>1, <3>2
        <5> QED
          BY <1>0, <3>2, <3>3, <5>1 DEF LoopType
      <4> QED
        BY <1>0, <3>3, <4>1 DEF LoopType
    <3>6. ChannelType' /\ EventsInv'
      BY <1>0, <3>3, <3>4, PublishKeeps, TypeParts DEF ChannelType, EventsInv
    <3> QED
      BY <3>5, <3>6
  <2>2. CASE SlateFails
    <3>1. Event("InputError", FALSE, FALSE) \in Events
      BY EventFacts DEF Kinds
    <3> QED
      BY <1>0, <2>2, <3>1, PublishKeeps DEF SlateFails, ChannelType, LoopType
  <2>3. CASE Look
    <3>1. looked' \in [live : BOOLEAN, policy : Policies]
      BY <1>0, <2>3 DEF Look, SourceType
    <3> QED
      BY <1>0, <2>3, <3>1, TypeParts DEF Look, ChannelType, EventsInv, LoopType
  <2>4. CASE LoopReturns \/ LoopCancels
    BY <1>0, <2>4, TypeParts DEF LoopReturns, LoopCancels, ChannelType, EventsInv, LoopType
  <2> QED
    BY <2>1, <2>2, <2>3, <2>4 DEF RawLoop
<1> QED
  BY <1>1, <1>2, <1>3, <1>4, TypeJoin DEF Inv, NoGhostInput, GhostInv

\* The service, and a step that does nothing.
LEMMA ServiceKeeps ==
  ASSUME Inv, Consume \/ Terminate \/ Stop \/ UNCHANGED vars
  PROVE  Inv'
<1>0. /\ TypeOK /\ EventsInv /\ SourceType /\ LoopType /\ ServiceType /\ ChannelType
      /\ GhostInv /\ FrameInv /\ changes \in 0 .. MaxChanges
  BY TypeParts DEF Inv, NoGhostInput, GhostInv
<1>1. SourceType' /\ GhostInv' /\ FrameInv'
  BY <1>0 DEF Consume, Terminate, Stop, vars, sourceVars, SourceType, GhostInv, FrameInv, Flowing
<1>2. LoopType' /\ changes' \in 0 .. MaxChanges
  BY <1>0 DEF Consume, Terminate, Stop, vars, loopVars, LoopType
<1>3. ChannelType' /\ EventsInv' /\ ServiceType'
  <2>1. CASE Consume
    <3>1. /\ events \in Seq(Events) /\ events # <<>> /\ UNCHANGED <<dropped, cancelled>>
          /\ events' = Tail(events) /\ status' = Observe(Head(events))
          /\ service' \in {"stopping", service}
      BY <1>0, <2>1 DEF Consume, EventsInv
    <3>2. /\ Head(events) \in Events /\ Tail(events) \in Seq(Events)
          /\ Len(Tail(events)) = Len(events) - 1 /\ Len(events) \in Nat
      BY <3>1, HeadTailProperties, LenProperties
    <3>3. status' \in StatusRow
      BY <1>0, <3>1, <3>2, ObserveFacts DEF ServiceType
    <3> QED
      BY <1>0, <3>1, <3>2, <3>3, BoundFacts DEF ChannelType, EventsInv, ServiceType
  <2>2. CASE Terminate \/ Stop \/ UNCHANGED vars
    <3>1. NoStatus \in StatusRow
      BY DEF NoStatus, StatusRow
    <3>2. UNCHANGED <<events, dropped>>
      BY <2>2 DEF Terminate, Stop, vars
    <3>3. ServiceType'
      BY <1>0, <2>2, <3>1 DEF Terminate, Stop, vars, serviceVars, ServiceType
    <3> QED
      BY <1>0, <3>2, <3>3 DEF ChannelType, EventsInv
  <2> QED
    BY <2>1, <2>2
<1> QED
  BY <1>1, <1>2, <1>3, TypeJoin DEF Inv, NoGhostInput, GhostInv

LEMMA NextKeeps == Inv /\ [Next]_vars => Inv'
  BY SourceKeeps, LoopKeeps, ServiceKeeps DEF Next

-----------------------------------------------------------------------------
(* Theorems *)

\* The inductive invariant holds in every state of every behaviour.
THEOREM Invariance == Spec => []Inv
<1> QED
  BY InitHolds, NextKeeps, PTL DEF Spec

\* Whatever order the probe of the decoder, the end of an attempt and its deferred
\* steps run in, between two attempts of rawSourceLoop lastSource is zero.
THEOREM NoFrameOutlivesItsAttempt == Spec => []NoGhostInput
<1>1. Inv => NoGhostInput
  BY DEF Inv
<1> QED
  BY <1>1, Invariance, PTL

=============================================================================
