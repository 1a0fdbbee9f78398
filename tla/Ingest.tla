------------------------------- MODULE Ingest -------------------------------
(***************************************************************************)
(* How publishers become sessions: the edge asks the API to admit each     *)
(* connection (edgeAuth), may report what it sees (edgeObservation), and   *)
(* is polled by every controller pass (pollEdge); all three end in the     *)
(* transaction ObserveIngest.  The owner ends a broadcast with StopSession *)
(* and may disable the stream.                                             *)
(*                                                                         *)
(* Time is abstract: a connection was observed within the grace period or  *)
(* not, the last complete poll is at most ten seconds old or not, and an   *)
(* observation is newer than, as old as, or older than the stored one.     *)
(* What becomes of a session (module Reconcile) is reduced to its end.     *)
(***************************************************************************)
EXTENDS Naturals, FiniteSets

CONSTANTS Stream,
          Conn,          \* connection identities of the edge, never reused
          StreamOf,      \* the path each connection publishes to
          None,
          MaxSessions,   \* bound on sessions made
          Hooks,         \* whether observations are posted to the API
          Disables,      \* the streams that may be disabled
          Reenables,     \* whether they may be enabled again
          MaxFaults      \* bound on lost answers and failed polls

ASSUME IngestAssumption ==
  /\ StreamOf \in [Conn -> Stream]
  /\ {MaxSessions, MaxFaults} \subseteq Nat
  /\ Disables \subseteq Stream
  /\ {Hooks, Reenables} \subseteq BOOLEAN
  /\ None \notin Conn

VARIABLES
  \* MediaMTX
  edge,        \* each connection: new, asking, admitted, ready or gone
  \* observations on their way to the API
  hook,        \* the posted one, with its age compared to the stored one
  \* SQLite
  enabled,     \* streams.enabled
  status,      \* ingest_connections.status
  fresh,       \* last_seen_at is within the grace period
  session,     \* stream_sessions, in the order they started
  health,      \* edge_observation_health is at most ten seconds old
  \* pollEdge
  pc,
  active,      \* the snapshot: streams with a ready publisher, and which
  drop,        \* connections found missing
  newer,       \* connections observed after the poll took its time
  \* for the properties and bounds
  look,        \* ready publishers when the current poll took its snapshot
  sure,        \* the same for the last complete poll
  faults       \* lost answers and failed polls so far

edgeVars == <<edge, hook>>
dbVars   == <<enabled, status, fresh, session, health>>
pollVars == <<pc, active, drop, newer, look, sure>>
vars == <<edge, hook, enabled, status, fresh, session, health, pc, active, drop, newer,
          look, sure, faults>>

Session == [stream : Stream, conn : Conn, open : BOOLEAN, desired : {"RUNNING", "STOPPED"},
            stopped : BOOLEAN]   \* operator_stopped

TypeOK ==
  /\ edge \in [Conn -> {"new", "asking", "admitted", "ready", "gone"}]
  /\ hook \in {None} \cup [conn : Conn, connected : BOOLEAN,
                         age : {"newer", "tie", "older"}, during : BOOLEAN]
  /\ enabled \in [Stream -> BOOLEAN]
  /\ status \in [Conn -> {"absent", "CONNECTED", "DISCONNECTED"}]
  /\ fresh \in [Conn -> BOOLEAN]
  /\ \E n \in 0..MaxSessions : session \in [1..n -> Session]
  /\ health \in BOOLEAN
  /\ pc \in {"idle", "drop", "admit"}
  /\ active \in [Stream -> Conn \cup {None}]
  /\ drop \in SUBSET Conn
  /\ {newer, look, sure} \subseteq SUBSET Conn
  /\ faults \in 0..MaxFaults

NoPublisher == [s \in Stream |-> None]

Init ==
  /\ edge = [c \in Conn |-> "new"]
  /\ hook = None
  /\ enabled = [s \in Stream |-> TRUE]
  /\ status = [c \in Conn |-> "absent"]
  /\ fresh = [c \in Conn |-> FALSE]
  /\ session = <<>>
  /\ health = FALSE
  /\ pc = "idle" /\ active = NoPublisher /\ drop = {} /\ newer = {}
  /\ look = {} /\ sure = {} /\ faults = 0

-----------------------------------------------------------------------------
(* ObserveIngest *)

Ids == DOMAIN session
OpenOf(s) == {i \in Ids : session[i].stream = s /\ session[i].open}

\* Mutant of FinishedOf: a session that ended by itself does not count.
StoppedOf(c) == {i \in Ids : session[i].conn = c /\ session[i].stopped}

\* Sessions of this very connection that are stopped or over.
FinishedOf(c) == {i \in Ids : session[i].conn = c /\ (session[i].stopped \/ ~session[i].open)}

\* Mutant of Resumable: a session the owner stopped is taken over.
ResumableStopped(s) == OpenOf(s)

\* The open session a new connection may take over.
Resumable(s) == {i \in OpenOf(s) : ~session[i].stopped}

\* Mutant of OtherPublisher: one not seen for a while does not count.
OtherFreshPublisher(c) ==
  \E d \in Conn \ {c} : StreamOf[d] = StreamOf[c] /\ status[d] = "CONNECTED" /\ fresh[d]

OtherPublisher(c) ==
  \E d \in Conn \ {c} : StreamOf[d] = StreamOf[c] /\ status[d] = "CONNECTED"

\* An observation older than the stored one changes nothing; neither does a
\* connect as old as a stored disconnect.
Ignored(c, connected, age) ==
  /\ status[c] # "absent"
  /\ age = "older" \/ (age = "tie" /\ status[c] = "DISCONNECTED" /\ connected)

\* The unique index on open sessions makes the INSERT fail while a stopped
\* session has not ended.
Rejected(c, connected) ==
  \/ ~enabled[StreamOf[c]]
  \/ /\ connected
     /\ \/ OtherPublisher(c)
        \/ FinishedOf(c) = {} /\ Resumable(StreamOf[c]) = {} /\ OpenOf(StreamOf[c]) # {}

\* What a connect does to the sessions: the connection keeps a finished one,
\* takes over the open one, or gets a new one.
Attach(c) ==
  IF FinishedOf(c) # {} THEN session
  ELSE IF Resumable(StreamOf[c]) # {}
       THEN [i \in Ids |-> IF i \in Resumable(StreamOf[c])
                           THEN [session[i] EXCEPT !.conn = c] ELSE session[i]]
       ELSE [i \in 1..(Cardinality(Ids) + 1) |->
               IF i \in Ids THEN session[i]
               ELSE [stream |-> StreamOf[c], conn |-> c, open |-> TRUE,
                     desired |-> "RUNNING", stopped |-> FALSE]]

\* A stored observation of the poll makes those posted before the poll older.
Overtake(c) == hook' = IF hook # None /\ hook.conn = c /\ ~hook.during
                       THEN [hook EXCEPT !.age = "older"] ELSE hook

\* The transaction, for an observation that is neither rejected nor ignored.
Store(c, connected) ==
  /\ connected => Cardinality(DOMAIN Attach(c)) <= MaxSessions
  /\ status' = [status EXCEPT ![c] = IF connected THEN "CONNECTED" ELSE "DISCONNECTED"]
  /\ fresh' = [fresh EXCEPT ![c] = TRUE]
  /\ session' = IF connected THEN Attach(c) ELSE session

\* The whole of it: accepted (as a change or not at all) or an error.
Accepts(c, connected, age) ==
  /\ enabled[StreamOf[c]]
  /\ Ignored(c, connected, age) \/ ~Rejected(c, connected)

Apply(c, connected, age) ==
  IF Ignored(c, connected, age) THEN UNCHANGED <<status, fresh, session>>
  ELSE Store(c, connected)

-----------------------------------------------------------------------------
(* The edge (external) and its questions *)

Fault == faults < MaxFaults /\ faults' = faults + 1

PathFree(s) == \A d \in Conn : StreamOf[d] = s => edge[d] \notin {"admitted", "ready"}

Connect(c) ==
  /\ edge[c] = "new"
  /\ edge' = [edge EXCEPT ![c] = "asking"]
  /\ UNCHANGED <<hook, dbVars, pollVars, faults>>

\* edgeAuth: the connection is admitted by ObserveIngest.  The edge takes one
\* publisher per path, and gives up when the answer does not come.
Admit(c) ==
  /\ edge[c] = "asking"
  /\ Accepts(c, TRUE, "newer")
  /\ Store(c, TRUE)
  /\ \/ /\ edge' = [edge EXCEPT ![c] = IF PathFree(StreamOf[c]) THEN "admitted" ELSE "gone"]
        /\ UNCHANGED faults
     \/ /\ edge' = [edge EXCEPT ![c] = "gone"]
        /\ Fault
  /\ newer' = IF pc = "idle" THEN newer ELSE newer \cup {c}
  /\ UNCHANGED <<hook, enabled, health, pc, active, drop, look, sure>>

Deny(c) ==
  /\ edge[c] = "asking"
  /\ ~Accepts(c, TRUE, "newer")
  /\ edge' = [edge EXCEPT ![c] = "gone"]
  /\ UNCHANGED <<hook, dbVars, pollVars, faults>>

\* The tracks of the stream are known: the path is ready.
Ready(c) ==
  /\ edge[c] = "admitted"
  /\ edge' = [edge EXCEPT ![c] = "ready"]
  /\ UNCHANGED <<hook, dbVars, pollVars, faults>>

Disconnect(c) ==
  /\ edge[c] \in {"admitted", "ready"}
  /\ edge' = [edge EXCEPT ![c] = "gone"]
  /\ UNCHANGED <<hook, dbVars, pollVars, faults>>

\* Somebody posts what the edge shows; the post may be late, or get lost.
Post(c) ==
  /\ Hooks /\ hook = None
  /\ edge[c] \in {"admitted", "ready", "gone"}
  /\ hook' = [conn |-> c, connected |-> edge[c] # "gone", age |-> "newer",
              during |-> pc # "idle"]
  /\ UNCHANGED <<edge, dbVars, pollVars, faults>>

\* edgeObservation
EdgeObservation ==
  /\ hook # None
  /\ hook' = None
  /\ IF Accepts(hook.conn, hook.connected, hook.age)
     THEN /\ Apply(hook.conn, hook.connected, hook.age)
          /\ newer' = IF hook.during /\ ~Ignored(hook.conn, hook.connected, hook.age)
                      THEN newer \cup {hook.conn} ELSE newer
     ELSE UNCHANGED <<status, fresh, session, newer>>
  /\ UNCHANGED <<edge, enabled, health, pc, active, drop, look, sure, faults>>

\* Two observations of a connection may carry the same millisecond.
PostTies ==
  /\ hook # None /\ hook.age = "older"
  /\ hook' = [hook EXCEPT !.age = "tie"]
  /\ UNCHANGED <<edge, dbVars, pollVars, faults>>

-----------------------------------------------------------------------------
(* pollEdge *)

EndPoll == /\ pc' = "idle" /\ active' = NoPublisher /\ drop' = {} /\ newer' = {} /\ look' = {}
           /\ hook' = IF hook = None THEN None ELSE [hook EXCEPT !.during = FALSE]

\* Mutant of Missing: a replaced publisher is not told from its successor.
MissingPath(present) == {c \in Conn : /\ status[c] = "CONNECTED" /\ ~fresh[c]
                                      /\ \A d \in present : StreamOf[d] # StreamOf[c]}

\* Connected rows whose connection the snapshot does not show.
Missing(present) == {c \in Conn : status[c] = "CONNECTED" /\ ~fresh[c] /\ c \notin present}

\* The snapshot is read page by page, each page within three seconds, then the
\* time is taken and the connected rows are listed.  The three count as one
\* step: a connection admitted meanwhile was seen within the grace period,
\* which is longer than the few pages of an installation take.
PollSnapshot ==
  /\ pc = "idle"
  /\ look' = {c \in Conn : edge[c] = "ready"}
  /\ active' = [s \in Stream |-> IF \E c \in look' : StreamOf[c] = s
                                THEN CHOOSE c \in look' : StreamOf[c] = s ELSE None]
  /\ drop' = Missing(look')
  /\ pc' = "drop"
  /\ UNCHANGED <<edgeVars, dbVars, newer, sure, faults>>

PollAge(c) == IF c \in newer THEN "older" ELSE "newer"

\* Missing publishers are disconnected first, so that a replacement can be
\* admitted.  An error ends the poll.
PollDrop(c) ==
  /\ pc = "drop" /\ c \in drop
  /\ IF Accepts(c, FALSE, PollAge(c))
     THEN /\ Apply(c, FALSE, PollAge(c))
          /\ drop' = drop \ {c}
          /\ IF Ignored(c, FALSE, PollAge(c)) THEN UNCHANGED hook ELSE Overtake(c)
          /\ UNCHANGED <<pc, active, newer, look>>
     ELSE EndPoll /\ UNCHANGED <<status, fresh, session>>
  /\ UNCHANGED <<edge, enabled, health, sure, faults>>

PollDropped ==
  /\ pc = "drop" /\ drop = {}
  /\ pc' = "admit"
  /\ UNCHANGED <<edgeVars, dbVars, active, drop, newer, look, sure, faults>>

\* Then every publisher of the snapshot is observed.
PollAdmit(s) ==
  /\ pc = "admit" /\ active[s] # None
  /\ LET c == active[s]
     IN IF Accepts(c, TRUE, PollAge(c))
        THEN /\ Apply(c, TRUE, PollAge(c))
             /\ active' = [active EXCEPT ![s] = None]
             /\ IF Ignored(c, TRUE, PollAge(c)) THEN UNCHANGED hook ELSE Overtake(c)
             /\ UNCHANGED <<pc, drop, newer, look>>
        ELSE EndPoll /\ UNCHANGED <<status, fresh, session>>
  /\ UNCHANGED <<edge, enabled, health, sure, faults>>

\* Only a complete poll counts as an observation of the edge.
PollDone ==
  /\ pc = "admit" /\ active = NoPublisher
  /\ health' = TRUE
  /\ sure' = look
  /\ EndPoll
  /\ UNCHANGED <<edge, enabled, status, fresh, session, faults>>

\* The edge does not answer, or the API restarts.
PollFails ==
  /\ pc # "idle"
  /\ Fault
  /\ EndPoll
  /\ UNCHANGED <<edge, dbVars, sure>>

Poll == \/ PollSnapshot \/ PollDropped \/ PollDone
        \/ \E c \in Conn : PollDrop(c)
        \/ \E s \in Stream : PollAdmit(s)

-----------------------------------------------------------------------------
(* Time, the owner, and the end of a session *)

GraceElapses(c) ==
  /\ fresh[c]
  /\ fresh' = [fresh EXCEPT ![c] = FALSE]
  /\ UNCHANGED <<edgeVars, enabled, status, session, health, pollVars, faults>>

HealthElapses ==
  /\ health
  /\ health' = FALSE
  /\ UNCHANGED <<edgeVars, enabled, status, fresh, session, pollVars, faults>>

SourceConnected(s) == \E c \in Conn : StreamOf[c] = s /\ status[c] = "CONNECTED"

\* Mutant of StopReason: a recent poll is enough.
StopReasonHealth(i) == IF ~health THEN "SOURCE_STATE_UNKNOWN" ELSE ""

\* stopReason: the reason that keeps a running session from being stopped.
StopReason(i) == IF ~health THEN "SOURCE_STATE_UNKNOWN"
                 ELSE IF SourceConnected(session[i].stream) THEN "SOURCE_CONNECTED"
                 ELSE ""

\* StopSession: a second request finds the session inactive and changes nothing.
StopSession(i) ==
  /\ session[i].open /\ session[i].desired = "RUNNING"
  /\ StopReason(i) = ""
  /\ session' = [session EXCEPT ![i].stopped = TRUE, ![i].desired = "STOPPED"]
  /\ UNCHANGED <<edgeVars, enabled, status, fresh, health, pollVars, faults>>

UpdateStream(s) ==
  /\ s \in Disables
  /\ enabled[s] \/ Reenables
  /\ enabled' = [enabled EXCEPT ![s] = ~@]
  /\ UNCHANGED <<edgeVars, status, fresh, session, health, pollVars, faults>>

\* onceNode, after the poll: sessions of disabled streams are to stop.
StopDisabled ==
  /\ pc = "idle"
  /\ \E i \in Ids : session[i].open /\ ~enabled[session[i].stream] /\ session[i].desired = "RUNNING"
  /\ session' = [i \in Ids |-> IF session[i].open /\ ~enabled[session[i].stream]
                               THEN [session[i] EXCEPT !.desired = "STOPPED"] ELSE session[i]]
  /\ UNCHANGED <<edgeVars, enabled, status, fresh, health, pollVars, faults>>

\* reconcile: the worker of a session that is to stop is gone, or the worker
\* could not be kept alive.
EndSession(i) ==
  /\ pc = "idle" /\ session[i].open
  /\ session' = [session EXCEPT ![i].open = FALSE, ![i].desired = "STOPPED"]
  /\ UNCHANGED <<edgeVars, enabled, status, fresh, health, pollVars, faults>>

Next ==
  \/ Poll \/ PollFails
  \/ \E c \in Conn : \/ Connect(c) \/ Admit(c) \/ Deny(c) \/ Ready(c)
                     \/ Disconnect(c) \/ Post(c) \/ GraceElapses(c)
  \/ EdgeObservation \/ PostTies \/ HealthElapses
  \/ \E s \in Stream : UpdateStream(s)
  \/ \E i \in Ids : StopSession(i) \/ EndSession(i)
  \/ StopDisabled

EndStopped == \E i \in Ids : session[i].desired = "STOPPED" /\ EndSession(i)

\* The controller polls for ever, time passes, and every pass that polls goes
\* on to remove the workers of stopped sessions (Reconcile!StopCompletes).
Fairness == /\ WF_vars(Poll)
            /\ \A c \in Conn : WF_vars(GraceElapses(c))
            /\ SF_vars(EndStopped)

Spec == Init /\ [][Next]_vars /\ Fairness

-----------------------------------------------------------------------------
(* Properties *)

\* A stream has at most one publisher and one open session, whatever order
\* admissions, posted observations and polls are applied in (and every variable
\* has its type).
OnePublisher ==
  /\ TypeOK
  /\ \A s \in Stream : /\ Cardinality({c \in Conn : StreamOf[c] = s /\ status[c] = "CONNECTED"}) <= 1
                       /\ Cardinality(OpenOf(s)) <= 1

\* "User stop is durable and cannot resurrect without a new publisher": the
\* connection of a session that was stopped or ended gets no other session.
StopIsDurable ==
  \A i, j \in Ids : i # j /\ (session[i].stopped \/ ~session[i].open)
                    => session[i].conn # session[j].conn

\* A stop is not accepted while a publisher sends that the last complete poll
\* has seen, even if a newer poll failed half-way or hooks arrive late.
SeenPublisherBlocksStop ==
  [][\A i \in Ids : session'[i].stopped /\ ~session[i].stopped
       => \A c \in sure : StreamOf[c] = session[i].stream => edge[c] # "ready"]_vars

\* A publisher that the API lets in has an open session that its owner has not
\* stopped, whatever was disabled and enabled before it came.  That session is to
\* run, or it is the one of an earlier publisher that a pass had already told to
\* stop because the stream was disabled.
AdmittedHasSession ==
  [][\A c \in Conn : edge[c] = "asking" /\ edge'[c] = "admitted"
       => \E i \in DOMAIN session' :
            /\ session'[i].conn = c /\ session'[i].open /\ ~session'[i].stopped
            /\ session'[i].desired = "STOPPED" => i \in Ids /\ session[i].desired = "STOPPED"]_vars

\* "No durable divergence; periodic observation restores state": a publisher
\* that is gone does not stay connected in the database, and one that sends is
\* known there, although admissions and hooks may be lost.  That is so as long as
\* no stream is disabled: the row of a disabled stream whose publisher has left
\* makes every poll fail before it looks at the others.
EdgeIsFollowed ==
  \A c \in Conn : []<>(\/ ~enabled[StreamOf[c]]
                       \/ /\ edge[c] = "gone" => status[c] # "CONNECTED"
                          /\ edge[c] = "ready" => status[c] = "CONNECTED")
==============================================================================
