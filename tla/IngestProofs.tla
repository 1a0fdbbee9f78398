---------------------------- MODULE IngestProofs ----------------------------
(***************************************************************************)
(* The safety properties of module Ingest, for any streams, connections,   *)
(* sessions and faults.                                                    *)
(*                                                                         *)
(* The sessions are right because every observation goes through the same  *)
(* transaction, and a connection that had a session is known to have been  *)
(* admitted.  That a stop respects what the last complete poll has seen    *)
(* needs the whole life of a poll: what it will still observe, what was    *)
(* observed behind its back, and that a connection it drops and that a     *)
(* poll has seen before is gone for good.                                  *)
(***************************************************************************)
EXTENDS Ingest, FiniteSetTheorems, TLAPS

\* One connected row for each stream.
RowsInv == \A c, d \in Conn :
             StreamOf[c] = StreamOf[d] /\ status[c] = "CONNECTED" /\ status[d] = "CONNECTED" => c = d

\* One open session for each stream; a session is of the stream its connection sends to.
OpenInv == /\ \A i, j \in Ids :
                session[i].stream = session[j].stream /\ session[i].open /\ session[j].open => i = j
           /\ \A i \in Ids : session[i].stream = StreamOf[session[i].conn]

\* A session is of a connection that was let in.
ConnInv == \A i \in Ids : edge[session[i].conn] \notin {"new", "asking"}

\* The edge has one publisher for each path; a posted observation is of a connection
\* that was let in, and of its end if it says so.
EdgeInv ==
  /\ \A c, d \in Conn :
       StreamOf[c] = StreamOf[d] /\ {edge[c], edge[d]} \subseteq {"admitted", "ready"} => c = d
  /\ hook # None => /\ edge[hook.conn] \notin {"new", "asking"}
                    /\ ~ hook.connected => edge[hook.conn] = "gone"

\* Between polls nothing of a poll is left; a poll observes what it has seen.
PollInv ==
  /\ pc = "idle" => active = NoPublisher /\ drop = {} /\ look = {}
  /\ \A s \in Stream : active[s] # None => active[s] \in look /\ StreamOf[active[s]] = s
  /\ \A c \in drop : c \notin look /\ (c \in sure => edge[c] = "gone")

\* What a poll has seen and is still there is connected, or this poll will see to it.
SeenInv ==
  /\ \A c \in sure \cup look : edge[c] \in {"ready", "gone"}
  /\ \A c \in sure : edge[c] = "ready" => status[c] = "CONNECTED"
  /\ \A c \in look : edge[c] = "ready" => active[StreamOf[c]] = c \/ status[c] = "CONNECTED"
  /\ \A c \in newer : edge[c] # "gone" => status[c] = "CONNECTED"

Inv == /\ TypeOK /\ RowsInv /\ OpenInv /\ StopIsDurable /\ ConnInv
       /\ EdgeInv /\ PollInv /\ SeenInv

-----------------------------------------------------------------------------
(* The tables *)

\* The sessions are a table of sessions.
SessionTable == \E n \in 0 .. MaxSessions : session \in [1 .. n -> Session]

LEMMA BoundFacts == MaxSessions \in Nat /\ MaxFaults \in Nat
  BY IngestAssumption

\* What the type invariant says of a connection and of a session.
LEMMA TypeFacts ==
  ASSUME TypeOK
  PROVE  /\ \A c \in Conn : /\ StreamOf[c] \in Stream /\ c # None
                            /\ edge[c] \in {"new", "asking", "admitted", "ready", "gone"}
                            /\ status[c] \in {"absent", "CONNECTED", "DISCONNECTED"}
         /\ \A i \in Ids : /\ session[i] \in Session /\ session[i].conn \in Conn
                           /\ session[i].stream \in Stream
         /\ hook # None => hook.conn \in Conn /\ hook.connected \in BOOLEAN
         /\ newer \subseteq Conn /\ look \subseteq Conn /\ sure \subseteq Conn /\ drop \subseteq Conn
<1>1. \A c \in Conn : /\ StreamOf[c] \in Stream /\ c # None
                     /\ edge[c] \in {"new", "asking", "admitted", "ready", "gone"}
                     /\ status[c] \in {"absent", "CONNECTED", "DISCONNECTED"}
  BY IngestAssumption DEF TypeOK
<1>2. ASSUME NEW i \in Ids
      PROVE  session[i] \in Session /\ session[i].conn \in Conn /\ session[i].stream \in Stream
  <2>1. PICK n \in 0 .. MaxSessions : session \in [1 .. n -> Session]
    BY DEF TypeOK
  <2>2. session[i] \in Session
    BY <2>1, <1>2 DEF Ids
  <2> QED
    BY <2>2 DEF Session
<1>3. hook # None => hook.conn \in Conn /\ hook.connected \in BOOLEAN
  BY DEF TypeOK
<1>4. newer \subseteq Conn /\ look \subseteq Conn /\ sure \subseteq Conn /\ drop \subseteq Conn
  BY DEF TypeOK
<1> QED
  BY <1>1, <1>2, <1>3, <1>4

\* The session a connection gets when there is none to take over.
NewSession(c) == [stream |-> StreamOf[c], conn |-> c, open |-> TRUE,
                  desired |-> "RUNNING", stopped |-> FALSE]

\* What Attach does to the table.
LEMMA AttachFacts ==
  ASSUME TypeOK, NEW c \in Conn
  PROVE  /\ FinishedOf(c) # {} => Attach(c) = session
         /\ FinishedOf(c) = {} /\ Resumable(StreamOf[c]) # {} =>
              /\ DOMAIN Attach(c) = Ids
              /\ \A i \in Ids : Attach(c)[i] = IF i \in Resumable(StreamOf[c])
                                               THEN [session[i] EXCEPT !.conn = c] ELSE session[i]
         /\ FinishedOf(c) = {} /\ Resumable(StreamOf[c]) = {} =>
              \E k : /\ k \notin Ids /\ DOMAIN Attach(c) = Ids \cup {k}
                     /\ \A i \in Ids : Attach(c)[i] = session[i]
                     /\ Attach(c)[k] = NewSession(c)
         /\ Cardinality(DOMAIN Attach(c)) <= MaxSessions =>
              \E n \in 0 .. MaxSessions : Attach(c) \in [1 .. n -> Session]
<1>1. PICK n \in 0 .. MaxSessions : session \in [1 .. n -> Session]
  BY DEF TypeOK
<1>2. Ids = 1 .. n /\ n \in Nat /\ n <= MaxSessions /\ Cardinality(Ids) = n
  BY <1>1, BoundFacts, FS_Interval DEF Ids
<1>3. NewSession(c) \in Session
  BY IngestAssumption DEF NewSession, Session
<1>4. CASE FinishedOf(c) # {}
  <2>1. Attach(c) = session
    BY <1>4 DEF Attach
  <2> QED
    BY <1>1, <1>4, <2>1
<1>5. CASE FinishedOf(c) = {} /\ Resumable(StreamOf[c]) # {}
  <2>1. Attach(c) = [i \in Ids |-> IF i \in Resumable(StreamOf[c])
                                   THEN [session[i] EXCEPT !.conn = c] ELSE session[i]]
    BY <1>5 DEF Attach
  <2>2. ASSUME NEW i \in Ids
        PROVE  (IF i \in Resumable(StreamOf[c]) THEN [session[i] EXCEPT !.conn = c] ELSE session[i])
                 \in Session
    <3>1. session[i] \in Session
      BY TypeFacts, <2>2
    <3> QED
      BY <3>1 DEF Session
  <2>3. Attach(c) \in [1 .. n -> Session]
    BY <1>2, <2>1, <2>2
  <2> QED
    BY <1>5, <2>1, <2>3
<1>6. CASE FinishedOf(c) = {} /\ Resumable(StreamOf[c]) = {}
  <2>1. Attach(c) = [i \in 1 .. (n + 1) |-> IF i \in Ids THEN session[i] ELSE NewSession(c)]
    BY <1>2, <1>6 DEF Attach, NewSession
  <2>2. Attach(c) \in [1 .. (n + 1) -> Session]
    BY <1>3, <2>1, TypeFacts
  <2>3. /\ n + 1 \notin Ids /\ DOMAIN Attach(c) = Ids \cup {n + 1}
        /\ \A i \in Ids : Attach(c)[i] = session[i]
        /\ Attach(c)[n + 1] = NewSession(c)
    BY <1>2, <2>1
  <2>4. Cardinality(DOMAIN Attach(c)) = n + 1
    <3>1. DOMAIN Attach(c) = 1 .. (n + 1)
      BY <2>1
    <3> QED
      BY <1>2, <3>1, FS_Interval
  <2>5. n + 1 <= MaxSessions => n + 1 \in 0 .. MaxSessions
    BY <1>2, BoundFacts
  <2> QED
    BY <1>6, <2>2, <2>3, <2>4, <2>5
<1> QED
  BY <1>4, <1>5, <1>6

-----------------------------------------------------------------------------
(* The transaction ObserveIngest *)

\* The rows and the sessions.
DbInv == RowsInv /\ OpenInv /\ StopIsDurable /\ ConnInv

\* A connection that was let in stays so.
LetIn == \A c \in Conn : edge[c] \notin {"new", "asking"} => edge'[c] \notin {"new", "asking"}

LEMMA DbStays ==
  ASSUME Inv, UNCHANGED <<status, session, enabled>>, LetIn
  PROVE  DbInv'
<1>1. RowsInv' /\ OpenInv' /\ StopIsDurable'
  BY DEF Inv, RowsInv, OpenInv, StopIsDurable, Ids
<1>2. ConnInv'
  BY TypeFacts DEF Inv, ConnInv, LetIn, Ids
<1> QED
  BY <1>1, <1>2 DEF DbInv

\* An observation that is stored keeps the books.
LEMMA StoreKeeps ==
  ASSUME Inv, NEW c \in Conn, NEW connected \in BOOLEAN, ~ Rejected(c, connected),
         Store(c, connected), UNCHANGED enabled, LetIn,
         connected => edge'[c] \notin {"new", "asking"}
  PROVE  /\ DbInv'
         /\ status' \in [Conn -> {"absent", "CONNECTED", "DISCONNECTED"}]
         /\ fresh' \in [Conn -> BOOLEAN]
         /\ \E n \in 0 .. MaxSessions : session' \in [1 .. n -> Session]
         /\ \A d \in Conn : status'[d] = IF d # c THEN status[d]
                                         ELSE IF connected THEN "CONNECTED" ELSE "DISCONNECTED"
<1>0. TypeOK
  BY DEF Inv
<1>1. /\ status' \in [Conn -> {"absent", "CONNECTED", "DISCONNECTED"}]
      /\ fresh' \in [Conn -> BOOLEAN]
      /\ \A d \in Conn : status'[d] = IF d # c THEN status[d]
                                      ELSE IF connected THEN "CONNECTED" ELSE "DISCONNECTED"
  BY <1>0 DEF Store, TypeOK
<1>2. RowsInv'
  <2> SUFFICES ASSUME NEW d \in Conn, NEW e \in Conn, StreamOf[d] = StreamOf[e],
                      status'[d] = "CONNECTED", status'[e] = "CONNECTED"
               PROVE  d = e
    BY DEF RowsInv
  <2>1. CASE connected
    <3>1. \A x \in Conn \ {c} : StreamOf[x] = StreamOf[c] => status[x] # "CONNECTED"
      BY <2>1 DEF Rejected, OtherPublisher
    <3> QED
      BY <1>1, <3>1 DEF Inv, RowsInv
  <2>2. CASE ~ connected
    BY <1>1, <2>2 DEF Inv, RowsInv
  <2> QED
    BY <2>1, <2>2
<1>3. CASE session' = session
  <2>1. OpenInv' /\ StopIsDurable'
    BY <1>3 DEF Inv, OpenInv, StopIsDurable, Ids
  <2>2. ConnInv'
    BY <1>0, <1>3, TypeFacts DEF Inv, ConnInv, LetIn, Ids
  <2>3. \E n \in 0 .. MaxSessions : session' \in [1 .. n -> Session]
    BY <1>0, <1>3 DEF TypeOK
  <2> QED
    BY <1>1, <1>2, <2>1, <2>2, <2>3 DEF DbInv
<1>4. CASE connected /\ session' = Attach(c) /\ FinishedOf(c) = {}
  <2>0. \E n \in 0 .. MaxSessions : session' \in [1 .. n -> Session]
    BY <1>0, <1>4, AttachFacts DEF Store
  <2>1. \A i \in Ids : session[i].conn = c => ~ session[i].stopped /\ session[i].open
    BY <1>4 DEF FinishedOf
  <2>2. \A i \in Ids : /\ session[i] \in Session /\ session[i].conn \in Conn
                      /\ session[i].stream = StreamOf[session[i].conn]
    BY <1>0, TypeFacts DEF Inv, OpenInv
  <2>3. CASE Resumable(StreamOf[c]) # {}
    <3> DEFINE R == Resumable(StreamOf[c])
    <3>1. /\ Ids' = Ids
          /\ \A i \in Ids : session'[i] = IF i \in R THEN [session[i] EXCEPT !.conn = c] ELSE session[i]
      BY <1>0, <1>4, <2>3, AttachFacts DEF Ids
    <3>2. \A i \in R : /\ i \in Ids /\ session[i].stream = StreamOf[c]
                      /\ session[i].open /\ ~ session[i].stopped
      BY DEF Resumable, OpenOf
    <3> HIDE DEF R
    <3>3. \A i \in Ids : /\ session'[i].stream = session[i].stream /\ session'[i].open = session[i].open
                        /\ session'[i].stopped = session[i].stopped
                        /\ session'[i].desired = session[i].desired
                        /\ session'[i].conn = IF i \in R THEN c ELSE session[i].conn
      BY <2>2, <3>1 DEF Session
    <3>4. OpenInv'
      <4>1. \A i \in Ids : session'[i].stream = StreamOf[session'[i].conn]
        BY <2>2, <3>2, <3>3
      <4> QED
        BY <3>1, <3>3, <4>1 DEF Inv, OpenInv
    <3>5. StopIsDurable'
      <4> SUFFICES ASSUME NEW i \in Ids, NEW j \in Ids, i # j,
                          session'[i].stopped \/ ~ session'[i].open
                   PROVE  session'[i].conn # session'[j].conn
        BY <3>1 DEF StopIsDurable
      <4>1. session'[i].conn = session[i].conn /\ session[i].conn # c
        BY <2>1, <3>2, <3>3
      <4>2. session[i].conn # session[j].conn
        BY <3>3 DEF Inv, StopIsDurable
      <4> QED
        BY <3>3, <4>1, <4>2
    <3>6. ConnInv'
      BY <1>4, <2>2, <3>1, <3>3 DEF Inv, ConnInv, LetIn
    <3> QED
      BY <1>1, <1>2, <2>0, <3>4, <3>5, <3>6 DEF DbInv
  <2>4. CASE Resumable(StreamOf[c]) = {}
    <3>1. PICK k : /\ k \notin Ids /\ Ids' = Ids \cup {k}
                   /\ \A i \in Ids : session'[i] = session[i]
                   /\ session'[k] = NewSession(c)
      BY <1>0, <1>4, <2>4, AttachFacts DEF Ids
    <3>2. /\ session'[k].stream = StreamOf[c] /\ session'[k].conn = c /\ session'[k].open
          /\ session'[k].desired = "RUNNING" /\ ~ session'[k].stopped
      BY <3>1 DEF NewSession
    <3>3. OpenOf(StreamOf[c]) = {}
      BY <1>4, <2>4 DEF Rejected
    <3>4. \A i \in Ids : session[i].open => session[i].stream # StreamOf[c]
      BY <3>3 DEF OpenOf
    <3>5. OpenInv'
      BY <2>2, <3>1, <3>2, <3>4 DEF Inv, OpenInv
    <3>6. StopIsDurable'
      BY <2>1, <3>1, <3>2 DEF Inv, StopIsDurable
    <3>7. ConnInv'
      BY <1>4, <2>2, <3>1, <3>2 DEF Inv, ConnInv, LetIn
    <3> QED
      BY <1>1, <1>2, <2>0, <3>5, <3>6, <3>7 DEF DbInv
  <2> QED
    BY <2>3, <2>4
<1> QED
  BY <1>0, <1>3, <1>4, AttachFacts DEF Store

-----------------------------------------------------------------------------
(* Observations on their way *)

HookRow == [conn : Conn, connected : BOOLEAN, age : {"newer", "tie", "older"}, during : BOOLEAN]

\* A posted observation is dropped or keeps what it says.
HookKept == /\ hook' \in {None} \cup HookRow
            /\ hook' # None => /\ hook # None /\ hook'.conn = hook.conn
                               /\ hook'.connected = hook.connected

LEMMA HookFacts ==
  ASSUME TypeOK,
         \/ hook' = hook
         \/ hook' = None
         \/ hook # None /\ hook' = [hook EXCEPT !.during = FALSE]
         \/ \E a \in {"tie", "older"} : hook # None /\ hook' = [hook EXCEPT !.age = a]
  PROVE  HookKept
<1>1. hook \in {None} \cup HookRow
  BY Zenon DEF TypeOK, HookRow
<1> QED
  BY <1>1 DEF HookKept, HookRow

\* The ways a step treats the post.
LEMMA EndPollFacts ==
  ASSUME TypeOK, EndPoll
  PROVE  /\ HookKept
         /\ pc' = "idle" /\ active' = NoPublisher /\ drop' = {} /\ newer' = {} /\ look' = {}
  BY HookFacts DEF EndPoll

LEMMA OvertakeFacts ==
  ASSUME TypeOK, NEW c, UNCHANGED hook \/ Overtake(c)
  PROVE  HookKept
  BY HookFacts DEF Overtake

LEMMA EdgeStays ==
  ASSUME Inv, edge' = edge, HookKept
  PROVE  EdgeInv' /\ LetIn
  BY DEF Inv, EdgeInv, HookKept, LetIn

\* The type invariant, put together.
LEMMA TypeKeeps ==
  ASSUME edge' \in [Conn -> {"new", "asking", "admitted", "ready", "gone"}],
         hook' \in {None} \cup HookRow, enabled' \in [Stream -> BOOLEAN],
         status' \in [Conn -> {"absent", "CONNECTED", "DISCONNECTED"}],
         fresh' \in [Conn -> BOOLEAN], SessionTable', health' \in BOOLEAN,
         pc' \in {"idle", "drop", "admit"}, active' \in [Stream -> Conn \cup {None}],
         drop' \subseteq Conn, newer' \subseteq Conn, look' \subseteq Conn, sure' \subseteq Conn,
         faults' \in 0 .. MaxFaults
  PROVE  TypeOK'
<1>1. {newer', look', sure'} \subseteq SUBSET Conn /\ drop' \in SUBSET Conn
  OBVIOUS
<1> QED
  BY <1>1, Zenon DEF TypeOK, SessionTable, HookRow

\* And taken apart.
LEMMA TypeParts ==
  ASSUME TypeOK
  PROVE  /\ edge \in [Conn -> {"new", "asking", "admitted", "ready", "gone"}]
         /\ hook \in {None} \cup HookRow /\ enabled \in [Stream -> BOOLEAN]
         /\ status \in [Conn -> {"absent", "CONNECTED", "DISCONNECTED"}]
         /\ fresh \in [Conn -> BOOLEAN] /\ SessionTable /\ health \in BOOLEAN
         /\ pc \in {"idle", "drop", "admit"} /\ active \in [Stream -> Conn \cup {None}]
         /\ drop \subseteq Conn /\ newer \subseteq Conn /\ look \subseteq Conn /\ sure \subseteq Conn
         /\ faults \in 0 .. MaxFaults
<1>1. drop \subseteq Conn /\ newer \subseteq Conn /\ look \subseteq Conn /\ sure \subseteq Conn
  BY TypeFacts
<1> QED
  BY <1>1, Zenon DEF TypeOK, SessionTable, HookRow

LEMMA FaultFacts ==
  ASSUME TypeOK, UNCHANGED faults \/ Fault
  PROVE  faults' \in 0 .. MaxFaults
<1>1. faults \in 0 .. MaxFaults
  BY TypeParts
<1> QED
  BY <1>1, BoundFacts DEF Fault

\* What a poll that has ended leaves.
LEMMA NoPublisherFacts ==
  /\ NoPublisher \in [Stream -> Conn \cup {None}]
  /\ \A s \in Stream : NoPublisher[s] = None
  BY DEF NoPublisher

-----------------------------------------------------------------------------
(* One lemma per action, or per group of actions of one kind *)

LEMMA InitHolds == Init => Inv
<1> SUFFICES ASSUME Init PROVE Inv
  OBVIOUS
<1>1. TypeOK
  <2>1. session \in [1 .. 0 -> Session] /\ 0 \in 0 .. MaxSessions /\ 0 \in 0 .. MaxFaults
    BY BoundFacts DEF Init
  <2>2. \E n \in 0 .. MaxSessions : session \in [1 .. n -> Session]
    BY <2>1
  <2> QED
    BY <2>1, <2>2, NoPublisherFacts DEF Init, TypeOK
<1>2. Ids = {}
  BY DEF Init, Ids
<1>3. \A c \in Conn : status[c] = "absent" /\ edge[c] = "new"
  BY DEF Init
<1>4. RowsInv /\ OpenInv /\ StopIsDurable /\ ConnInv
  BY <1>2, <1>3 DEF RowsInv, OpenInv, StopIsDurable, ConnInv
<1>5. EdgeInv
  BY <1>3 DEF Init, EdgeInv
<1>6. PollInv /\ SeenInv
  BY NoPublisherFacts DEF Init, PollInv, SeenInv
<1> QED
  BY <1>1, <1>4, <1>5, <1>6 DEF Inv

LEMMA EdgeKeeps ==
  ASSUME Inv, NEW c \in Conn, Connect(c) \/ Deny(c) \/ Ready(c) \/ Disconnect(c)
  PROVE  Inv'
<1>0. TypeOK
  BY DEF Inv
<1>1. PICK v \in {"asking", "ready", "gone"} :
        /\ edge' = [edge EXCEPT ![c] = v]
        /\ v = "asking" => edge[c] = "new"
        /\ v = "ready" => edge[c] = "admitted"
        /\ edge[c] # "gone"
  BY DEF Connect, Deny, Ready, Disconnect
<1>2. /\ UNCHANGED <<hook, enabled, status, fresh, session, health, faults>>
      /\ UNCHANGED <<pc, active, drop, newer, look, sure>>
  BY DEF Connect, Deny, Ready, Disconnect, dbVars, pollVars
<1>3. /\ edge' \in [Conn -> {"new", "asking", "admitted", "ready", "gone"}]
      /\ \A d \in Conn : edge'[d] = IF d = c THEN v ELSE edge[d]
  BY <1>0, <1>1, TypeParts
<1>4. TypeOK'
  BY <1>0, <1>2, <1>3, TypeParts, TypeKeeps DEF SessionTable
<1>5. DbInv'
  <2>1. LetIn
    BY <1>1, <1>3 DEF LetIn
  <2> QED
    BY <1>2, <2>1, DbStays
<1>6. EdgeInv'
  <2>1. \A d \in Conn : edge'[d] \in {"admitted", "ready"} => edge[d] \in {"admitted", "ready"}
    BY <1>1, <1>3
  <2>2. hook # None => hook.conn \in Conn
    BY <1>0, TypeFacts
  <2> QED
    BY <1>1, <1>2, <1>3, <2>1, <2>2 DEF Inv, EdgeInv
<1>7. PollInv'
  BY <1>0, <1>1, <1>2, <1>3, TypeFacts DEF Inv, PollInv
<1>8. SeenInv'
  <2>1. \A d \in sure \cup look : d \in Conn /\ edge[d] \in {"ready", "gone"}
    BY <1>0, TypeFacts DEF Inv, SeenInv
  <2>2. \A d \in Conn : edge'[d] = "ready" => edge[d] = "ready" \/ edge[d] = "admitted"
    BY <1>1, <1>3
  <2>3. \A d \in sure \cup look : edge'[d] \in {"ready", "gone"}
    BY <1>1, <1>3, <2>1
  <2>4. \A d \in newer : edge'[d] # "gone" => edge[d] # "gone"
    BY <1>0, <1>1, <1>3, TypeFacts
  <2> QED
    BY <1>2, <2>1, <2>2, <2>3, <2>4 DEF Inv, SeenInv
<1> QED
  BY <1>4, <1>5, <1>6, <1>7, <1>8 DEF Inv, DbInv

LEMMA AdmitKeeps ==
  ASSUME Inv, NEW c \in Conn, Admit(c)
  PROVE  Inv'
<1>0. TypeOK
  BY DEF Inv
<1>1. /\ edge[c] = "asking" /\ Store(c, TRUE) /\ ~ Rejected(c, TRUE)
      /\ UNCHANGED <<hook, enabled, health, pc, active, drop, look, sure>>
      /\ newer' = IF pc = "idle" THEN newer ELSE newer \cup {c}
      /\ UNCHANGED faults \/ Fault
  BY DEF Admit, Accepts, Ignored
<1>2. PICK v \in {"admitted", "gone"} : /\ edge' = [edge EXCEPT ![c] = v]
                                        /\ v = "admitted" => PathFree(StreamOf[c])
  BY DEF Admit
<1>3. /\ edge' \in [Conn -> {"new", "asking", "admitted", "ready", "gone"}]
      /\ \A d \in Conn : edge'[d] = IF d = c THEN v ELSE edge[d]
  BY <1>0, <1>2, TypeParts
<1>4. /\ DbInv'
      /\ status' \in [Conn -> {"absent", "CONNECTED", "DISCONNECTED"}]
      /\ fresh' \in [Conn -> BOOLEAN]
      /\ SessionTable'
      /\ \A d \in Conn : status'[d] = IF d # c THEN status[d] ELSE "CONNECTED"
  <2>1. LetIn /\ edge'[c] \notin {"new", "asking"}
    BY <1>3 DEF LetIn
  <2> QED
    BY <1>1, <2>1, StoreKeeps DEF SessionTable
<1>5. TypeOK'
  <2>1. faults' \in 0 .. MaxFaults
    BY <1>0, <1>1, FaultFacts
  <2>2. newer' \subseteq Conn
    BY <1>0, <1>1, TypeParts
  <2> QED
    BY <1>0, <1>1, <1>3, <1>4, <2>1, <2>2, TypeParts, TypeKeeps
<1>6. EdgeInv'
  <2>1. \A d, e \in Conn : StreamOf[d] = StreamOf[e] /\ {edge'[d], edge'[e]} \subseteq {"admitted", "ready"}
                            => d = e
    <3>1. v = "admitted" => \A d \in Conn : StreamOf[d] = StreamOf[c] => edge[d] \notin {"admitted", "ready"}
      BY <1>2 DEF PathFree
    <3> QED
      BY <1>3, <3>1 DEF Inv, EdgeInv
  <2>2. hook # None => hook.conn \in Conn
    BY <1>0, TypeFacts
  <2> QED
    BY <1>1, <1>3, <2>1, <2>2 DEF Inv, EdgeInv
<1>7. PollInv'
  <2>1. c \notin sure
    BY <1>1 DEF Inv, SeenInv
  <2> QED
    BY <1>0, <1>1, <1>3, <2>1, TypeFacts DEF Inv, PollInv
<1>8. SeenInv'
  <2>1. c \notin sure /\ c \notin look
    BY <1>1 DEF Inv, SeenInv
  <2>2. \A d \in sure \cup look : d \in Conn /\ edge'[d] = edge[d] /\ status'[d] = status[d]
    BY <1>0, <1>3, <1>4, <2>1, TypeFacts
  <2>3. \A d \in newer' : edge'[d] # "gone" => status'[d] = "CONNECTED"
    BY <1>0, <1>1, <1>3, <1>4, TypeFacts DEF Inv, SeenInv
  <2> QED
    BY <1>1, <2>2, <2>3 DEF Inv, SeenInv
<1> QED
  BY <1>4, <1>5, <1>6, <1>7, <1>8 DEF Inv, DbInv

\* Steps that leave the edge, the rows and the poll.
LEMMA NothingObserved ==
  ASSUME Inv, UNCHANGED <<edge, status, pc, active, drop, newer, look, sure, faults>>, EdgeInv',
         hook' \in {None} \cup HookRow, DbInv', enabled' \in [Stream -> BOOLEAN], SessionTable',
         fresh' \in [Conn -> BOOLEAN], health' \in BOOLEAN
  PROVE  Inv'
<1>1. TypeOK'
  BY TypeParts, TypeKeeps DEF Inv
<1>2. PollInv' /\ SeenInv'
  BY DEF Inv, PollInv, SeenInv
<1> QED
  BY <1>1, <1>2 DEF Inv, DbInv

LEMMA PostKeeps ==
  ASSUME Inv, (\E c \in Conn : Post(c)) \/ PostTies
  PROVE  Inv'
<1>0. TypeOK /\ UNCHANGED <<edge, enabled, status, fresh, session, health, faults>>
      /\ UNCHANGED <<pc, active, drop, newer, look, sure>>
  BY DEF Inv, Post, PostTies, dbVars, pollVars
<1>1. DbInv'
  <2>1. LetIn
    BY <1>0 DEF LetIn
  <2> QED
    BY <1>0, <2>1, DbStays
<1>2. hook' \in {None} \cup HookRow /\ EdgeInv'
  <2>1. CASE PostTies
    <3>1. HookKept
      BY <1>0, <2>1, HookFacts DEF PostTies
    <3> QED
      BY <1>0, <3>1, EdgeStays DEF HookKept
  <2>2. ASSUME NEW c \in Conn, Post(c)
        PROVE  hook' \in {None} \cup HookRow /\ EdgeInv'
    <3>1. /\ hook' \in HookRow /\ hook'.conn = c /\ hook'.connected = (edge[c] # "gone")
          /\ edge[c] \in {"admitted", "ready", "gone"}
      BY <2>2 DEF Post, HookRow
    <3> QED
      BY <1>0, <3>1 DEF Inv, EdgeInv
  <2> QED
    BY <2>1, <2>2
<1> QED
  BY <1>0, <1>1, <1>2, TypeParts, NothingObserved DEF SessionTable

LEMMA TimeKeeps ==
  ASSUME Inv, (\E c \in Conn : GraceElapses(c)) \/ HealthElapses \/ \E s \in Stream : UpdateStream(s)
  PROVE  Inv'
<1>0. TypeOK /\ UNCHANGED <<edge, hook, status, session, faults, pc, active, drop, newer, look, sure>>
  BY DEF Inv, GraceElapses, HealthElapses, UpdateStream, edgeVars, pollVars
<1>1. fresh' \in [Conn -> BOOLEAN] /\ health' \in BOOLEAN /\ enabled' \in [Stream -> BOOLEAN]
  BY <1>0, TypeParts DEF GraceElapses, HealthElapses, UpdateStream
<1>2. EdgeInv' /\ LetIn /\ hook' \in {None} \cup HookRow
  BY <1>0, HookFacts, EdgeStays DEF HookKept
<1>3. DbInv'
  <2>1. CASE UNCHANGED enabled
    BY <1>0, <1>2, <2>1, DbStays
  <2>2. ASSUME NEW s \in Stream, UpdateStream(s)
        PROVE  DbInv'
    <3>1. RowsInv' /\ OpenInv' /\ StopIsDurable' /\ ConnInv'
      BY <1>0 DEF Inv, RowsInv, OpenInv, StopIsDurable, ConnInv, Ids
    <3> QED
      BY <3>1 DEF DbInv
  <2> QED
    BY <2>1, <2>2 DEF GraceElapses, HealthElapses
<1> QED
  BY <1>0, <1>1, <1>2, <1>3, TypeParts, NothingObserved DEF SessionTable

\* Steps that stop or end sessions: connection and stream stay, nothing is opened.
LEMMA SessionsStop ==
  ASSUME Inv, UNCHANGED <<edge, hook, enabled, status, fresh, health, faults>>,
         UNCHANGED <<pc, active, drop, newer, look, sure>>,
         Ids' = Ids, SessionTable',
         \A i \in Ids : /\ session'[i].conn = session[i].conn /\ session'[i].stream = session[i].stream
                        /\ session'[i].open => session[i].open
                        /\ session[i].stopped => session'[i].stopped
  PROVE  Inv'
<1>0. TypeOK
  BY DEF Inv
<1>1. EdgeInv' /\ LetIn /\ hook' \in {None} \cup HookRow
  BY <1>0, HookFacts, EdgeStays DEF HookKept
<1>2. RowsInv' /\ OpenInv' /\ ConnInv'
  BY DEF Inv, RowsInv, OpenInv, ConnInv
<1>4. StopIsDurable'
  <2> SUFFICES ASSUME NEW i \in Ids, NEW j \in Ids, i # j, session[i].conn = session[j].conn
               PROVE  FALSE
    BY DEF StopIsDurable
  <2>1. session[i].open /\ session[j].open
    BY DEF Inv, StopIsDurable
  <2>2. session[i].stream = session[j].stream
    BY DEF Inv, OpenInv
  <2> QED
    BY <2>1, <2>2 DEF Inv, OpenInv
<1> QED
  BY <1>0, <1>1, <1>2, <1>4, TypeParts, NothingObserved DEF DbInv

LEMMA StopKeeps ==
  ASSUME Inv, (\E i \in Ids : StopSession(i) \/ EndSession(i)) \/ StopDisabled
  PROVE  Inv'
<1>0. /\ TypeOK /\ UNCHANGED <<edge, hook, enabled, status, fresh, health, faults>>
      /\ UNCHANGED <<pc, active, drop, newer, look, sure>>
  BY DEF Inv, StopSession, EndSession, StopDisabled, edgeVars, pollVars
<1>1. PICK n \in 0 .. MaxSessions : session \in [1 .. n -> Session]
  BY <1>0 DEF TypeOK
<1>2. Ids = 1 .. n
  BY <1>1 DEF Ids
<1>3. ASSUME NEW i \in Ids, NEW r \in Session, session' = [session EXCEPT ![i] = r],
             r.conn = session[i].conn, r.stream = session[i].stream, r.stopped \/ ~ r.open,
             session[i].open, session[i].stopped => r.stopped
      PROVE  Inv'
  <2>1. /\ session' \in [1 .. n -> Session] /\ Ids' = Ids
        /\ \A j \in Ids : session'[j] = IF j = i THEN r ELSE session[j]
    BY <1>1, <1>2, <1>3 DEF Ids
  <2>2. SessionTable'
    BY <2>1 DEF SessionTable
  <2> QED
    BY <1>0, <1>3, <2>1, <2>2, SessionsStop
<1>4. ASSUME NEW i \in Ids, StopSession(i) PROVE Inv'
  <2> DEFINE r == [session[i] EXCEPT !.stopped = TRUE, !.desired = "STOPPED"]
  <2>1. session[i] \in Session /\ session[i].open
    BY <1>0, <1>4, TypeFacts DEF StopSession
  <2>2. r \in Session /\ r.conn = session[i].conn /\ r.stream = session[i].stream /\ r.stopped
    BY <2>1 DEF Session
  <2>3. session' = [session EXCEPT ![i] = r]
    BY <1>1, <1>2, <1>4 DEF StopSession
  <2> HIDE DEF r
  <2> QED
    BY <1>3, <2>1, <2>2, <2>3
<1>5. ASSUME NEW i \in Ids, EndSession(i) PROVE Inv'
  <2> DEFINE r == [session[i] EXCEPT !.open = FALSE, !.desired = "STOPPED"]
  <2>1. session[i] \in Session /\ session[i].open
    BY <1>0, <1>5, TypeFacts DEF EndSession
  <2>2. /\ r \in Session /\ r.conn = session[i].conn /\ r.stream = session[i].stream /\ ~ r.open
        /\ r.stopped = session[i].stopped
    BY <2>1 DEF Session
  <2>3. session' = [session EXCEPT ![i] = r]
    BY <1>1, <1>2, <1>5 DEF EndSession
  <2> HIDE DEF r
  <2> QED
    BY <1>3, <2>1, <2>2, <2>3
<1>6. ASSUME StopDisabled PROVE Inv'
  <2>1. session' = [i \in Ids |-> IF session[i].open /\ ~enabled[session[i].stream]
                                  THEN [session[i] EXCEPT !.desired = "STOPPED"] ELSE session[i]]
    BY <1>6 DEF StopDisabled
  <2>2. ASSUME NEW i \in Ids
        PROVE  /\ session'[i] \in Session
               /\ session'[i].conn = session[i].conn /\ session'[i].stream = session[i].stream
               /\ session'[i].open = session[i].open /\ session'[i].stopped = session[i].stopped
               /\ session'[i].desired = session[i].desired \/ ~ enabled[session[i].stream]
    <3>1. session[i] \in Session
      BY <1>0, <2>2, TypeFacts
    <3> QED
      BY <2>1, <2>2, <3>1 DEF Session
  <2>3. Ids' = Ids /\ session' \in [1 .. n -> Session]
    BY <1>2, <2>1, <2>2 DEF Ids
  <2>4. SessionTable'
    BY <2>3 DEF SessionTable
  <2> QED
    BY <1>0, <2>2, <2>3, <2>4, SessionsStop
<1> QED
  BY <1>4, <1>5, <1>6

LEMMA EdgeObservationKeeps ==
  ASSUME Inv, EdgeObservation
  PROVE  Inv'
<1> DEFINE c == hook.conn
           b == hook.connected
<1>0. /\ TypeOK /\ c \in Conn /\ b \in BOOLEAN /\ hook # None
      /\ UNCHANGED <<edge, enabled, health, pc, active, drop, look, sure, faults>> /\ hook' = None
      /\ edge[c] \notin {"new", "asking"} /\ (~ b => edge[c] = "gone")
  BY TypeFacts DEF Inv, EdgeObservation, EdgeInv
<1>1. EdgeInv' /\ LetIn
  BY <1>0, HookFacts, EdgeStays
<1>2. CASE UNCHANGED <<status, fresh, session, newer>>
  BY <1>0, <1>1, <1>2, DbStays, TypeParts, NothingObserved DEF SessionTable
<1>3. CASE UNCHANGED <<status, fresh, session>> /\ newer' = newer
  BY <1>0, <1>1, <1>3, DbStays, TypeParts, NothingObserved DEF SessionTable
<1>4. CASE ~ Rejected(c, b) /\ Store(c, b) /\ newer' \in {newer, newer \cup {c}}
  <2>1. /\ DbInv'
        /\ status' \in [Conn -> {"absent", "CONNECTED", "DISCONNECTED"}]
        /\ fresh' \in [Conn -> BOOLEAN]
        /\ SessionTable'
        /\ \A d \in Conn : status'[d] = IF d # c THEN status[d]
                                        ELSE IF b THEN "CONNECTED" ELSE "DISCONNECTED"
    BY <1>0, <1>1, <1>4, StoreKeeps DEF SessionTable
  <2>2. \A d \in Conn : edge[d] # "gone" /\ status[d] = "CONNECTED" => status'[d] = "CONNECTED"
    BY <1>0, <2>1
  <2>3. edge[c] # "gone" => status'[c] = "CONNECTED"
    BY <1>0, <2>1
  <2> HIDE DEF c, b
  <2>4. TypeOK'
    <3>1. newer' \subseteq Conn /\ hook' \in {None} \cup HookRow
      BY <1>0, <1>4, TypeParts
    <3> QED
      BY <1>0, <2>1, <3>1, TypeParts, TypeKeeps
  <2>5. PollInv'
    BY <1>0 DEF Inv, PollInv
  <2>6. SeenInv'
    <3>1. \A d \in sure \cup look \cup newer : d \in Conn
      BY <1>0, TypeFacts
    <3> QED
      BY <1>0, <1>4, <2>2, <2>3, <3>1 DEF Inv, SeenInv
  <2> QED
    BY <1>1, <2>1, <2>4, <2>5, <2>6 DEF Inv, DbInv
<1> QED
  BY <1>2, <1>3, <1>4 DEF EdgeObservation, Apply, Accepts

LEMMA PollSnapshotKeeps ==
  ASSUME Inv, PollSnapshot
  PROVE  Inv'
<1>0. /\ TypeOK /\ UNCHANGED <<edge, hook, enabled, status, fresh, session, health, newer, sure, faults>>
      /\ pc = "idle" /\ pc' = "drop" /\ look' = {c \in Conn : edge[c] = "ready"}
      /\ drop' = Missing(look')
  BY DEF Inv, PollInv, PollSnapshot, edgeVars, dbVars
<1>1. /\ active' \in [Stream -> Conn \cup {None}]
      /\ \A s \in Stream : active'[s] # None => active'[s] \in look' /\ StreamOf[active'[s]] = s
      /\ \A c \in look' : active'[StreamOf[c]] \in look' /\ StreamOf[active'[StreamOf[c]]] = StreamOf[c]
  <2>1. active' = [s \in Stream |-> IF \E c \in look' : StreamOf[c] = s
                                    THEN CHOOSE c \in look' : StreamOf[c] = s ELSE None]
    BY DEF PollSnapshot
  <2>2. ASSUME NEW s \in Stream, \E c \in look' : StreamOf[c] = s
        PROVE  active'[s] \in look' /\ StreamOf[active'[s]] = s
    BY <2>1, <2>2
  <2>3. ASSUME NEW s \in Stream, ~ \E c \in look' : StreamOf[c] = s
        PROVE  active'[s] = None
    BY <2>1, <2>3
  <2>4. \A c \in look' : c \in Conn /\ StreamOf[c] \in Stream
    BY <1>0, TypeFacts
  <2>5. \A s \in Stream : active'[s] \in Conn \cup {None}
    BY <2>2, <2>3, <2>4
  <2>6. active' \in [Stream -> Conn \cup {None}]
    BY <2>1, <2>5
  <2> QED
    BY <2>2, <2>3, <2>4, <2>6
<1>2. \A c \in look' : active'[StreamOf[c]] = c
  BY <1>0, <1>1 DEF Inv, EdgeInv
<1>3. \A c \in drop' : c \in Conn /\ c \notin look'
  BY <1>0 DEF Missing
<1>4. TypeOK'
  <2>1. look' \subseteq Conn /\ drop' \subseteq Conn
    BY <1>0, <1>3
  <2> QED
    BY <1>0, <1>1, <2>1, TypeParts, TypeKeeps DEF SessionTable
<1>5. EdgeInv' /\ DbInv'
  BY <1>0, HookFacts, EdgeStays, DbStays
<1>6. PollInv'
  <2>1. \A c \in drop' : c \in sure => edge[c] = "gone"
    BY <1>0, <1>3 DEF Inv, SeenInv
  <2> QED
    BY <1>0, <1>1, <1>3, <2>1 DEF PollInv
<1>7. SeenInv'
  <2>1. \A c \in sure \cup look' : edge[c] \in {"ready", "gone"}
    BY <1>0 DEF Inv, SeenInv
  <2> QED
    BY <1>0, <1>2, <2>1 DEF Inv, SeenInv
<1> QED
  BY <1>4, <1>5, <1>6, <1>7 DEF Inv, DbInv

\* A poll that ends, complete or not.
LEMMA PollEnds ==
  ASSUME Inv, EndPoll, UNCHANGED <<edge, enabled, status, fresh, session>>, health' \in BOOLEAN,
         sure' = sure \/ (pc = "admit" /\ active = NoPublisher /\ sure' = look),
         UNCHANGED faults \/ Fault
  PROVE  Inv'
<1>0. /\ TypeOK /\ HookKept
      /\ pc' = "idle" /\ active' = NoPublisher /\ drop' = {} /\ newer' = {} /\ look' = {}
  BY EndPollFacts DEF Inv
<1>1. EdgeInv' /\ DbInv'
  BY <1>0, EdgeStays, DbStays
<1>2. TypeOK'
  <2>1. faults' \in 0 .. MaxFaults
    BY <1>0, FaultFacts
  <2>2. /\ sure' \subseteq Conn /\ drop' \subseteq Conn /\ newer' \subseteq Conn /\ look' \subseteq Conn
        /\ active' \in [Stream -> Conn \cup {None}]
    BY <1>0, TypeParts, NoPublisherFacts
  <2> QED
    BY <1>0, <2>1, <2>2, TypeParts, TypeKeeps DEF SessionTable, HookKept
<1>3. PollInv'
  BY <1>0, NoPublisherFacts DEF PollInv
<1>4. SeenInv'
  <2>1. CASE sure' = sure
    BY <1>0, <2>1 DEF Inv, SeenInv
  <2>2. CASE active = NoPublisher /\ sure' = look
    <3>1. \A c \in look : c \in Conn /\ c # None /\ active[StreamOf[c]] = None
      BY <1>0, <2>2, TypeFacts, NoPublisherFacts
    <3> QED
      BY <1>0, <2>2, <3>1 DEF Inv, SeenInv
  <2> QED
    BY <2>1, <2>2
<1> QED
  BY <1>1, <1>2, <1>3, <1>4 DEF Inv, DbInv

\* A step of a poll that observes c, or finds that a later observation is stored.
LEMMA PollObserves ==
  ASSUME Inv, pc # "idle", NEW c \in Conn, NEW b \in BOOLEAN, b => edge[c] \notin {"new", "asking"},
         Accepts(c, b, PollAge(c)), Apply(c, b, PollAge(c)),
         IF Ignored(c, b, PollAge(c)) THEN UNCHANGED hook ELSE Overtake(c),
         UNCHANGED <<edge, enabled, health, sure, faults, pc, newer, look>>,
         \/ b /\ UNCHANGED drop /\ active[StreamOf[c]] = c /\ active' = [active EXCEPT ![StreamOf[c]] = None]
         \/ ~ b /\ c \in drop /\ drop' = drop \ {c} /\ UNCHANGED active
  PROVE  Inv'
<1>0. TypeOK
  BY DEF Inv
<1>1. HookKept
  BY <1>0, OvertakeFacts
<1>2. EdgeInv' /\ LetIn
  BY <1>1, EdgeStays
<1>3. /\ DbInv'
      /\ status' \in [Conn -> {"absent", "CONNECTED", "DISCONNECTED"}]
      /\ fresh' \in [Conn -> BOOLEAN]
      /\ SessionTable'
      /\ \/ status' = status /\ c \in newer /\ status[c] # "absent"
         \/ \A d \in Conn : status'[d] = IF d # c THEN status[d]
                                         ELSE IF b THEN "CONNECTED" ELSE "DISCONNECTED"
  <2>1. CASE Ignored(c, b, PollAge(c))
    <3>1. UNCHANGED <<status, fresh, session>>
      BY <2>1 DEF Apply
    <3>2. c \in newer /\ status[c] # "absent"
      BY <2>1 DEF Ignored, PollAge
    <3> QED
      BY <1>0, <1>2, <3>1, <3>2, DbStays, TypeParts DEF SessionTable
  <2>2. CASE ~ Ignored(c, b, PollAge(c))
    <3>1. ~ Rejected(c, b) /\ Store(c, b)
      BY <2>2 DEF Accepts, Apply
    <3> QED
      BY <1>0, <1>2, <3>1, StoreKeeps DEF SessionTable
  <2> QED
    BY <2>1, <2>2
<1>4. /\ active' \in [Stream -> Conn \cup {None}] /\ drop' \subseteq drop /\ drop' \subseteq Conn
      /\ \A s \in Stream : active'[s] = active[s] \/ (b /\ s = StreamOf[c] /\ active'[s] = None)
  <2>1. StreamOf[c] \in Stream /\ active \in [Stream -> Conn \cup {None}] /\ drop \subseteq Conn
    BY <1>0, TypeParts, TypeFacts
  <2> QED
    BY <2>1
<1>5. TypeOK'
  BY <1>0, <1>1, <1>3, <1>4, TypeParts, TypeKeeps DEF HookKept
<1>6. PollInv'
  BY <1>4 DEF Inv, PollInv
<1>7. SeenInv'
  <2>1. \A d \in sure \cup look \cup newer : d \in Conn /\ StreamOf[d] \in Stream
    BY <1>0, TypeFacts
  <2>2. ~ b => c \notin look /\ (c \in sure => edge[c] = "gone")
    BY DEF Inv, PollInv
  <2>3. \A d \in newer : edge[d] # "gone" => status'[d] = "CONNECTED"
    <3> SUFFICES ASSUME NEW d \in newer, edge[d] # "gone" PROVE status'[d] = "CONNECTED"
      OBVIOUS
    <3>1. status[d] = "CONNECTED" /\ d \in Conn
      BY <2>1 DEF Inv, SeenInv
    <3>2. CASE d # c \/ b \/ status' = status
      BY <1>3, <3>1, <3>2
    <3>3. CASE d = c /\ ~ b
      <4>1. Ignored(c, b, PollAge(c))
        BY <3>1, <3>3 DEF Ignored, PollAge
      <4> QED
        BY <3>1, <4>1 DEF Apply
    <3> QED
      BY <3>2, <3>3
  <2>4. \A d \in sure : edge[d] = "ready" => status'[d] = "CONNECTED"
    BY <1>3, <2>1, <2>2 DEF Inv, SeenInv
  <2>5. ASSUME NEW d \in look, edge[d] = "ready"
        PROVE  active'[StreamOf[d]] = d \/ status'[d] = "CONNECTED"
    <3>1. active[StreamOf[d]] = d \/ status[d] = "CONNECTED"
      BY <2>5 DEF Inv, SeenInv
    <3>2. CASE d = c
      <4>1. b
        BY <2>2, <2>5, <3>2
      <4>2. CASE c \in newer
        BY <2>3, <2>5, <3>2, <4>2
      <4>3. CASE c \notin newer
        BY <1>3, <2>1, <3>2, <4>1, <4>3
      <4> QED
        BY <4>2, <4>3
    <3>3. CASE d # c
      <4>1. status'[d] = status[d]
        BY <1>3, <2>1, <3>3
      <4>2. active[StreamOf[d]] = d => active'[StreamOf[d]] = d
        BY <1>4, <2>1, <3>3
      <4> QED
        BY <3>1, <4>1, <4>2
    <3> QED
      BY <3>2, <3>3
  <2> QED
    BY <2>3, <2>4, <2>5 DEF Inv, SeenInv
<1> QED
  BY <1>2, <1>3, <1>5, <1>6, <1>7 DEF Inv, DbInv

LEMMA PollDropKeeps ==
  ASSUME Inv, NEW c \in Conn, PollDrop(c)
  PROVE  Inv'
<1>0. TypeOK /\ pc # "idle" /\ c \in drop /\ UNCHANGED <<edge, enabled, health, sure, faults>>
  BY DEF Inv, PollDrop
<1>1. CASE Accepts(c, FALSE, PollAge(c))
  BY <1>0, <1>1, PollObserves DEF PollDrop
<1>2. CASE ~ Accepts(c, FALSE, PollAge(c))
  <2>1. EndPoll /\ UNCHANGED <<status, fresh, session>> /\ health' \in BOOLEAN
    BY <1>0, <1>2, TypeParts DEF PollDrop
  <2> QED
    BY <1>0, <2>1, PollEnds
<1> QED
  BY <1>1, <1>2

LEMMA PollDroppedKeeps ==
  ASSUME Inv, PollDropped
  PROVE  Inv'
<1>0. /\ TypeOK /\ pc # "idle" /\ pc' = "admit"
      /\ UNCHANGED <<edge, hook, enabled, status, fresh, session, health>>
      /\ UNCHANGED <<active, drop, newer, look, sure, faults>>
  BY DEF Inv, PollDropped, edgeVars, dbVars
<1>1. TypeOK'
  BY <1>0, TypeParts, TypeKeeps DEF SessionTable
<1>2. EdgeInv' /\ DbInv'
  BY <1>0, HookFacts, EdgeStays, DbStays
<1>3. PollInv' /\ SeenInv'
  BY <1>0 DEF Inv, PollInv, SeenInv
<1> QED
  BY <1>1, <1>2, <1>3 DEF Inv, DbInv

LEMMA PollAdmitKeeps ==
  ASSUME Inv, NEW s \in Stream, PollAdmit(s)
  PROVE  Inv'
<1> DEFINE c == active[s]
<1>0. /\ TypeOK /\ pc # "idle" /\ UNCHANGED <<edge, enabled, health, sure, faults>>
      /\ c \in look /\ StreamOf[c] = s
  BY DEF Inv, PollInv, PollAdmit
<1>1. c \in Conn /\ edge[c] \in {"ready", "gone"}
  BY <1>0, TypeFacts DEF Inv, SeenInv
<1>2. CASE Accepts(c, TRUE, PollAge(c))
  <2>1. /\ Apply(c, TRUE, PollAge(c)) /\ active' = [active EXCEPT ![s] = None]
        /\ IF Ignored(c, TRUE, PollAge(c)) THEN UNCHANGED hook ELSE Overtake(c)
        /\ UNCHANGED <<pc, drop, newer, look>>
    BY <1>2 DEF PollAdmit
  <2>2. active[StreamOf[c]] = c /\ active' = [active EXCEPT ![StreamOf[c]] = None]
    BY <1>0, <2>1
  <2> HIDE DEF c
  <2> QED
    BY <1>0, <1>1, <1>2, <2>1, <2>2, PollObserves
<1>3. CASE ~ Accepts(c, TRUE, PollAge(c))
  <2>1. EndPoll /\ UNCHANGED <<status, fresh, session>> /\ health' \in BOOLEAN
    BY <1>0, <1>3, TypeParts DEF PollAdmit
  <2> QED
    BY <1>0, <2>1, PollEnds
<1> QED
  BY <1>2, <1>3

LEMMA PollEndsKeep ==
  ASSUME Inv, PollDone \/ PollFails
  PROVE  Inv'
<1>1. CASE PollDone
  BY <1>1, PollEnds DEF PollDone
<1>2. CASE PollFails
  <2>1. health' \in BOOLEAN
    BY <1>2, TypeParts DEF Inv, PollFails, dbVars
  <2> QED
    BY <1>2, <2>1, PollEnds DEF PollFails, dbVars
<1> QED
  BY <1>1, <1>2

LEMMA StutterKeeps ==
  ASSUME Inv, UNCHANGED vars
  PROVE  Inv'
<1>0. /\ TypeOK /\ UNCHANGED <<edge, hook, enabled, status, fresh, session, health>>
      /\ UNCHANGED <<pc, active, drop, newer, look, sure, faults>>
  BY DEF Inv, vars
<1>1. EdgeInv' /\ DbInv'
  BY <1>0, HookFacts, EdgeStays, DbStays
<1> QED
  BY <1>0, <1>1, TypeParts, NothingObserved DEF SessionTable

LEMMA NextKeeps == Inv /\ [Next]_vars => Inv'
<1> SUFFICES ASSUME Inv, [Next]_vars PROVE Inv'
  OBVIOUS
<1>1. ASSUME Poll \/ PollFails PROVE Inv'
  BY <1>1, PollSnapshotKeeps, PollDroppedKeeps, PollEndsKeep, PollDropKeeps, PollAdmitKeeps DEF Poll
<1>2. ASSUME NEW c \in Conn,
             \/ Connect(c) \/ Admit(c) \/ Deny(c) \/ Ready(c)
             \/ Disconnect(c) \/ Post(c) \/ GraceElapses(c)
      PROVE  Inv'
  BY <1>2, EdgeKeeps, AdmitKeeps, PostKeeps, TimeKeeps
<1>3. ASSUME \/ EdgeObservation \/ PostTies \/ HealthElapses
             \/ \E s \in Stream : UpdateStream(s)
      PROVE  Inv'
  BY <1>3, EdgeObservationKeeps, PostKeeps, TimeKeeps
<1>4. ASSUME (\E i \in Ids : StopSession(i) \/ EndSession(i)) \/ StopDisabled PROVE Inv'
  BY <1>4, StopKeeps
<1> QED
  BY <1>1, <1>2, <1>3, <1>4, StutterKeeps DEF Next

-----------------------------------------------------------------------------
(* Theorems *)

\* The inductive invariant holds in every state of every behaviour: no order
\* of admissions, late posts, partial polls, stops and lost answers breaks it.
THEOREM Invariance == Spec => []Inv
<1> QED
  BY InitHolds, NextKeeps, PTL DEF Spec

\* ObserveIngest never leaves a stream with two connected rows or two open
\* sessions, whichever of edgeAuth, edgeObservation and pollEdge called it.
THEOREM OnePublisherPerStream == Spec => []OnePublisher
<1>1. Inv => OnePublisher
  <2> SUFFICES ASSUME Inv PROVE OnePublisher
    OBVIOUS
  <2>1. ASSUME NEW S, \A x, y \in S : x = y
        PROVE  Cardinality(S) <= 1
    <3>1. CASE S = {}
      BY <3>1, FS_EmptySet
    <3>2. CASE S # {}
      <4>1. PICK x : x \in S
        BY <3>2
      <4>2. S = {x}
        BY <2>1, <4>1
      <4> QED
        BY <4>2, FS_Singleton
    <3> QED
      BY <3>1, <3>2
  <2>2. ASSUME NEW s \in Stream
        PROVE  /\ Cardinality({c \in Conn : StreamOf[c] = s /\ status[c] = "CONNECTED"}) <= 1
               /\ Cardinality(OpenOf(s)) <= 1
    <3>1. \A x, y \in {c \in Conn : StreamOf[c] = s /\ status[c] = "CONNECTED"} : x = y
      BY DEF Inv, RowsInv
    <3>2. \A x, y \in OpenOf(s) : x = y
      BY DEF Inv, OpenInv, OpenOf
    <3> QED
      BY <2>1, <3>1, <3>2
  <2> QED
    BY <2>2 DEF Inv, OnePublisher
<1> QED
  BY <1>1, Invariance, PTL

\* "User stop is durable": no later admission, post or poll gives another
\* session to the connection of a session that StopSession or the controller ended.
THEOREM StopsAreDurable == Spec => []StopIsDurable
<1>1. Inv => StopIsDurable
  BY DEF Inv
<1> QED
  BY <1>1, Invariance, PTL

\* Every observation leaves operator_stopped of every session.
LEMMA StoppedStays ==
  ASSUME Inv, NEW c \in Conn, NEW b \in BOOLEAN, Store(c, b)
  PROVE  \A i \in Ids : session'[i].stopped = session[i].stopped
<1>0. TypeOK
  BY DEF Inv
<1>1. CASE session' = session
  BY <1>1
<1>2. CASE b /\ session' = Attach(c)
  <2>1. CASE Resumable(StreamOf[c]) # {} /\ FinishedOf(c) = {}
    <3>1. \A i \in Ids : session'[i] = IF i \in Resumable(StreamOf[c])
                                       THEN [session[i] EXCEPT !.conn = c] ELSE session[i]
      BY <1>0, <1>2, <2>1, AttachFacts
    <3>2. \A i \in Ids : session[i] \in Session
      BY <1>0, TypeFacts
    <3> QED
      BY <3>1, <3>2 DEF Session
  <2>2. CASE ~ (Resumable(StreamOf[c]) # {} /\ FinishedOf(c) = {})
    <3>1. \A i \in Ids : session'[i] = session[i]
      BY <1>0, <1>2, <2>2, AttachFacts
    <3> QED
      BY <3>1
  <2> QED
    BY <2>1, <2>2
<1> QED
  BY <1>1, <1>2 DEF Store

\* The owner alone stops a session.
LEMMA StoppedByOwner ==
  ASSUME Inv, Next, NEW i \in Ids, session'[i].stopped, ~ session[i].stopped
  PROVE  StopSession(i)
<1>0. TypeOK /\ session[i] \in Session
  BY TypeFacts DEF Inv
<1>1. ASSUME UNCHANGED session PROVE FALSE
  BY <1>1
<1>2. ASSUME NEW c \in Conn, NEW b \in BOOLEAN, NEW a, Apply(c, b, a) PROVE FALSE
  BY <1>1, <1>2, StoppedStays DEF Apply
<1>3. ASSUME NEW c \in Conn, Admit(c) PROVE FALSE
  BY <1>3, StoppedStays DEF Admit
<1>4. ASSUME EdgeObservation PROVE FALSE
  <2>1. hook.conn \in Conn /\ hook.connected \in BOOLEAN
    BY <1>0, <1>4, TypeFacts DEF EdgeObservation
  <2> QED
    BY <1>1, <1>2, <1>4, <2>1 DEF EdgeObservation
<1>5. ASSUME NEW c \in Conn, PollDrop(c) PROVE FALSE
  BY <1>1, <1>2, <1>5 DEF PollDrop
<1>6. ASSUME NEW s \in Stream, PollAdmit(s) PROVE FALSE
  <2>1. active[s] \in Conn
    BY <1>0, <1>6, TypeParts DEF PollAdmit
  <2> QED
    BY <1>1, <1>2, <1>6, <2>1 DEF PollAdmit
<1>7. ASSUME NEW j \in Ids, EndSession(j) PROVE FALSE
  <2>1. session' = [session EXCEPT ![j] = [session[j] EXCEPT !.open = FALSE, !.desired = "STOPPED"]]
    BY <1>7 DEF EndSession
  <2>2. session'[i].stopped = session[i].stopped
    BY <1>0, <2>1 DEF Ids, Session
  <2> QED
    BY <2>2
<1>8. ASSUME NEW j \in Ids, StopSession(j) PROVE i = j
  <2>1. session' = [session EXCEPT ![j] = [session[j] EXCEPT !.stopped = TRUE, !.desired = "STOPPED"]]
    BY <1>8 DEF StopSession
  <2>2. i # j => session'[i] = session[i]
    BY <2>1 DEF Ids
  <2> QED
    BY <2>2
<1>9. ASSUME StopDisabled PROVE FALSE
  <2>1. session'[i] = IF session[i].open /\ ~enabled[session[i].stream]
                      THEN [session[i] EXCEPT !.desired = "STOPPED"] ELSE session[i]
    BY <1>9 DEF StopDisabled
  <2>2. session'[i].stopped = session[i].stopped
    BY <1>0, <2>1 DEF Session
  <2> QED
    BY <2>2
<1>10. ASSUME \/ PollSnapshot \/ PollDropped \/ PollDone \/ PollFails \/ PostTies \/ HealthElapses
              \/ \E c \in Conn : \/ Connect(c) \/ Deny(c) \/ Ready(c)
                                 \/ Disconnect(c) \/ Post(c) \/ GraceElapses(c)
              \/ \E s \in Stream : UpdateStream(s)
       PROVE  FALSE
  <2>1. UNCHANGED session
    BY <1>10 DEF PollSnapshot, PollDropped, PollDone, PollFails, PostTies, HealthElapses, Connect, Deny,
                 Ready, Disconnect, Post, GraceElapses, UpdateStream, dbVars
  <2> QED
    BY <1>1, <2>1
<1> QED
  BY <1>3, <1>4, <1>5, <1>6, <1>7, <1>8, <1>9, <1>10 DEF Next, Poll

\* StopSession refuses while a publisher sends that the last complete poll saw:
\* its row is still connected, as no late post and no newer poll disconnects it.
THEOREM SeenPublishersBlockStops == Spec => SeenPublisherBlocksStop
<1>1. ASSUME Inv, Next, NEW i \in Ids, session'[i].stopped, ~ session[i].stopped
      PROVE  \A c \in sure : StreamOf[c] = session[i].stream => edge[c] # "ready"
  <2>1. StopSession(i)
    BY <1>1, StoppedByOwner
  <2>2. ~ SourceConnected(session[i].stream)
    BY <2>1 DEF StopSession, StopReason
  <2>3. \A c \in sure : c \in Conn
    BY <1>1, TypeFacts DEF Inv
  <2> QED
    BY <1>1, <2>2, <2>3 DEF SourceConnected, Inv, SeenInv
<1>2. Inv /\ [Next]_vars =>
        [\A i \in Ids : session'[i].stopped /\ ~session[i].stopped
           => \A c \in sure : StreamOf[c] = session[i].stream => edge[c] # "ready"]_vars
  BY <1>1
<1> QED
  BY <1>2, Invariance, PTL DEF Spec, SeenPublisherBlocksStop

\* A connection that edgeAuth lets in has an open session that its owner has not
\* stopped, however streams are disabled and enabled: the connection had none before,
\* while the stopped session of another one is open the admission is refused, and one
\* it takes over was told to stop before it came if it is to stop at all.
THEOREM AdmittedPublishersHaveSessions == Spec => AdmittedHasSession
<1> DEFINE Given(c) ==
      \E i \in DOMAIN session' :
        /\ session'[i].conn = c /\ session'[i].open /\ ~ session'[i].stopped
        /\ session'[i].desired = "STOPPED" => i \in Ids /\ session[i].desired = "STOPPED"
<1>1. ASSUME Inv, Next, NEW c \in Conn, edge[c] = "asking", edge'[c] = "admitted"
      PROVE  Given(c)
  <2>0. TypeOK /\ edge[c] # edge'[c]
    BY <1>1 DEF Inv
  <2>1. Admit(c)
    <3>1. ASSUME NEW d \in Conn, \/ Connect(d) \/ Deny(d) \/ Ready(d) \/ Disconnect(d)
          PROVE  FALSE
      <4>1. PICK v \in {"asking", "ready", "gone"} : /\ edge' = [edge EXCEPT ![d] = v]
                                                     /\ v = "ready" => edge[d] = "admitted"
        BY <3>1 DEF Connect, Deny, Ready, Disconnect
      <4> QED
        BY <1>1, <2>0, <4>1, TypeParts
    <3>2. ASSUME NEW d \in Conn, Admit(d) PROVE d = c
      <4>1. PICK v : edge' = [edge EXCEPT ![d] = v]
        BY <3>2 DEF Admit
      <4> QED
        BY <2>0, <4>1, TypeParts
    <3>3. ASSUME UNCHANGED edge PROVE FALSE
      BY <2>0, <3>3
    <3>4. ASSUME \/ Poll \/ PollFails \/ EdgeObservation \/ PostTies \/ HealthElapses \/ StopDisabled
                 \/ \E d \in Conn : Post(d) \/ GraceElapses(d)
                 \/ \E s \in Stream : UpdateStream(s)
                 \/ \E i \in Ids : StopSession(i) \/ EndSession(i)
          PROVE  UNCHANGED edge
      BY <3>4 DEF Poll, PollSnapshot, PollDrop, PollDropped, PollAdmit, PollDone, PollFails, EdgeObservation,
                  PostTies, HealthElapses, StopDisabled, Post, GraceElapses, UpdateStream, StopSession,
                  EndSession, edgeVars
    <3> QED
      BY <1>1, <3>1, <3>2, <3>3, <3>4 DEF Next
  <2>2. session' = Attach(c) /\ enabled[StreamOf[c]]
    BY <2>1 DEF Admit, Store, Accepts
  <2>3. FinishedOf(c) = {}
    BY <1>1 DEF FinishedOf, Inv, ConnInv
  <2>4. CASE Resumable(StreamOf[c]) # {}
    <3>1. PICK i : i \in Resumable(StreamOf[c])
      BY <2>4
    <3>2. /\ i \in Ids /\ session[i].stream = StreamOf[c] /\ session[i].open /\ ~ session[i].stopped
          /\ session[i] \in Session
      BY <2>0, <3>1, TypeFacts DEF Resumable, OpenOf
    <3>3. i \in DOMAIN session' /\ session'[i] = [session[i] EXCEPT !.conn = c]
      BY <2>0, <2>2, <2>3, <2>4, <3>1, <3>2, AttachFacts
    <3>4. /\ session'[i].conn = c /\ session'[i].open /\ ~ session'[i].stopped
          /\ session'[i].desired = session[i].desired
      BY <3>2, <3>3 DEF Session
    <3> QED
      BY <3>2, <3>3, <3>4
  <2>5. CASE Resumable(StreamOf[c]) = {}
    <3>1. PICK k : k \in DOMAIN session' /\ session'[k] = NewSession(c)
      BY <2>0, <2>2, <2>3, <2>5, AttachFacts
    <3>2. /\ session'[k].conn = c /\ session'[k].open /\ ~ session'[k].stopped
          /\ session'[k].desired # "STOPPED"
      BY <3>1 DEF NewSession
    <3> QED
      BY <3>1, <3>2
  <2> QED
    BY <2>4, <2>5
<1>2. Inv /\ [Next]_vars =>
        [\A c \in Conn : edge[c] = "asking" /\ edge'[c] = "admitted" => Given(c)]_vars
  BY <1>1
<1> QED
  BY <1>2, Invariance, PTL DEF Spec, AdmittedHasSession

=============================================================================
