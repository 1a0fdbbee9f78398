------------------------------ MODULE Settings ------------------------------
(***************************************************************************)
(* What the owner and the administrator configure: the source with its     *)
(* ingest key, the slate, the media profile, the fallback asset and the    *)
(* outputs.  Several pages may be open at once, each with what it loaded   *)
(* and the generation it loaded it at; a save names that generation.       *)
(* Meanwhile a publisher may be admitted: edgeAuth reads the key and       *)
(* verifies it, which is slow, before the transaction that admits it.      *)
(*                                                                         *)
(* The poll and posted observations let a publisher in as well, by sight   *)
(* and without a key.                                                      *)
(*                                                                         *)
(* Write transactions are serialised, so each is one step.  In which order *)
(* observations of a connection arrive is module Ingest's subject: here    *)
(* any of them may come at any time, and a session ends by itself.         *)
(***************************************************************************)
EXTENDS Naturals, FiniteSets

CONSTANTS Pages,       \* pages and scripts that edit
          Conns,       \* connections of publishers
          Outputs,     \* ids of destinations
          Names,       \* names of destinations
          Values,      \* what a setting may be set to
          OutputLimit, \* unarchived destinations of a source (8 in the code)
          MaxChanges,  \* bound on changes
          None

Settings == {"stream", "slate", "media", "asset"}
Contract == {"media", "asset"}    \* fixed while the source is in use

\* Ids of destinations are finitely many and not names of settings.
ASSUME SettingsAssumption ==
  /\ {OutputLimit, MaxChanges} \subseteq Nat
  /\ None \notin Values \union Names \union Outputs \union Settings \union {"default", "disabled"}
  /\ Outputs \intersect Settings = {}
  /\ IsFiniteSet(Outputs)

VARIABLES
  setting,    \* the stream's own row, slate, media profile and fallback asset
  output,     \* destinations
  key,        \* number of the ingest key whose hash streams holds, 0 for no source
  credential, \* the key sealed in source_credentials
  conn,       \* ingest_connections, and requests of edgeAuth in flight: the key that
              \* was verified, whether it or sight let the publisher in last, and
              \* whether its session is stopped or over
  session,    \* the source's session that is not over
  page,       \* what each page has loaded
  changes     \* changes so far

vars == <<setting, output, key, credential, conn, session, page, changes>>

NoOutput  == [state |-> "absent", name |-> None, sealed |-> None, enabled |-> FALSE,
              generation |-> 0]
NoSession == [active |-> FALSE, stopped |-> FALSE, conn |-> None,
              contract |-> [s \in Contract |-> 0]]
NoPage    == [of |-> None, generation |-> 0, content |-> <<None, FALSE>>]

Init ==
  /\ setting = [s \in Settings |-> [generation |-> 0, content |-> None]]
  /\ output = [o \in Outputs |-> NoOutput]
  /\ key = 0
  /\ credential = 0
  /\ conn = [c \in Conns |-> [state |-> "new", key |-> 0, by |-> "sight", over |-> FALSE]]
  /\ session = NoSession
  /\ page = [p \in Pages |-> NoPage]
  /\ changes = 0

Change == changes < MaxChanges /\ changes' = changes + 1

Enabled == setting["stream"].content # "disabled"

-----------------------------------------------------------------------------
(* Pages *)

Live == {o \in Outputs : output[o].state = "live"}

\* What GET shows of a setting or an output.
Shown(x) ==
  IF x \in Settings THEN <<setting[x].content, TRUE>>
  ELSE <<output[x].name, output[x].enabled>>

GenerationOf(x) == IF x \in Settings THEN setting[x].generation ELSE output[x].generation

\* GET of a setting or of the list of outputs: one query.
Load(p, x) ==
  /\ key # 0
  /\ x \in Settings \union Live
  /\ page' = [page EXCEPT ![p] = [of |-> x, generation |-> GenerationOf(x),
                                  content |-> Shown(x)]]
  /\ UNCHANGED <<setting, output, key, credential, conn, session, changes>>

\* A save is taken when nothing was saved since the page was loaded.
Current(p, x) == page[p].of = x /\ page[p].generation = GenerationOf(x)

Saved(p) == page' = [page EXCEPT ![p] = NoPage]

-----------------------------------------------------------------------------
(* The source *)

\* Mutant of InUse: only the publisher counts.
InUseConnected == \E c \in Conns : conn[c].state = "CONNECTED"

\* The source has a session that is not over, or a publisher.
InUse == session.active \/ \E c \in Conns : conn[c].state = "CONNECTED"

\* POST /v1/me/source: provisions the source once, and enables it if it is not.
Provision ==
  /\ \/ /\ key = 0
        /\ key' = 1 /\ credential' = 1
        /\ setting' = [s \in Settings |->
             IF s = "asset" THEN setting[s]      \* no row until one is uploaded
             ELSE [generation |-> 1, content |-> "default"]]
        /\ UNCHANGED changes
     \/ /\ key # 0 /\ ~ Enabled
        /\ Change
        /\ setting' = [setting EXCEPT !["stream"] = [generation |-> @.generation + 1,
                                                     content |-> "default"]]
        /\ UNCHANGED <<key, credential>>
  /\ UNCHANGED <<output, conn, session, page>>

\* POST /v1/me/source/credential
RotateKey ==
  /\ key # 0
  /\ ~ InUse
  /\ Change
  /\ key' = key + 1
  /\ credential' = key + 1
  /\ UNCHANGED <<setting, output, conn, session, page>>

\* UpdateStream: the administrator's PUT with If-Match.
UpdateStream(p, enabled) ==
  /\ Current(p, "stream")
  /\ Change
  /\ setting' = [setting EXCEPT !["stream"] =
                   [generation |-> @.generation + 1,
                    content |-> IF enabled THEN "default" ELSE "disabled"]]
  /\ Saved(p)
  /\ UNCHANGED <<output, key, credential, conn, session>>

\* userSlate
UpdateSlate(p, v) ==
  /\ Current(p, "slate")
  /\ Change
  /\ setting' = [setting EXCEPT !["slate"] = [generation |-> @.generation + 1, content |-> v]]
  /\ Saved(p)
  /\ UNCHANGED <<output, key, credential, conn, session>>

\* What both saves of the contract do.
UpdateContract(p, s, v) ==
  /\ ~ InUse
  /\ Current(p, s)
  /\ Change
  /\ setting' = [setting EXCEPT ![s] = [generation |-> @.generation + 1, content |-> v]]
  /\ Saved(p)
  /\ UNCHANGED <<output, key, credential, conn, session>>

\* userMedia
UpdateMedia(p, v) == UpdateContract(p, "media", v)

\* userFallback with PUT; what validateFallback refuses never gets here.
UpdateFallback(p, v) == UpdateContract(p, "asset", v)

\* Mutant of Removed: the row is deleted, and its generation with it.
RemovedRow(a) == [generation |-> 0, content |-> None]

\* The row stays, emptied, so that its generations go on; there may be none.
Removed(a) == IF a.generation = 0 THEN a
              ELSE [generation |-> a.generation + 1, content |-> "default"]

\* userFallback with DELETE
DeleteFallback(p) ==
  /\ ~ InUse
  /\ Current(p, "asset")
  /\ Change
  /\ setting' = [setting EXCEPT !["asset"] = Removed(@)]
  /\ Saved(p)
  /\ UNCHANGED <<output, key, credential, conn, session>>

-----------------------------------------------------------------------------
(* Outputs *)

\* The unique index on the names of unarchived destinations.
MayBeCalled(o, n) == \A other \in Live \ {o} : output[other].name # n

\* userOutput with POST, and createDestination: the trigger and the index decide.
CreateOutput(o, n, enabled) ==
  /\ key # 0
  /\ output[o].state = "absent"
  /\ Cardinality(Live) < OutputLimit
  /\ MayBeCalled(o, n)
  /\ Change
  /\ output' = [output EXCEPT ![o] = [state |-> "live", name |-> n, sealed |-> n,
                                      enabled |-> enabled, generation |-> 1]]
  /\ UNCHANGED <<setting, key, credential, conn, session, page>>

\* Mutant of Sealed: only a new secret is sealed.
SealedWhenNew(o, n, secret) == IF secret THEN n ELSE output[o].sealed

\* The name a secret is sealed under after a save: a new secret, or the old one
\* opened and sealed again when the name changes.
Sealed(o, n, secret) == IF secret \/ n # output[o].name THEN n ELSE output[o].sealed

\* userOutput with PUT, with a new secret or without
UpdateOutput(p, o, n, enabled, secret) ==
  /\ o \in Live
  /\ Current(p, o)
  /\ MayBeCalled(o, n)
  /\ Change
  /\ output' = [output EXCEPT ![o] = [output[o] EXCEPT !.name = n, !.sealed = Sealed(o, n, secret),
                                                       !.enabled = enabled,
                                                       !.generation = @ + 1]]
  /\ Saved(p)
  /\ UNCHANGED <<setting, key, credential, conn, session>>

\* userOutput with DELETE
DeleteOutput(p, o) ==
  /\ o \in Live
  /\ Current(p, o)
  /\ Change
  /\ output' = [output EXCEPT ![o] = [output[o] EXCEPT !.state = "archived", !.enabled = FALSE,
                                                       !.sealed = None, !.generation = @ + 1]]
  /\ Saved(p)
  /\ UNCHANGED <<setting, key, credential, conn, session>>

\* userOutput with POST retry
RetryOutput(p, o) ==
  /\ o \in Live
  /\ Current(p, o)
  /\ output[o].enabled
  /\ Change
  /\ output' = [output EXCEPT ![o].generation = @ + 1]
  /\ Saved(p)
  /\ UNCHANGED <<setting, key, credential, conn, session>>

\* RetryDestination: the administrator's, which asks for nothing but the row.
RetryDestination(o) ==
  /\ output[o].state # "absent"
  /\ Change
  /\ output' = [output EXCEPT ![o].generation = @ + 1]
  /\ UNCHANGED <<setting, key, credential, conn, session, page>>

-----------------------------------------------------------------------------
(* Publishers *)

\* edgeAuth: GetStream and VerifyKey, outside any transaction.
Ask(c) ==
  /\ conn[c].state = "new"
  /\ key # 0 /\ Enabled
  /\ conn' = [conn EXCEPT ![c].state = "asked", ![c].key = key]
  /\ UNCHANGED <<setting, output, key, credential, session, page, changes>>

\* ObserveIngest: the source is enabled, there is no other publisher, and no session
\* that was stopped and is not over stands in the way of a new one.
Observable(c) ==
  /\ Enabled
  /\ \A other \in Conns \ {c} : conn[other].state # "CONNECTED"
  /\ session.stopped => conn[c].over

\* Mutant of Admissible: the hash that was verified is not compared.
AdmissibleUnchecked(c) == Observable(c)

\* With an expected hash: the key must still be the one that was verified.
Admissible(c) == Observable(c) /\ conn[c].key = key

\* The transaction: a connection whose session is over gets no other; else the
\* session there is goes on with it, or a new one begins.
Connected(c, by) ==
  /\ conn' = [conn EXCEPT ![c].state = "CONNECTED", ![c].by = by]
  /\ session' = IF conn[c].over THEN session
                ELSE IF session.active THEN [session EXCEPT !.conn = c]
                ELSE [active |-> TRUE, stopped |-> FALSE, conn |-> c,
                      contract |-> [s \in Contract |-> setting[s].generation]]

\* The end of edgeAuth; the edge does not take a connection that is denied.
Admit(c) ==
  /\ conn[c].state = "asked"
  /\ \/ Admissible(c) /\ Connected(c, "key")
     \/ /\ ~ Admissible(c)
        /\ conn' = [conn EXCEPT ![c].state = "denied"]
        /\ UNCHANGED session
  /\ UNCHANGED <<setting, output, key, credential, page, changes>>

\* pollEdge and edgeObservation give no expected hash: a connection that is seen is
\* let in, also one that was observed gone before, or that edgeAuth never told of.
Observe(c) ==
  /\ key # 0
  /\ conn[c].state \in {"new", "DISCONNECTED"}
  /\ Observable(c)
  /\ Connected(c, "sight")
  /\ UNCHANGED <<setting, output, key, credential, page, changes>>

\* An observation that the publisher is gone; it is not taken of a disabled source.
Disconnect(c) ==
  /\ conn[c].state = "CONNECTED"
  /\ Enabled
  /\ conn' = [conn EXCEPT ![c].state = "DISCONNECTED"]
  /\ UNCHANGED <<setting, output, key, credential, session, page, changes>>

\* The connection of the session is not to get another one.
Over == [c \in Conns |-> IF c = session.conn THEN [conn[c] EXCEPT !.over = TRUE] ELSE conn[c]]

\* StopSession: not while a publisher is connected.
StopSession ==
  /\ session.active /\ ~ session.stopped
  /\ \A c \in Conns : conn[c].state # "CONNECTED"
  /\ session' = [session EXCEPT !.stopped = TRUE]
  /\ conn' = Over
  /\ UNCHANGED <<setting, output, key, credential, page, changes>>

\* Stopped, over when the grace period is, or failed; see Ingest and Reconcile.
SessionEnds ==
  /\ session.active
  /\ session' = NoSession
  /\ conn' = Over
  /\ UNCHANGED <<setting, output, key, credential, page, changes>>

-----------------------------------------------------------------------------
Next ==
  \/ \E p \in Pages, x \in Settings \union Outputs : Load(p, x)
  \/ Provision
  \/ RotateKey
  \/ \E p \in Pages :
       \/ \E b \in BOOLEAN : UpdateStream(p, b)
       \/ \E v \in Values : \/ UpdateSlate(p, v)
                            \/ UpdateMedia(p, v)
                            \/ UpdateFallback(p, v)
       \/ DeleteFallback(p)
       \/ \E o \in Outputs : \/ DeleteOutput(p, o)
                             \/ RetryOutput(p, o)
                             \/ \E n \in Names, e, s \in BOOLEAN : UpdateOutput(p, o, n, e, s)
  \/ \E o \in Outputs : \/ RetryDestination(o)
                        \/ \E n \in Names, e \in BOOLEAN : CreateOutput(o, n, e)
  \/ \E c \in Conns : \/ Ask(c)
                      \/ Admit(c)
                      \/ Observe(c)
                      \/ Disconnect(c)
  \/ StopSession
  \/ SessionEnds

Spec == Init /\ [][Next]_vars

-----------------------------------------------------------------------------
Generations == 0 .. MaxChanges + 1

\* Rows hold what their tables allow; a setting without content has no row yet.
TypeOK ==
  /\ setting \in [Settings -> [generation : Generations,
                               content : Values \union {"default", "disabled", None}]]
  /\ \A s \in Settings : setting[s].content = None <=> setting[s].generation = 0
  /\ output \in [Outputs -> [state : {"absent", "live", "archived"},
                             name : Names \union {None}, sealed : Names \union {None},
                             enabled : BOOLEAN, generation : Generations]]
  /\ {key, credential} \subseteq Generations
  /\ conn \in [Conns -> [state : {"new", "asked", "denied", "CONNECTED", "DISCONNECTED"},
                         key : Generations, by : {"key", "sight"}, over : BOOLEAN]]
  /\ session \in [active : BOOLEAN, stopped : BOOLEAN, conn : Conns \union {None},
                  contract : [Contract -> Generations]]
  /\ page \in [Pages -> [of : Settings \union Outputs \union {None},
                         generation : Generations,
                         content : (Values \union Names \union {"default", "disabled", None})
                                     \X BOOLEAN]]
  /\ changes \in 0 .. MaxChanges

\* No save is lost: a page that may still save shows what it is about to replace,
\* whoever else has saved, removed and uploaded again since it was loaded.
NoLostUpdate ==
  \A p \in Pages :
    page[p].of # None /\ Current(p, page[p].of) => page[p].content = Shown(page[p].of)

\* The media profile and the fallback asset are those the session began with until it
\* is over, its grace period without a publisher included.
ContractHolds ==
  session.active => \A s \in Contract : setting[s].generation = session.contract[s]

\* edgeAuth never lets a publisher in with a key that was replaced while it was being
\* verified, nor is the key replaced under a publisher it has let in; and the key the
\* owner is shown is the one edgeAuth asks for.  Of a publisher that a poll or a post
\* has let in since, nothing is said: those compare no key.
PublisherHasTheKey ==
  /\ \A c \in Conns : conn[c].state = "CONNECTED" /\ conn[c].by = "key" => conn[c].key = key
  /\ credential = key

\* Every output can be delivered to: its secret opens under the name it has now, no
\* other has that name, and there are no more than allowed.  (And every variable has
\* its type.)
OutputsUsable ==
  /\ TypeOK
  /\ \A o \in Live : output[o].sealed = output[o].name
  /\ \A o, other \in Live : output[o].name = output[other].name => o = other
  /\ Cardinality(Live) <= OutputLimit
=============================================================================
