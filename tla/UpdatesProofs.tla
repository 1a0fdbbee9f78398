--------------------------- MODULE UpdatesProofs ----------------------------
(***************************************************************************)
(* The safety properties of module Updates, for any requests, releases and *)
(* faults.                                                                 *)
(*                                                                         *)
(* One update at a time rests on the pointers: a job that has closed       *)
(* admission is the current one, or the requested one while the current    *)
(* one is finished, and every way to another job looks at both pointers.   *)
(* That nothing is rewound and that admission opens only on the release    *)
(* decided for rests on the journal: what each phase says of the files and *)
(* of the database, at every stage of the coordinator and after its death. *)
(***************************************************************************)
EXTENDS Updates, TLAPS

\* A job in hand: it has closed admission, or has been decided but not settled.
Held(j) == /\ HasJob(j) /\ job[j].phase \notin Finished
           /\ job[j].phase = "QUEUED" => marker = j

CurrentDone == current = None \/ job[current].phase \in Finished

\* What the coordinator may work on.
Chosen(j) == j = current \/ (j = requested /\ CurrentDone)

\* One job in hand, found by the pointers; the marker is of a job in hand.
PointerInv ==
  /\ current # None => HasJob(current)
  /\ marker # None => Held(marker)
  /\ \A j, k \in Jobs : Held(j) /\ Held(k) => j = k
  /\ \A j \in Jobs : Held(j) => Chosen(j)

\* The phase in which a stage of the coordinator is reached.
AtPhase(at, phase) ==
  /\ at \in {"hold", "decide"} => phase \notin TERMINAL
  /\ at \in {"idle", "plan"} => phase = "QUEUED"
  /\ at = "prepare" => phase = "PREPARING"
  /\ at \in {"install", "replace"} => phase = "INSTALLING"
  /\ at = "health" => phase = "VERIFYING"
  /\ at = "rollback" => phase \in Uncertain
  /\ at \in {"restore", "rewrite"} => phase = "ROLLING_BACK"
  /\ at = "recheck" => phase = "ROLLBACK_VERIFYING"
  /\ at = "abort" => phase = "ABORTING"
  /\ at \in {"reverify", "release", "finish"} => phase \in Decided

\* What is in place at a stage: of job r, that wants release w.
AtFiles(at, r, w, files) ==
  /\ at \in {"plan", "prepare"} => files = r.old /\ w > r.old
  /\ at = "release" => /\ files # Mixed
                       /\ r.phase = "COMMITTED" => files = w
                       /\ r.phase = "RECOVERED" => files = r.old

Running == {"load", "hold"} \union Holding

\* The process that holds the lock, by its stage.
HostInv ==
  /\ host.at \notin {"off"} \union Offering => J \in Jobs
  /\ host.at \in Queueing \union Running => \A j \in Jobs : Held(j) => j = J
  /\ host.at = "stage" => Phase = "none"
  /\ host.at = "verify" => Phase = "made"
  /\ host.at = "point" => Phase = "QUEUED"
  /\ host.at \in Running => HasJob(J) /\ Chosen(J)
  /\ host.at \in Holding => marker = IF host.at = "finish" THEN None ELSE J
  /\ host.at \in Running => AtPhase(host.at, Phase) /\ AtFiles(host.at, job[J], wants[J], installed)
  /\ host.at = "plan" => ~ db.busy
  /\ host.guarded => host.at \in Holding

\* What the journal of job r promises, with release w wanted and database data.
Sound(r, w, data) ==
  /\ r.phase \in Closed => ~ data.busy
  /\ r.phase \in Closed \union {"COMMITTED"} => w > r.old
  /\ r.phase \in Uncertain \union {"COMMITTED", "RECOVERED"} => r.saved # None /\ r.saved.files = r.old
  /\ r.phase \in Uncertain => Revoked(r.saved.db) = Revoked(data)

JournalInv == \A j \in Jobs : Sound(job[j], wants[j], db)

\* Admission is closed while files or database may change.
FenceInv ==
  /\ marker # None => Drained
  /\ \A j \in Jobs : job[j].phase \in Closed => marker = j
  /\ installed = Mixed => marker # None /\ job[marker].phase \in Uncertain \union {"RECOVERY_REQUIRED"}

Inv == TypeOK /\ PointerInv /\ HostInv /\ JournalInv /\ FenceInv

-----------------------------------------------------------------------------
(* Types *)

HostRow == [proc : {"off", "bridge", "offer", "cli", "resume"}, at : Stages,
            job : Jobs \union {None}, guarded : BOOLEAN]
DispatchRow == [at : {"off", "sent", "accepted", "refused"}, job : Jobs \union {None}]

ApiType == /\ db \in Database /\ grant \in [Jobs -> {"live", "signed_out", "expired"}]
           /\ admitted \in BOOLEAN /\ checked \in Releases /\ dispatch \in DispatchRow
BridgeType == /\ receipt \in [Jobs -> {"none", "REQUESTED", "FAILED"}]
              /\ wakes \in [Jobs -> 0 .. MaxWakes]
              /\ requested \in Jobs \union {None} /\ offered \in Releases
EngineType == /\ job \in [Jobs -> Job] /\ current \in Jobs \union {None} /\ watermark \in Releases
              /\ wants \in [Jobs -> Releases] /\ marker \in Jobs \union {None}
              /\ installed \in Releases \union {Mixed}
UnitRow == [due : BOOLEAN, starts : 0 .. MaxStarts + 1]
HostType == unit \in UnitRow /\ host \in HostRow /\ faults \in 0 .. MaxFaults

LEMMA TypeParts == ASSUME TypeOK PROVE ApiType /\ BridgeType /\ EngineType /\ HostType
<1>1. /\ requested \in Jobs \union {None} /\ current \in Jobs \union {None}
      /\ marker \in Jobs \union {None} /\ offered \in Releases /\ watermark \in Releases
  BY DEF TypeOK
<1> QED
  BY <1>1, Zenon DEF TypeOK, ApiType, BridgeType, EngineType, HostType, UnitRow, HostRow, DispatchRow

LEMMA TypeJoin == ASSUME ApiType', BridgeType', EngineType', HostType' PROVE TypeOK'
<1>1. {requested', current', marker'} \subseteq Jobs \union {None} /\ {offered', watermark'} \subseteq Releases
  BY DEF BridgeType, EngineType
<1> QED
  BY <1>1, Zenon DEF TypeOK, ApiType, BridgeType, EngineType, HostType, UnitRow, HostRow, DispatchRow

LEMMA BoundFacts ==
  /\ MaxRelease \in Nat /\ MaxWakes \in Nat /\ MaxResumes \in Nat
  /\ MaxStarts \in Nat /\ MaxFaults \in Nat
  /\ Releases \subseteq Nat /\ 0 \in Releases /\ Mixed \notin Releases
  BY UpdatesAssumption DEF Releases, Mixed

\* What the type invariant says of a job.
LEMMA JobFacts ==
  ASSUME TypeOK, NEW j \in Jobs
  PROVE  /\ j # None /\ job[j] \in Job
         /\ job[j].phase \in PHASES \union {"none", "made"} /\ job[j].old \in Releases
         /\ job[j].resumes \in 0 .. MaxResumes /\ job[j].late \in BOOLEAN /\ job[j].planned \in BOOLEAN
         /\ job[j].saved \in Saved \union {None} /\ wants[j] \in Releases
<1>1. job[j] \in Job /\ wants[j] \in Releases
  BY TypeParts DEF EngineType
<1> QED
  BY <1>1, UpdatesAssumption DEF Job, Saved

LEMMA HostFacts ==
  ASSUME TypeOK
  PROVE  /\ host \in HostRow /\ host.at \in Stages /\ host.job \in Jobs \union {None}
         /\ host.guarded \in BOOLEAN /\ host.proc \in {"off", "bridge", "offer", "cli", "resume"}
<1>1. host \in HostRow
  BY TypeParts DEF HostType
<1> QED
  BY <1>1 DEF HostRow

\* The service is to run or not, and is started.
LEMMA UnitFacts ==
  ASSUME unit \in UnitRow, NEW due \in BOOLEAN
  PROVE  [unit EXCEPT !.due = due] \in UnitRow
  BY DEF UnitRow

LEMMA AttemptFacts ==
  ASSUME unit \in UnitRow, NEW due \in BOOLEAN, Attempt(due)
  PROVE  unit' \in UnitRow
<1>1. unit.starts \in 0 .. MaxStarts + 1
  BY DEF UnitRow
<1>2. unit.starts + 1 \in 0 .. MaxStarts + 1
  BY <1>1, BoundFacts DEF Attempt
<1> QED
  BY <1>2 DEF Attempt, UnitRow

LEMMA OffFacts == Off \in HostRow /\ Off.at = "off" /\ Off.guarded = FALSE
  BY DEF Off, HostRow, Stages

\* A process goes on to another stage.
LEMMA GoesFacts ==
  ASSUME TypeOK, NEW at \in Stages, Goes(at)
  PROVE  /\ host' \in HostRow /\ host'.at = at /\ host'.job = host.job
         /\ host'.guarded = host.guarded /\ host'.proc = host.proc
  BY HostFacts DEF Goes, HostRow

\* The first stage of a process.
LEMMA StartFacts ==
  ASSUME NEW p \in {"bridge", "cli", "resume"}, NEW at \in Stages, NEW j \in Jobs,
         host' = [Off EXCEPT !.proc = p, !.at = at, !.job = j]
  PROVE  host' \in HostRow /\ host'.at = at /\ host'.job = j /\ host'.guarded = FALSE
  BY DEF Off, HostRow

\* A write to one job.
LEMMA WriteFacts ==
  ASSUME TypeOK, NEW j \in Jobs, NEW p \in PHASES \union {"none", "made"}, Write(j, p)
  PROVE  \E r \in Job : /\ job' = [job EXCEPT ![j] = r]
                        /\ r.phase = p /\ r.old = job[j].old /\ r.saved = job[j].saved
<1> DEFINE r == [job[j] EXCEPT !.phase = p]
<1>1. r \in Job /\ r.phase = p /\ r.old = job[j].old /\ r.saved = job[j].saved
  BY JobFacts DEF Job
<1>2. job' = [job EXCEPT ![j] = r]
  BY DEF Write
<1> HIDE DEF r
<1> QED
  BY <1>1, <1>2

LEMMA SettleFacts ==
  ASSUME TypeOK, NEW j \in Jobs, NEW p \in TERMINAL, Settle(j, p)
  PROVE  \E r \in Job : job' = [job EXCEPT ![j] = r] /\ r.phase = p
<1> DEFINE r == [NoJob EXCEPT !.phase = p]
<1>1. r \in Job /\ r.phase = p
  <2>1. p \in PHASES \union {"none", "made"} /\ 0 \in Releases /\ 0 \in 0 .. MaxResumes
    BY BoundFacts DEF PHASES
  <2>2. NoJob \in Job
    BY <2>1 DEF NoJob, Job
  <2> QED
    BY <2>1, <2>2 DEF Job
<1>2. job' = [job EXCEPT ![j] = r]
  BY DEF Settle
<1> HIDE DEF r
<1> QED
  BY <1>1, <1>2

-----------------------------------------------------------------------------
(* Steps that leave the journals *)

\* No job gets another phase, release or saved state; releases wanted stay wanted.
JobsStay == \A j \in Jobs : /\ job'[j].phase = job[j].phase /\ job'[j].old = job[j].old
                            /\ job'[j].saved = job[j].saved
                            /\ wants[j] # 0 => wants'[j] = wants[j]

LEMMA HeldStays ==
  ASSUME JobsStay, UNCHANGED <<marker, current>>, current \in Jobs \union {None}
  PROVE  /\ \A j \in Jobs : (HasJob(j)' <=> HasJob(j)) /\ (Held(j)' <=> Held(j))
         /\ CurrentDone' <=> CurrentDone
<1>1. \A j \in Jobs : job'[j].phase = job[j].phase
  BY DEF JobsStay
<1>2. \A j \in Jobs : (HasJob(j)' <=> HasJob(j)) /\ (Held(j)' <=> Held(j))
  BY <1>1 DEF HasJob, Held
<1>3. CurrentDone' <=> CurrentDone
  BY <1>1 DEF CurrentDone
<1> QED
  BY <1>2, <1>3

\* A job in hand is open.
LEMMA HeldOpen ==
  ASSUME NEW j \in Jobs, Held(j)
  PROVE  Open(j)
  BY UpdatesAssumption DEF Held, Open, Status

\* A current job that is not open is finished.
LEMMA DoneFacts ==
  ASSUME PointerInv, ~ Open(current)
  PROVE  CurrentDone
  BY DEF PointerInv, Open, Status, CurrentDone

LEMMA SoundStays ==
  ASSUME Inv, JobsStay, marker # None => db' = db
  PROVE  JournalInv'
<1> SUFFICES ASSUME NEW j \in Jobs PROVE Sound(job'[j], wants'[j], db')
  BY DEF JournalInv
<1>1. /\ job'[j].phase = job[j].phase /\ job'[j].old = job[j].old /\ job'[j].saved = job[j].saved
      /\ wants[j] # 0 => wants'[j] = wants[j]
  BY DEF JobsStay
<1>2. Sound(job[j], wants[j], db)
  BY DEF Inv, JournalInv
<1>3. job[j].phase \in Closed => db' = db
  BY JobFacts DEF Inv, FenceInv
<1>4. wants[j] > job[j].old => wants'[j] > job[j].old
  <2>1. wants[j] \in Nat /\ job[j].old \in Nat
    BY JobFacts, BoundFacts DEF Inv
  <2> QED
    BY <1>1, <2>1
<1> QED
  BY <1>1, <1>2, <1>3, <1>4 DEF Sound, Closed

\* The pointer of the owner's requests moves only from something that is not open.
LEMMA QuietStep ==
  ASSUME Inv, TypeOK', HostInv', JobsStay, UNCHANGED <<current, marker, installed>>,
         UNCHANGED requested \/ ~ Open(requested),
         marker # None => db' = db /\ Drained'
  PROVE  Inv'
<1>0. TypeOK /\ current \in Jobs \union {None} /\ marker \in Jobs \union {None}
  BY TypeParts DEF Inv, EngineType
<1>1. /\ \A j \in Jobs : (HasJob(j)' <=> HasJob(j)) /\ (Held(j)' <=> Held(j))
      /\ CurrentDone' <=> CurrentDone
  BY <1>0, HeldStays
<1>2. PointerInv'
  <2>1. current' # None => HasJob(current)'
    BY <1>0, <1>1 DEF Inv, PointerInv
  <2>2. marker' # None => Held(marker)'
    BY <1>0, <1>1 DEF Inv, PointerInv
  <2>3. ASSUME NEW j \in Jobs, NEW k \in Jobs, Held(j)', Held(k)' PROVE j = k
    BY <1>1, <2>3 DEF Inv, PointerInv
  <2>4. ASSUME NEW j \in Jobs, Held(j)' PROVE Chosen(j)'
    <3>1. Held(j) /\ Chosen(j) /\ Open(j)
      BY <1>1, <2>4, HeldOpen DEF Inv, PointerInv
    <3> QED
      BY <1>1, <3>1 DEF Chosen
  <2> QED
    BY <2>1, <2>2, <2>3, <2>4 DEF PointerInv
<1>3. JournalInv'
  BY SoundStays
<1>4. FenceInv'
  BY <1>0 DEF Inv, FenceInv, JobsStay
<1> QED
  BY <1>2, <1>3, <1>4 DEF Inv

\* The process that holds the lock goes on.
LEMMA HostStays ==
  ASSUME Inv, JobsStay, UNCHANGED <<current, marker, installed, requested, host>>,
         marker # None => db' = db
  PROVE  HostInv'
<1>0. TypeOK /\ current \in Jobs \union {None} /\ HostInv
  BY TypeParts DEF Inv, EngineType
<1>1. /\ \A j \in Jobs : (HasJob(j)' <=> HasJob(j)) /\ (Held(j)' <=> Held(j))
      /\ CurrentDone' <=> CurrentDone
  BY <1>0, HeldStays
<1>2. CASE host.at \in {"off"} \union Offering
  BY <1>0, <1>2 DEF HostInv, Offering, Queueing, Running, Holding
<1>3. CASE host.at \notin {"off"} \union Offering
  <2>1. /\ J \in Jobs /\ J' = J /\ Phase' = Phase /\ job'[J].phase = job[J].phase
        /\ job'[J].old = job[J].old /\ (wants[J] # 0 => wants'[J] = wants[J])
    BY <1>0, <1>3 DEF HostInv, JobsStay, J, Phase
  <2>2. J # None /\ wants[J] \in Nat /\ job[J].old \in Nat
    BY <1>0, <2>1, JobFacts, BoundFacts
  <2>3. Chosen(J)' <=> Chosen(J)
    BY <1>1, <2>1 DEF Chosen
  <2>4. host.at \in Running => AtFiles(host.at, job'[J], wants'[J], installed)
    <3>1. ASSUME host.at \in Running
          PROVE  AtFiles(host.at, job[J], wants[J], installed) /\ AtPhase(host.at, Phase)
      BY <1>0, <3>1 DEF HostInv
    <3>2. wants[J] > job[J].old => wants'[J] > job[J].old
      BY <2>1, <2>2
    <3>3. ASSUME host.at = "release", job[J].phase = "COMMITTED" PROVE wants'[J] = wants[J]
      <4>1. wants[J] > job[J].old
        BY <2>1, <3>3 DEF Inv, JournalInv, Sound
      <4> QED
        BY <2>1, <2>2, <4>1
    <3> QED
      BY <2>1, <3>1, <3>2, <3>3 DEF AtFiles
  <2>5. host.at \in Holding /\ host.at # "finish" => marker # None
    BY <1>0, <2>2 DEF HostInv
  <2>6. host.at = "plan" => ~ db'.busy
    BY <1>0, <2>5 DEF HostInv, Holding
  <2> QED
    BY <1>0, <1>1, <2>1, <2>3, <2>4, <2>6 DEF HostInv
<1> QED
  BY <1>2, <1>3

\* It has ended, serves a call or looks at a release to offer.
LEMMA HostLeaves ==
  ASSUME host'.at \in {"off"} \union Calling \union Offering, host'.at \in Calling => J' \in Jobs,
         ~ host'.guarded
  PROVE  HostInv'
  BY DEF HostInv, Calling, Offering, Queueing, Running, Holding

-----------------------------------------------------------------------------
(* The API *)

LEMMA CancelledFacts ==
  ASSUME NEW data \in Database, NEW js
  PROVE  Cancelled(data, js) \in Database /\ Cancelled(data, js).busy = data.busy
<1> DEFINE a == [j \in Jobs |-> IF j \in js /\ data.auth[j] = "PENDING" THEN "CANCELLED" ELSE data.auth[j]]
<1>1. a \in [Jobs -> Auth]
  BY DEF Database, Auth
<1>2. Cancelled(data, js) = [data EXCEPT !.auth = a]
  BY DEF Cancelled
<1> HIDE DEF a
<1> QED
  BY <1>1, <1>2 DEF Database

\* Steps of the API that leave the host alone.
LEMMA ApiStep ==
  ASSUME Inv, ApiType', UNCHANGED <<receipt, wakes, requested, offered, job, current, watermark, marker>>,
         UNCHANGED <<installed, unit, host, faults>>, wants' \in [Jobs -> Releases],
         \A j \in Jobs : wants[j] # 0 => wants'[j] = wants[j],
         marker # None => db' = db /\ Drained'
  PROVE  Inv'
<1>0. TypeOK /\ JobsStay
  BY DEF Inv, JobsStay
<1>1. TypeOK'
  BY <1>0, TypeParts, TypeJoin DEF BridgeType, EngineType, HostType
<1>2. HostInv'
  BY <1>0, HostStays
<1> QED
  BY <1>0, <1>1, <1>2, QuietStep

\* A mutation ends while admission is open.
LEMMA CommitsKeep ==
  ASSUME Inv, NEW data \in Database, Commits(data), grant' = grant,
         wants' \in [Jobs -> Releases], \A j \in Jobs : wants[j] # 0 => wants'[j] = wants[j]
  PROVE  Inv'
<1>1. /\ admitted /\ db' = data /\ admitted' = FALSE /\ checked' = 0
      /\ UNCHANGED <<dispatch, receipt, wakes, requested, offered, job, current, watermark, marker>>
      /\ UNCHANGED <<installed, unit, host, faults>>
  BY DEF Commits, bridgeVars
<1>2. marker = None
  BY <1>1 DEF Inv, FenceInv, Drained
<1>3. ApiType'
  BY <1>1, TypeParts, BoundFacts DEF Inv, ApiType
<1> QED
  BY <1>1, <1>2, <1>3, ApiStep

LEMMA MutationKeeps ==
  ASSUME Inv, Mutate \/ Replace \/ \E j \in Asked : Authorize(j)
  PROVE  Inv'
<1>0. TypeOK /\ db \in Database /\ wants \in [Jobs -> Releases] /\ checked \in Releases
  BY TypeParts DEF Inv, ApiType, EngineType
<1>1. CASE Mutate
  <2>1. [db EXCEPT !.busy = ~@] \in Database
    BY <1>0 DEF Database
  <2> QED
    BY <1>0, <1>1, <2>1, CommitsKeep DEF Mutate
<1>2. CASE Replace
  BY <1>0, <1>2, CancelledFacts, CommitsKeep DEF Replace
<1>3. ASSUME NEW j \in Asked, Authorize(j) PROVE Inv'
  <2> DEFINE data == Cancelled(db, {k \in Jobs : grant[k] = "expired"})
             new == [data EXCEPT !.auth[j] = "PENDING"]
  <2>1. data \in Database /\ j \in Jobs
    BY <1>0, CancelledFacts, UpdatesAssumption
  <2>2. wants[j] \in {0, checked} /\ Commits(new) /\ wants' = [wants EXCEPT ![j] = checked] /\ grant' = grant
    BY <1>3 DEF Authorize
  <2>3. new \in Database
    <3> HIDE DEF data
    <3>1. data.auth \in [Jobs -> Auth]
      BY <2>1 DEF Database
    <3>2. [data.auth EXCEPT ![j] = "PENDING"] \in [Jobs -> Auth]
      BY <2>1, <3>1 DEF Auth
    <3>3. new = [data EXCEPT !.auth = [data.auth EXCEPT ![j] = "PENDING"]]
      OBVIOUS
    <3> QED
      BY <2>1, <3>2, <3>3 DEF Database
  <2> HIDE DEF new
  <2>4. wants' \in [Jobs -> Releases] /\ \A k \in Jobs : wants[k] # 0 => wants'[k] = wants[k]
    BY <1>0, <2>1, <2>2
  <2> QED
    BY <2>2, <2>3, <2>4, CommitsKeep
<1> QED
  BY <1>1, <1>2, <1>3

LEMMA RequestKeeps ==
  ASSUME Inv, \/ Enter \/ Leave \/ Ask \/ DispatchCommits \/ DispatchLost
              \/ \E j \in Asked, how \in {"signed_out", "expired"} : Lapse(j, how)
              \/ \E j \in Asked : DispatchCancels(j)
  PROVE  Inv'
<1>0. TypeOK /\ ApiType /\ db \in Database /\ dispatch \in DispatchRow
  BY TypeParts DEF Inv, ApiType
<1>1. /\ UNCHANGED <<receipt, wakes, requested, offered, job, current, watermark, wants, marker>>
      /\ UNCHANGED <<installed, unit, host, faults>>
  BY DEF Enter, Leave, Ask, DispatchCommits, DispatchLost, Lapse, DispatchCancels, bridgeVars, engineVars
<1>2. NoDispatch \in DispatchRow
  BY DEF NoDispatch, DispatchRow
<1>3. ApiType' /\ (marker # None => db' = db /\ Drained')
  <2>1. marker # None => Drained
    BY DEF Inv, FenceInv
  <2>2. CASE Enter \/ Leave \/ DispatchLost
    BY <1>0, <1>2, <2>1, <2>2, BoundFacts DEF Enter, Enters, Leave, DispatchLost, ApiType, Drained
  <2>3. CASE DispatchCommits
    <3> DEFINE a == IF db.auth[dispatch.job] = "PENDING" THEN Recorded(dispatch.at) ELSE db.auth[dispatch.job]
               b == [db.auth EXCEPT ![dispatch.job] = a]
    <3>1. db' = [db EXCEPT !.auth = b] /\ dispatch' = NoDispatch /\ UNCHANGED <<grant, admitted, checked>>
      BY <2>3 DEF DispatchCommits
    <3>2. b \in [Jobs -> Auth]
      BY <1>0 DEF Database, Auth, Recorded
    <3> HIDE DEF a, b
    <3>3. db' \in Database
      BY <1>0, <3>1, <3>2 DEF Database
    <3>4. dispatch # NoDispatch
      BY <2>3 DEF DispatchCommits, NoDispatch
    <3> QED
      BY <1>0, <1>2, <2>1, <3>1, <3>3, <3>4 DEF ApiType, Drained
  <2>4. ASSUME NEW j \in Asked, NEW how \in {"signed_out", "expired"}, Lapse(j, how)
        PROVE  ApiType' /\ (marker # None => db' = db /\ Drained')
    BY <1>0, <2>1, <2>4 DEF Lapse, ApiType, Drained
  <2>5. ASSUME NEW j \in Asked, DispatchCancels(j)
        PROVE  ApiType' /\ (marker # None => db' = db /\ Drained')
    BY <1>0, <2>5, CancelledFacts DEF DispatchCancels, Enters, ApiType
  <2>6. CASE Ask
    BY <1>0, <2>1, <2>6, TypeParts DEF Ask, ApiType, BridgeType, Drained
  <2> QED
    BY <2>2, <2>3, <2>4, <2>5, <2>6
<1>4. wants' \in [Jobs -> Releases] /\ \A j \in Jobs : wants[j] # 0 => wants'[j] = wants[j]
  BY <1>0, <1>1, TypeParts DEF EngineType
<1> QED
  BY <1>1, <1>3, <1>4, ApiStep

-----------------------------------------------------------------------------
(* Steps of the host that leave the journals *)

LEMMA HostStep ==
  ASSUME Inv, ApiType', BridgeType', HostType', HostInv', watermark' \in Releases,
         UNCHANGED <<job, current, wants, marker, installed, db, admitted>>,
         dispatch' = NoDispatch \/ marker = None \/ UNCHANGED dispatch,
         UNCHANGED requested \/ ~ Open(requested)
  PROVE  Inv'
<1>1. TypeOK'
  BY TypeParts, TypeJoin DEF Inv, EngineType
<1>2. marker # None => db' = db /\ Drained'
  BY DEF Inv, FenceInv, Drained
<1> QED
  BY <1>1, <1>2, QuietStep DEF JobsStay

LEMMA DispatchSendsKeeps ==
  ASSUME Inv, NEW j \in Asked, DispatchSends(j)
  PROVE  Inv'
<1>0. /\ TypeOK /\ j \in Jobs /\ marker = None
      /\ UNCHANGED <<db, grant, admitted, checked, receipt, wakes, requested, offered, unit, faults>>
      /\ UNCHANGED <<job, current, watermark, wants, marker, installed>>
  BY UpdatesAssumption DEF Inv, DispatchSends, Enters, bridgeVars, engineVars
<1>1. host' \in HostRow /\ host'.at = "accept" /\ host'.job = j /\ host'.guarded = FALSE
  BY <1>0, StartFacts DEF DispatchSends, Stages, Calling
<1>2. dispatch' \in DispatchRow
  BY <1>0 DEF DispatchSends, DispatchRow
<1>3. HostInv'
  BY <1>0, <1>1, HostLeaves DEF Calling, J
<1>4. ApiType' /\ BridgeType' /\ HostType' /\ watermark' \in Releases
  BY <1>0, <1>1, <1>2, TypeParts DEF ApiType, BridgeType, HostType, EngineType
<1> QED
  BY <1>0, <1>3, <1>4, HostStep

\* The bridge ends its call.
LEMMA AnswersFacts ==
  ASSUME TypeOK, NEW a \in {"accepted", "refused", "error"}, Answers(a)
  PROVE  /\ host' = Off /\ HostInv' /\ host' \in HostRow
         /\ dispatch' \in DispatchRow /\ (dispatch = NoDispatch => dispatch' = NoDispatch)
<1>1. dispatch \in DispatchRow
  BY TypeParts DEF ApiType
<1>2. host' = Off
  BY DEF Answers
<1>3. HostInv'
  BY <1>2, OffFacts, HostLeaves DEF Calling
<1>4. dispatch' \in DispatchRow /\ (dispatch = NoDispatch => dispatch' = NoDispatch)
  BY <1>1 DEF Answers, DispatchRow, NoDispatch
<1> QED
  BY <1>2, <1>3, <1>4, OffFacts

LEMMA CallKeeps ==
  ASSUME Inv, Call
  PROVE  Inv'
<1>0. /\ TypeOK /\ ApiType /\ BridgeType /\ HostType /\ host.at \in Calling
      /\ UNCHANGED <<db, grant, admitted, checked, offered, faults>>
      /\ UNCHANGED <<job, current, watermark, wants, marker, installed>>
  BY TypeParts DEF Inv, Call, CallAccepts, CallPublishes, CallWakes, Calling, engineVars
<1>1. J \in Jobs /\ ~ host.guarded
  BY <1>0 DEF Inv, HostInv, Calling, Offering, Holding
<1>2. ASSUME NEW at \in Calling, Goes(at), UNCHANGED dispatch
      PROVE  HostInv' /\ host' \in HostRow /\ dispatch' \in DispatchRow
  <2>1. host' \in HostRow /\ host'.at = at /\ host'.job = host.job /\ host'.guarded = host.guarded
    BY <1>0, <1>2, GoesFacts DEF Stages
  <2>2. HostInv'
    BY <1>1, <1>2, <2>1, HostLeaves DEF J, Calling
  <2> QED
    BY <1>0, <1>2, <2>1, <2>2 DEF ApiType
<1>3. /\ HostInv' /\ host' \in HostRow /\ dispatch' \in DispatchRow
      /\ dispatch = NoDispatch => dispatch' = NoDispatch
  BY <1>0, <1>2, AnswersFacts DEF Call, CallAccepts, CallPublishes, CallWakes, Calling
<1>4. BridgeType' /\ unit' \in UnitRow /\ (UNCHANGED requested \/ ~ Open(requested))
  <2>1. CASE CallAccepts
    BY <1>0, <1>1, <2>1 DEF CallAccepts, BridgeType, HostType, J
  <2>2. CASE CallPublishes
    <3>1. /\ UNCHANGED <<receipt, wakes, unit>>
          /\ requested' = requested \/ (requested' = J /\ ~ (requested # J /\ Open(requested)))
      BY <2>2 DEF CallPublishes, J
    <3> QED
      BY <1>0, <1>1, <3>1 DEF BridgeType, HostType
  <2>3. CASE CallWakes
    <3>1. /\ UNCHANGED requested /\ unit' \in {unit, [unit EXCEPT !.due = TRUE]}
          /\ receipt' \in {receipt, [receipt EXCEPT ![J] = "FAILED"]}
      BY <2>3 DEF CallWakes, Wakes, J
    <3>2. wakes' \in [Jobs -> 0 .. MaxWakes]
      <4>1. CASE wakes' = wakes
        BY <1>0, <4>1 DEF BridgeType
      <4>2. CASE wakes[J] < MaxWakes /\ wakes' = [wakes EXCEPT ![J] = @ + 1]
        <5>1. wakes[J] \in 0 .. MaxWakes
          BY <1>0, <1>1 DEF BridgeType
        <5>2. wakes[J] + 1 \in 0 .. MaxWakes
          BY <4>2, <5>1, BoundFacts
        <5> QED
          BY <1>0, <4>2, <5>2 DEF BridgeType
      <4> QED
        BY <2>3, <4>1, <4>2 DEF CallWakes, J
    <3> QED
      BY <1>0, <1>1, <3>1, <3>2, UnitFacts DEF BridgeType, HostType
  <2> QED
    BY <2>1, <2>2, <2>3 DEF Call
<1>5. ApiType' /\ HostType' /\ watermark' \in Releases
  BY <1>0, <1>3, <1>4, TypeParts DEF ApiType, HostType, EngineType
<1>6. dispatch' = NoDispatch \/ marker = None \/ UNCHANGED dispatch
  BY <1>3 DEF Inv, FenceInv, Drained
<1> QED
  BY <1>0, <1>3, <1>4, <1>5, <1>6, HostStep

LEMMA OfferKeeps ==
  ASSUME Inv, Offer
  PROVE  Inv'
<1>0. /\ TypeOK /\ UNCHANGED <<db, grant, admitted, checked, dispatch, receipt, wakes, requested, unit, faults>>
      /\ UNCHANGED <<job, current, wants, marker, installed>>
  BY DEF Inv, Offer, OfferBegins, OfferVerifies, OfferPublishes, OfferFails, apiVars, bridgeVars, engineVars
<1>1. /\ offered' \in {offered, watermark} /\ watermark' \in {watermark} \union Releases
  BY DEF Offer, OfferBegins, OfferVerifies, OfferPublishes, OfferFails, bridgeVars, engineVars
<1>2. host' \in HostRow /\ HostInv'
  <2>1. CASE host' = Off
    BY <2>1, OffFacts, HostLeaves DEF Calling
  <2>2. CASE host' = [Off EXCEPT !.proc = "offer", !.at = "examine"]
    <3>1. host' \in HostRow /\ host'.at = "examine" /\ host'.guarded = FALSE
      BY <2>2 DEF Off, HostRow, Stages, Offering
    <3> QED
      BY <3>1, HostLeaves DEF Offering, Calling
  <2>3. CASE host.at = "examine" /\ Goes("present")
    <3>1. host' \in HostRow /\ host'.at = "present" /\ host'.guarded = host.guarded
      BY <1>0, <2>3, GoesFacts DEF Stages, Offering
    <3>2. ~ host.guarded
      BY <2>3 DEF Inv, HostInv, Holding
    <3> QED
      BY <3>1, <3>2, HostLeaves DEF Offering, Calling
  <2> QED
    BY <2>1, <2>2, <2>3 DEF Offer, OfferBegins, OfferVerifies, OfferPublishes, OfferFails
<1>3. ApiType' /\ BridgeType' /\ HostType' /\ watermark' \in Releases
  BY <1>0, <1>1, <1>2, TypeParts DEF ApiType, BridgeType, HostType, EngineType
<1> QED
  BY <1>0, <1>2, <1>3, HostStep

\* Neither pointer is of another open job: then no other job is in hand.
LEMMA NoneHeld ==
  ASSUME Inv, NEW j \in Jobs, ~ Open(current), requested # j => ~ Open(requested),
         NEW k \in Jobs, Held(k)
  PROVE  k = j
<1>1. Chosen(k) /\ Open(k)
  BY HeldOpen DEF Inv, PointerInv
<1> QED
  BY <1>1 DEF Chosen

LEMMA CliQueueKeeps ==
  ASSUME Inv, NEW j \in Queued, NEW r \in Releases, CliQueue(j, r)
  PROVE  Inv'
<1>0. /\ TypeOK /\ j \in Jobs
      /\ UNCHANGED <<db, grant, admitted, checked, dispatch, receipt, wakes, requested, offered, faults>>
      /\ UNCHANGED <<job, current, watermark, marker, installed>>
      /\ wants[j] \in {0, r} /\ wants' = [wants EXCEPT ![j] = r]
      /\ requested # j => ~ Open(requested)
  BY UpdatesAssumption DEF Inv, CliQueue, apiVars, bridgeVars
<1>1. wants' \in [Jobs -> Releases] /\ JobsStay
  BY <1>0, TypeParts DEF EngineType, JobsStay
<1>2. current \in Jobs \union {None}
  BY <1>0, TypeParts DEF EngineType
<1>3. ASSUME NEW at \in {"stage", "point"}, ~ Open(current), UNCHANGED unit,
             host' = [Off EXCEPT !.proc = "cli", !.at = at, !.job = j],
             job[j].phase = IF at = "stage" THEN "none" ELSE "QUEUED"
      PROVE  HostInv' /\ host' \in HostRow /\ unit' \in UnitRow
  <2>1. host' \in HostRow /\ host'.at = at /\ host'.job = j /\ host'.guarded = FALSE
    BY <1>0, <1>3, StartFacts DEF Stages, Queueing
  <2>2. ASSUME NEW k \in Jobs, Held(k)' PROVE k = j
    BY <1>0, <1>1, <1>2, <1>3, <2>2, HeldStays, NoneHeld
  <2>3. HostInv'
    BY <1>0, <1>3, <2>1, <2>2 DEF HostInv, J, Phase, Queueing, Running, Holding
  <2> QED
    BY <1>0, <1>3, <2>1, <2>3, TypeParts DEF HostType
<1>4. ASSUME UNCHANGED host, unit' \in {unit, [unit EXCEPT !.due = TRUE]}
      PROVE  HostInv' /\ host' \in HostRow /\ unit' \in UnitRow
  BY <1>0, <1>1, <1>4, HostStays, TypeParts, UnitFacts DEF HostType
<1>5. CASE HostInv' /\ host' \in HostRow /\ unit' \in UnitRow
  <2>1. TypeOK'
    BY <1>0, <1>1, <1>5, TypeParts, TypeJoin DEF ApiType, BridgeType, HostType, EngineType
  <2>2. marker # None => db' = db /\ Drained'
    BY <1>0 DEF Inv, FenceInv, Drained
  <2> QED
    BY <1>0, <1>1, <1>5, <2>1, <2>2, QuietStep
<1> QED
  BY <1>3, <1>4, <1>5 DEF CliQueue, Wakes

\* The service begins with a job that may be worked on.
LEMMA LoadStarts ==
  ASSUME TypeOK, NEW j \in Jobs, host' = Serves(j), UNCHANGED <<job, current, marker, requested>>,
         HasJob(j), Chosen(j), \A k \in Jobs : Held(k) => k = j
  PROVE  HostInv' /\ host' \in HostRow
<1>1. host' = [Off EXCEPT !.proc = "resume", !.at = "load", !.job = j]
  BY UpdatesAssumption DEF Serves
<1>2. host' \in HostRow /\ host'.at = "load" /\ host'.job = j /\ host'.guarded = FALSE
  BY <1>1, StartFacts DEF Stages
<1>3. HasJob(j)' /\ Chosen(j)' /\ \A k \in Jobs : Held(k)' => k = j
  BY DEF HasJob, Chosen, CurrentDone, Held
<1>4. AtPhase("load", job'[j].phase) /\ AtFiles("load", job'[j], wants'[j], installed')
  BY DEF AtPhase, AtFiles
<1> QED
  BY <1>2, <1>3, <1>4 DEF HostInv, J, Phase, Queueing, Running, Holding

\* It begins with the current job, if there is one.
LEMMA CurrentStarts ==
  ASSUME Inv, host' = Serves(current), UNCHANGED <<job, current, marker, requested>>,
         \A k \in Jobs : Held(k) => k = current
  PROVE  HostInv' /\ host' \in HostRow
<1>1. current \in Jobs \union {None} /\ TypeOK
  BY TypeParts DEF Inv, EngineType
<1>2. CASE current = None
  BY <1>2, OffFacts, HostLeaves DEF Serves, Calling
<1>3. CASE current # None
  <2>1. HasJob(current) /\ Chosen(current) /\ current \in Jobs
    BY <1>1, <1>3 DEF Inv, PointerInv, Chosen
  <2> QED
    BY <1>1, <2>1, LoadStarts
<1> QED
  BY <1>2, <1>3

LEMMA ServiceStartsKeeps ==
  ASSUME Inv, ServiceStarts
  PROVE  Inv'
<1>0. /\ TypeOK /\ BridgeType /\ HostType /\ PointerInv
      /\ UNCHANGED <<db, grant, admitted, checked, dispatch, wakes, requested, offered, faults>>
      /\ UNCHANGED <<job, current, watermark, wants, marker, installed>>
  BY TypeParts DEF Inv, ServiceStarts, apiVars, engineVars
<1>1. requested \in Jobs \union {None}
  BY <1>0 DEF BridgeType
<1>2. \A k \in Jobs : Held(k) => Chosen(k) /\ Open(k) /\ HasJob(k)
  BY <1>0, HeldOpen DEF PointerInv, Held
<1>3. unit' \in UnitRow
  <2>1. (host' # Off) \in BOOLEAN
    OBVIOUS
  <2> QED
    BY <1>0, <2>1, AttemptFacts DEF HostType, ServiceStarts
<1>4. CASE /\ requested # None /\ HasJob(requested) /\ Open(requested)
           /\ current # requested => ~ Open(current)
           /\ host' = Serves(requested) /\ UNCHANGED receipt
  <2>1. Chosen(requested)
    BY <1>0, <1>4, DoneFacts DEF Chosen
  <2>2. \A k \in Jobs : Held(k) => k = requested
    BY <1>2, <1>4 DEF Chosen
  <2>3. HostInv' /\ host' \in HostRow
    BY <1>0, <1>1, <1>4, <2>1, <2>2, LoadStarts
  <2>4. ApiType' /\ BridgeType' /\ HostType' /\ watermark' \in Releases
    BY <1>0, <1>4, <1>3, <2>3, TypeParts DEF ApiType, BridgeType, HostType, EngineType
  <2> QED
    BY <1>0, <2>3, <2>4, HostStep
<1>5. CASE /\ requested # None /\ ~ HasJob(requested) /\ ~ Open(current) /\ job[requested].phase = "none"
           /\ host' = [Off EXCEPT !.proc = "resume", !.at = "stage", !.job = requested]
           /\ UNCHANGED receipt
  <2>1. host' \in HostRow /\ host'.at = "stage" /\ host'.job = requested /\ host'.guarded = FALSE
    BY <1>1, <1>5, StartFacts DEF Stages, Queueing
  <2>2. \A k \in Jobs : Held(k)' => k = requested
    BY <1>0, <1>1, <1>5, NoneHeld DEF Held, HasJob
  <2>3. HostInv'
    BY <1>0, <1>1, <1>5, <2>1, <2>2 DEF HostInv, J, Phase, Queueing, Running, Holding
  <2>4. ApiType' /\ BridgeType' /\ HostType' /\ watermark' \in Releases
    BY <1>0, <1>5, <1>3, <2>1, TypeParts DEF ApiType, BridgeType, HostType, EngineType
  <2> QED
    BY <1>0, <2>3, <2>4, HostStep
<1>6. CASE /\ (requested # None /\ ~ HasJob(requested)) \/ ~ Open(requested)
           /\ receipt' \in {receipt, [receipt EXCEPT ![requested] = "FAILED"]}
           /\ host' = Serves(current)
  <2>1. \A k \in Jobs : Held(k) => k = current
    BY <1>2, <1>6 DEF Chosen
  <2>2. HostInv' /\ host' \in HostRow
    BY <1>0, <1>6, <2>1, CurrentStarts
  <2>3. receipt' \in [Jobs -> {"none", "REQUESTED", "FAILED"}]
    BY <1>0, <1>6 DEF BridgeType
  <2>4. ApiType' /\ BridgeType' /\ HostType' /\ watermark' \in Releases
    BY <1>0, <1>3, <2>2, <2>3, TypeParts DEF ApiType, BridgeType, HostType, EngineType
  <2> QED
    BY <1>0, <2>2, <2>4, HostStep
<1> QED
  BY <1>4, <1>5, <1>6 DEF ServiceStarts, Conflict, Open

LEMMA ServiceWaitsKeeps ==
  ASSUME Inv, ServiceFails \/ ServiceRefused \/ IntervalPasses
  PROVE  Inv'
<1>0. /\ TypeOK /\ HostType
      /\ UNCHANGED <<db, grant, admitted, checked, dispatch, receipt, wakes, requested, offered>>
      /\ UNCHANGED <<job, current, watermark, wants, marker, installed, host, faults>>
  BY TypeParts DEF Inv, ServiceFails, ServiceRefused, IntervalPasses, apiVars, bridgeVars, engineVars
<1>1. unit' \in UnitRow
  <2>1. CASE ServiceFails
    BY <1>0, <2>1, AttemptFacts DEF HostType, ServiceFails
  <2>2. CASE ServiceRefused
    BY <2>2, BoundFacts DEF ServiceRefused, UnitRow
  <2>3. CASE IntervalPasses
    BY <1>0, <2>3, BoundFacts DEF HostType, IntervalPasses, UnitRow
  <2> QED
    BY <2>1, <2>2, <2>3
<1>2. HostInv'
  BY <1>0, HostStays DEF JobsStay
<1>3. ApiType' /\ BridgeType' /\ HostType' /\ watermark' \in Releases
  BY <1>0, <1>1, TypeParts DEF ApiType, BridgeType, HostType, EngineType
<1> QED
  BY <1>0, <1>2, <1>3, HostStep

-----------------------------------------------------------------------------
(* Steps that write to one job *)

\* Beside the only job in hand, the others rest.
LEMMA OthersRest ==
  ASSUME Inv, NEW j \in Jobs, \A k \in Jobs : Held(k) => k = j,
         NEW r \in Job, job' = [job EXCEPT ![j] = r], marker' \in {None, j}
  PROVE  /\ job'[j] = r
         /\ \A k \in Jobs : Held(k)' => k = j
         /\ \A k \in Jobs \ {j} : /\ job'[k] = job[k]
                                  /\ job[k].phase \notin Closed \union Decided \union {"RECOVERY_REQUIRED"}
<1>0. job \in [Jobs -> Job] /\ j # None
  BY TypeParts, UpdatesAssumption DEF Inv, EngineType
<1>1. job'[j] = r /\ \A k \in Jobs \ {j} : job'[k] = job[k]
  BY <1>0
<1>2. ASSUME NEW k \in Jobs, k # j, Held(k)' PROVE FALSE
  <2>1. job'[k] = job[k] /\ marker' # k
    BY <1>0, <1>1, <1>2, UpdatesAssumption
  <2>2. Held(k)
    BY <1>2, <2>1 DEF Held, HasJob
  <2> QED
    BY <1>2, <2>2
<1>3. ASSUME NEW k \in Jobs, k # j
      PROVE  job[k].phase \notin Closed \union Decided \union {"RECOVERY_REQUIRED"}
  <2>1. ~ Held(k)
    BY <1>3
  <2> QED
    BY <2>1 DEF Held, HasJob, Closed, Uncertain, Decided, Finished
<1> QED
  BY <1>1, <1>2, <1>3

LEMMA OneJobStep ==
  ASSUME Inv, TypeOK', HostInv', NEW j \in Jobs, \A k \in Jobs : Held(k) => k = j,
         NEW r \in Job, job' = [job EXCEPT ![j] = r], UNCHANGED wants,
         current' # None => HasJob(current)', marker' \in {None, j},
         marker' = j => Held(j)' /\ Drained', Held(j)' => Chosen(j)',
         r.phase \in Closed => marker' = j,
         installed' = Mixed => marker' = j /\ r.phase \in Uncertain \union {"RECOVERY_REQUIRED"},
         Sound(r, wants[j], db')
  PROVE  Inv'
<1>1. /\ job'[j] = r
      /\ \A k \in Jobs : Held(k)' => k = j
      /\ \A k \in Jobs \ {j} : /\ job'[k] = job[k]
                               /\ job[k].phase \notin Closed \union Decided \union {"RECOVERY_REQUIRED"}
  BY OthersRest
<1>2. j # None
  BY UpdatesAssumption
<1>3. PointerInv'
  <2>1. marker' # None => Held(marker)'
    <3>1. ASSUME marker' # None PROVE Held(marker)'
      <4>1. marker' = j /\ Held(j)'
        BY <3>1
      <4> QED
        BY <4>1 DEF Held, HasJob
    <3> QED
      BY <3>1
  <2>2. \A k, l \in Jobs : Held(k)' /\ Held(l)' => k = l
    BY <1>1
  <2>3. ASSUME NEW k \in Jobs, Held(k)' PROVE Chosen(k)'
    <3>1. k = j
      BY <1>1, <2>3
    <3> QED
      BY <2>3, <3>1
  <2> QED
    BY <2>1, <2>2, <2>3 DEF PointerInv
<1>4. JournalInv'
  <2>1. ASSUME NEW k \in Jobs, k # j PROVE Sound(job'[k], wants'[k], db')
    BY <1>1, <2>1 DEF Sound, Closed, Decided
  <2> QED
    BY <1>1, <2>1 DEF JournalInv
<1>5. FenceInv'
  <2>1. ASSUME NEW k \in Jobs, job'[k].phase \in Closed PROVE marker' = k
    BY <1>1, <2>1
  <2>2. installed' = Mixed => marker' # None /\ job'[marker'].phase \in Uncertain \union {"RECOVERY_REQUIRED"}
    BY <1>1, <1>2
  <2>3. marker' # None => Drained'
    BY <1>2
  <2> QED
    BY <2>1, <2>2, <2>3 DEF FenceInv
<1> QED
  BY <1>3, <1>4, <1>5 DEF Inv

-----------------------------------------------------------------------------
(* Queueing *)

\* While a job is queued no other is in hand.
LEMMA QueueingFacts ==
  ASSUME Inv, host.at \in Queueing
  PROVE  \E j \in Jobs : /\ j = host.job /\ j # None /\ \A k \in Jobs : Held(k) => k = j
                         /\ marker \in {None, j} /\ (marker = j => Held(j) /\ Drained)
                         /\ ~ host.guarded
                         /\ job[j].phase = CASE host.at = "stage" -> "none"
                                             [] host.at = "verify" -> "made"
                                             [] host.at = "point" -> "QUEUED"
<1>1. J \in Jobs /\ \A k \in Jobs : Held(k) => k = J
  BY DEF Inv, HostInv, Offering, Queueing
<1>2. marker \in Jobs \union {None}
  BY TypeParts DEF Inv, EngineType
<1>3. ~ host.guarded
  BY DEF Inv, HostInv, Queueing, Holding
<1>4. Phase = CASE host.at = "stage" -> "none" [] host.at = "verify" -> "made"
                [] host.at = "point" -> "QUEUED"
  BY DEF Inv, HostInv, Queueing
<1>5. marker \in {None, J} /\ (marker = J => Held(J) /\ Drained) /\ J # None
  BY <1>1, <1>2, UpdatesAssumption DEF Inv, PointerInv, FenceInv
<1> QED
  BY <1>1, <1>3, <1>4, <1>5 DEF J, Phase

\* The job gets another phase, neither in hand before nor after.
LEMMA QueueStep ==
  ASSUME Inv, NEW j \in Jobs, \A k \in Jobs : Held(k) => k = j, marker = None,
         job[j].phase \in {"none", "made"}, NEW r \in Job, job' = [job EXCEPT ![j] = r],
         r.phase \in {"none", "made", "QUEUED"}, receipt' \in [Jobs -> {"none", "REQUESTED", "FAILED"}],
         UNCHANGED <<db, grant, admitted, checked, dispatch, wakes, requested, offered, faults>>,
         UNCHANGED <<current, wants, marker, installed>>,
         watermark' \in Releases, unit' \in UnitRow, host' \in HostRow, HostInv'
  PROVE  Inv'
<1>0. TypeOK /\ j # None
  BY UpdatesAssumption DEF Inv
<1>1. TypeOK'
  BY <1>0, TypeParts, TypeJoin DEF ApiType, BridgeType, HostType, EngineType
<1>2. job'[j] = r /\ \A k \in Jobs \ {j} : job'[k] = job[k]
  BY OthersRest
<1>3. ~ Held(j)'
  BY <1>0, <1>2 DEF Held, HasJob
<1>4. current' # None => HasJob(current)'
  <2>1. current # None => current \in Jobs /\ current # j /\ HasJob(current)
    BY <1>0, TypeParts DEF Inv, PointerInv, HasJob, EngineType
  <2> QED
    BY <1>2, <2>1 DEF HasJob
<1>5. r.phase \notin Closed /\ Sound(r, wants[j], db')
  BY DEF Sound, Closed, Uncertain
<1>6. installed' # Mixed
  BY DEF Inv, FenceInv
<1> QED
  BY <1>0, <1>1, <1>3, <1>4, <1>5, <1>6, OneJobStep

LEMMA QueueStagesKeeps ==
  ASSUME Inv, QueueStages
  PROVE  Inv'
<1>0. /\ TypeOK /\ host.at = "stage" /\ host.at \in Queueing
      /\ UNCHANGED <<db, grant, admitted, checked, dispatch, receipt, wakes, requested, offered, unit, faults>>
      /\ UNCHANGED <<current, watermark, wants, marker, installed>>
  BY DEF Inv, QueueStages, Queueing, apiVars, bridgeVars
<1>1. PICK j \in Jobs : /\ j = host.job /\ j # None /\ \A k \in Jobs : Held(k) => k = j
                        /\ marker \in {None, j} /\ (marker = j => Held(j) /\ Drained)
                        /\ ~ host.guarded /\ job[j].phase = "none"
  BY <1>0, QueueingFacts
<1>2. marker = None
  BY <1>1 DEF Held, HasJob
<1>3. PICK r \in Job : job' = [job EXCEPT ![j] = r] /\ r.phase = "made"
  BY <1>0, <1>1, WriteFacts DEF QueueStages
<1>4. host' \in HostRow /\ host'.at = "verify" /\ host'.job = j /\ ~ host'.guarded
  BY <1>0, <1>1, GoesFacts DEF QueueStages, Stages, Queueing
<1>5. job'[j].phase = "made" /\ \A k \in Jobs : Held(k)' => k = j
  BY <1>0, <1>1, <1>3, OthersRest
<1>6. HostInv'
  BY <1>4, <1>5 DEF HostInv, J, Phase, Queueing, Running, Holding
<1> QED
  BY <1>0, <1>1, <1>2, <1>3, <1>4, <1>6, TypeParts, QueueStep DEF BridgeType, EngineType, HostType

LEMMA QueueVerifiesKeeps ==
  ASSUME Inv, QueueVerifies
  PROVE  Inv'
<1>0. /\ TypeOK /\ host.at = "verify" /\ host.at \in Queueing /\ installed # Mixed
      /\ UNCHANGED <<db, grant, admitted, checked, dispatch, receipt, wakes, requested, offered, unit, faults>>
      /\ UNCHANGED <<current, wants, marker, installed>>
  BY DEF Inv, QueueVerifies, Queueing, apiVars, bridgeVars
<1>1. PICK j \in Jobs : /\ j = host.job /\ j # None /\ \A k \in Jobs : Held(k) => k = j
                        /\ marker \in {None, j} /\ (marker = j => Held(j) /\ Drained)
                        /\ ~ host.guarded /\ job[j].phase = "made"
  BY <1>0, QueueingFacts
<1>2. marker = None
  BY <1>1 DEF Held, HasJob
<1> DEFINE r == [NoJob EXCEPT !.phase = "QUEUED", !.old = installed]
<1>3. r \in Job /\ r.phase = "QUEUED"
  <2>1. installed \in Releases /\ 0 \in 0 .. MaxResumes
    BY <1>0, TypeParts, BoundFacts DEF EngineType
  <2> QED
    BY <2>1 DEF NoJob, Job, PHASES
<1>4. job' = [job EXCEPT ![j] = r] /\ watermark' = wants[j]
  BY <1>1 DEF QueueVerifies
<1> HIDE DEF r
<1>5. host' \in HostRow /\ host'.at = "point" /\ host'.job = j /\ ~ host'.guarded
  BY <1>0, <1>1, GoesFacts DEF QueueVerifies, Stages, Queueing
<1>6. job'[j].phase = "QUEUED" /\ \A k \in Jobs : Held(k)' => k = j
  BY <1>0, <1>1, <1>3, <1>4, OthersRest
<1>7. HostInv'
  BY <1>5, <1>6 DEF HostInv, J, Phase, Queueing, Running, Holding
<1>8. watermark' \in Releases
  BY <1>0, <1>4, JobFacts
<1> QED
  BY <1>0, <1>1, <1>2, <1>3, <1>4, <1>5, <1>7, <1>8, TypeParts, QueueStep DEF BridgeType, HostType

LEMMA QueueFailsKeeps ==
  ASSUME Inv, QueueFails
  PROVE  Inv'
<1>0. /\ TypeOK /\ host.at = "verify" /\ host.at \in Queueing
      /\ UNCHANGED <<db, grant, admitted, checked, dispatch, wakes, requested, offered, faults>>
      /\ UNCHANGED <<current, wants, marker, installed>>
  BY DEF Inv, QueueFails, Queueing, apiVars
<1>1. PICK j \in Jobs : /\ j = host.job /\ j # None /\ \A k \in Jobs : Held(k) => k = j
                        /\ marker \in {None, j} /\ (marker = j => Held(j) /\ Drained)
                        /\ ~ host.guarded /\ job[j].phase = "made"
  BY <1>0, QueueingFacts
<1>2. marker = None /\ ~ Held(j)
  BY <1>1 DEF Held, HasJob
<1>3. PICK r \in Job : job' = [job EXCEPT ![j] = r] /\ r.phase = "none"
  BY <1>0, <1>1, WriteFacts DEF QueueFails
<1>4. /\ job'[j].phase = "none" /\ \A k \in Jobs : Held(k)' => k = j
      /\ \A k \in Jobs \ {j} : job'[k] = job[k]
  BY <1>0, <1>1, <1>3, OthersRest
<1>5. \A k \in Jobs : ~ Held(k)'
  BY <1>4 DEF Held, HasJob
<1>6. /\ receipt' \in [Jobs -> {"none", "REQUESTED", "FAILED"}] /\ watermark' \in Releases
      /\ unit' \in UnitRow /\ host' \in {Off, Serves(current)}
  <2>1. /\ receipt' \in {receipt, [receipt EXCEPT ![j] = "FAILED"]} /\ unit' \in {unit, [unit EXCEPT !.due = host' # Off]}
        /\ watermark' \in {watermark, wants[j]} /\ host' \in {Off, Serves(current)}
    BY <1>1 DEF QueueFails
  <2> QED
    <3>1. receipt' \in [Jobs -> {"none", "REQUESTED", "FAILED"}]
      BY <1>0, <1>1, <2>1, TypeParts DEF BridgeType
    <3>2. watermark' \in Releases
      BY <1>0, <1>1, <2>1, TypeParts, JobFacts DEF EngineType
    <3>3. unit' \in UnitRow
      <4>1. (host' # Off) \in BOOLEAN /\ unit \in UnitRow
        BY <1>0, TypeParts DEF HostType
      <4> QED
        BY <2>1, <4>1, UnitFacts
    <3> QED
      BY <2>1, <3>1, <3>2, <3>3
<1>7. HostInv' /\ host' \in HostRow
  <2>1. CASE host' = Off
    BY <2>1, OffFacts, HostLeaves DEF Calling
  <2>2. CASE host' # Off
    <3>1. current \in Jobs /\ current # j /\ HasJob(current)
      BY <1>0, <1>1, <1>6, <2>2, TypeParts DEF Serves, Inv, PointerInv, HasJob, EngineType
    <3>2. PICK c \in Jobs : c = current
      BY <3>1
    <3>3. host' = [Off EXCEPT !.proc = "resume", !.at = "load", !.job = c]
      BY <1>6, <2>2, <3>2 DEF Serves
    <3>4. host' \in HostRow /\ host'.at = "load" /\ host'.job = c /\ host'.guarded = FALSE
      BY <3>3, StartFacts DEF Stages
    <3>5. HasJob(c)' /\ Chosen(c)'
      BY <1>0, <1>4, <3>1, <3>2 DEF HasJob, Chosen
    <3>6. AtPhase("load", job'[c].phase) /\ AtFiles("load", job'[c], wants'[c], installed')
      BY DEF AtPhase, AtFiles
    <3> QED
      BY <1>5, <3>4, <3>5, <3>6 DEF HostInv, J, Phase, Queueing, Running, Holding
  <2> QED
    BY <2>1, <2>2
<1> QED
  BY <1>0, <1>1, <1>2, <1>3, <1>6, <1>7, QueueStep

LEMMA QueuePointsKeeps ==
  ASSUME Inv, QueuePoints
  PROVE  Inv'
<1>0. /\ TypeOK /\ host.at = "point" /\ host.at \in Queueing
      /\ UNCHANGED <<db, grant, admitted, checked, dispatch, receipt, wakes, requested, offered, faults>>
      /\ UNCHANGED <<job, watermark, wants, marker, installed>>
  BY DEF Inv, QueuePoints, Queueing, apiVars, bridgeVars
<1>1. PICK j \in Jobs : /\ j = host.job /\ j # None /\ \A k \in Jobs : Held(k) => k = j
                        /\ marker \in {None, j} /\ (marker = j => Held(j) /\ Drained)
                        /\ ~ host.guarded /\ job[j].phase = "QUEUED"
  BY <1>0, QueueingFacts
<1>2. current' = j /\ unit' \in UnitRow
  BY <1>0, <1>1, TypeParts, UnitFacts DEF QueuePoints, Wakes, HostType
<1>3. Chosen(j)' /\ HasJob(j)' /\ \A k \in Jobs : (Held(k)' <=> Held(k))
  BY <1>0, <1>1, <1>2 DEF Chosen, HasJob, Held
<1>4. HostInv' /\ host' \in HostRow
  <2>1. CASE host' = Off
    BY <2>1, OffFacts, HostLeaves DEF Calling
  <2>2. CASE Goes("load")
    <3>1. host' \in HostRow /\ host'.at = "load" /\ host'.job = j /\ ~ host'.guarded
      BY <1>0, <1>1, <2>2, GoesFacts DEF Stages
    <3>2. AtPhase("load", job'[j].phase) /\ AtFiles("load", job'[j], wants'[j], installed')
      BY DEF AtPhase, AtFiles
    <3> QED
      BY <1>1, <1>3, <3>1, <3>2 DEF HostInv, J, Phase, Queueing, Running, Holding
  <2> QED
    BY <2>1, <2>2 DEF QueuePoints
<1>5. TypeOK'
  BY <1>0, <1>1, <1>2, <1>4, TypeParts, TypeJoin DEF ApiType, BridgeType, HostType, EngineType
<1>6. /\ job[j] \in Job /\ job' = [job EXCEPT ![j] = job[j]]
      /\ Sound(job[j], wants[j], db') /\ job[j].phase \notin Closed
      /\ installed' # Mixed
  <2>1. job \in [Jobs -> Job]
    BY <1>0, TypeParts DEF EngineType
  <2>2. installed' # Mixed
    BY <1>0, <1>1 DEF Inv, FenceInv, Uncertain
  <2> QED
    BY <1>0, <1>1, <2>1, <2>2 DEF Inv, JournalInv, Closed, Uncertain
<1>7. current' # None => HasJob(current)'
  BY <1>2, <1>3 DEF HasJob
<1>8. marker' \in {None, j} /\ (marker' = j => Held(j)' /\ Drained')
  BY <1>0, <1>1, <1>3 DEF Drained
<1> QED
  BY <1>0, <1>1, <1>3, <1>4, <1>5, <1>6, <1>7, <1>8, OneJobStep

-----------------------------------------------------------------------------
(* The coordinator *)

\* What holds of the job the coordinator works on.
Work(j) ==
  /\ j # None /\ \A k \in Jobs : Held(k) => k = j
  /\ HasJob(j) /\ Chosen(j) /\ job[j].phase \in PHASES
  /\ marker \in {None, j} /\ (marker = j => Drained /\ job[j].phase \notin Finished)
  /\ host.at \in Holding => marker = IF host.at = "finish" THEN None ELSE j
  /\ AtPhase(host.at, job[j].phase) /\ AtFiles(host.at, job[j], wants[j], installed)
  /\ Sound(job[j], wants[j], db) /\ (job[j].phase \in Closed => marker = j)
  /\ installed = Mixed => marker = j /\ job[j].phase \in Uncertain \union {"RECOVERY_REQUIRED"}
  /\ host.at = "plan" => ~ db.busy
  /\ job[j] \in Job /\ job[j].old \in Nat /\ wants[j] \in Nat

LEMMA RunningFacts ==
  ASSUME Inv, host.at \in Running
  PROVE  \E j \in Jobs : j = host.job /\ Work(j)
<1>1. J \in Jobs
  BY DEF Inv, HostInv, Offering, Running, Holding
<1>2. PICK j \in Jobs : j = J
  BY <1>1
<1>3. /\ j # None /\ (\A k \in Jobs : Held(k) => k = j) /\ HasJob(j) /\ Chosen(j)
      /\ host.at \in Holding => marker = IF host.at = "finish" THEN None ELSE j
      /\ AtPhase(host.at, job[j].phase) /\ AtFiles(host.at, job[j], wants[j], installed)
      /\ host.at = "plan" => ~ db.busy
  BY <1>2, UpdatesAssumption DEF Inv, HostInv, Phase
<1>4. job[j].phase \in PHASES /\ job[j] \in Job /\ job[j].old \in Nat /\ wants[j] \in Nat
  BY <1>3, JobFacts, BoundFacts DEF Inv, HasJob
<1>5. marker \in {None, j} /\ (marker = j => Drained /\ job[j].phase \notin Finished)
  BY <1>3, TypeParts DEF Inv, EngineType, PointerInv, FenceInv, Held
<1>6. /\ Sound(job[j], wants[j], db) /\ (job[j].phase \in Closed => marker = j)
      /\ installed = Mixed => marker = j /\ job[j].phase \in Uncertain \union {"RECOVERY_REQUIRED"}
  BY <1>3, <1>5 DEF Inv, JournalInv, FenceInv
<1> QED
  BY <1>2, <1>3, <1>4, <1>5, <1>6 DEF J, Work

\* The next stage, of job j as r says, or the end.
NextStage(j, r, w, files, mark, data) ==
  \/ host'.at = "off" /\ ~ host'.guarded
  \/ /\ host'.job = j /\ host'.at \in {"hold"} \union Holding
     /\ host'.guarded => host'.at \in Holding
     /\ AtPhase(host'.at, r.phase) /\ AtFiles(host'.at, r, w, files)
     /\ host'.at \in Holding => mark = IF host'.at = "finish" THEN None ELSE j
     /\ host'.at = "plan" => ~ data.busy

\* A step of the coordinator, from what it leaves in the journal.
LEMMA CoordinatorStep ==
  ASSUME Inv, NEW j \in Jobs, j = host.job, host.at \in Running,
         NEW r \in Job, job' = [job EXCEPT ![j] = r], r.phase \in PHASES,
         UNCHANGED <<grant, admitted, checked, dispatch, receipt, wakes, requested, offered>>,
         UNCHANGED <<current, watermark, wants, faults>>,
         unit' \in UnitRow, db' \in Database, installed' \in Releases \union {Mixed},
         marker' \in {None, j}, marker' = j => r.phase \notin Finished /\ Drained,
         r.phase \in Closed => marker' = j,
         installed' = Mixed => marker' = j /\ r.phase \in Uncertain \union {"RECOVERY_REQUIRED"},
         Sound(r, wants[j], db'), host' \in HostRow, NextStage(j, r, wants[j], installed', marker', db')
  PROVE  Inv'
<1>0. /\ TypeOK /\ j # None /\ HasJob(j) /\ Chosen(j) /\ \A k \in Jobs : Held(k) => k = j
  BY RunningFacts DEF Inv, Work
<1>1. TypeOK'
  BY <1>0, TypeParts, TypeJoin DEF ApiType, BridgeType, HostType, EngineType
<1>2. /\ job'[j] = r /\ \A k \in Jobs : Held(k)' => k = j
      /\ \A k \in Jobs \ {j} : job'[k] = job[k]
  BY <1>0, OthersRest
<1>3. HasJob(j)' /\ Chosen(j)'
  <2>1. r.phase \notin {"none", "made"}
    BY DEF PHASES, TERMINAL, Finished, Decided, Uncertain
  <2>2. HasJob(j)'
    BY <1>2, <2>1 DEF HasJob
  <2>3. CASE j = current
    BY <2>2, <2>3 DEF Chosen
  <2>4. CASE j # current /\ j = requested /\ CurrentDone
    <3>1. CurrentDone'
      BY <1>0, <1>2, <2>4, TypeParts DEF CurrentDone, EngineType
    <3> QED
      BY <2>2, <2>4, <3>1 DEF Chosen
  <2> QED
    BY <1>0, <2>2, <2>3, <2>4 DEF Chosen
<1>4. HostInv'
  <2>1. CASE host'.at = "off" /\ ~ host'.guarded
    BY <2>1, HostLeaves DEF Calling
  <2>2. CASE /\ host'.job = j /\ host'.at \in {"hold"} \union Holding
             /\ host'.guarded => host'.at \in Holding
             /\ AtPhase(host'.at, r.phase) /\ AtFiles(host'.at, r, wants[j], installed')
             /\ host'.at \in Holding => marker' = IF host'.at = "finish" THEN None ELSE j
             /\ host'.at = "plan" => ~ db'.busy
    <3>1. host'.at \notin {"stage", "verify", "point"} /\ host'.at \in Running
      BY <2>2 DEF Running, Holding
    <3>2. J' = j /\ Phase' = r.phase /\ job'[J'] = r /\ wants'[J'] = wants[j]
      BY <1>2, <2>2 DEF J, Phase
    <3> QED
      BY <1>2, <1>3, <2>2, <3>1, <3>2 DEF HostInv, HasJob, Chosen
  <2> QED
    BY <2>1, <2>2 DEF NextStage
<1>5. marker' = j => Held(j)' /\ Drained'
  BY <1>2, <1>3 DEF Held, Drained
<1>6. current' # None => HasJob(current)'
  <2>1. current # None => current \in Jobs /\ HasJob(current)
    BY <1>0, TypeParts DEF Inv, PointerInv, EngineType
  <2> QED
    BY <1>2, <1>3, <2>1 DEF HasJob
<1> QED
  BY <1>0, <1>1, <1>3, <1>4, <1>5, <1>6, OneJobStep

\* Nearly all of the coordinator's steps leave these.
LEMMA EngineFacts ==
  ASSUME Inv, UNCHANGED engineOnly
  PROVE  /\ TypeOK /\ UNCHANGED <<grant, admitted, checked, dispatch, receipt, wakes, requested, offered>>
         /\ UNCHANGED <<current, watermark, wants, faults>> /\ UNCHANGED db /\ db' \in Database
         /\ unit \in UnitRow /\ installed \in Releases \union {Mixed} /\ job \in [Jobs -> Job]
  BY TypeParts DEF Inv, engineOnly, apiVars, bridgeVars, ApiType, HostType, EngineType

\* The coordinator exits.
LEMMA ExitsFacts ==
  ASSUME Exits, unit \in UnitRow
  PROVE  unit' \in UnitRow /\ host' \in HostRow /\ host'.at = "off" /\ ~ host'.guarded
  BY OffFacts, UnitFacts DEF Exits

\* What a decision is called.
LEMMA TerminalFacts ==
  ASSUME NEW p \in Decided
  PROVE  Terminal(p) \in Finished /\ Terminal(p) \in TERMINAL
  BY DEF Decided, Terminal, Finished, TERMINAL

LEMMA TerminalSound ==
  ASSUME NEW r, NEW w, NEW data, r.phase \in TERMINAL \union {"QUEUED", "ABORTED"}
  PROVE  Sound(r, w, data) /\ r.phase \notin Closed
  BY DEF Sound, Closed, Uncertain, TERMINAL, Finished

LEMMA LoadKeeps ==
  ASSUME Inv, Load
  PROVE  Inv'
<1>0. UNCHANGED <<engineOnly, marker, installed>> /\ host.at = "load" /\ host.at \in Running
  BY DEF Load, Running
<1>1. PICK j \in Jobs : j = host.job /\ Work(j)
  BY <1>0, RunningFacts
<1>2. CASE Exits /\ UNCHANGED job
  BY <1>0, <1>1, <1>2, EngineFacts, ExitsFacts, CoordinatorStep DEF Work, NextStage
<1>3. CASE job[j].phase \in Decided /\ marker # j /\ Settle(j, Terminal(job[j].phase)) /\ Exits
  <2>1. PICK r \in Job : job' = [job EXCEPT ![j] = r] /\ r.phase = Terminal(job[j].phase)
    BY <1>0, <1>3, EngineFacts, TerminalFacts, SettleFacts
  <2>2. r.phase \in TERMINAL /\ r.phase \in PHASES
    BY <1>3, <2>1, TerminalFacts DEF PHASES
  <2>3. marker' = None /\ installed' # Mixed
    BY <1>0, <1>1, <1>3 DEF Work
  <2> QED
    BY <1>0, <1>1, <1>3, <2>1, <2>2, <2>3, EngineFacts, ExitsFacts, TerminalSound, CoordinatorStep
    DEF NextStage, Work
<1>4. CASE job[j].phase \notin TERMINAL /\ Goes("hold") /\ UNCHANGED <<job, unit>>
  <2>1. /\ host' \in HostRow /\ host'.at = "hold" /\ host'.job = j
        /\ host'.guarded = host.guarded /\ ~ host.guarded
    BY <1>0, <1>1, <1>4, EngineFacts, GoesFacts DEF Stages, Inv, HostInv, Holding
  <2>2. AtPhase("hold", job[j].phase) /\ AtFiles("hold", job[j], wants[j], installed')
    BY <1>4 DEF AtPhase, AtFiles
  <2>3. NextStage(j, job[j], wants[j], installed', marker', db')
    BY <2>1, <2>2 DEF NextStage, Holding
  <2> QED
    BY <1>0, <1>1, <1>4, <2>1, <2>3, EngineFacts, CoordinatorStep DEF Work
<1> QED
  BY <1>1, <1>2, <1>3, <1>4 DEF Load, J, Phase

LEMMA HoldKeeps ==
  ASSUME Inv, Hold
  PROVE  Inv'
<1>0. /\ UNCHANGED <<engineOnly, job, installed, unit>> /\ host.at = "hold" /\ host.at \in Running /\ Drained
  BY DEF Hold, Running
<1>1. PICK j \in Jobs : j = host.job /\ Work(j)
  BY <1>0, RunningFacts
<1>2. marker' = j /\ job[j].phase \notin TERMINAL /\ (marker # None => marker = j)
  BY <1>0, <1>1 DEF Hold, J, Work, AtPhase
<1>3. host' \in HostRow /\ host'.at = "decide" /\ host'.job = j
  BY <1>0, <1>1, EngineFacts, GoesFacts DEF Hold, Stages, Holding
<1>4. AtPhase("decide", job[j].phase) /\ AtFiles("decide", job[j], wants[j], installed')
  BY <1>2 DEF AtPhase, AtFiles
<1>5. NextStage(j, job[j], wants[j], installed', marker', db')
  BY <1>2, <1>3, <1>4 DEF NextStage, Holding
<1>6. job[j].phase \notin Finished
  BY <1>2 DEF TERMINAL
<1> QED
  BY <1>0, <1>1, <1>2, <1>3, <1>5, <1>6, EngineFacts, CoordinatorStep DEF Work

\* A step while admission is closed.
LEMMA HoldingStep ==
  ASSUME Inv, NEW j \in Jobs, j = host.job, Work(j), host.at \in Holding, host.at # "finish",
         NEW r \in Job, job' = [job EXCEPT ![j] = r], r.phase \in PHASES, r.phase \notin Finished,
         UNCHANGED <<engineOnly, marker, unit>>, installed' \in Releases \union {Mixed},
         installed' = Mixed => r.phase \in Uncertain, Sound(r, wants[j], db),
         host' \in HostRow, host'.job = j, host'.at \in Holding, host'.at # "finish",
         AtPhase(host'.at, r.phase), AtFiles(host'.at, r, wants[j], installed'),
         host'.at = "plan" => ~ db.busy
  PROVE  Inv'
<1>1. marker' = j /\ Drained /\ host.at \in Running
  BY DEF Work, Running
<1>2. UNCHANGED db
  BY EngineFacts
<1>3. NextStage(j, r, wants[j], installed', marker', db')
  BY <1>1, <1>2 DEF NextStage
<1> QED
  BY <1>1, <1>2, <1>3, EngineFacts, CoordinatorStep

LEMMA DecideKeeps ==
  ASSUME Inv, Decide
  PROVE  Inv'
<1>0. /\ UNCHANGED <<engineOnly, marker, installed, unit>> /\ host.at = "decide"
      /\ host.at \in Running /\ host.at \in Holding
  BY DEF Decide, Running, Holding
<1>1. PICK j \in Jobs : j = host.job /\ Work(j)
  BY <1>0, RunningFacts
<1>2. CASE job[j].phase = "QUEUED" /\ Write(j, "ABORTED") /\ Goes("release")
  <2>1. PICK r \in Job : job' = [job EXCEPT ![j] = r] /\ r.phase = "ABORTED"
    BY <1>0, <1>2, EngineFacts, WriteFacts DEF PHASES, Decided
  <2>2. host' \in HostRow /\ host'.at = "release" /\ host'.job = j
    BY <1>0, <1>1, <1>2, EngineFacts, GoesFacts DEF Stages, Holding
  <2>3. installed # Mixed
    BY <1>1, <1>2 DEF Work, Uncertain
  <2>4. AtPhase("release", r.phase) /\ AtFiles("release", r, wants[j], installed')
    BY <1>0, <2>1, <2>3 DEF AtPhase, AtFiles, Decided
  <2>5. r.phase \in PHASES /\ r.phase \notin Finished /\ Sound(r, wants[j], db)
    BY <2>1, TerminalSound DEF PHASES, Decided, Finished
  <2> QED
    BY <1>0, <1>1, <2>1, <2>2, <2>3, <2>4, <2>5, EngineFacts, HoldingStep DEF Holding
<1>3. CASE /\ host' = [host EXCEPT !.at = Resumption(job[j].phase),
                                   !.guarded = Resumption(job[j].phase) \in {"reverify", "abort"}]
           /\ job' = IF Resumption(job[j].phase) = "abort" THEN [job EXCEPT ![j].phase = "ABORTING"] ELSE job
  <2>0. job[j].phase \in PHASES \ TERMINAL
    BY <1>0, <1>1 DEF Work, AtPhase
  <2>1. /\ Resumption(job[j].phase) \in {"reverify", "rollback", "abort", "idle"}
        /\ Resumption(job[j].phase) = "reverify" => job[j].phase \in Decided
        /\ Resumption(job[j].phase) = "rollback" => job[j].phase \in Uncertain
        /\ Resumption(job[j].phase) = "abort" => job[j].phase \in {"PREPARING", "ABORTING"}
        /\ Resumption(job[j].phase) = "idle" => job[j].phase = "QUEUED"
    BY <2>0 DEF Resumption, PHASES, TERMINAL, Decided, Uncertain, Finished
  <2> DEFINE at == Resumption(job[j].phase)
  <2>2. host' \in HostRow /\ host'.at = at /\ host'.job = j /\ at \in Holding /\ at # "finish"
    <3>1. host \in HostRow /\ at \in Stages /\ at \in Holding /\ at # "finish"
      BY <1>0, <2>1, EngineFacts, HostFacts DEF Stages, Holding
    <3>2. ASSUME NEW g \in BOOLEAN
          PROVE  /\ [host EXCEPT !.at = at, !.guarded = g] \in HostRow
                 /\ [host EXCEPT !.at = at, !.guarded = g].at = at
                 /\ [host EXCEPT !.at = at, !.guarded = g].job = j
      <4> HIDE DEF at
      <4> QED
        BY <1>1, <3>1 DEF HostRow
    <3>3. (Resumption(job[j].phase) \in {"reverify", "abort"}) \in BOOLEAN
      OBVIOUS
    <3> QED
      BY <1>3, <3>1, <3>2, <3>3, Zenon
  <2> HIDE DEF at
  <2>3. CASE at = "abort"
    <3>1. Write(j, "ABORTING")
      BY <1>3, <2>3 DEF Write, at
    <3>2. PICK r \in Job : job' = [job EXCEPT ![j] = r] /\ r.phase = "ABORTING" /\ r.old = job[j].old
      BY <1>0, <3>1, EngineFacts, WriteFacts DEF PHASES
    <3>3. job[j].phase \in {"PREPARING", "ABORTING"}
      BY <2>1, <2>3 DEF at
    <3>4. Sound(r, wants[j], db) /\ installed # Mixed
      BY <1>1, <3>2, <3>3 DEF Work, Sound, Closed, Uncertain
    <3>5. AtPhase(host'.at, r.phase) /\ AtFiles(host'.at, r, wants[j], installed') /\ host'.at # "plan"
      BY <2>2, <2>3, <3>2 DEF AtPhase, AtFiles
    <3>6. r.phase \in PHASES /\ r.phase \notin Finished
      BY <3>2 DEF PHASES, Finished
    <3> QED
      BY <1>0, <1>1, <2>2, <3>2, <3>4, <3>5, <3>6, EngineFacts, HoldingStep
  <2>4. CASE at # "abort"
    <3>1. job' = [job EXCEPT ![j] = job[j]] /\ job[j] \in Job
      BY <1>0, <1>3, <2>4, EngineFacts DEF at
    <3>2. /\ AtPhase(host'.at, job[j].phase) /\ AtFiles(host'.at, job[j], wants[j], installed')
          /\ host'.at # "plan"
      BY <2>1, <2>2, <2>4 DEF at, AtPhase, AtFiles
    <3>3. job[j].phase \in PHASES /\ job[j].phase \notin Finished /\ job[j].phase # "RECOVERY_REQUIRED"
      BY <2>0 DEF TERMINAL
    <3> QED
      BY <1>0, <1>1, <2>2, <3>1, <3>2, <3>3, EngineFacts, HoldingStep DEF Work
  <2> QED
    BY <2>3, <2>4
<1> QED
  BY <1>1, <1>2, <1>3 DEF Decide, J, Phase

\* Before anything is installed.
LEMMA PrepareKeeps ==
  ASSUME Inv, Idle \/ NotIdle \/ Plan \/ Prepare \/ PrepareFails
  PROVE  Inv'
<1>0. /\ UNCHANGED <<engineOnly, marker, installed, unit>> /\ host.at \in {"idle", "plan", "prepare"}
      /\ host.at \in Running /\ host.at \in Holding /\ host.at # "finish"
  BY DEF Idle, NotIdle, Plan, Prepare, PrepareFails, Running, Holding
<1>1. PICK j \in Jobs : j = host.job /\ Work(j)
  BY <1>0, RunningFacts
<1>2. job[j].phase = IF host.at = "prepare" THEN "PREPARING" ELSE "QUEUED"
  BY <1>0, <1>1 DEF Work, AtPhase
<1>3. installed # Mixed /\ installed \in Releases
  BY <1>0, <1>1, <1>2, EngineFacts DEF Work, Uncertain
<1>4. ASSUME NEW at \in Holding, Goes(at) \/ host' = [host EXCEPT !.at = at, !.guarded = TRUE]
      PROVE  host' \in HostRow /\ host'.at = at /\ host'.job = j
  <2>1. host \in HostRow /\ at \in Stages
    BY <1>0, EngineFacts, HostFacts DEF Stages
  <2> QED
    BY <1>1, <1>4, <2>1 DEF Goes, HostRow
<1>5. CASE Idle
  <2> DEFINE r == [job[j] EXCEPT !.planned = TRUE]
  <2>1. r \in Job /\ r.phase = "QUEUED" /\ r.old = job[j].old
    BY <1>1, <1>2, <1>5 DEF Work, Job, Idle
  <2>2. job' = [job EXCEPT ![j] = r] /\ Goes("plan") /\ IdleHost(j)
    BY <1>1, <1>5 DEF Idle, J
  <2> HIDE DEF r
  <2>3. host' \in HostRow /\ host'.at = "plan" /\ host'.job = j
    BY <1>4, <2>2 DEF Holding
  <2>4. AtPhase("plan", r.phase) /\ AtFiles("plan", r, wants[j], installed') /\ ~ db.busy
    BY <1>0, <2>1, <2>2 DEF AtPhase, AtFiles, IdleHost, Verified
  <2>5. r.phase \in PHASES /\ r.phase \notin Finished /\ Sound(r, wants[j], db)
    BY <2>1, TerminalSound DEF PHASES, Finished
  <2> QED
    BY <1>0, <1>1, <1>3, <2>1, <2>2, <2>3, <2>4, <2>5, EngineFacts, HoldingStep DEF Holding
<1>6. CASE NotIdle
  <2>1. PICK r \in Job : job' = [job EXCEPT ![j] = r] /\ r.phase = "ABORTED"
    BY <1>0, <1>1, <1>6, EngineFacts, WriteFacts DEF NotIdle, J, PHASES, Decided
  <2>2. host' \in HostRow /\ host'.at = "release" /\ host'.job = j
    BY <1>4, <1>6 DEF Holding, NotIdle
  <2>3. AtPhase("release", r.phase) /\ AtFiles("release", r, wants[j], installed')
    BY <1>0, <1>3, <2>1 DEF AtPhase, AtFiles, Decided
  <2>4. r.phase \in PHASES /\ r.phase \notin Finished /\ Sound(r, wants[j], db)
    BY <2>1, TerminalSound DEF PHASES, Decided, Finished
  <2> QED
    BY <1>0, <1>1, <1>3, <2>1, <2>2, <2>3, <2>4, EngineFacts, HoldingStep DEF Holding
<1>7. CASE Plan
  <2>1. PICK r \in Job : job' = [job EXCEPT ![j] = r] /\ r.phase = "PREPARING" /\ r.old = job[j].old
    BY <1>0, <1>1, <1>7, EngineFacts, WriteFacts DEF Plan, J, PHASES
  <2>2. host' \in HostRow /\ host'.at = "prepare" /\ host'.job = j
    BY <1>4, <1>7 DEF Holding, Plan
  <2>3. installed = r.old /\ wants[j] > r.old /\ ~ db.busy
    BY <1>1, <1>7, <2>1 DEF Plan, Work, AtFiles
  <2>4. AtPhase("prepare", r.phase) /\ AtFiles("prepare", r, wants[j], installed')
    BY <1>0, <2>1, <2>3 DEF AtPhase, AtFiles
  <2>5. r.phase \in PHASES /\ r.phase \notin Finished /\ Sound(r, wants[j], db)
    BY <2>1, <2>3 DEF PHASES, Finished, Sound, Uncertain
  <2> QED
    BY <1>0, <1>1, <1>3, <2>1, <2>2, <2>4, <2>5, EngineFacts, HoldingStep DEF Holding
<1>8. CASE Prepare
  <2> DEFINE copy == [db |-> db, files |-> installed]
             r == [job[j] EXCEPT !.saved = copy, !.phase = "INSTALLING"]
  <2>1. job[j].phase = "PREPARING" /\ installed = job[j].old /\ wants[j] > job[j].old /\ ~ db.busy
    BY <1>1, <1>2, <1>8 DEF Prepare, Work, AtFiles, Sound, Closed
  <2>2. copy \in Saved /\ copy.db = db /\ copy.files = installed
    BY <1>0, <1>3, EngineFacts DEF Saved
  <2>3. copy # None
    BY <2>2, UpdatesAssumption
  <2> HIDE DEF copy
  <2>4. r \in Job /\ r.phase = "INSTALLING" /\ r.old = job[j].old /\ r.saved = copy
    BY <1>1, <2>2 DEF Work, Job, PHASES, Uncertain
  <2>5. job' = [job EXCEPT ![j] = r] /\ Goes("install")
    BY <1>0, <1>1, <1>8, EngineFacts DEF Prepare, J, copy
  <2> HIDE DEF r
  <2>6. host' \in HostRow /\ host'.at = "install" /\ host'.job = j
    BY <1>4, <2>5 DEF Holding
  <2>7. AtPhase("install", r.phase) /\ AtFiles("install", r, wants[j], installed')
    BY <2>4 DEF AtPhase, AtFiles
  <2>8. r.phase \in PHASES /\ r.phase \notin Finished /\ Sound(r, wants[j], db)
    BY <2>1, <2>2, <2>3, <2>4 DEF PHASES, Finished, Sound, Uncertain
  <2> QED
    BY <1>0, <1>1, <1>3, <2>4, <2>5, <2>6, <2>7, <2>8, EngineFacts, HoldingStep DEF Holding
<1>9. CASE PrepareFails
  <2>1. PICK r \in Job : job' = [job EXCEPT ![j] = r] /\ r.phase = "ABORTING" /\ r.old = job[j].old
    BY <1>0, <1>1, <1>9, EngineFacts, WriteFacts DEF PrepareFails, J, PHASES
  <2>2. host' \in HostRow /\ host'.at = "abort" /\ host'.job = j
    BY <1>4, <1>9 DEF Holding, PrepareFails
  <2>3. AtPhase("abort", r.phase) /\ AtFiles("abort", r, wants[j], installed')
    BY <2>1 DEF AtPhase, AtFiles
  <2>4. r.phase \in PHASES /\ r.phase \notin Finished /\ Sound(r, wants[j], db)
    BY <1>1, <1>2, <1>9, <2>1 DEF PrepareFails, Work, PHASES, Finished, Sound, Closed, Uncertain
  <2> QED
    BY <1>0, <1>1, <1>3, <2>1, <2>2, <2>3, <2>4, EngineFacts, HoldingStep DEF Holding
<1> QED
  BY <1>5, <1>6, <1>7, <1>8, <1>9

\* A restoration of what was restored changes nothing more.
LEMMA RevokedFacts ==
  ASSUME NEW data \in Database
  PROVE  /\ Revoked(data) \in Database /\ ~ Revoked(data).busy
         /\ Revoked(Revoked(data)) = Revoked(data)
<1> DEFINE none(a) == [j \in Jobs |-> IF a[j] = "PENDING" THEN "CANCELLED" ELSE a[j]]
<1>1. \A a \in [Jobs -> Auth] : none(a) \in [Jobs -> Auth] /\ none(none(a)) = none(a)
  BY DEF Auth
<1>2. ASSUME NEW d \in Database
      PROVE  Revoked(d) \in Database /\ Revoked(d).auth = none(d.auth) /\ Revoked(d).busy = FALSE
  <2> DEFINE a == [j \in Jobs |-> IF j \in Jobs /\ d.auth[j] = "PENDING" THEN "CANCELLED" ELSE d.auth[j]]
             c == [d EXCEPT !.auth = a]
  <2>1. a = none(d.auth) /\ d.auth \in [Jobs -> Auth]
    BY DEF Database
  <2>2. Cancelled(d, Jobs) = c
    BY DEF Cancelled
  <2> HIDE DEF a, none
  <2>3. c \in Database /\ c.auth = a
    BY <1>1, <2>1 DEF Database
  <2> HIDE DEF c
  <2>4. Revoked(d) = [c EXCEPT !.busy = FALSE]
    BY <2>2 DEF Revoked
  <2> QED
    BY <2>1, <2>3, <2>4 DEF Database
<1> HIDE DEF none
<1>3. data.auth \in [Jobs -> Auth]
  BY DEF Database
<1> DEFINE once == Revoked(data)
           twice == Revoked(Revoked(data))
<1>4. once \in Database /\ once.busy = FALSE /\ once.auth = none(data.auth)
  BY <1>2
<1>5. twice \in Database /\ twice.busy = FALSE /\ twice.auth = none(data.auth)
  BY <1>1, <1>2, <1>3, <1>4
<1> HIDE DEF once, twice
<1>6. twice = once
  BY <1>4, <1>5 DEF Database
<1> QED
  BY <1>4, <1>6 DEF once, twice

\* While the installation changes, forwards or back.
LEMMA InstallKeeps ==
  ASSUME Inv, Install \/ InstallEnds \/ InstallFails \/ Commit \/ RestoreEnds
  PROVE  Inv'
<1>0. /\ UNCHANGED <<engineOnly, marker, unit>> /\ host.at \in {"install", "replace", "health", "rewrite"}
      /\ host.at \in Running /\ host.at \in Holding /\ host.at # "finish"
  BY DEF Install, InstallEnds, InstallFails, Commit, RestoreEnds, Running, Holding
<1>1. PICK j \in Jobs : j = host.job /\ Work(j)
  BY <1>0, RunningFacts
<1>2. /\ job[j].phase \in Uncertain
      /\ job[j].phase = CASE host.at \in {"install", "replace"} -> "INSTALLING"
                          [] host.at = "health" -> "VERIFYING"
                          [] host.at = "rewrite" -> "ROLLING_BACK"
  BY <1>0, <1>1 DEF Work, AtPhase, Uncertain
<1>3. /\ ~ db.busy /\ wants[j] > job[j].old /\ job[j].saved # None /\ job[j].saved.files = job[j].old
      /\ Revoked(job[j].saved.db) = Revoked(db)
  BY <1>1, <1>2 DEF Work, Sound, Closed
<1>4. ASSUME NEW at \in Holding, Goes(at)
      PROVE  host' \in HostRow /\ host'.at = at /\ host'.job = j
  BY <1>0, <1>1, <1>4, EngineFacts, GoesFacts DEF Stages
<1>5. ASSUME NEW r \in Job, r.phase \in Uncertain \union {"COMMITTED"}, r.old = job[j].old, r.saved = job[j].saved
      PROVE  r.phase \in PHASES /\ r.phase \notin Finished /\ Sound(r, wants[j], db)
  BY <1>3, <1>5 DEF PHASES, Finished, Decided, Uncertain, Sound
<1>6. CASE Install
  <2>1. job' = [job EXCEPT ![j] = job[j]] /\ job[j] \in Job /\ installed' = Mixed
    BY <1>0, <1>6, EngineFacts DEF Install
  <2>2. host' \in HostRow /\ host'.at = "replace" /\ host'.job = j
    BY <1>4, <1>6 DEF Holding, Install
  <2>3. AtPhase("replace", job[j].phase) /\ AtFiles("replace", job[j], wants[j], installed')
    BY <1>2, <1>6 DEF AtPhase, AtFiles, Install
  <2> QED
    BY <1>0, <1>1, <1>2, <1>5, <2>1, <2>2, <2>3, EngineFacts, HoldingStep DEF Holding
<1>7. CASE InstallEnds
  <2>1. PICK r \in Job : /\ job' = [job EXCEPT ![j] = r] /\ r.phase = "VERIFYING"
                         /\ r.old = job[j].old /\ r.saved = job[j].saved
    BY <1>0, <1>1, <1>7, EngineFacts, WriteFacts DEF InstallEnds, J, PHASES, Uncertain
  <2>2. host' \in HostRow /\ host'.at = "health" /\ host'.job = j
    BY <1>4, <1>7 DEF Holding, InstallEnds
  <2>3. installed' \in Releases
    BY <1>0, <1>1, <1>7, EngineFacts, JobFacts DEF InstallEnds, J
  <2>4. AtPhase("health", r.phase) /\ AtFiles("health", r, wants[j], installed')
    BY <2>1 DEF AtPhase, AtFiles
  <2>5. r.phase \in Uncertain
    BY <2>1 DEF Uncertain
  <2> QED
    BY <1>0, <1>1, <1>5, <2>1, <2>2, <2>3, <2>4, <2>5, HoldingStep DEF Holding
<1>8. CASE InstallFails
  <2>1. PICK r \in Job : /\ job' = [job EXCEPT ![j] = r] /\ r.phase = "ROLLING_BACK"
                         /\ r.old = job[j].old /\ r.saved = job[j].saved
    BY <1>0, <1>1, <1>8, EngineFacts, WriteFacts DEF InstallFails, J, PHASES, Uncertain
  <2>2. host' \in HostRow /\ host'.at = "rollback" /\ host'.job = j
    BY <1>4, <1>8 DEF Holding, InstallFails
  <2>3. AtPhase("rollback", r.phase) /\ AtFiles("rollback", r, wants[j], installed')
    BY <2>1 DEF AtPhase, AtFiles, Uncertain
  <2>4. r.phase \in Uncertain /\ installed' \in Releases \union {Mixed}
    BY <1>0, <1>8, <2>1, EngineFacts DEF Uncertain, InstallFails
  <2> QED
    BY <1>0, <1>1, <1>5, <2>1, <2>2, <2>3, <2>4, HoldingStep DEF Holding
<1>9. CASE Commit
  <2>1. PICK r \in Job : /\ job' = [job EXCEPT ![j] = r] /\ r.phase = "COMMITTED"
                         /\ r.old = job[j].old /\ r.saved = job[j].saved
    BY <1>0, <1>1, <1>9, EngineFacts, WriteFacts DEF Commit, J, PHASES, Decided
  <2>2. host' \in HostRow /\ host'.at = "release" /\ host'.job = j
    BY <1>4, <1>9 DEF Holding, Commit
  <2>3. installed' = wants[j] /\ installed' \in Releases /\ installed' # Mixed
    BY <1>0, <1>1, <1>9, EngineFacts, JobFacts, BoundFacts DEF Commit, J
  <2>4. AtPhase("release", r.phase) /\ AtFiles("release", r, wants[j], installed')
    BY <2>1, <2>3 DEF AtPhase, AtFiles, Decided
  <2> QED
    BY <1>0, <1>1, <1>5, <2>1, <2>2, <2>3, <2>4, HoldingStep DEF Holding
<1>10. CASE RestoreEnds
  <2>1. PICK r \in Job : /\ job' = [job EXCEPT ![j] = r] /\ r.phase = "ROLLBACK_VERIFYING"
                         /\ r.old = job[j].old /\ r.saved = job[j].saved
    BY <1>0, <1>1, <1>10, EngineFacts, WriteFacts DEF RestoreEnds, J, PHASES, Uncertain
  <2>2. host' \in HostRow /\ host'.at = "recheck" /\ host'.job = j
    BY <1>4, <1>10 DEF Holding, RestoreEnds
  <2>3. installed' \in Releases
    <3>1. installed' = job[j].old
      BY <1>1, <1>3, <1>10 DEF RestoreEnds, J
    <3> QED
      BY <1>0, <3>1, EngineFacts, JobFacts
  <2>4. AtPhase("recheck", r.phase) /\ AtFiles("recheck", r, wants[j], installed')
    BY <2>1 DEF AtPhase, AtFiles
  <2>5. r.phase \in Uncertain
    BY <2>1 DEF Uncertain
  <2> QED
    BY <1>0, <1>1, <1>5, <2>1, <2>2, <2>3, <2>4, <2>5, HoldingStep DEF Holding
<1> QED
  BY <1>6, <1>7, <1>8, <1>9, <1>10

LEMMA RollbackKeeps ==
  ASSUME Inv, Rollback
  PROVE  Inv'
<1>0. /\ UNCHANGED <<engineOnly, marker, installed>> /\ host.at = "rollback"
      /\ host.at \in Running /\ host.at \in Holding /\ host.at # "finish"
  BY DEF Rollback, Running, Holding
<1>1. PICK j \in Jobs : j = host.job /\ Work(j)
  BY <1>0, RunningFacts
<1>2. job[j].phase \in Uncertain /\ marker = j /\ Drained
  BY <1>0, <1>1 DEF Work, AtPhase
<1>3. CASE Settle(j, "RECOVERY_REQUIRED") /\ Exits
  <2>1. PICK r \in Job : job' = [job EXCEPT ![j] = r] /\ r.phase = "RECOVERY_REQUIRED"
    BY <1>0, <1>3, EngineFacts, SettleFacts DEF TERMINAL
  <2>2. r.phase \in PHASES /\ r.phase \notin Finished /\ r.phase \in TERMINAL
    BY <2>1 DEF PHASES, TERMINAL, Finished
  <2> QED
    BY <1>0, <1>1, <1>2, <1>3, <2>1, <2>2, EngineFacts, ExitsFacts, TerminalSound, CoordinatorStep DEF NextStage
<1>4. CASE /\ ~ Exhausted(j) /\ job' = [job EXCEPT ![j].phase = "ROLLING_BACK", ![j].resumes = @ + 1]
           /\ host' = [host EXCEPT !.at = "restore", !.guarded = TRUE] /\ UNCHANGED unit
  <2> DEFINE n == job[j].resumes + 1
             r == [job[j] EXCEPT !.phase = "ROLLING_BACK", !.resumes = n]
  <2>1. n \in 0 .. MaxResumes /\ job[j] \in Job
    BY <1>0, <1>4, EngineFacts, JobFacts, BoundFacts DEF Exhausted
  <2>2. job' = [job EXCEPT ![j] = r]
    BY <1>0, <1>4, EngineFacts
  <2> HIDE DEF n
  <2>3. r \in Job /\ r.phase = "ROLLING_BACK" /\ r.old = job[j].old /\ r.saved = job[j].saved
    BY <2>1 DEF Job, PHASES, Uncertain
  <2> HIDE DEF r
  <2>4. host' \in HostRow /\ host'.at = "restore" /\ host'.job = j
    BY <1>0, <1>1, <1>4, EngineFacts, HostFacts DEF HostRow, Stages, Holding
  <2>5. AtPhase("restore", r.phase) /\ AtFiles("restore", r, wants[j], installed')
    BY <2>3 DEF AtPhase, AtFiles
  <2>6. r.phase \in PHASES /\ r.phase \notin Finished /\ Sound(r, wants[j], db) /\ r.phase \in Uncertain
    BY <1>1, <1>2, <2>3 DEF Work, Sound, Closed, Uncertain, PHASES, Finished
  <2> QED
    BY <1>0, <1>1, <1>4, <2>2, <2>3, <2>4, <2>5, <2>6, EngineFacts, HoldingStep DEF Holding
<1> QED
  BY <1>1, <1>3, <1>4 DEF Rollback, J

LEMMA RestoreKeeps ==
  ASSUME Inv, Restore
  PROVE  Inv'
<1>0. /\ TypeOK /\ UNCHANGED <<grant, admitted, checked, dispatch, receipt, wakes, requested, offered>>
      /\ UNCHANGED <<job, current, watermark, wants, faults, marker, unit>> /\ installed' = Mixed
      /\ host.at = "restore" /\ host.at \in Running /\ host.at \in Holding /\ host.at # "finish"
  BY DEF Inv, Restore, bridgeVars, Running, Holding
<1>1. PICK j \in Jobs : j = host.job /\ Work(j)
  BY <1>0, RunningFacts
<1>2. job[j].phase = "ROLLING_BACK" /\ marker = j /\ Drained
  BY <1>0, <1>1 DEF Work, AtPhase
<1>3. wants[j] > job[j].old /\ job[j].saved # None /\ job[j].saved.files = job[j].old
  BY <1>1, <1>2 DEF Work, Sound, Closed, Uncertain
<1>4. job' = [job EXCEPT ![j] = job[j]] /\ job[j] \in Job
  BY <1>0, TypeParts DEF EngineType
<1>5. host' \in HostRow /\ host'.at = "rewrite" /\ host'.job = j
  BY <1>0, <1>1, GoesFacts DEF Restore, Stages, Holding
<1>6. job[j].saved \in Saved /\ job[j].saved.db \in Database
  <2>1. job[j].saved \in Saved
    BY <1>0, <1>3, JobFacts
  <2> QED
    BY <2>1 DEF Saved
<1>7. /\ db' = Revoked(job[j].saved.db)
      /\ db' \in Database /\ ~ db'.busy /\ Revoked(db') = Revoked(job[j].saved.db)
  BY <1>1, <1>6, RevokedFacts DEF Restore, J
<1>8. installed' \in Releases \union {Mixed} /\ unit' \in UnitRow
  BY <1>0, TypeParts DEF HostType
<1>9. /\ job[j].phase \in PHASES /\ job[j].phase \notin Finished /\ job[j].phase \in Uncertain
      /\ Sound(job[j], wants[j], db')
  BY <1>2, <1>3, <1>7 DEF PHASES, Finished, Uncertain, Sound
<1>10. NextStage(j, job[j], wants[j], installed', marker', db')
  BY <1>0, <1>2, <1>5 DEF NextStage, AtPhase, AtFiles, Holding
<1> QED
  BY <1>0, <1>1, <1>2, <1>4, <1>5, <1>7, <1>8, <1>9, <1>10, CoordinatorStep

LEMMA RecoverKeeps ==
  ASSUME Inv, Recover
  PROVE  Inv'
<1>0. /\ UNCHANGED <<engineOnly, marker, installed, unit>> /\ host.at \in {"recheck", "abort", "reverify"}
      /\ host.at \in Running /\ host.at \in Holding /\ host.at # "finish" /\ Goes("release")
  BY DEF Recover, Running, Holding
<1>1. PICK j \in Jobs : j = host.job /\ Work(j)
  BY <1>0, RunningFacts
<1>2. host' \in HostRow /\ host'.at = "release" /\ host'.job = j
  BY <1>0, <1>1, EngineFacts, GoesFacts DEF Stages, Holding
<1>3. job[j].old \in Releases /\ wants[j] \in Releases /\ job[j] \in Job
  BY <1>0, EngineFacts, JobFacts
<1>4. CASE host.at = "recheck" /\ installed = job[j].old /\ Write(j, "RECOVERED")
  <2>1. PICK r \in Job : /\ job' = [job EXCEPT ![j] = r] /\ r.phase = "RECOVERED"
                         /\ r.old = job[j].old /\ r.saved = job[j].saved
    BY <1>0, <1>4, EngineFacts, WriteFacts DEF PHASES, Decided
  <2>2. job[j].phase = "ROLLBACK_VERIFYING"
    BY <1>1, <1>4 DEF Work, AtPhase
  <2>3. r.phase \in PHASES /\ r.phase \notin Finished /\ Sound(r, wants[j], db)
    BY <1>1, <2>1, <2>2 DEF Work, Sound, PHASES, Decided, Finished, Closed, Uncertain
  <2>4. installed' # Mixed /\ AtPhase("release", r.phase) /\ AtFiles("release", r, wants[j], installed')
    BY <1>0, <1>3, <1>4, <2>1, BoundFacts DEF AtPhase, AtFiles, Decided
  <2> QED
    BY <1>0, <1>1, <1>2, <2>1, <2>3, <2>4, EngineFacts, HoldingStep DEF Holding
<1>5. CASE host.at = "abort" /\ installed = job[j].old /\ Write(j, "ABORTED")
  <2>1. PICK r \in Job : job' = [job EXCEPT ![j] = r] /\ r.phase = "ABORTED"
    BY <1>0, <1>5, EngineFacts, WriteFacts DEF PHASES, Decided
  <2>2. r.phase \in PHASES /\ r.phase \notin Finished /\ Sound(r, wants[j], db)
    BY <2>1, TerminalSound DEF PHASES, Decided, Finished
  <2>3. installed' # Mixed /\ AtPhase("release", r.phase) /\ AtFiles("release", r, wants[j], installed')
    BY <1>0, <1>3, <1>5, <2>1, BoundFacts DEF AtPhase, AtFiles, Decided
  <2> QED
    BY <1>0, <1>1, <1>2, <2>1, <2>2, <2>3, EngineFacts, HoldingStep DEF Holding
<1>6. CASE /\ host.at = "reverify" /\ UNCHANGED job
           /\ installed = IF job[j].phase = "COMMITTED" THEN wants[j] ELSE job[j].old
  <2>1. job' = [job EXCEPT ![j] = job[j]] /\ job[j].phase \in Decided
    BY <1>0, <1>1, <1>6, EngineFacts DEF Work, AtPhase
  <2>2. job[j].phase \in PHASES /\ job[j].phase \notin Finished
    BY <2>1 DEF PHASES, Decided, Finished
  <2>3. /\ installed' # Mixed /\ AtPhase("release", job[j].phase)
        /\ AtFiles("release", job[j], wants[j], installed')
    BY <1>0, <1>3, <1>6, <2>1, BoundFacts DEF AtPhase, AtFiles
  <2> QED
    BY <1>0, <1>1, <1>2, <1>3, <2>1, <2>2, <2>3, EngineFacts, HoldingStep DEF Holding, Work
<1> QED
  BY <1>1, <1>4, <1>5, <1>6 DEF Recover, J, Phase

LEMMA ReleaseKeeps ==
  ASSUME Inv, Release
  PROVE  Inv'
<1>0. /\ UNCHANGED <<engineOnly, job, installed, unit>> /\ host.at = "release" /\ marker' = None
      /\ host.at \in Running /\ host.at \in Holding /\ Goes("finish")
  BY DEF Release, Running, Holding
<1>1. PICK j \in Jobs : j = host.job /\ Work(j)
  BY <1>0, RunningFacts
<1>2. job[j].phase \in Decided /\ installed # Mixed
  BY <1>0, <1>1 DEF Work, AtPhase, AtFiles
<1>3. job[j].phase \notin Closed
  BY <1>2 DEF Decided, Closed, Uncertain
<1>4. host' \in HostRow /\ host'.at = "finish" /\ host'.job = j
  BY <1>0, <1>1, EngineFacts, GoesFacts DEF Stages, Holding
<1>5. NextStage(j, job[j], wants[j], installed', marker', db')
  BY <1>0, <1>2, <1>4 DEF NextStage, AtPhase, AtFiles, Holding
<1>6. j # None
  BY <1>1 DEF Work
<1> QED
  BY <1>0, <1>1, <1>2, <1>3, <1>4, <1>5, <1>6, EngineFacts, CoordinatorStep DEF Work

LEMMA FinishKeeps ==
  ASSUME Inv, Finish
  PROVE  Inv'
<1>0. /\ UNCHANGED <<engineOnly, marker, installed>> /\ host.at = "finish"
      /\ host.at \in Running /\ host.at \in Holding /\ Exits
  BY DEF Finish, Running, Holding
<1>1. PICK j \in Jobs : j = host.job /\ Work(j)
  BY <1>0, RunningFacts
<1>2. job[j].phase \in Decided /\ marker = None /\ j # None
  BY <1>0, <1>1 DEF Work, AtPhase
<1>3. PICK r \in Job : job' = [job EXCEPT ![j] = r] /\ r.phase = Terminal(job[j].phase)
  BY <1>0, <1>1, <1>2, EngineFacts, TerminalFacts, SettleFacts DEF Finish, J, Phase
<1>4. r.phase \in TERMINAL /\ r.phase \in PHASES
  BY <1>2, <1>3, TerminalFacts DEF PHASES
<1>5. installed' # Mixed
  BY <1>0, <1>1, <1>2 DEF Work
<1> QED
  BY <1>0, <1>1, <1>2, <1>3, <1>4, <1>5, EngineFacts, ExitsFacts, TerminalSound, CoordinatorStep DEF NextStage

LEMMA GuardedFailsKeeps ==
  ASSUME Inv, GuardedFails
  PROVE  Inv'
<1>0. /\ UNCHANGED <<engineOnly, marker, installed>> /\ host.at \in Holding /\ host.at \in Running /\ Exits
  BY DEF GuardedFails, Inv, HostInv, Running
<1>1. PICK j \in Jobs : j = host.job /\ Work(j)
  BY <1>0, RunningFacts
<1>2. PICK r \in Job : job' = [job EXCEPT ![j] = r] /\ r.phase = "RECOVERY_REQUIRED"
  BY <1>0, <1>1, EngineFacts, SettleFacts DEF GuardedFails, J, TERMINAL
<1>3. r.phase \in PHASES /\ r.phase \notin Finished /\ r.phase \in TERMINAL
  BY <1>2 DEF PHASES, TERMINAL, Finished
<1> QED
  BY <1>0, <1>1, <1>2, <1>3, EngineFacts, ExitsFacts, TerminalSound, CoordinatorStep DEF NextStage, Work

-----------------------------------------------------------------------------
(* Faults and time *)

LEMMA StopKeeps ==
  ASSUME Inv, HoldTimesOut \/ Dies
  PROVE  Inv'
<1>1. /\ host' = Off /\ (faults' = faults \/ (faults' = faults + 1 /\ faults < MaxFaults))
      /\ UNCHANGED <<db, grant, admitted, checked, dispatch, receipt, wakes, requested, offered>>
      /\ UNCHANGED <<job, current, watermark, wants, marker, installed, unit>>
  BY DEF HoldTimesOut, Dies, apiVars, bridgeVars, engineVars
<1>2. host' \in HostRow /\ HostInv'
  BY <1>1, OffFacts, HostLeaves DEF Calling
<1>3. ApiType' /\ BridgeType' /\ watermark' \in Releases /\ unit' \in UnitRow
  BY <1>1, TypeParts DEF Inv, ApiType, BridgeType, EngineType, HostType
<1>4. faults' \in 0 .. MaxFaults
  BY <1>1, BoundFacts, TypeParts DEF Inv, HostType
<1> QED
  BY <1>1, <1>2, <1>3, <1>4, HostStep DEF HostType

LEMMA RebootKeeps ==
  ASSUME Inv, Reboot
  PROVE  Inv'
<1>1. /\ host = Off /\ unit' = [due |-> TRUE, starts |-> 0] /\ faults' = faults + 1 /\ faults < MaxFaults
      /\ UNCHANGED <<db, grant, admitted, checked, dispatch, receipt, wakes, requested, offered>>
      /\ UNCHANGED <<job, current, watermark, wants, marker, installed, host>>
  BY DEF Reboot, apiVars, bridgeVars, engineVars
<1>2. host' \in HostRow /\ HostInv'
  BY <1>1, OffFacts, HostLeaves DEF Calling
<1>3. ApiType' /\ BridgeType' /\ watermark' \in Releases /\ unit' \in UnitRow
  BY <1>1, TypeParts, BoundFacts DEF Inv, ApiType, BridgeType, EngineType, UnitRow
<1>4. faults' \in 0 .. MaxFaults
  BY <1>1, BoundFacts, TypeParts DEF Inv, HostType
<1> QED
  BY <1>1, <1>2, <1>3, <1>4, HostStep DEF HostType

\* A deadline that passes changes what is done next, and nothing else.
LEMMA ExpireKeeps ==
  ASSUME Inv, NEW i \in Jobs, Expire(i)
  PROVE  Inv'
<1> DEFINE r == [job[i] EXCEPT !.late = TRUE]
<1>0. TypeOK /\ job \in [Jobs -> Job] /\ job[i] \in Job
  BY TypeParts DEF Inv, EngineType
<1>1. /\ UNCHANGED <<db, grant, admitted, checked, dispatch, receipt, wakes, requested, offered>>
      /\ UNCHANGED <<current, watermark, wants, marker, installed, unit, host, faults>>
  BY DEF Expire, apiVars, bridgeVars
<1>2. job' = [job EXCEPT ![i] = r]
  BY DEF Expire
<1>3. r \in Job /\ r.phase = job[i].phase /\ r.old = job[i].old /\ r.saved = job[i].saved
  BY <1>0 DEF Job
<1> HIDE DEF r
<1>4. job' \in [Jobs -> Job] /\ JobsStay
  BY <1>0, <1>1, <1>2, <1>3 DEF JobsStay
<1>5. TypeOK'
  BY <1>0, <1>1, <1>4, TypeParts, TypeJoin DEF ApiType, BridgeType, EngineType, HostType
<1>6. HostInv'
  BY <1>1, <1>4, HostStays
<1>7. marker # None => db' = db /\ Drained'
  BY <1>1 DEF Inv, FenceInv, Drained
<1> QED
  BY <1>1, <1>4, <1>5, <1>6, <1>7, QuietStep

-----------------------------------------------------------------------------
(* Every step *)

LEMMA InitHolds == Init => Inv
<1> SUFFICES ASSUME Init PROVE Inv
  OBVIOUS
<1>0. \A j \in Jobs : job[j] = NoJob /\ wants[j] = 0
  BY DEF Init
<1>1. NoJob \in Job /\ NoJob.phase = "none"
  BY BoundFacts DEF NoJob, Job
<1>2. TypeOK
  <2>1. db \in Database
    BY DEF Init, Database, Auth
  <2>2. dispatch \in DispatchRow /\ host \in HostRow
    BY OffFacts DEF Init, NoDispatch, DispatchRow
  <2>3. job \in [Jobs -> Job] /\ wants \in [Jobs -> Releases] /\ wakes \in [Jobs -> 0 .. MaxWakes]
    BY <1>1, BoundFacts DEF Init
  <2>4. 0 \in Releases /\ faults \in 0 .. MaxFaults /\ unit \in UnitRow
    BY BoundFacts DEF Init, UnitRow
  <2> QED
    BY <2>1, <2>2, <2>3, <2>4 DEF Init, TypeOK, DispatchRow, UnitRow, HostRow
<1>3. PointerInv
  BY <1>0, <1>1 DEF Init, PointerInv, Held, HasJob
<1>4. HostInv
  BY DEF Init, Off, HostInv, Offering, Queueing, Running, Holding
<1>5. JournalInv
  BY <1>0, <1>1 DEF JournalInv, Sound, Closed, Uncertain
<1>6. FenceInv
  BY <1>0, <1>1, BoundFacts DEF Init, FenceInv, Closed, Uncertain
<1> QED
  BY <1>2, <1>3, <1>4, <1>5, <1>6 DEF Inv

LEMMA StutterKeeps ==
  ASSUME Inv, UNCHANGED vars
  PROVE  Inv'
<1>1. /\ UNCHANGED <<db, grant, admitted, checked, dispatch, receipt, wakes, requested, offered>>
      /\ UNCHANGED <<job, current, watermark, wants, marker, installed, unit, host, faults>>
  BY DEF vars
<1>2. JobsStay
  BY <1>1 DEF JobsStay
<1>3. TypeOK'
  BY <1>1, TypeParts, TypeJoin DEF Inv, ApiType, BridgeType, EngineType, HostType
<1>4. HostInv'
  BY <1>1, <1>2, HostStays
<1>5. marker # None => db' = db /\ Drained'
  BY <1>1 DEF Inv, FenceInv, Drained
<1> QED
  BY <1>1, <1>2, <1>3, <1>4, <1>5, QuietStep

LEMMA NextKeeps ==
  ASSUME Inv, [Next]_vars
  PROVE  Inv'
<1>1. CASE Api
  BY <1>1, MutationKeeps, RequestKeeps, DispatchSendsKeeps DEF Api
<1>2. CASE Admin
  BY <1>2, OfferKeeps, CliQueueKeeps DEF Admin
<1>3. CASE Call
  BY <1>3, CallKeeps DEF Call
<1>4. CASE Service \/ Load \/ Hold \/ HoldTimesOut
  BY <1>4, ServiceStartsKeeps, ServiceWaitsKeeps, LoadKeeps, HoldKeeps, StopKeeps DEF Service
<1>5. CASE Queue
  BY <1>5, QueueStagesKeeps, QueueVerifiesKeeps, QueueFailsKeeps, QueuePointsKeeps DEF Queue
<1>6. CASE Forward
  BY <1>6, DecideKeeps, PrepareKeeps, InstallKeeps, ReleaseKeeps, FinishKeeps DEF Forward
<1>7. CASE Backward
  BY <1>7, PrepareKeeps, InstallKeeps, RollbackKeeps, RestoreKeeps, RecoverKeeps,
     GuardedFailsKeeps DEF Backward
<1>8. CASE Fault
  BY <1>8, StopKeeps, RebootKeeps, ServiceWaitsKeeps, ExpireKeeps DEF Fault
<1>9. CASE UNCHANGED vars
  BY <1>9, StutterKeeps
<1> QED
  BY <1>1, <1>2, <1>3, <1>4, <1>5, <1>6, <1>7, <1>8, <1>9 DEF Next

\* The invariant holds whatever dies and whenever the service is started again.
THEOREM Invariance == Spec => []Inv
<1>1. Inv /\ [Next]_vars => Inv'
  BY NextKeeps
<1> QED
  BY <1>1, InitHolds, PTL DEF Spec

-----------------------------------------------------------------------------
(* What it says of updates *)

\* No update runs beside another (OneAtATime), whatever pointers and journals
\* deaths of bridge, administrator and coordinator left behind.
THEOREM OneUpdateAtATime == Spec => []OneAtATime
<1>1. Inv => OneAtATime
  <2> SUFFICES ASSUME Inv PROVE OneAtATime
    OBVIOUS
  <2>1. TypeOK /\ marker \in Jobs \union {None}
    BY TypeParts DEF Inv, EngineType
  <2>2. ASSUME NEW j \in Engaged PROVE j \in Jobs /\ Held(j)
    BY DEF Engaged, Held
  <2>3. ASSUME NEW j \in Engaged PROVE Engaged = {j} /\ marker \in {None, j}
    <3>1. \A k \in Jobs : Held(k) => k = j
      BY <2>2 DEF Inv, PointerInv
    <3>2. Engaged = {j}
      BY <2>2, <3>1
    <3>3. marker # None => Held(marker)
      BY DEF Inv, PointerInv
    <3> QED
      BY <2>1, <3>1, <3>2, <3>3
  <2> QED
    BY <2>1, <2>3 DEF OneAtATime
<1> QED
  BY <1>1, Invariance, PTL

\* While files or database may be incomplete, admission is closed, drained and
\* nothing is broadcast (FencedWhileUncertain).
THEOREM UncertainIsFenced == Spec => []FencedWhileUncertain
<1>1. Inv => FencedWhileUncertain
  <2> SUFFICES ASSUME Inv PROVE FencedWhileUncertain
    OBVIOUS
  <2>1. ASSUME NEW j \in Jobs, job[j].phase \in Closed PROVE marker = j /\ Drained /\ ~ db.busy
    <3>1. marker = j /\ j # None
      BY <2>1, UpdatesAssumption DEF Inv, FenceInv
    <3>2. Sound(job[j], wants[j], db)
      BY DEF Inv, JournalInv
    <3> QED
      BY <2>1, <3>1, <3>2 DEF Inv, FenceInv, Sound
  <2>2. installed = Mixed => marker # None
    BY DEF Inv, FenceInv
  <2> QED
    BY <2>1, <2>2 DEF FencedWhileUncertain
<1> QED
  BY <1>1, Invariance, PTL

\* No committed update is older than what it replaced (NoDowngrade).
THEOREM NothingIsDowngraded == Spec => []NoDowngrade
<1>1. Inv => NoDowngrade
  BY DEF Inv, JournalInv, Sound, NoDowngrade
<1> QED
  BY <1>1, Invariance, PTL

\* Only Restore writes the database back.
LEMMA RestoreFacts ==
  ASSUME Inv, Next, host.at = "restore", host'.at = "rewrite"
  PROVE  Restore
<1>1. \A at \in Stages : Goes(at) => host'.at = at
  BY GoesFacts DEF Inv
<1>2. ASSUME host' = host PROVE FALSE
  BY <1>2
<1>3. ASSUME host' = Off PROVE FALSE
  BY <1>3, OffFacts
<1>4. CASE Api \/ Admin
  BY <1>2, <1>4, OffFacts DEF Api, Admin, Enter, Leave, Ask, Mutate, Replace, Commits, Authorize, Lapse,
     DispatchCancels, DispatchSends, DispatchCommits, DispatchLost, Offer, OfferBegins, OfferVerifies,
     OfferPublishes, OfferFails, CliQueue
<1>5. CASE Call \/ Queue \/ Service \/ Load \/ Hold \/ HoldTimesOut
  BY <1>2, <1>3, <1>5, OffFacts DEF Call, CallAccepts, CallPublishes, CallWakes, Queue, QueueStages, QueueVerifies,
     QueueFails, QueuePoints, Service, ServiceStarts, ServiceFails, ServiceRefused, Load, Hold, HoldTimesOut
<1>6. CASE Forward
  BY <1>6 DEF Forward, Decide, Idle, NotIdle, Plan, Prepare, Install, InstallEnds, Commit, Release, Finish
<1>7. CASE Backward
  BY <1>3, <1>7 DEF Backward, PrepareFails, InstallFails, Rollback, RestoreEnds, Recover, GuardedFails, Exits
<1>8. CASE Fault
  BY <1>2, <1>3, <1>8 DEF Fault, Dies, Reboot, IntervalPasses, Expire
<1> QED
  BY <1>4, <1>5, <1>6, <1>7, <1>8 DEF Next

\* A restoration rewinds nothing but the sign-ins (NoRewind): the recovery set
\* is of the database as it is.
THEOREM NothingIsRewound == Spec => NoRewind
<1>1. Inv /\ [Next]_vars => [host.at = "restore" /\ host'.at = "rewrite" => db' = Revoked(db)]_vars
  <2> SUFFICES ASSUME Inv, Next, host.at = "restore", host'.at = "rewrite" PROVE db' = Revoked(db)
    OBVIOUS
  <2>1. Restore
    BY RestoreFacts
  <2>2. PICK j \in Jobs : j = host.job /\ Work(j)
    BY RunningFacts DEF Running, Holding
  <2>3. job[j].phase = "ROLLING_BACK"
    BY <2>2 DEF Work, AtPhase
  <2>4. Revoked(job[j].saved.db) = Revoked(db)
    BY <2>2, <2>3 DEF Work, Sound, Uncertain
  <2> QED
    BY <2>1, <2>2, <2>4 DEF Restore, J
<1> QED
  BY <1>1, Invariance, PTL DEF Spec, NoRewind

\* Only Release opens admission.
LEMMA ReleaseFacts ==
  ASSUME Inv, Next, marker # None, marker' = None
  PROVE  Release
<1>1. ASSUME marker' = marker PROVE FALSE
  BY <1>1
<1>2. CASE Api \/ Admin
  BY <1>1, <1>2 DEF Api, Admin, Enter, Leave, Ask, Mutate, Replace, Commits, Authorize, Lapse, engineVars,
     DispatchCancels, DispatchSends, DispatchCommits, DispatchLost, Offer, OfferBegins, OfferVerifies,
     OfferPublishes, OfferFails, CliQueue
<1>3. CASE Call \/ Queue \/ Service \/ Load \/ HoldTimesOut
  BY <1>1, <1>3 DEF Call, CallAccepts, CallPublishes, CallWakes, Queue, QueueStages, QueueVerifies,
     QueueFails, QueuePoints, Service, ServiceStarts, ServiceFails, ServiceRefused, Load, HoldTimesOut,
     engineVars
<1>4. CASE Hold
  BY <1>4, RunningFacts, UpdatesAssumption DEF Hold, J, Running
<1>5. CASE Forward
  BY <1>1, <1>5 DEF Forward, Decide, Idle, NotIdle, Plan, Prepare, Install, InstallEnds, Commit, Finish
<1>6. CASE Backward
  BY <1>1, <1>6 DEF Backward, PrepareFails, InstallFails, Rollback, Restore, RestoreEnds, Recover,
     GuardedFails
<1>7. CASE Fault
  BY <1>1, <1>7 DEF Fault, Dies, Reboot, IntervalPasses, Expire, engineVars
<1> QED
  BY <1>2, <1>3, <1>4, <1>5, <1>6, <1>7 DEF Next

\* Admission opens only on the release that was decided for (OpensDecided).
THEOREM AdmissionOpensDecided == Spec => OpensDecided
<1>1. ASSUME Inv, Next, marker # None, marker' = None
      PROVE  /\ job[marker].phase \in Decided /\ installed # Mixed
             /\ job[marker].phase = "COMMITTED" => installed = wants[marker]
             /\ job[marker].phase = "RECOVERED" => installed = job[marker].saved.files
  <2>1. host.at = "release"
    BY <1>1, ReleaseFacts DEF Release
  <2>2. PICK j \in Jobs : j = host.job /\ Work(j)
    BY <1>1, <2>1, RunningFacts DEF Running, Holding
  <2>3. marker = j /\ AtPhase("release", job[j].phase) /\ AtFiles("release", job[j], wants[j], installed)
    BY <2>1, <2>2 DEF Work, Holding
  <2>4. job[j].phase = "RECOVERED" => job[j].saved.files = job[j].old
    BY <2>2 DEF Work, Sound
  <2> QED
    BY <2>3, <2>4 DEF AtPhase, AtFiles
<1>2. Inv /\ [Next]_vars =>
        [marker # None /\ marker' = None =>
           /\ job[marker].phase \in Decided /\ installed # Mixed
           /\ job[marker].phase = "COMMITTED" => installed = wants[marker]
           /\ job[marker].phase = "RECOVERED" => installed = job[marker].saved.files]_vars
  BY <1>1
<1> QED
  BY <1>2, Invariance, PTL DEF Spec, OpensDecided
=============================================================================
