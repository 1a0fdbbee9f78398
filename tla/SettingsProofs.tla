--------------------------- MODULE SettingsProofs ---------------------------
(***************************************************************************)
(* The invariants of module Settings, for any number of pages, publishers, *)
(* outputs, names and values.                                              *)
(*                                                                         *)
(* Two of them are not inductive.  That no save is lost needs that the     *)
(* generation a page holds is never ahead of the row's (PageInv), so that  *)
(* a row that moves on leaves every older page behind for good.  What the  *)
(* first provisioning does is harmless because nothing exists before it    *)
(* (BeforeInv).                                                            *)
(***************************************************************************)
EXTENDS Settings, FiniteSetTheorems, TLAPS

\* Every generation is paid for by a change, the first one by provisioning.
BoundInv ==
  /\ \A s \in Settings : setting[s].generation <= changes + 1
  /\ \A o \in Outputs : output[o].generation <= changes
  /\ key <= changes + 1
  /\ \A c \in Conns : conn[c].key <= changes + 1
  /\ \A p \in Pages : page[p].generation <= changes + 1

\* Before the source is provisioned there is nothing.
BeforeInv ==
  key = 0 => /\ \A p \in Pages : page[p].of = None
             /\ \A c \in Conns : conn[c].state = "new"
             /\ ~ session.active
             /\ \A s \in Settings : setting[s].generation = 0

\* A page is never ahead of the row it shows, and one that is level with it shows
\* what the row holds.
Fits(g, x, content) ==
  /\ x \in Outputs => output[x].state # "absent"
  /\ g <= GenerationOf(x)
  /\ g = GenerationOf(x) => content = Shown(x)

PageInv ==
  \A p \in Pages : page[p].of # None => Fits(page[p].generation, page[p].of, page[p].content)

Inv == /\ TypeOK /\ BoundInv /\ BeforeInv /\ PageInv
       /\ ContractHolds /\ PublisherHasTheKey /\ OutputsUsable

USE SettingsAssumption DEF Settings, Contract

-----------------------------------------------------------------------------
(* The shapes of the steps *)

\* What a save or a script does to the pages: nothing, or its own is closed.
PagesKept == \/ page' = page
             \/ \E p \in Pages : Saved(p)

\* A setting moves on to its next generation.
SettingMoves(s, v) ==
  /\ s \in Settings
  /\ v \in Values \union {"default", "disabled"}
  /\ key # 0
  /\ s \in Contract => ~ InUse
  /\ Change
  /\ setting' = [setting EXCEPT ![s] = [generation |-> setting[s].generation + 1, content |-> v]]
  /\ PagesKept
  /\ UNCHANGED <<output, key, credential, conn, session>>

\* An output moves on to its next generation.
OutputMoves(o, r) ==
  /\ o \in Outputs
  /\ output[o].state # "absent"
  /\ r.state \in {"live", "archived"}
  /\ r.state = "live" => output[o].state = "live" /\ r.sealed = r.name /\ MayBeCalled(o, r.name)
  /\ r.generation = output[o].generation + 1
  /\ Change
  /\ output' = [output EXCEPT ![o] = r]
  /\ PagesKept
  /\ UNCHANGED <<setting, key, credential, conn, session>>

OutputRow == [state : {"absent", "live", "archived"},
              name : Names \union {None}, sealed : Names \union {None},
              enabled : BOOLEAN, generation : Generations]

\* The live outputs are finitely many.
LEMMA LiveFinite == IsFiniteSet(Live) /\ Cardinality(Live) \in Nat
<1>1. Live \in SUBSET Outputs
  BY DEF Live
<1> QED
  BY <1>1, FS_Subset, FS_CardinalityType

PageRow == [of : Settings \union Outputs \union {None},
            generation : Generations,
            content : (Values \union Names \union {"default", "disabled", None}) \X BOOLEAN]

\* A closed page is a page.
LEMMA NoPageFact ==
  NoPage \in PageRow /\ NoPage.of = None /\ NoPage.generation = 0
<1>1. <<None, FALSE>> \in (Values \union Names \union {"default", "disabled", None}) \X BOOLEAN
  BY Zenon
<1>2. 0 \in Generations
  BY DEF Generations
<1> QED
  BY <1>1, <1>2 DEF NoPage, PageRow

\* Closing a page does not change another one.
LEMMA PagesKeptFact ==
  ASSUME TypeOK, PagesKept
  PROVE  /\ page' \in [Pages -> PageRow]
         /\ \A p \in Pages : page'[p] = page[p] \/ page'[p] = NoPage
<1>1. NoPage \in PageRow
  BY NoPageFact
<1>2. page \in [Pages -> PageRow]
  BY DEF TypeOK, PageRow
<1> QED
  BY <1>1, <1>2 DEF PagesKept, Saved

\* What a change does to the bounds.
LEMMA ChangeFact ==
  ASSUME TypeOK, Change
  PROVE  /\ changes \in Nat /\ changes' = changes + 1
         /\ changes' \in 0 .. MaxChanges /\ changes' + 1 <= MaxChanges + 1
BY DEF TypeOK, Change

\* A setting that moves on preserves the invariant: older pages stay behind, and one
\* of the contract does not move while the source is in use.
LEMMA SettingMovesInv ==
  ASSUME Inv, NEW s, NEW v, SettingMoves(s, v)
  PROVE  Inv'
<1> DEFINE g == setting[s].generation + 1
           row == [generation |-> g, content |-> v]
<1>1. /\ s \in Settings /\ v \in Values \union {"default", "disabled"}
      /\ key # 0 /\ setting' = [setting EXCEPT ![s] = row]
      /\ UNCHANGED <<output, key, credential, conn, session>>
      /\ s \in Contract => ~ session.active
  BY DEF SettingMoves, InUse
<1>2. /\ page' \in [Pages -> PageRow]
      /\ \A p \in Pages : page'[p] = page[p] \/ page'[p] = NoPage
  BY PagesKeptFact DEF SettingMoves, Inv
<1>3. /\ changes \in Nat /\ changes' = changes + 1
      /\ changes' \in 0 .. MaxChanges /\ changes' + 1 <= MaxChanges + 1
  BY ChangeFact DEF SettingMoves, Inv
<1>4. /\ setting[s].generation \in Nat /\ g \in Nat /\ g # 0
      /\ g <= changes' + 1 /\ g \in Generations
  BY <1>1, <1>3 DEF Inv, TypeOK, BoundInv, Generations
<1>5. \A t \in Settings : setting'[t] = IF t = s THEN row ELSE setting[t]
  BY <1>1 DEF Inv, TypeOK
<1>6. TypeOK'
  <2>1. setting' \in [Settings -> [generation : Generations,
                                   content : Values \union {"default", "disabled", None}]]
    BY <1>1, <1>4 DEF Inv, TypeOK
  <2>2. \A t \in Settings : setting'[t].content = None <=> setting'[t].generation = 0
    BY <1>1, <1>4, <1>5 DEF Inv, TypeOK
  <2> QED
    BY <1>1, <1>2, <1>3, <2>1, <2>2 DEF Inv, TypeOK, PageRow
<1>7. BoundInv'
  <2>1. \A t \in Settings : setting'[t].generation <= changes' + 1
    BY <1>3, <1>4, <1>5 DEF Inv, TypeOK, BoundInv, Generations
  <2>2. \A p \in Pages : page'[p].generation <= changes' + 1
    BY <1>2, <1>3, NoPageFact DEF Inv, TypeOK, BoundInv, Generations
  <2>3. /\ \A o \in Outputs : output[o].generation <= changes'
        /\ key <= changes' + 1
        /\ \A c \in Conns : conn[c].key <= changes' + 1
    BY <1>3 DEF Inv, TypeOK, BoundInv, Generations
  <2> QED
    BY <1>1, <2>1, <2>2, <2>3 DEF BoundInv
<1>8. PageInv'
  <2> SUFFICES ASSUME NEW p \in Pages, page'[p].of # None
               PROVE  Fits(page[p].generation, page[p].of, page[p].content)'
    BY DEF PageInv
  <2>0. page'[p] = page[p]
    BY <1>2, NoPageFact
  <2>1. CASE page[p].of = s
    BY <1>1, <1>4, <1>5, <2>0, <2>1 DEF Inv, TypeOK, PageInv, Fits, GenerationOf, Generations
  <2>2. CASE page[p].of # s
    <3>1. GenerationOf(page[p].of)' = GenerationOf(page[p].of) /\ Shown(page[p].of)' = Shown(page[p].of)
      BY <1>1, <1>5, <2>0, <2>2 DEF GenerationOf, Shown
    <3> QED
      BY <1>1, <2>0, <3>1 DEF Inv, PageInv, Fits
  <2> QED
    BY <2>1, <2>2
<1>9. BeforeInv' /\ ContractHolds' /\ PublisherHasTheKey'
  BY <1>1, <1>5 DEF Inv, BeforeInv, ContractHolds, PublisherHasTheKey
<1>10. OutputsUsable'
  BY <1>1, <1>6 DEF Inv, OutputsUsable, Live
<1> QED
  BY <1>6, <1>7, <1>8, <1>9, <1>10 DEF Inv

\* A save that changes nothing preserves the invariant.
LEMMA PageClosesInv ==
  ASSUME Inv, Change, PagesKept, UNCHANGED <<setting, output, key, credential, conn, session>>
  PROVE  Inv'
<1>1. /\ page' \in [Pages -> PageRow]
      /\ \A p \in Pages : page'[p] = page[p] \/ page'[p] = NoPage
  BY PagesKeptFact DEF Inv
<1>2. /\ changes \in Nat /\ changes' = changes + 1
      /\ changes' \in 0 .. MaxChanges /\ changes' + 1 <= MaxChanges + 1
  BY ChangeFact DEF Inv
<1>3. TypeOK'
  BY <1>1, <1>2 DEF Inv, TypeOK, PageRow
<1>4. BoundInv'
  <2>1. /\ \A s \in Settings : setting[s].generation \in Nat
        /\ \A o \in Outputs : output[o].generation \in Nat
        /\ \A c \in Conns : conn[c].key \in Nat
        /\ \A p \in Pages : page[p].generation \in Nat
        /\ key \in Nat
    BY DEF Inv, TypeOK, Generations
  <2>2. \A p \in Pages : page'[p].generation \in {0, page[p].generation}
    BY <1>1, NoPageFact
  <2>3. BoundInv
    BY DEF Inv
  <2> QED
    BY <1>2, <2>1, <2>2, <2>3 DEF BoundInv
<1>5. BeforeInv' /\ ContractHolds' /\ PublisherHasTheKey'
  BY <1>1, NoPageFact DEF Inv, BeforeInv, ContractHolds, PublisherHasTheKey
<1>6. PageInv'
  BY <1>1, NoPageFact DEF Inv, PageInv, Fits, GenerationOf, Shown
<1>7. OutputsUsable'
  BY <1>3 DEF Inv, OutputsUsable, Live
<1> QED
  BY <1>3, <1>4, <1>5, <1>6, <1>7 DEF Inv

\* An output that moves on preserves the invariant: older pages stay behind, and its
\* name stays its own.
LEMMA OutputMovesInv ==
  ASSUME Inv, NEW o, NEW r \in OutputRow, OutputMoves(o, r)
  PROVE  Inv'
<1>1. /\ o \in Outputs /\ output' = [output EXCEPT ![o] = r]
      /\ r.generation = output[o].generation + 1
      /\ r.state \in {"live", "archived"}
      /\ UNCHANGED <<setting, key, credential, conn, session>>
  BY DEF OutputMoves
<1>2. /\ page' \in [Pages -> PageRow]
      /\ \A p \in Pages : page'[p] = page[p] \/ page'[p] = NoPage
  BY PagesKeptFact DEF OutputMoves, Inv
<1>3. /\ changes \in Nat /\ changes' = changes + 1
      /\ changes' \in 0 .. MaxChanges /\ changes' + 1 <= MaxChanges + 1
  BY ChangeFact DEF OutputMoves, Inv
<1>4. /\ output[o].generation \in Nat /\ r.generation <= changes'
  BY <1>1, <1>3 DEF Inv, TypeOK, BoundInv, Generations
<1>5. \A x \in Outputs : output'[x] = IF x = o THEN r ELSE output[x]
  BY <1>1 DEF Inv, TypeOK
<1>6. TypeOK'
  <2>1. output' \in [Outputs -> OutputRow]
    BY <1>1 DEF Inv, TypeOK, OutputRow
  <2> QED
    BY <1>1, <1>2, <1>3, <2>1 DEF Inv, TypeOK, PageRow, OutputRow
<1>7. BoundInv'
  <2>1. \A x \in Outputs : output'[x].generation <= changes'
    BY <1>3, <1>4, <1>5 DEF Inv, TypeOK, BoundInv, Generations
  <2>2. \A p \in Pages : page'[p].generation <= changes' + 1
    BY <1>2, <1>3, NoPageFact DEF Inv, TypeOK, BoundInv, Generations
  <2>3. /\ \A t \in Settings : setting[t].generation <= changes' + 1
        /\ key <= changes' + 1
        /\ \A c \in Conns : conn[c].key <= changes' + 1
    BY <1>3 DEF Inv, TypeOK, BoundInv, Generations
  <2> QED
    BY <1>1, <2>1, <2>2, <2>3 DEF BoundInv
<1>8. PageInv'
  <2> SUFFICES ASSUME NEW p \in Pages, page'[p].of # None
               PROVE  Fits(page[p].generation, page[p].of, page[p].content)'
    BY DEF PageInv
  <2>0. page'[p] = page[p]
    BY <1>2, NoPageFact
  <2>1. CASE page[p].of = o
    BY <1>1, <1>4, <1>5, <2>0, <2>1 DEF Inv, TypeOK, PageInv, Fits, GenerationOf, Generations
  <2>2. CASE page[p].of # o
    <3>1. page[p].of \in Settings \union Outputs
      BY <2>0 DEF Inv, TypeOK
    <3>2. GenerationOf(page[p].of)' = GenerationOf(page[p].of) /\ Shown(page[p].of)' = Shown(page[p].of)
      BY <1>1, <1>5, <2>0, <2>2, <3>1 DEF GenerationOf, Shown
    <3> QED
      BY <1>1, <1>5, <2>0, <2>2, <3>2 DEF Inv, PageInv, Fits
  <2> QED
    BY <2>1, <2>2
<1>9. BeforeInv' /\ ContractHolds' /\ PublisherHasTheKey'
  BY <1>1, <1>2, NoPageFact DEF Inv, BeforeInv, ContractHolds, PublisherHasTheKey
<1>10. OutputsUsable'
  <2>1. Live' \in {Live, Live \ {o}}
    BY <1>5 DEF Live, OutputMoves
  <2>2. Cardinality(Live \ {o}) \in {Cardinality(Live), Cardinality(Live) - 1}
    BY LiveFinite, FS_RemoveElement
  <2>3. Cardinality(Live') <= OutputLimit
    BY <2>1, <2>2, LiveFinite DEF Inv, OutputsUsable
  <2>4. \A x \in Live' : output'[x].sealed = output'[x].name
    BY <1>5, <2>1 DEF Inv, Live, OutputsUsable, OutputMoves
  <2>5. \A x, y \in Live' : output'[x].name = output'[y].name => x = y
    BY <1>5, <2>1 DEF Inv, Live, OutputsUsable, OutputMoves, MayBeCalled
  <2> QED
    BY <1>6, <2>3, <2>4, <2>5 DEF OutputsUsable
<1> QED
  BY <1>6, <1>7, <1>8, <1>9, <1>10 DEF Inv

-----------------------------------------------------------------------------
(* Every action preserves Inv *)

\* A page that is current belongs to a source that exists.
LEMMA CurrentPage ==
  ASSUME Inv, NEW p \in Pages, NEW x \in Settings \union Outputs, Current(p, x)
  PROVE  key # 0 /\ (x \in Outputs => output[x].state # "absent")
BY DEF Inv, Current, BeforeInv, PageInv, Fits

\* GET of a page preserves the invariant: it shows the row it is level with.
LEMMA LoadInv ==
  ASSUME Inv, NEW p \in Pages, NEW x \in Settings \union Outputs, Load(p, x)
  PROVE  Inv'
<1> USE DEF Inv, Load
<1>1. TypeOK'
  <2>1. GenerationOf(x) \in Generations
    BY DEF TypeOK, GenerationOf
  <2>2. Shown(x) \in (Values \union Names \union {"default", "disabled", None}) \X BOOLEAN
    BY DEF TypeOK, Shown
  <2>3. [of |-> x, generation |-> GenerationOf(x), content |-> Shown(x)] \in PageRow
    BY <2>1, <2>2 DEF PageRow
  <2>4. page \in [Pages -> PageRow]
    BY DEF TypeOK, PageRow
  <2>5. page' \in [Pages -> PageRow]
    BY <2>3, <2>4
  <2> QED
    BY <2>5 DEF TypeOK, PageRow
<1>2. BoundInv'
  BY DEF TypeOK, BoundInv, GenerationOf, Generations
<1>3. BeforeInv'
  BY DEF BeforeInv
<1>4. PageInv'
  <2> SUFFICES ASSUME NEW q \in Pages, page'[q].of # None
               PROVE  Fits(page[q].generation, page[q].of, page[q].content)'
    BY DEF PageInv
  <2>1. GenerationOf(x) \in Nat
    BY DEF TypeOK, GenerationOf, Generations
  <2>2. CASE q = p
    BY <2>1, <2>2 DEF TypeOK, Live, Fits, GenerationOf, Shown
  <2>3. CASE q # p
    BY <2>3 DEF PageInv, TypeOK, Fits, GenerationOf, Shown
  <2> QED
    BY <2>2, <2>3
<1>5. ContractHolds' /\ PublisherHasTheKey' /\ OutputsUsable'
  BY <1>1 DEF ContractHolds, PublisherHasTheKey, OutputsUsable, Live
<1> QED
  BY <1>1, <1>2, <1>3, <1>4, <1>5

\* Provisioning preserves the invariant: nothing was there, or the stream moves on.
LEMMA ProvisionInv ==
  ASSUME Inv, Provision
  PROVE  Inv'
<1>1. CASE key = 0
  <2> USE <1>1 DEF Inv, Provision
  <2>1. TypeOK'
    BY DEF TypeOK, BoundInv, Generations
  <2>2. BoundInv'
    BY DEF TypeOK, BoundInv, BeforeInv, Generations
  <2>3. BeforeInv' /\ PageInv' /\ ContractHolds' /\ PublisherHasTheKey'
    BY DEF BeforeInv, PageInv, ContractHolds, PublisherHasTheKey
  <2>4. OutputsUsable'
    BY <2>1 DEF OutputsUsable, Live
  <2> QED
    BY <2>1, <2>2, <2>3, <2>4
<1>2. CASE key # 0
  <2>1. SettingMoves("stream", "default")
    BY <1>2 DEF Provision, SettingMoves, PagesKept
  <2> QED
    BY <2>1, SettingMovesInv
<1> QED
  BY <1>1, <1>2

\* Rotating the key preserves the invariant: there is no publisher then.
LEMMA RotateKeyInv ==
  ASSUME Inv, RotateKey
  PROVE  Inv'
<1>1. /\ key # 0 /\ ~ InUse /\ key' = key + 1 /\ credential' = key + 1
      /\ UNCHANGED <<setting, output, conn, session, page>>
  BY DEF RotateKey
<1>2. /\ changes \in Nat /\ changes' = changes + 1
      /\ changes' \in 0 .. MaxChanges /\ changes' + 1 <= MaxChanges + 1
  BY ChangeFact DEF RotateKey, Inv
<1>3. TypeOK'
  <2>1. key' \in Generations
    BY <1>1, <1>2 DEF Inv, TypeOK, BoundInv, Generations
  <2> QED
    BY <1>1, <1>2, <2>1 DEF Inv, TypeOK
<1>4. BoundInv'
  BY <1>1, <1>2 DEF Inv, TypeOK, BoundInv, Generations
<1>5. PublisherHasTheKey'
  BY <1>1 DEF PublisherHasTheKey, InUse
<1>6. BeforeInv' /\ ContractHolds'
  <2>1. key' # 0
    BY <1>1 DEF Inv, TypeOK, Generations
  <2> QED
    BY <1>1, <2>1 DEF Inv, BeforeInv, ContractHolds
<1>6a. PageInv'
  BY <1>1 DEF Inv, PageInv, Fits, GenerationOf, Shown
<1>7. OutputsUsable'
  BY <1>1, <1>3 DEF Inv, OutputsUsable, Live
<1> QED
  BY <1>3, <1>4, <1>5, <1>6, <1>6a, <1>7 DEF Inv

\* The saves of settings preserve the invariant: each moves one setting on, but for
\* the removal of an asset that is not there.
LEMMA SaveSettingInv ==
  ASSUME Inv, NEW p \in Pages,
         \/ \E b \in BOOLEAN : UpdateStream(p, b)
         \/ \E v \in Values : UpdateSlate(p, v) \/ UpdateMedia(p, v) \/ UpdateFallback(p, v)
         \/ DeleteFallback(p)
  PROVE  Inv'
<1>1. ASSUME NEW x \in Settings, Current(p, x) PROVE key # 0
  BY <1>1, CurrentPage
<1>2. ASSUME NEW b \in BOOLEAN, UpdateStream(p, b) PROVE Inv'
  <2>1. SettingMoves("stream", IF b THEN "default" ELSE "disabled")
    BY <1>1, <1>2 DEF UpdateStream, SettingMoves, PagesKept
  <2> QED
    BY <2>1, SettingMovesInv
<1>3. ASSUME NEW v \in Values, UpdateSlate(p, v) PROVE Inv'
  <2>1. SettingMoves("slate", v)
    BY <1>1, <1>3 DEF UpdateSlate, SettingMoves, PagesKept
  <2> QED
    BY <2>1, SettingMovesInv
<1>4. ASSUME NEW s \in Contract, NEW v \in Values, UpdateContract(p, s, v) PROVE Inv'
  <2>1. SettingMoves(s, v)
    BY <1>1, <1>4 DEF UpdateContract, SettingMoves, PagesKept
  <2> QED
    BY <2>1, SettingMovesInv
<1>5. ASSUME DeleteFallback(p) PROVE Inv'
  <2>1. CASE setting["asset"].generation # 0
    <3>1. SettingMoves("asset", "default")
      BY <1>1, <1>5, <2>1 DEF DeleteFallback, SettingMoves, PagesKept, Removed
    <3> QED
      BY <3>1, SettingMovesInv
  <2>2. CASE setting["asset"].generation = 0
    <3>1. setting' = setting
      BY <1>5, <2>2 DEF DeleteFallback, Removed, Inv, TypeOK
    <3> QED
      BY <1>5, <3>1, PageClosesInv DEF DeleteFallback, PagesKept
  <2> QED
    BY <2>1, <2>2
<1> QED
  BY <1>2, <1>3, <1>4, <1>5 DEF UpdateMedia, UpdateFallback

\* The saves of outputs preserve the invariant: each moves one output on.
LEMMA SaveOutputInv ==
  ASSUME Inv, NEW o \in Outputs,
         \/ RetryDestination(o)
         \/ \E p \in Pages : \/ DeleteOutput(p, o)
                             \/ RetryOutput(p, o)
                             \/ \E n \in Names, e, s \in BOOLEAN : UpdateOutput(p, o, n, e, s)
  PROVE  Inv'
<1>1. output[o] \in OutputRow
  BY DEF Inv, TypeOK, OutputRow
<1>2. /\ changes \in Nat /\ output[o].generation \in Nat /\ output[o].generation <= changes
  BY DEF Inv, TypeOK, BoundInv, Generations
<1>3. Change => output[o].generation + 1 \in Generations
  BY <1>2 DEF Change, Generations
<1>4. o \in Live => output[o].state = "live" /\ output[o].sealed = output[o].name
                    /\ MayBeCalled(o, output[o].name)
  BY DEF Inv, Live, OutputsUsable, MayBeCalled
<1>5. ASSUME NEW p \in Pages, DeleteOutput(p, o) PROVE Inv'
  <2> DEFINE r == [output[o] EXCEPT !.state = "archived", !.enabled = FALSE,
                                    !.sealed = None, !.generation = @ + 1]
  <2>1. r \in OutputRow /\ r.generation = output[o].generation + 1 /\ r.state = "archived"
    BY <1>1, <1>3, <1>5 DEF DeleteOutput, OutputRow
  <2>2. output[o].state = "live" /\ output' = [output EXCEPT ![o] = r]
    BY <1>4, <1>5 DEF DeleteOutput
  <2>3. Change /\ PagesKept /\ UNCHANGED <<setting, key, credential, conn, session>>
    BY <1>5 DEF DeleteOutput, PagesKept
  <2> HIDE DEF r
  <2>4. OutputMoves(o, r)
    BY <2>1, <2>2, <2>3 DEF OutputMoves
  <2> QED
    BY <2>1, <2>4, OutputMovesInv
<1>6. ASSUME RetryDestination(o) \/ \E p \in Pages : RetryOutput(p, o) PROVE Inv'
  <2> DEFINE r == [output[o] EXCEPT !.generation = @ + 1]
  <2>1. /\ r \in OutputRow /\ r.generation = output[o].generation + 1
        /\ r.state = output[o].state /\ r.name = output[o].name /\ r.sealed = output[o].sealed
    BY <1>1, <1>3, <1>6 DEF RetryOutput, RetryDestination, OutputRow
  <2>2. output[o].state # "absent" /\ output' = [output EXCEPT ![o] = r]
    BY <1>4, <1>6 DEF RetryOutput, RetryDestination
  <2>3. output[o].state = "live" => o \in Live
    BY DEF Live
  <2>4. /\ r.state \in {"live", "archived"}
        /\ r.state = "live" => output[o].state = "live" /\ r.sealed = r.name /\ MayBeCalled(o, r.name)
    BY <1>1, <1>4, <2>1, <2>2, <2>3 DEF OutputRow
  <2>5. Change /\ PagesKept /\ UNCHANGED <<setting, key, credential, conn, session>>
    BY <1>6 DEF RetryOutput, RetryDestination, PagesKept
  <2> HIDE DEF r
  <2>6. OutputMoves(o, r)
    BY <2>1, <2>2, <2>4, <2>5 DEF OutputMoves
  <2> QED
    BY <2>1, <2>6, OutputMovesInv
<1>7. ASSUME NEW p \in Pages, NEW n \in Names, NEW e \in BOOLEAN, NEW s \in BOOLEAN,
             UpdateOutput(p, o, n, e, s)
      PROVE  Inv'
  <2> DEFINE r == [output[o] EXCEPT !.name = n, !.sealed = Sealed(o, n, s), !.enabled = e,
                                    !.generation = @ + 1]
  <2>1. Sealed(o, n, s) = n
    BY <1>4, <1>7 DEF UpdateOutput, Sealed
  <2>2. /\ r \in OutputRow /\ r.generation = output[o].generation + 1
        /\ r.state = "live" /\ r.name = n /\ r.sealed = n
    BY <1>1, <1>3, <1>4, <1>7, <2>1 DEF UpdateOutput, OutputRow
  <2>3. output[o].state = "live" /\ output' = [output EXCEPT ![o] = r] /\ MayBeCalled(o, n)
    BY <1>4, <1>7 DEF UpdateOutput
  <2>3a. Change /\ PagesKept /\ UNCHANGED <<setting, key, credential, conn, session>>
    BY <1>7 DEF UpdateOutput, PagesKept
  <2> HIDE DEF r
  <2>4. OutputMoves(o, r)
    BY <2>2, <2>3, <2>3a DEF OutputMoves
  <2> QED
    BY <2>2, <2>4, OutputMovesInv
<1> QED
  BY <1>5, <1>6, <1>7

\* A new output preserves the invariant: its name is free and there is room.
LEMMA CreateOutputInv ==
  ASSUME Inv, NEW o \in Outputs, NEW n \in Names, NEW e \in BOOLEAN, CreateOutput(o, n, e)
  PROVE  Inv'
<1> DEFINE r == [state |-> "live", name |-> n, sealed |-> n, enabled |-> e, generation |-> 1]
<1>1. /\ key # 0 /\ output[o].state = "absent" /\ output' = [output EXCEPT ![o] = r]
      /\ Cardinality(Live) < OutputLimit /\ MayBeCalled(o, n)
      /\ UNCHANGED <<setting, key, credential, conn, session, page>>
  BY DEF CreateOutput
<1>2. /\ changes \in Nat /\ changes' = changes + 1
      /\ changes' \in 0 .. MaxChanges /\ changes' + 1 <= MaxChanges + 1
  BY ChangeFact DEF Inv, CreateOutput
<1>3. r \in OutputRow
  BY DEF OutputRow, Generations
<1>4. \A x \in Outputs : output'[x] = IF x = o THEN r ELSE output[x]
  BY <1>1 DEF Inv, TypeOK
<1>5. TypeOK'
  <2>1. output' \in [Outputs -> OutputRow]
    BY <1>1, <1>3 DEF Inv, TypeOK, OutputRow
  <2> QED
    BY <1>1, <1>2, <2>1 DEF Inv, TypeOK, OutputRow
<1>6. BoundInv'
  BY <1>1, <1>2, <1>4 DEF Inv, TypeOK, BoundInv, Generations
<1>7. BeforeInv' /\ ContractHolds' /\ PublisherHasTheKey'
  BY <1>1 DEF Inv, BeforeInv, ContractHolds, PublisherHasTheKey
<1>8. PageInv'
  <2> SUFFICES ASSUME NEW p \in Pages, page[p].of # None
               PROVE  Fits(page[p].generation, page[p].of, page[p].content)'
    BY <1>1 DEF PageInv
  <2>1. page[p].of # o /\ page[p].of \in Settings \union Outputs
    BY <1>1 DEF Inv, TypeOK, PageInv, Fits
  <2>2. /\ GenerationOf(page[p].of)' = GenerationOf(page[p].of)
        /\ Shown(page[p].of)' = Shown(page[p].of)
    BY <1>1, <1>4, <2>1 DEF GenerationOf, Shown
  <2> QED
    BY <1>1, <1>4, <2>1, <2>2 DEF Inv, PageInv, Fits
<1>9. OutputsUsable'
  <2>1. Live' = Live \union {o} /\ o \notin Live
    BY <1>1, <1>4 DEF Live
  <2>2. Cardinality(Live \union {o}) = Cardinality(Live) + 1
    BY <2>1, LiveFinite, FS_AddElement
  <2>3. Cardinality(Live') <= OutputLimit
    BY <1>1, <2>1, <2>2, LiveFinite
  <2>4. \A x \in Live' : output'[x].sealed = output'[x].name
    BY <1>4, <2>1 DEF Inv, Live, OutputsUsable
  <2>5. \A x, y \in Live' : output'[x].name = output'[y].name => x = y
    BY <1>1, <1>4, <2>1 DEF Inv, Live, OutputsUsable, MayBeCalled
  <2> QED
    BY <1>5, <2>3, <2>4, <2>5 DEF OutputsUsable
<1> QED
  BY <1>5, <1>6, <1>7, <1>8, <1>9 DEF Inv

ConnRow == [state : {"new", "asked", "denied", "CONNECTED", "DISCONNECTED"}, key : Generations,
            by : {"key", "sight"}, over : BOOLEAN]

SessionRow == [active : BOOLEAN, stopped : BOOLEAN, conn : Conns \union {None},
               contract : [Contract -> Generations]]

\* The contract a session begins with now.
ContractNow == [s \in Contract |-> setting[s].generation]

\* What the invariant needs of the steps of publishers and sessions.
Publishing ==
  /\ UNCHANGED <<setting, output, key, credential, page, changes>>
  /\ key # 0
  /\ conn' \in [Conns -> ConnRow]
  /\ \A c \in Conns :
       /\ conn'[c].key \in {conn[c].key, key}
       /\ conn'[c].state = "CONNECTED" /\ conn'[c].by = "key" => conn'[c].key = key
  /\ session' \in SessionRow
  /\ session'.active => \/ session.active /\ session'.contract = session.contract
                        \/ session'.contract = ContractNow

\* Rows of connections and sessions are such rows.
LEMMA RowFacts ==
  ASSUME Inv
  PROVE  /\ conn \in [Conns -> ConnRow] /\ key \in Generations
         /\ session \in SessionRow /\ NoSession \in SessionRow
         /\ ContractNow \in [Contract -> Generations]
<1>1. conn \in [Conns -> ConnRow] /\ key \in Generations /\ session \in SessionRow
  BY DEF Inv, TypeOK, ConnRow, SessionRow
<1>2. NoSession \in SessionRow
  BY DEF NoSession, SessionRow, Generations
<1>3. ContractNow \in [Contract -> Generations]
  BY DEF Inv, TypeOK, ContractNow
<1> QED
  BY <1>1, <1>2, <1>3

\* Letting a connection in is of that shape if its key was compared, or need not be.
LEMMA ConnectedFacts ==
  ASSUME Inv, NEW c \in Conns, NEW by \in {"key", "sight"}, Connected(c, by), key # 0,
         by = "key" => conn[c].key = key,
         UNCHANGED <<setting, output, key, credential, page, changes>>
  PROVE  Publishing
<1>1. conn' = [conn EXCEPT ![c].state = "CONNECTED", ![c].by = by]
  BY DEF Connected
<1>2. conn' \in [Conns -> ConnRow]
  <2> DEFINE r == [conn[c] EXCEPT !.state = "CONNECTED", !.by = by]
  <2>1. r \in ConnRow
    BY RowFacts DEF ConnRow
  <2>2. conn' = [conn EXCEPT ![c] = r]
    BY <1>1, RowFacts
  <2> HIDE DEF r
  <2> QED
    BY <2>1, <2>2, RowFacts
<1>3. ASSUME NEW d \in Conns
      PROVE  /\ conn'[d].key = conn[d].key
             /\ conn'[d].state = "CONNECTED" /\ conn'[d].by = "key" => conn'[d].key = key
  <2>1. CASE d = c
    BY <1>1, <2>1, RowFacts DEF ConnRow
  <2>2. CASE d # c
    BY <1>1, <2>2, RowFacts DEF Inv, PublisherHasTheKey
  <2> QED
    BY <2>1, <2>2
<1>4. CASE session' = session
  BY <1>2, <1>3, <1>4, RowFacts DEF Publishing
<1>5. CASE session.active /\ session' = [session EXCEPT !.conn = c]
  <2>1. session' \in SessionRow /\ session'.contract = session.contract
    BY <1>5, RowFacts DEF SessionRow
  <2> QED
    BY <1>2, <1>3, <1>5, <2>1 DEF Publishing
<1>6. CASE session' = [active |-> TRUE, stopped |-> FALSE, conn |-> c, contract |-> ContractNow]
  <2>1. session' \in SessionRow /\ session'.contract = ContractNow
    BY <1>6, RowFacts DEF SessionRow
  <2> QED
    BY <1>2, <1>3, <2>1 DEF Publishing
<1> QED
  BY <1>4, <1>5, <1>6 DEF Connected, ContractNow

\* The end of a session changes nothing of a connection that is looked at here.
LEMMA OverFacts ==
  ASSUME Inv
  PROVE  /\ Over \in [Conns -> ConnRow]
         /\ \A c \in Conns : /\ Over[c].key = conn[c].key /\ Over[c].state = conn[c].state
                             /\ Over[c].by = conn[c].by
<1> SUFFICES ASSUME NEW c \in Conns
             PROVE  /\ Over[c] \in ConnRow
                    /\ Over[c].key = conn[c].key /\ Over[c].state = conn[c].state
                    /\ Over[c].by = conn[c].by
  BY DEF Over
<1>1. conn[c] \in ConnRow
  BY RowFacts
<1>2. Over[c] = IF c = session.conn THEN [conn[c] EXCEPT !.over = TRUE] ELSE conn[c]
  BY DEF Over
<1> QED
  BY <1>1, <1>2 DEF ConnRow

\* Steps of publishers and sessions are of that shape: the key a connection was
\* verified with is compared again when edgeAuth admits it, and a session begins with
\* the contract of that moment.
LEMMA PublisherSteps ==
  ASSUME Inv, \/ \E c \in Conns : Ask(c) \/ Admit(c) \/ Observe(c) \/ Disconnect(c)
              \/ StopSession \/ SessionEnds
  PROVE  Publishing
<1>1. \A c \in Conns : conn[c].state = "CONNECTED" /\ conn[c].by = "key" => conn[c].key = key
  BY DEF Inv, PublisherHasTheKey
<1>2. /\ \A c \in Conns : conn[c].state # "new" => key # 0
      /\ session.active => key # 0
  BY DEF Inv, BeforeInv
<1>3. ASSUME NEW c \in Conns, Ask(c) PROVE Publishing
  <2>1. /\ conn' = [conn EXCEPT ![c].state = "asked", ![c].key = key] /\ key # 0
        /\ UNCHANGED <<setting, output, key, credential, session, page, changes>>
    BY <1>3 DEF Ask
  <2>2. conn' \in [Conns -> ConnRow]
    BY <2>1, RowFacts DEF ConnRow
  <2>3. \A d \in Conns :
          /\ conn'[d].key \in {conn[d].key, key}
          /\ conn'[d].state = "CONNECTED" /\ conn'[d].by = "key" => conn'[d].key = key
    BY <1>1, <2>1, RowFacts DEF ConnRow
  <2> QED
    BY <2>1, <2>2, <2>3, RowFacts DEF Publishing
<1>4. ASSUME NEW c \in Conns, NEW st \in {"denied", "DISCONNECTED"}, conn[c].state # "new",
             conn' = [conn EXCEPT ![c].state = st],
             UNCHANGED <<setting, output, key, credential, session, page, changes>>
      PROVE  Publishing
  <2>1. conn' \in [Conns -> ConnRow]
    BY <1>4, RowFacts DEF ConnRow
  <2>2. \A d \in Conns :
          /\ conn'[d].key = conn[d].key
          /\ conn'[d].state = "CONNECTED" /\ conn'[d].by = "key" => conn'[d].key = key
    BY <1>1, <1>4, RowFacts DEF ConnRow
  <2> QED
    BY <1>2, <1>4, <2>1, <2>2, RowFacts DEF Publishing
<1>5. ASSUME NEW c \in Conns, Admit(c) PROVE Publishing
  <2>1. conn[c].state = "asked" /\ UNCHANGED <<setting, output, key, credential, page, changes>>
    BY <1>5 DEF Admit
  <2>2. CASE Admissible(c) /\ Connected(c, "key")
    BY <1>2, <2>1, <2>2, ConnectedFacts DEF Admissible
  <2>3. CASE conn' = [conn EXCEPT ![c].state = "denied"] /\ session' = session
    BY <1>4, <2>1, <2>3
  <2> QED
    BY <1>5, <2>2, <2>3 DEF Admit
<1>6. ASSUME NEW c \in Conns, Observe(c) PROVE Publishing
  BY <1>6, ConnectedFacts DEF Observe
<1>7. ASSUME NEW c \in Conns, Disconnect(c) PROVE Publishing
  BY <1>4, <1>7 DEF Disconnect
<1>8. ASSUME StopSession \/ SessionEnds PROVE Publishing
  <2>1. /\ conn' = Over /\ session.active
        /\ UNCHANGED <<setting, output, key, credential, page, changes>>
    BY <1>8 DEF StopSession, SessionEnds
  <2>2. conn' \in [Conns -> ConnRow]
    BY <2>1, OverFacts
  <2>3. \A d \in Conns :
          /\ conn'[d].key = conn[d].key
          /\ conn'[d].state = "CONNECTED" /\ conn'[d].by = "key" => conn'[d].key = key
    BY <1>1, <2>1, OverFacts
  <2>4. session' \in SessionRow /\ (session'.active => session'.contract = session.contract)
    <3>1. CASE session' = NoSession
      BY <3>1, RowFacts DEF NoSession
    <3>2. CASE session' = [session EXCEPT !.stopped = TRUE]
      BY <3>2, RowFacts DEF SessionRow
    <3> QED
      BY <1>8, <3>1, <3>2 DEF StopSession, SessionEnds
  <2> QED
    BY <1>2, <2>1, <2>2, <2>3, <2>4 DEF Publishing
<1> QED
  BY <1>3, <1>5, <1>6, <1>7, <1>8

\* Steps of publishers and sessions preserve the invariant.
LEMMA PublisherInv ==
  ASSUME Inv, Publishing
  PROVE  Inv'
<1> USE DEF Publishing
<1>2. TypeOK'
  BY DEF Inv, TypeOK, ConnRow, SessionRow
<1>3. BoundInv'
  BY DEF Inv, BoundInv
<1>4. BeforeInv' /\ PublisherHasTheKey'
  BY DEF Inv, BeforeInv, PublisherHasTheKey
<1>5. PageInv'
  BY DEF Inv, PageInv, Fits, GenerationOf, Shown
<1>6. ContractHolds'
  BY DEF Inv, ContractHolds, ContractNow
<1>7. OutputsUsable'
  BY <1>2 DEF Inv, OutputsUsable, Live
<1> QED
  BY <1>2, <1>3, <1>4, <1>5, <1>6, <1>7 DEF Inv

-----------------------------------------------------------------------------
(* The theorems *)

\* The invariant holds before anything is provisioned.
LEMMA InitInv == Init => Inv
<1> SUFFICES ASSUME Init PROVE Inv
  OBVIOUS
<1> USE DEF Init
<1>1. page \in [Pages -> PageRow] /\ \A p \in Pages : page[p].of = None /\ page[p].generation = 0
  BY NoPageFact
<1>2. output \in [Outputs -> OutputRow] /\ \A o \in Outputs : output[o].state = "absent" /\ output[o].generation = 0
  BY DEF NoOutput, OutputRow, Generations
<1>3. TypeOK
  BY <1>1, <1>2 DEF TypeOK, PageRow, OutputRow, NoSession, Generations
<1>4. BoundInv /\ BeforeInv /\ PageInv /\ ContractHolds /\ PublisherHasTheKey
  BY <1>1, <1>2 DEF BoundInv, BeforeInv, PageInv, ContractHolds, PublisherHasTheKey, NoSession
<1>5. Live = {}
  BY <1>2 DEF Live
<1>6. OutputsUsable
  BY <1>3, <1>5, FS_EmptySet DEF OutputsUsable
<1> QED
  BY <1>3, <1>4, <1>6 DEF Inv

\* Every step preserves the invariant.
LEMMA NextInv == Inv /\ [Next]_vars => Inv'
<1> SUFFICES ASSUME Inv, [Next]_vars PROVE Inv'
  OBVIOUS
<1>1. ASSUME NEW p \in Pages, NEW x \in Settings \union Outputs, Load(p, x) PROVE Inv'
  BY <1>1, LoadInv
<1>2. ASSUME NEW o \in Outputs, RetryDestination(o) PROVE Inv'
  BY <1>2, SaveOutputInv
<1>3. CASE UNCHANGED vars
  BY <1>3 DEF vars, Inv, TypeOK, BoundInv, BeforeInv, PageInv, Fits, GenerationOf, Shown,
              ContractHolds, PublisherHasTheKey, OutputsUsable, Live
<1> QED
  BY <1>1, <1>2, <1>3, ProvisionInv, RotateKeyInv, SaveSettingInv, SaveOutputInv, CreateOutputInv,
     PublisherSteps, PublisherInv DEF Next

\* The invariant holds in every reachable state.
THEOREM Invariance == Spec => []Inv
BY InitInv, NextInv, PTL DEF Spec

\* No save is lost, however many pages are open and whatever is saved, removed and
\* uploaded again meanwhile.
THEOREM NoSaveIsLost == Spec => []NoLostUpdate
<1>1. Inv => NoLostUpdate
  BY DEF Inv, TypeOK, PageInv, Fits, NoLostUpdate, Current
<1> QED
  BY <1>1, Invariance, PTL

\* The media profile and the fallback asset of a session do not change under it.
THEOREM ContractIsKept == Spec => []ContractHolds
<1>1. Inv => ContractHolds
  BY DEF Inv
<1> QED
  BY <1>1, Invariance, PTL

\* Whoever publishes because edgeAuth let it in has the key there is now, however often
\* polls and posts let others in without one.
THEOREM PublishersHaveTheKey == Spec => []PublisherHasTheKey
<1>1. Inv => PublisherHasTheKey
  BY DEF Inv
<1> QED
  BY <1>1, Invariance, PTL

\* Every live output opens its secret under its name, and names and their number are
\* as the tables demand; and every variable has its type.
THEOREM OutputsAreUsable == Spec => []OutputsUsable
<1>1. Inv => OutputsUsable
  BY DEF Inv
<1> QED
  BY <1>1, Invariance, PTL
=============================================================================
