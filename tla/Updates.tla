------------------------------- MODULE Updates -------------------------------
(***************************************************************************)
(* The generation manager (targets/krust/user/generation-manager), the     *)
(* metadata sector it writes, and init's reaction to a failed activation,  *)
(* over the kernel of module Generations.  Between any two steps of the    *)
(* manager it may be killed, init may give up on the generation, and the   *)
(* power may go.  The sector is written whole; a write that is reported as *)
(* failed may have reached the disk.                                       *)
(***************************************************************************)
EXTENDS Generations

CONSTANTS
  Parent,           \* Parent[g]: parent generation in the manifest of g
  MaxEntries        \* generation entries that fit in the sector

\* The manifests and the generations of the disk fit in the kernel's table, as
\* they do unless a bad-generation manifest is packaged beside a fallback: the
\* boot that finds the table full (BootFails) is in module Generations only.
ASSUME UpdateAssumption ==
  /\ Parent \in [Gens -> Gens \cup {NoGen}] /\ MaxEntries \in Nat /\ MaxProcesses >= 2
  /\ Cardinality(Manifests) + MaxDiskConfigs <= MaxConfigs

VARIABLES
  disk,             \* the generation metadata sector
  gm                \* the manager: next step, target, sector as it was loaded

updVars == <<genVars, disk, gm>>

ManagerProcess == 2
ManagerSteps ==
  {"idle", "prepare", "verify", "stage", "commit", "activate", "abort",
   "rollback verify", "rollback stage", "rollback write", "rollback", "rollback abort",
   "mark verify", "mark write", "mark", "register verify", "register"}
Idle == [step |-> "idle", target |-> NoGen, loaded |-> NoMetadata]
-----------------------------------------------------------------------------
(* The metadata sector *)

Entries(d) == {d.entries[i] : i \in 1 .. Len(d.entries)}
SelectedOf(d) == IF d.selected = NoGen THEN d.entries[1] ELSE d.selected
PreviousOf(d) == IF d.previous = NoGen THEN SelectedOf(d) ELSE d.previous
KnownGoodOf(d) == IF d.knownGood = NoGen THEN SelectedOf(d) ELSE d.knownGood

Checkpoint(state, failure, selected, previous, knownGood) ==
  [gm.loaded EXCEPT !.state = state, !.failure = failure, !.selected = selected,
                    !.previous = previous, !.knownGood = knownGood, !.target = gm.target]

Step(s) == IF s = "idle" THEN Idle ELSE [gm EXCEPT !.step = s]
At(step) == machine = "up" /\ gm.step = step

\* write_block_sector: the manager goes on when the write is acknowledged, and
\* gives the command up when it is not, whether or not the sector changed.
Write(sector, next) ==
  /\ \/ disk' = sector /\ gm' = Step(next)
     \/ disk' \in {disk, sector} /\ gm' = Idle
  /\ UNCHANGED genVars

\* load_generation_metadata, at the start of every command.
Load(step, g) ==
  /\ At("idle") /\ context[ManagerProcess] # NoContext
  /\ gm' = [step |-> step, target |-> g, loaded |-> disk]
  /\ UNCHANGED <<genVars, disk>>

\* The verify_generation call of a command.
Verify(step, next, refused) ==
  /\ At(step)
  /\ gm' = Step(IF VerifyGeneration(gm.target) THEN next ELSE refused)
  /\ UNCHANGED <<genVars, disk>>
-----------------------------------------------------------------------------
(* install_generation *)

InstallLoad(g) == g \in Entries(disk) /\ Load("prepare", g)

InstallPrepare ==
  LET selected == SelectedOf(gm.loaded) IN
  /\ At("prepare")
  /\ Write(Checkpoint("prepare", FALSE, selected, selected, KnownGoodOf(gm.loaded)), "verify")

\* Broken on purpose: the runtime is not staged before the commit.
InstallVerifyOnly == Verify("verify", "commit", "abort")

InstallVerify == Verify("verify", "stage", "abort")

\* Broken on purpose: the result of staging is not looked at.
InstallStageUnchecked ==
  /\ At("stage")
  /\ \/ StageActive(gm.target) \/ StageGeneration(gm.target) \/ StageGenerationFails(gm.target)
  /\ gm' = Step("commit") /\ UNCHANGED disk

InstallStage ==
  /\ At("stage")
  /\ \/ (StageActive(gm.target) \/ StageGeneration(gm.target)) /\ gm' = Step("commit")
     \/ StageGenerationFails(gm.target) /\ gm' = Step("abort")
  /\ UNCHANGED disk

\* Broken on purpose: the commit record still selects the old generation.
InstallCommitKeepsSelected ==
  LET selected == SelectedOf(gm.loaded) IN
  /\ At("commit")
  /\ Write(Checkpoint("commit", FALSE, selected, selected, KnownGoodOf(gm.loaded)), "activate")

InstallCommit ==
  /\ At("commit")
  /\ Write(Checkpoint("commit", FALSE, gm.target, SelectedOf(gm.loaded), KnownGoodOf(gm.loaded)),
           "activate")

\* activate_generation.  By SwitchIsReady the kernel still has the target
\* staged or active, so it neither stages again nor refuses.  Entering the
\* target ends the manager with every other process.
InstallActivate ==
  /\ At("activate")
  /\ ActivateActive(gm.target) \/ ActivateStaged(gm.target)
  /\ gm' = Idle /\ UNCHANGED disk

InstallAbort ==
  LET selected == SelectedOf(gm.loaded) IN
  /\ At("abort")
  /\ Write(Checkpoint("abort", TRUE, selected, selected, KnownGoodOf(gm.loaded)), "idle")
-----------------------------------------------------------------------------
(* rollback_generation *)

RollbackLoad(g) == g \in Entries(disk) /\ Load("rollback verify", g)

RollbackVerify == Verify("rollback verify", "rollback stage", "idle")

RollbackStage ==
  /\ At("rollback stage")
  /\ \/ StageRollback(gm.target) /\ gm' = Step("rollback write")
     \/ StageRollbackFails(gm.target) /\ gm' = Step("rollback abort")
  /\ UNCHANGED disk

RollbackWrite ==
  /\ At("rollback write")
  /\ Write(Checkpoint("rollback", TRUE, gm.target, SelectedOf(gm.loaded), gm.target), "rollback")

\* The kernel call, which SwitchIsReady shows cannot fail either.
RollbackEnter ==
  /\ At("rollback") /\ RollbackStaged(gm.target)
  /\ gm' = Idle /\ UNCHANGED disk

RollbackAbort ==
  /\ At("rollback abort")
  /\ Write(Checkpoint("abort", TRUE, SelectedOf(gm.loaded), gm.target, gm.target), "idle")
-----------------------------------------------------------------------------
(* mark_known_good and register_import_generation *)

MarkLoad(g) == g \in Entries(disk) /\ g = SelectedOf(disk) /\ Load("mark verify", g)

MarkVerify == Verify("mark verify", "mark write", "idle")

MarkWrite ==
  /\ At("mark write")
  /\ Write(Checkpoint("clean", FALSE, SelectedOf(gm.loaded), PreviousOf(gm.loaded), gm.target),
           "mark")

MarkInKernel ==
  /\ At("mark") /\ (MarkKnownGood(gm.target) \/ MarkKnownGoodFails(gm.target))
  /\ gm' = Idle /\ UNCHANGED disk

RegisterLoad(g) == disk # NoMetadata /\ g \notin Entries(disk) /\ Load("register verify", g)

RegisterVerify == Verify("register verify", "register", "idle")

\* Broken on purpose: writes past the end of the sector.
RegisterUnbounded ==
  /\ At("register")
  /\ Write([gm.loaded EXCEPT !.entries = Append(@, gm.target)], "idle")

\* append_generation
RegisterAppend ==
  /\ At("register")
  /\ \/ /\ Len(gm.loaded.entries) < MaxEntries
        /\ Write([gm.loaded EXCEPT !.entries = Append(@, gm.target)], "idle")
     \/ /\ Len(gm.loaded.entries) >= MaxEntries
        /\ gm' = Idle /\ UNCHANGED <<genVars, disk>>
-----------------------------------------------------------------------------
(* Init, the machine *)

ManagerStarts == LoadContext(ManagerProcess) /\ UNCHANGED <<disk, gm>>
ManagerEnds == ReapContext(ManagerProcess) /\ gm' = Idle /\ UNCHANGED disk

\* activation_failed: init asks the kernel for the parent generation, and
\* exits with a failure (Halt) when there is none or the kernel refuses.
ActivationFails ==
  /\ context[InitProcess] # NoContext /\ Parent[active] # NoGen
  /\ RollbackStaged(Parent[active]) \/ StageAndRollback(Parent[active])
  /\ gm' = Idle /\ UNCHANGED disk

Stops == (AllExited \/ Halt \/ PowerLoss) /\ gm' = Idle /\ UNCHANGED disk
Restarts == Boot(disk) /\ UNCHANGED <<disk, gm>>
-----------------------------------------------------------------------------
(* The specification *)

UpdInit == GenInit /\ disk \in Metadata /\ gm = Idle

\* The switches that maybe_switch_generation scripts for two test generations
\* are left out: those generations have no manager.
UpdNext ==
  \/ \E g \in Gens : InstallLoad(g) \/ RollbackLoad(g) \/ MarkLoad(g) \/ RegisterLoad(g)
  \/ InstallPrepare \/ InstallVerify \/ InstallStage \/ InstallCommit \/ InstallActivate
  \/ InstallAbort
  \/ RollbackVerify \/ RollbackStage \/ RollbackWrite \/ RollbackEnter \/ RollbackAbort
  \/ MarkVerify \/ MarkWrite \/ MarkInKernel \/ RegisterVerify \/ RegisterAppend
  \/ ManagerStarts \/ ManagerEnds \/ ActivationFails \/ Stops \/ Restarts

UpdSpec == UpdInit /\ [][UpdNext]_updVars
-----------------------------------------------------------------------------
(* Properties *)

\* Types; the entries fit in the sector.
UpdTypeOK ==
  /\ GenTypeOK
  /\ disk \in MetadataRecord /\ Len(disk.entries) <= MaxEntries
  /\ gm \in [step : ManagerSteps, target : Gens \cup {NoGen}, loaded : MetadataRecord]

\* Whatever was interrupted, the generation the sector selects, the one it would
\* roll back to and the one it calls known good are generations that the next
\* boot can build and whose closure verifies: "a generation is not bootable
\* until its full closure is present and verified" and "partial installs are
\* recoverable".
BootableSelection ==
  \A g \in {disk.selected, PreviousOf(disk), KnownGoodOf(disk)} :
    g \in RegisteredFrom(disk.entries) /\ Image[g] = "ok"

\* The kernel can do what a COMMIT or ROLLBACK record announces: when the
\* record is on the disk the target is staged, in the right direction, or it
\* is already running.
SwitchIsReady ==
  /\ At("activate") => gm.target = active \/ StagedFor(gm.target, FALSE)
  /\ At("rollback") => StagedFor(gm.target, TRUE)

\* "Selected generation changes durably only after candidate verification and
\* staged runtime construction succeed."
DurableAfterStaging ==
  [][disk'.selected # disk.selected =>
       disk'.selected = active \/ staged.generation = disk'.selected]_updVars

\* A switch that the manager makes is on the disk before it happens: power
\* loss right after it boots the generation that was entered.
SwitchIsDurable ==
  [][Switches /\ (boot'.state = "commit" \/ At("rollback")) => disk.selected = active']_updVars

\* What the milestones say of a failed activation: it "falls back to the
\* previous known-good generation".
FallbackIsKnownGood ==
  [][Switches /\ boot'.state = "rollback" /\ ~At("rollback") =>
       LET knownGood == {boot.knownGood, disk.knownGood} IN
       active \notin knownGood => active' \in knownGood]_updVars

\* "Make generation selection and fallback disk-native": after a fallback the
\* disk selects the generation that runs.
FallbackIsDurable ==
  machine = "up" /\ active = boot.selected /\ boot.state = "rollback" => disk.selected = active
=============================================================================
