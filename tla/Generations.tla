------------------------------ MODULE Generations ------------------------------
(***************************************************************************)
(* Generation switching in the kernel (ipc/generation.rs, and the staging  *)
(* and commit of a runtime in ipc/boot_runtime.rs): stage, activate, roll  *)
(* back, mark known good, discard, and the selection main.rs makes at boot *)
(* from the metadata sector of the disk.  Any holder of the update         *)
(* capability may make any of the calls; module Updates adds the caller    *)
(* that exists, the generation manager, and the sector it writes.          *)
(*                                                                         *)
(* A runtime is its generation and the address spaces of its processes.    *)
(* Each address space is identified by its root frame (cr3).  Only one     *)
(* runtime is staged at a time, and it has a single process, init.         *)
(***************************************************************************)
EXTENDS Integers, Sequences, FiniteSets

CONSTANTS
  Gens,             \* generation ids
  NoGen,            \* no generation: an empty id, or None
  Bootstrap,        \* generation of the selected boot manifest
  Fallback,         \* generation of the fallback boot manifest, or NoGen
  BadGen,           \* generation of the bad-generation boot manifest, or NoGen
  Image,            \* what loading and verifying a generation finds
  Volumes,          \* Volumes[g]: the state volumes the generation declares
  MaxConfigs,       \* MAX_GENERATION_CONFIGS
  MaxDiskConfigs,   \* config slots for generations named by the disk only
  MaxProcesses,     \* slots of the process table; init has the first
  Contexts,         \* root frames
  NoContext,        \* a context with cr3 = 0
  Metadata          \* generation metadata a boot may find on the disk

Processes == 1 .. MaxProcesses
InitProcess == 1

\* "ok" verifies; "corrupt" is registered but fails verification; the config
\* of "unbuildable" is not built; "unreadable" cannot be loaded from the disk.
ImageKinds == {"ok", "corrupt", "unbuildable", "unreadable"}
\* "clean" is also the "idle" of a boot manager that found no metadata.
TransactionStates == {"clean", "prepare", "commit", "rollback", "abort"}

StateVolume == [id : {"config", "data"}, schema : 1 .. 2, migrate : BOOLEAN, delete : BOOLEAN]

\* The generation metadata sector.  reason tells only whether a failure is
\* recorded; entries are the generations registered on the disk, in order.
MetadataRecord ==
  [entries : Seq(Gens), selected : Gens \cup {NoGen}, previous : Gens \cup {NoGen},
   knownGood : Gens \cup {NoGen}, state : TransactionStates,
   target : Gens \cup {NoGen}, failure : BOOLEAN]
NoMetadata == [selected |-> NoGen, entries |-> <<>>, previous |-> NoGen, knownGood |-> NoGen,
               state |-> "clean", target |-> NoGen, failure |-> FALSE]

ASSUME GenerationAssumption ==
  /\ NoGen \notin Gens /\ Bootstrap \in Gens
  /\ Fallback \in (Gens \ {Bootstrap}) \cup {NoGen}
  /\ BadGen \in (Gens \ {Bootstrap, Fallback}) \cup {NoGen}
  /\ Image \in [Gens -> ImageKinds]
  /\ \A g \in Gens \cap {Bootstrap, Fallback, BadGen} : Image[g] \in {"ok", "corrupt"}
  /\ Volumes \in [Gens -> SUBSET StateVolume]
  /\ MaxDiskConfigs \in Nat /\ MaxConfigs \in Nat /\ MaxDiskConfigs < MaxConfigs
  /\ MaxProcesses \in Nat \ {0}
  /\ NoContext \notin Contexts /\ Contexts # {}
  /\ \A d \in Metadata : d \in MetadataRecord

VARIABLES
  machine,          \* "off", "up", or "halted" until the power goes
  registered,       \* GENERATION_RUNTIMES
  active,           \* RuntimeState.generation_id
  rollbackTo,       \* ROLLBACK_RUNTIME
  failed,           \* FAILED_GENERATION: one id, the last one recorded
  staged,           \* STAGED_GENERATION
  boot,             \* BootManagerState
  context,          \* context[p]: cr3 of a process of the running runtime
  allocated         \* address spaces whose frames the frame ledger holds

genVars == <<machine, registered, active, rollbackTo, failed, staged, boot, context, allocated>>
-----------------------------------------------------------------------------
(* State *)

StagedRecord ==
  [generation : Gens \cup {NoGen}, previous : Gens \cup {NoGen}, rollback : BOOLEAN,
   initial : Contexts \cup {NoContext}, old : [Processes -> Contexts \cup {NoContext}]]
BootRecord ==
  [selected : Gens \cup {NoGen}, previous : Gens \cup {NoGen},
   knownGood : Gens \cup {NoGen}, state : TransactionStates]

\* StagedGeneration; old is the snapshot of the contexts to reap on commit.
Staged(g, c, rollback) ==
  [generation |-> g, previous |-> active, rollback |-> rollback, initial |-> c, old |-> context]
NotStaged == [generation |-> NoGen, previous |-> NoGen, rollback |-> FALSE,
              initial |-> NoContext, old |-> [p \in Processes |-> NoContext]]
IsStaged == staged.generation # NoGen

OnlyInit(c) == [p \in Processes |-> IF p = InitProcess THEN c ELSE NoContext]

\* BootManagerState, without the counters and the failure report.
BootState(selected, previous, knownGood, state) ==
  [selected |-> selected, previous |-> previous, knownGood |-> knownGood, state |-> state]
NoBoot == BootState(NoGen, NoGen, NoGen, "clean")
-----------------------------------------------------------------------------
(* Checks *)

\* Broken on purpose: takes a store closure with a wrong hash.
VerifiesAnything(g) == Image[g] # "unreadable"

\* verify_generation_transaction: installable, manifest hash, store closure.
Verifies(g) == Image[g] = "ok"

\* verify_generation, the system call.
VerifyGeneration(g) == g \in registered /\ g # failed /\ Verifies(g)

\* validate_state_transition_policy.
StateTransitionAllowed(from, to, rollback) ==
  /\ \A w \in Volumes[from], v \in Volumes[to] :
       w.id = v.id /\ w.schema # v.schema => rollback \/ v.migrate
  /\ \A w \in Volumes[from] : w.delete => \E v \in Volumes[to] : v.id = w.id
-----------------------------------------------------------------------------
(* Staging *)

\* Broken on purpose: reaps the running init instead of the staged one.
DiscardsRunning == IF IsStaged THEN allocated \ {context[InitProcess]} ELSE allocated

\* discard_uncommitted_staged_generation: what is left allocated.
Discarded == IF IsStaged THEN allocated \ {staged.initial} ELSE allocated

\* stage_boot_config_runtime: a fresh context for init of g, the contexts of
\* the running processes snapshot for later.
Stage(g, rollback) ==
  \E c \in Contexts \ Discarded :
    /\ staged' = Staged(g, c, rollback)
    /\ allocated' = Discarded \cup {c}
    /\ boot' = [boot EXCEPT !.previous = active, !.state = "prepare"]

\* install_prepare has been recorded and the staged runtime discarded when
\* verification, the state policy or the build refuses.  A build may run out
\* of frames at any time.
StageAborts ==
  /\ staged' = NotStaged
  /\ allocated' = Discarded
  /\ boot' = [boot EXCEPT !.previous = active, !.state = "abort"]

Installable(g) == Verifies(g) /\ StateTransitionAllowed(active, g, FALSE)

\* stage_generation of the generation that runs: nothing to do.
StageActive(g) ==
  /\ machine = "up" /\ g \in registered /\ g # failed /\ g = active
  /\ UNCHANGED genVars

\* Broken on purpose: forgets the failed generation.
StageAnyGeneration(g) ==
  /\ machine = "up" /\ g \in registered /\ g # active
  /\ Installable(g) /\ Stage(g, FALSE)
  /\ UNCHANGED <<machine, registered, active, rollbackTo, failed, context>>

StageGeneration(g) ==
  /\ machine = "up" /\ g \in registered /\ g # failed /\ g # active
  /\ Installable(g) /\ Stage(g, FALSE)
  /\ UNCHANGED <<machine, registered, active, rollbackTo, failed, context>>

StageGenerationFails(g) ==
  /\ machine = "up"
  /\ \/ (g \notin registered \/ g = failed) /\ UNCHANGED genVars
     \/ /\ g \in registered /\ g # failed /\ g # active
        /\ StageAborts
        /\ UNCHANGED <<machine, registered, active, rollbackTo, failed, context>>

\* stage_rollback_generation: neither verified nor checked against failed.
StageRollback(g) ==
  /\ machine = "up" /\ g = rollbackTo
  /\ StateTransitionAllowed(active, g, TRUE) /\ Stage(g, TRUE)
  /\ UNCHANGED <<machine, registered, active, rollbackTo, failed, context>>

StageRollbackFails(g) ==
  /\ machine = "up"
  /\ \/ g # rollbackTo /\ UNCHANGED genVars
     \/ /\ g = rollbackTo /\ StageAborts
        /\ UNCHANGED <<machine, registered, active, rollbackTo, failed, context>>
-----------------------------------------------------------------------------
(* Entering another generation *)

\* reap_runtime_contexts: one after the other, up to the first that fails
\* because its root frame is no longer allocated.  A stale root that fails is
\* walked before its owner is checked; the walk frees only frames of that
\* owner, and what it clears in a root frame put to another use is left out.
Reaped(old, spaces) ==
  spaces \ {old[p] : p \in {q \in Processes : \A r \in 1 .. q : old[r] \in spaces \cup {NoContext}}}

\* Broken on purpose: what was staged stays staged.
EnterKeepsStaged(runtime, spaces) ==
  /\ active' = runtime.generation
  /\ context' = OnlyInit(runtime.initial)
  /\ allocated' = Reaped(runtime.old, spaces)
  /\ staged' = staged

\* commit_staged_boot_config_runtime and clear_staged_generation.
Enter(runtime, spaces) ==
  /\ active' = runtime.generation
  /\ context' = OnlyInit(runtime.initial)
  /\ allocated' = Reaped(runtime.old, spaces)
  /\ staged' = NotStaged

\* Broken on purpose: the rollback runtime stays what it was.
SelectKeepsRollback(runtime) ==
  /\ rollbackTo' = rollbackTo
  /\ boot' = BootState(runtime.generation, runtime.previous, boot.knownGood, "commit")
  /\ failed' = failed

\* set_rollback_runtime, install_selected.
Select(runtime) ==
  /\ rollbackTo' = runtime.previous
  /\ boot' = BootState(runtime.generation, runtime.previous, boot.knownGood, "commit")
  /\ failed' = failed

\* set_rollback_runtime, set_failed_generation, mark_failed_and_fallback.
FallBack(runtime) ==
  /\ rollbackTo' = runtime.previous
  /\ boot' = BootState(runtime.generation, runtime.previous, boot.knownGood, "rollback")
  /\ failed' = runtime.previous

StagedFor(g, rollback) == staged.generation = g /\ staged.rollback = rollback

\* activate_generation of the generation that runs.
ActivateActive(g) ==
  /\ machine = "up" /\ g = active
  /\ UNCHANGED genVars

ActivateStaged(g) ==
  /\ machine = "up" /\ g # active /\ StagedFor(g, FALSE)
  /\ Enter(staged, allocated) /\ Select(staged)
  /\ UNCHANGED <<machine, registered>>

\* Nothing staged for g: activate_generation stages it first.
StageAndActivate(g) ==
  /\ machine = "up" /\ g # active /\ ~StagedFor(g, FALSE)
  /\ g \in registered /\ g # failed /\ Installable(g)
  /\ \E c \in Contexts \ Discarded :
       LET runtime == Staged(g, c, FALSE) IN
       Enter(runtime, Discarded \cup {c}) /\ Select(runtime)
  /\ UNCHANGED <<machine, registered>>

ActivateFails(g) == g # active /\ ~StagedFor(g, FALSE) /\ StageGenerationFails(g)

RollbackStaged(g) ==
  /\ machine = "up" /\ StagedFor(g, TRUE)
  /\ Enter(staged, allocated) /\ FallBack(staged)
  /\ UNCHANGED <<machine, registered>>

StageAndRollback(g) ==
  /\ machine = "up" /\ ~StagedFor(g, TRUE) /\ g = rollbackTo
  /\ StateTransitionAllowed(active, g, TRUE)
  /\ \E c \in Contexts \ Discarded :
       LET runtime == Staged(g, c, TRUE) IN
       Enter(runtime, Discarded \cup {c}) /\ FallBack(runtime)
  /\ UNCHANGED <<machine, registered>>

RollbackFails(g) == ~StagedFor(g, TRUE) /\ StageRollbackFails(g)

\* Broken on purpose: marks a generation that does not run.
MarkAnyKnownGood(g) ==
  /\ machine = "up" /\ g \in registered /\ Verifies(g)
  /\ boot' = [boot EXCEPT !.knownGood = g, !.selected = g]
  /\ UNCHANGED <<machine, registered, active, rollbackTo, failed, staged, context, allocated>>

MarkKnownGood(g) ==
  /\ machine = "up" /\ g \in registered /\ g = active /\ Verifies(g)
  /\ boot' = [boot EXCEPT !.knownGood = g, !.selected = g]
  /\ UNCHANGED <<machine, registered, active, rollbackTo, failed, staged, context, allocated>>

MarkKnownGoodFails(g) ==
  /\ machine = "up" /\ ~(g \in registered /\ g = active /\ Verifies(g))
  /\ UNCHANGED genVars
-----------------------------------------------------------------------------
(* Processes of the running generation *)

\* load_process_context, for a process created or restarted.
LoadContext(p) ==
  /\ machine = "up" /\ context[p] = NoContext
  /\ \E c \in Contexts \ allocated :
       context' = [context EXCEPT ![p] = c] /\ allocated' = allocated \cup {c}
  /\ UNCHANGED <<machine, registered, active, rollbackTo, failed, staged, boot>>

\* reap_process_context, after exit, fault or kill.
ReapContext(p) ==
  /\ machine = "up" /\ context[p] # NoContext
  /\ \E q \in Processes : q # p /\ context[q] # NoContext
  /\ context' = [context EXCEPT ![p] = NoContext]
  /\ allocated' = allocated \ {context[p]}
  /\ UNCHANGED <<machine, registered, active, rollbackTo, failed, staged, boot>>

\* exit_current of the last process, every process having exited with success:
\* the generation counts as known good, and the machine halts.
AllExited ==
  /\ machine = "up" /\ Cardinality({p \in Processes : context[p] # NoContext}) = 1
  /\ machine' = "halted"
  /\ boot' = [boot EXCEPT !.knownGood = active, !.selected = active]
  /\ UNCHANGED <<registered, active, rollbackTo, failed, staged, context, allocated>>

\* exit_current of init with a failure, or of a process that leaves none to run.
Halt ==
  /\ machine = "up" /\ machine' = "halted"
  /\ UNCHANGED <<registered, active, rollbackTo, failed, staged, boot, context, allocated>>
-----------------------------------------------------------------------------
(* Power *)

PowerLoss ==
  /\ machine # "off"
  /\ machine' = "off" /\ registered' = {} /\ active' = NoGen /\ rollbackTo' = NoGen
  /\ failed' = NoGen /\ staged' = NotStaged /\ boot' = NoBoot
  /\ context' = OnlyInit(NoContext) /\ allocated' = {}

\* Broken on purpose: registers a manifest that is not there.
ManifestsUnchecked == {Bootstrap, Fallback, BadGen}

Manifests == {Bootstrap, Fallback, BadGen} \ {NoGen}

\* register_vertexdisk_generation_configs: in the order of the entries, up to
\* the first that cannot be loaded or finds no config slot left.
DiskConfigs(entries) ==
  LET built(i) == {j \in 1 .. i : entries[j] \notin Manifests /\ Image[entries[j]] # "unbuildable"}
      reached == {i \in 1 .. Len(entries) : \A j \in 1 .. i :
                    \/ entries[j] \in Manifests
                    \/ /\ Image[entries[j]] # "unreadable"
                       /\ Cardinality(built(j - 1)) < MaxDiskConfigs}
  IN {entries[i] : i \in {j \in reached : Image[entries[j]] # "unbuildable"}}
RegisteredFrom(entries) == Manifests \cup DiskConfigs(entries)

\* Whose failure a recovered record reports.
FailedGeneration(d) ==
  IF ~d.failure THEN NoGen
  ELSE IF d.state = "rollback" /\ d.previous # NoGen THEN d.previous ELSE d.target

\* run_native_boot with the metadata d: what it selects, what it could roll
\* back to, and what it takes as failed.
Boot(d) ==
  LET configs == RegisteredFrom(d.entries)
      selected == IF d.selected = NoGen THEN Bootstrap ELSE d.selected
      recovered == selected \in configs IN
  /\ machine = "off" /\ Cardinality(configs) <= MaxConfigs
  /\ machine' = "up" /\ registered' = configs /\ staged' = NotStaged
  /\ active' = IF recovered THEN selected ELSE Bootstrap
  /\ rollbackTo' = IF recovered /\ d.previous \in configs THEN d.previous ELSE Fallback
  /\ failed' = IF recovered THEN FailedGeneration(d) ELSE NoGen
  /\ boot' = BootState(selected, d.previous, d.knownGood, d.state)
  /\ \E c \in Contexts : context' = OnlyInit(c) /\ allocated' = {c}

\* A manifest that finds the table of configs full ends the boot.
BootFails(d) ==
  /\ machine = "off" /\ Cardinality(RegisteredFrom(d.entries)) > MaxConfigs
  /\ machine' = "halted"
  /\ UNCHANGED <<registered, active, rollbackTo, failed, staged, boot, context, allocated>>
-----------------------------------------------------------------------------
(* The specification *)

GenInit ==
  /\ machine = "off" /\ registered = {} /\ active = NoGen /\ rollbackTo = NoGen
  /\ failed = NoGen /\ staged = NotStaged /\ boot = NoBoot
  /\ context = OnlyInit(NoContext) /\ allocated = {}

GenNext ==
  \/ \E g \in Gens :
       \/ StageActive(g) \/ StageGeneration(g) \/ StageGenerationFails(g)
       \/ StageRollback(g) \/ StageRollbackFails(g)
       \/ ActivateActive(g) \/ ActivateStaged(g) \/ StageAndActivate(g) \/ ActivateFails(g)
       \/ RollbackStaged(g) \/ StageAndRollback(g) \/ RollbackFails(g)
       \/ MarkKnownGood(g) \/ MarkKnownGoodFails(g)
  \/ \E p \in Processes : LoadContext(p) \/ ReapContext(p)
  \/ AllExited \/ Halt \/ PowerLoss
  \/ \E d \in Metadata : Boot(d) \/ BootFails(d)

GenSpec == GenInit /\ [][GenNext]_genVars
-----------------------------------------------------------------------------
(* Properties *)

\* Types.
GenTypeOK ==
  /\ machine \in {"off", "up", "halted"}
  /\ registered \subseteq Gens
  /\ active \in Gens \cup {NoGen} /\ rollbackTo \in Gens \cup {NoGen}
  /\ failed \in Gens \cup {NoGen}
  /\ staged \in StagedRecord /\ boot \in BootRecord
  /\ context \in [Processes -> Contexts \cup {NoContext}]
  /\ allocated \subseteq Contexts

\* Every process of the running generation, and the init that is staged,
\* has an address space of its own whose frames are allocated: what staging
\* discards and what a commit reaps from an old snapshot is never in use.
ContextsOwned ==
  /\ \A p \in Processes : context[p] # NoContext =>
       context[p] \in allocated /\ \A q \in Processes : context[q] = context[p] => q = p
  /\ IsStaged => /\ staged.initial \in allocated
                 /\ \A p \in Processes : context[p] # staged.initial

\* A staged runtime continues from the generation that runs; its init is not
\* among the address spaces its commit will reap, and it is not a generation
\* recorded as failed, unless it is a rollback.
StagedIsCurrent ==
  IsStaged => /\ staged.previous = active
              /\ \A p \in Processes : staged.old[p] # staged.initial
              /\ staged.rollback \/ staged.generation # failed

\* The boot manager's selected generation is the one that runs, unless the
\* disk selects one that no manifest and no entry could provide.
SelectedIsActive ==
  machine # "off" /\ boot.selected \in registered => boot.selected = active

Switches == machine = "up" /\ machine' = "up" /\ active' # active

\* activate_generation never enters the generation recorded as failed, not
\* even one that was staged earlier.
ActivationNotFailed ==
  [][Switches /\ boot'.state = "commit" => active' # failed]_genVars

\* After a switch in either direction the kernel can roll back to exactly the
\* generation it left, and a rollback has recorded that one as failed.
RollbackIsPrevious ==
  [][Switches => rollbackTo' = active /\ (boot'.state = "rollback" => failed' = active)]_genVars

\* What the frame ledger promises, "every allocated physical frame owned,
\* inspectable, and reclaimable": an allocated address space belongs to a
\* process or to the staged runtime.
NoOrphanContext ==
  allocated \subseteq {context[p] : p \in Processes} \cup {staged.initial}
=============================================================================
