# Krust verification project

TLA+ models of the Krust kernel of Vertex OS, model-checked with TLC, with
theorems proved in TLAPS. All paths below are relative to the repository root.

## The system and its parts

Krust (`kernel/krust/src`) is a single-CPU capability microkernel. User
programs (`targets/krust/user`) run in their own address spaces and reach
everything (endpoints, process control, timers, devices, VFS roots) through
process-local capability slots. A boot manifest names the processes, their
grants and their dependencies; a *generation* is one such manifest with its
policy, and a running system can be switched to another generation and back.

| part | code | state | operations |
|------|------|-------|------------|
| capabilities | `ipc/capability_syscalls.rs`, `ipc/object_lookup.rs`, `ipc/runtime_state.rs` | a capability space and a restart baseline per process, lineage log, revoked list | derive, copy, move, drop, transfer, revoke, inspect, namespace resolve, VFS root derive |
| objects | `kernel/object_table.rs` | endpoints, process control, namespaces, roots, devices | create, release unreferenced roots, remove owned endpoints |
| processes | `ipc/process_syscalls.rs`, `ipc/memory_mapping.rs`, `kernel/process_runtime.rs` | process table, template-to-pid table, exit statuses, quotas | create, start, restart, wait, kill, exit, fault, reap, quota delegate |
| scheduler | `ipc/scheduler.rs`, `timer.rs` | process states, the current process, deadlines | block, wake, sleep, yield, preempt, idle |
| IPC | `kernel/transport.rs`, `ipc/core_syscalls.rs` | bounded queues | send, receive, receive with timeout |
| generations | `ipc/generation.rs`, `ipc/boot_runtime.rs` | active and staging runtime, boot manager | stage, activate, verify, roll back, mark known good |
| generation manager | `targets/krust/user/generation-manager` | a metadata checkpoint on disk | install, roll back, mark known good, register |
| VFS | `ipc/vfs_*.rs`, `vfs/` | nodes, descriptions, locks, events, mounts, page cache | open, read, write, dup, lock, rename, link, unlink, mount, sync |
| VertexFS and state service | `ipc/vfs_transactions.rs`, `vfs/vertexfs.rs`, `user/vertex-state`, `user/block-driver` | write list of an fsync, journal sector, in-flight requests | fsync, state read and write through a service, recovery at boot |
| devices | `ipc/device_syscalls.rs`, `device/` | interrupt lines, DMA mappings, virtio ownership | irq wait, map, probe, release at death |
| memory | `memory.rs`, `paging.rs`, `arena.rs` | frame records, page tables | allocate, free, map, reclaim |
| init | `targets/krust/user/init` | activation order, restart counts | create, grant, start, await readiness, supervise |
| host side | `crates/vertex-supervisor`, `crates/vertex-ir`, `crates/vertexctl`, `userland` | manifests, child processes, images | validate, order, start, build images |

How they interact. A system call runs to completion on one CPU with
interrupts off, so calls never overlap; concurrency is in the *order* of calls
of different processes, in the timer that preempts user code anywhere, and in
requests that stay pending (a blocked receive, a sleep, a request to a service)
while other processes call. Authority flows from the manifest through init to
services by transfer, and back by revocation; the scheduler depends on
capabilities because a blocked receiver waits *with* a capability; process death
touches all parts at once.

`PROJECT.json` lists every part with its status and the hazards of the code at
the lines where they bite.

## Modules

| module | models | 
|--------|--------|
| `Capabilities` | capability spaces, restart baselines, lineage, revocation, the object table, and the process calls as far as they change those |
| `Krust` | extends `Capabilities` with scheduler, queues, timeouts, preemption and quotas: the composed kernel core |
| `CapabilityProofs` | theorems about `Capabilities`, for every manifest and table size |
| `Generations` | generation switching in the kernel: staging, activation, rollback, known good, the selection at boot, and the address spaces these calls allocate and reclaim |
| `Updates` | extends `Generations` with the generation manager, the metadata sector, init's fallback, power loss |
| `GenerationProofs` | theorems about `Generations`, for every set of generations, contexts and processes |
| `MCCapabilities`, `MCKrust`, `MCGenerations`, `MCUpdates` | the small instances TLC runs on |

**Capabilities.** `caps` and `initialCaps` are `Process.caps` and
`Process.initial_caps`; a slot holds a capability record or `NoCap`. `lineage`
is the array `cap_lineage` (entry *i* is capability id *i*, since ids are issued
by counting); its entries also remember object and rights, which no action reads
and the properties use as history. `revoked` is the array `revoked_caps` as a
set. `objects` holds every object ever created with a `live` flag, because ids
are not re-used. `lifecycle` is `ProcessState` with all scheduling states folded
into `Live`. Each system call is one action with the guards of its early
returns. `create_process` has a second action, `CreateProcessFails`, for the
refusals that come after the old holder of the template is already gone;
`start_process` has one for a failure after the reap (`ReapExited`, `StartFails`).
`RevocationClosure` is what the loop of `revoke_cap_id` computes, stated as the
least closed set; `SelfAndAncestors` is the walk of
`capability_has_revoked_ancestor`.

**Krust.** `run` adds the scheduling states, with a deadline kept as time left.
`ScheduleNext` covers the wake-up of timed processes, the round-robin scan and
the idle loop that waits for the nearest deadline (the timer interrupt may
overshoot it). `Send` is the whole handler: enqueue, then the loop of
`wake_blocked_receiver`. Every capability call is the action of `Capabilities`
conjoined with what the handler does to scheduler, queues and quotas, so every
step of `Krust` is a step of `Capabilities` or leaves its state alone. The
variable `cause` is history that no guard reads: how long the last step idled
and which receivers it handed a message to. Without it a receiver that is woken
for no reason would look like one that was handed a message, and a deadline that
idling reached like one that was not.

**Generations.** A generation is a model value with what loading and verifying
it finds (`Image`) and the state volumes it declares. The globals of
`ipc/generation.rs` are the variables `registered`, `rollbackTo`, `failed`,
`staged` and `boot`; `active` is `RuntimeState.generation_id`. A process is
reduced to its address space, an address space to its root frame: `context[p]` is
`Process.context.cr3` and `allocated` what the frame ledger still holds. `Stage`
is `stage_boot_config_runtime`, with the snapshot `old` of the contexts that a
later commit reaps (`Reaped`, which stops at the first failure as the loop does;
`reclaim_user_address_space` walks and clears what a stale root frame reaches
before the check on the root itself fails, and a root frame that is by then in
use as another kind of page is not modelled. Frees are checked against the owner,
so `ContextsOwned` does not rest on this).
Each system call has one action per outcome that differs in state: `activate` of
the running, of the staged and of an unstaged generation, and its refusals. A
build may run out of frames at any time. `Boot` is `run_native_boot` from the
registration of configs (`DiskConfigs`, in the order of the entries up to the
first that stops the loop) to the selection; `BootFails` is the return when the
table of configs is full. The kernel remembers one failed generation, the last,
and `StageRollback` does not look at it, so a rollback may enter a generation that
failed. Any process holding the update capability may make any call, which covers
init's scripted switches.

**Updates.** `disk` is the metadata sector, `gm` the manager: the next step of
the command it executes, its target, and the sector as it was loaded at the start
of the command (every checkpoint of a command rewrites that copy). One action per
system call or sector write. The sector is written whole; a write reported as
failed may have reached the disk. Requests of a dead manager cannot overtake
those of its successor because the block driver serves one queue in order, so a
load sees every earlier write. The kernel's refusals of the last `activate` and
`rollback` calls are left out because `SwitchIsReady` shows they cannot happen,
and `BootFails` because the module assumes that the manifests and the generations
of the disk fit in the table (`UpdateAssumption`): they do unless a bad-generation
manifest is packaged beside a fallback and the disk names two more generations.
The activations that `maybe_switch_generation` of init scripts for two test
generations are left out too; those generations run no manager. Not modelled: a
sector that is damaged, and an initial sector with an
empty selected field, for which boot and manager choose different defaults.

## Runs

| run | instance | checks |
|-----|----------|--------|
| `roots` | init and one service, three slots, four lineage entries | types, ids held once and unchanged, no derived root disappears under a holder |
| `names` | init and one service, three pids over time and at most two in the table at once, two slots, a namespace, one mask inside another | transitive and exact revocation, flags in every copy, rights never grow back along a chain, delegation needs a usable parent |
| `leak` | as `roots` | expected violation, see Findings |
| `messages` | init and two services on one endpoint that all three may use, queue of two, timeouts 1 and 2 | types, one running process, no lost wake-up, every receive that ends was cancelled, reached its deadline or was handed a message that nobody else got |
| `cancel` | init and one service, dynamic endpoints, transfers and quotas | no receiver waits without authority, quota equals endpoints, a receive is cancelled only for lost authority or a dead owner, timed ones included |
| `time` | a sleeper, a timed receiver and init | every ready process runs, every timed wait ends |
| `switching` | four generations, one corrupt, one only on disk; two processes, four address spaces; seven sectors to boot from | address spaces in use are allocated and not shared, a staged runtime continues from the running one, selection agrees, activation avoids the failed generation, rollback leads back |
| `orphan` | as `switching` | expected violation, see Findings |
| `updates` | the same generations, three initial sectors, three entries | the selected, the previous and the known good generation of the sector are bootable and verified, a record announces only a switch the kernel can do, the selection changes only after staging, a switch is durable before it happens |
| `fallback`, `fallback_disk` | as `updates` | expected violations, see Findings |

Bounds. Two slots suffice for a derivation next to its source, three for a chain
inside one space. Four lineage entries give chains of length three from a boot
grant and make the log run out, so the refusals and the partial creation happen.
Two or three pids give a delegation across processes, a killed holder, a
recycled template and a restart. A queue of two that three processes send to lets it
be full, hold messages of two senders or of the receiver itself, and lets two
receivers wait when a message comes. Two timeouts give different
deadlines. Deadlock is not checked there: the kernel really halts.

For generations, four are enough for one that runs, one staged, one to roll back
to and one that fails verification; the state volumes make one transition legal in
one direction only. Four address spaces hold two processes of the running
generation, a staged init and one that is left over, and are symmetric. In
`switching` the table of configs has three entries so that a boot overflows it; in
`updates` it has the four of the code. The sectors include one with no metadata,
one for each transaction state, and one that is full.

Fairness (`FairSpec`, run `time` only). Weak fairness of `Preempt`: the PIT
interrupt fires periodically while user code runs, and every system call
returns. Weak fairness of `Tick`: the time-stamp counter advances. Nothing is
assumed about what user programs do.

## Proofs

`CapabilityProofs` proves, for every manifest, number of slots, processes and
table sizes (assumptions `BoundsAssumption`, `ManifestAssumption`):

* `CapTypeCorrect`: `CapSpec => []CapTypeOK`
* `RevocationTransitive`: `CapSpec => []RevocationIsTransitive`
* `RevokedFlagsCorrect`: `CapSpec => []RevokedFlagsAgree`
* `CapsCorrect`: `CapSpec => []CapsMatchLineage`

The four are proved together as one inductive invariant, `CapInv`
(`CapInvariant`): none is inductive alone. Flags agree after a restart only
because the baseline obeys the same rule, ids stay unique only because every
stored id has been issued, and a restart copies the baseline into the running
space, so the ids of *baselines* must be pairwise distinct too, and distinct from
the running ids of other processes; that is the strengthening
`BaselinesDistinct`. `CapInv` splits into `SpacesOK` (per-space facts, preserved
by minting, dropping, moving, granting, revoking and restarting, one lemma
each), `ObjectsOK` and `ProcessesOK`. `RevocationClosed` shows that the
least closed set is closed, which is where transitivity comes from.

`GenerationProofs` proves, for every set of generations, images, state volumes,
metadata, contexts and processes (assumption `GenerationAssumption`):

* `GenTypeCorrect`: `GenSpec => []GenTypeOK`
* `ContextsCorrect`: `GenSpec => [](ContextsOwned /\ StagedIsCurrent)`
* `SelectionCorrect`: `GenSpec => []SelectedIsActive`
* `RollbackCorrect`: `GenSpec => RollbackIsPrevious`
* `ActivationCorrect`: `GenSpec => ActivationNotFailed`

The inductive invariant `GenIInv` adds to these that a machine that is off has
nothing (`OffIsEmpty`), which a boot that fails needs. The commit of a staged
runtime is the hard step: it reclaims a *snapshot*, so what is in use afterwards,
the staged init, must not be in the snapshot, which is a conjunct of
`StagedIsCurrent`; the same invariant (a staged runtime names the running
generation as its predecessor and is not the failed one) gives the two action
properties, through the lemma `SwitchRecords`. `StageStep`, `AbortStep` and
`EnterStep` cover what staging, refusing and committing do, and the actions cite
them.

Only model-checked: `RightsNeverGrow`, `NoDanglingRoot`, the action properties
of `Capabilities`, and everything in `Krust` and `Updates`. Liveness stays with
TLC, being out of the prover's reach.

## Findings

`leak`: `create_process` on a template whose last process has exited reaps that
process first. The reap sweeps derived VFS roots while the process's restart
baseline still counts as a holder; then the process leaves the table, and nothing
sweeps again. A root held by that baseline alone stays in the object table,
reachable by nobody, until some later call sweeps. The operator verifier
(`userland/operator-shell/src/lib.rs:1082`) and init reject a system whose inspect
report shows `objects_unreachable` other than zero.

`orphan`: staging a generation snapshots the address spaces to reclaim, activation
reclaims that snapshot. A process created or restarted between the two calls is
not in it; after the switch its frames are allocated and nobody owns them, where
milestone M66 (`docs/krust-milestones.md:2898`) wants every frame owned and
reclaimable.

`fallback`: when activation fails, init asks for the *parent* generation and the
kernel grants it if it ran before; neither consults the known good generation.
With a known good, b and then c installed and c failing, the system falls back to b.
The milestones (`:1940`, `:4046`) say it is the previous known-good generation.

`fallback_disk`: that fallback writes no checkpoint, so the next boot selects the
failed generation again (`:1902` calls selection and fallback disk-native).

Two more disagreements are visible in the model of the manager without a run of
their own. The PREPARE record of an install already overwrites the previous
generation, so a refused install loses the rollback target, where the milestones
(`:2018`) say "rollback metadata is updated only after commit". And the manager
compares a mark-known-good request with the sector's selected generation and writes
the CLEAN record before the kernel checks that the generation runs; after a COMMIT
record whose acknowledgement was lost the two differ, and a request the kernel
rejects still leaves its mark on the disk (`:4300`).

## Plan

1. `VertexFsSync`: page cache, write list, acknowledgements, journal, crash and
   recovery, against the abstract promise that what fsync reported durable
   survives.
2. `VfsDescriptions`: open, dup, close, locks, watches and death of a holder;
   `VfsState`: requests to vertex-state with death and late replies.
3. `Devices`: interrupts, DMA mappings and ownership across death; `Frames`: frame
   ownership and reclaim.
4. `Supervision`: init's plan, readiness, restart budget; the host supervisor's
   start order.
5. Proofs: exact revocation and delegation for all sizes; types, one running
   process, no lost wake-up and authorized receivers for `Krust`; a bootable
   selection and `SwitchIsReady` for `Updates`; refinement of an abstract authority
   specification.

## Not modelled

Byte layouts, text formats, ELF and ACPI parsing, register-level drivers,
drawing, and the offline image writers have no protocol state; `PROJECT.json`
gives the reason part by part.
