------------------------------ MODULE Capabilities ------------------------------
(***************************************************************************)
(* The capability side of the Krust kernel (kernel/krust/src/ipc): the     *)
(* process-local capability spaces, the lineage log, the list of revoked   *)
(* capability ids, the kernel objects capabilities name, and every system  *)
(* call that mints, moves, drops, transfers or revokes a capability or     *)
(* that replaces a whole capability space (process create, start, exit,    *)
(* kill).  A system call runs to completion before the next one starts, so *)
(* each is one action; its first parameter is the calling process.  A call *)
(* that is refused changes nothing and is not an action.                   *)
(*                                                                         *)
(* The scheduler and the endpoint queues are added by module Krust, which  *)
(* conjoins their effects to the actions defined here.                     *)
(***************************************************************************)
EXTENDS Naturals, Sequences, FiniteSets

CONSTANTS
  MaxPid,           \* bound: process ids 1 .. MaxPid are issued, 1 is init
  MaxProcesses,     \* MAX_PROCESSES, entries of the process table
  Slots,            \* slots of a capability space
  MaxLineage,       \* MAX_CAP_LINEAGE, entries of the lineage log
  MaxObjects,       \* bound: kernel object ids 1 .. MaxObjects are issued
  Templates,        \* process records of the compact boot manifest
  InitTemplate,     \* the one marked initial
  ConfigGrants,     \* [Templates -> Seq([slot, object, rights])]
  BootObjects,      \* Seq of object kinds created at boot
  NamespaceEntries, \* set of [object, rights] a namespace resolves to
  Masks             \* the rights masks callers ask for

Rights == {"send", "receive", "create", "start", "wait", "kill", "delegate",
           "allocate", "resolve", "read", "control"}
Kinds == {"endpoint", "process_control", "namespace", "vfs_root", "timer"}
Pids == 1 .. MaxPid
InitPid == 1
Verdicts == {"no", "ok", "failed"}
NoPid == 0                  \* ProcessId::empty(), also "no process"

ASSUME BoundsAssumption ==
  /\ MaxPid \in Nat \ {0} /\ MaxProcesses \in Nat
  /\ MaxLineage \in Nat /\ MaxObjects \in Nat
ASSUME ManifestAssumption ==
  /\ InitTemplate \in Templates
  /\ BootObjects \in Seq(Kinds) /\ Len(BootObjects) <= MaxObjects
  /\ Masks \subseteq SUBSET Rights
  /\ NamespaceEntries \subseteq [object : 1 .. Len(BootObjects), rights : SUBSET Rights]
  /\ ConfigGrants \in [Templates -> Seq([slot : Slots, object : 1 .. Len(BootObjects),
                                         rights : SUBSET Rights])]
  /\ \A t \in Templates : \A i, j \in 1 .. Len(ConfigGrants[t]) :
       ConfigGrants[t][i].slot = ConfigGrants[t][j].slot => i = j
  /\ Len(ConfigGrants[InitTemplate]) <= MaxLineage
\* add_derived_vfs_root never re-uses the id of a namespace, so a namespace
\* entry that names the namespace itself would make a chain of lineage cross
\* the same object twice; boot namespaces only name other kinds of object.
ASSUME NamespaceAssumption ==
  \A e \in NamespaceEntries : BootObjects[e.object] # "namespace"

VARIABLES
  halted,           \* "no" while the kernel runs, else how it stopped
  lifecycle,        \* ProcessState, the scheduling states folded into "Live"
  templatePid,      \* process_template_pids
  nextPid,          \* ProcessTable.next_id
  caps,             \* Process.caps
  initialCaps,      \* Process.initial_caps, the restart baseline
  lineage,          \* cap_lineage; entry i is the capability with id i
  revoked,          \* revoked_caps
  objects           \* every object ever created; live says it is in the table

procVars == <<halted, lifecycle, templatePid, nextPid>>
capVars == <<procVars, caps, initialCaps, lineage, revoked, objects>>
-----------------------------------------------------------------------------
(* State *)

CapIds == 1 .. Len(lineage)

NoCap == [id |-> 0, object |-> 0, rights |-> {}, parent |-> 0, owner |-> NoPid,
          revoked |-> FALSE]
EmptySpace == [s \in Slots |-> NoCap]

\* A capability record.  delegated_by is only ever logged, and generation_id
\* is the same for every capability of one generation.
Capability == [id : 0 .. MaxLineage, object : 0 .. MaxObjects, rights : SUBSET Rights,
               parent : 0 .. MaxLineage, owner : 0 .. MaxPid, revoked : BOOLEAN]

\* CapabilityLineage holds the parent; object and rights are history, read
\* by the properties only.
LineageEntry == [parent : 0 .. MaxLineage, object : 1 .. MaxObjects, rights : SUBSET Rights]

KernelObject == [kind : Kinds, owner : 0 .. MaxPid, derived : BOOLEAN, live : BOOLEAN]

CanGrant(space, s) == space[s].id = 0
Processes == {p \in Pids : lifecycle[p] # "Empty"}
-----------------------------------------------------------------------------
(* Looking a capability up *)

\* The walk capability_has_revoked_ancestor makes from parent to parent:
\* the least set that holds i and the parent of each of its members.
SelfAndAncestors(i) ==
  {a \in CapIds : \A S \in SUBSET CapIds :
     (i \in S /\ \A x \in S : lineage[x].parent # 0 => lineage[x].parent \in S)
       => a \in S}

HasRevokedAncestor(c) ==
  c.parent # 0 /\ SelfAndAncestors(c.parent) \cap revoked # {}

\* The checks lookup_capability, process_has_live_endpoint_cap and
\* cap_space_reaches_live_object share.
IsLive(c) ==
  c.id # 0 /\ ~c.revoked /\ c.id \notin revoked /\ ~HasRevokedAncestor(c)

\* Broken on purpose: forgets revocation.
LookupAnyHeld(p, s, required) == caps[p][s].id # 0 /\ required \subseteq caps[p][s].rights

Lookup(p, s, required) == IsLive(caps[p][s]) /\ required \subseteq caps[p][s].rights

ObjectOf(p, s) == caps[p][s].object

\* *_from_cap: the capability names an object of the kind that is still there.
LookupKind(p, s, required, kind) ==
  /\ Lookup(p, s, required)
  /\ objects[ObjectOf(p, s)].live /\ objects[ObjectOf(p, s)].kind = kind

HoldsControl(p, right) == \E s \in Slots : LookupKind(p, s, {right}, "process_control")

\* A capability whose authority reaches object o, in a space that counts:
\* the space of a process that has not exited or any restart baseline.
ReachableByCap(o) ==
  \E p \in Processes : \E s \in Slots :
    \/ lifecycle[p] # "Exited" /\ caps[p][s].object = o /\ IsLive(caps[p][s])
    \/ initialCaps[p][s].object = o /\ IsLive(initialCaps[p][s])
-----------------------------------------------------------------------------
(* Minting *)

\* Broken on purpose: off by one.
CanAllocateOffByOne == Len(lineage) <= MaxLineage

CanAllocateCapability == Len(lineage) < MaxLineage

Minted(id, object, rights, owner, parent) ==
  [id |-> id, object |-> object, rights |-> rights, parent |-> parent, owner |-> owner,
   revoked |-> FALSE]

Logged(object, rights, parent) == [parent |-> parent, object |-> object, rights |-> rights]

\* new_capability: the next id, recorded in the lineage log.
NewCapability(object, rights, owner, parent) ==
  Minted(Len(lineage) + 1, object, rights, owner, parent)

RecordLineage(object, rights, parent) ==
  lineage' = Append(lineage, Logged(object, rights, parent))

Remove(table, gone) ==
  [o \in 1 .. Len(table) |->
     IF o \in gone THEN [table[o] EXCEPT !.live = FALSE] ELSE table[o]]

DerivedRoots == {o \in 1 .. Len(objects) : objects[o].derived}

\* release_unreferenced_derived_vfs_roots, run on the state the call finds
\* and on the state it leaves behind.
SweepBefore(table) == Remove(table, {o \in DerivedRoots : ~ReachableByCap(o)})
SweepAfter(table) == Remove(table, {o \in DerivedRoots : ~ReachableByCap(o)'})

\* remove_owned_endpoints
RemoveOwnedEndpoints(table, p) ==
  Remove(table, {o \in 1 .. Len(table) : table[o].kind = "endpoint" /\ table[o].owner = p})
-----------------------------------------------------------------------------
(* Capability system calls *)

\* Broken on purpose: a mask that the parent no longer has, but the capability
\* the parent came from had, is granted.
CapDeriveRegrows(p, source, target, mask) ==
  LET parent == caps[p][source] IN
  /\ Lookup(p, source, {})
  /\ mask # {}
  /\ mask \subseteq lineage[IF parent.parent = 0 THEN parent.id ELSE parent.parent].rights
  /\ CanGrant(caps[p], target) /\ CanAllocateCapability
  /\ caps' = [caps EXCEPT ![p][target] = NewCapability(parent.object, mask, p, parent.id)]
  /\ RecordLineage(parent.object, mask, parent.id)
  /\ UNCHANGED <<procVars, initialCaps, revoked, objects>>

\* cap_derive
CapDerive(p, source, target, mask) ==
  LET parent == caps[p][source] IN
  /\ Lookup(p, source, {})
  /\ mask # {} /\ mask \subseteq parent.rights
  /\ CanGrant(caps[p], target) /\ CanAllocateCapability
  /\ caps' = [caps EXCEPT ![p][target] = NewCapability(parent.object, mask, p, parent.id)]
  /\ RecordLineage(parent.object, mask, parent.id)
  /\ UNCHANGED <<procVars, initialCaps, revoked, objects>>

\* cap_copy: the same checks and the same state change.
CapCopy(p, source, target, mask) == CapDerive(p, source, target, mask)

\* Broken on purpose: releases the root without asking who else holds it.
CapDropReleases(p, s) ==
  /\ caps[p][s].id # 0
  /\ caps' = [caps EXCEPT ![p][s] = NoCap]
  /\ UNCHANGED <<procVars, initialCaps, lineage, revoked>>
  /\ objects' = Remove(objects, DerivedRoots \cap {caps[p][s].object})

\* cap_drop: no check that the capability is live.
CapDrop(p, s) ==
  LET dropped == caps[p][s].object IN
  /\ caps[p][s].id # 0
  /\ caps' = [caps EXCEPT ![p][s] = NoCap]
  /\ UNCHANGED <<procVars, initialCaps, lineage, revoked>>
  /\ objects' = Remove(objects, {o \in DerivedRoots \cap {dropped} : ~ReachableByCap(o)'})

\* Broken on purpose: the source slot is not cleared.
CapMoveKeepsSource(p, source, target) ==
  /\ CanGrant(caps[p], target) /\ caps[p][source].id # 0
  /\ caps' = [caps EXCEPT ![p][target] = caps[p][source]]
  /\ UNCHANGED <<procVars, initialCaps, lineage, revoked, objects>>

\* cap_move: within one space, whatever the state of the capability.
CapMove(p, source, target) ==
  /\ CanGrant(caps[p], target) /\ caps[p][source].id # 0
  /\ caps' = [caps EXCEPT ![p][source] = NoCap, ![p][target] = caps[p][source]]
  /\ UNCHANGED <<procVars, initialCaps, lineage, revoked, objects>>

\* cap_transfer: into any process of the table; a Declared one also gets the
\* capability in its restart baseline.
CapTransfer(p, source, q, target, mask) ==
  LET cap == caps[p][source]
      transferred == NewCapability(cap.object, mask, q, cap.id) IN
  /\ HoldsControl(p, "delegate")
  /\ Lookup(p, source, {}) /\ mask # {} /\ mask \subseteq cap.rights
  /\ q \in Processes /\ CanGrant(caps[q], target)
  /\ lifecycle[q] = "Declared" => CanGrant(initialCaps[q], target)
  /\ CanAllocateCapability
  /\ caps' = [caps EXCEPT ![q][target] = transferred]
  /\ initialCaps' = IF lifecycle[q] = "Declared"
                    THEN [initialCaps EXCEPT ![q][target] = transferred]
                    ELSE initialCaps
  /\ RecordLineage(cap.object, mask, cap.id)
  /\ UNCHANGED <<procVars, revoked, objects>>

\* namespace_resolve: the entry's rights, the namespace capability as parent.
NamespaceResolve(p, source, target, entry) ==
  /\ LookupKind(p, source, {"resolve"}, "namespace")
  /\ CanGrant(caps[p], target) /\ CanAllocateCapability
  /\ caps' = [caps EXCEPT ![p][target] =
                NewCapability(entry.object, entry.rights, p, caps[p][source].id)]
  /\ RecordLineage(entry.object, entry.rights, caps[p][source].id)
  /\ UNCHANGED <<procVars, initialCaps, revoked, objects>>

\* vfs_derive_root: a fresh root object below the source root, with the file
\* rights of the source.  Every right a VFS root carries here is a file right.
VfsDeriveRoot(p, source, target) ==
  LET cap == caps[p][source]
      root == Len(objects) + 1 IN
  /\ LookupKind(p, source, {"resolve"}, "vfs_root")
  /\ CanGrant(caps[p], target) /\ CanAllocateCapability
  /\ Len(objects) < MaxObjects
  /\ objects' = Append(objects, [kind |-> "vfs_root", owner |-> NoPid,
                                 derived |-> TRUE, live |-> TRUE])
  /\ caps' = [caps EXCEPT ![p][target] =
                NewCapability(root, cap.rights \cap {"read", "resolve", "create"}, p, cap.id)]
  /\ RecordLineage(root, cap.rights \cap {"read", "resolve", "create"}, cap.id)
  /\ UNCHANGED <<procVars, initialCaps, revoked>>

\* endpoint_create; the quota it is charged to is in module Krust.
EndpointCreate(p, target) ==
  LET endpoint == Len(objects) + 1 IN
  /\ HoldsControl(p, "allocate")
  /\ CanGrant(caps[p], target) /\ CanAllocateCapability
  /\ Len(objects) < MaxObjects
  /\ objects' = Append(objects, [kind |-> "endpoint", owner |-> p,
                                 derived |-> FALSE, live |-> TRUE])
  /\ caps' = [caps EXCEPT ![p][target] =
                NewCapability(endpoint, {"send", "receive"}, p, 0)]
  /\ RecordLineage(endpoint, {"send", "receive"}, 0)
  /\ UNCHANGED <<procVars, initialCaps, revoked>>
-----------------------------------------------------------------------------
(* Revocation *)

\* Broken on purpose: one pass over the log instead of a fixpoint, and every
\* capability minted later instead of the descendants.
RevocationOnePass(R) == R \cup {x \in CapIds : lineage[x].parent \in R}
RevocationOfLater(R) == {x \in CapIds : \E r \in R : x >= r}

\* What the loop of revoke_cap_id reaches from the ids in R: the least set
\* that holds R and every capability whose parent it holds.
RevocationClosure(R) ==
  {i \in CapIds : \A S \in SUBSET CapIds :
     (R \subseteq S /\ \A x \in CapIds : lineage[x].parent \in S => x \in S) => i \in S}

\* CapabilitySpace::mark_revoked, and mark_all_revoked_caps over all spaces.
Marked(c) == [c EXCEPT !.revoked = TRUE]
MarkRevoked(spaces, R) ==
  [q \in Pids |-> [s \in Slots |->
     IF spaces[q][s].id \in R THEN Marked(spaces[q][s]) ELSE spaces[q][s]]]

\* Broken on purpose: the restart baselines are not marked.
CapRevokeMissesBaseline(p, s) ==
  LET hit == RevocationClosure(revoked \cup {caps[p][s].id}) IN
  /\ Lookup(p, s, {})
  /\ revoked' = hit
  /\ caps' = MarkRevoked(caps, hit)
  /\ UNCHANGED <<procVars, initialCaps, lineage>>
  /\ objects' = SweepAfter(objects)

\* cap_revoke: holding the capability is enough, no right is asked for.
CapRevoke(p, s) ==
  LET hit == RevocationClosure(revoked \cup {caps[p][s].id}) IN
  /\ Lookup(p, s, {})
  /\ revoked' = hit
  /\ caps' = MarkRevoked(caps, hit)
  /\ initialCaps' = MarkRevoked(initialCaps, hit)
  /\ UNCHANGED <<procVars, lineage>>
  /\ objects' = SweepAfter(objects)
-----------------------------------------------------------------------------
(* Process system calls: what they do to capabilities and objects *)

Grants(t) == ConfigGrants[t]
FreeLineage == MaxLineage - Len(lineage)

\* grant_config_caps_to_process: the manifest's grants get the ids after
\* base, in the order of the grant table, and no parent.
GrantedSpace(p, t, base) ==
  [s \in Slots |->
     IF \E i \in 1 .. Len(Grants(t)) : Grants(t)[i].slot = s
     THEN LET i == CHOOSE j \in 1 .. Len(Grants(t)) : Grants(t)[j].slot = s IN
          Minted(base + i, Grants(t)[i].object, Grants(t)[i].rights, p, 0)
     ELSE NoCap]

GrantEntries(t, n) ==
  [i \in 1 .. n |-> Logged(Grants(t)[i].object, Grants(t)[i].rights, 0)]

\* recycle_exited_process_template: only an exited holder of the template
\* gives way; it is reaped and then leaves the process table.
MayRecycle(t) == templatePid[t] # NoPid => lifecycle[templatePid[t]] = "Exited"
Recycled(f, t, empty) == [q \in Pids |-> IF q = templatePid[t] THEN empty ELSE f[q]]
RecycledObjects(t) ==
  IF templatePid[t] = NoPid THEN objects
  ELSE SweepBefore(RemoveOwnedEndpoints(objects, templatePid[t]))
TableHasRoom(t) == Cardinality(Processes \ {templatePid[t]}) < MaxProcesses

\* create_process, success.
CreateProcess(p, t) ==
  /\ HoldsControl(p, "create") /\ MayRecycle(t) /\ t # InitTemplate
  /\ TableHasRoom(t) /\ nextPid <= MaxPid /\ Len(Grants(t)) <= FreeLineage
  /\ lifecycle' = [Recycled(lifecycle, t, "Empty") EXCEPT ![nextPid] = "Declared"]
  /\ caps' = [Recycled(caps, t, EmptySpace) EXCEPT
                ![nextPid] = GrantedSpace(nextPid, t, Len(lineage))]
  /\ initialCaps' = [Recycled(initialCaps, t, EmptySpace) EXCEPT
                       ![nextPid] = GrantedSpace(nextPid, t, Len(lineage))]
  /\ templatePid' = [templatePid EXCEPT ![t] = nextPid]
  /\ nextPid' = nextPid + 1
  /\ lineage' = lineage \o GrantEntries(t, Len(Grants(t)))
  /\ objects' = RecycledObjects(t)
  /\ UNCHANGED <<halted, revoked>>

\* create_process refused after the old holder of the template is gone: n
\* grants were minted before the lineage log ran out, and the new process
\* was taken off the table again (remove_last_process), pid included.  With
\* n = 0 the refusal came earlier: the initial template, an image that does
\* not load, mounts that cannot be installed.
CreateProcessFails(p, t, n) ==
  /\ HoldsControl(p, "create") /\ MayRecycle(t)
  /\ n = 0 \/ (t # InitTemplate /\ n = FreeLineage /\ FreeLineage < Len(Grants(t)))
  /\ templatePid[t] # NoPid \/ n # 0
  /\ lifecycle' = Recycled(lifecycle, t, "Empty")
  /\ caps' = Recycled(caps, t, EmptySpace)
  /\ initialCaps' = Recycled(initialCaps, t, EmptySpace)
  /\ templatePid' = [templatePid EXCEPT ![t] = NoPid]
  /\ lineage' = lineage \o GrantEntries(t, n)
  /\ objects' = RecycledObjects(t)
  /\ UNCHANGED <<halted, nextPid, revoked>>

\* start_process: a Declared process starts with what it was given, an
\* Exited one is reaped and gets its baseline back.
StartProcess(p, q) ==
  /\ HoldsControl(p, "start") /\ lifecycle[q] \in {"Declared", "Exited"}
  /\ lifecycle' = [lifecycle EXCEPT ![q] = "Live"]
  /\ caps' = IF lifecycle[q] = "Exited" THEN [caps EXCEPT ![q] = initialCaps[q]] ELSE caps
  /\ UNCHANGED <<halted, templatePid, nextPid, initialCaps, lineage, revoked>>
  /\ objects' = SweepAfter(IF lifecycle[q] = "Exited" THEN RemoveOwnedEndpoints(objects, q)
                           ELSE objects)

\* reap_process_context, reached through process_wait on an exited process
\* or through a start_process that then cannot load the image or install
\* the mounts.
ReapExited(p, q) ==
  /\ HoldsControl(p, "wait") \/ HoldsControl(p, "start")
  /\ lifecycle[q] = "Exited"
  /\ UNCHANGED <<procVars, caps, initialCaps, lineage, revoked>>
  /\ objects' = SweepAfter(RemoveOwnedEndpoints(objects, q))

\* exit_current_process and fault_current_process: the caller exits; if the
\* kernel then halts, with that verdict, the caller is not reaped.
ExitProcess(p, verdict) ==
  /\ halted' = verdict
  /\ lifecycle' = [lifecycle EXCEPT ![p] = "Exited"]
  /\ UNCHANGED <<templatePid, nextPid, caps, initialCaps, lineage, revoked>>
  /\ objects' = SweepAfter(IF verdict = "no" THEN RemoveOwnedEndpoints(objects, p) ELSE objects)

\* kill_process: any process of the table but the caller and init.
KillProcess(p, q) ==
  /\ HoldsControl(p, "kill") /\ q \in Processes \ {p, InitPid}
  /\ lifecycle' = [lifecycle EXCEPT ![q] = "Exited"]
  /\ UNCHANGED <<halted, templatePid, nextPid, caps, initialCaps, lineage, revoked>>
  /\ objects' = SweepAfter(RemoveOwnedEndpoints(objects, q))
-----------------------------------------------------------------------------
(* Specification *)

BootObject(i) ==
  [kind |-> BootObjects[i], owner |-> NoPid, derived |-> FALSE, live |-> TRUE]

\* stage_boot_config_runtime: only init is in the process table.
CapInit ==
  /\ halted = "no"
  /\ lifecycle = [p \in Pids |-> IF p = InitPid THEN "Live" ELSE "Empty"]
  /\ templatePid = [t \in Templates |-> IF t = InitTemplate THEN InitPid ELSE NoPid]
  /\ nextPid = 2
  /\ caps = [p \in Pids |-> IF p = InitPid THEN GrantedSpace(InitPid, InitTemplate, 0)
                            ELSE EmptySpace]
  /\ initialCaps = caps
  /\ lineage = GrantEntries(InitTemplate, Len(Grants(InitTemplate)))
  /\ revoked = {}
  /\ objects = [i \in 1 .. Len(BootObjects) |-> BootObject(i)]

CapNext ==
  halted = "no" /\ \E p \in {q \in Pids : lifecycle[q] = "Live"} :
    \/ \E s \in Slots : CapDrop(p, s) \/ CapRevoke(p, s) \/ EndpointCreate(p, s)
    \/ \E s, u \in Slots : CapMove(p, s, u) \/ VfsDeriveRoot(p, s, u)
    \/ \E s, u \in Slots, m \in Masks : CapDerive(p, s, u, m) \/ CapCopy(p, s, u, m)
    \/ \E s, u \in Slots, e \in NamespaceEntries : NamespaceResolve(p, s, u, e)
    \/ \E s, u \in Slots, q \in Pids, m \in Masks : CapTransfer(p, s, q, u, m)
    \/ \E t \in Templates : CreateProcess(p, t)
    \/ \E t \in Templates, n \in 0 .. MaxLineage : CreateProcessFails(p, t, n)
    \/ \E q \in Pids : StartProcess(p, q) \/ ReapExited(p, q) \/ KillProcess(p, q)
    \/ \E verdict \in Verdicts : ExitProcess(p, verdict)

CapSpec == CapInit /\ [][CapNext]_capVars
-----------------------------------------------------------------------------
(* Properties *)

\* The fields of RuntimeState, ProcessTable and ObjectTable keep their types:
\* ids stay within the tables that issue them.
CapTypeOK ==
  /\ halted \in Verdicts
  /\ lifecycle \in [Pids -> {"Empty", "Declared", "Live", "Exited"}]
  /\ templatePid \in [Templates -> 0 .. MaxPid]
  /\ nextPid \in 2 .. MaxPid + 1
  /\ caps \in [Pids -> [Slots -> Capability]]
  /\ initialCaps \in [Pids -> [Slots -> Capability]]
  /\ lineage \in Seq(LineageEntry) /\ Len(lineage) <= MaxLineage
  /\ revoked \subseteq CapIds
  /\ objects \in Seq(KernelObject) /\ Len(objects) <= MaxObjects

\* Revocation is transitive: whatever was derived, copied, transferred or
\* resolved from a revoked capability is revoked as well, no matter how the
\* calls interleave.  This is what makes the walk over the ancestors in
\* lookup_capability a second line of defence only.
RevocationIsTransitive ==
  \A i \in CapIds : lineage[i].parent \in revoked => i \in revoked

\* The revoked flag inside every stored copy of a capability, the running
\* space and the restart baseline alike, says the same as the revoked list:
\* revoke_cap_id misses no copy and a restart brings none back unmarked.
RevokedFlagsAgree ==
  \A p \in Pids, s \in Slots :
    /\ caps[p][s].id # 0 => (caps[p][s].revoked <=> caps[p][s].id \in revoked)
    /\ initialCaps[p][s].id # 0 =>
         (initialCaps[p][s].revoked <=> initialCaps[p][s].id \in revoked)

\* A stored capability is the one its id was issued for: cap_move, transfer
\* and restart carry object, rights and parent along unchanged, and no two
\* slots anywhere hold the same id.
CapsMatchLineage ==
  /\ \A p \in Pids, s \in Slots : \A c \in {caps[p][s], initialCaps[p][s]} :
       c.id # 0 => /\ c.id \in CapIds /\ c.owner = p
                   /\ c.parent = lineage[c.id].parent
                   /\ c.object = lineage[c.id].object /\ c.rights = lineage[c.id].rights
  /\ \A p, q \in Pids : \A s, u \in Slots :
       caps[p][s].id # 0 /\ caps[p][s].id = caps[q][u].id => p = q /\ s = u

\* Attenuation along any chain of derive, copy and transfer: authority over
\* an object never exceeds that of an ancestor over the same object.
RightsNeverGrow ==
  \A i \in CapIds : \A a \in SelfAndAncestors(i) :
    lineage[a].object = lineage[i].object => lineage[i].rights \subseteq lineage[a].rights

\* release_unreferenced_derived_vfs_root(s) never takes a derived root away
\* while a process that has not exited, or a restart baseline, still holds
\* live authority over it.
NoDanglingRoot ==
  \A o \in DerivedRoots : ReachableByCap(o) => objects[o].live

\* What the operator verifier requires of the kernel's inspect report
\* (objects_unreachable=0), for derived VFS roots: one that no capability
\* reaches has been released.
NoUnreachableRoot ==
  \A o \in DerivedRoots : objects[o].live => ReachableByCap(o)

\* A revocation withdraws one capability and exactly its descendants, and
\* nothing is ever taken off the revoked list.
RevokeIsExact ==
  [][revoked' # revoked =>
       \E j \in CapIds \ revoked :
         revoked' = revoked \cup {i \in CapIds : j \in SelfAndAncestors(i)}]_capVars

\* Authority comes from authority: every capability minted with a parent was
\* minted while some process could itself use that parent.  Only boot and
\* process creation (manifest grants) and endpoint_create mint without one.
DelegationNeedsHolder ==
  [][\A i \in 1 .. Len(lineage') : i > Len(lineage) /\ lineage'[i].parent # 0 =>
       \E p \in Pids, s \in Slots :
         lifecycle[p] = "Live" /\ caps[p][s].id = lineage'[i].parent /\ IsLive(caps[p][s])]_capVars
=============================================================================
