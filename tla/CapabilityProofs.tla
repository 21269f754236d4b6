--------------------------- MODULE CapabilityProofs ---------------------------
(***************************************************************************)
(* Proofs about module Capabilities, for every manifest, every number of   *)
(* processes and slots and every length of the lineage log.                *)
(***************************************************************************)
EXTENDS Capabilities, SequenceTheorems, TLAPS

\* Needed besides CapsMatchLineage: the restart baselines share no id with
\* one another, nor with the running space of another process.  Without it a
\* restart might bring back an id some other process holds.
BaselinesDistinct ==
  \A p, q \in Pids : \A s, u \in Slots :
    initialCaps[p][s].id # 0 =>
      /\ initialCaps[p][s].id = initialCaps[q][u].id => p = q /\ s = u
      /\ initialCaps[p][s].id = caps[q][u].id => p = q

\* The inductive invariant.
CapInv ==
  /\ CapTypeOK
  /\ RevocationIsTransitive
  /\ RevokedFlagsAgree
  /\ CapsMatchLineage
  /\ BaselinesDistinct

\* The part of CapTypeOK and CapInv that does not mention the object table.
SpacesOK ==
  /\ caps \in [Pids -> [Slots -> Capability]]
  /\ initialCaps \in [Pids -> [Slots -> Capability]]
  /\ lineage \in Seq(LineageEntry) /\ Len(lineage) <= MaxLineage
  /\ revoked \subseteq CapIds
  /\ RevocationIsTransitive
  /\ RevokedFlagsAgree
  /\ CapsMatchLineage
  /\ BaselinesDistinct

ObjectsOK == objects \in Seq(KernelObject) /\ Len(objects) <= MaxObjects

ProcessesOK ==
  /\ halted \in Verdicts
  /\ lifecycle \in [Pids -> {"Empty", "Declared", "Live", "Exited"}]
  /\ templatePid \in [Templates -> 0 .. MaxPid]
  /\ nextPid \in 2 .. MaxPid + 1
-----------------------------------------------------------------------------
\* The invariant falls into three parts that different calls disturb.
LEMMA CapInvSplit == CapInv <=> SpacesOK /\ ObjectsOK /\ ProcessesOK
  BY DEF CapInv, CapTypeOK, SpacesOK, ObjectsOK, ProcessesOK

\* The three parts, each shown for the next state, give the invariant there.
LEMMA CapInvJoin == SpacesOK' /\ ObjectsOK' /\ ProcessesOK' => CapInv'
  BY DEF CapInv, CapTypeOK, SpacesOK, ObjectsOK, ProcessesOK

\* The empty slot is a capability record that carries no id.
LEMMA NoCapFacts == NoCap \in Capability /\ NoCap.id = 0
  BY BoundsAssumption DEF NoCap, Capability, NoPid

\* CapsMatchLineage for one slot of one process.
LEMMA HeldFacts ==
  ASSUME SpacesOK, NEW p \in Pids, NEW s \in Slots,
         NEW c \in {caps[p][s], initialCaps[p][s]}, c.id # 0
  PROVE  /\ c.id \in CapIds /\ c.owner = p
         /\ c.parent = lineage[c.id].parent
         /\ c.object = lineage[c.id].object /\ c.rights = lineage[c.id].rights
  <1>1. CapsMatchLineage
    BY DEF SpacesOK
  <1>. QED
    BY ONLY <1>1, p \in Pids, s \in Slots, c \in {caps[p][s], initialCaps[p][s]}, c.id # 0
    DEF CapsMatchLineage

\* No id is held in two slots.
LEMMA IdsDistinct ==
  ASSUME SpacesOK
  PROVE  \A p, q \in Pids : \A s, u \in Slots :
           caps[p][s].id # 0 /\ caps[p][s].id = caps[q][u].id => p = q /\ s = u
  BY DEF SpacesOK, CapsMatchLineage

\* A step that leaves the spaces and the lineage alone keeps their invariant.
LEMMA UnchangedSpaces ==
  ASSUME SpacesOK, UNCHANGED <<caps, initialCaps, lineage, revoked>>
  PROVE  SpacesOK'
  <1>1. /\ caps' = caps /\ initialCaps' = initialCaps /\ lineage' = lineage /\ revoked' = revoked
        /\ CapIds' = CapIds
    BY DEF CapIds
  <1>2. RevocationIsTransitive'
    BY <1>1 DEF SpacesOK, RevocationIsTransitive
  <1>3. RevokedFlagsAgree'
    BY <1>1 DEF SpacesOK, RevokedFlagsAgree
  <1>4. CapsMatchLineage'
    <2>1. CapsMatchLineage
      BY DEF SpacesOK
    <2>. QED
      BY ONLY <1>1, <2>1 DEF CapsMatchLineage
  <1>5. BaselinesDistinct'
    BY <1>1 DEF SpacesOK, BaselinesDistinct
  <1>. QED
    BY <1>1, <1>2, <1>3, <1>4, <1>5 DEF SpacesOK

\* A table keeps its type and its length when objects are taken out of it.
LEMMA RemoveType ==
  ASSUME NEW table \in Seq(KernelObject), NEW gone
  PROVE  Remove(table, gone) \in Seq(KernelObject) /\ Len(Remove(table, gone)) = Len(table)
  <1>1. Remove(table, gone) \in [1 .. Len(table) -> KernelObject]
    <2>1. ASSUME NEW o \in 1 .. Len(table)
          PROVE  table[o] \in KernelObject /\ [table[o] EXCEPT !.live = FALSE] \in KernelObject
      <3>1. table[o] \in KernelObject
        BY ElementOfSeq
      <3>2. \A x \in KernelObject : [x EXCEPT !.live = FALSE] \in KernelObject
        BY DEF KernelObject
      <3>. QED
        BY <3>1, <3>2
    <2>. QED
      BY <2>1 DEF Remove
  <1>2. Len(table) \in Nat
    BY LenProperties
  <1>. QED
    BY <1>1, <1>2 

\* Whatever revoke_cap_id has reached stays within the ids issued, holds the
\* capabilities it was called with, and is closed under descent.
LEMMA RevocationClosed ==
  ASSUME NEW R \in SUBSET CapIds
  PROVE  /\ RevocationClosure(R) \subseteq CapIds
         /\ R \subseteq RevocationClosure(R)
         /\ \A x \in CapIds : lineage[x].parent \in RevocationClosure(R)
                                => x \in RevocationClosure(R)
  BY DEF RevocationClosure

\* Minting one capability with an unrevoked parent keeps the spaces in order.
LEMMA MintKeepsSpaces ==
  ASSUME SpacesOK, BoundsAssumption,
         NEW q \in Pids, NEW target \in Slots, NEW object \in 1 .. MaxObjects,
         NEW rights \in SUBSET Rights, NEW parent \in 0 .. Len(lineage),
         parent \notin revoked, CanAllocateCapability,
         caps' = [caps EXCEPT ![q][target] = NewCapability(object, rights, q, parent)],
         \/ initialCaps' = initialCaps
         \/ initialCaps' =
              [initialCaps EXCEPT ![q][target] = NewCapability(object, rights, q, parent)],
         RecordLineage(object, rights, parent),
         revoked' = revoked
  PROVE  SpacesOK'
  <1>. DEFINE cap == NewCapability(object, rights, q, parent)
  <1>0. /\ Len(lineage) \in Nat /\ MaxLineage \in Nat /\ MaxPid \in Nat
        /\ \A x \in CapIds : lineage[x] \in LineageEntry
    BY LenProperties, ElementOfSeq DEF SpacesOK, BoundsAssumption, CapIds
  <1>1. cap \in Capability /\ cap.id = Len(lineage) + 1 /\ cap.id \notin CapIds
    BY <1>0 DEF NewCapability, Minted, Capability, CanAllocateCapability, CapIds, BoundsAssumption, Pids
  <1>2. /\ caps' \in [Pids -> [Slots -> Capability]]
        /\ initialCaps' \in [Pids -> [Slots -> Capability]]
    <2>1. [caps EXCEPT ![q][target] = cap] \in [Pids -> [Slots -> Capability]]
      BY <1>1 DEF SpacesOK
    <2>2. [initialCaps EXCEPT ![q][target] = cap] \in [Pids -> [Slots -> Capability]]
      BY <1>1 DEF SpacesOK
    <2>. QED
      BY <2>1, <2>2 DEF SpacesOK
  <1>3. /\ lineage' \in Seq(LineageEntry) /\ Len(lineage') = Len(lineage) + 1
        /\ \A x \in CapIds : lineage'[x] = lineage[x]
        /\ lineage'[Len(lineage) + 1] =
             Logged(object, rights, parent)
    <2>1. Logged(object, rights, parent) \in LineageEntry
      BY <1>0 DEF Logged, LineageEntry, SpacesOK
    <2>. QED
      BY <1>0, <2>1 DEF RecordLineage, SpacesOK, CapIds
  <1>4. Len(lineage') <= MaxLineage /\ CapIds \subseteq CapIds' /\ revoked' \subseteq CapIds'
    BY <1>0, <1>3 DEF CanAllocateCapability, CapIds, SpacesOK
  <1>5. \A x \in CapIds' : x \in CapIds \/ x = Len(lineage) + 1
    BY <1>0, <1>3 DEF CapIds
  <1>6. RevocationIsTransitive'
    <2>1. SUFFICES ASSUME NEW x \in CapIds', lineage'[x].parent \in revoked'
                   PROVE  x \in revoked'
      BY DEF RevocationIsTransitive
    <2>2. x \in CapIds
      BY <1>3, <1>5, <2>1 DEF Logged
    <2>. QED
      BY <1>3, <2>1, <2>2 DEF RevocationIsTransitive, SpacesOK
  <1>7. \A p \in Pids, s \in Slots :
          /\ caps'[p][s] = IF p = q /\ s = target THEN cap ELSE caps[p][s]
          /\ initialCaps'[p][s] = initialCaps[p][s]
             \/ (p = q /\ s = target /\ initialCaps'[p][s] = cap)
    BY DEF SpacesOK
  <1>8. cap.id \notin revoked /\ ~cap.revoked
    BY <1>1 DEF NewCapability, Minted, SpacesOK
  <1>9. RevokedFlagsAgree'
    BY <1>7, <1>8 DEF RevokedFlagsAgree, SpacesOK
  <1>10. \A p \in Pids, s \in Slots :
           /\ caps[p][s].id # 0 => caps[p][s].id \in CapIds
           /\ initialCaps[p][s].id # 0 => initialCaps[p][s].id \in CapIds
    BY DEF SpacesOK, CapsMatchLineage
  <1>11. CapsMatchLineage'
    <2>1. \A p \in Pids, s \in Slots : \A c \in {caps'[p][s], initialCaps'[p][s]} :
             c.id # 0 => /\ c.id \in CapIds' /\ c.owner = p
                         /\ c.parent = lineage'[c.id].parent
                         /\ c.object = lineage'[c.id].object
                         /\ c.rights = lineage'[c.id].rights
      <3>1. TAKE p \in Pids, s \in Slots
      <3>2. TAKE c \in {caps'[p][s], initialCaps'[p][s]}
      <3>3. (c = cap /\ p = q) \/ c \in {caps[p][s], initialCaps[p][s]}
        BY <1>7
      <3>4. CASE c = cap /\ p = q
        BY <3>4, <1>1, <1>3, <1>0 DEF NewCapability, Minted, Logged, CapIds
      <3>5. CASE c \in {caps[p][s], initialCaps[p][s]}
        <4>1. c.id # 0 => /\ c.id \in CapIds /\ c.owner = p
                          /\ c.parent = lineage[c.id].parent
                          /\ c.object = lineage[c.id].object
                          /\ c.rights = lineage[c.id].rights
          BY <3>5 DEF SpacesOK, CapsMatchLineage
        <4>. QED
          BY <4>1, <1>3, <1>4
      <3>. QED
        BY <3>3, <3>4, <3>5
    <2>2. \A p, r \in Pids : \A s, u \in Slots :
            caps'[p][s].id # 0 /\ caps'[p][s].id = caps'[r][u].id => p = r /\ s = u
      BY <1>1, <1>7, <1>10 DEF SpacesOK, CapsMatchLineage
    <2>. QED
      BY <2>1, <2>2 DEF CapsMatchLineage
  <1>12. BaselinesDistinct'
    BY <1>1, <1>7, <1>10 DEF SpacesOK, BaselinesDistinct
  <1>. QED
    BY <1>2, <1>3, <1>4, <1>6, <1>9, <1>11, <1>12 DEF SpacesOK

\* Dropping capabilities, and replacing spaces by empty ones, keeps the
\* spaces in order.
LEMMA DropKeepsSpaces ==
  ASSUME SpacesOK,
         caps' \in [Pids -> [Slots -> Capability]],
         initialCaps' \in [Pids -> [Slots -> Capability]],
         \A p \in Pids, s \in Slots :
           caps'[p][s] \in {caps[p][s], NoCap} /\ initialCaps'[p][s] \in {initialCaps[p][s], NoCap},
         lineage' = lineage, revoked' = revoked
  PROVE  SpacesOK'
  <1>1. CapIds' = CapIds
    BY DEF CapIds
  <1>2. /\ NoCap.id = 0
        /\ \A p \in Pids, s \in Slots :
             /\ caps'[p][s].id # 0 => caps'[p][s].id = caps[p][s].id
             /\ initialCaps'[p][s].id # 0 => initialCaps'[p][s].id = initialCaps[p][s].id
    BY NoCapFacts
  <1>3. RevocationIsTransitive'
    BY <1>1 DEF SpacesOK, RevocationIsTransitive
  <1>4. RevokedFlagsAgree'
    BY <1>2 DEF SpacesOK, RevokedFlagsAgree
  <1>5. CapsMatchLineage'
    <2>1. \A p \in Pids, s \in Slots : \A c \in {caps'[p][s], initialCaps'[p][s]} :
             c.id # 0 => c \in {caps[p][s], initialCaps[p][s]}
      BY <1>2
    <2>2. \A p \in Pids, s \in Slots : \A c \in {caps'[p][s], initialCaps'[p][s]} :
             c.id # 0 => /\ c.id \in CapIds' /\ c.owner = p
                         /\ c.parent = lineage'[c.id].parent
                         /\ c.object = lineage'[c.id].object
                         /\ c.rights = lineage'[c.id].rights
      BY <1>1, <2>1 DEF SpacesOK, CapsMatchLineage
    <2>3. \A p, r \in Pids : \A s, u \in Slots :
            caps'[p][s].id # 0 /\ caps'[p][s].id = caps'[r][u].id => p = r /\ s = u
      <3>1. \A p, r \in Pids : \A s, u \in Slots :
              caps[p][s].id # 0 /\ caps[p][s].id = caps[r][u].id => p = r /\ s = u
        BY DEF SpacesOK, CapsMatchLineage
      <3>. QED
        BY <1>2, <3>1
    <2>. QED
      BY <2>2, <2>3 DEF CapsMatchLineage
  <1>6. BaselinesDistinct'
    <2>1. BaselinesDistinct
      BY DEF SpacesOK
    <2>. QED
      BY ONLY <1>2, <2>1 DEF BaselinesDistinct
  <1>. QED
    BY <1>1, <1>3, <1>4, <1>5, <1>6 DEF SpacesOK

\* What grant_config_caps_to_process puts into a space.
LEMMA GrantedSpaceFacts ==
  ASSUME NEW p \in Pids, NEW t \in Templates, NEW base \in Nat,
         base + Len(Grants(t)) <= MaxLineage
  PROVE  /\ Len(Grants(t)) \in Nat
         /\ GrantedSpace(p, t, base) \in [Slots -> Capability]
         /\ \A s \in Slots :
              \/ GrantedSpace(p, t, base)[s] = NoCap
              \/ \E i \in 1 .. Len(Grants(t)) :
                   /\ Grants(t)[i].slot = s
                   /\ GrantedSpace(p, t, base)[s] =
                        Minted(base + i, Grants(t)[i].object, Grants(t)[i].rights, p, 0)
  <1>. DEFINE G == [slot : Slots, object : 1 .. Len(BootObjects), rights : SUBSET Rights]
  <1>1. Grants(t) \in Seq(G)
    BY ManifestAssumption DEF Grants
  <1>2. Len(Grants(t)) \in Nat
    BY <1>1, LenProperties
  <1>3. Len(BootObjects) \in Nat /\ Len(BootObjects) <= MaxObjects /\ MaxObjects \in Nat
        /\ MaxLineage \in Nat /\ MaxPid \in Nat
    BY ManifestAssumption, BoundsAssumption, LenProperties
  <1>4. ASSUME NEW i \in 1 .. Len(Grants(t))
        PROVE  Minted(base + i, Grants(t)[i].object, Grants(t)[i].rights, p, 0) \in Capability
    <2>1. Grants(t)[i] \in G
      BY <1>1, ElementOfSeq
    <2>. QED
      BY <1>2, <1>3, <2>1 DEF Minted, Capability, Pids
  <1>5. NoCap \in Capability
    BY <1>3 DEF NoCap, Capability, NoPid
  <1>6. \A s \in Slots :
              \/ GrantedSpace(p, t, base)[s] = NoCap
              \/ \E i \in 1 .. Len(Grants(t)) :
                   /\ Grants(t)[i].slot = s
                   /\ GrantedSpace(p, t, base)[s] =
                        Minted(base + i, Grants(t)[i].object, Grants(t)[i].rights, p, 0)
    BY DEF GrantedSpace
  <1>7. \A s \in Slots : GrantedSpace(p, t, base)[s] \in Capability
    BY <1>4, <1>5, <1>6
  <1>8. GrantedSpace(p, t, base) \in [Slots -> Capability]
    BY <1>7 DEF GrantedSpace
  <1>. QED
    BY <1>2, <1>6, <1>8

\* The lineage entries a process's grants append: one each, without a parent.
LEMMA GrantEntriesFacts ==
  ASSUME NEW t \in Templates, NEW n \in 0 .. Len(Grants(t))
  PROVE  /\ GrantEntries(t, n) \in Seq(LineageEntry) /\ Len(GrantEntries(t, n)) = n
         /\ \A i \in 1 .. n : GrantEntries(t, n)[i] =
              Logged(Grants(t)[i].object, Grants(t)[i].rights, 0)
  <1>. DEFINE G == [slot : Slots, object : 1 .. Len(BootObjects), rights : SUBSET Rights]
  <1>1. Grants(t) \in Seq(G)
    BY ManifestAssumption DEF Grants
  <1>2. Len(Grants(t)) \in Nat /\ n \in Nat
    BY <1>1, LenProperties
  <1>3. Len(BootObjects) \in Nat /\ Len(BootObjects) <= MaxObjects /\ MaxObjects \in Nat
        /\ MaxLineage \in Nat
    BY ManifestAssumption, BoundsAssumption, LenProperties
  <1>4. ASSUME NEW i \in 1 .. n
        PROVE  Logged(Grants(t)[i].object, Grants(t)[i].rights, 0)
                 \in LineageEntry
    <2>1. i \in 1 .. Len(Grants(t))
      BY <1>2
    <2>2. Grants(t)[i] \in G
      BY <1>1, <2>1, ElementOfSeq
    <2>. QED
      BY <1>3, <2>2 DEF Logged, LineageEntry
  <1>5. GrantEntries(t, n) \in [1 .. n -> LineageEntry]
    BY <1>4 DEF GrantEntries
  <1>. QED
    BY <1>2, <1>5 DEF GrantEntries

\* Fresh capabilities, their log entries without a revoked parent, keep the
\* spaces in order as long as all of them go to one process.
LEMMA FreshKeepsSpaces ==
  ASSUME SpacesOK, NEW q \in Pids,
         caps' \in [Pids -> [Slots -> Capability]],
         initialCaps' \in [Pids -> [Slots -> Capability]],
         lineage' \in Seq(LineageEntry), Len(lineage') <= MaxLineage,
         CapIds \subseteq CapIds',
         \A x \in CapIds : lineage'[x] = lineage[x],
         \A x \in CapIds' : x \notin CapIds => lineage'[x].parent \notin revoked,
         revoked' = revoked,
         \A p \in Pids, s \in Slots :
           \/ /\ caps'[p][s] \in {caps[p][s], NoCap}
              /\ initialCaps'[p][s] \in {initialCaps[p][s], NoCap}
           \/ /\ p = q /\ initialCaps'[p][s] = caps'[p][s]
              /\ caps'[p][s].id \in CapIds' /\ caps'[p][s].id \notin CapIds
              /\ ~caps'[p][s].revoked /\ caps'[p][s].owner = q
              /\ caps'[p][s].parent = lineage'[caps'[p][s].id].parent
              /\ caps'[p][s].object = lineage'[caps'[p][s].id].object
              /\ caps'[p][s].rights = lineage'[caps'[p][s].id].rights,
         \A s, u \in Slots : caps'[q][s].id = caps'[q][u].id /\ caps'[q][s].id \notin CapIds
                              /\ caps'[q][s].id # 0 => s = u
  PROVE  SpacesOK'
  <1>1. NoCap.id = 0
    BY DEF NoCap
  <1>2. \A p \in Pids, s \in Slots :
          /\ caps[p][s].id # 0 => caps[p][s].id \in CapIds
          /\ initialCaps[p][s].id # 0 => initialCaps[p][s].id \in CapIds
    BY DEF SpacesOK, CapsMatchLineage
  \* The ids in a slot afterwards: old ones, or fresh ones of process q.
  <1>3. \A p \in Pids, s \in Slots :
          \/ /\ caps'[p][s].id # 0 => caps'[p][s].id = caps[p][s].id /\ caps'[p][s].id \in CapIds
             /\ initialCaps'[p][s].id # 0 => /\ initialCaps'[p][s].id = initialCaps[p][s].id
                                             /\ initialCaps'[p][s].id \in CapIds
          \/ p = q /\ initialCaps'[p][s].id = caps'[p][s].id /\ caps'[p][s].id \notin CapIds
    BY <1>1, <1>2
  <1>4. revoked' \subseteq CapIds'
    BY DEF SpacesOK
  <1>5. RevocationIsTransitive'
    BY DEF SpacesOK, RevocationIsTransitive
  <1>6. RevokedFlagsAgree'
    <2>1. RevokedFlagsAgree /\ revoked \subseteq CapIds
      BY DEF SpacesOK
    <2>2. SUFFICES ASSUME NEW p \in Pids, NEW s \in Slots
                   PROVE  /\ caps'[p][s].id # 0 => (caps'[p][s].revoked <=> caps'[p][s].id \in revoked)
                          /\ initialCaps'[p][s].id # 0 =>
                               (initialCaps'[p][s].revoked <=> initialCaps'[p][s].id \in revoked)
      BY DEF RevokedFlagsAgree
    <2>3. CASE /\ caps'[p][s] \in {caps[p][s], NoCap}
               /\ initialCaps'[p][s] \in {initialCaps[p][s], NoCap}
      BY <1>1, <2>1, <2>3 DEF RevokedFlagsAgree
    <2>4. CASE /\ initialCaps'[p][s] = caps'[p][s] /\ ~caps'[p][s].revoked
               /\ caps'[p][s].id \notin CapIds
      BY <2>1, <2>4
    <2>. QED
      BY <2>3, <2>4
  <1>7. ASSUME NEW p \in Pids, NEW s \in Slots, NEW c \in {caps'[p][s], initialCaps'[p][s]}, c.id # 0
        PROVE  /\ c.id \in CapIds' /\ c.owner = p
               /\ c.parent = lineage'[c.id].parent
               /\ c.object = lineage'[c.id].object
               /\ c.rights = lineage'[c.id].rights
    <2>1. CASE c \in {caps[p][s], initialCaps[p][s]}
      <3>1. /\ c.id \in CapIds /\ c.owner = p
            /\ c.parent = lineage[c.id].parent
            /\ c.object = lineage[c.id].object /\ c.rights = lineage[c.id].rights
        BY <1>7, <2>1 DEF SpacesOK, CapsMatchLineage
      <3>. QED
        BY <3>1
    <2>2. CASE c \notin {caps[p][s], initialCaps[p][s]}
      <3>1. /\ p = q /\ c = caps'[p][s]
            /\ caps'[p][s].id \in CapIds' /\ caps'[p][s].owner = q
            /\ caps'[p][s].parent = lineage'[caps'[p][s].id].parent
            /\ caps'[p][s].object = lineage'[caps'[p][s].id].object
            /\ caps'[p][s].rights = lineage'[caps'[p][s].id].rights
        BY <1>1, <1>7, <2>2
      <3>. QED
        BY <3>1
    <2>. QED
      BY <2>1, <2>2
  <1>8. \A p, r \in Pids : \A s, u \in Slots :
           caps'[p][s].id # 0 /\ caps'[p][s].id = caps'[r][u].id => p = r /\ s = u
    <2>1. \A p, r \in Pids : \A s, u \in Slots :
            caps[p][s].id # 0 /\ caps[p][s].id = caps[r][u].id => p = r /\ s = u
      BY DEF SpacesOK, CapsMatchLineage
    <2>2. SUFFICES ASSUME NEW p \in Pids, NEW r \in Pids, NEW s \in Slots, NEW u \in Slots,
                          caps'[p][s].id # 0, caps'[p][s].id = caps'[r][u].id
                   PROVE  p = r /\ s = u
      OBVIOUS
    <2>3. CASE caps'[p][s].id \in CapIds
      <3>1. caps'[p][s].id = caps[p][s].id /\ caps'[r][u].id = caps[r][u].id
        BY <1>3, <2>2, <2>3
      <3>2. caps[p][s].id # 0 /\ caps[p][s].id = caps[r][u].id
        BY <2>2, <3>1
      <3>. QED
        BY <2>1, <3>2
    <2>4. CASE caps'[p][s].id \notin CapIds
      <3>1. p = q /\ r = q
        BY <1>3, <2>2, <2>4
      <3>. QED
        BY <2>2, <2>4, <3>1
    <2>. QED
      BY <2>3, <2>4
  <1>9. BaselinesDistinct'
    <2>1. BaselinesDistinct
      BY DEF SpacesOK
    <2>2. SUFFICES ASSUME NEW p \in Pids, NEW r \in Pids, NEW s \in Slots, NEW u \in Slots,
                          initialCaps'[p][s].id # 0
                   PROVE  /\ initialCaps'[p][s].id = initialCaps'[r][u].id => p = r /\ s = u
                          /\ initialCaps'[p][s].id = caps'[r][u].id => p = r
      BY DEF BaselinesDistinct
    <2>3. CASE initialCaps'[p][s].id \in CapIds
      <3>1. initialCaps'[p][s].id = initialCaps[p][s].id
        BY <1>3, <2>2, <2>3
      <3>2. initialCaps'[p][s].id = initialCaps'[r][u].id =>
              initialCaps'[r][u].id = initialCaps[r][u].id
        BY <1>3, <2>2, <2>3
      <3>3. initialCaps'[p][s].id = caps'[r][u].id => caps'[r][u].id = caps[r][u].id
        BY <1>3, <2>2, <2>3
      <3>. QED
        BY <2>1, <2>2, <3>1, <3>2, <3>3 DEF BaselinesDistinct
    <2>4. CASE initialCaps'[p][s].id \notin CapIds
      <3>1. p = q /\ initialCaps'[p][s].id = caps'[p][s].id
        BY <1>3, <2>2, <2>4
      <3>2. initialCaps'[p][s].id = initialCaps'[r][u].id =>
              r = q /\ initialCaps'[r][u].id = caps'[r][u].id
        BY <1>3, <2>2, <2>4
      <3>3. initialCaps'[p][s].id = caps'[r][u].id => r = q
        BY <1>3, <2>2, <2>4
      <3>. QED
        BY <2>2, <2>4, <3>1, <3>2, <3>3
    <2>. QED
      BY <2>3, <2>4
  <1>10. CapsMatchLineage'
    BY <1>7, <1>8 DEF CapsMatchLineage
  <1>. QED
    BY <1>4, <1>5, <1>6, <1>9, <1>10 DEF SpacesOK

\* Appending n manifest grants to the log, emptying spaces and giving one
\* process its granted space (as create_process does) keeps the spaces in
\* order.
LEMMA GrantKeepsSpaces ==
  ASSUME SpacesOK, NEW q \in Pids, NEW t \in Templates, NEW n \in 0 .. Len(Grants(t)),
         Len(lineage) + n <= MaxLineage,
         caps' \in [Pids -> [Slots -> Capability]],
         initialCaps' \in [Pids -> [Slots -> Capability]],
         \A p \in Pids, s \in Slots :
           \/ /\ caps'[p][s] \in {caps[p][s], NoCap}
              /\ initialCaps'[p][s] \in {initialCaps[p][s], NoCap}
           \/ /\ p = q /\ n = Len(Grants(t))
              /\ caps'[p][s] = GrantedSpace(q, t, Len(lineage))[s]
              /\ initialCaps'[p][s] = GrantedSpace(q, t, Len(lineage))[s],
         lineage' = lineage \o GrantEntries(t, n), revoked' = revoked
  PROVE  SpacesOK'
  <1>0. /\ Len(lineage) \in Nat /\ n \in Nat /\ Len(Grants(t)) \in Nat
        /\ revoked \subseteq CapIds /\ 0 \notin CapIds
    <2>1. Grants(t) \in Seq([slot : Slots, object : 1 .. Len(BootObjects), rights : SUBSET Rights])
      BY ManifestAssumption DEF Grants
    <2>2. Len(lineage) \in Nat /\ n \in Nat /\ Len(Grants(t)) \in Nat
      BY <2>1, LenProperties DEF SpacesOK
    <2>. QED
      BY <2>2 DEF SpacesOK, CapIds
  <1>1. GrantEntries(t, n) \in Seq(LineageEntry) /\ Len(GrantEntries(t, n)) = n
    BY GrantEntriesFacts
  <1>2. \A i \in 1 .. n : GrantEntries(t, n)[i] =
          Logged(Grants(t)[i].object, Grants(t)[i].rights, 0)
    BY GrantEntriesFacts
  <1>3. /\ lineage' \in Seq(LineageEntry) /\ Len(lineage') = Len(lineage) + n
        /\ \A i \in 1 .. Len(lineage) + n : lineage'[i] =
             IF i <= Len(lineage) THEN lineage[i] ELSE GrantEntries(t, n)[i - Len(lineage)]
    <2>1. lineage \in Seq(LineageEntry)
      BY DEF SpacesOK
    <2>2. /\ lineage \o GrantEntries(t, n) \in Seq(LineageEntry)
          /\ Len(lineage \o GrantEntries(t, n)) = Len(lineage) + Len(GrantEntries(t, n))
          /\ \A i \in 1 .. Len(lineage) + Len(GrantEntries(t, n)) :
               (lineage \o GrantEntries(t, n))[i] =
                 IF i <= Len(lineage) THEN lineage[i] ELSE GrantEntries(t, n)[i - Len(lineage)]
      BY ONLY <1>1, <2>1, ConcatProperties
    <2>. QED
      BY <1>1, <2>2
  <1>4. CapIds \subseteq CapIds' /\ Len(lineage') <= MaxLineage
    BY <1>0, <1>3 DEF CapIds
  <1>5. \A x \in CapIds : lineage'[x] = lineage[x]
    BY <1>0, <1>3 DEF CapIds
  <1>6. ASSUME NEW i \in 1 .. n
        PROVE  /\ Len(lineage) + i \in CapIds' /\ Len(lineage) + i \notin CapIds
               /\ lineage'[Len(lineage) + i] =
                    Logged(Grants(t)[i].object, Grants(t)[i].rights, 0)
    <2>1. /\ Len(lineage) + i \in 1 .. Len(lineage) + n /\ ~(Len(lineage) + i <= Len(lineage))
          /\ (Len(lineage) + i) - Len(lineage) = i
      BY <1>0
    <2>2. lineage'[Len(lineage) + i] = GrantEntries(t, n)[i]
      BY <1>3, <2>1
    <2>. QED
      BY <1>2, <1>3, <2>1, <2>2 DEF CapIds
  <1>7. ASSUME NEW x \in CapIds', x \notin CapIds
        PROVE  lineage'[x].parent \notin revoked
    <2>. DEFINE i == x - Len(lineage)
    <2>1. i \in 1 .. n /\ x = Len(lineage) + i
      BY <1>0, <1>3, <1>7 DEF CapIds
    <2>2. lineage'[Len(lineage) + i] =
             Logged(Grants(t)[i].object, Grants(t)[i].rights, 0)
      BY <1>6, <2>1
    <2>3. lineage'[Len(lineage) + i].parent = 0
      BY ONLY <2>2 DEF Logged
    <2>. QED
      BY <1>0, <2>1, <2>3
  <1>8. ASSUME NEW s \in Slots, n = Len(Grants(t)),
               GrantedSpace(q, t, Len(lineage))[s] # NoCap
        PROVE  \E i \in 1 .. n :
                 /\ Grants(t)[i].slot = s
                 /\ GrantedSpace(q, t, Len(lineage))[s] =
                      Minted(Len(lineage) + i, Grants(t)[i].object, Grants(t)[i].rights, q, 0)
    <2>1. Len(lineage) + Len(Grants(t)) <= MaxLineage
      BY <1>8
    <2>2. \/ GrantedSpace(q, t, Len(lineage))[s] = NoCap
          \/ \E i \in 1 .. Len(Grants(t)) :
               /\ Grants(t)[i].slot = s
               /\ GrantedSpace(q, t, Len(lineage))[s] =
                    Minted(Len(lineage) + i, Grants(t)[i].object, Grants(t)[i].rights, q, 0)
      BY ONLY <1>0, <2>1, q \in Pids, t \in Templates, s \in Slots, GrantedSpaceFacts
    <2>. QED
      BY ONLY <1>8, <2>2
  \* A fresh capability in slot s is the i-th grant.
  <1>9. ASSUME NEW p \in Pids, NEW s \in Slots
        PROVE  \/ /\ caps'[p][s] \in {caps[p][s], NoCap}
                  /\ initialCaps'[p][s] \in {initialCaps[p][s], NoCap}
               \/ /\ p = q /\ initialCaps'[p][s] = caps'[p][s]
                  /\ \E i \in 1 .. n :
                       /\ Grants(t)[i].slot = s
                       /\ caps'[p][s] =
                            Minted(Len(lineage) + i, Grants(t)[i].object, Grants(t)[i].rights, q, 0)
    BY <1>8
  <1>10. ASSUME NEW p \in Pids, NEW s \in Slots, NEW i \in 1 .. n,
                caps'[p][s] = Minted(Len(lineage) + i, Grants(t)[i].object, Grants(t)[i].rights, q, 0)
         PROVE  /\ caps'[p][s].id \in CapIds' /\ caps'[p][s].id \notin CapIds
                /\ ~caps'[p][s].revoked /\ caps'[p][s].owner = q
                /\ caps'[p][s].parent = lineage'[caps'[p][s].id].parent
                /\ caps'[p][s].object = lineage'[caps'[p][s].id].object
                /\ caps'[p][s].rights = lineage'[caps'[p][s].id].rights
    <2>1. /\ caps'[p][s].id = Len(lineage) + i /\ ~caps'[p][s].revoked /\ caps'[p][s].owner = q
          /\ caps'[p][s].parent = 0 /\ caps'[p][s].object = Grants(t)[i].object
          /\ caps'[p][s].rights = Grants(t)[i].rights
      BY ONLY <1>10 DEF Minted
    <2>2. /\ Len(lineage) + i \in CapIds' /\ Len(lineage) + i \notin CapIds
          /\ lineage'[Len(lineage) + i] = Logged(Grants(t)[i].object, Grants(t)[i].rights, 0)
      BY <1>6
    <2>. QED
      BY ONLY <2>1, <2>2 DEF Logged
  <1>11. \A p \in Pids, s \in Slots :
           \/ /\ caps'[p][s] \in {caps[p][s], NoCap}
              /\ initialCaps'[p][s] \in {initialCaps[p][s], NoCap}
           \/ /\ p = q /\ initialCaps'[p][s] = caps'[p][s]
              /\ caps'[p][s].id \in CapIds' /\ caps'[p][s].id \notin CapIds
              /\ ~caps'[p][s].revoked /\ caps'[p][s].owner = q
              /\ caps'[p][s].parent = lineage'[caps'[p][s].id].parent
              /\ caps'[p][s].object = lineage'[caps'[p][s].id].object
              /\ caps'[p][s].rights = lineage'[caps'[p][s].id].rights
    <2>1. TAKE p \in Pids, s \in Slots
    <2>2. CASE /\ caps'[p][s] \in {caps[p][s], NoCap}
               /\ initialCaps'[p][s] \in {initialCaps[p][s], NoCap}
      BY <2>2
    <2>3. CASE /\ p = q /\ initialCaps'[p][s] = caps'[p][s]
               /\ \E i \in 1 .. n :
                    caps'[p][s] = Minted(Len(lineage) + i, Grants(t)[i].object,
                                         Grants(t)[i].rights, q, 0)
      BY <1>10, <2>3
    <2>. QED
      BY <1>9, <2>2, <2>3
  <1>12. ASSUME NEW s \in Slots, NEW u \in Slots, caps'[q][s].id = caps'[q][u].id,
                caps'[q][s].id \notin CapIds, caps'[q][s].id # 0
         PROVE  s = u
    <2>1. ASSUME NEW v \in Slots, caps'[q][v].id \notin CapIds, caps'[q][v].id # 0
          PROVE  \E i \in 1 .. n : Grants(t)[i].slot = v /\ caps'[q][v].id = Len(lineage) + i
      <3>1. NoCap.id = 0 /\ (caps[q][v].id # 0 => caps[q][v].id \in CapIds)
        BY DEF NoCap, SpacesOK, CapsMatchLineage
      <3>. QED
        <4>1. caps'[q][v] \notin {caps[q][v], NoCap}
          BY <2>1, <3>1
        <4>2. PICK i \in 1 .. n :
                /\ Grants(t)[i].slot = v
                /\ caps'[q][v] = Minted(Len(lineage) + i, Grants(t)[i].object,
                                        Grants(t)[i].rights, q, 0)
          BY <1>9, <4>1
        <4>3. caps'[q][v].id = Len(lineage) + i
          BY ONLY <4>2 DEF Minted
        <4>. QED
          BY <4>2, <4>3
    <2>2. PICK i \in 1 .. n : Grants(t)[i].slot = s /\ caps'[q][s].id = Len(lineage) + i
      BY <1>12, <2>1
    <2>3. PICK j \in 1 .. n : Grants(t)[j].slot = u /\ caps'[q][u].id = Len(lineage) + j
      BY <1>12, <2>1
    <2>4. i = j
      <3>1. Len(lineage) + i = Len(lineage) + j
        BY <1>12, <2>2, <2>3
      <3>. QED
        BY <1>0, <3>1
    <2>. QED
      BY <2>2, <2>3, <2>4
  <1>13. \A s, u \in Slots : caps'[q][s].id = caps'[q][u].id /\ caps'[q][s].id \notin CapIds
                               /\ caps'[q][s].id # 0 => s = u
    BY <1>12
  <1>14. \A x \in CapIds' : x \notin CapIds => lineage'[x].parent \notin revoked
    BY <1>7
  <1>15. /\ caps' \in [Pids -> [Slots -> Capability]] /\ initialCaps' \in [Pids -> [Slots -> Capability]]
         /\ revoked' = revoked /\ lineage' \in Seq(LineageEntry)
    BY <1>3
  <1>. QED
    BY ONLY SpacesOK, q \in Pids, <1>4, <1>5, <1>11, <1>13, <1>14, <1>15, FreshKeepsSpaces

\* cap_move carries the record along, so nothing can tell but the slot.
LEMMA MoveKeepsSpaces ==
  ASSUME SpacesOK, NEW p \in Pids, NEW source \in Slots, NEW target \in Slots,
         CapMove(p, source, target)
  PROVE  SpacesOK'
  <1>1. /\ caps[p][target].id = 0 /\ caps[p][source].id # 0
        /\ caps \in [Pids -> [Slots -> Capability]]
        /\ initialCaps' = initialCaps /\ lineage' = lineage /\ revoked' = revoked
        /\ caps' = [caps EXCEPT ![p][source] = NoCap, ![p][target] = caps[p][source]]
    BY DEF CapMove, CanGrant, SpacesOK, procVars
  <1>2. \A q \in Pids, s \in Slots : caps'[q][s] =
          IF q = p /\ s = target THEN caps[p][source]
          ELSE IF q = p /\ s = source THEN NoCap ELSE caps[q][s]
    BY <1>1
  <1>3. NoCap.id = 0 /\ NoCap \in Capability /\ CapIds' = CapIds
    BY <1>1, NoCapFacts DEF CapIds
  <1>4. caps' \in [Pids -> [Slots -> Capability]]
    BY <1>1, <1>3
  <1>5. RevocationIsTransitive'
    BY <1>1, <1>3 DEF SpacesOK, RevocationIsTransitive
  <1>6. RevokedFlagsAgree'
    <2>1. RevokedFlagsAgree
      BY DEF SpacesOK
    <2>. QED
      BY <1>1, <1>2, <1>3, <2>1 DEF RevokedFlagsAgree
  <1>7. \A q \in Pids, s \in Slots : \A c \in {caps'[q][s], initialCaps'[q][s]} :
          c.id # 0 => \E u \in Slots : c \in {caps[q][u], initialCaps[q][u]}
    BY <1>1, <1>2, <1>3
  <1>8. ASSUME NEW q \in Pids, NEW s \in Slots,
               NEW c \in {caps'[q][s], initialCaps'[q][s]}, c.id # 0
        PROVE  /\ c.id \in CapIds' /\ c.owner = q
               /\ c.parent = lineage'[c.id].parent
               /\ c.object = lineage'[c.id].object
               /\ c.rights = lineage'[c.id].rights
    <2>1. PICK u \in Slots : c \in {caps[q][u], initialCaps[q][u]}
      BY <1>7, <1>8
    <2>2. /\ c.id \in CapIds /\ c.owner = q
          /\ c.parent = lineage[c.id].parent
          /\ c.object = lineage[c.id].object /\ c.rights = lineage[c.id].rights
      BY <1>8, <2>1 DEF SpacesOK, CapsMatchLineage
    <2>. QED
      BY <1>1, <1>3, <2>2
  <1>9. \A q, r \in Pids : \A s, u \in Slots :
          caps'[q][s].id # 0 /\ caps'[q][s].id = caps'[r][u].id => q = r /\ s = u
    <2>1. \A q, r \in Pids : \A s, u \in Slots :
            caps[q][s].id # 0 /\ caps[q][s].id = caps[r][u].id => q = r /\ s = u
      BY DEF SpacesOK, CapsMatchLineage
    <2>. QED
      BY <1>1, <1>2, <1>3, <2>1
  <1>10. BaselinesDistinct'
    <2>1. BaselinesDistinct
      BY DEF SpacesOK
    <2>. QED
      BY <1>1, <1>2, <1>3, <2>1 DEF BaselinesDistinct
  <1>11. CapsMatchLineage'
    BY <1>8, <1>9 DEF CapsMatchLineage
  <1>. QED
    BY <1>1, <1>3, <1>4, <1>5, <1>6, <1>10, <1>11 DEF SpacesOK

\* cap_revoke: the closure is closed under descent, and every copy of a
\* capability in it is marked.
LEMMA RevokeKeepsSpaces ==
  ASSUME SpacesOK, NEW p \in Pids, NEW s0 \in Slots, CapRevoke(p, s0)
  PROVE  SpacesOK'
  <1>. DEFINE R == revoked \cup {caps[p][s0].id}
  <1>1. /\ caps \in [Pids -> [Slots -> Capability]] /\ initialCaps \in [Pids -> [Slots -> Capability]]
        /\ lineage' = lineage /\ revoked' = RevocationClosure(R)
        /\ caps' = MarkRevoked(caps, RevocationClosure(R))
        /\ initialCaps' = MarkRevoked(initialCaps, RevocationClosure(R))
    BY DEF CapRevoke, SpacesOK
  <1>2. R \in SUBSET CapIds
    <2>1. caps[p][s0].id # 0 /\ revoked \subseteq CapIds
      BY DEF CapRevoke, Lookup, IsLive, SpacesOK
    <2>2. caps[p][s0].id \in CapIds
      BY <2>1, HeldFacts
    <2>. QED
      BY <2>1, <2>2
  <1>3. /\ revoked' \subseteq CapIds /\ revoked \subseteq revoked'
        /\ \A x \in CapIds : lineage[x].parent \in revoked' => x \in revoked'
    BY <1>1, <1>2, RevocationClosed
  <1>4. CapIds' = CapIds
    BY <1>1 DEF CapIds
  <1>5. RevocationIsTransitive'
    BY <1>1, <1>3, <1>4 DEF RevocationIsTransitive
  <1>6. \A q \in Pids, s \in Slots :
          /\ caps'[q][s] = IF caps[q][s].id \in revoked'
                           THEN Marked(caps[q][s]) ELSE caps[q][s]
          /\ initialCaps'[q][s] = IF initialCaps[q][s].id \in revoked'
                                  THEN Marked(initialCaps[q][s])
                                  ELSE initialCaps[q][s]
    BY <1>1 DEF MarkRevoked
  <1>7. \A c \in Capability :
          /\ Marked(c) \in Capability
          /\ Marked(c).revoked
          /\ Marked(c).id = c.id
          /\ Marked(c).owner = c.owner
          /\ Marked(c).parent = c.parent
          /\ Marked(c).object = c.object
          /\ Marked(c).rights = c.rights
    BY DEF Marked, Capability
  \* Marking changes the flag and nothing else.
  <1>8. ASSUME NEW q \in Pids, NEW s \in Slots
        PROVE  /\ caps'[q][s] \in Capability /\ initialCaps'[q][s] \in Capability
               /\ caps'[q][s].id = caps[q][s].id /\ caps'[q][s].owner = caps[q][s].owner
               /\ caps'[q][s].parent = caps[q][s].parent
               /\ caps'[q][s].object = caps[q][s].object
               /\ caps'[q][s].rights = caps[q][s].rights
               /\ initialCaps'[q][s].id = initialCaps[q][s].id
               /\ initialCaps'[q][s].owner = initialCaps[q][s].owner
               /\ initialCaps'[q][s].parent = initialCaps[q][s].parent
               /\ initialCaps'[q][s].object = initialCaps[q][s].object
               /\ initialCaps'[q][s].rights = initialCaps[q][s].rights
    <2>1. caps[q][s] \in Capability /\ initialCaps[q][s] \in Capability
      BY <1>1
    <2>2. /\ caps'[q][s] \in {caps[q][s], Marked(caps[q][s])}
          /\ initialCaps'[q][s] \in {initialCaps[q][s], Marked(initialCaps[q][s])}
      BY ONLY <1>6, q \in Pids, s \in Slots
    <2>3. ASSUME NEW c \in Capability, NEW d \in {c, Marked(c)}
          PROVE  /\ d \in Capability /\ d.id = c.id /\ d.owner = c.owner
                 /\ d.parent = c.parent /\ d.object = c.object /\ d.rights = c.rights
      BY ONLY <1>7, <2>3
    <2>. QED
      BY ONLY <2>1, <2>2, <2>3
  <1>9. caps' \in [Pids -> [Slots -> Capability]] /\ initialCaps' \in [Pids -> [Slots -> Capability]]
    BY <1>1, <1>8 DEF MarkRevoked
  <1>10. RevokedFlagsAgree'
    <2>1. SUFFICES ASSUME NEW q \in Pids, NEW s \in Slots
                   PROVE  /\ caps'[q][s].id # 0 => (caps'[q][s].revoked <=> caps'[q][s].id \in revoked')
                          /\ initialCaps'[q][s].id # 0 =>
                               (initialCaps'[q][s].revoked <=> initialCaps'[q][s].id \in revoked')
      BY DEF RevokedFlagsAgree
    <2>2. /\ caps[q][s].id # 0 => (caps[q][s].revoked <=> caps[q][s].id \in revoked)
          /\ initialCaps[q][s].id # 0 => (initialCaps[q][s].revoked <=> initialCaps[q][s].id \in revoked)
      BY DEF SpacesOK, RevokedFlagsAgree
    <2>3. caps[q][s] \in Capability /\ initialCaps[q][s] \in Capability
      BY <1>1
    <2>4. /\ caps'[q][s].id = caps[q][s].id /\ initialCaps'[q][s].id = initialCaps[q][s].id
          /\ caps'[q][s] = IF caps[q][s].id \in revoked' THEN Marked(caps[q][s]) ELSE caps[q][s]
          /\ initialCaps'[q][s] = IF initialCaps[q][s].id \in revoked'
                                  THEN Marked(initialCaps[q][s]) ELSE initialCaps[q][s]
      BY <1>6, <1>8
    <2>5. Marked(caps[q][s]).revoked /\ Marked(initialCaps[q][s]).revoked
      BY <1>7, <2>3
    <2>. QED
      BY ONLY <1>3, <2>2, <2>4, <2>5
  <1>11. CapsMatchLineage'
    <2>1. ASSUME NEW q \in Pids, NEW s \in Slots,
                 NEW c \in {caps'[q][s], initialCaps'[q][s]}, c.id # 0
          PROVE  /\ c.id \in CapIds' /\ c.owner = q
                 /\ c.parent = lineage'[c.id].parent
                 /\ c.object = lineage'[c.id].object
                 /\ c.rights = lineage'[c.id].rights
      <3>1. PICK d \in {caps[q][s], initialCaps[q][s]} :
              /\ c.id = d.id /\ c.owner = d.owner /\ c.parent = d.parent
              /\ c.object = d.object /\ c.rights = d.rights
        BY <1>8, <2>1
      <3>2. /\ d.id \in CapIds /\ d.owner = q
            /\ d.parent = lineage[d.id].parent
            /\ d.object = lineage[d.id].object /\ d.rights = lineage[d.id].rights
        BY <2>1, <3>1, HeldFacts
      <3>. QED
        BY <1>1, <1>4, <3>1, <3>2
    <2>2. \A q, r \in Pids : \A s, u \in Slots :
            caps'[q][s].id # 0 /\ caps'[q][s].id = caps'[r][u].id => q = r /\ s = u
      <3>1. \A q \in Pids, s \in Slots : caps'[q][s].id = caps[q][s].id
        BY <1>8
      <3>2. \A q, r \in Pids : \A s, u \in Slots :
              caps[q][s].id # 0 /\ caps[q][s].id = caps[r][u].id => q = r /\ s = u
        BY IdsDistinct
      <3>. QED
        BY ONLY <3>1, <3>2
    <2>. QED
      BY <2>1, <2>2 DEF CapsMatchLineage
  <1>12. BaselinesDistinct'
    <2>1. BaselinesDistinct
      BY DEF SpacesOK
    <2>2. \A q \in Pids, s \in Slots :
            caps'[q][s].id = caps[q][s].id /\ initialCaps'[q][s].id = initialCaps[q][s].id
      BY <1>8
    <2>. QED
      BY <2>1, <2>2 DEF BaselinesDistinct
  <1>. QED
    BY <1>1, <1>3, <1>4, <1>5, <1>9, <1>10, <1>11, <1>12 DEF SpacesOK

\* A restart puts the baseline of q back into its running space.
LEMMA RestartKeepsSpaces ==
  ASSUME SpacesOK, NEW q \in Pids, caps' = [caps EXCEPT ![q] = initialCaps[q]],
         initialCaps' = initialCaps, lineage' = lineage, revoked' = revoked
  PROVE  SpacesOK'
  <1>1. /\ caps \in [Pids -> [Slots -> Capability]] /\ initialCaps \in [Pids -> [Slots -> Capability]]
        /\ CapIds' = CapIds
    BY DEF SpacesOK, CapIds
  <1>2. \A p \in Pids, s \in Slots :
          caps'[p][s] = IF p = q THEN initialCaps[p][s] ELSE caps[p][s]
    BY <1>1
  <1>3. caps' \in [Pids -> [Slots -> Capability]]
    BY <1>1
  <1>4. RevocationIsTransitive'
    BY <1>1 DEF SpacesOK, RevocationIsTransitive
  <1>5. RevokedFlagsAgree'
    BY <1>2 DEF SpacesOK, RevokedFlagsAgree
  <1>6. CapsMatchLineage'
    <2>1. \A p \in Pids, s \in Slots : \A c \in {caps'[p][s], initialCaps'[p][s]} :
             c \in {caps[p][s], initialCaps[p][s]}
      BY <1>2
    <2>2. \A p \in Pids, s \in Slots : \A c \in {caps'[p][s], initialCaps'[p][s]} :
             c.id # 0 => /\ c.id \in CapIds' /\ c.owner = p
                         /\ c.parent = lineage'[c.id].parent
                         /\ c.object = lineage'[c.id].object
                         /\ c.rights = lineage'[c.id].rights
      BY <1>1, <2>1 DEF SpacesOK, CapsMatchLineage
    <2>3. \A p, r \in Pids : \A s, u \in Slots :
            caps'[p][s].id # 0 /\ caps'[p][s].id = caps'[r][u].id => p = r /\ s = u
      BY <1>2 DEF SpacesOK, CapsMatchLineage, BaselinesDistinct
    <2>. QED
      BY <2>2, <2>3 DEF CapsMatchLineage
  <1>7. BaselinesDistinct'
    BY <1>2 DEF SpacesOK, BaselinesDistinct
  <1>. QED
    BY <1>1, <1>3, <1>4, <1>5, <1>6, <1>7 DEF SpacesOK

\* Every sweep and every removal of endpoints keeps the type of the table.
LEMMA SweepKeepsObjects ==
  ASSUME ObjectsOK, NEW gone, NEW p
  PROVE  /\ Remove(objects, gone) \in Seq(KernelObject)
         /\ Len(Remove(objects, gone)) <= MaxObjects
         /\ Remove(RemoveOwnedEndpoints(objects, p), gone) \in Seq(KernelObject)
         /\ Len(Remove(RemoveOwnedEndpoints(objects, p), gone)) <= MaxObjects
  <1>1. Remove(objects, gone) \in Seq(KernelObject) /\ Len(Remove(objects, gone)) = Len(objects)
    BY RemoveType DEF ObjectsOK
  <1>2. /\ RemoveOwnedEndpoints(objects, p) \in Seq(KernelObject)
        /\ Len(RemoveOwnedEndpoints(objects, p)) = Len(objects)
    BY RemoveType DEF ObjectsOK, RemoveOwnedEndpoints
  <1>3. /\ Remove(RemoveOwnedEndpoints(objects, p), gone) \in Seq(KernelObject)
        /\ Len(Remove(RemoveOwnedEndpoints(objects, p), gone)) = Len(objects)
    BY <1>2, RemoveType
  <1>. QED
    BY <1>1, <1>3 DEF ObjectsOK

\* A process that passes lookup_capability presents a capability that was
\* issued, for an object of the table, and is not on the revoked list.
LEMMA LookupFacts ==
  ASSUME SpacesOK, NEW p \in Pids, NEW s \in Slots, IsLive(caps[p][s])
  PROVE  /\ caps[p][s].id \in CapIds /\ caps[p][s].id \notin revoked
         /\ caps[p][s].id \in 0 .. Len(lineage)
         /\ caps[p][s].object \in 1 .. MaxObjects
         /\ caps[p][s].rights \in SUBSET Rights
  <1>1. caps[p][s].id \in CapIds /\ caps[p][s].id \notin revoked
    BY DEF IsLive, SpacesOK, CapsMatchLineage
  <1>2. lineage[caps[p][s].id] \in LineageEntry
    BY <1>1, ElementOfSeq DEF SpacesOK, CapIds
  <1>3. /\ caps[p][s].object = lineage[caps[p][s].id].object
        /\ caps[p][s].rights = lineage[caps[p][s].id].rights
    BY <1>1 DEF IsLive, SpacesOK, CapsMatchLineage
  <1>4. Len(lineage) \in Nat
    BY LenProperties DEF SpacesOK
  <1>5. caps[p][s].id \in 0 .. Len(lineage)
    BY <1>1, <1>4 DEF CapIds
  <1>. QED
    BY <1>1, <1>2, <1>3, <1>5 DEF LineageEntry

\* The state stage_boot_config_runtime leaves behind.
LEMMA CapInvInit == CapInit => CapInv
  <1>. SUFFICES ASSUME CapInit PROVE CapInv
    OBVIOUS
  <1>. DEFINE G == GrantedSpace(InitPid, InitTemplate, 0)
              n == Len(Grants(InitTemplate))
  <1>1. /\ InitTemplate \in Templates /\ InitPid \in Pids /\ n \in Nat /\ n <= MaxLineage
        /\ 0 + n <= MaxLineage /\ MaxLineage \in Nat /\ MaxPid \in Nat /\ MaxObjects \in Nat
        /\ n \in 0 .. n /\ 0 \in Nat
    <2>1. Grants(InitTemplate) \in
            Seq([slot : Slots, object : 1 .. Len(BootObjects), rights : SUBSET Rights])
      BY ManifestAssumption DEF Grants
    <2>2. n \in Nat
      BY <2>1, LenProperties
    <2>. QED
      BY <2>2, ManifestAssumption, BoundsAssumption DEF InitPid, Pids, Grants
  <1>2. /\ G \in [Slots -> Capability]
        /\ \A s \in Slots :
             \/ G[s] = NoCap
             \/ \E i \in 1 .. n :
                  /\ Grants(InitTemplate)[i].slot = s
                  /\ G[s] = Minted(0 + i, Grants(InitTemplate)[i].object,
                                   Grants(InitTemplate)[i].rights, InitPid, 0)
    BY <1>1, GrantedSpaceFacts
  <1>3. /\ lineage \in Seq(LineageEntry) /\ Len(lineage) = n
        /\ \A i \in 1 .. n : lineage[i] =
             Logged(Grants(InitTemplate)[i].object, Grants(InitTemplate)[i].rights, 0)
    BY <1>1, GrantEntriesFacts DEF CapInit
  <1>4. EmptySpace \in [Slots -> Capability] /\ NoCap.id = 0
    BY <1>1 DEF EmptySpace, NoCap, Capability, NoPid
  <1>5. caps \in [Pids -> [Slots -> Capability]] /\ initialCaps = caps /\ revoked = {}
    BY <1>2, <1>4 DEF CapInit
  \* Only init holds anything, and what it holds is a grant of the manifest.
  <1>6. ASSUME NEW p \in Pids, NEW s \in Slots, caps[p][s].id # 0
        PROVE  p = InitPid /\ \E i \in 1 .. n :
                 /\ Grants(InitTemplate)[i].slot = s
                 /\ caps[p][s] = Minted(0 + i, Grants(InitTemplate)[i].object,
                                        Grants(InitTemplate)[i].rights, InitPid, 0)
    <2>1. p = InitPid
      BY <1>4, <1>6 DEF CapInit, EmptySpace
    <2>2. caps[p][s] = G[s]
      BY <2>1 DEF CapInit
    <2>. QED
      BY <1>2, <1>4, <1>6, <2>1, <2>2
  <1>7. ASSUME NEW p \in Pids, NEW s \in Slots, caps[p][s].id # 0
        PROVE  /\ caps[p][s].id \in CapIds /\ caps[p][s].owner = p /\ ~caps[p][s].revoked
               /\ caps[p][s].parent = lineage[caps[p][s].id].parent
               /\ caps[p][s].object = lineage[caps[p][s].id].object
               /\ caps[p][s].rights = lineage[caps[p][s].id].rights
               /\ caps[p][s].id \in 1 .. n /\ Grants(InitTemplate)[caps[p][s].id].slot = s
    <2>1. PICK i \in 1 .. n :
                 /\ Grants(InitTemplate)[i].slot = s
                 /\ caps[p][s] = Minted(0 + i, Grants(InitTemplate)[i].object,
                                        Grants(InitTemplate)[i].rights, InitPid, 0)
      BY <1>6, <1>7
    <2>2. /\ caps[p][s].id = i /\ caps[p][s].owner = InitPid /\ ~caps[p][s].revoked
          /\ caps[p][s].parent = 0 /\ caps[p][s].object = Grants(InitTemplate)[i].object
          /\ caps[p][s].rights = Grants(InitTemplate)[i].rights
      <3>1. 0 + i = i
        BY <1>1
      <3>2. caps[p][s] = Minted(i, Grants(InitTemplate)[i].object,
                                Grants(InitTemplate)[i].rights, InitPid, 0)
        BY ONLY <2>1, <3>1
      <3>. QED
        BY ONLY <3>2 DEF Minted
    <2>3. /\ lineage[i].parent = 0 /\ lineage[i].object = Grants(InitTemplate)[i].object
          /\ lineage[i].rights = Grants(InitTemplate)[i].rights
      <3>1. lineage[i] = Logged(Grants(InitTemplate)[i].object, Grants(InitTemplate)[i].rights, 0)
        BY <1>3
      <3>. QED
        BY ONLY <3>1 DEF Logged
    <2>4. i \in CapIds
      BY <1>1, <1>3 DEF CapIds
    <2>5. p = InitPid
      BY <1>6, <1>7
    <2>. QED
      BY <2>1, <2>2, <2>3, <2>4, <2>5
  <1>8. RevocationIsTransitive /\ RevokedFlagsAgree
    BY <1>5, <1>7 DEF RevocationIsTransitive, RevokedFlagsAgree
  <1>9. \A p, q \in Pids : \A s, u \in Slots :
          caps[p][s].id # 0 /\ caps[p][s].id = caps[q][u].id => p = q /\ s = u
    <2>. SUFFICES ASSUME NEW p \in Pids, NEW q \in Pids, NEW s \in Slots, NEW u \in Slots,
                         caps[p][s].id # 0, caps[p][s].id = caps[q][u].id
                  PROVE  p = q /\ s = u
      OBVIOUS
    <2>1. p = InitPid /\ q = InitPid
      BY <1>6
    <2>2. Grants(InitTemplate)[caps[p][s].id].slot = s /\ Grants(InitTemplate)[caps[q][u].id].slot = u
      BY <1>7
    <2>. QED
      BY ONLY <2>1, <2>2, caps[p][s].id = caps[q][u].id
  <1>10. CapsMatchLineage /\ BaselinesDistinct
    <2>1. BaselinesDistinct
      BY <1>5, <1>9 DEF BaselinesDistinct
    <2>2. \A p \in Pids, s \in Slots : \A c \in {caps[p][s], initialCaps[p][s]} :
            c.id # 0 => /\ c.id \in CapIds /\ c.owner = p
                        /\ c.parent = lineage[c.id].parent
                        /\ c.object = lineage[c.id].object /\ c.rights = lineage[c.id].rights
      <3>. SUFFICES ASSUME NEW p \in Pids, NEW s \in Slots, caps[p][s].id # 0
                    PROVE  /\ caps[p][s].id \in CapIds /\ caps[p][s].owner = p
                           /\ caps[p][s].parent = lineage[caps[p][s].id].parent
                           /\ caps[p][s].object = lineage[caps[p][s].id].object
                           /\ caps[p][s].rights = lineage[caps[p][s].id].rights
        BY <1>5
      <3>. QED
        BY <1>7
    <2>. QED
      BY ONLY <1>9, <2>1, <2>2 DEF CapsMatchLineage
  <1>11. SpacesOK
    BY <1>1, <1>3, <1>5, <1>8, <1>10 DEF SpacesOK, CapIds
  <1>12. ObjectsOK
    <2>1. BootObjects \in Seq(Kinds) /\ Len(BootObjects) \in Nat
      BY ManifestAssumption, LenProperties
    <2>2. \A i \in 1 .. Len(BootObjects) : BootObject(i) \in KernelObject
      BY <1>1, <2>1, ElementOfSeq DEF BootObject, KernelObject, NoPid
    <2>3. objects \in [1 .. Len(BootObjects) -> KernelObject]
      BY <2>2 DEF CapInit
    <2>4. objects \in Seq(KernelObject) /\ Len(objects) = Len(BootObjects)
      BY ONLY <2>1, <2>3
    <2>. QED
      BY <2>4, ManifestAssumption DEF ObjectsOK
  <1>13. ProcessesOK
    BY <1>1, BoundsAssumption DEF CapInit, ProcessesOK, Verdicts, Pids, InitPid, NoPid
  <1>. QED
    BY <1>11, <1>12, <1>13, CapInvSplit

-----------------------------------------------------------------------------
(* One lemma per kind of call *)

\* The calls that mint one capability.
LEMMA CapDeriveStep ==
  ASSUME CapInv, NEW p \in Pids, NEW s \in Slots, NEW u \in Slots, NEW m \in Masks,
         CapDerive(p, s, u, m)
  PROVE  CapInv'
  <1>1. SpacesOK /\ ObjectsOK /\ ProcessesOK /\ m \in SUBSET Rights
    BY CapInvSplit, ManifestAssumption
  <1>2. SpacesOK'
    BY <1>1, LookupFacts, MintKeepsSpaces, BoundsAssumption DEF CapDerive, Lookup
  <1>. QED
    BY <1>1, <1>2, CapInvJoin DEF CapDerive, ObjectsOK, ProcessesOK, procVars

\* cap_transfer mints in the space of another process.
LEMMA CapTransferStep ==
  ASSUME CapInv, NEW p \in Pids, NEW s \in Slots, NEW u \in Slots, NEW q \in Pids,
         NEW m \in Masks, CapTransfer(p, s, q, u, m)
  PROVE  CapInv'
  <1>1. SpacesOK /\ ObjectsOK /\ ProcessesOK /\ m \in SUBSET Rights
    BY CapInvSplit, ManifestAssumption
  <1>2. SpacesOK'
    BY <1>1, LookupFacts, MintKeepsSpaces, BoundsAssumption DEF CapTransfer, Lookup
  <1>. QED
    BY <1>1, <1>2, CapInvJoin DEF CapTransfer, ObjectsOK, ProcessesOK, procVars

\* namespace_resolve mints a child of the namespace capability.
LEMMA NamespaceResolveStep ==
  ASSUME CapInv, NEW p \in Pids, NEW s \in Slots, NEW u \in Slots,
         NEW e \in NamespaceEntries, NamespaceResolve(p, s, u, e)
  PROVE  CapInv'
  <1>1. SpacesOK /\ ObjectsOK /\ ProcessesOK
    BY CapInvSplit
  <1>2. e.object \in 1 .. MaxObjects /\ e.rights \in SUBSET Rights
    <2>1. Len(BootObjects) \in Nat /\ Len(BootObjects) <= MaxObjects /\ MaxObjects \in Nat
      BY ManifestAssumption, BoundsAssumption, LenProperties
    <2>2. e \in [object : 1 .. Len(BootObjects), rights : SUBSET Rights]
      BY ManifestAssumption
    <2>. QED
      BY <2>1, <2>2
  <1>3. SpacesOK'
    BY <1>1, <1>2, LookupFacts, MintKeepsSpaces, BoundsAssumption
    DEF NamespaceResolve, LookupKind, Lookup
  <1>. QED
    BY <1>1, <1>3, CapInvJoin DEF NamespaceResolve, ObjectsOK, ProcessesOK, procVars

\* The calls that mint a capability for an object they create.
LEMMA NewObjectStep ==
  ASSUME CapInv, NEW p \in Pids, NEW s \in Slots, NEW u \in Slots,
         VfsDeriveRoot(p, s, u) \/ EndpointCreate(p, u)
  PROVE  CapInv'
  <1>0. SpacesOK /\ ObjectsOK /\ ProcessesOK
    BY CapInvSplit
  <1>1. /\ Len(objects) \in Nat /\ MaxObjects \in Nat /\ Len(lineage) \in Nat
        /\ 0 \in 0 .. Len(lineage) /\ 0 \notin revoked
    <2>1. Len(objects) \in Nat /\ Len(lineage) \in Nat /\ revoked \subseteq CapIds
      BY <1>0, LenProperties DEF ObjectsOK, SpacesOK
    <2>. QED
      BY <2>1, BoundsAssumption DEF CapIds
  <1>2. CASE VfsDeriveRoot(p, s, u)
    <2>1. /\ Len(objects) + 1 \in 1 .. MaxObjects
          /\ caps[p][s].rights \cap {"read", "resolve", "create"} \in SUBSET Rights
      <3>1. Len(objects) < MaxObjects /\ IsLive(caps[p][s])
        BY <1>2 DEF VfsDeriveRoot, LookupKind, Lookup
      <3>2. caps[p][s].rights \in SUBSET Rights
        BY <1>0, <3>1, LookupFacts
      <3>. QED
        BY ONLY <1>1, <3>1, <3>2
    <2>2. SpacesOK'
      BY <1>0, <1>1, <1>2, <2>1, LookupFacts, MintKeepsSpaces, BoundsAssumption
      DEF VfsDeriveRoot, LookupKind, Lookup
    <2>3. [kind |-> "vfs_root", owner |-> NoPid, derived |-> TRUE, live |-> TRUE] \in KernelObject
      BY BoundsAssumption DEF KernelObject, Kinds, NoPid
    <2>4. ObjectsOK'
      BY <1>0, <1>1, <1>2, <2>3, AppendProperties DEF VfsDeriveRoot, ObjectsOK
    <2>. QED
      BY <1>0, <1>2, <2>2, <2>4, CapInvJoin DEF VfsDeriveRoot, ProcessesOK, procVars
  <1>3. CASE EndpointCreate(p, u)
    <2>1. Len(objects) + 1 \in 1 .. MaxObjects /\ {"send", "receive"} \in SUBSET Rights
      BY <1>1, <1>3 DEF EndpointCreate, Rights
    <2>2. SpacesOK'
      BY <1>0, <1>1, <1>3, <2>1, MintKeepsSpaces, BoundsAssumption DEF EndpointCreate
    <2>3. [kind |-> "endpoint", owner |-> p, derived |-> FALSE, live |-> TRUE] \in KernelObject
      BY BoundsAssumption DEF KernelObject, Kinds, Pids
    <2>4. ObjectsOK'
      BY <1>0, <1>1, <1>3, <2>3, AppendProperties DEF EndpointCreate, ObjectsOK
    <2>. QED
      BY <1>0, <1>3, <2>2, <2>4, CapInvJoin DEF EndpointCreate, ProcessesOK, procVars
  <1>. QED
    BY <1>2, <1>3

\* CapDrop, CapMove and CapRevoke: the calls that only rearrange or withdraw.
LEMMA WithdrawingCalls ==
  ASSUME CapInv, NEW p \in Pids, NEW s \in Slots, NEW u \in Slots,
         CapDrop(p, s) \/ CapMove(p, s, u) \/ CapRevoke(p, s)
  PROVE  CapInv'
  <1>0. SpacesOK /\ ObjectsOK /\ ProcessesOK
    BY CapInvSplit
  <1>1. CASE CapDrop(p, s)
    <2>1. caps \in [Pids -> [Slots -> Capability]] /\ NoCap \in Capability
      BY <1>0, NoCapFacts DEF SpacesOK
    <2>2. caps' = [caps EXCEPT ![p][s] = NoCap] /\ initialCaps' = initialCaps
      BY <1>1 DEF CapDrop
    <2>3. /\ caps' \in [Pids -> [Slots -> Capability]]
          /\ \A q \in Pids, v \in Slots : caps'[q][v] \in {caps[q][v], NoCap}
      BY ONLY <2>1, <2>2
    <2>4. SpacesOK'
      BY <1>0, <1>1, <2>2, <2>3, DropKeepsSpaces DEF CapDrop, SpacesOK
    <2>5. ObjectsOK'
      BY <1>0, <1>1, SweepKeepsObjects DEF CapDrop, ObjectsOK
    <2>. QED
      BY <1>0, <1>1, <2>4, <2>5, CapInvJoin DEF CapDrop, ProcessesOK, procVars
  <1>2. CASE CapMove(p, s, u)
    <2>1. SpacesOK'
      BY <1>0, <1>2, MoveKeepsSpaces
    <2>. QED
      BY <1>0, <1>2, <2>1, CapInvJoin DEF CapMove, ObjectsOK, ProcessesOK, procVars
  <1>3. CASE CapRevoke(p, s)
    <2>1. SpacesOK'
      BY <1>0, <1>3, RevokeKeepsSpaces
    <2>2. ObjectsOK'
      BY <1>0, <1>3, SweepKeepsObjects DEF CapRevoke, SweepAfter, ObjectsOK
    <2>. QED
      BY <1>0, <1>3, <2>1, <2>2, CapInvJoin DEF CapRevoke, ProcessesOK, procVars
  <1>. QED
    BY <1>1, <1>2, <1>3

\* CreateProcess and CreateProcessFails.
LEMMA CreatingCalls ==
  ASSUME CapInv, NEW p \in Pids, NEW t \in Templates, NEW n \in 0 .. MaxLineage,
         CreateProcess(p, t) \/ CreateProcessFails(p, t, n)
  PROVE  CapInv'
  <1>0. SpacesOK /\ ObjectsOK /\ ProcessesOK
    BY CapInvSplit
  <1>1. /\ Len(lineage) \in Nat /\ Len(Grants(t)) \in Nat /\ MaxLineage \in Nat
        /\ MaxPid \in Nat /\ Len(lineage) <= MaxLineage
    <2>1. Grants(t) \in Seq([slot : Slots, object : 1 .. Len(BootObjects), rights : SUBSET Rights])
      BY ManifestAssumption DEF Grants
    <2>. QED
      BY <1>0, <2>1, LenProperties, BoundsAssumption DEF SpacesOK
  <1>2. /\ caps \in [Pids -> [Slots -> Capability]]
        /\ initialCaps \in [Pids -> [Slots -> Capability]]
        /\ EmptySpace \in [Slots -> Capability] /\ \A s \in Slots : EmptySpace[s] = NoCap
    <2>1. caps \in [Pids -> [Slots -> Capability]] /\ initialCaps \in [Pids -> [Slots -> Capability]]
      BY <1>0 DEF SpacesOK
    <2>2. NoCap \in Capability
      BY NoCapFacts
    <2>3. EmptySpace \in [Slots -> Capability] /\ \A s \in Slots : EmptySpace[s] = NoCap
      BY ONLY <2>2 DEF EmptySpace
    <2>. QED
      BY ONLY <2>1, <2>3
  <1>3. /\ RecycledObjects(t) \in Seq(KernelObject) /\ Len(RecycledObjects(t)) <= MaxObjects
    BY <1>0, SweepKeepsObjects DEF RecycledObjects, SweepBefore, ObjectsOK
  \* A recycled process leaves empty spaces behind.
  <1>4. /\ Recycled(caps, t, EmptySpace) \in [Pids -> [Slots -> Capability]]
        /\ Recycled(initialCaps, t, EmptySpace) \in [Pids -> [Slots -> Capability]]
        /\ \A q \in Pids, s \in Slots :
             /\ Recycled(caps, t, EmptySpace)[q][s] \in {caps[q][s], NoCap}
             /\ Recycled(initialCaps, t, EmptySpace)[q][s] \in {initialCaps[q][s], NoCap}
    BY <1>2 DEF Recycled
  <1>5. Recycled(lifecycle, t, "Empty") \in [Pids -> {"Empty", "Declared", "Live", "Exited"}]
    BY <1>0 DEF ProcessesOK, Recycled
  <1>6. CASE CreateProcess(p, t)
    <2>1. /\ nextPid \in Pids /\ Len(lineage) + Len(Grants(t)) <= MaxLineage
          /\ Len(Grants(t)) \in 0 .. Len(Grants(t))
      BY <1>0, <1>1, <1>6 DEF CreateProcess, FreeLineage, ProcessesOK, Pids
    <2>2. GrantedSpace(nextPid, t, Len(lineage)) \in [Slots -> Capability]
      BY <1>1, <2>1, GrantedSpaceFacts
    <2>3. /\ caps' = [Recycled(caps, t, EmptySpace) EXCEPT
                        ![nextPid] = GrantedSpace(nextPid, t, Len(lineage))]
          /\ initialCaps' = [Recycled(initialCaps, t, EmptySpace) EXCEPT
                               ![nextPid] = GrantedSpace(nextPid, t, Len(lineage))]
      BY <1>6 DEF CreateProcess
    <2>4. /\ caps' \in [Pids -> [Slots -> Capability]]
          /\ initialCaps' \in [Pids -> [Slots -> Capability]]
          /\ \A q \in Pids, s \in Slots :
               \/ /\ caps'[q][s] \in {caps[q][s], NoCap}
                  /\ initialCaps'[q][s] \in {initialCaps[q][s], NoCap}
               \/ /\ q = nextPid /\ Len(Grants(t)) = Len(Grants(t))
                  /\ caps'[q][s] = GrantedSpace(nextPid, t, Len(lineage))[s]
                  /\ initialCaps'[q][s] = GrantedSpace(nextPid, t, Len(lineage))[s]
      BY ONLY <1>4, <2>1, <2>2, <2>3
    <2>5. /\ lineage' = lineage \o GrantEntries(t, Len(Grants(t)))
          /\ revoked' = revoked
      BY <1>6 DEF CreateProcess
    <2>6. SpacesOK'
      <3>1. PICK q \in Pids : q = nextPid
        BY <2>1
      <3>2. PICK k \in 0 .. Len(Grants(t)) : k = Len(Grants(t))
        BY <2>1
      <3>3. \A r \in Pids, s \in Slots :
               \/ /\ caps'[r][s] \in {caps[r][s], NoCap}
                  /\ initialCaps'[r][s] \in {initialCaps[r][s], NoCap}
               \/ /\ r = q /\ k = Len(Grants(t))
                  /\ caps'[r][s] = GrantedSpace(q, t, Len(lineage))[s]
                  /\ initialCaps'[r][s] = GrantedSpace(q, t, Len(lineage))[s]
        BY ONLY <2>4, <3>1, <3>2
      <3>4. Len(lineage) + k <= MaxLineage /\ lineage' = lineage \o GrantEntries(t, k)
        BY <2>1, <2>5, <3>2
      <3>. QED
        BY <1>0, <2>4, <2>5, <3>1, <3>2, <3>3, <3>4, GrantKeepsSpaces
    <2>7. ObjectsOK'
      BY <1>3, <1>6 DEF CreateProcess, ObjectsOK
    <2>8. ProcessesOK'
      BY <1>0, <1>1, <1>5, <1>6, <2>1 DEF CreateProcess, ProcessesOK, Pids
    <2>. QED
      BY <2>6, <2>7, <2>8, CapInvJoin
  <1>7. CASE CreateProcessFails(p, t, n)
    <2>1. n \in 0 .. Len(Grants(t)) /\ Len(lineage) + n <= MaxLineage
      BY <1>1, <1>7 DEF CreateProcessFails, FreeLineage
    <2>2. /\ caps' = Recycled(caps, t, EmptySpace)
          /\ initialCaps' = Recycled(initialCaps, t, EmptySpace)
          /\ lineage' = lineage \o GrantEntries(t, n) /\ revoked' = revoked
      BY <1>7 DEF CreateProcessFails
    <2>3. SpacesOK'
      BY <1>0, <1>4, <2>1, <2>2, GrantKeepsSpaces
    <2>4. ObjectsOK'
      BY <1>3, <1>7 DEF CreateProcessFails, ObjectsOK
    <2>5. ProcessesOK'
      BY <1>0, <1>1, <1>5, <1>7 DEF CreateProcessFails, ProcessesOK, NoPid
    <2>. QED
      BY <2>3, <2>4, <2>5, CapInvJoin
  <1>. QED
    BY <1>6, <1>7

\* StartProcess, ReapExited, KillProcess and ExitProcess.
LEMMA LifecycleCalls ==
  ASSUME CapInv, NEW p \in Pids, NEW q \in Pids, NEW verdict \in Verdicts,
         \/ StartProcess(p, q) \/ ReapExited(p, q) \/ KillProcess(p, q)
         \/ ExitProcess(p, verdict)
  PROVE  CapInv'
  <1>0. SpacesOK /\ ObjectsOK /\ ProcessesOK
    BY CapInvSplit
  <1>1. ObjectsOK'
    BY <1>0, SweepKeepsObjects
    DEF StartProcess, ReapExited, KillProcess, ExitProcess, SweepAfter, ObjectsOK
  <1>2. ASSUME UNCHANGED <<caps, initialCaps, lineage, revoked>>
        PROVE  SpacesOK'
    BY <1>0, <1>2, UnchangedSpaces
  <1>3. SpacesOK'
    <2>1. CASE StartProcess(p, q) /\ lifecycle[q] = "Exited"
      BY <1>0, <2>1, RestartKeepsSpaces DEF StartProcess
    <2>2. CASE ~(StartProcess(p, q) /\ lifecycle[q] = "Exited")
      BY <1>2, <2>2 DEF StartProcess, ReapExited, KillProcess, ExitProcess
    <2>. QED
      BY <2>1, <2>2
  <1>4. ProcessesOK'
    BY <1>0 DEF StartProcess, ReapExited, KillProcess, ExitProcess, ProcessesOK, procVars
  <1>. QED
    BY <1>1, <1>3, <1>4, CapInvJoin

-----------------------------------------------------------------------------
(* The theorems *)

\* Every call preserves the invariant.
LEMMA CapInvStep == CapInv /\ [CapNext]_capVars => CapInv'
  <1>. SUFFICES ASSUME CapInv, [CapNext]_capVars PROVE CapInv'
    OBVIOUS
  <1>1. CASE UNCHANGED capVars
    <2>1. SpacesOK'
      BY <1>1, CapInvSplit, UnchangedSpaces DEF capVars
    <2>2. ObjectsOK' /\ ProcessesOK'
      BY <1>1, CapInvSplit DEF capVars, procVars, ObjectsOK, ProcessesOK
    <2>. QED
      BY <2>1, <2>2, CapInvJoin
  <1>2. CASE CapNext
    <2>1. PICK p \in Pids :
            \/ \E s \in Slots : CapDrop(p, s) \/ CapRevoke(p, s) \/ EndpointCreate(p, s)
            \/ \E s, u \in Slots : CapMove(p, s, u) \/ VfsDeriveRoot(p, s, u)
            \/ \E s, u \in Slots, m \in Masks : CapDerive(p, s, u, m) \/ CapCopy(p, s, u, m)
            \/ \E s, u \in Slots, e \in NamespaceEntries : NamespaceResolve(p, s, u, e)
            \/ \E s, u \in Slots, q \in Pids, m \in Masks : CapTransfer(p, s, q, u, m)
            \/ \E t \in Templates : CreateProcess(p, t)
            \/ \E t \in Templates, n \in 0 .. MaxLineage : CreateProcessFails(p, t, n)
            \/ \E q \in Pids : StartProcess(p, q) \/ ReapExited(p, q) \/ KillProcess(p, q)
            \/ \E verdict \in Verdicts : ExitProcess(p, verdict)
      BY <1>2 DEF CapNext
    <2>2. CASE \E s \in Slots : CapDrop(p, s) \/ CapRevoke(p, s)
      BY <2>2, WithdrawingCalls
    <2>3. CASE \E s, u \in Slots : CapMove(p, s, u)
      BY <2>3, WithdrawingCalls
    <2>4. CASE \E s \in Slots : EndpointCreate(p, s)
      BY <2>4, NewObjectStep
    <2>5. CASE \E s, u \in Slots : VfsDeriveRoot(p, s, u)
      BY <2>5, NewObjectStep
    <2>6. CASE \E s, u \in Slots, m \in Masks : CapDerive(p, s, u, m) \/ CapCopy(p, s, u, m)
      BY <2>6, CapDeriveStep DEF CapCopy
    <2>7. CASE \E s, u \in Slots, e \in NamespaceEntries : NamespaceResolve(p, s, u, e)
      BY <2>7, NamespaceResolveStep
    <2>8. CASE \E s, u \in Slots, q \in Pids, m \in Masks : CapTransfer(p, s, q, u, m)
      BY <2>8, CapTransferStep
    <2>9. CASE \E t \in Templates : CreateProcess(p, t)
      BY <2>9, CreatingCalls, BoundsAssumption
    <2>10. CASE \E t \in Templates, n \in 0 .. MaxLineage : CreateProcessFails(p, t, n)
      BY <2>10, CreatingCalls
    <2>11. CASE \E q \in Pids : StartProcess(p, q) \/ ReapExited(p, q) \/ KillProcess(p, q)
      BY <2>11, LifecycleCalls DEF Verdicts
    <2>12. CASE \E verdict \in Verdicts : ExitProcess(p, verdict)
      BY <2>12, LifecycleCalls
    <2>. QED
      BY <2>1, <2>2, <2>3, <2>4, <2>5, <2>6, <2>7, <2>8, <2>9, <2>10, <2>11, <2>12
  <1>. QED
    BY <1>1, <1>2

\* The inductive invariant holds in every reachable state, whatever the sizes
\* of the tables and the boot manifest.
THEOREM CapInvariant == CapSpec => []CapInv
  BY CapInvInit, CapInvStep, PTL DEF CapSpec

\* The kernel's tables and capability records keep their types: every id that
\* new_capability, add_process and insert_object hand out is within its table.
THEOREM CapTypeCorrect == CapSpec => []CapTypeOK
  <1>1. CapInv => CapTypeOK
    BY DEF CapInv
  <1>. QED
    BY <1>1, CapInvariant, PTL

\* Everything minted from a revoked capability is revoked, for every
\* interleaving of the calls of any number of processes.
THEOREM RevocationTransitive == CapSpec => []RevocationIsTransitive
  <1>1. CapInv => RevocationIsTransitive
    BY DEF CapInv
  <1>. QED
    BY <1>1, CapInvariant, PTL

\* mark_all_revoked_caps reaches every stored copy, and neither a transfer nor
\* a restart from the baseline brings an unmarked copy back.
THEOREM RevokedFlagsCorrect == CapSpec => []RevokedFlagsAgree
  <1>1. CapInv => RevokedFlagsAgree
    BY DEF CapInv
  <1>. QED
    BY <1>1, CapInvariant, PTL

\* A stored capability is the one its id was issued for, and no id is held in
\* two slots of running spaces.
THEOREM CapsCorrect == CapSpec => []CapsMatchLineage
  <1>1. CapInv => CapsMatchLineage
    BY DEF CapInv
  <1>. QED
    BY <1>1, CapInvariant, PTL
=============================================================================
