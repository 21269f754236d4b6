-------------------------- MODULE GenerationProofs --------------------------
(***************************************************************************)
(* Generation switching for any generations, images, disks and number of   *)
(* address spaces.  The inductive invariant is GenIInv: the two invariants *)
(* about address spaces need StagedIsCurrent, because a commit reaps from  *)
(* a snapshot taken when the runtime was staged.                           *)
(***************************************************************************)
EXTENDS Generations, TLAPS

USE DEF Processes, InitProcess

OffIsEmpty == machine = "off" => registered = {}

GenIInv ==
  GenTypeOK /\ ContextsOwned /\ StagedIsCurrent /\ SelectedIsActive /\ OffIsEmpty

-----------------------------------------------------------------------------
(* Records *)

\* A staged record has the type of STAGED_GENERATION, and its fields are the
\* ones it was built from.
LEMMA StagedFacts ==
  ASSUME GenTypeOK, NEW g \in Gens, NEW c \in Contexts, NEW rb \in BOOLEAN
  PROVE  /\ Staged(g, c, rb) \in StagedRecord
         /\ Staged(g, c, rb).generation = g /\ Staged(g, c, rb).previous = active
         /\ Staged(g, c, rb).rollback = rb /\ Staged(g, c, rb).initial = c
         /\ Staged(g, c, rb).old = context
  BY DEF Staged, StagedRecord, GenTypeOK

\* The empty slot of STAGED_GENERATION is typed and stages nothing.
LEMMA NotStagedFacts ==
  NotStaged \in StagedRecord /\ NotStaged.generation = NoGen
  BY DEF NotStaged, StagedRecord

\* Contexts of a runtime with init only.
LEMMA OnlyInitFacts ==
  ASSUME NEW c \in Contexts \cup {NoContext}
  PROVE  /\ OnlyInit(c) \in [Processes -> Contexts \cup {NoContext}]
         /\ \A p \in Processes : OnlyInit(c)[p] = IF p = InitProcess THEN c ELSE NoContext
  BY DEF OnlyInit
-----------------------------------------------------------------------------
(* Address spaces *)

\* Discarding what is staged frees no address space of a running process.
LEMMA DiscardedFacts ==
  ASSUME GenTypeOK, ContextsOwned
  PROVE  /\ Discarded \subseteq allocated
         /\ \A p \in Processes : context[p] # NoContext => context[p] \in Discarded
  BY DEF Discarded, GenTypeOK, ContextsOwned

\* Reaping a snapshot leaves an address space that is not in it.
LEMMA ReapedFacts ==
  ASSUME NEW old, NEW spaces, NEW c \in spaces, \A p \in Processes : old[p] # c
  PROVE  Reaped(old, spaces) \subseteq spaces /\ c \in Reaped(old, spaces)
  BY DEF Reaped
-----------------------------------------------------------------------------
(* Steps *)

\* Staging a generation that is not recorded as failed, or any rollback.
LEMMA StageStep ==
  ASSUME GenIInv, NEW g \in Gens, NEW rb \in BOOLEAN, rb \/ g # failed,
         Stage(g, rb),
         UNCHANGED <<machine, registered, active, rollbackTo, failed, context>>
  PROVE  GenIInv'
<1>1. PICK c \in Contexts \ Discarded :
        /\ staged' = Staged(g, c, rb) /\ allocated' = Discarded \cup {c}
        /\ boot' = [boot EXCEPT !.previous = active, !.state = "prepare"]
  BY DEF Stage
<1>2. GenTypeOK /\ ContextsOwned /\ SelectedIsActive /\ OffIsEmpty
  BY DEF GenIInv
<1>3. /\ Discarded \subseteq allocated
      /\ \A p \in Processes : context[p] # NoContext => context[p] \in Discarded
  BY ONLY <1>2, DiscardedFacts
<1>4. /\ staged' \in StagedRecord
      /\ staged'.generation = g /\ staged'.previous = active
      /\ staged'.rollback = rb /\ staged'.initial = c /\ staged'.old = context
  BY ONLY <1>1, <1>2, StagedFacts, g \in Gens, rb \in BOOLEAN
<1>5. boot' \in BootRecord /\ boot'.selected = boot.selected
  BY <1>1, <1>2 DEF GenTypeOK, BootRecord, TransactionStates
<1>6. \A p \in Processes : context[p] # c
  BY <1>1, <1>3, GenerationAssumption DEF GenerationAssumption
<1>7. GenTypeOK'
  BY <1>1, <1>2, <1>3, <1>4, <1>5 DEF GenTypeOK
<1>8. ContextsOwned'
  BY <1>1, <1>2, <1>3, <1>4, <1>6 DEF ContextsOwned
<1>9. StagedIsCurrent'
  <2>1. rb \/ g # failed
    OBVIOUS
  <2> QED  BY ONLY <1>4, <1>6, <2>1, UNCHANGED <<active, failed>> DEF StagedIsCurrent
<1>10. SelectedIsActive' /\ OffIsEmpty'
  BY <1>2, <1>5 DEF SelectedIsActive, OffIsEmpty
<1> QED  BY <1>7, <1>8, <1>9, <1>10 DEF GenIInv

\* A staging that is refused or fails.
LEMMA AbortStep ==
  ASSUME GenIInv, StageAborts,
         UNCHANGED <<machine, registered, active, rollbackTo, failed, context>>
  PROVE  GenIInv'
<1>1. GenTypeOK /\ ContextsOwned /\ SelectedIsActive /\ OffIsEmpty
  BY DEF GenIInv
<1>2. /\ Discarded \subseteq allocated
      /\ \A p \in Processes : context[p] # NoContext => context[p] \in Discarded
  BY ONLY <1>1, DiscardedFacts
<1>3. staged' \in StagedRecord /\ staged'.generation = NoGen
  BY NotStagedFacts DEF StageAborts
<1>4. boot' \in BootRecord /\ boot'.selected = boot.selected
  BY <1>1 DEF GenTypeOK, BootRecord, TransactionStates, StageAborts
<1>5. GenTypeOK'
  BY <1>1, <1>2, <1>3, <1>4 DEF GenTypeOK, StageAborts
<1>6. ContextsOwned' /\ StagedIsCurrent'
  BY <1>1, <1>2, <1>3 DEF ContextsOwned, StagedIsCurrent, IsStaged, StageAborts
<1>7. SelectedIsActive' /\ OffIsEmpty'
  BY <1>1, <1>4 DEF SelectedIsActive, OffIsEmpty
<1> QED  BY <1>5, <1>6, <1>7 DEF GenIInv

\* Entering a staged runtime whose init is allocated and not in the snapshot.
LEMMA EnterStep ==
  ASSUME GenIInv, NEW r \in StagedRecord, r.generation \in Gens,
         NEW spaces \in SUBSET Contexts, r.initial \in spaces,
         \A p \in Processes : r.old[p] # r.initial,
         Enter(r, spaces), Select(r) \/ FallBack(r), UNCHANGED <<machine, registered>>
  PROVE  GenIInv'
<1>1. GenTypeOK /\ OffIsEmpty
  BY DEF GenIInv
<1>2. Reaped(r.old, spaces) \subseteq spaces /\ r.initial \in Reaped(r.old, spaces)
  BY ReapedFacts
<1>3. staged' \in StagedRecord /\ staged'.generation = NoGen
  BY NotStagedFacts DEF Enter
<1>4. /\ context' \in [Processes -> Contexts \cup {NoContext}]
      /\ \A p \in Processes : context'[p] = IF p = InitProcess THEN r.initial ELSE NoContext
  BY OnlyInitFacts DEF Enter
<1>5. /\ r.previous \in Gens \cup {NoGen} /\ r.generation \in Gens \cup {NoGen}
      /\ boot.knownGood \in Gens \cup {NoGen}
      /\ "commit" \in TransactionStates /\ "rollback" \in TransactionStates
  BY <1>1 DEF StagedRecord, GenTypeOK, BootRecord, TransactionStates
<1>6. boot' \in BootRecord /\ boot'.selected = r.generation
  <2>1. \E t \in TransactionStates :
          boot' = BootState(r.generation, r.previous, boot.knownGood, t)
    BY <1>5 DEF Select, FallBack
  <2>2. PICK t \in TransactionStates :
          boot' = BootState(r.generation, r.previous, boot.knownGood, t)
    BY ONLY <2>1
  <2> QED  BY <1>5, <2>2 DEF BootState, BootRecord
<1>7. GenTypeOK'
  BY <1>1, <1>2, <1>3, <1>4, <1>5, <1>6 DEF GenTypeOK, Enter, Select, FallBack
<1>8. ContextsOwned' /\ StagedIsCurrent'
  BY <1>2, <1>3, <1>4 DEF ContextsOwned, StagedIsCurrent, IsStaged, Enter
<1>9. SelectedIsActive' /\ OffIsEmpty'
  BY <1>1, <1>6 DEF SelectedIsActive, OffIsEmpty, Enter
<1> QED  BY <1>7, <1>8, <1>9 DEF GenIInv

\* Entering the runtime that is staged.
LEMMA EnterStaged ==
  ASSUME GenIInv, NEW g \in Gens, NEW rb \in BOOLEAN, StagedFor(g, rb),
         Enter(staged, allocated), Select(staged) \/ FallBack(staged),
         UNCHANGED <<machine, registered>>
  PROVE  GenIInv'
<1>1. GenTypeOK /\ ContextsOwned /\ StagedIsCurrent
  BY DEF GenIInv
<1>2. staged.generation \in Gens /\ IsStaged
  BY GenerationAssumption DEF GenerationAssumption, StagedFor, IsStaged
<1>3. /\ staged \in StagedRecord /\ allocated \in SUBSET Contexts
      /\ staged.initial \in allocated /\ \A p \in Processes : staged.old[p] # staged.initial
  BY <1>1, <1>2 DEF GenTypeOK, ContextsOwned, StagedIsCurrent
<1> QED  BY <1>2, <1>3, EnterStep

\* Staging a runtime and entering it within one call.
LEMMA StageAndEnter ==
  ASSUME GenIInv, NEW g \in Gens, NEW rb \in BOOLEAN,
         NEW c \in Contexts \ Discarded,
         Enter(Staged(g, c, rb), Discarded \cup {c}),
         Select(Staged(g, c, rb)) \/ FallBack(Staged(g, c, rb)),
         UNCHANGED <<machine, registered>>
  PROVE  GenIInv'
<1> DEFINE r == Staged(g, c, rb)
<1>1. GenTypeOK /\ ContextsOwned
  BY DEF GenIInv
<1>2. /\ Discarded \subseteq allocated
      /\ \A p \in Processes : context[p] # NoContext => context[p] \in Discarded
  BY ONLY <1>1, DiscardedFacts
<1>3. r \in StagedRecord /\ r.generation = g /\ r.initial = c /\ r.old = context
  BY ONLY <1>1, StagedFacts, g \in Gens, c \in Contexts \ Discarded, rb \in BOOLEAN
<1>4. Discarded \cup {c} \in SUBSET Contexts
  BY <1>1, <1>2 DEF GenTypeOK
<1>5. \A p \in Processes : context[p] # c
  BY <1>2, GenerationAssumption DEF GenerationAssumption
<1> HIDE DEF r
<1>6. /\ r.generation \in Gens /\ r.initial \in Discarded \cup {c}
      /\ \A p \in Processes : r.old[p] # r.initial
  BY <1>3, <1>5
<1>7. Enter(r, Discarded \cup {c}) /\ (Select(r) \/ FallBack(r))
  BY DEF r
<1> QED  BY <1>3, <1>4, <1>6, <1>7, EnterStep

\* A process of the running generation gets a fresh address space.
LEMMA LoadStep ==
  ASSUME GenIInv, NEW p \in Processes, LoadContext(p)
  PROVE  GenIInv'
<1>1. GenTypeOK /\ ContextsOwned /\ StagedIsCurrent /\ SelectedIsActive /\ OffIsEmpty
  BY DEF GenIInv
<1>2. PICK c \in Contexts \ allocated :
        context' = [context EXCEPT ![p] = c] /\ allocated' = allocated \cup {c}
  BY DEF LoadContext
<1>3. context' \in [Processes -> Contexts \cup {NoContext}]
  BY <1>1, <1>2 DEF GenTypeOK
<1>4. \A q \in Processes : context'[q] = IF q = p THEN c ELSE context[q]
  BY <1>1, <1>2 DEF GenTypeOK
<1>5. GenTypeOK'
  BY <1>1, <1>2, <1>3 DEF GenTypeOK, LoadContext
<1>6. ContextsOwned'
  <2>1. \A q \in Processes : context[q] # c
    BY <1>1, <1>2, GenerationAssumption DEF ContextsOwned, GenerationAssumption
  <2>2. UNCHANGED staged
    BY DEF LoadContext
  <2> QED  BY ONLY <1>1, <1>2, <1>4, <2>1, <2>2, p \in Processes DEF ContextsOwned, IsStaged
<1>7. StagedIsCurrent' /\ SelectedIsActive' /\ OffIsEmpty'
  BY <1>1 DEF StagedIsCurrent, IsStaged, SelectedIsActive, OffIsEmpty, LoadContext
<1> QED  BY <1>5, <1>6, <1>7 DEF GenIInv

\* An address space is reaped with its process.
LEMMA ReapStep ==
  ASSUME GenIInv, NEW p \in Processes, ReapContext(p)
  PROVE  GenIInv'
<1>1. GenTypeOK /\ ContextsOwned /\ StagedIsCurrent /\ SelectedIsActive /\ OffIsEmpty
  BY DEF GenIInv
<1>2. /\ context[p] # NoContext
      /\ context' = [context EXCEPT ![p] = NoContext] /\ allocated' = allocated \ {context[p]}
      /\ UNCHANGED staged
  BY DEF ReapContext
<1>3. context' \in [Processes -> Contexts \cup {NoContext}]
  BY <1>1, <1>2 DEF GenTypeOK
<1>4. \A q \in Processes : context'[q] = IF q = p THEN NoContext ELSE context[q]
  BY <1>1, <1>2 DEF GenTypeOK
<1>5. GenTypeOK'
  BY <1>1, <1>2, <1>3 DEF GenTypeOK, ReapContext
<1>6. ContextsOwned'
  <2>1. IsStaged => staged.initial # NoContext
    BY <1>1, GenerationAssumption DEF ContextsOwned, GenTypeOK, GenerationAssumption
  <2> QED  BY ONLY <1>1, <1>2, <1>4, <2>1, p \in Processes DEF ContextsOwned, IsStaged
<1>7. StagedIsCurrent' /\ SelectedIsActive' /\ OffIsEmpty'
  BY <1>1 DEF StagedIsCurrent, IsStaged, SelectedIsActive, OffIsEmpty, ReapContext
<1> QED  BY <1>5, <1>6, <1>7 DEF GenIInv

\* Whatever the disk lists, only generations are registered.
LEMMA RegisteredAreGens ==
  ASSUME NEW e \in Seq(Gens)
  PROVE  RegisteredFrom(e) \subseteq Gens
<1>1. Manifests \subseteq Gens
  BY GenerationAssumption DEF Manifests, GenerationAssumption
<1>2. \A i \in 1 .. Len(e) : e[i] \in Gens
  OBVIOUS
<1>3. DiskConfigs(e) \subseteq {e[i] : i \in 1 .. Len(e)}
  BY DEF DiskConfigs
<1> QED  BY <1>1, <1>2, <1>3 DEF RegisteredFrom

\* A boot from any metadata.
LEMMA BootStep ==
  ASSUME NEW d \in Metadata, Boot(d)
  PROVE  GenIInv'
<1> DEFINE configs == RegisteredFrom(d.entries)
           selected == IF d.selected = NoGen THEN Bootstrap ELSE d.selected
<1>1. d \in MetadataRecord
  BY GenerationAssumption DEF GenerationAssumption
<1>2. /\ d.entries \in Seq(Gens) /\ d.selected \in Gens \cup {NoGen}
      /\ d.previous \in Gens \cup {NoGen} /\ d.knownGood \in Gens \cup {NoGen}
      /\ d.target \in Gens \cup {NoGen} /\ d.state \in TransactionStates
  BY <1>1 DEF MetadataRecord
<1>3. configs \subseteq Gens
  BY <1>2, RegisteredAreGens
<1>4. Fallback \in Gens \cup {NoGen} /\ Bootstrap \in Gens /\ selected \in Gens
  BY <1>2, GenerationAssumption DEF GenerationAssumption
<1>5. FailedGeneration(d) \in Gens \cup {NoGen}
  BY <1>2 DEF FailedGeneration
<1> HIDE DEF configs, selected
<1>6. /\ machine' = "up" /\ registered' = configs /\ staged' = NotStaged
      /\ active' = IF selected \in configs THEN selected ELSE Bootstrap
      /\ rollbackTo' \in {d.previous, Fallback} /\ failed' \in {FailedGeneration(d), NoGen}
      /\ boot' = BootState(selected, d.previous, d.knownGood, d.state)
      /\ \E c \in Contexts : context' = OnlyInit(c) /\ allocated' = {c}
  BY DEF Boot, configs, selected
<1>7. PICK c \in Contexts : context' = OnlyInit(c) /\ allocated' = {c}
  BY <1>6
<1>8. /\ context' \in [Processes -> Contexts \cup {NoContext}]
      /\ \A p \in Processes : context'[p] = IF p = InitProcess THEN c ELSE NoContext
  BY <1>7, OnlyInitFacts
<1>9. boot' \in BootRecord /\ boot'.selected = selected
  BY <1>2, <1>4, <1>6 DEF BootState, BootRecord
<1>10. staged' \in StagedRecord /\ staged'.generation = NoGen
  BY <1>6, NotStagedFacts
<1>11. GenTypeOK'
  BY <1>2, <1>3, <1>4, <1>5, <1>6, <1>7, <1>8, <1>9, <1>10 DEF GenTypeOK
<1>12. ContextsOwned' /\ StagedIsCurrent'
  BY <1>7, <1>8, <1>10 DEF ContextsOwned, StagedIsCurrent, IsStaged
<1>13. SelectedIsActive' /\ OffIsEmpty'
  BY <1>6, <1>9 DEF SelectedIsActive, OffIsEmpty
<1> QED  BY <1>11, <1>12, <1>13 DEF GenIInv

\* The machine is off.
LEMMA OffState ==
  ASSUME GenInit
  PROVE  GenIInv
<1>1. NoBoot \in BootRecord
  BY DEF NoBoot, BootState, BootRecord, TransactionStates
<1>2. /\ OnlyInit(NoContext) \in [Processes -> Contexts \cup {NoContext}]
      /\ \A p \in Processes : OnlyInit(NoContext)[p] = NoContext
  BY OnlyInitFacts
<1>3. GenTypeOK
  BY <1>1, <1>2, NotStagedFacts DEF GenInit, GenTypeOK
<1>4. ContextsOwned /\ StagedIsCurrent
  BY <1>2, NotStagedFacts DEF GenInit, ContextsOwned, StagedIsCurrent, IsStaged
<1>5. SelectedIsActive /\ OffIsEmpty
  BY DEF GenInit, SelectedIsActive, OffIsEmpty
<1> QED  BY <1>3, <1>4, <1>5 DEF GenIInv

\* Power loss leads back to it.
LEMMA PowerLossStep ==
  ASSUME PowerLoss
  PROVE  GenIInv'
<1>1. NoBoot \in BootRecord
  BY DEF NoBoot, BootState, BootRecord, TransactionStates
<1>2. /\ OnlyInit(NoContext) \in [Processes -> Contexts \cup {NoContext}]
      /\ \A p \in Processes : OnlyInit(NoContext)[p] = NoContext
  BY OnlyInitFacts
<1>3. GenTypeOK'
  BY <1>1, <1>2, NotStagedFacts DEF PowerLoss, GenTypeOK
<1>4. ContextsOwned' /\ StagedIsCurrent'
  BY <1>2, NotStagedFacts DEF PowerLoss, ContextsOwned, StagedIsCurrent, IsStaged
<1>5. SelectedIsActive' /\ OffIsEmpty'
  BY DEF PowerLoss, SelectedIsActive, OffIsEmpty
<1> QED  BY <1>3, <1>4, <1>5 DEF GenIInv

\* The kernel halts, or the running generation is recorded as known good.
LEMMA BookkeepingStep ==
  ASSUME GenIInv, machine = "up", machine' \in {"up", "halted"},
         \/ boot' = boot
         \/ boot' = [boot EXCEPT !.knownGood = active, !.selected = active],
         UNCHANGED <<registered, active, rollbackTo, failed, staged, context, allocated>>
  PROVE  GenIInv'
<1>1. GenTypeOK /\ ContextsOwned /\ StagedIsCurrent /\ SelectedIsActive
  BY DEF GenIInv
<1>2. boot' \in BootRecord /\ boot'.selected \in {boot.selected, active}
  BY <1>1 DEF GenTypeOK, BootRecord
<1>3. GenTypeOK'
  BY <1>1, <1>2 DEF GenTypeOK
<1>4. ContextsOwned' /\ StagedIsCurrent'
  BY <1>1 DEF ContextsOwned, StagedIsCurrent, IsStaged
<1>5. SelectedIsActive' /\ OffIsEmpty'
  BY <1>1, <1>2 DEF SelectedIsActive, OffIsEmpty
<1> QED  BY <1>3, <1>4, <1>5 DEF GenIInv

\* A boot that ends for want of a config slot.
LEMMA BootFailsStep ==
  ASSUME GenIInv, NEW d \in Metadata, BootFails(d)
  PROVE  GenIInv'
<1>1. GenTypeOK /\ ContextsOwned /\ StagedIsCurrent /\ OffIsEmpty
  BY DEF GenIInv
<1>2. machine' = "halted" /\ registered = {}
  BY <1>1 DEF BootFails, OffIsEmpty
<1>3. UNCHANGED <<registered, active, rollbackTo, failed, staged, boot, context, allocated>>
  BY DEF BootFails
<1>4. GenTypeOK'
  BY <1>1, <1>2, <1>3 DEF GenTypeOK
<1>5. ContextsOwned' /\ StagedIsCurrent'
  BY <1>1, <1>3 DEF ContextsOwned, StagedIsCurrent, IsStaged
<1>6. SelectedIsActive' /\ OffIsEmpty'
  BY <1>2, <1>3 DEF SelectedIsActive, OffIsEmpty
<1> QED  BY <1>4, <1>5, <1>6 DEF GenIInv

\* The kernel's calls that stage, refuse to, or enter a generation.
LEMMA SwitchingStep ==
  ASSUME GenIInv, NEW g \in Gens,
         \/ StageActive(g) \/ StageGeneration(g) \/ StageGenerationFails(g)
         \/ StageRollback(g) \/ StageRollbackFails(g)
         \/ ActivateActive(g) \/ ActivateStaged(g) \/ StageAndActivate(g) \/ ActivateFails(g)
         \/ RollbackStaged(g) \/ StageAndRollback(g) \/ RollbackFails(g)
  PROVE  GenIInv'
<1>0. ASSUME UNCHANGED genVars PROVE GenIInv'
  BY <1>0 DEF genVars, GenIInv, GenTypeOK, ContextsOwned, StagedIsCurrent, SelectedIsActive,
              OffIsEmpty, IsStaged
<1>1. CASE StageActive(g) \/ ActivateActive(g)
  BY <1>0, <1>1 DEF StageActive, ActivateActive
<1>2. CASE StageGeneration(g)
  <2>1. /\ FALSE \in BOOLEAN /\ (FALSE \/ g # failed) /\ Stage(g, FALSE)
        /\ UNCHANGED <<machine, registered, active, rollbackTo, failed, context>>
    BY <1>2 DEF StageGeneration
  <2> QED  BY ONLY GenIInv, g \in Gens, <2>1, StageStep
<1>3. ASSUME StageGenerationFails(g) PROVE GenIInv'
  <2>1. CASE UNCHANGED genVars
    BY <1>0, <2>1
  <2>2. CASE ~UNCHANGED genVars
    <3>1. /\ StageAborts
          /\ UNCHANGED <<machine, registered, active, rollbackTo, failed, context>>
      BY <1>3, <2>2 DEF StageGenerationFails
    <3> QED  BY ONLY GenIInv, <3>1, AbortStep
  <2> QED  BY <2>1, <2>2
<1>4. CASE StageRollback(g)
  <2>1. /\ TRUE \in BOOLEAN /\ (TRUE \/ g # failed) /\ Stage(g, TRUE)
        /\ UNCHANGED <<machine, registered, active, rollbackTo, failed, context>>
    BY <1>4 DEF StageRollback
  <2> QED  BY ONLY GenIInv, g \in Gens, <2>1, StageStep
<1>5. ASSUME StageRollbackFails(g) PROVE GenIInv'
  <2>1. CASE UNCHANGED genVars
    BY <1>0, <2>1
  <2>2. CASE ~UNCHANGED genVars
    <3>1. /\ StageAborts
          /\ UNCHANGED <<machine, registered, active, rollbackTo, failed, context>>
      BY <1>5, <2>2 DEF StageRollbackFails
    <3> QED  BY ONLY GenIInv, <3>1, AbortStep
  <2> QED  BY <2>1, <2>2
<1>6. CASE ActivateStaged(g)
  <2>1. /\ FALSE \in BOOLEAN /\ StagedFor(g, FALSE) /\ Enter(staged, allocated)
        /\ Select(staged) \/ FallBack(staged)
        /\ UNCHANGED <<machine, registered>>
    BY <1>6 DEF ActivateStaged
  <2> QED  BY ONLY GenIInv, g \in Gens, <2>1, EnterStaged
<1>7. CASE RollbackStaged(g)
  <2>1. /\ TRUE \in BOOLEAN /\ StagedFor(g, TRUE) /\ Enter(staged, allocated)
        /\ Select(staged) \/ FallBack(staged)
        /\ UNCHANGED <<machine, registered>>
    BY <1>7 DEF RollbackStaged
  <2> QED  BY ONLY GenIInv, g \in Gens, <2>1, EnterStaged
<1>8. CASE StageAndActivate(g)
  <2>1. PICK c \in Contexts \ Discarded :
          Enter(Staged(g, c, FALSE), Discarded \cup {c}) /\ Select(Staged(g, c, FALSE))
    BY <1>8 DEF StageAndActivate
  <2>2. /\ FALSE \in BOOLEAN /\ Enter(Staged(g, c, FALSE), Discarded \cup {c})
        /\ Select(Staged(g, c, FALSE)) \/ FallBack(Staged(g, c, FALSE))
        /\ UNCHANGED <<machine, registered>>
    BY <1>8, <2>1 DEF StageAndActivate
  <2> QED  BY ONLY GenIInv, g \in Gens, c \in Contexts \ Discarded, <2>2, StageAndEnter
<1>9. CASE StageAndRollback(g)
  <2>1. PICK c \in Contexts \ Discarded :
          Enter(Staged(g, c, TRUE), Discarded \cup {c}) /\ FallBack(Staged(g, c, TRUE))
    BY <1>9 DEF StageAndRollback
  <2>2. /\ TRUE \in BOOLEAN /\ Enter(Staged(g, c, TRUE), Discarded \cup {c})
        /\ Select(Staged(g, c, TRUE)) \/ FallBack(Staged(g, c, TRUE))
        /\ UNCHANGED <<machine, registered>>
    BY <1>9, <2>1 DEF StageAndRollback
  <2> QED  BY ONLY GenIInv, g \in Gens, c \in Contexts \ Discarded, <2>2, StageAndEnter
<1>10. CASE ActivateFails(g)
  BY <1>3, <1>10 DEF ActivateFails
<1>11. CASE RollbackFails(g)
  BY <1>5, <1>11 DEF RollbackFails
<1> QED  BY <1>1, <1>2, <1>3, <1>4, <1>5, <1>6, <1>7, <1>8, <1>9, <1>10, <1>11

\* Every step keeps the inductive invariant.
LEMMA GenStep ==
  ASSUME GenIInv, [GenNext]_genVars
  PROVE  GenIInv'
<1>1. CASE UNCHANGED genVars
  BY <1>1 DEF genVars, GenIInv, GenTypeOK, ContextsOwned, StagedIsCurrent, SelectedIsActive,
              OffIsEmpty, IsStaged
<1>2. ASSUME NEW g \in Gens, MarkKnownGood(g) \/ MarkKnownGoodFails(g) PROVE GenIInv'
  <2>1. CASE MarkKnownGood(g)
    BY <2>1, BookkeepingStep DEF MarkKnownGood
  <2>2. CASE MarkKnownGoodFails(g)
    BY <1>1, <2>2 DEF MarkKnownGoodFails
  <2> QED  BY <1>2, <2>1, <2>2
<1>3. CASE \E g \in Gens :
             \/ StageActive(g) \/ StageGeneration(g) \/ StageGenerationFails(g)
             \/ StageRollback(g) \/ StageRollbackFails(g)
             \/ ActivateActive(g) \/ ActivateStaged(g) \/ StageAndActivate(g) \/ ActivateFails(g)
             \/ RollbackStaged(g) \/ StageAndRollback(g) \/ RollbackFails(g)
             \/ MarkKnownGood(g) \/ MarkKnownGoodFails(g)
  BY ONLY GenIInv, <1>2, <1>3, SwitchingStep
<1>4. CASE \E p \in Processes : LoadContext(p) \/ ReapContext(p)
  BY <1>4, LoadStep, ReapStep
<1>5. CASE AllExited
  BY <1>5, BookkeepingStep DEF AllExited
<1>6. CASE Halt
  BY <1>6, BookkeepingStep DEF Halt
<1>7. CASE PowerLoss
  BY <1>7, PowerLossStep
<1>8. CASE \E d \in Metadata : Boot(d) \/ BootFails(d)
  BY <1>8, BootStep, BootFailsStep
<1> QED  BY <1>1, <1>3, <1>4, <1>5, <1>6, <1>7, <1>8 DEF GenNext

\* Where a step that switches generations comes from, and what it records.
LEMMA SwitchRecords ==
  ASSUME GenIInv, GenNext, Switches
  PROVE  /\ rollbackTo' = active
         /\ \/ boot'.state = "commit" /\ active' # failed
            \/ boot'.state = "rollback" /\ failed' = active
<1>1. GenTypeOK /\ StagedIsCurrent
  BY DEF GenIInv
<1>2. PICK g \in Gens :
        \/ ActivateStaged(g) \/ StageAndActivate(g) \/ RollbackStaged(g) \/ StageAndRollback(g)
  <2>1. machine = "up" /\ machine' = "up" /\ active' # active
    BY DEF Switches
  <2> QED
    BY <2>1 DEF GenNext, StageActive, StageGeneration, StageGenerationFails, StageRollback,
         StageRollbackFails, ActivateActive, ActivateFails, RollbackFails, MarkKnownGood,
         MarkKnownGoodFails, LoadContext, ReapContext, AllExited, Halt, PowerLoss, Boot,
         BootFails, genVars
<1>3. g # NoGen
  BY GenerationAssumption DEF GenerationAssumption
<1>4. CASE ActivateStaged(g)
  <2>1. staged.previous = active /\ staged.generation = g /\ g # failed
    BY <1>1, <1>3, <1>4 DEF ActivateStaged, StagedFor, StagedIsCurrent, IsStaged
  <2> QED  BY <1>4, <2>1 DEF ActivateStaged, Enter, Select, BootState
<1>5. CASE RollbackStaged(g)
  <2>1. staged.previous = active
    BY <1>1, <1>3, <1>5 DEF RollbackStaged, StagedFor, StagedIsCurrent, IsStaged
  <2> QED  BY <1>5, <2>1 DEF RollbackStaged, FallBack, BootState
<1>6. CASE StageAndActivate(g)
  BY <1>6 DEF StageAndActivate, Staged, Enter, Select, BootState
<1>7. CASE StageAndRollback(g)
  BY <1>7 DEF StageAndRollback, Staged, FallBack, BootState
<1> QED  BY <1>2, <1>4, <1>5, <1>6, <1>7
-----------------------------------------------------------------------------
(* Theorems *)

\* The inductive invariant holds in every state of generation switching.
THEOREM GenInvariant == GenSpec => []GenIInv
<1>1. GenInit => GenIInv
  BY OffState
<1>2. GenIInv /\ [GenNext]_genVars => GenIInv'
  BY GenStep
<1> QED  BY <1>1, <1>2, PTL DEF GenSpec

\* The kernel's generation state keeps its types, whatever the disk lists.
THEOREM GenTypeCorrect == GenSpec => []GenTypeOK
<1>1. GenIInv => GenTypeOK
  BY DEF GenIInv
<1> QED  BY <1>1, GenInvariant, PTL

\* No interleaving of staging, discarding, process exits and commits frees or
\* shares an address space that is in use, although a commit reaps what was
\* running when the runtime was staged.
THEOREM ContextsCorrect == GenSpec => [](ContextsOwned /\ StagedIsCurrent)
<1>1. GenIInv => ContextsOwned /\ StagedIsCurrent
  BY DEF GenIInv
<1> QED  BY <1>1, GenInvariant, PTL

\* The boot manager's selection and the running generation agree.
THEOREM SelectionCorrect == GenSpec => []SelectedIsActive
<1>1. GenIInv => SelectedIsActive
  BY DEF GenIInv
<1> QED  BY <1>1, GenInvariant, PTL

\* A switch leaves a way back to the generation it left, and a rollback has
\* recorded that one as failed.
THEOREM RollbackCorrect == GenSpec => RollbackIsPrevious
<1>1. GenIInv /\ [GenNext]_genVars =>
        [Switches => rollbackTo' = active /\ (boot'.state = "rollback" => failed' = active)]_genVars
  BY SwitchRecords
<1> QED  BY <1>1, GenInvariant, PTL DEF GenSpec, RollbackIsPrevious

\* activate_generation does not enter a generation recorded as failed.
THEOREM ActivationCorrect == GenSpec => ActivationNotFailed
<1>1. GenIInv /\ [GenNext]_genVars =>
        [Switches /\ boot'.state = "commit" => active' # failed]_genVars
  BY SwitchRecords
<1> QED  BY <1>1, GenInvariant, PTL DEF GenSpec, ActivationNotFailed
=============================================================================
