------------------------------ MODULE MCUpdates ------------------------------
(***************************************************************************)
(* The four generations of MCGenerations and two disks, one with a sector  *)
(* that is full.  The last activation that was marked is the bootstrap's.  *)
(***************************************************************************)
EXTENDS Updates, TLC

CONSTANTS a, b, c, d

MCImage == [g \in {a, b, c, d} |-> IF g = d THEN "corrupt" ELSE "ok"]
Data(schema, migrate) == [id |-> "data", schema |-> schema, migrate |-> migrate, delete |-> FALSE]
MCVolumes == [g \in {a, b, c, d} |-> IF g = c THEN {Data(2, TRUE)} ELSE {Data(1, FALSE)}]
MCParent == [g \in {a, b, c, d} |-> CASE g = a -> NoGen [] g = c -> b [] OTHER -> a]
Sector(entries, previous) ==
  [entries |-> entries, selected |-> a, previous |-> previous, knownGood |-> a,
   state |-> "clean", target |-> a, failure |-> FALSE]
MCDisks == {Sector(<<a, c>>, b), Sector(<<a, b, c>>, a), Sector(<<a, c, d>>, NoGen)}

\* Behaviours in which nobody asks the manager for a rollback.
InstallSpec == UpdInit /\ [][UpdNext /\ gm'.step # "rollback verify"]_updVars
MCSymmetry == Permutations(Contexts)
=============================================================================
