---------------------------- MODULE MCGenerations ----------------------------
(***************************************************************************)
(* Four generations: the bootstrap and the fallback manifest's, one that   *)
(* only the disk names, and one whose store closure is corrupt.  Going     *)
(* from the bootstrap to the disk's generation changes a schema that is    *)
(* migrated on the way there only.                                         *)
(***************************************************************************)
EXTENDS Generations, TLC

CONSTANTS a, b, c, d

MCImage == [g \in {a, b, c, d} |-> IF g = d THEN "corrupt" ELSE "ok"]
Data(schema, migrate) == [id |-> "data", schema |-> schema, migrate |-> migrate, delete |-> FALSE]
MCVolumes ==
  [g \in {a, b, c, d} |->
     CASE g = c -> {Data(2, TRUE)}
       [] g = b -> {Data(1, FALSE)}
       [] OTHER -> {Data(1, FALSE), [id |-> "config", schema |-> 1, migrate |-> FALSE,
                                     delete |-> g = d]}]
Sector(entries, selected, previous, state, target, failure) ==
  [entries |-> entries, selected |-> selected, previous |-> previous, knownGood |-> a,
   state |-> state, target |-> target, failure |-> failure]
MCMetadata ==
  {NoMetadata,
   Sector(<<a, c>>, a, NoGen, "clean", NoGen, FALSE),
   Sector(<<a, c>>, a, a, "prepare", c, FALSE),
   Sector(<<a, c>>, c, a, "commit", c, FALSE),
   Sector(<<a, c>>, a, c, "rollback", a, TRUE),
   Sector(<<a, d>>, a, a, "abort", d, TRUE),
   Sector(<<a, c, d>>, c, a, "clean", c, FALSE)}
MCSymmetry == Permutations(Contexts)
=============================================================================
