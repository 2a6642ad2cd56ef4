----------------------------- MODULE MCMigrations -----------------------------
(***************************************************************************)
(* An instance of Migrations: a release, the next one, and a build of the  *)
(* next one in which the file of a migration was edited.                   *)
(***************************************************************************)
EXTENDS Migrations, TLC

CONSTANTS release, upgrade, edited, baseline, generations, changed, guards

MCManifest == release :> <<baseline, generations>>
           @@ upgrade :> <<baseline, generations, guards>>
           @@ edited :> <<baseline, changed, guards>>

MCSymmetry == Permutations(Migrators)
===============================================================================
