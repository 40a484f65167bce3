--------------------------- MODULE MCPluginClasses ---------------------------
(***************************************************************************)
(* PluginClasses for TLC: two plugins whose launcher activities have the   *)
(* same name, one with another activity, and one whose service is a class  *)
(* that the host has as well.                                              *)
(***************************************************************************)
EXTENDS PluginClasses

CONSTANTS t1, t2, a1, a2, a3, s1, s2, p1, p2

Threads == Permutations({t1, t2})
MCPackageOf == (a1 :> p1) @@ (a2 :> p2) @@ (a3 :> p2) @@ (s1 :> p1) @@ (s2 :> p2)
MCClassName == (a1 :> "Main") @@ (a2 :> "Main") @@ (a3 :> "Detail") @@ (s1 :> "Shared") @@ (s2 :> "Sync")
MCClassesIn == (p1 :> {"Main", "Shared"}) @@ (p2 :> {"Main", "Detail", "Sync"}) @@ (Host :> {"Shared"})
=============================================================================
