-------------------------- MODULE MC_UpdateManager --------------------------
(* An instance of UpdateManager: the application and the runtime it depends  *)
(* on; two upgrades of the application, one too large, one not acceptable,   *)
(* one incomplete, and the first runtime package.                            *)
EXTENDS UpdateManager

BothClusters == {"application", "runtime"}
Sound(cluster, version) ==
  [cluster |-> cluster, version |-> version, size |-> 1, complete |-> TRUE,
   acceptable |-> TRUE, dependencies |-> {}]
FactoryPackage == Sound("application", 1)
DependentPackage == [Sound("application", 3) EXCEPT !.dependencies = {"runtime"}]
SomePackages ==
  {Sound("application", 2), DependentPackage, Sound("runtime", 1),
   [Sound("application", 4) EXCEPT !.size = 3],
   [Sound("application", 5) EXCEPT !.acceptable = FALSE],
   [Sound("application", 6) EXCEPT !.complete = FALSE]}
NinthAndTenth == {Sound("application", 9), Sound("application", 10)}
=============================================================================
