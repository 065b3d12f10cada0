----------------------------- MODULE FleetHost -----------------------------
(***************************************************************************)
(* What runs on a host of the fleet: the catalog's pipelines under the     *)
(* watchdog, workloads under the host lock, and in such a workload the     *)
(* exporter's pool.  The three share no state, so a behaviour of one with  *)
(* the others at rest shows all it can do; "part" names it.                *)
(***************************************************************************)
EXTENDS Fleet, HostLock, SeedPool

VARIABLE part

fleetHostVars == <<part, fleetVars, lockVars, poolVars>>

FleetHostInit ==
  /\ part \in {"pipeline", "lock", "pool"}
  /\ FleetInit /\ LockInit /\ PoolInit

FleetHostNext ==
  /\ \/ part = "pipeline" /\ FleetNext /\ UNCHANGED <<lockVars, poolVars>>
     \/ part = "lock" /\ LockNext /\ UNCHANGED <<fleetVars, poolVars>>
     \/ part = "pool" /\ PoolNext /\ UNCHANGED <<fleetVars, lockVars>>
  /\ UNCHANGED part

FleetHostSpec == FleetHostInit /\ [][FleetHostNext]_fleetHostVars /\ FleetFairness

-----------------------------------------------------------------------------
(* Delivers speaks of the pipelines.                                        *)

CatalogDelivered == part = "pipeline" => Delivers
=============================================================================
