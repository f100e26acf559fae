---------------------------- MODULE MCStoragePool ----------------------------
(* A pool of two devices, the first of one extent. *)
EXTENDS StoragePool, TLC

CONSTANTS v1, v2, dev1, dev2, a, b

SmallPool == (dev1 :> 1) @@ (dev2 :> 2)
TwoVolumes == Permutations({v1, v2}) \cup Permutations({a, b})

\* The byte counters decide nothing: they are left out of the state.
NoSizes == <<pool_state, devices, device_count, pool, volumes, disk, removals,
             written>>
=============================================================================
