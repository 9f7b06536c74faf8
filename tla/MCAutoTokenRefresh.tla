------------------------ MODULE MCAutoTokenRefresh -------------------------
(* AutoTokenRefresh on a small instance.  The users are interchangeable,   *)
(* and the first to sign in is called First without loss of generality.    *)
EXTENDS AutoTokenRefresh

CONSTANT First

ASSUME FirstAssumption == First \in Uids

FirstInit == RefreshInit /\ (owners # <<>> => owners[1] = First)
FirstSignsIn == owners' # <<>> => owners'[1] = First

RefreshByFirst ==
    FirstInit /\ [][RefreshNext /\ FirstSignsIn]_refreshVars /\ RefreshFairness
=============================================================================
