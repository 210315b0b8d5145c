--------------------------- MODULE MCMovingStore ----------------------------
(***************************************************************************)
(* MemStateDB while state sync goes on: the slots of the local store       *)
(* change under an execution.                                              *)
(***************************************************************************)
EXTENDS MCMemStateDB

MCMovingStores == { MCStore([balance |-> 1, nonce |-> 1, hash |-> c], w) : w \in {0, 1} }

(* A diff is applied under the execution.                                  *)
StoreMove ==
    /\ store' \in Stores
    /\ UNCHANGED <<task, db, snapshots, ops>>

MovingSpec == Init /\ [][Next \/ StoreMove]_vars

(* statedb.go:58: committedStorage holds "original values, never           *)
(* modified".                                                              *)
OriginalsNeverModified ==
    [][\A cell \in Cells : db.committed[cell] # None
                             => db'.committed[cell] = db.committed[cell]]_vars
=============================================================================
