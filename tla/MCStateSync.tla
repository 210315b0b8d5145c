---------------------------- MODULE MCStateSync -----------------------------
(***************************************************************************)
(* StateSync with the snapshot file of SnapshotLoader on a small instance: *)
(* an account, a code and a contract key, two values, diffs that put,      *)
(* overwrite, delete, write a key twice in one block, and carry a write    *)
(* type the store skips.  A snapshot has up to two entries, in any order.  *)
(***************************************************************************)
EXTENDS SnapshotLoader

CONSTANTS acct, code, slot, v1, v2

MCKeys == {acct, code, slot}
MCValues == {v1, v2}

Put(k, v) == [type |-> WriteTypePut, key |-> k, value |-> v]
Del(k) == [type |-> WriteTypeDelete, key |-> k, value |-> v1]
Other(k) == [type |-> 2, key |-> k, value |-> v2]

MCDiffs == { <<Put(acct, v1), Put(code, v2), Put(slot, v1)>>,
             <<Put(acct, v2), Other(slot)>>,
             <<Put(slot, v2), Del(slot), Del(acct)>> }

AccountKeys == {acct, code}
=============================================================================
