----------------------------- MODULE StateStore -----------------------------
(***************************************************************************)
(* The agent's persistent state store (statestore.go): a BoltDB file that  *)
(* holds a key/value map and the height it corresponds to, and an          *)
(* in-memory copy of that height.                                          *)
(*                                                                         *)
(* A bolt update transaction is atomic and durable, so ApplyDiff is two    *)
(* steps: the commit (entries and height together) and, after it, the      *)
(* publication of the height in memory.  Readers of the height and readers *)
(* of the map may run between the two; so may a crash or a Close.          *)
(*                                                                         *)
(* A key stands for a namespace (bucket) and the key within it.            *)
(***************************************************************************)
EXTENDS Naturals, Sequences

CONSTANTS
    Keys,       \* every (namespace, key) pair the store may hold
    Values,     \* the values a key may have
    Absent,     \* what Get returns (nil) for a key that is not there
    NoHeight    \* "no height": nothing is waiting to be published

ASSUME StoreAssumption == /\ Absent \notin Values
                          /\ NoHeight \notin Nat

VARIABLES
    disk,         \* the file: [kv, height], what a crash leaves behind
    height,       \* the atomic StateStore.height
    dbOpen,       \* the bolt handle is open
    unpublished   \* a height that is committed and not yet published

storeVars == <<disk, height, dbOpen, unpublished>>

-----------------------------------------------------------------------------
(* Diffs *)

WriteTypePut == 0
WriteTypeDelete == 1

Contents == [Keys -> Values \cup {Absent}]
Empty == [k \in Keys |-> Absent]

(* A diff entry; a write type other than the two known ones is skipped.   *)
Entry == [type : Nat, key : Keys, value : Values]

Written(e) == IF e.type = WriteTypePut THEN e.value ELSE Absent

Writers(k, entries) ==
    {i \in DOMAIN entries : /\ entries[i].key = k
                            /\ entries[i].type \in {WriteTypePut, WriteTypeDelete}}

LastWriter(k, entries) ==
    CHOOSE i \in Writers(k, entries) : \A j \in Writers(k, entries) : j <= i

(* The map after the loop of ApplyDiff: the entries are applied in order,  *)
(* so each key has what its last entry left.                               *)
ApplyEntries(kv, entries) ==
    [k \in Keys |-> IF Writers(k, entries) = {}
                    THEN kv[k]
                    ELSE Written(entries[LastWriter(k, entries)])]

-----------------------------------------------------------------------------
(* Operations *)

StoreInit ==
    /\ disk = [kv |-> Empty, height |-> 0]
    /\ height = 0
    /\ dbOpen = FALSE
    /\ unpublished = NoHeight

(* Slip: the persisted height is not loaded.                               *)
SlipOpenAtZero ==
    /\ ~dbOpen
    /\ dbOpen' = TRUE
    /\ height' = 0
    /\ unpublished' = NoHeight
    /\ UNCHANGED disk

(* OpenStateStore: the buckets exist and the persisted height is loaded.   *)
OpenStateStore ==
    /\ ~dbOpen
    /\ dbOpen' = TRUE
    /\ height' = disk.height
    /\ unpublished' = NoHeight
    /\ UNCHANGED disk

(* Slip: the height is left out of the transaction.                        *)
SlipCommitNoHeight(h, kv) ==
    /\ dbOpen
    /\ unpublished = NoHeight
    /\ disk' = [disk EXCEPT !.kv = kv]
    /\ unpublished' = h
    /\ UNCHANGED <<height, dbOpen>>

(* ApplyDiff, the transaction: contents and height change together.        *)
Commit(h, kv) ==
    /\ dbOpen
    /\ unpublished = NoHeight
    /\ disk' = [kv |-> kv, height |-> h]
    /\ unpublished' = h
    /\ UNCHANGED <<height, dbOpen>>

(* ApplyDiff, after the transaction succeeded: s.height.Store(height).     *)
Publish ==
    /\ unpublished # NoHeight
    /\ height' = unpublished
    /\ unpublished' = NoHeight
    /\ UNCHANGED <<disk, dbOpen>>

(* Close: bolt waits for the open transaction, then refuses new ones.      *)
CloseStateStore ==
    /\ dbOpen
    /\ dbOpen' = FALSE
    /\ UNCHANGED <<disk, height, unpublished>>

(* The process ends, with or without Close: only the file is left.         *)
LoseMemory ==
    /\ height' = 0
    /\ dbOpen' = FALSE
    /\ unpublished' = NoHeight
    /\ UNCHANGED disk

StoreTypeOK ==
    /\ disk \in [kv : Contents, height : Nat]
    /\ height \in Nat
    /\ dbOpen \in BOOLEAN
    /\ unpublished \in Nat \cup {NoHeight}
=============================================================================
