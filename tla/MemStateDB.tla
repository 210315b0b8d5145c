----------------------------- MODULE MemStateDB -----------------------------
(***************************************************************************)
(* The in-memory state database of one EVM execution (statedb.go), with    *)
(* the L4 fallback to the local state store, and the value transfer of     *)
(* evm.go.                                                                 *)
(*                                                                         *)
(* The database starts from what the coordinator put into the task.  A     *)
(* read that misses is answered from the store and cached.  Snapshots are  *)
(* deep copies; the cache of original slot values is not part of them.     *)
(*                                                                         *)
(* The EVM (go-ethereum) is outside this repository.  It is modelled as    *)
(* any sequence of the interface's operations, with one habit that the     *)
(* results depend on: SSTORE prices itself with GetState and               *)
(* GetCommittedState before it calls SetState.                             *)
(***************************************************************************)
EXTENDS Integers, Sequences, FiniteSets

CONSTANTS
    Addrs, Slots,
    Codes,         \* contract codes; a code also stands for its hash
    None,          \* nil: an absent account, slot, code
    Tasks,         \* the coordinator's data for an execution
    Stores,        \* the contents the local store may have
    Modulus,       \* a balance is taken modulo this (2^256 in the code)
    MaxOps         \* bound: operations of one execution

Words == 0..1          \* slot values; 0 is the zero hash
Cells == Addrs \X Slots

VARIABLES
    task,        \* the task, fixed
    store,       \* what the local StateStore answers
    db,          \* the maps of MemStateDB
    snapshots,   \* MemStateDB.snapshots
    ops          \* operations so far (bound only)

vars == <<task, store, db, snapshots, ops>>

-----------------------------------------------------------------------------
(* Construction *)

(* An account as the coordinator and the store have it.                    *)
AccountData == [balance : Nat, nonce : Nat, hash : Codes \cup {None}]

Account == [balance : Nat, nonce : Nat, code : Codes \cup {None},
            hash : Codes \cup {None}, suicided : BOOLEAN, isNew : BOOLEAN]

(* nil is no value of anything else.                                       *)
ASSUME MemStateAssumption ==
    /\ None \notin Codes \cup Words \cup AccountData \cup Account
    /\ Tasks \subseteq [accounts : [Addrs -> AccountData \cup {None}],
                        codes : [Addrs -> Codes \cup {None}],
                        slots : [Cells -> Words \cup {None}]]
    /\ Stores \subseteq [accounts : [Addrs -> AccountData \cup {None}],
                         codes : SUBSET Codes,
                         slots : [Cells -> Words \cup {None}]]
    /\ IsFiniteSet(Addrs)
    /\ Modulus \in Nat \ {0}
    /\ MaxOps \in Nat

Fresh(balance, nonce, code, hash, isNew) ==
    [balance |-> balance, nonce |-> nonce, code |-> code, hash |-> hash,
     suicided |-> FALSE, isNew |-> isNew]

(* A task gives per address an account snapshot (balance, nonce, code      *)
(* hash), a code, and slots, each possibly nil.  Code without an account   *)
(* makes an account with balance 0.                                        *)
TaskAccount(t, a) ==
    LET acct == t.accounts[a]
        code == t.codes[a]
    IN  CASE acct = None /\ code = None -> None
          [] acct = None /\ code # None -> Fresh(0, 0, code, code, FALSE)
          [] acct # None /\ code = None -> Fresh(acct.balance, acct.nonce, None, acct.hash, FALSE)
          [] OTHER -> Fresh(acct.balance, acct.nonce, code, code, FALSE)

NewMemStateDB(t) ==
    [accounts |-> [a \in Addrs |-> TaskAccount(t, a)],
     storage |-> t.slots,
     committed |-> t.slots,
     changes |-> <<>>,
     logs |-> 0,
     refund |-> 0,
     warm |-> {},
     transient |-> [c \in Cells |-> 0]]

Init ==
    /\ task \in Tasks
    /\ store \in Stores
    /\ db = NewMemStateDB(task)
    /\ snapshots = <<>>
    /\ ops = 0

-----------------------------------------------------------------------------
(* Reads: the new database is the old one plus what was cached *)

(* The account loadAccountFromStore builds: the code is what the Code      *)
(* namespace has under the account's hash.                                 *)
StoreAccount(a) ==
    LET acct == store.accounts[a]
    IN  IF acct = None THEN None
        ELSE Fresh(acct.balance, acct.nonce,
                   IF acct.hash \in store.codes THEN acct.hash ELSE None,
                   acct.hash, FALSE)

LoadAccount(d, a) ==
    IF d.accounts[a] = None THEN [d EXCEPT !.accounts[a] = StoreAccount(a)] ELSE d

(* Slip: the slot is cached as current value only.                         *)
SlipLoadSlotOnce(d, c) ==
    IF store.accounts[c[1]] = None \/ store.slots[c] = None THEN d
    ELSE [d EXCEPT !.storage[c] = store.slots[c]]

LoadSlot(d, c) ==
    IF store.accounts[c[1]] = None \/ store.slots[c] = None THEN d
    ELSE [d EXCEPT !.storage[c] = store.slots[c], !.committed[c] = store.slots[c]]

GetState(d, c) == IF d.storage[c] = None THEN LoadSlot(d, c) ELSE d

GetCommittedState(d, c) == IF d.committed[c] = None THEN LoadSlot(d, c) ELSE d

Word(w) == IF w = None THEN 0 ELSE w

-----------------------------------------------------------------------------
(* Writes *)

GetOrCreateAccount(d, a) ==
    LET e == LoadAccount(d, a)
    IN  IF e.accounts[a] = None
        THEN [e EXCEPT !.accounts[a] = Fresh(0, 0, None, None, TRUE)]
        ELSE e

CreateContract(d, a) == [GetOrCreateAccount(d, a) EXCEPT !.accounts[a].isNew = TRUE]

AddBalance(d, a, n) ==
    [GetOrCreateAccount(d, a) EXCEPT !.accounts[a].balance = (@ + n) % Modulus]

(* An underflow is clamped to zero.                                        *)
SubBalance(d, a, n) ==
    [GetOrCreateAccount(d, a) EXCEPT !.accounts[a].balance = IF @ < n THEN 0 ELSE @ - n]

SetNonce(d, a, n) == [GetOrCreateAccount(d, a) EXCEPT !.accounts[a].nonce = n]

SetCode(d, a, code) ==
    [GetOrCreateAccount(d, a) EXCEPT !.accounts[a].code = code,
                                     !.accounts[a].hash = code]

SelfDestruct(d, a) ==
    IF d.accounts[a] = None THEN d
    ELSE [d EXCEPT !.accounts[a].suicided = TRUE, !.accounts[a].balance = 0]

SelfDestruct6780(d, a) ==
    IF d.accounts[a] = None THEN d
    ELSE IF d.accounts[a].isNew THEN SelfDestruct(d, a)
    ELSE [d EXCEPT !.accounts[a].balance = 0]

(* Slip: an absent slot is recorded as it is, not as zero.                 *)
SlipSetStateNil(d, c, w) ==
    [d EXCEPT !.storage[c] = w,
              !.changes = Append(@, [cell |-> c, old |-> d.storage[c], new |-> w])]

(* The old value recorded is the cached one: the store is not asked.       *)
SetState(d, c, w) ==
    [d EXCEPT !.storage[c] = w,
              !.changes = Append(@, [cell |-> c, old |-> Word(d.storage[c]), new |-> w])]

(* What the EVM does for SSTORE.                                           *)
SStore(d, c, w) ==
    SetState(GetCommittedState(GetState(d, c), c), c, w)

AddLog(d) == [d EXCEPT !.logs = @ + 1]

(* Slip: the balance is not looked at; SubBalance clamps.                  *)
SlipCanTransferAlways(d, a, n) == TRUE

(* evm.go canTransfer and iotexTransfer, as the EVM's Call uses them.      *)
CanTransfer(d, a, n) ==
    LET acct == LoadAccount(d, a).accounts[a]
    IN  (IF acct = None THEN 0 ELSE acct.balance) >= n

Transfer(d, from, to, n) == AddLog(AddBalance(SubBalance(d, from, n), to, n))

-----------------------------------------------------------------------------
(* Actions *)

Do(d) ==
    /\ ops < MaxOps
    /\ ops' = ops + 1
    /\ db' = d
    /\ UNCHANGED <<task, store, snapshots>>

(* GetBalance, GetNonce, GetCode, GetCodeHash, Exist, Empty, IsNewAccount. *)
ReadAccount == \E a \in Addrs : Do(LoadAccount(db, a))

ReadSlot == \E c \in Cells : Do(GetState(db, c)) \/ Do(GetCommittedState(db, c))

WriteAccount ==
    \E a \in Addrs :
        \/ Do(GetOrCreateAccount(db, a))
        \/ Do(CreateContract(db, a))
        \/ Do(SetNonce(db, a, 1))
        \/ \E code \in Codes \cup {None} : Do(SetCode(db, a, code))

Destruct == \E a \in Addrs : Do(SelfDestruct(db, a)) \/ Do(SelfDestruct6780(db, a))

WriteSlot == \E c \in Cells, w \in Words : Do(SStore(db, c, w))

MoveValue ==
    \E from, to \in Addrs :
        /\ CanTransfer(db, from, 1)
        /\ Do(Transfer(db, from, to, 1))

(* SubRefund panics below zero; the EVM does not let it.                   *)
WriteRefund ==
    \/ Do([db EXCEPT !.refund = @ + 1])
    \/ db.refund > 0 /\ Do([db EXCEPT !.refund = @ - 1])

(* EIP-2929: the addresses and the slots that were accessed.               *)
WarmAccess ==
    \/ \E a \in Addrs : Do([db EXCEPT !.warm = @ \cup {a}])
    \/ \E c \in Cells : Do([db EXCEPT !.warm = @ \cup {c[1], c}])

(* EIP-1153.                                                               *)
WriteTransient ==
    \E c \in Cells, w \in Words : Do([db EXCEPT !.transient[c] = w])

Snapshot ==
    /\ ops < MaxOps
    /\ ops' = ops + 1
    /\ snapshots' = Append(snapshots, db)
    /\ UNCHANGED <<task, store, db>>

(* Slips: transient storage, or the recorded changes, survive a revert.    *)
SlipRevertKeepsTransient ==
    /\ ops < MaxOps
    /\ ops' = ops + 1
    /\ \E i \in DOMAIN snapshots :
          /\ db' = [snapshots[i] EXCEPT !.committed = db.committed,
                                       !.transient = db.transient]
          /\ snapshots' = SubSeq(snapshots, 1, i - 1)
    /\ UNCHANGED <<task, store>>

SlipRevertKeepsChanges ==
    /\ ops < MaxOps
    /\ ops' = ops + 1
    /\ \E i \in DOMAIN snapshots :
          /\ db' = [snapshots[i] EXCEPT !.committed = db.committed,
                                       !.changes = db.changes]
          /\ snapshots' = SubSeq(snapshots, 1, i - 1)
    /\ UNCHANGED <<task, store>>

(* Everything comes back from the copy but the original values, and the    *)
(* snapshot and the later ones are dropped.                                *)
RevertToSnapshot ==
    /\ ops < MaxOps
    /\ ops' = ops + 1
    /\ \E i \in DOMAIN snapshots :
          /\ db' = [snapshots[i] EXCEPT !.committed = db.committed]
          /\ snapshots' = SubSeq(snapshots, 1, i - 1)
    /\ UNCHANGED <<task, store>>

Next == \/ ReadAccount \/ ReadSlot \/ WriteAccount \/ Destruct \/ WriteSlot
        \/ MoveValue \/ WriteRefund \/ WarmAccess \/ WriteTransient
        \/ Snapshot \/ RevertToSnapshot

Spec == Init /\ [][Next]_vars

-----------------------------------------------------------------------------
(* What the EVM and the coordinator see *)

SeenAccount(d, a) == LoadAccount(d, a).accounts[a]
SeenSlot(d, c) == Word(GetState(d, c).storage[c])
SeenOriginal(d, c) == Word(GetCommittedState(d, c).committed[c])

View(d) == [accounts |-> [a \in Addrs |-> SeenAccount(d, a)],
            slots |-> [c \in Cells |-> SeenSlot(d, c)],
            changes |-> d.changes, logs |-> d.logs, refund |-> d.refund,
            warm |-> d.warm, transient |-> d.transient]

(* GetStateChanges: per slot the first old and the last new value, without *)
(* the slots that end as they began.                                       *)
Touched(d, c) == {i \in DOMAIN d.changes : d.changes[i].cell = c}

FirstOld(d, c) ==
    d.changes[CHOOSE i \in Touched(d, c) : \A j \in Touched(d, c) : i <= j].old

LastNew(d, c) ==
    d.changes[CHOOSE i \in Touched(d, c) : \A j \in Touched(d, c) : j <= i].new

GetStateChanges(d) ==
    {ch \in {[cell |-> c, old |-> FirstOld(d, c), new |-> LastNew(d, c)] :
                 c \in {x \in Cells : Touched(d, x) # {}}} : ch.old # ch.new}

-----------------------------------------------------------------------------
(* Properties *)

Database ==
    [accounts : [Addrs -> Account \cup {None}],
     storage : [Cells -> Words \cup {None}],
     committed : [Cells -> Words \cup {None}],
     changes : Seq([cell : Cells, old : Words, new : Words]),
     logs : Nat, refund : Nat, warm : SUBSET (Addrs \cup Cells),
     transient : [Cells -> Words]]

TypeOK ==
    /\ task \in Tasks /\ store \in Stores /\ ops \in 0..MaxOps
    /\ db \in Database
    /\ snapshots \in Seq(Database)

(* A revert brings back what was visible at the snapshot, although cached  *)
(* accounts and slots come and go with it and the original values stay.    *)
J == INSTANCE JournaledState WITH
        view <- View(db),
        journal <- [i \in DOMAIN snapshots |-> View(snapshots[i])]
RevertRestoresView == J!Spec

(* Reading never changes what is seen: filling the cache from the store is *)
(* invisible, also to a slot that was written before.                      *)
ReadsAreTransparent == [][ReadAccount \/ ReadSlot => View(db)' = View(db)]_vars

(* The changes sent to the coordinator are exactly the slots that differ   *)
(* from their original value, with that value as the old one, after any    *)
(* reverts and with the slots of the task and of the store mixed.          *)
ChangesAreExact ==
    GetStateChanges(db) =
        {ch \in [cell : Cells, old : Words, new : Words] :
            /\ ch.old = SeenOriginal(db, ch.cell)
            /\ ch.new = SeenSlot(db, ch.cell)
            /\ ch.old # ch.new}

(* What an account has, and the coins of some accounts: a unit of balance  *)
(* is a coin, told from the others by its owner and its number.            *)
Balance(d, a) == IF SeenAccount(d, a) = None THEN 0 ELSE SeenAccount(d, a).balance

Coins(d, S) == UNION {{a} \X (1..Balance(d, a)) : a \in S}

Total(d) == Cardinality(Coins(d, Addrs))

(* A transfer moves value: none is made or lost, as long as the supply     *)
(* fits the width of a balance.                                            *)
TransferConserves ==
    [][MoveValue => Total(db)' = Total(db)]_vars

(* statedb.go:170: GetCode (among others) "will fall back to the local     *)
(* store if the data isn't in the coordinator-provided state".             *)
CodeFallsBack ==
    db = NewMemStateDB(task) =>
        \A a \in Addrs :
            task.codes[a] = None /\ StoreAccount(a) # None
                => /\ SeenAccount(db, a) # None
                   /\ StoreAccount(a).code # None
                        => SeenAccount(db, a).code = StoreAccount(a).code
=============================================================================
