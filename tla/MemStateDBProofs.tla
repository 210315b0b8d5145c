-------------------------- MODULE MemStateDBProofs --------------------------
(***************************************************************************)
(* The state database of one EVM execution, for every set of addresses,    *)
(* slots and codes, every task, every store at rest and any sequence of    *)
(* operations: reading changes nothing that is seen, a revert brings back  *)
(* what was seen at the snapshot, and the changes reported are exact.      *)
(*                                                                         *)
(* What is visible of a slot depends on three caches, so the invariant     *)
(* says what each may hold against the slot's original value (SlotsOK):    *)
(* in the database and in every snapshot, whose original values a revert   *)
(* does not bring back and must therefore be known to the database already *)
(* (SnapshotsInv).                                                         *)
(*                                                                         *)
(* Transfers conserve the supply as long as it fits the width of a         *)
(* balance, which it does throughout if it does at the start (SupplyInv).  *)
(***************************************************************************)
EXTENDS MemStateDB, FiniteSetTheorems, WellFoundedInduction, TLAPS

(* What a read of the store gives for a slot, and what the slot was before *)
(* the execution.                                                          *)
Stored(c) == IF store.accounts[c[1]] = None THEN None ELSE store.slots[c]
Original(c) == IF task.slots[c] # None THEN task.slots[c] ELSE Stored(c)

IsFirst(d, c, i) == i \in Touched(d, c) /\ \A j \in Touched(d, c) : i <= j
IsLast(d, c, i) == i \in Touched(d, c) /\ \A j \in Touched(d, c) : j <= i

SlotOK(d, c) ==
    /\ d.committed[c] \in {None, Original(c)}
    /\ task.slots[c] # None => d.committed[c] # None /\ d.storage[c] # None
    /\ d.storage[c] # None /\ Stored(c) # None => d.committed[c] # None
    /\ Touched(d, c) = {} => d.storage[c] \in {None, Original(c)}
    /\ \A i \in DOMAIN d.changes :
          /\ IsFirst(d, c, i) => d.changes[i].old = Word(Original(c))
          /\ IsLast(d, c, i) => d.changes[i].new = d.storage[c]

SlotsOK(d) == \A c \in Cells : SlotOK(d, c)

(* Original values stay once they are known.                               *)
Knows(d, e) == \A c \in Cells : e.committed[c] # None => d.committed[c] # None

SnapshotsInv ==
    \A i \in DOMAIN snapshots : SlotsOK(snapshots[i]) /\ Knows(db, snapshots[i])

IInv ==
    /\ TypeOK
    /\ SlotsOK(db)
    /\ SnapshotsInv

-----------------------------------------------------------------------------
(* What the reads return *)

LEMMA StoreTyped ==
    ASSUME store \in Stores
    PROVE  /\ store.accounts \in [Addrs -> AccountData \cup {None}]
           /\ store.slots \in [Cells -> Words \cup {None}]
           /\ \A c \in Cells : c[1] \in Addrs
BY MemStateAssumption DEF Cells

LEMMA TaskTyped ==
    ASSUME task \in Tasks
    PROVE  /\ task.accounts \in [Addrs -> AccountData \cup {None}]
           /\ task.codes \in [Addrs -> Codes \cup {None}]
           /\ task.slots \in [Cells -> Words \cup {None}]
BY MemStateAssumption

LEMMA NoneIsNoValue ==
    None \notin Codes /\ None \notin Words /\ None \notin AccountData /\ None \notin Account
BY MemStateAssumption

LEMMA FreshType ==
    ASSUME NEW b \in Nat, NEW n \in Nat, NEW code \in Codes \cup {None},
           NEW hash \in Codes \cup {None}, NEW new \in BOOLEAN
    PROVE  Fresh(b, n, code, hash, new) \in Account
BY DEF Fresh, Account

LEMMA StoreAccountType ==
    ASSUME store \in Stores, NEW a \in Addrs
    PROVE  StoreAccount(a) \in Account \cup {None}
<1> DEFINE acct == store.accounts[a]
<1>1. acct \in AccountData \cup {None}
  BY StoreTyped
<1> HIDE DEF acct
<1>2. CASE acct = None
  BY <1>2 DEF StoreAccount, acct
<1>3. CASE acct # None
  <2>1. acct.balance \in Nat /\ acct.nonce \in Nat /\ acct.hash \in Codes \cup {None}
    BY <1>1, <1>3 DEF AccountData
  <2> DEFINE code == IF acct.hash \in store.codes THEN acct.hash ELSE None
  <2>2. code \in Codes \cup {None}
    BY <2>1
  <2> HIDE DEF code
  <2>3. Fresh(acct.balance, acct.nonce, code, acct.hash, FALSE) \in Account
    BY <2>1, <2>2, FreshType
  <2> QED  BY <1>3, <2>3 DEF StoreAccount, acct, code
<1> QED  BY <1>2, <1>3

LEMMA StoredType ==
    ASSUME store \in Stores, NEW c \in Cells
    PROVE  Stored(c) \in Words \cup {None}
BY StoreTyped DEF Stored

(* The caches' entries, once and for all in terms of one record.           *)
LEMMA DatabaseFields ==
    ASSUME NEW d \in Database
    PROVE  /\ d = [accounts |-> d.accounts, storage |-> d.storage,
                   committed |-> d.committed, changes |-> d.changes,
                   logs |-> d.logs, refund |-> d.refund, warm |-> d.warm,
                   transient |-> d.transient]
           /\ d.accounts \in [Addrs -> Account \cup {None}]
           /\ d.storage \in [Cells -> Words \cup {None}]
           /\ d.committed \in [Cells -> Words \cup {None}]
           /\ d.changes \in Seq([cell : Cells, old : Words, new : Words])
           /\ d.logs \in Nat /\ d.refund \in Nat
           /\ d.warm \in SUBSET (Addrs \cup Cells)
           /\ d.transient \in [Cells -> Words]
BY DEF Database

(* Loading an account fills its cache entry.                               *)
LEMMA LoadAccountIs ==
    ASSUME store \in Stores, NEW d \in Database, NEW a \in Addrs
    PROVE  LET e == LoadAccount(d, a)
           IN  /\ e \in Database
               /\ e = [d EXCEPT !.accounts = e.accounts]
               /\ e.accounts[a] = IF d.accounts[a] = None THEN StoreAccount(a)
                                  ELSE d.accounts[a]
               /\ \A b \in Addrs \ {a} : e.accounts[b] = d.accounts[b]
<1> DEFINE acct == StoreAccount(a)
           e == [d EXCEPT !.accounts[a] = acct]
<1>1. acct \in Account \cup {None}
  BY StoreAccountType
<1>2. d.accounts \in [Addrs -> Account \cup {None}]
  BY DatabaseFields
<1> HIDE DEF acct
<1>3. /\ e.accounts = [d.accounts EXCEPT ![a] = acct]
      /\ e = [d EXCEPT !.accounts = e.accounts]
  BY DEF Database
<1>4. e.accounts \in [Addrs -> Account \cup {None}]
  BY <1>1, <1>2, <1>3
<1>5. e \in Database
  BY <1>3, <1>4 DEF Database
<1> HIDE DEF e
<1>6. CASE d.accounts[a] = None
  <2>1. LoadAccount(d, a) = e
    BY <1>6 DEF LoadAccount, e, acct
  <2> QED  BY <1>2, <1>3, <1>5, <1>6, <2>1 DEF acct
<1>7. CASE d.accounts[a] # None
  <2>1. LoadAccount(d, a) = d
    BY <1>7 DEF LoadAccount
  <2>2. d = [d EXCEPT !.accounts = d.accounts]
    BY DEF Database
  <2> QED  BY <1>7, <2>1, <2>2
<1> QED  BY <1>6, <1>7

LEMMA LoadSlotIs ==
    ASSUME store \in Stores, NEW d \in Database, NEW c \in Cells
    PROVE  LET e == LoadSlot(d, c)
           IN  /\ Stored(c) = None => e = d
               /\ Stored(c) # None =>
                     e = [d EXCEPT !.storage = [d.storage EXCEPT ![c] = Stored(c)],
                                   !.committed = [d.committed EXCEPT ![c] = Stored(c)]]
               /\ e \in Database
<1>1. CASE Stored(c) = None
  BY <1>1 DEF LoadSlot, Stored
<1>2. CASE Stored(c) # None
  <2>1. store.accounts[c[1]] # None /\ Stored(c) = store.slots[c]
    BY <1>2 DEF Stored
  <2>2. LoadSlot(d, c) =
          [d EXCEPT !.storage = [d.storage EXCEPT ![c] = Stored(c)],
                    !.committed = [d.committed EXCEPT ![c] = Stored(c)]]
    BY <1>2, <2>1 DEF LoadSlot, Database
  <2>3. Stored(c) \in Words
    BY <1>2, StoredType
  <2>4. /\ [d.storage EXCEPT ![c] = Stored(c)] \in [Cells -> Words \cup {None}]
        /\ [d.committed EXCEPT ![c] = Stored(c)] \in [Cells -> Words \cup {None}]
    BY <2>3, DatabaseFields
  <2>5. LoadSlot(d, c) \in Database
    BY <2>2, <2>4 DEF Database
  <2> QED  BY <1>2, <2>2, <2>5
<1> QED  BY <1>1, <1>2

(* What the EVM sees, without the caches.                                  *)
LEMMA SeenAccountIs ==
    ASSUME store \in Stores, NEW d \in Database, NEW a \in Addrs
    PROVE  SeenAccount(d, a) = IF d.accounts[a] = None THEN StoreAccount(a)
                               ELSE d.accounts[a]
BY LoadAccountIs DEF SeenAccount

LEMMA LoadSlotFields ==
    ASSUME store \in Stores, NEW d \in Database, NEW c \in Cells, Stored(c) # None
    PROVE  /\ LoadSlot(d, c).storage = [d.storage EXCEPT ![c] = Stored(c)]
           /\ LoadSlot(d, c).committed = [d.committed EXCEPT ![c] = Stored(c)]
           /\ LoadSlot(d, c).accounts = d.accounts
           /\ LoadSlot(d, c).changes = d.changes
           /\ LoadSlot(d, c).logs = d.logs
           /\ LoadSlot(d, c).refund = d.refund
           /\ LoadSlot(d, c).warm = d.warm
           /\ LoadSlot(d, c).transient = d.transient
<1> DEFINE st == [d.storage EXCEPT ![c] = Stored(c)]
           co == [d.committed EXCEPT ![c] = Stored(c)]
<1>1. LoadSlot(d, c) = [d EXCEPT !.storage = st, !.committed = co]
  BY LoadSlotIs
<1> HIDE DEF st, co
<1>2. DOMAIN d = {"accounts", "storage", "committed", "changes", "logs", "refund",
                  "warm", "transient"}
  BY DEF Database
<1>3. /\ LoadSlot(d, c).storage = st /\ LoadSlot(d, c).committed = co
      /\ LoadSlot(d, c).accounts = d.accounts /\ LoadSlot(d, c).changes = d.changes
      /\ LoadSlot(d, c).logs = d.logs /\ LoadSlot(d, c).refund = d.refund
      /\ LoadSlot(d, c).warm = d.warm /\ LoadSlot(d, c).transient = d.transient
  BY <1>1, <1>2
<1> QED  BY <1>3 DEF st, co

LEMMA SeenSlotIs ==
    ASSUME store \in Stores, NEW d \in Database, NEW c \in Cells
    PROVE  SeenSlot(d, c) = Word(IF d.storage[c] = None THEN Stored(c) ELSE d.storage[c])
<1>1. CASE d.storage[c] # None
  BY <1>1 DEF SeenSlot, GetState
<1>2. CASE d.storage[c] = None /\ Stored(c) = None
  BY <1>2, LoadSlotIs DEF SeenSlot, GetState
<1>3. CASE d.storage[c] = None /\ Stored(c) # None
  <2>1. LoadSlot(d, c).storage = [d.storage EXCEPT ![c] = Stored(c)]
    BY <1>3, LoadSlotFields
  <2>2. d.storage \in [Cells -> Words \cup {None}]
    BY DatabaseFields
  <2>3. LoadSlot(d, c).storage[c] = Stored(c)
    BY <2>1, <2>2
  <2> QED  BY <1>3, <2>3 DEF SeenSlot, GetState
<1> QED  BY <1>1, <1>2, <1>3

LEMMA SeenOriginalIs ==
    ASSUME store \in Stores, NEW d \in Database, NEW c \in Cells
    PROVE  SeenOriginal(d, c) =
             Word(IF d.committed[c] = None THEN Stored(c) ELSE d.committed[c])
<1>1. CASE d.committed[c] # None
  BY <1>1 DEF SeenOriginal, GetCommittedState
<1>2. CASE d.committed[c] = None /\ Stored(c) = None
  BY <1>2, LoadSlotIs DEF SeenOriginal, GetCommittedState
<1>3. CASE d.committed[c] = None /\ Stored(c) # None
  <2>1. LoadSlot(d, c).committed = [d.committed EXCEPT ![c] = Stored(c)]
    BY <1>3, LoadSlotFields
  <2>2. d.committed \in [Cells -> Words \cup {None}]
    BY DatabaseFields
  <2>3. LoadSlot(d, c).committed[c] = Stored(c)
    BY <2>1, <2>2
  <2> QED  BY <1>3, <2>3 DEF SeenOriginal, GetCommittedState
<1> QED  BY <1>1, <1>2, <1>3

(* Two databases with the same accounts, slots and rest look the same.     *)
LEMMA SameView ==
    ASSUME NEW d, NEW e,
           \A a \in Addrs : SeenAccount(e, a) = SeenAccount(d, a),
           \A c \in Cells : SeenSlot(e, c) = SeenSlot(d, c),
           e.changes = d.changes, e.logs = d.logs, e.refund = d.refund,
           e.warm = d.warm, e.transient = d.transient
    PROVE  View(e) = View(d)
BY DEF View

(* The original values are not part of what is seen.                       *)
LEMMA RevertedView ==
    ASSUME store \in Stores, NEW d \in Database, NEW e \in Database
    PROVE  /\ [d EXCEPT !.committed = e.committed] \in Database
           /\ View([d EXCEPT !.committed = e.committed]) = View(d)
<1> DEFINE r == [d EXCEPT !.committed = e.committed]
<1>1. /\ r \in Database
      /\ r.accounts = d.accounts /\ r.storage = d.storage /\ r.changes = d.changes
      /\ r.logs = d.logs /\ r.refund = d.refund /\ r.warm = d.warm
      /\ r.transient = d.transient
  BY DEF Database
<1> HIDE DEF r
<1>2. \A a \in Addrs : SeenAccount(r, a) = SeenAccount(d, a)
  BY <1>1, SeenAccountIs
<1>3. \A c \in Cells : SeenSlot(r, c) = SeenSlot(d, c)
  BY <1>1, SeenSlotIs
<1>4. View(r) = View(d)
  BY <1>1, <1>2, <1>3, SameView
<1> QED  BY <1>1, <1>4 DEF r

LEMMA LoadAccountView ==
    ASSUME store \in Stores, NEW d \in Database, NEW a \in Addrs
    PROVE  View(LoadAccount(d, a)) = View(d)
<1> DEFINE e == LoadAccount(d, a)
<1>1. /\ e \in Database
      /\ e = [d EXCEPT !.accounts = e.accounts]
      /\ e.accounts[a] = IF d.accounts[a] = None THEN StoreAccount(a) ELSE d.accounts[a]
      /\ \A b \in Addrs \ {a} : e.accounts[b] = d.accounts[b]
  BY LoadAccountIs
<1> HIDE DEF e
<1>2. /\ e.storage = d.storage /\ e.changes = d.changes
      /\ e.logs = d.logs /\ e.refund = d.refund /\ e.warm = d.warm
      /\ e.transient = d.transient
  BY <1>1 DEF Database
<1>3. ASSUME NEW b \in Addrs PROVE SeenAccount(e, b) = SeenAccount(d, b)
  <2>1. CASE b = a
    BY <1>1, <2>1, SeenAccountIs
  <2>2. CASE b # a
    BY <1>1, <2>2, SeenAccountIs
  <2> QED  BY <2>1, <2>2
<1>4. \A c \in Cells : SeenSlot(e, c) = SeenSlot(d, c)
  BY <1>1, <1>2, SeenSlotIs
<1> QED  BY <1>2, <1>3, <1>4, SameView DEF e

(* A slot is loaded over nothing.                                          *)
LEMMA LoadSlotView ==
    ASSUME store \in Stores, NEW d \in Database, NEW c \in Cells,
           d.storage[c] = None
    PROVE  View(LoadSlot(d, c)) = View(d)
<1>1. CASE Stored(c) = None
  BY <1>1, LoadSlotIs
<1>2. CASE Stored(c) # None
  <2> DEFINE e == LoadSlot(d, c)
  <2>1. e \in Database
    BY LoadSlotIs
  <2>2. /\ e.storage = [d.storage EXCEPT ![c] = Stored(c)]
        /\ e.accounts = d.accounts /\ e.changes = d.changes
        /\ e.logs = d.logs /\ e.refund = d.refund /\ e.warm = d.warm
        /\ e.transient = d.transient
    BY <1>2, LoadSlotFields
  <2> HIDE DEF e
  <2>3. ASSUME NEW x \in Cells PROVE SeenSlot(e, x) = SeenSlot(d, x)
    <3>1. d.storage \in [Cells -> Words \cup {None}]
      BY DatabaseFields
    <3>2. CASE x = c
      <4>1. e.storage[c] = Stored(c)
        BY <2>2, <3>1
      <4>2. SeenSlot(d, c) = Word(Stored(c))
        BY SeenSlotIs
      <4>3. SeenSlot(e, c) = Word(Stored(c))
        BY <1>2, <2>1, <4>1, SeenSlotIs
      <4> QED  BY <3>2, <4>2, <4>3
    <3>3. CASE x # c
      <4>1. e.storage[x] = d.storage[x]
        BY <2>2, <3>1, <3>3
      <4> QED  BY <2>1, <4>1, SeenSlotIs
    <3> QED  BY <3>2, <3>3
  <2>4. \A a \in Addrs : SeenAccount(e, a) = SeenAccount(d, a)
    BY <2>1, <2>2, SeenAccountIs
  <2> QED  BY <2>2, <2>3, <2>4, SameView DEF e
<1> QED  BY <1>1, <1>2

-----------------------------------------------------------------------------
(* The operations keep the slots in order *)

(* The operations that leave the slots alone.                              *)
SameSlots(d, e) ==
    /\ e \in Database
    /\ e.storage = d.storage
    /\ e.committed = d.committed
    /\ e.changes = d.changes

LEMMA SameSlotsOK ==
    ASSUME NEW d, NEW e, SameSlots(d, e), SlotsOK(d)
    PROVE  SlotsOK(e) /\ Knows(e, d)
BY DEF SameSlots, SlotsOK, SlotOK, Knows, Touched, IsFirst, IsLast

(* An account is replaced.                                                 *)
LEMMA SetAccount ==
    ASSUME NEW d \in Database, NEW a \in Addrs, NEW acct \in Account \cup {None}
    PROVE  SameSlots(d, [d EXCEPT !.accounts[a] = acct])
<1> DEFINE m == [d.accounts EXCEPT ![a] = acct]
<1>1. m \in [Addrs -> Account \cup {None}]
  BY DatabaseFields
<1>2. [d EXCEPT !.accounts[a] = acct] = [d EXCEPT !.accounts = m]
  BY DEF Database
<1> HIDE DEF m
<1>3. SameSlots(d, [d EXCEPT !.accounts = m])
  BY <1>1 DEF SameSlots, Database
<1> QED  BY <1>2, <1>3

LEMMA SameSlotsTransitive ==
    ASSUME NEW d, NEW e, NEW f, SameSlots(d, e), SameSlots(e, f)
    PROVE  SameSlots(d, f)
BY DEF SameSlots

LEMMA LoadAccountSameSlots ==
    ASSUME store \in Stores, NEW d \in Database, NEW a \in Addrs
    PROVE  SameSlots(d, LoadAccount(d, a))
<1>1. LoadAccount(d, a) \in Database
  BY LoadAccountIs
<1>2. LoadAccount(d, a) = [d EXCEPT !.accounts = LoadAccount(d, a).accounts]
  BY LoadAccountIs
<1> QED  BY <1>1, <1>2 DEF SameSlots, Database

(* After getOrCreateAccount there is an account.                           *)
LEMMA GetOrCreate ==
    ASSUME store \in Stores, NEW d \in Database, NEW a \in Addrs
    PROVE  /\ SameSlots(d, GetOrCreateAccount(d, a))
           /\ GetOrCreateAccount(d, a).accounts[a] \in Account
<1> DEFINE e == LoadAccount(d, a)
           fresh == Fresh(0, 0, None, None, TRUE)
<1>1. SameSlots(d, e) /\ e \in Database
  BY LoadAccountSameSlots DEF SameSlots
<1>2. fresh \in Account
  BY FreshType
<1> HIDE DEF e, fresh
<1>3. e.accounts \in [Addrs -> Account \cup {None}]
  BY <1>1, DatabaseFields
<1>4. CASE e.accounts[a] = None
  <2> DEFINE g == [e EXCEPT !.accounts[a] = fresh]
  <2>1. GetOrCreateAccount(d, a) = g
    BY <1>4 DEF GetOrCreateAccount, e, fresh
  <2>2. SameSlots(e, g)
    BY <1>1, <1>2, SetAccount
  <2>3. g.accounts[a] = fresh
    BY <1>1, <1>3 DEF Database
  <2> HIDE DEF g
  <2> QED  BY <1>1, <1>2, <2>1, <2>2, <2>3, SameSlotsTransitive
<1>5. CASE e.accounts[a] # None
  <2>1. GetOrCreateAccount(d, a) = e
    BY <1>5 DEF GetOrCreateAccount, e
  <2> QED  BY <1>1, <1>3, <1>5, <2>1
<1> QED  BY <1>4, <1>5

(* The writes of an account: a field of it changes.                        *)
LEMMA UpdateAccount ==
    ASSUME store \in Stores, NEW d \in Database, NEW a \in Addrs, NEW acct \in Account
    PROVE  SameSlots(d, [GetOrCreateAccount(d, a) EXCEPT !.accounts[a] = acct])
<1> DEFINE e == GetOrCreateAccount(d, a)
<1>1. SameSlots(d, e) /\ e \in Database
  BY GetOrCreate DEF SameSlots
<1> HIDE DEF e
<1>2. SameSlots(e, [e EXCEPT !.accounts[a] = acct])
  BY <1>1, SetAccount
<1>3. SameSlots(d, [e EXCEPT !.accounts[a] = acct])
  BY <1>1, <1>2, SameSlotsTransitive
<1> QED  BY <1>3 DEF e

LEMMA CreateContractSame ==
    ASSUME store \in Stores, NEW d \in Database, NEW a \in Addrs
    PROVE  SameSlots(d, CreateContract(d, a))
<1> DEFINE e == GetOrCreateAccount(d, a)
           acct == [e.accounts[a] EXCEPT !.isNew = TRUE]
<1>1. e.accounts[a] \in Account
  BY GetOrCreate
<1>2. CreateContract(d, a) = [e EXCEPT !.accounts[a] = acct]
  BY DEF CreateContract
<1>3. acct \in Account
  <2> HIDE DEF e
  <2> QED  BY <1>1 DEF Account
<1> HIDE DEF acct
<1> QED  BY <1>2, <1>3, UpdateAccount

LEMMA AddBalanceSame ==
    ASSUME store \in Stores, NEW d \in Database, NEW a \in Addrs, NEW n \in Nat
    PROVE  SameSlots(d, AddBalance(d, a, n))
<1> DEFINE e == GetOrCreateAccount(d, a)
           acct == [e.accounts[a] EXCEPT !.balance = (@ + n) % Modulus]
<1>1. e.accounts[a] \in Account
  BY GetOrCreate
<1>2. AddBalance(d, a, n) = [e EXCEPT !.accounts[a] = acct]
  BY DEF AddBalance
<1>3. acct \in Account
  <2> HIDE DEF e
  <2> QED  BY <1>1, MemStateAssumption DEF Account
<1> HIDE DEF acct
<1> QED  BY <1>2, <1>3, UpdateAccount

LEMMA SubBalanceSame ==
    ASSUME store \in Stores, NEW d \in Database, NEW a \in Addrs, NEW n \in Nat
    PROVE  SameSlots(d, SubBalance(d, a, n))
<1> DEFINE e == GetOrCreateAccount(d, a)
           acct == [e.accounts[a] EXCEPT !.balance = IF @ < n THEN 0 ELSE @ - n]
<1>1. e.accounts[a] \in Account
  BY GetOrCreate
<1>2. SubBalance(d, a, n) = [e EXCEPT !.accounts[a] = acct]
  BY DEF SubBalance
<1>3. acct \in Account
  <2> HIDE DEF e
  <2> QED  BY <1>1 DEF Account
<1> HIDE DEF acct
<1> QED  BY <1>2, <1>3, UpdateAccount

LEMMA SetNonceSame ==
    ASSUME store \in Stores, NEW d \in Database, NEW a \in Addrs, NEW n \in Nat
    PROVE  SameSlots(d, SetNonce(d, a, n))
<1> DEFINE e == GetOrCreateAccount(d, a)
           acct == [e.accounts[a] EXCEPT !.nonce = n]
<1>1. e.accounts[a] \in Account
  BY GetOrCreate
<1>2. SetNonce(d, a, n) = [e EXCEPT !.accounts[a] = acct]
  BY DEF SetNonce
<1>3. acct \in Account
  <2> HIDE DEF e
  <2> QED  BY <1>1 DEF Account
<1> HIDE DEF acct
<1> QED  BY <1>2, <1>3, UpdateAccount

LEMMA SetCodeSame ==
    ASSUME store \in Stores, NEW d \in Database, NEW a \in Addrs,
           NEW code \in Codes \cup {None}
    PROVE  SameSlots(d, SetCode(d, a, code))
<1> DEFINE e == GetOrCreateAccount(d, a)
           acct == [e.accounts[a] EXCEPT !.code = code, !.hash = code]
<1>1. e.accounts[a] \in Account
  BY GetOrCreate
<1>2. SetCode(d, a, code) = [e EXCEPT !.accounts[a] = acct]
  BY DEF SetCode
<1>3. acct \in Account
  <2> HIDE DEF e
  <2> QED  BY <1>1 DEF Account
<1> HIDE DEF acct
<1> QED  BY <1>2, <1>3, UpdateAccount

(* SelfDestruct marks an account that the database has.                    *)
LEMMA SelfDestructSame ==
    ASSUME NEW d \in Database, NEW a \in Addrs
    PROVE  SameSlots(d, SelfDestruct(d, a)) /\ SameSlots(d, SelfDestruct6780(d, a))
<1>1. d.accounts[a] \in Account \cup {None}
  BY DatabaseFields
<1>2. SameSlots(d, d)
  BY DEF SameSlots
<1>3. CASE d.accounts[a] = None
  BY <1>2, <1>3 DEF SelfDestruct, SelfDestruct6780
<1>4. CASE d.accounts[a] # None
  <2> DEFINE dead == [d.accounts[a] EXCEPT !.suicided = TRUE, !.balance = 0]
             empty == [d.accounts[a] EXCEPT !.balance = 0]
  <2>1. dead \in Account /\ empty \in Account
    BY <1>1, <1>4 DEF Account
  <2>2. /\ SelfDestruct(d, a) = [d EXCEPT !.accounts[a] = dead]
        /\ SelfDestruct6780(d, a) \in {SelfDestruct(d, a), [d EXCEPT !.accounts[a] = empty]}
    BY <1>4 DEF SelfDestruct, SelfDestruct6780
  <2> HIDE DEF dead, empty
  <2>3. /\ SameSlots(d, [d EXCEPT !.accounts[a] = dead])
        /\ SameSlots(d, [d EXCEPT !.accounts[a] = empty])
    BY <2>1, SetAccount
  <2> QED  BY <2>2, <2>3
<1> QED  BY <1>3, <1>4

(* A transfer moves balance and logs.                                      *)
LEMMA TransferSame ==
    ASSUME store \in Stores, NEW d \in Database, NEW from \in Addrs, NEW to \in Addrs,
           NEW n \in Nat
    PROVE  SameSlots(d, Transfer(d, from, to, n))
<1> DEFINE e == SubBalance(d, from, n)
           f == AddBalance(e, to, n)
<1>1. SameSlots(d, e) /\ e \in Database
  BY SubBalanceSame DEF SameSlots
<1>2. SameSlots(e, f) /\ f \in Database
  <2> HIDE DEF e
  <2> QED  BY <1>1, AddBalanceSame DEF SameSlots
<1> HIDE DEF f
<1>3. SameSlots(f, AddLog(f))
  <2> DEFINE m == f.logs + 1
  <2>1. m \in Nat
    BY <1>2, DatabaseFields
  <2>2. AddLog(f) = [f EXCEPT !.logs = m]
    BY DEF AddLog
  <2> HIDE DEF m
  <2> QED  BY <1>2, <2>1, <2>2 DEF SameSlots, Database
<1>4. SameSlots(d, AddLog(f))
  BY <1>1, <1>2, <1>3, SameSlotsTransitive
<1> QED  BY <1>4 DEF Transfer, f

-----------------------------------------------------------------------------
(* The operations on slots *)

LEMMA TouchedIn ==
    ASSUME NEW d \in Database, NEW c
    PROVE  /\ Len(d.changes) \in Nat
           /\ DOMAIN d.changes = 1..Len(d.changes)
           /\ Touched(d, c) \subseteq 1..Len(d.changes)
           /\ \A i \in 1..Len(d.changes) : /\ d.changes[i].cell \in Cells
                                          /\ d.changes[i].old \in Words
                                          /\ d.changes[i].new \in Words
<1> DEFINE ch == d.changes
           T == [cell : Cells, old : Words, new : Words]
<1>1. ch \in Seq(T)
  BY DatabaseFields
<1> HIDE DEF ch, T
<1>2. /\ Len(ch) \in Nat
      /\ DOMAIN ch = 1..Len(ch)
      /\ \A i \in 1..Len(ch) : ch[i] \in T
  BY <1>1
<1> QED  BY <1>2 DEF ch, T, Touched

(* A slot is loaded where it was neither read nor written.                 *)
LEMMA LoadSlotOK ==
    ASSUME store \in Stores, task \in Tasks, NEW d \in Database, SlotsOK(d),
           NEW c \in Cells, d.storage[c] = None \/ d.committed[c] = None
    PROVE  LET e == LoadSlot(d, c)
           IN  /\ e \in Database
               /\ SlotsOK(e)
               /\ Knows(e, d)
               /\ View(e) = View(d)
               /\ Stored(c) # None => e.storage[c] # None /\ e.committed[c] # None
<1> DEFINE e == LoadSlot(d, c)
<1>1. CASE Stored(c) = None
  <2>1. e = d
    BY <1>1, LoadSlotIs
  <2> QED  BY <1>1, <2>1 DEF Knows
<1>2. CASE Stored(c) # None
  <2>1. e \in Database
    BY LoadSlotIs
  <2>2. /\ e.storage = [d.storage EXCEPT ![c] = Stored(c)]
        /\ e.committed = [d.committed EXCEPT ![c] = Stored(c)]
        /\ e.changes = d.changes
    BY <1>2, LoadSlotFields
  <2>3. /\ d.storage \in [Cells -> Words \cup {None}]
        /\ d.committed \in [Cells -> Words \cup {None}]
    BY DatabaseFields
  <2>4. d.storage[c] = None
    BY <1>2 DEF SlotsOK, SlotOK
  <2>5. View(e) = View(d)
    BY <2>4, LoadSlotView
  <2> HIDE DEF e
  <2>6. task.slots[c] = None /\ Original(c) = Stored(c)
    BY <2>4 DEF SlotsOK, SlotOK, Original
  <2>7. \A i \in DOMAIN d.changes : ~IsLast(d, c, i)
    <3> SUFFICES ASSUME NEW i \in DOMAIN d.changes, IsLast(d, c, i) PROVE FALSE
      OBVIOUS
    <3>1. d.changes[i].new = None
      BY <2>4 DEF SlotsOK, SlotOK
    <3>2. d.changes[i].new \in Words
      BY TouchedIn
    <3> QED  BY <3>1, <3>2, NoneIsNoValue
  <2>8. \A x \in Cells : Touched(e, x) = Touched(d, x)
    BY <2>2 DEF Touched
  <2>9. SlotOK(e, c)
    BY <1>2, <2>2, <2>3, <2>6, <2>7, <2>8 DEF SlotsOK, SlotOK, IsFirst, IsLast
  <2>10. ASSUME NEW x \in Cells \ {c} PROVE SlotOK(e, x)
    <3>1. e.storage[x] = d.storage[x] /\ e.committed[x] = d.committed[x]
      BY <2>2, <2>3
    <3> QED  BY <2>2, <2>8, <3>1 DEF SlotsOK, SlotOK, IsFirst, IsLast
  <2>11. Knows(e, d)
    BY <1>2, <2>2, <2>3 DEF Knows
  <2>12. e.storage[c] # None /\ e.committed[c] # None
    BY <1>2, <2>2, <2>3
  <2> QED  BY <2>1, <2>5, <2>9, <2>10, <2>11, <2>12 DEF SlotsOK, e
<1> QED  BY <1>1, <1>2

LEMMA GetStateOK ==
    ASSUME store \in Stores, task \in Tasks, NEW d \in Database, SlotsOK(d),
           NEW c \in Cells
    PROVE  LET e == GetState(d, c)
           IN  /\ e \in Database
               /\ SlotsOK(e)
               /\ Knows(e, d)
               /\ View(e) = View(d)
               /\ Stored(c) # None => e.storage[c] # None
<1>1. CASE d.storage[c] = None
  BY <1>1, LoadSlotOK DEF GetState
<1>2. CASE d.storage[c] # None
  BY <1>2 DEF GetState, Knows
<1> QED  BY <1>1, <1>2

LEMMA GetCommittedStateOK ==
    ASSUME store \in Stores, task \in Tasks, NEW d \in Database, SlotsOK(d),
           NEW c \in Cells
    PROVE  LET e == GetCommittedState(d, c)
           IN  /\ e \in Database
               /\ SlotsOK(e)
               /\ Knows(e, d)
               /\ View(e) = View(d)
               /\ Stored(c) # None => e.committed[c] # None
               /\ Stored(c) # None /\ d.storage[c] # None => e.storage[c] # None
<1>1. CASE d.committed[c] = None
  BY <1>1, LoadSlotOK DEF GetCommittedState
<1>2. CASE d.committed[c] # None
  BY <1>2 DEF GetCommittedState, Knows
<1> QED  BY <1>1, <1>2

(* A write of a slot that was read before: the change recorded starts from *)
(* the original value, or follows the last one.                            *)
LEMMA SetStateOK ==
    ASSUME store \in Stores, task \in Tasks, NEW d \in Database, SlotsOK(d),
           NEW c \in Cells, NEW w \in Words,
           Stored(c) # None => d.storage[c] # None /\ d.committed[c] # None
    PROVE  LET e == SetState(d, c, w)
           IN  /\ e \in Database
               /\ SlotsOK(e)
               /\ Knows(e, d)
<1> DEFINE e == SetState(d, c, w)
           n == Len(d.changes) + 1
           change == [cell |-> c, old |-> Word(d.storage[c]), new |-> w]
           st == [d.storage EXCEPT ![c] = w]
<1>1. /\ d.storage \in [Cells -> Words \cup {None}]
      /\ d.changes \in Seq([cell : Cells, old : Words, new : Words])
  BY DatabaseFields
<1>2. Word(d.storage[c]) \in Words
  BY <1>1 DEF Word, Words
<1>3. change \in [cell : Cells, old : Words, new : Words]
  BY <1>2
<1>4. /\ change.cell = c /\ change.old = Word(d.storage[c]) /\ change.new = w
  OBVIOUS
<1> HIDE DEF change
<1> DEFINE chs == Append(d.changes, change)
<1>5. /\ chs \in Seq([cell : Cells, old : Words, new : Words])
      /\ DOMAIN chs = 1..n
      /\ chs[n] = change
      /\ \A i \in 1..(n - 1) : chs[i] = d.changes[i]
      /\ n \in Nat \ {0}
      /\ DOMAIN d.changes = 1..(n - 1)
  BY <1>1, <1>3
<1>6. st \in [Cells -> Words \cup {None}]
  BY <1>1
<1>7. e = [d EXCEPT !.storage = st, !.changes = chs]
  BY DEF SetState, change, Database
<1> HIDE DEF n, chs, st, e
<1>8. /\ e \in Database
      /\ e.storage = st /\ e.changes = chs /\ e.committed = d.committed
  BY <1>5, <1>6, <1>7 DEF Database
<1>9. /\ st[c] = w
      /\ \A x \in Cells \ {c} : st[x] = d.storage[x]
  BY <1>1 DEF st
<1>10. Touched(e, c) = Touched(d, c) \cup {n}
  BY <1>4, <1>5, <1>8 DEF Touched
<1>11. \A x \in Cells \ {c} : Touched(e, x) = Touched(d, x)
  BY <1>4, <1>5, <1>8 DEF Touched
<1>12. Touched(d, c) \subseteq 1..(n - 1)
  BY <1>5 DEF Touched
<1>13. SlotOK(d, c)
  BY DEF SlotsOK
<1>14. w # None
  BY NoneIsNoValue
<1>15. ASSUME NEW i \in DOMAIN chs, IsFirst(e, c, i)
       PROVE  chs[i].old = Word(Original(c))
  <2>1. CASE i = n
    <3>1. Touched(d, c) = {}
      <4> SUFFICES ASSUME NEW j \in Touched(d, c) PROVE FALSE
        OBVIOUS
      <4>1. n <= j
        BY <1>10, <1>15, <2>1 DEF IsFirst
      <4> QED  BY <1>5, <1>12, <4>1
    <3>2. d.storage[c] \in {None, Original(c)}
      BY <1>13, <3>1 DEF SlotOK
    <3>3. d.storage[c] = None => Original(c) = None
      BY <1>13 DEF SlotOK, Original
    <3> QED  BY <1>4, <1>5, <2>1, <3>2, <3>3
  <2>2. CASE i # n
    <3>1. i \in Touched(d, c)
      BY <1>10, <1>15, <2>2 DEF IsFirst
    <3>2. IsFirst(d, c, i) /\ i \in 1..(n - 1)
      BY <1>10, <1>12, <1>15, <3>1 DEF IsFirst
    <3> QED  BY <1>5, <1>13, <3>2 DEF SlotOK
  <2> QED  BY <2>1, <2>2
<1>16. ASSUME NEW i \in DOMAIN chs, IsLast(e, c, i)
       PROVE  chs[i].new = st[c]
  <2>1. n <= i
    BY <1>10, <1>16 DEF IsLast
  <2>2. i = n
    BY <1>5, <2>1
  <2> QED  BY <1>4, <1>5, <1>9, <2>2
<1>17. SlotOK(e, c)
  <2>1. Touched(e, c) # {}
    BY <1>10
  <2> QED  BY <1>8, <1>9, <1>13, <1>14, <1>15, <1>16, <2>1 DEF SlotOK
<1>18. ASSUME NEW x \in Cells \ {c} PROVE SlotOK(e, x)
  <2>1. SlotOK(d, x)
    BY DEF SlotsOK
  <2>2. ASSUME NEW i \in DOMAIN chs
        PROVE  /\ IsFirst(e, x, i) => chs[i].old = Word(Original(x))
               /\ IsLast(e, x, i) => chs[i].new = st[x]
    <3>1. CASE i = n
      <4>1. i \notin Touched(d, x)
        BY <1>5, <3>1 DEF Touched
      <4> QED  BY <1>11, <4>1 DEF IsFirst, IsLast
    <3>2. CASE i # n
      <4>1. i \in DOMAIN d.changes /\ chs[i] = d.changes[i]
        BY <1>5, <3>2
      <4>2. /\ IsFirst(e, x, i) => IsFirst(d, x, i)
            /\ IsLast(e, x, i) => IsLast(d, x, i)
        BY <1>11 DEF IsFirst, IsLast
      <4> QED  BY <1>9, <2>1, <4>1, <4>2 DEF SlotOK
    <3> QED  BY <3>1, <3>2
  <2>3. e.storage[x] = d.storage[x] /\ e.committed[x] = d.committed[x]
    BY <1>8, <1>9
  <2>4. /\ e.committed[x] \in {None, Original(x)}
        /\ task.slots[x] # None => e.committed[x] # None /\ e.storage[x] # None
        /\ e.storage[x] # None /\ Stored(x) # None => e.committed[x] # None
        /\ Touched(e, x) = {} => e.storage[x] \in {None, Original(x)}
    BY <1>11, <2>1, <2>3 DEF SlotOK
  <2> QED  BY <1>8, <2>2, <2>4 DEF SlotOK
<1>19. Knows(e, d)
  BY <1>8 DEF Knows
<1> QED  BY <1>8, <1>17, <1>18, <1>19 DEF SlotsOK, e

LEMMA SStoreOK ==
    ASSUME store \in Stores, task \in Tasks, NEW d \in Database, SlotsOK(d),
           NEW c \in Cells, NEW w \in Words
    PROVE  /\ SStore(d, c, w) \in Database
           /\ SlotsOK(SStore(d, c, w))
           /\ Knows(SStore(d, c, w), d)
<1> DEFINE e == GetState(d, c)
           f == GetCommittedState(e, c)
           g == SetState(f, c, w)
<1>1. e \in Database /\ SlotsOK(e) /\ Knows(e, d) /\ (Stored(c) # None => e.storage[c] # None)
  BY GetStateOK
<1> HIDE DEF e
<1>2. /\ f \in Database /\ SlotsOK(f) /\ Knows(f, e)
      /\ Stored(c) # None => f.storage[c] # None /\ f.committed[c] # None
  BY <1>1, GetCommittedStateOK
<1> HIDE DEF f
<1>3. g \in Database /\ SlotsOK(g) /\ Knows(g, f)
  BY <1>2, SetStateOK
<1>4. Knows(g, d)
  BY <1>1, <1>2, <1>3 DEF Knows
<1> QED  BY <1>3, <1>4 DEF SStore, e, f

-----------------------------------------------------------------------------
(* The steps *)

LEMMA InitInv == Init => IInv
<1> SUFFICES ASSUME Init PROVE IInv
  OBVIOUS
<1>1. task \in Tasks /\ store \in Stores /\ ops = 0 /\ snapshots = <<>>
      /\ db = NewMemStateDB(task)
  BY DEF Init
<1>2. ASSUME NEW a \in Addrs PROVE TaskAccount(task, a) \in Account \cup {None}
  <2> DEFINE acct == task.accounts[a]
             code == task.codes[a]
  <2>1. acct \in AccountData \cup {None} /\ code \in Codes \cup {None}
    BY <1>1, TaskTyped
  <2>2. acct # None => /\ acct.balance \in Nat /\ acct.nonce \in Nat
                       /\ acct.hash \in Codes \cup {None}
    BY <2>1 DEF AccountData
  <2>3. TaskAccount(task, a) =
          CASE acct = None /\ code = None -> None
            [] acct = None /\ code # None -> Fresh(0, 0, code, code, FALSE)
            [] acct # None /\ code = None ->
                 Fresh(acct.balance, acct.nonce, None, acct.hash, FALSE)
            [] OTHER -> Fresh(acct.balance, acct.nonce, code, code, FALSE)
    BY DEF TaskAccount
  <2> HIDE DEF acct, code
  <2>4. CASE acct = None /\ code = None
    BY <2>3, <2>4
  <2>5. CASE acct = None /\ code # None
    BY <2>1, <2>3, <2>5, FreshType
  <2>6. CASE acct # None /\ code = None
    BY <2>2, <2>3, <2>6, FreshType
  <2>7. CASE acct # None /\ code # None
    <3>1. TaskAccount(task, a) = Fresh(acct.balance, acct.nonce, code, code, FALSE)
      BY <2>3, <2>7
    <3>2. acct.balance \in Nat /\ acct.nonce \in Nat
      BY <2>2, <2>7
    <3> QED  BY <2>1, <3>1, <3>2, FreshType
  <2> QED  BY <2>4, <2>5, <2>6, <2>7
<1>3. /\ db.accounts = [a \in Addrs |-> TaskAccount(task, a)]
      /\ db.storage = task.slots /\ db.committed = task.slots
      /\ db.changes = <<>> /\ db.logs = 0 /\ db.refund = 0 /\ db.warm = {}
      /\ db.transient = [c \in Cells |-> 0]
  BY <1>1 DEF NewMemStateDB
<1>4. /\ [a \in Addrs |-> TaskAccount(task, a)] \in [Addrs -> Account \cup {None}]
      /\ [c \in Cells |-> 0] \in [Cells -> Words]
      /\ task.slots \in [Cells -> Words \cup {None}]
      /\ <<>> \in Seq([cell : Cells, old : Words, new : Words])
  BY <1>1, <1>2, TaskTyped DEF Words
<1>5. db \in Database
  BY <1>1, <1>4 DEF NewMemStateDB, Database
<1>6. SlotsOK(db)
  <2> SUFFICES ASSUME NEW c \in Cells PROVE SlotOK(db, c)
    BY DEF SlotsOK
  <2>1. DOMAIN db.changes = {} /\ Touched(db, c) = {}
    BY <1>3 DEF Touched
  <2>2. db.committed[c] = task.slots[c] /\ db.storage[c] = task.slots[c]
    BY <1>3
  <2> QED  BY <2>1, <2>2 DEF SlotOK, Original
<1>7. TypeOK
  BY <1>1, <1>5, MemStateAssumption DEF TypeOK
<1>8. SnapshotsInv
  BY <1>1 DEF SnapshotsInv
<1> QED  BY <1>6, <1>7, <1>8 DEF IInv

(* An operation that keeps the slots in order keeps the invariant.         *)
LEMMA DoInv ==
    ASSUME IInv, NEW e \in Database, SlotsOK(e), Knows(e, db), Do(e)
    PROVE  IInv'
<1>1. /\ ops < MaxOps /\ ops' = ops + 1 /\ db' = e
      /\ task' = task /\ store' = store /\ snapshots' = snapshots
  BY DEF Do
<1>2. TypeOK'
  BY <1>1, MemStateAssumption DEF IInv, TypeOK
<1>3. SlotsOK(db)'
  BY <1>1 DEF SlotsOK, SlotOK, Original, Stored, Touched, IsFirst, IsLast, Word
<1>4. SnapshotsInv'
  <2> SUFFICES ASSUME NEW i \in DOMAIN snapshots
               PROVE  SlotsOK(snapshots[i])' /\ Knows(db, snapshots[i])'
    BY <1>1 DEF SnapshotsInv
  <2>1. SlotsOK(snapshots[i]) /\ Knows(db, snapshots[i])
    BY DEF IInv, SnapshotsInv
  <2>2. SlotsOK(snapshots[i])'
    BY <1>1, <2>1 DEF SlotsOK, SlotOK, Original, Stored, Touched, IsFirst, IsLast, Word
  <2>3. Knows(db, snapshots[i])'
    BY <1>1, <2>1 DEF Knows
  <2> QED  BY <2>2, <2>3
<1> QED  BY <1>2, <1>3, <1>4 DEF IInv

LEMMA DoSameSlots ==
    ASSUME IInv, NEW e, SameSlots(db, e), Do(e)
    PROVE  IInv'
<1>1. e \in Database /\ SlotsOK(e) /\ Knows(e, db)
  BY SameSlotsOK DEF SameSlots, IInv
<1> QED  BY <1>1, DoInv

LEMMA OneMoreSnapshot ==
    ASSUME NEW T, NEW s \in Seq(T), NEW e \in T
    PROVE  /\ Append(s, e) \in Seq(T)
           /\ \A i \in DOMAIN Append(s, e) :
                \/ Append(s, e)[i] = e
                \/ i \in DOMAIN s /\ Append(s, e)[i] = s[i]
<1>1. Append(s, e) \in Seq(T)
  OBVIOUS
<1>2. DOMAIN s = 1..Len(s) /\ DOMAIN Append(s, e) = 1..(Len(s) + 1)
  OBVIOUS
<1>3. \A i \in 1..Len(s) : Append(s, e)[i] = s[i]
  OBVIOUS
<1>4. Append(s, e)[Len(s) + 1] = e
  OBVIOUS
<1>5. Len(s) \in Nat
  OBVIOUS
<1>6. ASSUME NEW i \in DOMAIN Append(s, e)
      PROVE  \/ Append(s, e)[i] = e
             \/ i \in DOMAIN s /\ Append(s, e)[i] = s[i]
  <2>1. i \in 1..Len(s) \/ i = Len(s) + 1
    BY <1>2, <1>5
  <2>2. CASE i \in 1..Len(s)
    BY <1>2, <1>3, <2>2
  <2>3. CASE i = Len(s) + 1
    BY <1>4, <2>3
  <2> QED  BY <2>1, <2>2, <2>3
<1> QED  BY <1>1, <1>6

LEMMA SnapshotInv == IInv /\ Snapshot => IInv'
<1> SUFFICES ASSUME IInv, Snapshot PROVE IInv'
  OBVIOUS
<1>1. /\ ops < MaxOps /\ ops' = ops + 1 /\ snapshots' = Append(snapshots, db)
      /\ task' = task /\ store' = store /\ db' = db
  BY DEF Snapshot
<1>2. snapshots \in Seq(Database) /\ db \in Database
  BY DEF IInv, TypeOK
<1>3. /\ snapshots' \in Seq(Database)
      /\ \A i \in DOMAIN snapshots' :
           \/ snapshots'[i] = db
           \/ i \in DOMAIN snapshots /\ snapshots'[i] = snapshots[i]
  BY <1>1, <1>2, OneMoreSnapshot
<1>4. TypeOK'
  BY <1>1, <1>3, MemStateAssumption DEF IInv, TypeOK
<1>5. SlotsOK(db)'
  BY <1>1 DEF IInv, SlotsOK, SlotOK, Original, Stored, Touched, IsFirst, IsLast, Word
<1>6. SnapshotsInv'
  <2> SUFFICES ASSUME NEW i \in DOMAIN snapshots'
               PROVE  SlotsOK(snapshots[i])' /\ Knows(db, snapshots[i])'
    BY DEF SnapshotsInv
  <2>1. SlotsOK(snapshots'[i]) /\ Knows(db, snapshots'[i])
    BY <1>3 DEF IInv, SnapshotsInv, Knows
  <2>2. SlotsOK(snapshots[i])'
    BY <1>1, <2>1 DEF SlotsOK, SlotOK, Original, Stored, Touched, IsFirst, IsLast, Word
  <2>3. Knows(db, snapshots[i])'
    BY <1>1, <2>1 DEF Knows
  <2> QED  BY <2>2, <2>3
<1> QED  BY <1>4, <1>5, <1>6 DEF IInv

(* The snapshots left by a revert are the earlier ones.                    *)
LEMMA EarlierSnapshots ==
    ASSUME NEW T, NEW s \in Seq(T), NEW i \in DOMAIN s
    PROVE  /\ SubSeq(s, 1, i - 1) \in Seq(T)
           /\ DOMAIN SubSeq(s, 1, i - 1) = 1..(i - 1)
           /\ \A j \in 1..(i - 1) : j \in DOMAIN s /\ SubSeq(s, 1, i - 1)[j] = s[j]
OBVIOUS

LEMMA RevertInv == IInv /\ RevertToSnapshot => IInv'
<1> SUFFICES ASSUME IInv, RevertToSnapshot PROVE IInv'
  OBVIOUS
<1>1. /\ ops < MaxOps /\ ops' = ops + 1 /\ task' = task /\ store' = store
  BY DEF RevertToSnapshot
<1>2. PICK i \in DOMAIN snapshots :
        /\ db' = [snapshots[i] EXCEPT !.committed = db.committed]
        /\ snapshots' = SubSeq(snapshots, 1, i - 1)
  BY DEF RevertToSnapshot
<1>3. snapshots \in Seq(Database) /\ db \in Database
  BY DEF IInv, TypeOK
<1>4. /\ snapshots' \in Seq(Database)
      /\ \A j \in DOMAIN snapshots' : j \in DOMAIN snapshots /\ snapshots'[j] = snapshots[j]
  BY <1>2, <1>3, EarlierSnapshots
<1> DEFINE s == snapshots[i]
<1>5. s \in Database /\ SlotsOK(s) /\ Knows(db, s) /\ SlotsOK(db)
  <2>1. s \in Database
    BY <1>3
  <2> QED  BY <2>1 DEF IInv, SnapshotsInv
<1>5a. db' = [s EXCEPT !.committed = db.committed]
  BY <1>2
<1> HIDE DEF s
<1>6. /\ db' \in Database
      /\ db'.storage = s.storage /\ db'.changes = s.changes /\ db'.committed = db.committed
  BY <1>3, <1>5, <1>5a DEF Database
<1>7. SlotsOK(db')
  <2> SUFFICES ASSUME NEW c \in Cells PROVE SlotOK(db', c)
    BY DEF SlotsOK
  <2>1. SlotOK(s, c) /\ SlotOK(db, c) /\ (s.committed[c] # None => db.committed[c] # None)
    BY <1>5 DEF SlotsOK, Knows
  <2>2. Touched(db', c) = Touched(s, c)
    BY <1>6 DEF Touched
  <2>3. /\ db'.committed[c] \in {None, Original(c)}
        /\ task.slots[c] # None => db'.committed[c] # None /\ db'.storage[c] # None
        /\ db'.storage[c] # None /\ Stored(c) # None => db'.committed[c] # None
        /\ Touched(db', c) = {} => db'.storage[c] \in {None, Original(c)}
    BY <1>6, <2>1, <2>2 DEF SlotOK
  <2> QED  BY <1>6, <2>1, <2>2, <2>3 DEF SlotOK, IsFirst, IsLast
<1>8. TypeOK'
  BY <1>1, <1>4, <1>6, MemStateAssumption DEF IInv, TypeOK
<1>9. SlotsOK(db)'
  BY <1>1, <1>7 DEF SlotsOK, SlotOK, Original, Stored, Touched, IsFirst, IsLast, Word
<1>10. SnapshotsInv'
  <2> SUFFICES ASSUME NEW j \in DOMAIN snapshots'
               PROVE  SlotsOK(snapshots[j])' /\ Knows(db, snapshots[j])'
    BY DEF SnapshotsInv
  <2>1. SlotsOK(snapshots'[j]) /\ Knows(db, snapshots'[j])
    BY <1>4 DEF IInv, SnapshotsInv
  <2>2. SlotsOK(snapshots[j])'
    BY <1>1, <2>1 DEF SlotsOK, SlotOK, Original, Stored, Touched, IsFirst, IsLast, Word
  <2>3. Knows(db, snapshots[j])'
    BY <1>6, <2>1 DEF Knows
  <2> QED  BY <2>2, <2>3
<1> QED  BY <1>8, <1>9, <1>10 DEF IInv

LEMMA StepInv == IInv /\ [Next]_vars => IInv'
<1> SUFFICES ASSUME IInv, [Next]_vars PROVE IInv'
  OBVIOUS
<1>0. store \in Stores /\ task \in Tasks /\ db \in Database /\ SlotsOK(db)
  BY DEF IInv, TypeOK
<1>1. CASE ReadAccount
  <2>1. PICK a \in Addrs : Do(LoadAccount(db, a))
    BY <1>1 DEF ReadAccount
  <2>2. SameSlots(db, LoadAccount(db, a))
    BY <1>0, LoadAccountSameSlots
  <2> QED  BY <2>1, <2>2, DoSameSlots
<1>2. CASE ReadSlot
  <2>1. PICK c \in Cells : Do(GetState(db, c)) \/ Do(GetCommittedState(db, c))
    BY <1>2 DEF ReadSlot
  <2>2. CASE Do(GetState(db, c))
    BY <1>0, <2>2, GetStateOK, DoInv
  <2>3. CASE Do(GetCommittedState(db, c))
    BY <1>0, <2>3, GetCommittedStateOK, DoInv
  <2> QED  BY <2>1, <2>2, <2>3
<1>3. CASE WriteAccount
  <2>1. PICK a \in Addrs :
          \/ Do(GetOrCreateAccount(db, a))
          \/ Do(CreateContract(db, a))
          \/ Do(SetNonce(db, a, 1))
          \/ \E code \in Codes \cup {None} : Do(SetCode(db, a, code))
    BY <1>3 DEF WriteAccount
  <2>2. CASE Do(GetOrCreateAccount(db, a))
    BY <1>0, <2>2, GetOrCreate, DoSameSlots
  <2>3. CASE Do(CreateContract(db, a))
    BY <1>0, <2>3, CreateContractSame, DoSameSlots
  <2>4. CASE Do(SetNonce(db, a, 1))
    BY <1>0, <2>4, SetNonceSame, DoSameSlots
  <2>5. CASE \E code \in Codes \cup {None} : Do(SetCode(db, a, code))
    BY <1>0, <2>5, SetCodeSame, DoSameSlots
  <2> QED  BY <2>1, <2>2, <2>3, <2>4, <2>5
<1>4. CASE Destruct
  <2>1. PICK a \in Addrs : Do(SelfDestruct(db, a)) \/ Do(SelfDestruct6780(db, a))
    BY <1>4 DEF Destruct
  <2>2. SameSlots(db, SelfDestruct(db, a)) /\ SameSlots(db, SelfDestruct6780(db, a))
    BY <1>0, SelfDestructSame
  <2> QED  BY <2>1, <2>2, DoSameSlots
<1>5. CASE WriteSlot
  <2>1. PICK c \in Cells, w \in Words : Do(SStore(db, c, w))
    BY <1>5 DEF WriteSlot
  <2> QED  BY <1>0, <2>1, SStoreOK, DoInv
<1>6. CASE MoveValue
  <2>1. PICK from \in Addrs, to \in Addrs : Do(Transfer(db, from, to, 1))
    BY <1>6 DEF MoveValue
  <2>2. SameSlots(db, Transfer(db, from, to, 1))
    BY <1>0, TransferSame
  <2> QED  BY <2>1, <2>2, DoSameSlots
<1>7. CASE WriteRefund
  <2> DEFINE more == db.refund + 1
             less == db.refund - 1
  <2>1. \/ Do([db EXCEPT !.refund = more])
        \/ db.refund > 0 /\ Do([db EXCEPT !.refund = less])
    BY <1>7 DEF WriteRefund
  <2>2. more \in Nat /\ (db.refund > 0 => less \in Nat)
    BY <1>0, DatabaseFields
  <2> HIDE DEF more, less
  <2>3. ASSUME NEW m \in Nat PROVE SameSlots(db, [db EXCEPT !.refund = m])
    BY <1>0 DEF SameSlots, Database
  <2> QED  BY <2>1, <2>2, <2>3, DoSameSlots
<1>8. CASE WarmAccess
  <2>1. PICK more \in SUBSET (Addrs \cup Cells) : Do([db EXCEPT !.warm = @ \cup more])
    <3>1. CASE \E a \in Addrs : Do([db EXCEPT !.warm = @ \cup {a}])
      BY <3>1
    <3>2. CASE \E c \in Cells : Do([db EXCEPT !.warm = @ \cup {c[1], c}])
      <4>1. PICK c \in Cells : Do([db EXCEPT !.warm = @ \cup {c[1], c}])
        BY <3>2
      <4>2. {c[1], c} \in SUBSET (Addrs \cup Cells)
        BY DEF Cells
      <4> QED  BY <4>1, <4>2
    <3> QED  BY <1>8, <3>1, <3>2 DEF WarmAccess
  <2> DEFINE warm == db.warm \cup more
  <2>2. warm \in SUBSET (Addrs \cup Cells)
    BY <1>0, DatabaseFields
  <2>3. Do([db EXCEPT !.warm = warm])
    BY <2>1
  <2> HIDE DEF warm
  <2>4. SameSlots(db, [db EXCEPT !.warm = warm])
    BY <1>0, <2>2 DEF SameSlots, Database
  <2> QED  BY <2>3, <2>4, DoSameSlots
<1>9. CASE WriteTransient
  <2>1. PICK c \in Cells, w \in Words : Do([db EXCEPT !.transient[c] = w])
    BY <1>9 DEF WriteTransient
  <2> DEFINE tr == [db.transient EXCEPT ![c] = w]
  <2>2. tr \in [Cells -> Words]
    BY <1>0, DatabaseFields
  <2>3. Do([db EXCEPT !.transient = tr])
    BY <2>1
  <2> HIDE DEF tr
  <2>4. SameSlots(db, [db EXCEPT !.transient = tr])
    BY <1>0, <2>2 DEF SameSlots, Database
  <2> QED  BY <2>3, <2>4, DoSameSlots
<1>10. CASE Snapshot
  BY <1>10, SnapshotInv
<1>11. CASE RevertToSnapshot
  BY <1>11, RevertInv
<1>12. CASE UNCHANGED vars
  <2>1. /\ task' = task /\ store' = store /\ db' = db /\ snapshots' = snapshots
        /\ ops' = ops
    BY <1>12 DEF vars
  <2>2. TypeOK'
    BY <2>1 DEF IInv, TypeOK
  <2>3. SlotsOK(db)'
    BY <2>1 DEF IInv, SlotsOK, SlotOK, Original, Stored, Touched, IsFirst, IsLast, Word
  <2>4. SnapshotsInv'
    BY <2>1 DEF IInv, SnapshotsInv, Knows, SlotsOK, SlotOK, Original, Stored, Touched,
                IsFirst, IsLast, Word
  <2> QED  BY <2>2, <2>3, <2>4 DEF IInv
<1> QED
  BY <1>1, <1>2, <1>3, <1>4, <1>5, <1>6, <1>7, <1>8, <1>9, <1>10, <1>11, <1>12 DEF Next

-----------------------------------------------------------------------------
(* The theorems *)

(* The strengthened invariant holds of every execution.                    *)
THEOREM Invariance == Spec => []IInv
BY InitInv, StepInv, PTL DEF Spec

(* The maps keep their types: balances, nonces and refund stay natural     *)
(* numbers, and no recorded change has a nil value (statedb.go).           *)
THEOREM TypeCorrect == Spec => []TypeOK
BY Invariance, PTL DEF IInv

(* Reading changes nothing that is seen (statedb.go loadAccountFromStore,  *)
(* loadSlotFromStore): the store's value goes where nothing was.           *)
THEOREM TransparentReads == Spec => ReadsAreTransparent
<1>1. ASSUME IInv, ReadAccount \/ ReadSlot PROVE View(db)' = View(db)
  <2>0. store \in Stores /\ task \in Tasks /\ db \in Database /\ SlotsOK(db)
    BY <1>1 DEF IInv, TypeOK
  <2>1. PICK e : Do(e) /\ View(e) = View(db)
    <3>1. CASE ReadAccount
      <4>1. PICK a \in Addrs : Do(LoadAccount(db, a))
        BY <3>1 DEF ReadAccount
      <4> QED  BY <2>0, <4>1, LoadAccountView
    <3>2. CASE ReadSlot
      <4>1. PICK c \in Cells : Do(GetState(db, c)) \/ Do(GetCommittedState(db, c))
        BY <3>2 DEF ReadSlot
      <4>2. View(GetState(db, c)) = View(db) /\ View(GetCommittedState(db, c)) = View(db)
        BY <2>0, GetStateOK, GetCommittedStateOK
      <4> QED  BY <4>1, <4>2
    <3> QED  BY <1>1, <3>1, <3>2
  <2>2. db' = e /\ store' = store
    BY <2>1 DEF Do
  <2>3. View(db)' = View(e)
    BY <2>2 DEF View, SeenAccount, SeenSlot, LoadAccount, StoreAccount, GetState, LoadSlot,
                Fresh, Word
  <2> QED  BY <2>1, <2>3
<1>2. IInv /\ [Next]_vars => [ReadAccount \/ ReadSlot => View(db)' = View(db)]_vars
  BY <1>1
<1> QED  BY <1>2, Invariance, PTL DEF Spec, ReadsAreTransparent

(* The writes of a slot have a first and a last.                           *)
LEMMA LeastExists ==
    ASSUME NEW S \in SUBSET Nat, S # {}
    PROVE  \E i \in S : \A j \in S : i <= j
<1> DEFINE Less == OpToRel(<, Nat)
<1>1. \E x \in S : \A y \in S : <<y, x>> \notin Less
  <2> HIDE DEF Less
  <2> QED  BY NatLessThanWellFounded, WFMin DEF Less
<1>2. PICK x \in S : \A y \in S : <<y, x>> \notin Less
  BY <1>1
<1>3. ASSUME NEW j \in S PROVE x <= j
  <2>1. ~(j < x)
    BY <1>2 DEF OpToRel
  <2> QED  BY <2>1
<1> QED  BY <1>3

LEMMA FirstAndLast ==
    ASSUME NEW d \in Database, NEW c, Touched(d, c) # {}
    PROVE  /\ \E i \in DOMAIN d.changes : IsFirst(d, c, i) /\ FirstOld(d, c) = d.changes[i].old
           /\ \E i \in DOMAIN d.changes : IsLast(d, c, i) /\ LastNew(d, c) = d.changes[i].new
<1> DEFINE n == Len(d.changes)
           S == Touched(d, c)
           FromEnd == {n - i : i \in S}
<1>1. n \in Nat /\ S \subseteq 1..n /\ DOMAIN d.changes = 1..n
  BY TouchedIn
<1>2. S # {}
  OBVIOUS
<1> HIDE DEF n, S
<1>3. \E i \in S : \A j \in S : i <= j
  BY <1>1, <1>2, LeastExists
<1>4. \E i \in S : \A j \in S : j <= i
  <2>1. FromEnd \in SUBSET Nat /\ FromEnd # {}
    <3>1. \A i \in S : n - i \in Nat
      BY <1>1
    <3>2. FromEnd \in SUBSET Nat
      BY <3>1
    <3>3. FromEnd # {}
      BY <1>2
    <3> QED  BY <3>2, <3>3
  <2>2. PICK k \in FromEnd : \A j \in FromEnd : k <= j
    <3> HIDE DEF FromEnd
    <3> QED  BY <2>1, LeastExists
  <2>3. PICK i \in S : k = n - i
    BY <2>2
  <2>4. \A j \in S : n - i <= n - j
    BY <2>2, <2>3
  <2>5. \A j \in S : j <= i
    BY <1>1, <2>4
  <2> QED  BY <2>5
<1>5. LET i == CHOOSE i \in S : \A j \in S : i <= j
      IN  i \in S /\ \A j \in S : i <= j
  BY <1>3
<1>6. LET i == CHOOSE i \in S : \A j \in S : j <= i
      IN  i \in S /\ \A j \in S : j <= i
  BY <1>4
<1> QED  BY <1>1, <1>5, <1>6 DEF S, IsFirst, IsLast, FirstOld, LastNew

(* What is reported of a slot is what was seen before and is seen now.     *)
LEMMA SlotReported ==
    ASSUME IInv, NEW c \in Cells
    PROVE  /\ SeenOriginal(db, c) = Word(Original(c))
           /\ SeenOriginal(db, c) \in Words /\ SeenSlot(db, c) \in Words
           /\ Touched(db, c) = {} => SeenSlot(db, c) = Word(Original(c))
           /\ Touched(db, c) # {} => /\ FirstOld(db, c) = Word(Original(c))
                                     /\ LastNew(db, c) = SeenSlot(db, c)
<1>0. store \in Stores /\ task \in Tasks /\ db \in Database /\ SlotOK(db, c)
  BY DEF IInv, TypeOK, SlotsOK
<1>1. Stored(c) \in Words \cup {None} /\ task.slots[c] \in Words \cup {None}
  BY <1>0, StoredType, TaskTyped
<1>2. db.storage[c] \in Words \cup {None} /\ db.committed[c] \in Words \cup {None}
  BY <1>0, DatabaseFields
<1>3. \A w \in Words \cup {None} : Word(w) \in Words
  BY DEF Word, Words
<1>4. SeenOriginal(db, c) = Word(IF db.committed[c] = None THEN Stored(c) ELSE db.committed[c])
  BY <1>0, SeenOriginalIs
<1>5. SeenSlot(db, c) = Word(IF db.storage[c] = None THEN Stored(c) ELSE db.storage[c])
  BY <1>0, SeenSlotIs
<1>6. SeenOriginal(db, c) = Word(Original(c))
  BY <1>0, <1>4 DEF SlotOK, Original
<1>7. SeenOriginal(db, c) \in Words /\ SeenSlot(db, c) \in Words
  BY <1>1, <1>2, <1>3, <1>4, <1>5
<1>8. Touched(db, c) = {} => SeenSlot(db, c) = Word(Original(c))
  BY <1>0, <1>5 DEF SlotOK, Original
<1>9. ASSUME Touched(db, c) # {}
      PROVE  FirstOld(db, c) = Word(Original(c)) /\ LastNew(db, c) = SeenSlot(db, c)
  <2>1. PICK i \in DOMAIN db.changes :
          IsFirst(db, c, i) /\ FirstOld(db, c) = db.changes[i].old
    BY <1>0, <1>9, FirstAndLast
  <2>2. PICK k \in DOMAIN db.changes :
          IsLast(db, c, k) /\ LastNew(db, c) = db.changes[k].new
    BY <1>0, <1>9, FirstAndLast
  <2>3. db.changes[k].new \in Words /\ None \notin Words
    BY <1>0, TouchedIn, NoneIsNoValue
  <2>4. db.changes[k].new = db.storage[c]
    BY <1>0, <2>2 DEF SlotOK
  <2>5. SeenSlot(db, c) = db.storage[c]
    BY <1>5, <2>3, <2>4 DEF Word
  <2> QED  BY <1>0, <2>1, <2>2, <2>4, <2>5 DEF SlotOK
<1> QED  BY <1>6, <1>7, <1>8, <1>9

(* The changes sent to the coordinator are exactly the slots that differ   *)
(* from what they were, with the value they had (statedb.go SetState,      *)
(* GetStateChanges), whatever was reverted and wherever the slot came from. *)
THEOREM ExactChanges == Spec => []ChangesAreExact
<1>1. IInv => ChangesAreExact
  <2> SUFFICES ASSUME IInv PROVE ChangesAreExact
    OBVIOUS
  <2> DEFINE Reported(c) == [cell |-> c, old |-> FirstOld(db, c), new |-> LastNew(db, c)]
             Differ == {ch \in [cell : Cells, old : Words, new : Words] :
                          /\ ch.old = SeenOriginal(db, ch.cell)
                          /\ ch.new = SeenSlot(db, ch.cell)
                          /\ ch.old # ch.new}
  <2>1. ASSUME NEW ch \in GetStateChanges(db) PROVE ch \in Differ
    <3>1. PICK c \in Cells : /\ Touched(db, c) # {} /\ ch = Reported(c)
                             /\ ch.old # ch.new
      BY DEF GetStateChanges
    <3>2. /\ FirstOld(db, c) = SeenOriginal(db, c) /\ LastNew(db, c) = SeenSlot(db, c)
          /\ SeenOriginal(db, c) \in Words /\ SeenSlot(db, c) \in Words
      BY <3>1, SlotReported
    <3> QED  BY <3>1, <3>2
  <2>2. ASSUME NEW ch \in Differ PROVE ch \in GetStateChanges(db)
    <3>1. ch.cell \in Cells /\ ch = [cell |-> ch.cell, old |-> ch.old, new |-> ch.new]
      OBVIOUS
    <3>2. Touched(db, ch.cell) # {}
      BY <3>1, SlotReported
    <3>3. ch.old = FirstOld(db, ch.cell) /\ ch.new = LastNew(db, ch.cell)
      BY <3>1, <3>2, SlotReported
    <3> QED  BY <3>1, <3>2, <3>3 DEF GetStateChanges
  <2> QED  BY <2>1, <2>2 DEF ChangesAreExact
<1> QED  BY <1>1, Invariance, PTL

-----------------------------------------------------------------------------
(* The database implements a journaled state *)

(* Sequences with the same elements are equal.                             *)
LEMMA SameElements ==
    ASSUME NEW T, NEW s \in Seq(T), NEW t \in Seq(T), DOMAIN s = DOMAIN t,
           \A i \in DOMAIN s : s[i] = t[i]
    PROVE  s = t
OBVIOUS

(* The journal of a sequence of snapshots.                                 *)
Journal(s) == [i \in DOMAIN s |-> View(s[i])]

Views == {View(d) : d \in Database}

LEMMA JournalType ==
    ASSUME NEW s \in Seq(Database)
    PROVE  Journal(s) \in Seq(Views) /\ DOMAIN Journal(s) = DOMAIN s
           /\ \A i \in DOMAIN s : Journal(s)[i] = View(s[i])
<1>1. Len(s) \in Nat /\ DOMAIN s = 1..Len(s)
  OBVIOUS
<1>2. \A i \in DOMAIN s : s[i] \in Database
  OBVIOUS
<1>3. Journal(s) \in [1..Len(s) -> Views]
  BY <1>1, <1>2 DEF Journal, Views
<1> QED  BY <1>1, <1>3 DEF Journal

LEMMA JournalAppend ==
    ASSUME NEW s \in Seq(Database), NEW e \in Database
    PROVE  Journal(Append(s, e)) = Append(Journal(s), View(e))
<1> DEFINE l == Append(s, e)
           a == Journal(l)
           b == Append(Journal(s), View(e))
<1>1. /\ Journal(s) \in Seq(Views) /\ DOMAIN Journal(s) = DOMAIN s
      /\ \A i \in DOMAIN s : Journal(s)[i] = View(s[i])
  BY JournalType
<1>2. View(e) \in Views
  BY DEF Views
<1>3. l \in Seq(Database)
  OBVIOUS
<1>4. a \in Seq(Views) /\ DOMAIN a = DOMAIN l
      /\ \A i \in DOMAIN l : a[i] = View(l[i])
  <2> HIDE DEF l
  <2> QED  BY <1>3, JournalType
<1>5. Len(s) \in Nat /\ DOMAIN s = 1..Len(s)
  OBVIOUS
<1>6. DOMAIN l = 1..(Len(s) + 1) /\ l[Len(s) + 1] = e /\ \A i \in 1..Len(s) : l[i] = s[i]
  OBVIOUS
<1> HIDE DEF l, a, Views, Journal, View
<1>7. Len(Journal(s)) = Len(s)
  BY <1>1, <1>5
<1>8. /\ b \in Seq(Views) /\ DOMAIN b = 1..(Len(s) + 1) /\ b[Len(s) + 1] = View(e)
      /\ \A i \in 1..Len(s) : b[i] = Journal(s)[i]
  BY <1>1, <1>2, <1>5, <1>7
<1> HIDE DEF b
<1>9. ASSUME NEW i \in 1..(Len(s) + 1) PROVE a[i] = b[i]
  <2>1. CASE i = Len(s) + 1
    BY <1>4, <1>6, <1>8, <2>1
  <2>2. CASE i \in 1..Len(s)
    BY <1>1, <1>4, <1>5, <1>6, <1>8, <2>2
  <2> QED  BY <1>5, <2>1, <2>2
<1>10. a = b
  BY <1>4, <1>6, <1>8, <1>9, SameElements
<1> QED  BY <1>10 DEF a, b, l

LEMMA JournalCut ==
    ASSUME NEW s \in Seq(Database), NEW i \in DOMAIN s
    PROVE  Journal(SubSeq(s, 1, i - 1)) = SubSeq(Journal(s), 1, i - 1)
<1> DEFINE l == SubSeq(s, 1, i - 1)
           a == Journal(l)
           b == SubSeq(Journal(s), 1, i - 1)
<1>1. /\ Journal(s) \in Seq(Views) /\ DOMAIN Journal(s) = DOMAIN s
      /\ \A j \in DOMAIN s : Journal(s)[j] = View(s[j])
  BY JournalType
<1>2. l \in Seq(Database) /\ DOMAIN l = 1..(i - 1)
      /\ \A j \in 1..(i - 1) : j \in DOMAIN s /\ l[j] = s[j]
  BY EarlierSnapshots
<1> HIDE DEF l
<1>3. a \in Seq(Views) /\ DOMAIN a = DOMAIN l
      /\ \A j \in DOMAIN l : a[j] = View(l[j])
  BY <1>2, JournalType
<1> HIDE DEF a, Views, Journal, View
<1>4. i \in DOMAIN Journal(s)
  BY <1>1
<1>5. b \in Seq(Views) /\ DOMAIN b = 1..(i - 1)
      /\ \A j \in 1..(i - 1) : b[j] = Journal(s)[j]
  BY <1>1, <1>4, EarlierSnapshots
<1> HIDE DEF b
<1>6. \A j \in 1..(i - 1) : a[j] = b[j]
  BY <1>1, <1>2, <1>3, <1>5
<1>7. a = b
  BY <1>2, <1>3, <1>5, <1>6, SameElements
<1> QED  BY <1>7 DEF a, b, l

(* The store is fixed: what a database shows does not change with it.      *)
LEMMA SnapshotsSeen ==
    ASSUME store' = store
    PROVE  Journal(snapshots)' = Journal(snapshots') /\ View(db)' = View(db')
BY DEF Journal, View, SeenAccount, SeenSlot, LoadAccount, StoreAccount, GetState,
       LoadSlot, Fresh, Word

LEMMA DoIsWrite == ASSUME NEW e, Do(e) PROVE Journal(snapshots)' = Journal(snapshots)
BY SnapshotsSeen DEF Do, Journal

LEMMA OperationIsWrite ==
    ASSUME \/ ReadAccount \/ ReadSlot \/ WriteAccount \/ Destruct \/ WriteSlot
           \/ MoveValue \/ WriteRefund \/ WarmAccess \/ WriteTransient
    PROVE  Journal(snapshots)' = Journal(snapshots)
<1>1. \E e : Do(e)
  BY DEF ReadAccount, ReadSlot, WriteAccount, Destruct, WriteSlot, MoveValue, WriteRefund,
         WarmAccess, WriteTransient
<1> QED  BY <1>1, DoIsWrite

LEMMA SnapshotJournals ==
    ASSUME IInv, Snapshot
    PROVE  /\ Journal(snapshots)' = Append(Journal(snapshots), View(db))
           /\ View(db)' = View(db)
<1>1. snapshots \in Seq(Database) /\ db \in Database
  BY DEF IInv, TypeOK
<1>2. snapshots' = Append(snapshots, db) /\ db' = db /\ store' = store
  BY DEF Snapshot
<1>3. Journal(snapshots)' = Journal(snapshots') /\ View(db)' = View(db')
  BY <1>2, SnapshotsSeen
<1>4. Journal(Append(snapshots, db)) = Append(Journal(snapshots), View(db))
  BY <1>1, JournalAppend
<1> HIDE DEF Journal, View
<1> QED  BY <1>2, <1>3, <1>4

LEMMA RevertRestores ==
    ASSUME IInv, RevertToSnapshot
    PROVE  \E i \in DOMAIN Journal(snapshots) :
              /\ View(db)' = Journal(snapshots)[i]
              /\ Journal(snapshots)' = SubSeq(Journal(snapshots), 1, i - 1)
<1>1. snapshots \in Seq(Database) /\ db \in Database /\ store \in Stores
  BY DEF IInv, TypeOK
<1>2. PICK i \in DOMAIN snapshots :
        /\ db' = [snapshots[i] EXCEPT !.committed = db.committed]
        /\ snapshots' = SubSeq(snapshots, 1, i - 1)
  BY DEF RevertToSnapshot
<1>3. Journal(snapshots)' = Journal(snapshots') /\ View(db)' = View(db')
  BY SnapshotsSeen DEF RevertToSnapshot
<1>4. snapshots[i] \in Database
  BY <1>1
<1>5. View([snapshots[i] EXCEPT !.committed = db.committed]) = View(snapshots[i])
  BY <1>1, <1>4, RevertedView
<1>6. Journal(SubSeq(snapshots, 1, i - 1)) = SubSeq(Journal(snapshots), 1, i - 1)
  BY <1>1, JournalCut
<1>7. i \in DOMAIN Journal(snapshots) /\ Journal(snapshots)[i] = View(snapshots[i])
  BY <1>1, JournalType
<1> HIDE DEF Journal, View
<1>8. View(db)' = Journal(snapshots)[i]
  BY <1>2, <1>3, <1>5, <1>7
<1>9. Journal(snapshots)' = SubSeq(Journal(snapshots), 1, i - 1)
  BY <1>2, <1>3, <1>6
<1> QED  BY <1>7, <1>8, <1>9

(* A revert restores exactly what was visible at the snapshot (statedb.go  *)
(* Snapshot, RevertToSnapshot), although accounts and slots cached from the *)
(* store come and go with it and the original values stay.                 *)
THEOREM RevertsRestore == Spec => RevertRestoresView
<1>1. Init => Journal(snapshots) = <<>>
  BY DEF Init, Journal
<1>2. ASSUME IInv, [Next]_vars
      PROVE  \/ Journal(snapshots)' = Journal(snapshots)
             \/ /\ Journal(snapshots)' = Append(Journal(snapshots), View(db))
                /\ View(db)' = View(db)
             \/ \E i \in DOMAIN Journal(snapshots) :
                   /\ View(db)' = Journal(snapshots)[i]
                   /\ Journal(snapshots)' = SubSeq(Journal(snapshots), 1, i - 1)
  <2>1. CASE Snapshot
    BY <1>2, <2>1, SnapshotJournals
  <2>2. CASE RevertToSnapshot
    BY <1>2, <2>2, RevertRestores
  <2>3. CASE UNCHANGED vars
    <3>1. Journal(snapshots)' = Journal(snapshots') /\ snapshots' = snapshots
      BY <2>3, SnapshotsSeen DEF vars
    <3> QED  BY <3>1 DEF Journal
  <2> QED  BY <1>2, <2>1, <2>2, <2>3, OperationIsWrite DEF Next
<1>3. Init => [i \in DOMAIN snapshots |-> View(snapshots[i])] = <<>>
  BY <1>1 DEF Journal
<1>4. IInv /\ [Next]_vars => [J!Next]_J!vars
  BY <1>2 DEF J!Next, J!Write, J!Snapshot, J!Revert, Journal
<1> QED  BY <1>3, <1>4, Invariance, PTL DEF Spec, RevertRestoresView, J!Spec

-----------------------------------------------------------------------------
(* Transfers: what one does to each account *)

LEMMA GetOrCreateIs ==
    ASSUME store \in Stores, NEW d \in Database, NEW a \in Addrs
    PROVE  LET e == GetOrCreateAccount(d, a)
           IN  /\ e \in Database
               /\ e.accounts[a] \in Account
               /\ e.accounts[a].balance = Balance(d, a)
               /\ \A b \in Addrs \ {a} : e.accounts[b] = d.accounts[b]
<1> DEFINE l == LoadAccount(d, a)
           e == GetOrCreateAccount(d, a)
           fresh == Fresh(0, 0, None, None, TRUE)
<1>1. e \in Database /\ e.accounts[a] \in Account
  BY GetOrCreate DEF SameSlots
<1>2. l \in Database /\ \A b \in Addrs \ {a} : l.accounts[b] = d.accounts[b]
  BY LoadAccountIs
<1>3. l.accounts \in [Addrs -> Account \cup {None}]
  BY <1>2, DatabaseFields
<1>4. SeenAccount(d, a) = l.accounts[a]
  BY DEF SeenAccount
<1>5. CASE l.accounts[a] = None
  <2>1. e = [l EXCEPT !.accounts[a] = fresh]
    BY <1>5 DEF GetOrCreateAccount
  <2> HIDE DEF l
  <2>2. e.accounts = [l.accounts EXCEPT ![a] = fresh]
    BY <1>2, <2>1 DEF Database
  <2>3. e.accounts[a] = fresh /\ \A b \in Addrs \ {a} : e.accounts[b] = l.accounts[b]
    BY <1>3, <2>2
  <2>4. fresh.balance = 0 /\ Balance(d, a) = 0
    BY <1>4, <1>5 DEF Balance, Fresh
  <2> HIDE DEF e, fresh
  <2> QED  BY <1>1, <1>2, <2>3, <2>4 DEF e
<1>6. CASE l.accounts[a] # None
  <2>1. e = l
    BY <1>6 DEF GetOrCreateAccount
  <2>2. Balance(d, a) = l.accounts[a].balance
    BY <1>4, <1>6 DEF Balance
  <2> HIDE DEF e, l
  <2> QED  BY <1>1, <1>2, <2>1, <2>2 DEF e
<1> QED  BY <1>5, <1>6

(* An account is given another balance: what is seen of the others stays.  *)
LEMMA SetBalance ==
    ASSUME store \in Stores, NEW d \in Database, NEW a \in Addrs, NEW m \in Nat
    PROVE  LET e == [GetOrCreateAccount(d, a) EXCEPT !.accounts[a].balance = m]
           IN  /\ e \in Database
               /\ Balance(e, a) = m
               /\ \A b \in Addrs \ {a} : SeenAccount(e, b) = SeenAccount(d, b)
<1> DEFINE g == GetOrCreateAccount(d, a)
           acct == [g.accounts[a] EXCEPT !.balance = m]
           e == [g EXCEPT !.accounts[a] = acct]
<1>1. /\ g \in Database /\ g.accounts[a] \in Account
      /\ \A b \in Addrs \ {a} : g.accounts[b] = d.accounts[b]
  BY GetOrCreateIs
<1>2. [g EXCEPT !.accounts[a].balance = m] = e
  OBVIOUS
<1> HIDE DEF g
<1>3. acct \in Account /\ acct.balance = m
  BY <1>1 DEF Account
<1> HIDE DEF acct
<1>4. e \in Database
  BY <1>1, <1>3, SetAccount DEF SameSlots
<1>5. g.accounts \in [Addrs -> Account \cup {None}]
  BY <1>1, DatabaseFields
<1>6. e.accounts = [g.accounts EXCEPT ![a] = acct]
  BY <1>1 DEF Database
<1>7. e.accounts[a] = acct /\ \A b \in Addrs \ {a} : e.accounts[b] = d.accounts[b]
  BY <1>1, <1>5, <1>6
<1> HIDE DEF e
<1>8. acct # None
  BY <1>3, NoneIsNoValue
<1>9. Balance(e, a) = m
  BY <1>3, <1>4, <1>7, <1>8, SeenAccountIs DEF Balance
<1>10. \A b \in Addrs \ {a} : SeenAccount(e, b) = SeenAccount(d, b)
  BY <1>4, <1>7, SeenAccountIs
<1> QED  BY <1>2, <1>4, <1>9, <1>10 DEF g

LEMMA BalanceType ==
    ASSUME store \in Stores, NEW d \in Database, NEW a \in Addrs
    PROVE  Balance(d, a) \in Nat
<1>1. SeenAccount(d, a) \in Account \cup {None}
  BY SeenAccountIs, StoreAccountType, DatabaseFields
<1> QED  BY <1>1 DEF Balance, Account

LEMMA SubBalanceIs ==
    ASSUME store \in Stores, NEW d \in Database, NEW a \in Addrs, NEW n \in Nat
    PROVE  LET e == SubBalance(d, a, n)
           IN  /\ e \in Database
               /\ Balance(e, a) = IF Balance(d, a) < n THEN 0 ELSE Balance(d, a) - n
               /\ \A b \in Addrs \ {a} : SeenAccount(e, b) = SeenAccount(d, b)
<1> DEFINE g == GetOrCreateAccount(d, a)
           m == IF Balance(d, a) < n THEN 0 ELSE Balance(d, a) - n
<1>1. m \in Nat
  BY BalanceType
<1>2. g.accounts[a].balance = Balance(d, a)
  BY GetOrCreateIs
<1> DEFINE e == [g EXCEPT !.accounts[a].balance = m]
<1>3. SubBalance(d, a, n) = e
  BY <1>2 DEF SubBalance
<1> HIDE DEF m
<1>4. /\ e \in Database /\ Balance(e, a) = m
      /\ \A b \in Addrs \ {a} : SeenAccount(e, b) = SeenAccount(d, b)
  BY <1>1, SetBalance
<1> HIDE DEF e
<1> QED  BY <1>3, <1>4 DEF m

LEMMA AddBalanceIs ==
    ASSUME store \in Stores, NEW d \in Database, NEW a \in Addrs, NEW n \in Nat
    PROVE  LET e == AddBalance(d, a, n)
           IN  /\ e \in Database
               /\ Balance(e, a) = (Balance(d, a) + n) % Modulus
               /\ \A b \in Addrs \ {a} : SeenAccount(e, b) = SeenAccount(d, b)
<1> DEFINE g == GetOrCreateAccount(d, a)
           m == (Balance(d, a) + n) % Modulus
<1>1. m \in Nat
  BY BalanceType, MemStateAssumption
<1>2. g.accounts[a].balance = Balance(d, a)
  BY GetOrCreateIs
<1> DEFINE e == [g EXCEPT !.accounts[a].balance = m]
<1>3. AddBalance(d, a, n) = e
  BY <1>2 DEF AddBalance
<1> HIDE DEF m
<1>4. /\ e \in Database /\ Balance(e, a) = m
      /\ \A b \in Addrs \ {a} : SeenAccount(e, b) = SeenAccount(d, b)
  BY <1>1, SetBalance
<1> HIDE DEF e
<1> QED  BY <1>3, <1>4 DEF m

(* A transfer the sender can pay takes the amount from the sender, gives   *)
(* it to the receiver, up to the width of a balance, and touches no other  *)
(* account (evm.go canTransfer, iotexTransfer).                            *)
THEOREM TransferMoves ==
    ASSUME store \in Stores, NEW d \in Database, NEW from \in Addrs, NEW to \in Addrs,
           NEW n \in Nat, CanTransfer(d, from, n)
    PROVE  LET e == Transfer(d, from, to, n)
           IN  /\ from # to => /\ Balance(e, from) = Balance(d, from) - n
                               /\ Balance(e, to) = (Balance(d, to) + n) % Modulus
               /\ from = to => Balance(e, to) = Balance(d, to) % Modulus
               /\ \A a \in Addrs \ {from, to} : SeenAccount(e, a) = SeenAccount(d, a)
<1> DEFINE p == SubBalance(d, from, n)
           q == AddBalance(p, to, n)
           e == AddLog(q)
<1>1. Balance(d, from) >= n
  BY DEF CanTransfer, Balance, SeenAccount
<1>2. Balance(d, from) \in Nat
  BY BalanceType
<1>3. /\ p \in Database
      /\ Balance(p, from) = Balance(d, from) - n
      /\ \A a \in Addrs \ {from} : SeenAccount(p, a) = SeenAccount(d, a)
  BY <1>1, <1>2, SubBalanceIs
<1> HIDE DEF p
<1>4. /\ q \in Database
      /\ Balance(q, to) = (Balance(p, to) + n) % Modulus
      /\ \A a \in Addrs \ {to} : SeenAccount(q, a) = SeenAccount(p, a)
  BY <1>3, AddBalanceIs
<1> HIDE DEF q
<1>5. \A a \in Addrs : SeenAccount(e, a) = SeenAccount(q, a)
  BY <1>4 DEF AddLog, SeenAccount, LoadAccount, Database
<1>6. Transfer(d, from, to, n) = e
  BY DEF Transfer, p, q
<1> HIDE DEF e
<1>7. \A a \in Addrs : Balance(e, a) = Balance(q, a)
  BY <1>5 DEF Balance
<1>8. \A a \in Addrs \ {from, to} : SeenAccount(e, a) = SeenAccount(d, a)
  BY <1>3, <1>4, <1>5
<1>9. ASSUME from # to
      PROVE  /\ Balance(e, from) = Balance(d, from) - n
             /\ Balance(e, to) = (Balance(d, to) + n) % Modulus
  <2>1. Balance(p, to) = Balance(d, to) /\ Balance(q, from) = Balance(p, from)
    BY <1>3, <1>4, <1>9 DEF Balance
  <2> QED  BY <1>3, <1>4, <1>7, <2>1
<1>10. ASSUME from = to PROVE Balance(e, to) = Balance(d, to) % Modulus
  <2>1. Balance(p, to) + n = Balance(d, to)
    BY <1>2, <1>3, <1>10
  <2> QED  BY <1>4, <1>7, <2>1
<1> QED  BY <1>6, <1>8, <1>9, <1>10
-----------------------------------------------------------------------------
(* Counting coins *)

LEMMA AccountCoins ==
    ASSUME NEW a, NEW n \in Nat
    PROVE  /\ IsFiniteSet({a} \X (1..n))
           /\ Cardinality({a} \X (1..n)) = n
<1>1. IsFiniteSet({a}) /\ Cardinality({a}) = 1
  BY FS_Singleton
<1>2. IsFiniteSet(1..n) /\ Cardinality(1..n) = n
  BY FS_Interval
<1>3. /\ IsFiniteSet({a} \X (1..n))
      /\ Cardinality({a} \X (1..n)) = Cardinality({a}) * Cardinality(1..n)
  BY <1>1, <1>2, FS_Product
<1> QED  BY <1>1, <1>2, <1>3

LEMMA CoinsFinite ==
    ASSUME store \in Stores, NEW d \in Database, NEW S \in SUBSET Addrs
    PROVE  IsFiniteSet(Coins(d, S))
<1> DEFINE f == [a \in S |-> {a} \X (1..Balance(d, a))]
           T == {f[a] : a \in S}
<1>1. IsFiniteSet(S)
  BY MemStateAssumption, FS_Subset
<1>2. f \in Surjection(S, T)
  BY DEF Surjection
<1>3. IsFiniteSet(T)
  <2> HIDE DEF f, T
  <2> QED  BY <1>1, <1>2, FS_Surjection
<1>4. ASSUME NEW X \in T PROVE IsFiniteSet(X)
  <2>1. PICK a \in S : X = {a} \X (1..Balance(d, a))
    OBVIOUS
  <2>2. Balance(d, a) \in Nat
    BY BalanceType
  <2> QED  BY <2>1, <2>2, AccountCoins
<1>5. IsFiniteSet(UNION T)
  <2> HIDE DEF T
  <2> QED  BY <1>3, <1>4, FS_UNION
<1>6. Coins(d, S) = UNION T
  BY DEF Coins
<1> QED  BY <1>5, <1>6

(* The coins of one account come on top of those of the others.            *)
LEMMA CoinsSplit ==
    ASSUME store \in Stores, NEW d \in Database, NEW S \in SUBSET Addrs, NEW a \in S
    PROVE  Cardinality(Coins(d, S)) = Cardinality(Coins(d, S \ {a})) + Balance(d, a)
<1> DEFINE rest == Coins(d, S \ {a})
           own == {a} \X (1..Balance(d, a))
<1>1. Coins(d, S) = rest \cup own /\ rest \cap own = {}
  BY DEF Coins
<1>2. Balance(d, a) \in Nat
  BY BalanceType
<1>3. IsFiniteSet(own) /\ Cardinality(own) = Balance(d, a)
  BY <1>2, AccountCoins
<1>4. IsFiniteSet(rest) /\ Cardinality(rest) \in Nat
  BY CoinsFinite, FS_CardinalityType
<1> HIDE DEF rest, own
<1>5. Cardinality(rest \cup own) =
        Cardinality(rest) + Cardinality(own) - Cardinality(rest \cap own)
  BY <1>3, <1>4, FS_Union
<1>6. Cardinality(rest \cap own) = 0
  BY <1>1, FS_EmptySet
<1> QED  BY <1>1, <1>2, <1>3, <1>4, <1>5, <1>6 DEF rest

LEMMA SameCoins ==
    ASSUME NEW d, NEW e, NEW S, \A a \in S : Balance(e, a) = Balance(d, a)
    PROVE  Coins(e, S) = Coins(d, S)
BY DEF Coins

LEMMA FewerCoins ==
    ASSUME store \in Stores, NEW d \in Database, NEW e \in Database,
           \A a \in Addrs : Balance(e, a) <= Balance(d, a)
    PROVE  Total(e) <= Total(d)
<1>1. \A a \in Addrs : Balance(e, a) \in Nat /\ Balance(d, a) \in Nat
  BY BalanceType
<1>2. \A a \in Addrs : 1..Balance(e, a) \subseteq 1..Balance(d, a)
  BY <1>1
<1>3. Coins(e, Addrs) \subseteq Coins(d, Addrs)
  BY <1>2 DEF Coins
<1>4. IsFiniteSet(Coins(d, Addrs))
  BY CoinsFinite
<1> QED  BY <1>3, <1>4, FS_Subset DEF Total

(* A transfer the sender can pay, in a database whose supply fits the      *)
(* width of a balance, makes and loses nothing.                            *)
LEMMA TransferTotal ==
    ASSUME store \in Stores, NEW d \in Database, NEW from \in Addrs, NEW to \in Addrs,
           NEW n \in Nat, CanTransfer(d, from, n), Total(d) < Modulus
    PROVE  Total(Transfer(d, from, to, n)) = Total(d)
<1> DEFINE e == Transfer(d, from, to, n)
           S == Addrs \ {to}
           R == S \ {from}
<1>0. e \in Database
  BY TransferSame DEF SameSlots
<1>1. /\ from # to => /\ Balance(e, from) = Balance(d, from) - n
                      /\ Balance(e, to) = (Balance(d, to) + n) % Modulus
      /\ from = to => Balance(e, to) = Balance(d, to) % Modulus
      /\ \A a \in Addrs \ {from, to} : SeenAccount(e, a) = SeenAccount(d, a)
  BY TransferMoves
<1>2. /\ Balance(d, from) \in Nat /\ Balance(d, to) \in Nat
      /\ Balance(e, from) \in Nat /\ Balance(e, to) \in Nat
  BY <1>0, BalanceType
<1>3. Balance(d, from) >= n
  BY DEF CanTransfer, Balance, SeenAccount
<1> HIDE DEF e
<1>4. /\ Total(d) = Cardinality(Coins(d, S)) + Balance(d, to)
      /\ Total(e) = Cardinality(Coins(e, S)) + Balance(e, to)
  BY <1>0, CoinsSplit DEF Total
<1>5. /\ Cardinality(Coins(d, S)) \in Nat /\ Cardinality(Coins(d, R)) \in Nat
  BY CoinsFinite, FS_CardinalityType
<1>6. \A a \in R : Balance(e, a) = Balance(d, a)
  BY <1>1 DEF Balance
<1>7. CASE from = to
  <2>1. Coins(e, S) = Coins(d, S)
    BY <1>6, <1>7, SameCoins
  <2>2. Balance(d, to) < Modulus /\ Modulus \in Nat
    BY <1>2, <1>4, <1>5, MemStateAssumption
  <2>3. Balance(e, to) = Balance(d, to)
    BY <1>1, <1>2, <1>7, <2>2
  <2> QED  BY <1>4, <2>1, <2>3 DEF e
<1>8. CASE from # to
  <2>1. /\ Cardinality(Coins(d, S)) = Cardinality(Coins(d, R)) + Balance(d, from)
        /\ Cardinality(Coins(e, S)) = Cardinality(Coins(e, R)) + Balance(e, from)
    BY <1>0, <1>8, CoinsSplit
  <2>2. Coins(e, R) = Coins(d, R)
    BY <1>6, SameCoins
  <2>3. Balance(d, to) + n < Modulus /\ Modulus \in Nat
    BY <1>2, <1>3, <1>4, <1>5, <2>1, MemStateAssumption
  <2>4. Balance(e, to) = Balance(d, to) + n
    BY <1>1, <1>2, <1>8, <2>3
  <2> HIDE DEF S, R
  <2> QED  BY <1>1, <1>2, <1>4, <1>5, <1>8, <2>1, <2>2, <2>4 DEF e
<1> QED  BY <1>7, <1>8

-----------------------------------------------------------------------------
(* The supply: no operation raises a balance but a transfer, and a revert  *)
(* goes back to balances that were there before.                           *)

SupplyInv ==
    /\ Total(db) < Modulus
    /\ \A i \in DOMAIN snapshots : Total(snapshots[i]) < Modulus

NoMore(d, e) ==
    /\ e \in Database
    /\ \A a \in Addrs : Balance(e, a) <= Balance(d, a)

LEMMA SameAccounts ==
    ASSUME store \in Stores, NEW d \in Database, NEW e \in Database,
           e.accounts = d.accounts
    PROVE  NoMore(d, e) /\ Total(e) = Total(d)
<1>1. \A a \in Addrs : SeenAccount(e, a) = SeenAccount(d, a)
  BY SeenAccountIs
<1>2. \A a \in Addrs : Balance(e, a) = Balance(d, a) /\ Balance(d, a) \in Nat
  BY <1>1, BalanceType DEF Balance
<1>3. Coins(e, Addrs) = Coins(d, Addrs)
  BY <1>2, SameCoins
<1> QED  BY <1>2, <1>3 DEF NoMore, Total

LEMMA SameSeen ==
    ASSUME store \in Stores, NEW d \in Database, NEW e \in Database,
           View(e) = View(d)
    PROVE  NoMore(d, e)
<1>1. \A a \in Addrs : SeenAccount(e, a) = SeenAccount(d, a)
  <2>1. View(e).accounts = View(d).accounts
    OBVIOUS
  <2>2. [a \in Addrs |-> SeenAccount(e, a)] = [a \in Addrs |-> SeenAccount(d, a)]
    BY <2>1 DEF View
  <2>3. ASSUME NEW a \in Addrs PROVE SeenAccount(e, a) = SeenAccount(d, a)
    <3>1. /\ [x \in Addrs |-> SeenAccount(e, x)][a] = SeenAccount(e, a)
          /\ [x \in Addrs |-> SeenAccount(d, x)][a] = SeenAccount(d, a)
      OBVIOUS
    <3> QED  BY <2>2, <3>1
  <2> QED  BY <2>3
<1>2. \A a \in Addrs : Balance(e, a) = Balance(d, a) /\ Balance(d, a) \in Nat
  BY <1>1, BalanceType DEF Balance
<1> QED  BY <1>2 DEF NoMore

(* An account is written with a balance not above the one it had.          *)
LEMMA WrittenNoMore ==
    ASSUME store \in Stores, NEW d \in Database, NEW a \in Addrs,
           NEW acct \in Account, acct.balance <= Balance(d, a),
           NEW e \in Database, e.accounts[a] = acct,
           \A b \in Addrs \ {a} : e.accounts[b] = d.accounts[b]
    PROVE  NoMore(d, e)
<1>1. acct # None
  BY NoneIsNoValue
<1>2. Balance(e, a) = acct.balance
  BY <1>1, SeenAccountIs DEF Balance
<1>3. \A b \in Addrs \ {a} : SeenAccount(e, b) = SeenAccount(d, b)
  BY SeenAccountIs
<1>4. \A b \in Addrs \ {a} : Balance(e, b) = Balance(d, b) /\ Balance(d, b) \in Nat
  BY <1>3, BalanceType DEF Balance
<1> QED  BY <1>2, <1>4 DEF NoMore

(* The writes of an account keep the balance it has or is created with.    *)
LEMMA UpdateNoMore ==
    ASSUME store \in Stores, NEW d \in Database, NEW a \in Addrs, NEW acct \in Account,
           acct.balance = GetOrCreateAccount(d, a).accounts[a].balance
    PROVE  NoMore(d, [GetOrCreateAccount(d, a) EXCEPT !.accounts[a] = acct])
<1> DEFINE g == GetOrCreateAccount(d, a)
           e == [g EXCEPT !.accounts[a] = acct]
<1>1. /\ g \in Database /\ g.accounts[a].balance = Balance(d, a)
      /\ \A b \in Addrs \ {a} : g.accounts[b] = d.accounts[b]
  BY GetOrCreateIs
<1>2. Balance(d, a) \in Nat
  BY BalanceType
<1>3. acct.balance <= Balance(d, a)
  BY <1>1, <1>2
<1> HIDE DEF g
<1>4. e \in Database
  BY <1>1, SetAccount DEF SameSlots
<1>5. e.accounts = [g.accounts EXCEPT ![a] = acct]
  BY <1>1 DEF Database
<1>6. g.accounts \in [Addrs -> Account \cup {None}]
  BY <1>1, DatabaseFields
<1>7. e.accounts[a] = acct /\ \A b \in Addrs \ {a} : e.accounts[b] = d.accounts[b]
  BY <1>1, <1>5, <1>6
<1> HIDE DEF e
<1>8. NoMore(d, e)
  BY <1>3, <1>4, <1>7, WrittenNoMore
<1> QED  BY <1>8 DEF e, g

LEMMA WriteAccountNoMore ==
    ASSUME store \in Stores, NEW d \in Database, NEW a \in Addrs,
           NEW code \in Codes \cup {None}
    PROVE  /\ NoMore(d, GetOrCreateAccount(d, a))
           /\ NoMore(d, CreateContract(d, a))
           /\ NoMore(d, SetNonce(d, a, 1))
           /\ NoMore(d, SetCode(d, a, code))
<1> DEFINE g == GetOrCreateAccount(d, a)
           old == g.accounts[a]
           new == [old EXCEPT !.isNew = TRUE]
           next == [old EXCEPT !.nonce = 1]
           coded == [old EXCEPT !.code = code, !.hash = code]
<1>1. /\ g \in Database /\ old \in Account /\ old.balance = Balance(d, a)
      /\ \A b \in Addrs \ {a} : g.accounts[b] = d.accounts[b]
  BY GetOrCreateIs
<1>2. Balance(d, a) \in Nat
  BY BalanceType
<1>3. NoMore(d, g)
  <2> HIDE DEF g
  <2>1. old.balance <= Balance(d, a)
    BY <1>1, <1>2
  <2> QED  BY <1>1, <2>1, WrittenNoMore
<1>4. /\ new \in Account /\ new.balance = old.balance
      /\ next \in Account /\ next.balance = old.balance
      /\ coded \in Account /\ coded.balance = old.balance
  <2> HIDE DEF old
  <2> QED  BY <1>1 DEF Account
<1>5. /\ CreateContract(d, a) = [g EXCEPT !.accounts[a] = new]
      /\ SetNonce(d, a, 1) = [g EXCEPT !.accounts[a] = next]
      /\ SetCode(d, a, code) = [g EXCEPT !.accounts[a] = coded]
  BY DEF CreateContract, SetNonce, SetCode
<1> HIDE DEF new, next, coded
<1>6. /\ NoMore(d, [g EXCEPT !.accounts[a] = new])
      /\ NoMore(d, [g EXCEPT !.accounts[a] = next])
      /\ NoMore(d, [g EXCEPT !.accounts[a] = coded])
  BY <1>4, UpdateNoMore
<1> QED  BY <1>3, <1>5, <1>6

LEMMA DestructNoMore ==
    ASSUME store \in Stores, NEW d \in Database, NEW a \in Addrs
    PROVE  NoMore(d, SelfDestruct(d, a)) /\ NoMore(d, SelfDestruct6780(d, a))
<1>1. d.accounts[a] \in Account \cup {None}
  BY DatabaseFields
<1>2. NoMore(d, d)
  BY SameAccounts
<1>3. CASE d.accounts[a] = None
  BY <1>2, <1>3 DEF SelfDestruct, SelfDestruct6780
<1>4. CASE d.accounts[a] # None
  <2>1. ASSUME NEW acct \in Account, acct.balance = 0
        PROVE  NoMore(d, [d EXCEPT !.accounts[a] = acct])
    <3> DEFINE e == [d EXCEPT !.accounts[a] = acct]
    <3>1. e \in Database
      BY SetAccount DEF SameSlots
    <3>2. e.accounts = [d.accounts EXCEPT ![a] = acct]
      BY DEF Database
    <3>3. e.accounts[a] = acct /\ \A b \in Addrs \ {a} : e.accounts[b] = d.accounts[b]
      BY <3>2, DatabaseFields
    <3>4. acct.balance <= Balance(d, a)
      BY <2>1, BalanceType
    <3> HIDE DEF e
    <3>5. NoMore(d, e)
      BY <3>1, <3>3, <3>4, WrittenNoMore
    <3> QED  BY <3>5 DEF e
  <2> DEFINE dead == [d.accounts[a] EXCEPT !.suicided = TRUE, !.balance = 0]
             empty == [d.accounts[a] EXCEPT !.balance = 0]
  <2>2. dead \in Account /\ empty \in Account /\ dead.balance = 0 /\ empty.balance = 0
    BY <1>1, <1>4 DEF Account
  <2>3. /\ SelfDestruct(d, a) = [d EXCEPT !.accounts[a] = dead]
        /\ SelfDestruct6780(d, a) \in {SelfDestruct(d, a), [d EXCEPT !.accounts[a] = empty]}
    BY <1>4 DEF SelfDestruct, SelfDestruct6780
  <2> HIDE DEF dead, empty
  <2>4. /\ NoMore(d, [d EXCEPT !.accounts[a] = dead])
        /\ NoMore(d, [d EXCEPT !.accounts[a] = empty])
    BY <2>1, <2>2
  <2> QED  BY <2>3, <2>4
<1> QED  BY <1>3, <1>4

LEMMA SlotsNoMore ==
    ASSUME store \in Stores, task \in Tasks, NEW d \in Database, SlotsOK(d),
           NEW c \in Cells, NEW w \in Words
    PROVE  NoMore(d, SStore(d, c, w))
<1>1. ASSUME NEW f \in Database PROVE LoadSlot(f, c).accounts = f.accounts
  <2>1. CASE Stored(c) = None
    BY <2>1, LoadSlotIs
  <2>2. CASE Stored(c) # None
    BY <2>2, LoadSlotFields
  <2> QED  BY <2>1, <2>2
<1> DEFINE g == GetState(d, c)
           h == GetCommittedState(g, c)
<1>2. g \in Database /\ SlotsOK(g) /\ g.accounts = d.accounts
  <2>1. g \in Database /\ SlotsOK(g)
    BY GetStateOK
  <2>2. g.accounts = d.accounts
    BY <1>1 DEF GetState
  <2> QED  BY <2>1, <2>2
<1> HIDE DEF g
<1>3. h \in Database /\ h.accounts = d.accounts
  <2>1. h \in Database
    BY <1>2, GetCommittedStateOK
  <2>2. h.accounts = g.accounts
    BY <1>1, <1>2 DEF GetCommittedState
  <2> QED  BY <1>2, <2>1, <2>2
<1> HIDE DEF h
<1>4. SetState(h, c, w).accounts = d.accounts
  BY <1>3 DEF SetState, Database
<1>5. SStore(d, c, w) = SetState(h, c, w)
  BY DEF SStore, g, h
<1>6. SStore(d, c, w) \in Database
  BY SStoreOK
<1> QED  BY <1>4, <1>5, <1>6, SameAccounts

LEMMA DoSupply ==
    ASSUME IInv, SupplyInv, NEW e, e \in Database, Total(e) <= Total(db), Do(e)
    PROVE  SupplyInv'
<1>1. db' = e /\ store' = store /\ snapshots' = snapshots
  BY DEF Do
<1>2. store \in Stores /\ db \in Database
  BY DEF IInv, TypeOK
<1>3. Total(db)' = Total(e)
  BY <1>1 DEF Total, Coins, Balance, SeenAccount, LoadAccount, StoreAccount
<1>4. Total(e) < Modulus
  <2>1. Total(e) \in Nat /\ Total(db) \in Nat /\ Modulus \in Nat
    BY <1>2, CoinsFinite, FS_CardinalityType, MemStateAssumption DEF Total
  <2> QED  BY <2>1 DEF SupplyInv
<1>5. ASSUME NEW i \in DOMAIN snapshots PROVE Total(snapshots[i])' = Total(snapshots[i])
  BY <1>1 DEF Total, Coins, Balance, SeenAccount, LoadAccount, StoreAccount
<1> QED  BY <1>1, <1>3, <1>4, <1>5 DEF SupplyInv

LEMMA NoMoreSupply ==
    ASSUME IInv, SupplyInv, NEW e, NoMore(db, e), Do(e)
    PROVE  SupplyInv'
<1>1. store \in Stores /\ db \in Database /\ e \in Database
  BY DEF IInv, TypeOK, NoMore
<1>2. Total(e) <= Total(db)
  BY <1>1, FewerCoins DEF NoMore
<1> QED  BY <1>1, <1>2, DoSupply

LEMMA MoveConserves ==
    ASSUME IInv, SupplyInv, MoveValue
    PROVE  SupplyInv' /\ Total(db)' = Total(db)
<1>0. store \in Stores /\ db \in Database
  BY DEF IInv, TypeOK
<1>1. PICK from \in Addrs, to \in Addrs :
        CanTransfer(db, from, 1) /\ Do(Transfer(db, from, to, 1))
  BY DEF MoveValue
<1> DEFINE e == Transfer(db, from, to, 1)
<1>2. e \in Database /\ Total(e) = Total(db)
  BY <1>0, <1>1, TransferSame, TransferTotal DEF SameSlots, SupplyInv
<1> HIDE DEF e
<1>3. Do(e)
  BY <1>1 DEF e
<1>4. Total(e) <= Total(db)
  <2>1. Total(db) \in Nat
    BY <1>0, CoinsFinite, FS_CardinalityType DEF Total
  <2> QED  BY <1>2, <2>1
<1>5. SupplyInv'
  BY <1>2, <1>3, <1>4, DoSupply
<1>6. Total(db)' = Total(e)
  BY <1>3 DEF Do, Total, Coins, Balance, SeenAccount, LoadAccount, StoreAccount
<1> QED  BY <1>2, <1>5, <1>6

LEMMA SupplyStep == IInv /\ SupplyInv /\ [Next]_vars => SupplyInv'
<1> SUFFICES ASSUME IInv, SupplyInv, [Next]_vars PROVE SupplyInv'
  OBVIOUS
<1>0. /\ store \in Stores /\ task \in Tasks /\ db \in Database /\ SlotsOK(db)
      /\ snapshots \in Seq(Database)
  BY DEF IInv, TypeOK
<1>1. CASE ReadAccount
  <2>1. PICK a \in Addrs : Do(LoadAccount(db, a))
    BY <1>1 DEF ReadAccount
  <2>2. LoadAccount(db, a) \in Database /\ View(LoadAccount(db, a)) = View(db)
    BY <1>0, LoadAccountIs, LoadAccountView
  <2> QED  BY <1>0, <2>1, <2>2, SameSeen, NoMoreSupply
<1>2. CASE ReadSlot
  <2>1. PICK c \in Cells : Do(GetState(db, c)) \/ Do(GetCommittedState(db, c))
    BY <1>2 DEF ReadSlot
  <2>2. CASE Do(GetState(db, c))
    <3>1. GetState(db, c) \in Database /\ View(GetState(db, c)) = View(db)
      BY <1>0, GetStateOK
    <3> QED  BY <1>0, <2>2, <3>1, SameSeen, NoMoreSupply
  <2>3. CASE Do(GetCommittedState(db, c))
    <3>1. /\ GetCommittedState(db, c) \in Database
          /\ View(GetCommittedState(db, c)) = View(db)
      BY <1>0, GetCommittedStateOK
    <3> QED  BY <1>0, <2>3, <3>1, SameSeen, NoMoreSupply
  <2> QED  BY <2>1, <2>2, <2>3
<1>3. CASE WriteAccount
  <2>1. PICK a \in Addrs :
          \/ Do(GetOrCreateAccount(db, a))
          \/ Do(CreateContract(db, a))
          \/ Do(SetNonce(db, a, 1))
          \/ \E code \in Codes \cup {None} : Do(SetCode(db, a, code))
    BY <1>3 DEF WriteAccount
  <2>2. CASE \E code \in Codes \cup {None} : Do(SetCode(db, a, code))
    BY <1>0, <2>2, WriteAccountNoMore, NoMoreSupply
  <2>3. None \in Codes \cup {None}
    OBVIOUS
  <2> QED  BY <1>0, <2>1, <2>2, <2>3, WriteAccountNoMore, NoMoreSupply
<1>4. CASE Destruct
  <2>1. PICK a \in Addrs : Do(SelfDestruct(db, a)) \/ Do(SelfDestruct6780(db, a))
    BY <1>4 DEF Destruct
  <2> QED  BY <1>0, <2>1, DestructNoMore, NoMoreSupply
<1>5. CASE WriteSlot
  <2>1. PICK c \in Cells, w \in Words : Do(SStore(db, c, w))
    BY <1>5 DEF WriteSlot
  <2> QED  BY <1>0, <2>1, SlotsNoMore, NoMoreSupply
<1>6. CASE MoveValue
  BY <1>6, MoveConserves
<1>7. CASE WriteRefund \/ WarmAccess \/ WriteTransient
  <2>1. PICK e : Do(e) /\ e.accounts = db.accounts
    <3>1. ASSUME NEW m PROVE [db EXCEPT !.refund = m].accounts = db.accounts
      BY <1>0 DEF Database
    <3>2. ASSUME NEW m PROVE [db EXCEPT !.warm = m].accounts = db.accounts
      BY <1>0 DEF Database
    <3>3. ASSUME NEW m PROVE [db EXCEPT !.transient = m].accounts = db.accounts
      BY <1>0 DEF Database
    <3>4. CASE WriteRefund
      <4> DEFINE more == [db EXCEPT !.refund = db.refund + 1]
                 less == [db EXCEPT !.refund = db.refund - 1]
      <4>1. Do(more) \/ Do(less)
        BY <3>4 DEF WriteRefund
      <4>2. more.accounts = db.accounts /\ less.accounts = db.accounts
        BY <3>1
      <4> HIDE DEF more, less
      <4> QED  BY <4>1, <4>2
    <3>5. CASE WarmAccess
      <4>1. PICK m : Do([db EXCEPT !.warm = db.warm \cup m])
        BY <3>5 DEF WarmAccess
      <4> DEFINE e == [db EXCEPT !.warm = db.warm \cup m]
      <4>2. Do(e) /\ e.accounts = db.accounts
        BY <3>2, <4>1
      <4> HIDE DEF e
      <4> QED  BY <4>2
    <3>6. CASE WriteTransient
      <4>1. PICK c \in Cells, w \in Words : Do([db EXCEPT !.transient[c] = w])
        BY <3>6 DEF WriteTransient
      <4> DEFINE e == [db EXCEPT !.transient = [db.transient EXCEPT ![c] = w]]
      <4>2. Do(e) /\ e.accounts = db.accounts
        BY <3>3, <4>1
      <4> HIDE DEF e
      <4> QED  BY <4>2
    <3> QED  BY <1>7, <3>4, <3>5, <3>6
  <2>2. e \in Database
    BY <2>1, StepInv DEF IInv, TypeOK, Do
  <2> QED  BY <1>0, <2>1, <2>2, SameAccounts, NoMoreSupply
<1>8. CASE Snapshot
  <2>1. db' = db /\ store' = store /\ snapshots' = Append(snapshots, db)
    BY <1>8 DEF Snapshot
  <2>2. \A i \in DOMAIN snapshots' :
          \/ snapshots'[i] = db
          \/ i \in DOMAIN snapshots /\ snapshots'[i] = snapshots[i]
    BY <1>0, <2>1, OneMoreSnapshot
  <2>3. Total(db)' = Total(db)
    BY <2>1 DEF Total, Coins, Balance, SeenAccount, LoadAccount, StoreAccount
  <2>4. ASSUME NEW i \in DOMAIN snapshots'
        PROVE  Total(snapshots[i])' < Modulus
    <3>1. Total(snapshots'[i]) < Modulus
      BY <2>2 DEF SupplyInv
    <3>2. Total(snapshots[i])' = Total(snapshots'[i])
      BY <2>1 DEF Total, Coins, Balance, SeenAccount, LoadAccount, StoreAccount
    <3> QED  BY <3>1, <3>2
  <2> QED  BY <2>3, <2>4 DEF SupplyInv
<1>9. CASE RevertToSnapshot
  <2>1. store' = store
    BY <1>9 DEF RevertToSnapshot
  <2>2. PICK i \in DOMAIN snapshots :
          /\ db' = [snapshots[i] EXCEPT !.committed = db.committed]
          /\ snapshots' = SubSeq(snapshots, 1, i - 1)
    BY <1>9 DEF RevertToSnapshot
  <2>3. snapshots[i] \in Database
    BY <1>0
  <2>4. db'.accounts = snapshots[i].accounts
    BY <2>2, <2>3 DEF Database
  <2>5. db' \in Database
    BY StepInv DEF IInv, TypeOK
  <2>6. Total(db') < Modulus
    BY <1>0, <2>3, <2>4, <2>5, SameAccounts DEF SupplyInv
  <2>7. Total(db)' = Total(db')
    BY <2>1 DEF Total, Coins, Balance, SeenAccount, LoadAccount, StoreAccount
  <2>8. ASSUME NEW j \in DOMAIN snapshots'
        PROVE  Total(snapshots[j])' < Modulus
    <3>1. j \in DOMAIN snapshots /\ snapshots'[j] = snapshots[j]
      BY <1>0, <2>2, EarlierSnapshots
    <3>2. Total(snapshots[j])' = Total(snapshots[j])
      BY <2>1, <3>1 DEF Total, Coins, Balance, SeenAccount, LoadAccount, StoreAccount
    <3> QED  BY <3>1, <3>2 DEF SupplyInv
  <2> QED  BY <2>6, <2>7, <2>8 DEF SupplyInv
<1>10. CASE UNCHANGED vars
  <2>1. db' = db /\ store' = store /\ snapshots' = snapshots
    BY <1>10 DEF vars
  <2>2. Total(db)' = Total(db)
    BY <2>1 DEF Total, Coins, Balance, SeenAccount, LoadAccount, StoreAccount
  <2>3. ASSUME NEW i \in DOMAIN snapshots PROVE Total(snapshots[i])' = Total(snapshots[i])
    BY <2>1 DEF Total, Coins, Balance, SeenAccount, LoadAccount, StoreAccount
  <2> QED  BY <2>1, <2>2, <2>3 DEF SupplyInv
<1> QED
  BY <1>1, <1>2, <1>3, <1>4, <1>5, <1>6, <1>7, <1>8, <1>9, <1>10 DEF Next

(* An execution that begins with a supply that fits the width of a         *)
(* balance: a transfer the EVM checked first makes no value and loses      *)
(* none, to another account or to oneself, after any reverts (evm.go       *)
(* canTransfer, iotexTransfer; statedb.go AddBalance, SubBalance).         *)
THEOREM TransfersConserve == Spec /\ Total(db) < Modulus => TransferConserves
<1>1. Init /\ Total(db) < Modulus => SupplyInv
  BY DEF Init, SupplyInv
<1>2. IInv /\ SupplyInv /\ [Next]_vars => [MoveValue => Total(db)' = Total(db)]_vars
  BY MoveConserves
<1> QED  BY <1>1, <1>2, Invariance, SupplyStep, PTL DEF Spec, TransferConserves

=============================================================================
