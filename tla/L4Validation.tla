---------------------------- MODULE L4Validation ----------------------------
(***************************************************************************)
(* L4 validation against a store that keeps moving: validateL4             *)
(* (validator.go) and the reads of the EVM's state database, in a process  *)
(* whose worker 0 owns the store (module StateSync) and whose other        *)
(* workers, one per further coordinator, validate at the same level and    *)
(* find the store through the global activeStateStore.                     *)
(*                                                                         *)
(* Each read of the store is a bolt transaction of its own, and the height *)
(* a result is labelled with is read before any of them.  The lookup of a  *)
(* storage slot (GetStorageSlot, trieGet) is one read for the account and  *)
(* one for each node of its trie (module Mpt), with diffs in between.      *)
(***************************************************************************)
EXTENDS StateSync, Mpt, FiniteSets

CONSTANTS
    owner,      \* worker 0
    Others,     \* the workers of further coordinators
    Accounts,   \* the account keys
    Slots,      \* the storage keys the EVM asks for
    EmptyRoot,  \* emptyTrieRoot
    Fields,     \* the fields a value's bytes consist of
    Storage,    \* coordinator: per account value, the slots of its contract
    Below,      \* coordinator: which value a slot has below which node
    Live,       \* coordinator: per state of its chain, what its tries hold
    MaxTasks    \* bound: tasks validated at a time, which do not interact

ASSUME ValidationAssumption == /\ owner \notin Others
                               /\ Accounts \subseteq Keys
                               /\ NoHeight \notin Values \cup {Absent}
                               /\ NilHash \notin Keys
                               /\ EmptyRoot \notin Keys
                               /\ DOMAIN Fields = Values
                               /\ MaxTasks \in Nat

Hashes == Keys \cup {NilHash, EmptyRoot}

(* The traversal for a slot, at this node with this much of the key        *)
(* behind it, is to end with the value.                                    *)
Claim(hash, offset, slot, value) ==
    [hash |-> hash, offset |-> offset, slot |-> slot, value |-> value]

(* The coordinator's tries are what they are to hold: the root of an       *)
(* account's trie claims its slots, and a value stored as a node passes    *)
(* each claim of its key on, or settles it.  A node's key is the hash of   *)
(* its bytes, so a claim is good for every block.  Snapshots have every    *)
(* account (README.md:52).                                                 *)
ASSUME TrieAssumption ==
    /\ Accounts \subseteq SnapKeys
    /\ \A b \in Below : /\ b = Claim(b.hash, b.offset, b.slot, b.value)
                        /\ b.hash \in Hashes /\ b.offset \in Nat /\ b.slot \in Slots
    /\ \A entries \in Diffs : \A i \in DOMAIN entries :
          LET e == entries[i]
              record == DecodeAccount(Fields[e.value])
          IN  e.type = WriteTypePut =>
                /\ e.key \in Accounts /\ record.ok =>
                      \A slot \in Slots :
                         IF record.root \in {NilHash, EmptyRoot}
                         THEN Storage[e.value][slot] = None
                         ELSE Claim(record.root, 0, slot, Storage[e.value][slot]) \in Below
                /\ \A b \in Below :
                      b.hash = e.key =>
                         LET step == TrieStep(DecodeNodePb(Fields[e.value]), b.slot, b.offset)
                         IN  IF step.done THEN step.answer \in {Error, b.value}
                             ELSE Claim(step.hash, step.offset, b.slot, b.value) \in Below

(* The coordinator takes complete tries to complete tries: in each of the  *)
(* states its chain goes through the accounts decode, and the traversal    *)
(* for a slot meets no node that is missing or of another type.            *)
ASSUME CompleteAssumption ==
    /\ Empty \in DOMAIN Live
    /\ \A state \in DOMAIN Live :
          /\ \A entries \in Diffs : ApplyEntries(state, entries) \in DOMAIN Live
          /\ \A k \in Accounts :
                LET record == DecodeAccount(Fields[state[k]])
                IN  state[k] # Absent =>
                      /\ record.ok
                      /\ record.root \notin {NilHash, EmptyRoot} =>
                            \A slot \in Slots :
                               Claim(record.root, 0, slot, Storage[state[k]][slot])
                                  \in Live[state]
          /\ \A b \in Live[state] :
                /\ b.hash \in Keys /\ state[b.hash] # Absent
                /\ LET step == TrieStep(DecodeNodePb(Fields[state[b.hash]]), b.slot, b.offset)
                   IN  IF step.done THEN step.answer # Error
                       ELSE Claim(step.hash, step.offset, b.slot, b.value) \in Live[state]

VARIABLE task     \* per worker, the task it is validating

avars == <<vars, task>>

Workers == Others \cup {owner}

(* label: the height in the result's note; read: what the store returned   *)
(* last and the height it was at; src: whose account state decided; look:  *)
(* the lookup under way, from the account read at height at to the node it *)
(* is about to load; answer: what it returned, until the next read.        *)
NoRead == [key |-> NilHash, at |-> 0, value |-> Absent]
NoLook == [account |-> NilHash, slot |-> <<>>, at |-> 0, hash |-> NilHash, offset |-> 0]
NoAnswer == [account |-> NilHash, slot |-> <<>>, at |-> 0, value |-> None]

Idle == [pc |-> "idle", label |-> 0, src |-> "none",
         read |-> NoRead, look |-> NoLook, answer |-> NoAnswer]

Steps == {"idle", "load", "height", "account", "evm", "trie", "done"}
Sources == {"none", "local", "coord", "error"}

AInit == Init /\ task = [w \in Workers |-> Idle]

Set(w, t) == task' = [task EXCEPT ![w] = t]

(* A transaction on the store: the value and the height of one state, or   *)
(* an error on a closed database.                                          *)
Get(k) == [key |-> k, at |-> disk.height,
           value |-> CASE ~dbOpen -> NoHeight
                       [] dbOpen /\ k \notin Keys -> Absent
                       [] OTHER -> disk.kv[k]]

Failed(r) == r.value = NoHeight
Present(r) == r.value \notin {NoHeight, Absent}

(* GetAccount: what DecodeAccount makes of a value that is there.          *)
AccountIn(r) == IF Present(r) THEN DecodeAccount(Fields[r.value]) ELSE NoAccount

(* processBatch hands a task to validateTask.  Worker 0 does so once it    *)
(* serves; another worker as soon as it has registered.                    *)
TakeTask(w) ==
    /\ task[w].pc = "idle"
    /\ Cardinality({u \in Workers : task[u].pc # "idle"}) < MaxTasks
    /\ IF w = owner THEN workerPc = "serve" ELSE workerPc # "down"
    /\ Set(w, [Idle EXCEPT !.pc = "load"])

(* activeStateStore.Load(): without a store the task is rejected.          *)
LoadStore(w) ==
    /\ task[w].pc = "load"
    /\ Set(w, IF active THEN [task[w] EXCEPT !.pc = "height"]
                        ELSE [task[w] EXCEPT !.pc = "done", !.src = "error"])

(* Slip: the label is the height about to be published.                    *)
SlipLabelUnpublished(w) ==
    /\ task[w].pc = "height"
    /\ \E signed \in BOOLEAN :
          Set(w, [task[w] EXCEPT !.pc = IF signed THEN "account" ELSE "done",
                                 !.label = unpublished])

(* localHeight := store.Height(), then the signature check: a bad one ends *)
(* the task.                                                               *)
ReadHeight(w) ==
    /\ task[w].pc = "height"
    /\ \E signed \in BOOLEAN :
          Set(w, [task[w] EXCEPT !.pc = IF signed THEN "account" ELSE "done",
                                 !.label = height])

(* The sender's account, from the store if it is there; otherwise the      *)
(* coordinator's copy decides (validateL2).  Either may reject the task,   *)
(* and one without a call for the EVM is done.                             *)
ReadAccount(w) ==
    /\ task[w].pc = "account"
    /\ \E k \in Accounts, next \in {"evm", "done"} :
          LET r == Get(k)
          IN  Set(w, [task[w] EXCEPT !.pc = next,
                                     !.read = r,
                                     !.src = IF AccountIn(r).ok THEN "local" ELSE "coord"])

(* A sender without an address: the store is not asked.                    *)
NoAddress(w) ==
    /\ task[w].pc = "account"
    /\ \E next \in {"evm", "done"} :
          Set(w, [task[w] EXCEPT !.pc = next, !.src = "coord"])

(* The EVM asks for an account; a code is read in the same way.            *)
EvmRead(w) ==
    /\ task[w].pc = "evm"
    /\ \E k \in Accounts :
          Set(w, [task[w] EXCEPT !.read = Get(k), !.answer = NoAnswer])

(* The lookup of a slot ends: GetStorageSlot returns a value, nil (None)   *)
(* or an error, and the state database turns the last two into "not in the *)
(* store" (loadSlotFromStore), which the EVM reads as zero.                *)
Answer(w, look, r, value) ==
    Set(w, [task[w] EXCEPT !.pc = "evm",
                           !.read = r,
                           !.look = NoLook,
                           !.answer = [account |-> look.account, slot |-> look.slot,
                                       at |-> look.at, value |-> value]])

Descend(w, look, r) ==
    Set(w, [task[w] EXCEPT !.pc = "trie", !.read = r, !.look = look,
                           !.answer = NoAnswer])

(* Slip: the root of an empty trie is looked up like any other.            *)
SlipBeginAtEmpty(w) ==
    /\ task[w].pc = "evm"
    /\ \E k \in Accounts, slot \in Slots :
          LET r == Get(k)
              record == AccountIn(r)
              look == [account |-> k, slot |-> slot, at |-> r.at,
                       hash |-> IF record.ok THEN record.root ELSE NilHash, offset |-> 0]
          IN  IF Failed(r) \/ (Present(r) /\ ~record.ok) THEN Answer(w, look, r, Error)
              ELSE IF r.value = Absent \/ look.hash = NilHash
                   THEN Answer(w, look, r, None)
              ELSE Descend(w, look, r)

(* GetStorageSlot: the account, and the root the traversal starts from.    *)
BeginLookup(w) ==
    /\ task[w].pc = "evm"
    /\ \E k \in Accounts, slot \in Slots :
          LET r == Get(k)
              record == AccountIn(r)
              look == [account |-> k, slot |-> slot, at |-> r.at,
                       hash |-> IF record.ok THEN record.root ELSE NilHash, offset |-> 0]
          IN  IF Failed(r) \/ (Present(r) /\ ~record.ok) THEN Answer(w, look, r, Error)
              ELSE IF r.value = Absent \/ look.hash \in {NilHash, EmptyRoot}
                   THEN Answer(w, look, r, None)
              ELSE Descend(w, look, r)

(* Slip: the part of the key that was used up is not left behind.          *)
SlipTrieGetWholeKey(w) ==
    /\ task[w].pc = "trie"
    /\ LET look == task[w].look
           r == Get(look.hash)
           step == IF Present(r)
                   THEN TrieStep(DecodeNodePb(Fields[r.value]), look.slot, look.offset)
                   ELSE Found(Error)
       IN  IF step.done THEN Answer(w, look, r, step.answer)
           ELSE Descend(w, [look EXCEPT !.hash = step.hash], r)

(* trieGet: one turn of its loop, with one read.                           *)
TrieGet(w) ==
    /\ task[w].pc = "trie"
    /\ LET look == task[w].look
           r == Get(look.hash)
           step == IF Present(r)
                   THEN TrieStep(DecodeNodePb(Fields[r.value]), look.slot, look.offset)
                   ELSE Found(Error)
       IN  IF step.done THEN Answer(w, look, r, step.answer)
           ELSE Descend(w, [look EXCEPT !.hash = step.hash, !.offset = step.offset], r)

EvmDone(w) ==
    /\ task[w].pc = "evm"
    /\ Set(w, [task[w] EXCEPT !.pc = "done"])

(* The result is submitted.                                                *)
Reply(w) ==
    /\ task[w].pc = "done"
    /\ Set(w, Idle)

Validate(w) == \/ TakeTask(w) \/ LoadStore(w) \/ ReadHeight(w) \/ ReadAccount(w)
               \/ NoAddress(w) \/ EvmRead(w) \/ BeginLookup(w) \/ TrieGet(w)
               \/ EvmDone(w) \/ Reply(w)

(* Slip: the worker returns on cancellation, whatever it is doing.         *)
SlipReturnInTask ==
    /\ Next
    /\ task' = IF workerPc' = "down" /\ workerPc # "down"
               THEN [w \in Workers |-> Idle] ELSE task

(* streamTasks looks at the context between batches: worker 0 does not     *)
(* return, and close the store, in the middle of a task of its own.        *)
Agent ==
    /\ Next
    /\ workerPc = "serve" /\ workerPc' = "close" => task[owner].pc = "idle"
    /\ task' = IF workerPc' = "down" /\ workerPc # "down"
               THEN [w \in Workers |-> Idle] ELSE task

(* main waits for every worker: the process does not exit in a task.       *)
ExitWaits == workerPc = "exit" /\ workerPc' = "down"
                => \A w \in Workers : task[w].pc = "idle"

ANext == \/ \E w \in Workers : Validate(w) /\ UNCHANGED vars
         \/ Agent /\ ExitWaits

ASpec == AInit /\ [][ANext]_avars

-----------------------------------------------------------------------------
(* Properties *)

ATypeOK ==
    \A w \in Workers :
        /\ task[w].pc \in Steps
        /\ task[w].label \in Nat
        /\ task[w].src \in Sources
        /\ task[w].read \in [key : Hashes, at : Nat,
                             value : Values \cup {Absent, NoHeight}]
        /\ task[w].pc = "trie" =>
              task[w].look \in [account : Accounts, slot : Slots, at : Nat,
                                hash : Hashes, offset : Nat]
        /\ task[w].answer.at \in Nat

(* The height in a result's note (validator.go: "L4(h=...)") is a lower    *)
(* bound: no read of the task saw an older state, because the height is    *)
(* published after the commit and read before the reads.                   *)
LabelIsLowerBound ==
    \A w \in Workers :
        task[w].read # NoRead => task[w].read.at >= task[w].label

(* Whatever a task reads while diffs are applied is what the coordinator   *)
(* committed at some block from the label on, never a half-applied diff.   *)
ReadsAreCommitted ==
    \A w \in Workers :
        LET r == task[w].read
        IN  /\ Present(r) => r.value = StateAt(r.at)[r.key]
            /\ r.value = Absent /\ r.key \in SnapKeys => StateAt(r.at)[r.key] = Absent

(* The store is not closed under a task of the worker that owns it         *)
(* (worker.go: the deferred Close runs after streamTasks returned).        *)
OwnerReadsNeverFail == ~Failed(task[owner].read)

(* The slots of a contract as the coordinator committed them at a height.  *)
SlotAt(account, slot, h) ==
    LET v == StateAt(h)[account]
    IN  IF v = Absent THEN None ELSE Storage[v][slot]

(* A lookup that does not fail is right for the block its account was read *)
(* at, although the nodes were read one by one while diffs added and       *)
(* deleted nodes (mpt.go trieGet: a node's key is its hash, so one that is *)
(* still there is the one the old trie meant).                             *)
LookupsAreExact ==
    \A w \in Workers :
        LET a == task[w].answer
        IN  a # NoAnswer /\ a.value # Error => a.value = SlotAt(a.account, a.slot, a.at)

(* A lookup fails, and its slot reads as zero (statedb.go:373), only when  *)
(* the database was closed, when a diff overtook the traversal, or when    *)
(* the store has holes a snapshot left: never on a complete store at rest. *)
LookupFailsOnlyIfOvertaken ==
    [][\A w \in Workers :
          task'[w].answer # task[w].answer /\ task'[w].answer.value = Error =>
              \/ ~dbOpen
              \/ disk.height > task'[w].answer.at
              \/ disk.kv # StateAt(disk.height)]_avars

(* worker.go:50: workers other than the first "fall back to L3 task        *)
(* processing", so they neither reject for want of a store nor read it.    *)
OthersFallBackToL3 ==
    \A w \in Others : task[w].src # "error" /\ task[w].read = NoRead
=============================================================================
