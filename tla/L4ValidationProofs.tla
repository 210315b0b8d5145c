------------------------- MODULE L4ValidationProofs -------------------------
(***************************************************************************)
(* What L4 validation reads from the moving store, for every chain, number *)
(* of workers and tasks, and whatever the bytes of a value decode to.      *)
(*                                                                         *)
(* The strengthening TaskInv ties a task to the agent it runs in: a task   *)
(* past the load of activeStateStore runs while that is set, a task of the *)
(* owner runs while the owner serves, and a task's label and the height of *)
(* its reads are heights the file has reached.                             *)
(*                                                                         *)
(* Lookups need to know what a node stands for.  LookupInv ties where a    *)
(* traversal is to the slot it was begun for (LookOK), through the claims  *)
(* the coordinator's tries make (TrieAssumption), and what a key holds to  *)
(* what some diff put there (PutsInv).                                     *)
(***************************************************************************)
EXTENDS L4Validation, StateSyncProofs

(* A task is a record; what it holds while it looks up a slot is left open.*)
IsTask(t) == /\ DOMAIN t = {"pc", "label", "src", "read", "look", "answer"}
             /\ t = [f \in DOMAIN t |-> t[f]]

(* A read returned what some block from the label on has.                  *)
ReadOK(r, label) ==
    /\ r.at \in label..disk.height
    /\ Present(r) => r.key \in Keys /\ r.value = StateAt(r.at)[r.key]
    /\ r.value = Absent /\ r.key \in SnapKeys => StateAt(r.at)[r.key] = Absent

TaskOK(w, t) ==
    /\ IsTask(t)
    /\ t.pc \in Steps
    /\ t.label \in 0..disk.height
    /\ t.pc \in {"idle", "load", "height"} => t.read = NoRead
    /\ t.pc \in {"height", "account", "evm", "trie"} => active
    /\ t.read # NoRead => ReadOK(t.read, t.label)
    /\ w = owner => /\ t.pc # "idle" => workerPc = "serve"
                    /\ ~Failed(t.read)

TaskInv ==
    /\ task = [w \in Workers |-> task[w]]
    /\ \A w \in Workers : TaskOK(w, task[w])

AInv == IInv /\ TaskInv

-----------------------------------------------------------------------------
(* Reads *)

(* A transaction sees one committed state, or a closed database.           *)
LEMMA GetOK ==
    ASSUME IInv, NEW k, NEW label \in 0..disk.height
    PROVE  /\ ReadOK(Get(k), label)
           /\ dbOpen => ~Failed(Get(k))
<1> USE StoreAssumption, SyncAssumption, ValidationAssumption
<1> DEFINE r == Get(k)
<1>1. r.key = k /\ r.at = disk.height
  BY DEF Get
<1>2. disk.height \in Nat /\ disk.kv \in Contents
  BY DEF IInv, TypeOK, StoreTypeOK
<1>3. CASE ~dbOpen
  <2>1. r.value = NoHeight
    BY <1>3 DEF Get
  <2> QED  BY <1>1, <1>2, <1>3, <2>1 DEF ReadOK, Present
<1>4. CASE dbOpen /\ k \notin Keys
  <2>1. r.value = Absent
    BY <1>4 DEF Get
  <2> QED  BY <1>1, <1>2, <1>4, <2>1 DEF ReadOK, Present, Failed
<1>5. CASE dbOpen /\ k \in Keys
  <2>1. r.value = disk.kv[k]
    BY <1>5 DEF Get
  <2>2. /\ disk.kv[k] \in {Absent, StateAt(disk.height)[k]}
        /\ k \in SnapKeys => disk.kv[k] = StateAt(disk.height)[k]
    BY <1>5 DEF IInv, ReplicaSound
  <2>3. disk.kv[k] # NoHeight
    BY <1>2, <1>5 DEF Contents
  <2> QED  BY <1>1, <1>2, <1>5, <2>1, <2>2, <2>3 DEF ReadOK, Present, Failed
<1> QED  BY <1>3, <1>4, <1>5

(* A task goes on: it keeps its label and its last read, or has read anew. *)
LEMMA GoesOn ==
    ASSUME AInv, NEW w \in Workers, NEW t, IsTask(t),
           task[w].pc \in {"account", "evm", "trie"},
           t.pc \in {"account", "evm", "trie", "done"},
           t.label = task[w].label,
           t.read = task[w].read \/ \E k : t.read = Get(k)
    PROVE  TaskOK(w, t)
<1>1. TaskOK(w, task[w]) /\ active
  BY DEF AInv, TaskInv, TaskOK
<1>2. w = owner => dbOpen
  BY <1>1 DEF TaskOK, AInv, IInv, PcInv
<1>3. /\ t.read # NoRead => ReadOK(t.read, t.label)
      /\ w = owner => ~Failed(t.read)
  <2>1. CASE t.read = task[w].read
    BY <1>1, <2>1 DEF TaskOK
  <2>2. CASE \E k : t.read = Get(k)
    BY <1>1, <1>2, <2>2, GetOK DEF TaskOK, AInv
  <2> QED  BY <2>1, <2>2
<1> QED  BY <1>1, <1>3 DEF TaskOK, Steps

-----------------------------------------------------------------------------
(* The steps of the tasks *)

LEMMA SetInv ==
    ASSUME AInv, UNCHANGED vars, NEW w \in Workers, NEW t, Set(w, t), TaskOK(w, t)
    PROVE  AInv'
<1>1. IInv'
  BY StepInv DEF AInv
<1>2. UNCHANGED <<disk, chain, active, workerPc>>
  BY DEF vars, storeVars, syncVars, workerVars
<1>3. /\ task' = [u \in Workers |-> task'[u]]
      /\ task'[w] = t
      /\ \A u \in Workers \ {w} : task'[u] = task[u]
  BY DEF Set, AInv, TaskInv
<1>4. \A u \in Workers : TaskOK(u, task'[u])
  BY <1>3 DEF AInv, TaskInv
<1>5. \A u \in Workers : TaskOK(u, task[u])'
  BY <1>2, <1>4 DEF TaskOK, ReadOK, StateAt
<1> QED  BY <1>1, <1>3, <1>5 DEF AInv, TaskInv

LEMMA ValidateInv ==
    ASSUME AInv, UNCHANGED vars, NEW w \in Workers, Validate(w)
    PROVE  AInv'
<1> DEFINE t == task[w]
<1>1. TaskOK(w, t) /\ IsTask(t)
  BY DEF AInv, TaskInv, TaskOK
<1>2. 0 \in 0..disk.height /\ NoRead.value # NoHeight
  BY ValidationAssumption DEF AInv, IInv, TypeOK, StoreTypeOK, NoRead
<1>3. TaskOK(w, Idle)
  BY <1>2 DEF TaskOK, IsTask, Idle, Steps, Failed
<1>4. CASE TakeTask(w)
  <2> DEFINE t2 == [Idle EXCEPT !.pc = "load"]
  <2>1. Set(w, t2) /\ (w = owner => workerPc = "serve")
    BY <1>4 DEF TakeTask
  <2>2. TaskOK(w, t2)
    BY <1>2, <2>1 DEF TaskOK, IsTask, Idle, Steps, Failed
  <2> HIDE DEF t2
  <2> QED  BY <2>1, <2>2, SetInv
<1>5. CASE LoadStore(w)
  <2>1. CASE active
    <3> DEFINE t2 == [t EXCEPT !.pc = "height"]
    <3>1. Set(w, t2) /\ t.pc = "load"
      BY <1>5, <2>1 DEF LoadStore
    <3>2. TaskOK(w, t2)
      BY <1>1, <2>1, <3>1 DEF TaskOK, IsTask, Steps
    <3> HIDE DEF t2
    <3> QED  BY <3>1, <3>2, SetInv
  <2>2. CASE ~active
    <3> DEFINE t2 == [t EXCEPT !.pc = "done", !.src = "error"]
    <3>1. Set(w, t2) /\ t.pc = "load"
      BY <1>5, <2>2 DEF LoadStore
    <3>2. TaskOK(w, t2)
      BY <1>1, <3>1 DEF TaskOK, IsTask, Steps
    <3> HIDE DEF t2
    <3> QED  BY <3>1, <3>2, SetInv
  <2> QED  BY <2>1, <2>2
<1>6. CASE ReadHeight(w)
  <2>1. PICK next \in {"account", "done"} :
           Set(w, [t EXCEPT !.pc = next, !.label = height])
    BY <1>6 DEF ReadHeight
  <2>2. t.pc = "height" /\ active
    BY <1>1, <1>6 DEF ReadHeight, TaskOK
  <2>3. height \in 0..disk.height
    BY <2>2 DEF AInv, IInv, PcInv, HeightInv, TypeOK, StoreTypeOK
  <2> DEFINE t2 == [t EXCEPT !.pc = next, !.label = height]
  <2>4. TaskOK(w, t2)
    BY <1>1, <2>2, <2>3 DEF TaskOK, IsTask, Steps
  <2> HIDE DEF t2
  <2> QED  BY <2>1, <2>4, SetInv DEF t2
<1>7. CASE ReadAccount(w)
  <2>1. PICK k \in Accounts, next \in {"evm", "done"} :
           Set(w, [t EXCEPT !.pc = next, !.read = Get(k),
                            !.src = IF AccountIn(Get(k)).ok THEN "local" ELSE "coord"])
    BY <1>7 DEF ReadAccount
  <2> DEFINE t2 == [t EXCEPT !.pc = next, !.read = Get(k),
                             !.src = IF AccountIn(Get(k)).ok THEN "local" ELSE "coord"]
  <2>2. IsTask(t2) /\ t2.pc = next /\ t2.label = t.label /\ t2.read = Get(k)
    BY <1>1 DEF IsTask
  <2> HIDE DEF t2
  <2>3. TaskOK(w, t2)
    BY <1>7, <2>2, GoesOn DEF ReadAccount
  <2> QED  BY <2>1, <2>3, SetInv DEF t2
<1>8. CASE NoAddress(w)
  <2>1. PICK next \in {"evm", "done"} : Set(w, [t EXCEPT !.pc = next, !.src = "coord"])
    BY <1>8 DEF NoAddress
  <2> DEFINE t2 == [t EXCEPT !.pc = next, !.src = "coord"]
  <2>2. IsTask(t2) /\ t2.pc = next /\ t2.label = t.label /\ t2.read = t.read
    BY <1>1 DEF IsTask
  <2> HIDE DEF t2
  <2>3. TaskOK(w, t2)
    BY <1>8, <2>2, GoesOn DEF NoAddress
  <2> QED  BY <2>1, <2>3, SetInv DEF t2
<1>9. CASE EvmRead(w)
  <2>1. PICK k \in Accounts : Set(w, [t EXCEPT !.read = Get(k), !.answer = NoAnswer])
    BY <1>9 DEF EvmRead
  <2> DEFINE t2 == [t EXCEPT !.read = Get(k), !.answer = NoAnswer]
  <2>2. IsTask(t2) /\ t2.pc = t.pc /\ t2.label = t.label /\ t2.read = Get(k)
    BY <1>1 DEF IsTask
  <2> HIDE DEF t2
  <2>3. TaskOK(w, t2)
    BY <1>9, <2>2, GoesOn DEF EvmRead
  <2> QED  BY <2>1, <2>3, SetInv DEF t2
<1>10. ASSUME NEW k, NEW look, NEW value, t.pc \in {"evm", "trie"},
              Answer(w, look, Get(k), value)
       PROVE  AInv'
  <2> DEFINE answer == [account |-> look.account, slot |-> look.slot,
                        at |-> look.at, value |-> value]
             t2 == [t EXCEPT !.pc = "evm", !.read = Get(k), !.look = NoLook,
                             !.answer = answer]
  <2>1. Set(w, t2)
    BY <1>10 DEF Answer
  <2> HIDE DEF answer
  <2>2. IsTask(t2) /\ t2.pc = "evm" /\ t2.label = t.label /\ t2.read = Get(k)
    BY <1>1 DEF IsTask
  <2> HIDE DEF t2
  <2>3. TaskOK(w, t2)
    BY <1>10, <2>2, GoesOn
  <2> QED  BY <2>1, <2>3, SetInv
<1>11. ASSUME NEW k, NEW look, t.pc \in {"evm", "trie"}, Descend(w, look, Get(k))
       PROVE  AInv'
  <2> DEFINE t2 == [t EXCEPT !.pc = "trie", !.read = Get(k), !.look = look,
                             !.answer = NoAnswer]
  <2>1. Set(w, t2)
    BY <1>11 DEF Descend
  <2>2. IsTask(t2) /\ t2.pc = "trie" /\ t2.label = t.label /\ t2.read = Get(k)
    BY <1>1 DEF IsTask
  <2> HIDE DEF t2
  <2>3. TaskOK(w, t2)
    BY <1>11, <2>2, GoesOn
  <2> QED  BY <2>1, <2>3, SetInv
<1>12. CASE BeginLookup(w)
  <2>1. t.pc \in {"evm", "trie"}
    BY <1>12 DEF BeginLookup
  <2>2. PICK k, look :
           \/ Answer(w, look, Get(k), Error)
           \/ Answer(w, look, Get(k), None)
           \/ Descend(w, look, Get(k))
    BY <1>12 DEF BeginLookup
  <2> QED  BY <1>10, <1>11, <2>1, <2>2
<1>13. CASE TrieGet(w)
  <2>1. t.pc \in {"evm", "trie"}
    BY <1>13 DEF TrieGet
  <2>2. PICK k, look, value :
           \/ Answer(w, look, Get(k), value)
           \/ Descend(w, look, Get(k))
    BY <1>13 DEF TrieGet
  <2> QED  BY <1>10, <1>11, <2>1, <2>2
<1>14. CASE EvmDone(w)
  <2> DEFINE t2 == [t EXCEPT !.pc = "done"]
  <2>1. Set(w, t2)
    BY <1>14 DEF EvmDone
  <2>2. IsTask(t2) /\ t2.pc = "done" /\ t2.label = t.label /\ t2.read = t.read
    BY <1>1 DEF IsTask
  <2> HIDE DEF t2
  <2>3. TaskOK(w, t2)
    BY <1>14, <2>2, GoesOn DEF EvmDone
  <2> QED  BY <2>1, <2>3, SetInv
<1>15. CASE Reply(w)
  BY <1>3, <1>15, SetInv DEF Reply
<1> QED  BY <1>4, <1>5, <1>6, <1>7, <1>8, <1>9, <1>12, <1>13, <1>14, <1>15 DEF Validate

-----------------------------------------------------------------------------
(* The steps of the agent *)

(* The file's height never falls, and no block is rewritten.               *)
LEMMA HeightGrows ==
    ASSUME IInv, Next
    PROVE  /\ disk.height \in 0..Len(chain)
           /\ disk'.height >= disk.height
           /\ \A h \in 0..Len(chain) : StateAt(h)' = StateAt(h)
<1> USE DEF IInv
<1>1. disk.height \in 0..Len(chain) /\ disk.height \in Nat /\ chain \in Seq(Block)
  BY DEF HeightInv, TypeOK, StoreTypeOK
<1>2. CASE UNCHANGED <<disk, chain>>
  BY <1>1, <1>2 DEF StateAt
<1>3. CASE NewBlock
  <2>1. UNCHANGED disk
    BY <1>3 DEF NewBlock, storeVars
  <2>2. PICK b : chain' = Append(chain, b)
    BY <1>3 DEF NewBlock
  <2>3. \A h \in 1..Len(chain) : chain'[h] = chain[h]
    BY <1>1, <2>2
  <2> QED  BY <1>1, <2>1, <2>3 DEF StateAt
<1>4. CASE ApplyCommit
  <2>1. disk'.height = diff /\ diff = disk.height + 1 /\ UNCHANGED chain
    BY <1>4 DEF ApplyCommit, Commit, StreamInv
  <2> QED  BY <1>1, <2>1 DEF StateAt
<1>5. CASE LoadSnapshot
  <2>1. PICK h \in 1..Len(chain) : Commit(h, Overlay(disk.kv, StateAt(h)))
    BY <1>5 DEF LoadSnapshot
  <2>2. disk'.height = h /\ disk.height = 0 /\ UNCHANGED chain
    BY <1>5, <2>1 DEF LoadSnapshot, Commit, HeightInv
  <2> QED  BY <1>1, <2>2 DEF StateAt
<1> QED  BY <1>2, <1>3, <1>4, <1>5, OtherStepsStable

(* While the process lives the store stays active, and the owner stops     *)
(* serving only to close it.                                               *)
LEMMA ServingStable ==
    ASSUME Next
    PROVE  /\ active => active' \/ workerPc' = "down"
           /\ workerPc = "serve" => workerPc' \in {"serve", "close", "down"}
           /\ workerPc = "down" => workerPc' # "down" \/ UNCHANGED workerPc
<1>1. CASE NewBlock \/ StreamFails \/ Signal
  BY <1>1 DEF NewBlock, StreamFails, Signal, workerVars
<1>2. CASE Sync
  BY <1>2 DEF Sync, OpenStream, RecvDiff, ApplyCommit, ApplyPublish, SignalReady, WakeUp,
              workerVars
<1>3. CASE Boot \/ Register \/ OpenStore \/ OpenFails \/ CloseStore
  BY <1>3 DEF Boot, Register, OpenStore, OpenFails, CloseStore
<1>4. CASE LoadSnapshot \/ SnapshotLoaded \/ SkipSnapshot \/ StartSync \/ StartServing
  BY <1>4 DEF LoadSnapshot, SnapshotLoaded, SkipSnapshot, StartSync, StartServing
<1>5. CASE LoadFails \/ NotReady \/ Shutdown
  BY <1>5 DEF LoadFails, NotReady, Shutdown, Return
<1>6. CASE Exit \/ Crash
  BY <1>6 DEF Exit, Crash, ProcessEnds
<1> QED  BY <1>1, <1>2, <1>3, <1>4, <1>5, <1>6 DEF Next, Worker

LEMMA AgentInv == AInv /\ Agent => AInv'
<1> SUFFICES ASSUME AInv, Agent PROVE AInv'
  OBVIOUS
<1>1. Next
  BY DEF Agent
<1>2. IInv'
  BY <1>1, StepInv DEF AInv
<1>3. 0 \in 0..disk'.height /\ NoRead.value # NoHeight
  BY <1>2, ValidationAssumption DEF IInv, TypeOK, StoreTypeOK, NoRead
<1>4. ASSUME NEW w \in Workers PROVE TaskOK(w, Idle)'
  BY <1>3 DEF TaskOK, IsTask, Idle, Steps, Failed
<1>5. CASE task' = [w \in Workers |-> Idle]
  BY <1>2, <1>4, <1>5 DEF AInv, TaskInv
<1>6. CASE task' = task /\ ~(workerPc' = "down" /\ workerPc # "down")
  <2> SUFFICES ASSUME NEW w \in Workers PROVE TaskOK(w, task[w])'
    BY <1>2, <1>6 DEF AInv, TaskInv
  <2> DEFINE t == task[w]
  <2>1. TaskOK(w, t) /\ task'[w] = t
    BY <1>6 DEF AInv, TaskInv
  <2>2. t.label \in 0..disk'.height
    BY <1>1, <1>2, <2>1, HeightGrows DEF TaskOK, AInv, IInv, TypeOK, StoreTypeOK
  <2>3. t.read # NoRead => ReadOK(t.read, t.label)'
    <3> SUFFICES ASSUME t.read # NoRead PROVE ReadOK(t.read, t.label)'
      OBVIOUS
    <3>1. ReadOK(t.read, t.label)
      BY <2>1 DEF TaskOK
    <3>2. t.read.at \in 0..Len(chain) /\ t.read.at \in t.label..disk'.height
      BY <1>1, <1>2, <2>1, <3>1, HeightGrows
         DEF ReadOK, TaskOK, AInv, IInv, TypeOK, StoreTypeOK
    <3>3. StateAt(t.read.at)' = StateAt(t.read.at)
      BY <1>1, <1>6, <3>2, HeightGrows DEF AInv, StateAt
    <3> QED  BY <1>6, <3>1, <3>2, <3>3 DEF ReadOK, Present, StateAt
  <2>4. active => active'
    <3>1. active => workerPc # "down"
      BY DEF AInv, IInv, PcInv
    <3> QED  BY <1>1, <1>6, <3>1, ServingStable
  <2>5. w = owner /\ t.pc # "idle" => workerPc' = "serve"
    <3> SUFFICES ASSUME w = owner, t.pc # "idle" PROVE workerPc' = "serve"
      OBVIOUS
    <3>1. workerPc = "serve"
      BY <2>1 DEF TaskOK
    <3> QED  BY <1>1, <1>6, <3>1, ServingStable DEF Agent
  <2> QED  BY <1>6, <2>1, <2>2, <2>3, <2>4, <2>5 DEF TaskOK, IsTask, Failed
<1> QED  BY <1>5, <1>6 DEF Agent

-----------------------------------------------------------------------------
(* The theorems *)

LEMMA AInitInv == AInit => AInv
<1> SUFFICES ASSUME AInit PROVE AInv
  OBVIOUS
<1>1. IInv
  BY InitInv DEF AInit
<1>2. 0 \in 0..disk.height /\ NoRead.value # NoHeight
  BY <1>1, ValidationAssumption DEF IInv, TypeOK, StoreTypeOK, NoRead
<1>3. \A w \in Workers : TaskOK(w, Idle)
  BY <1>2 DEF TaskOK, IsTask, Idle, Steps, Failed
<1> QED  BY <1>1, <1>3 DEF AInit, AInv, TaskInv

LEMMA AStepInv == AInv /\ [ANext]_avars => AInv'
<1> SUFFICES ASSUME AInv, [ANext]_avars PROVE AInv'
  OBVIOUS
<1>1. ASSUME NEW w \in Workers, Validate(w), UNCHANGED vars PROVE AInv'
  BY <1>1, ValidateInv
<1>2. CASE Agent
  BY <1>2, AgentInv
<1>3. CASE UNCHANGED avars
  <2>1. UNCHANGED vars /\ task' = task
    BY <1>3 DEF avars
  <2>2. IInv'
    BY <2>1, StepInv DEF AInv
  <2>3. UNCHANGED <<disk, chain, active, workerPc>>
    BY <2>1 DEF vars, storeVars, syncVars, workerVars
  <2>4. \A w \in Workers : TaskOK(w, task[w])'
    BY <2>1, <2>3 DEF AInv, TaskInv, TaskOK, ReadOK, StateAt, IsTask
  <2> QED  BY <2>1, <2>2, <2>4 DEF AInv, TaskInv
<1> QED  BY <1>1, <1>2, <1>3 DEF ANext

(* The strengthened invariant.                                             *)
THEOREM ValidationInvariance == ASpec => []AInv
<1>1. AInit => AInv
  BY AInitInv
<1>2. AInv /\ [ANext]_avars => AInv'
  BY AStepInv
<1> QED  BY <1>1, <1>2, PTL DEF ASpec

(* No read of a task sees an older state than its label says.              *)
THEOREM LabelsAreLowerBounds == ASpec => []LabelIsLowerBound
<1>1. AInv => LabelIsLowerBound
  BY DEF AInv, IInv, TypeOK, StoreTypeOK, TaskInv, TaskOK, ReadOK, LabelIsLowerBound
<1> QED  BY <1>1, ValidationInvariance, PTL

(* Every read of a task is of a state the coordinator committed.           *)
THEOREM CommittedReads == ASpec => []ReadsAreCommitted
<1>1. AInv => ReadsAreCommitted
  <2>1. ~Present(NoRead) /\ NoRead.key \notin SnapKeys
    BY ValidationAssumption, SyncAssumption DEF NoRead, Present
  <2> QED  BY <2>1 DEF AInv, TaskInv, TaskOK, ReadOK, ReadsAreCommitted
<1> QED  BY <1>1, ValidationInvariance, PTL

(* The store is not closed under a task of the worker that owns it.        *)
THEOREM OwnerReadsSucceed == ASpec => []OwnerReadsNeverFail
<1>1. AInv => OwnerReadsNeverFail
  BY DEF AInv, TaskInv, TaskOK, OwnerReadsNeverFail, Workers
<1> QED  BY <1>1, ValidationInvariance, PTL

-----------------------------------------------------------------------------
(* Lookups.  The claim a lookup started with is passed on from node to     *)
(* node: whatever block a node was read at, it is one the coordinator put  *)
(* under that key.                                                         *)

Puts(k, v) ==
    \E entries \in Diffs : \E i \in DOMAIN entries :
        entries[i].type = WriteTypePut /\ entries[i].key = k /\ entries[i].value = v

PutsInv ==
    \A h \in 0..Len(chain) : \A k \in Keys :
        StateAt(h)[k] = Absent \/ Puts(k, StateAt(h)[k])

AnswerOK(a) ==
    \/ a = NoAnswer
    \/ /\ a.at \in 0..disk.height
       /\ a.value = Error \/ a.value = SlotAt(a.account, a.slot, a.at)

LookOK(l) ==
    /\ l \in [account : Accounts, slot : Slots, at : 0..disk.height,
              hash : Hashes, offset : Nat]
    /\ Claim(l.hash, l.offset, l.slot, SlotAt(l.account, l.slot, l.at)) \in Below

Reads == [key : Hashes, at : Nat, value : Values \cup {Absent, NoHeight}]

LookupOK(t) ==
    /\ t.src \in Sources
    /\ t.read \in Reads
    /\ t.pc = "trie" => LookOK(t.look)
    /\ AnswerOK(t.answer)

LookupInv == PutsInv /\ \A w \in Workers : LookupOK(task[w])

(* What a root and a node claim (TrieAssumption).                          *)
LEMMA RootClaims ==
    ASSUME NEW k \in Accounts, NEW v, Puts(k, v), NEW slot \in Slots,
           DecodeAccount(Fields[v]).ok
    PROVE  IF DecodeAccount(Fields[v]).root \in {NilHash, EmptyRoot}
           THEN Storage[v][slot] = None
           ELSE Claim(DecodeAccount(Fields[v]).root, 0, slot, Storage[v][slot]) \in Below
BY TrieAssumption DEF Puts

LEMMA NodeClaims ==
    ASSUME NEW b \in Below, NEW v, Puts(b.hash, v)
    PROVE  LET step == TrieStep(DecodeNodePb(Fields[v]), b.slot, b.offset)
           IN  IF step.done THEN step.answer \in {Error, b.value}
               ELSE Claim(step.hash, step.offset, b.slot, b.value) \in Below
BY TrieAssumption DEF Puts

LEMMA ClaimFields ==
    ASSUME NEW hash, NEW offset, NEW slot, NEW value,
           Claim(hash, offset, slot, value) \in Below
    PROVE  hash \in Hashes /\ offset \in Nat /\ slot \in Slots
<1> DEFINE b == Claim(hash, offset, slot, value)
<1>1. b.hash \in Hashes /\ b.offset \in Nat /\ b.slot \in Slots
  BY TrieAssumption
<1> QED  BY <1>1 DEF Claim

LEMMA PutsStep == IInv /\ PutsInv /\ [Next]_vars => PutsInv'
<1> SUFFICES ASSUME IInv, PutsInv, [Next]_vars PROVE PutsInv'
  OBVIOUS
<1>1. CASE UNCHANGED chain
  BY <1>1 DEF PutsInv, StateAt
<1>2. CASE NewBlock
  <2> DEFINE n == Len(chain)
             old == StateAt(n)
  <2>1. n \in Nat /\ chain \in Seq(Block)
    BY DEF IInv, TypeOK
  <2>2. PICK entries \in Diffs :
           chain' = Append(chain, [entries |-> entries, state |-> ApplyEntries(old, entries)])
    BY <1>2 DEF NewBlock
  <2>3. Len(chain') = n + 1 /\ chain'[n + 1].state = ApplyEntries(old, entries)
        /\ \A h \in 1..n : chain'[h] = chain[h]
    BY <2>1, <2>2
  <2>4. \A h \in 0..n : StateAt(h)' = StateAt(h)
    BY <2>1, <2>3 DEF StateAt
  <2>5. ASSUME NEW h, h = n + 1
        PROVE  StateAt(h)' = ApplyEntries(old, entries)
    <3> HIDE DEF n, old
    <3>1. h # 0
      BY <2>1, <2>5
    <3>2. StateAt(h)' = chain'[h].state
      BY <3>1 DEF StateAt
    <3> QED  BY <2>3, <2>5, <3>2
  <2>6. ASSUME NEW k \in Keys
        PROVE  ApplyEntries(old, entries)[k] = Absent \/ Puts(k, ApplyEntries(old, entries)[k])
    <3>1. entries \in Seq(Entry)
      BY SyncAssumption
    <3>2. CASE Writers(k, entries) = {}
      <4>1. ApplyEntries(old, entries)[k] = old[k]
        BY <3>2 DEF ApplyEntries
      <4>2. n \in 0..Len(chain)
        BY <2>1
      <4> QED  BY <4>1, <4>2 DEF PutsInv
    <3>3. CASE Writers(k, entries) # {}
      <4> DEFINE i == LastWriter(k, entries)
      <4>1. i \in DOMAIN entries /\ entries[i].key = k
        BY <3>1, <3>3, LastWriterExists DEF Writers
      <4>2. ApplyEntries(old, entries)[k] = Written(entries[i])
        BY <3>3 DEF ApplyEntries
      <4> HIDE DEF i
      <4> QED  BY <4>1, <4>2 DEF Written, Puts
    <3> QED  BY <3>2, <3>3
  <2>7. SUFFICES ASSUME NEW h \in 0..Len(chain'), NEW k \in Keys
                 PROVE  StateAt(h)'[k] = Absent \/ Puts(k, StateAt(h)'[k])
    BY DEF PutsInv, Puts
  <2>8. h \in 0..n \/ h = n + 1
    BY <2>1, <2>3
  <2>9. CASE h \in 0..n
    <3>1. StateAt(h)' = StateAt(h)
      BY <2>4, <2>9
    <3>2. StateAt(h)[k] = Absent \/ Puts(k, StateAt(h)[k])
      BY <2>9 DEF PutsInv
    <3> QED  BY <3>1, <3>2
  <2>10. CASE h = n + 1
    <3>1. StateAt(h)' = ApplyEntries(old, entries)
      BY <2>5, <2>10
    <3> HIDE DEF old
    <3> QED  BY <2>6, <3>1
  <2> QED  BY <2>8, <2>9, <2>10
<1>3. ApplyCommit \/ LoadSnapshot => UNCHANGED chain
  BY DEF ApplyCommit, LoadSnapshot
<1>4. UNCHANGED vars => UNCHANGED chain
  BY DEF vars
<1> QED  BY <1>1, <1>2, <1>3, <1>4, OtherStepsStable

(* What a transaction returns, and that it was put there.                  *)
LEMMA GetTyped ==
    ASSUME IInv, PutsInv, NEW k \in Hashes
    PROVE  /\ Get(k) \in Reads
           /\ Get(k).key = k /\ Get(k).at = disk.height
           /\ disk.height \in 0..Len(chain)
           /\ Present(Get(k)) => /\ Get(k).value = StateAt(disk.height)[k]
                                 /\ StateAt(disk.height)[k] # Absent
                                 /\ Puts(k, Get(k).value)
           /\ Get(k).value = Absent /\ k \in SnapKeys => StateAt(disk.height)[k] = Absent
<1> DEFINE r == Get(k)
<1>1. disk.height \in Nat /\ disk.kv \in Contents /\ disk.height \in 0..Len(chain)
  BY DEF IInv, TypeOK, StoreTypeOK, HeightInv
<1>2. r = [key |-> k, at |-> disk.height, value |-> r.value]
  BY DEF Get
<1>3. r.value \in Values \cup {Absent, NoHeight}
  BY <1>1 DEF Get, Contents
<1>4. r \in Reads
  BY <1>1, <1>2, <1>3 DEF Reads
<1>5. ReadOK(r, disk.height)
  BY <1>1, GetOK
<1>6. r.key = k /\ r.at = disk.height
  BY <1>2
<1> HIDE DEF r
<1>7. ASSUME Present(r)
      PROVE  /\ r.value = StateAt(disk.height)[k] /\ StateAt(disk.height)[k] # Absent
             /\ Puts(k, r.value)
  <2>1. k \in Keys /\ r.value = StateAt(disk.height)[k] /\ r.value # Absent
    BY <1>5, <1>6, <1>7 DEF ReadOK, Present
  <2> QED  BY <1>1, <2>1 DEF PutsInv
<1>8. r.value = Absent /\ k \in SnapKeys => StateAt(disk.height)[k] = Absent
  BY <1>5, <1>6 DEF ReadOK
<1> QED  BY <1>1, <1>4, <1>6, <1>7, <1>8 DEF r

LEMMA SetLookup ==
    ASSUME LookupInv, AInv, UNCHANGED vars, NEW w \in Workers, NEW t, Set(w, t), LookupOK(t)
    PROVE  LookupInv'
<1>1. UNCHANGED <<disk, chain>>
  BY DEF vars, storeVars
<1>2. \A u \in Workers : LookupOK(task'[u])
  BY DEF Set, AInv, TaskInv, LookupInv
<1>3. \A u \in Workers : LookupOK(task[u])'
  BY <1>1, <1>2 DEF LookupOK, LookOK, AnswerOK, SlotAt, StateAt
<1>4. PutsInv'
  BY <1>1 DEF LookupInv, PutsInv, StateAt
<1> QED  BY <1>3, <1>4 DEF LookupInv

(* A lookup that ends: its answer is an error or what the claim says.      *)
LEMMA AnswerLookup ==
    ASSUME AInv, LookupInv, UNCHANGED vars, NEW w \in Workers,
           NEW k \in Hashes, NEW look, NEW value, Answer(w, look, Get(k), value),
           look.at \in 0..disk.height,
           value = Error \/ value = SlotAt(look.account, look.slot, look.at)
    PROVE  LookupInv'
<1> DEFINE t == task[w]
           answer == [account |-> look.account, slot |-> look.slot,
                      at |-> look.at, value |-> value]
           t2 == [t EXCEPT !.pc = "evm", !.read = Get(k), !.look = NoLook,
                           !.answer = answer]
<1>1. Set(w, t2)
  BY DEF Answer
<1>2. AnswerOK(answer)
  BY DEF AnswerOK
<1>3. Get(k) \in Reads
  BY GetTyped DEF AInv, LookupInv
<1>4. IsTask(t) /\ LookupOK(t)
  BY DEF AInv, TaskInv, TaskOK, LookupInv
<1> HIDE DEF answer
<1>5. t2.src = t.src /\ t2.read = Get(k) /\ t2.pc = "evm" /\ t2.answer = answer
  BY <1>4 DEF IsTask
<1> HIDE DEF t2
<1>6. LookupOK(t2)
  BY <1>2, <1>3, <1>4, <1>5 DEF LookupOK
<1> QED  BY <1>1, <1>6, SetLookup

(* A lookup that goes on, with a claim of its own.                         *)
LEMMA DescendLookup ==
    ASSUME AInv, LookupInv, UNCHANGED vars, NEW w \in Workers,
           NEW k \in Hashes, NEW look, Descend(w, look, Get(k)), LookOK(look)
    PROVE  LookupInv'
<1> DEFINE t == task[w]
           t2 == [t EXCEPT !.pc = "trie", !.read = Get(k), !.look = look,
                           !.answer = NoAnswer]
<1>1. Set(w, t2)
  BY DEF Descend
<1>2. AnswerOK(NoAnswer)
  BY DEF AnswerOK
<1>3. Get(k) \in Reads
  BY GetTyped DEF AInv, LookupInv
<1>4. IsTask(t) /\ LookupOK(t)
  BY DEF AInv, TaskInv, TaskOK, LookupInv
<1>5. t2.src = t.src /\ t2.read = Get(k) /\ t2.look = look /\ t2.answer = NoAnswer
  BY <1>4 DEF IsTask
<1> HIDE DEF t2
<1>6. LookupOK(t2)
  BY <1>2, <1>3, <1>4, <1>5 DEF LookupOK
<1> QED  BY <1>1, <1>6, SetLookup

LEMMA BeginExact ==
    ASSUME AInv, LookupInv, UNCHANGED vars, NEW w \in Workers, BeginLookup(w)
    PROVE  LookupInv'
<1>1. PICK k \in Accounts, slot \in Slots :
        LET r == Get(k)
            record == AccountIn(r)
            look == [account |-> k, slot |-> slot, at |-> r.at,
                     hash |-> IF record.ok THEN record.root ELSE NilHash, offset |-> 0]
        IN  IF Failed(r) \/ (Present(r) /\ ~record.ok) THEN Answer(w, look, r, Error)
            ELSE IF r.value = Absent \/ look.hash \in {NilHash, EmptyRoot}
                 THEN Answer(w, look, r, None)
            ELSE Descend(w, look, r)
  BY DEF BeginLookup
<1> DEFINE r == Get(k)
           record == AccountIn(r)
           hash == IF record.ok THEN record.root ELSE NilHash
           look == [account |-> k, slot |-> slot, at |-> r.at, hash |-> hash, offset |-> 0]
           value == SlotAt(k, slot, r.at)
<1>2. k \in Hashes /\ k \in SnapKeys
  BY TrieAssumption, ValidationAssumption DEF Hashes
<1>3. /\ r.at = disk.height /\ disk.height \in Nat
      /\ Present(r) => /\ r.value = StateAt(r.at)[k] /\ StateAt(r.at)[k] # Absent
                       /\ Puts(k, r.value)
      /\ r.value = Absent => StateAt(r.at)[k] = Absent
  BY <1>2, GetTyped DEF AInv, LookupInv, IInv, TypeOK, StoreTypeOK
<1>4. /\ look.at = r.at /\ look.account = k /\ look.slot = slot /\ look.hash = hash
      /\ look.offset = 0 /\ look.at \in 0..disk.height
  BY <1>3
<1>5. Present(r) => record = DecodeAccount(Fields[r.value]) /\ value = Storage[r.value][slot]
  BY <1>3 DEF AccountIn, SlotAt
<1>6. r.value = Absent => value = None
  BY <1>3 DEF SlotAt
<1>7. ASSUME Present(r), record.ok
      PROVE  IF hash \in {NilHash, EmptyRoot} THEN value = None
             ELSE Claim(hash, 0, slot, value) \in Below
  BY <1>3, <1>5, <1>7, RootClaims
<1> HIDE DEF r, record, hash, value
<1>8. CASE Failed(r) \/ (Present(r) /\ ~record.ok)
  <2>1. Answer(w, look, r, Error)
    BY <1>1, <1>8 DEF r, record, hash
  <2> HIDE DEF look
  <2> QED  BY <1>2, <1>4, <2>1, AnswerLookup DEF r
<1>9. CASE /\ ~(Failed(r) \/ (Present(r) /\ ~record.ok))
           /\ r.value = Absent \/ hash \in {NilHash, EmptyRoot}
  <2>1. Answer(w, look, r, None)
    BY <1>1, <1>9 DEF r, record, hash
  <2>2. value = None
    BY <1>6, <1>7, <1>9 DEF Failed, Present
  <2>3. None = SlotAt(look.account, look.slot, look.at)
    BY <1>4, <2>2 DEF value
  <2> HIDE DEF look
  <2> QED  BY <1>2, <1>4, <2>1, <2>3, AnswerLookup DEF r
<1>10. CASE /\ ~(Failed(r) \/ (Present(r) /\ ~record.ok))
            /\ ~(r.value = Absent \/ hash \in {NilHash, EmptyRoot})
  <2>1. Descend(w, look, r)
    BY <1>1, <1>10 DEF r, record, hash
  <2>2. Claim(hash, 0, slot, value) \in Below
    BY <1>7, <1>10 DEF Failed, Present
  <2>3. hash \in Hashes
    BY <2>2, ClaimFields
  <2>4. LookOK(look)
    BY <1>3, <1>4, <2>2, <2>3 DEF LookOK, value
  <2> HIDE DEF look
  <2> QED  BY <1>2, <2>1, <2>4, DescendLookup DEF r
<1> QED  BY <1>8, <1>9, <1>10

LEMMA TrieExact ==
    ASSUME AInv, LookupInv, UNCHANGED vars, NEW w \in Workers, TrieGet(w)
    PROVE  LookupInv'
<1> DEFINE look == task[w].look
           r == Get(look.hash)
           value == SlotAt(look.account, look.slot, look.at)
           b == Claim(look.hash, look.offset, look.slot, value)
           step == IF Present(r)
                   THEN TrieStep(DecodeNodePb(Fields[r.value]), look.slot, look.offset)
                   ELSE Found(Error)
           next == [look EXCEPT !.hash = step.hash, !.offset = step.offset]
<1>1. IF step.done THEN Answer(w, look, r, step.answer) ELSE Descend(w, next, r)
  BY DEF TrieGet
<1>2. LookOK(look)
  BY DEF TrieGet, LookupInv, LookupOK
<1>3. /\ look \in [account : Accounts, slot : Slots, at : 0..disk.height,
                   hash : Hashes, offset : Nat]
      /\ b \in Below
  BY <1>2 DEF LookOK
<1>4. b.hash = look.hash /\ b.offset = look.offset /\ b.slot = look.slot /\ b.value = value
  BY DEF Claim
<1>5. look.at \in 0..disk.height /\ look.hash \in Hashes
  BY <1>3
<1>6. Present(r) => Puts(look.hash, r.value)
  BY <1>5, GetTyped DEF AInv, LookupInv
<1>7. IF step.done THEN step.answer \in {Error, value}
      ELSE Claim(step.hash, step.offset, look.slot, value) \in Below
  <2>1. CASE Present(r)
    <3> HIDE DEF b, r, look
    <3> QED  BY <1>3, <1>4, <1>6, <2>1, NodeClaims
  <2>2. CASE ~Present(r)
    BY <2>2 DEF Found
  <2> QED  BY <2>1, <2>2
<1>8. CASE step.done
  <2> HIDE DEF look, step
  <2> QED  BY <1>1, <1>5, <1>7, <1>8, AnswerLookup
<1>9. CASE ~step.done
  <2> HIDE DEF look, step, value
  <2>1. step.hash \in Hashes /\ step.offset \in Nat
    BY <1>7, <1>9, ClaimFields
  <2>2. /\ next \in [account : Accounts, slot : Slots, at : 0..disk.height,
                     hash : Hashes, offset : Nat]
        /\ next.hash = step.hash /\ next.offset = step.offset /\ next.slot = look.slot
        /\ next.account = look.account /\ next.at = look.at
    BY <1>3, <2>1
  <2>3. Claim(next.hash, next.offset, next.slot,
              SlotAt(next.account, next.slot, next.at)) \in Below
    BY <1>7, <1>9, <2>2 DEF value
  <2>4. LookOK(next)
    BY <2>2, <2>3 DEF LookOK
  <2> HIDE DEF next
  <2> QED  BY <1>1, <1>5, <1>9, <2>4, DescendLookup
<1> QED  BY <1>8, <1>9

LEMMA ValidateExact ==
    ASSUME AInv, LookupInv, UNCHANGED vars, NEW w \in Workers, Validate(w)
    PROVE  LookupInv'
<1> DEFINE t == task[w]
<1>1. LookupOK(t) /\ IsTask(t)
  BY DEF AInv, TaskInv, TaskOK, LookupInv
<1>2. LookupOK(Idle)
  BY DEF LookupOK, Idle, Sources, NoRead, Reads, AnswerOK, Hashes
<1>3. \A k \in Accounts : Get(k) \in Reads
  BY GetTyped, ValidationAssumption DEF AInv, LookupInv, Hashes
<1>4. CASE TakeTask(w)
  <2> DEFINE t2 == [Idle EXCEPT !.pc = "load"]
  <2>1. LookupOK(t2)
    BY <1>2 DEF LookupOK, Idle
  <2>2. Set(w, t2)
    BY <1>4 DEF TakeTask
  <2> HIDE DEF t2
  <2> QED  BY <2>1, <2>2, SetLookup
<1>5. CASE LoadStore(w)
  <2>1. CASE active
    <3> DEFINE t2 == [t EXCEPT !.pc = "height"]
    <3>1. Set(w, t2)
      BY <1>5, <2>1 DEF LoadStore
    <3>2. LookupOK(t2)
      BY <1>1 DEF LookupOK, IsTask
    <3> HIDE DEF t2
    <3> QED  BY <3>1, <3>2, SetLookup
  <2>2. CASE ~active
    <3> DEFINE t2 == [t EXCEPT !.pc = "done", !.src = "error"]
    <3>1. Set(w, t2)
      BY <1>5, <2>2 DEF LoadStore
    <3>2. LookupOK(t2)
      BY <1>1 DEF LookupOK, IsTask, Sources
    <3> HIDE DEF t2
    <3> QED  BY <3>1, <3>2, SetLookup
  <2> QED  BY <2>1, <2>2
<1>6. CASE ReadHeight(w)
  <2>1. PICK next \in {"account", "done"} :
           Set(w, [t EXCEPT !.pc = next, !.label = height])
    BY <1>6 DEF ReadHeight
  <2> DEFINE t2 == [t EXCEPT !.pc = next, !.label = height]
  <2>2. LookupOK(t2)
    BY <1>1 DEF LookupOK, IsTask
  <2> HIDE DEF t2
  <2> QED  BY <2>1, <2>2, SetLookup DEF t2
<1>7. CASE ReadAccount(w)
  <2>1. PICK k \in Accounts, next \in {"evm", "done"}, src \in {"local", "coord"} :
           Set(w, [t EXCEPT !.pc = next, !.read = Get(k), !.src = src])
    BY <1>7 DEF ReadAccount
  <2> DEFINE t2 == [t EXCEPT !.pc = next, !.read = Get(k), !.src = src]
  <2>2. t2.pc = next /\ t2.read = Get(k) /\ t2.src = src /\ t2.answer = t.answer
    BY <1>1 DEF IsTask
  <2> HIDE DEF t2
  <2>3. LookupOK(t2)
    BY <1>1, <1>3, <2>2 DEF LookupOK, Sources
  <2> QED  BY <2>1, <2>3, SetLookup DEF t2
<1>8. CASE NoAddress(w)
  <2>1. PICK next \in {"evm", "done"} : Set(w, [t EXCEPT !.pc = next, !.src = "coord"])
    BY <1>8 DEF NoAddress
  <2> DEFINE t2 == [t EXCEPT !.pc = next, !.src = "coord"]
  <2>2. LookupOK(t2)
    BY <1>1 DEF LookupOK, IsTask, Sources
  <2> HIDE DEF t2
  <2> QED  BY <2>1, <2>2, SetLookup DEF t2
<1>9. CASE EvmRead(w)
  <2>1. PICK k \in Accounts : Set(w, [t EXCEPT !.read = Get(k), !.answer = NoAnswer])
    BY <1>9 DEF EvmRead
  <2> DEFINE t2 == [t EXCEPT !.read = Get(k), !.answer = NoAnswer]
  <2>2. t2.pc = t.pc /\ t2.read = Get(k) /\ t2.src = t.src /\ t2.answer = NoAnswer
    BY <1>1 DEF IsTask
  <2> HIDE DEF t2
  <2>3. t.pc # "trie"
    BY <1>9 DEF EvmRead
  <2>4. LookupOK(t2)
    BY <1>1, <1>3, <2>2, <2>3 DEF LookupOK, AnswerOK
  <2> QED  BY <2>1, <2>4, SetLookup DEF t2
<1>10. CASE BeginLookup(w)
  BY <1>10, BeginExact
<1>11. CASE TrieGet(w)
  BY <1>11, TrieExact
<1>12. CASE EvmDone(w)
  <2> DEFINE t2 == [t EXCEPT !.pc = "done"]
  <2>1. Set(w, t2)
    BY <1>12 DEF EvmDone
  <2>2. LookupOK(t2)
    BY <1>1 DEF LookupOK, IsTask
  <2> HIDE DEF t2
  <2> QED  BY <2>1, <2>2, SetLookup
<1>13. CASE Reply(w)
  BY <1>2, <1>13, SetLookup DEF Reply
<1> QED  BY <1>4, <1>5, <1>6, <1>7, <1>8, <1>9, <1>10, <1>11, <1>12, <1>13 DEF Validate

(* Diffs that are applied meanwhile do not change what was to be found.    *)
LEMMA AgentExact ==
    ASSUME AInv, LookupInv, Agent
    PROVE  LookupInv'
<1>1. Next
  BY DEF Agent
<1>2. PutsInv'
  BY <1>1, PutsStep DEF AInv, LookupInv
<1>3. /\ disk.height \in 0..Len(chain) /\ disk'.height >= disk.height
      /\ \A h \in 0..Len(chain) : StateAt(h)' = StateAt(h)
  BY <1>1, HeightGrows DEF AInv
<1>4. disk.height \in Nat /\ disk'.height \in Nat /\ Len(chain) \in Nat
  BY <1>1, StepInv DEF AInv, IInv, TypeOK, StoreTypeOK
<1>5. \A h \in 0..disk.height :
         /\ h \in 0..disk'.height
         /\ StateAt(h)' = StateAt(h)
  BY <1>3, <1>4
<1>6. \A w \in Workers : LookupOK(Idle)'
  BY DEF LookupOK, Idle, Sources, NoRead, Reads, AnswerOK, Hashes
<1>7. ASSUME NEW t, LookupOK(t) PROVE LookupOK(t)'
  <2>1. AnswerOK(t.answer)'
    <3>1. CASE t.answer = NoAnswer
      BY <3>1 DEF AnswerOK
    <3>2. CASE t.answer # NoAnswer
      <4>1. /\ t.answer.at \in 0..disk.height
            /\ \/ t.answer.value = Error
               \/ t.answer.value = SlotAt(t.answer.account, t.answer.slot, t.answer.at)
        BY <1>7, <3>2 DEF LookupOK, AnswerOK
      <4>2. StateAt(t.answer.at)' = StateAt(t.answer.at) /\ t.answer.at \in 0..disk'.height
        BY <1>5, <4>1
      <4>3. SlotAt(t.answer.account, t.answer.slot, t.answer.at)'
              = SlotAt(t.answer.account, t.answer.slot, t.answer.at)
        BY <4>2 DEF SlotAt
      <4> QED  BY <4>1, <4>2, <4>3 DEF AnswerOK
    <3> QED  BY <3>1, <3>2
  <2>2. t.pc = "trie" => LookOK(t.look)'
    <3> SUFFICES ASSUME t.pc = "trie" PROVE LookOK(t.look)'
      OBVIOUS
    <3>1. LookOK(t.look)
      BY <1>7 DEF LookupOK
    <3>2. t.look.at \in 0..disk.height
      BY <3>1 DEF LookOK
    <3>3. StateAt(t.look.at)' = StateAt(t.look.at) /\ t.look.at \in 0..disk'.height
      BY <1>5, <3>2
    <3>4. SlotAt(t.look.account, t.look.slot, t.look.at)'
            = SlotAt(t.look.account, t.look.slot, t.look.at)
      BY <3>3 DEF SlotAt
    <3> QED  BY <3>1, <3>3, <3>4 DEF LookOK
  <2> QED  BY <1>7, <2>1, <2>2 DEF LookupOK
<1>8. CASE task' = [w \in Workers |-> Idle]
  <2>1. \A w \in Workers : LookupOK(task[w])'
    BY <1>6, <1>8 DEF LookupOK, LookOK, AnswerOK, SlotAt, StateAt
  <2> QED  BY <1>2, <2>1 DEF LookupInv
<1>9. CASE task' = task
  <2> SUFFICES ASSUME NEW w \in Workers PROVE LookupOK(task[w])'
    BY <1>2 DEF LookupInv
  <2>1. LookupOK(task[w])
    BY DEF LookupInv
  <2>2. ASSUME NEW t, t = task[w] PROVE LookupOK(task[w])'
    <3>1. LookupOK(t)'
      BY <1>7, <2>1, <2>2
    <3>2. task'[w] = t
      BY <1>9, <2>2
    <3> QED  BY <3>1, <3>2 DEF LookupOK, LookOK, AnswerOK, SlotAt, StateAt
  <2> QED  BY <2>2
<1> QED  BY <1>8, <1>9 DEF Agent

LEMMA LookupInit == AInit => LookupInv
<1> SUFFICES ASSUME AInit PROVE LookupInv
  OBVIOUS
<1>1. LookupOK(Idle)
  BY DEF LookupOK, Idle, Sources, NoRead, Reads, AnswerOK, Hashes
<1>2. PutsInv
  <2>1. \A h \in 0..Len(chain) : StateAt(h) = Empty
    BY DEF AInit, Init, StateAt
  <2> QED  BY <2>1 DEF PutsInv, Empty
<1> QED  BY <1>1, <1>2 DEF AInit, LookupInv

LEMMA LookupStep == AInv /\ LookupInv /\ [ANext]_avars => LookupInv'
<1> SUFFICES ASSUME AInv, LookupInv, [ANext]_avars PROVE LookupInv'
  OBVIOUS
<1>1. ASSUME NEW w \in Workers, Validate(w), UNCHANGED vars PROVE LookupInv'
  BY <1>1, ValidateExact
<1>2. CASE Agent
  BY <1>2, AgentExact
<1>3. CASE UNCHANGED avars
  <2>1. UNCHANGED <<disk, chain, task>>
    BY <1>3 DEF avars, vars, storeVars
  <2> QED  BY <2>1 DEF LookupInv, PutsInv, LookupOK, LookOK, AnswerOK, SlotAt, StateAt
<1> QED  BY <1>1, <1>2, <1>3 DEF ANext

LEMMA LookupInvariance == ASpec => [](AInv /\ LookupInv)
<1>1. AInit => LookupInv
  BY LookupInit
<1>2. AInv /\ LookupInv /\ [ANext]_avars => LookupInv'
  BY LookupStep
<1> QED  BY <1>1, <1>2, ValidationInvariance, PTL DEF ASpec

(* A lookup that does not fail is right for the block its account was read *)
(* at, whatever diffs come between the reads of its nodes (mpt.go trieGet). *)
THEOREM ExactLookups == ASpec => []LookupsAreExact
<1>1. LookupInv => LookupsAreExact
  BY DEF LookupInv, LookupOK, AnswerOK, LookupsAreExact
<1> QED  BY <1>1, LookupInvariance, PTL

(* Tasks are well typed, the node a lookup is at included.                 *)
THEOREM TasksTyped == ASpec => []ATypeOK
<1>1. AInv /\ LookupInv => ATypeOK
  <2> SUFFICES ASSUME AInv, LookupInv, NEW w \in Workers
               PROVE  /\ task[w].pc \in Steps
                      /\ task[w].label \in Nat
                      /\ task[w].src \in Sources
                      /\ task[w].read \in Reads
                      /\ task[w].pc = "trie" =>
                            task[w].look \in [account : Accounts, slot : Slots, at : Nat,
                                              hash : Hashes, offset : Nat]
                      /\ task[w].answer.at \in Nat
    BY DEF ATypeOK, Reads
  <2>1. disk.height \in Nat /\ TaskOK(w, task[w]) /\ LookupOK(task[w])
    BY DEF AInv, TaskInv, IInv, TypeOK, StoreTypeOK, LookupInv
  <2>2. task[w].pc \in Steps /\ task[w].label \in Nat
    BY <2>1 DEF TaskOK
  <2>3. task[w].src \in Sources /\ task[w].read \in Reads
    BY <2>1 DEF LookupOK
  <2>4. task[w].pc = "trie" =>
          task[w].look \in [account : Accounts, slot : Slots, at : Nat,
                            hash : Hashes, offset : Nat]
    BY <2>1 DEF LookupOK, LookOK
  <2>5. task[w].answer.at \in Nat
    BY <2>1 DEF LookupOK, AnswerOK, NoAnswer
  <2> QED  BY <2>2, <2>3, <2>4, <2>5
<1> QED  BY <1>1, LookupInvariance, PTL

-----------------------------------------------------------------------------
(* Lookups that fail.  A traversal that no diff has overtaken is in a      *)
(* complete trie: the claim it is at is one the store's state makes good.  *)

ChainLive == \A h \in 0..Len(chain) : StateAt(h) \in DOMAIN Live

LookLive(l) ==
    l.at = disk.height /\ disk.kv = StateAt(disk.height) =>
        Claim(l.hash, l.offset, l.slot, SlotAt(l.account, l.slot, l.at)) \in Live[disk.kv]

CompleteInv ==
    /\ ChainLive
    /\ \A w \in Workers : task[w].pc = "trie" => LookLive(task[w].look)

(* What the property asks of a lookup of w that ends in an error.          *)
Overtaken(w) ==
    \/ ~dbOpen
    \/ disk.height > task'[w].answer.at
    \/ disk.kv # StateAt(disk.height)

(* What complete tries promise to a traversal (CompleteAssumption).        *)
LEMMA LiveRoot ==
    ASSUME NEW state \in DOMAIN Live, NEW k \in Accounts, state[k] # Absent
    PROVE  LET record == DecodeAccount(Fields[state[k]])
           IN  /\ record.ok
               /\ record.root \notin {NilHash, EmptyRoot} =>
                     \A slot \in Slots :
                        Claim(record.root, 0, slot, Storage[state[k]][slot]) \in Live[state]
BY CompleteAssumption

LEMMA LiveNode ==
    ASSUME NEW state \in DOMAIN Live, NEW b \in Live[state]
    PROVE  /\ b.hash \in Keys /\ state[b.hash] # Absent
           /\ LET step == TrieStep(DecodeNodePb(Fields[state[b.hash]]), b.slot, b.offset)
              IN  IF step.done THEN step.answer # Error
                  ELSE Claim(step.hash, step.offset, b.slot, b.value) \in Live[state]
BY CompleteAssumption

(* A commit that does not raise the height is none.                        *)
LEMMA HeightTells ==
    ASSUME IInv, Next, disk'.height = disk.height
    PROVE  disk' = disk
<1> USE DEF IInv
<1>1. disk.height \in Nat /\ chain \in Seq(Block)
  BY DEF TypeOK, StoreTypeOK
<1>2. CASE UNCHANGED <<disk, chain>>
  BY <1>2
<1>3. CASE NewBlock
  BY <1>3 DEF NewBlock, storeVars
<1>4. CASE ApplyCommit
  <2>1. disk'.height = diff /\ diff = disk.height + 1
    BY <1>4 DEF ApplyCommit, Commit, StreamInv
  <2> QED  BY <1>1, <2>1
<1>5. CASE LoadSnapshot
  <2>1. PICK h \in 1..Len(chain) : Commit(h, Overlay(disk.kv, StateAt(h)))
    BY <1>5 DEF LoadSnapshot
  <2>2. disk'.height = h /\ disk.height = 0
    BY <1>5, <2>1 DEF LoadSnapshot, Commit, HeightInv
  <2>3. h # 0
    BY <1>1
  <2> QED  BY <2>2, <2>3
<1> QED  BY <1>2, <1>3, <1>4, <1>5, OtherStepsStable

(* Each block takes complete tries to complete tries.                      *)
LEMMA ChainLiveStep == IInv /\ ChainLive /\ [Next]_vars => ChainLive'
<1> SUFFICES ASSUME IInv, ChainLive, [Next]_vars PROVE ChainLive'
  OBVIOUS
<1>1. CASE UNCHANGED chain
  BY <1>1 DEF ChainLive, StateAt
<1>2. CASE NewBlock
  <2> DEFINE n == Len(chain)
             old == StateAt(n)
  <2>1. n \in Nat /\ chain \in Seq(Block)
    BY DEF IInv, TypeOK
  <2>2. PICK entries \in Diffs :
           chain' = Append(chain, [entries |-> entries, state |-> ApplyEntries(old, entries)])
    BY <1>2 DEF NewBlock
  <2>3. Len(chain') = n + 1 /\ chain'[n + 1].state = ApplyEntries(old, entries)
        /\ \A h \in 1..n : chain'[h] = chain[h]
    BY <2>1, <2>2
  <2>4. \A h \in 0..n : StateAt(h)' = StateAt(h)
    BY <2>1, <2>3 DEF StateAt
  <2>5. old \in DOMAIN Live
    BY <2>1 DEF ChainLive
  <2>6. SUFFICES ASSUME NEW h \in 0..(n + 1) PROVE StateAt(h)' \in DOMAIN Live
    BY <2>3 DEF ChainLive
  <2>7. CASE h \in 0..n
    BY <2>4, <2>7 DEF ChainLive
  <2>8. CASE h = n + 1
    <3> HIDE DEF n, old
    <3>1. StateAt(h)' = ApplyEntries(old, entries)
      BY <2>1, <2>3, <2>8 DEF StateAt
    <3> QED  BY <2>5, <3>1, CompleteAssumption
  <2> QED  BY <2>1, <2>7, <2>8
<1>3. ApplyCommit \/ LoadSnapshot => UNCHANGED chain
  BY DEF ApplyCommit, LoadSnapshot
<1>4. UNCHANGED vars => UNCHANGED chain
  BY DEF vars
<1> QED  BY <1>1, <1>2, <1>3, <1>4, OtherStepsStable

(* A step of one task, as far as it concerns lookups.                      *)
LEMMA SetLive ==
    ASSUME AInv, CompleteInv, UNCHANGED vars, NEW w \in Workers, NEW t, Set(w, t),
           t.pc = "trie" => LookLive(t.look)
    PROVE  CompleteInv'
<1>1. \A u \in Workers : task'[u] = IF u = w THEN t ELSE task[u]
  BY DEF Set, AInv, TaskInv
<1>2. UNCHANGED <<disk, chain>>
  BY DEF vars, storeVars
<1>3. ChainLive'
  BY <1>2 DEF CompleteInv, ChainLive, StateAt
<1>4. \A u \in Workers : task'[u].pc = "trie" => LookLive(task'[u].look)
  BY <1>1 DEF CompleteInv
<1>5. \A u \in Workers : task'[u].pc = "trie" => LookLive(task[u].look)'
  BY <1>2, <1>4 DEF LookLive, SlotAt, StateAt
<1> QED  BY <1>3, <1>5 DEF CompleteInv

(* The root of a complete trie.                                            *)
LEMMA BeginLive ==
    ASSUME AInv, LookupInv, CompleteInv, UNCHANGED vars, NEW w \in Workers, BeginLookup(w)
    PROVE  /\ CompleteInv'
           /\ task'[w].answer.value = Error => Overtaken(w)
<1>1. PICK k \in Accounts, slot \in Slots :
        LET r == Get(k)
            record == AccountIn(r)
            look == [account |-> k, slot |-> slot, at |-> r.at,
                     hash |-> IF record.ok THEN record.root ELSE NilHash, offset |-> 0]
        IN  IF Failed(r) \/ (Present(r) /\ ~record.ok) THEN Answer(w, look, r, Error)
            ELSE IF r.value = Absent \/ look.hash \in {NilHash, EmptyRoot}
                 THEN Answer(w, look, r, None)
            ELSE Descend(w, look, r)
  BY DEF BeginLookup
<1> DEFINE r == Get(k)
           record == AccountIn(r)
           hash == IF record.ok THEN record.root ELSE NilHash
           look == [account |-> k, slot |-> slot, at |-> r.at, hash |-> hash, offset |-> 0]
           t == task[w]
<1>2. IsTask(t)
  BY DEF AInv, TaskInv, TaskOK
<1>3. k \in Keys
  BY ValidationAssumption
<1>4. /\ r.at = disk.height
      /\ Failed(r) => ~dbOpen
      /\ Present(r) => r.value = disk.kv[k] /\ disk.kv[k] # Absent
  <2>1. disk.kv[k] \in Values \cup {Absent}
    BY <1>3 DEF AInv, IInv, TypeOK, StoreTypeOK, Contents
  <2> QED  BY <1>3, <2>1, ValidationAssumption DEF Get, Failed, Present
<1>5. /\ look.at = disk.height /\ look.account = k /\ look.slot = slot /\ look.hash = hash
      /\ look.offset = 0
  BY <1>4
<1>6. disk.kv = StateAt(disk.height) => disk.kv \in DOMAIN Live
  BY DEF CompleteInv, ChainLive, AInv, IInv, HeightInv
<1>7. Present(r) => record = DecodeAccount(Fields[disk.kv[k]])
  BY <1>4 DEF AccountIn
<1>8. ASSUME Present(r), disk.kv = StateAt(disk.height)
      PROVE  /\ record.ok
             /\ record.root \notin {NilHash, EmptyRoot} =>
                   Claim(record.root, 0, slot, SlotAt(k, slot, disk.height)) \in Live[disk.kv]
  BY <1>4, <1>6, <1>7, <1>8, LiveRoot DEF SlotAt
<1> HIDE DEF r, record, hash
<1>9. CASE Failed(r) \/ (Present(r) /\ ~record.ok)
  <2>1. Answer(w, look, r, Error)
    BY <1>1, <1>9 DEF r, record, hash
  <2> DEFINE t2 == [t EXCEPT !.pc = "evm",
                             !.read = r,
                             !.look = NoLook,
                             !.answer = [account |-> look.account, slot |-> look.slot,
                                         at |-> look.at, value |-> Error]]
  <2>2. Set(w, t2)
    BY <2>1 DEF Answer
  <2>3. t2.pc = "evm" /\ t2.answer.at = disk.height
    BY <1>2, <1>5 DEF IsTask
  <2>4. task'[w] = t2
    BY <2>2 DEF Set, AInv, TaskInv
  <2> HIDE DEF t2
  <2>5. CompleteInv'
    BY <2>2, <2>3, SetLive
  <2>6. ~dbOpen \/ disk.kv # StateAt(disk.height)
    BY <1>4, <1>8, <1>9
  <2> QED  BY <2>5, <2>6 DEF Overtaken
<1>10. CASE /\ ~(Failed(r) \/ (Present(r) /\ ~record.ok))
            /\ r.value = Absent \/ hash \in {NilHash, EmptyRoot}
  <2>1. Answer(w, look, r, None)
    BY <1>1, <1>10 DEF r, record, hash
  <2> DEFINE t2 == [t EXCEPT !.pc = "evm",
                             !.read = r,
                             !.look = NoLook,
                             !.answer = [account |-> look.account, slot |-> look.slot,
                                         at |-> look.at, value |-> None]]
  <2>2. Set(w, t2)
    BY <2>1 DEF Answer
  <2>3. t2.pc = "evm" /\ t2.answer.value # Error
    BY <1>2 DEF IsTask, None, Error
  <2>4. task'[w] = t2
    BY <2>2 DEF Set, AInv, TaskInv
  <2> HIDE DEF t2
  <2>5. CompleteInv'
    BY <2>2, <2>3, SetLive
  <2> QED  BY <2>3, <2>4, <2>5
<1>11. CASE /\ ~(Failed(r) \/ (Present(r) /\ ~record.ok))
            /\ ~(r.value = Absent \/ hash \in {NilHash, EmptyRoot})
  <2>1. Descend(w, look, r)
    BY <1>1, <1>11 DEF r, record, hash
  <2> DEFINE t2 == [t EXCEPT !.pc = "trie", !.read = r, !.look = look,
                             !.answer = NoAnswer]
  <2>2. Set(w, t2)
    BY <2>1 DEF Descend
  <2>3. t2.look = look /\ t2.answer.value # Error
    BY <1>2 DEF IsTask, NoAnswer, None, Error
  <2>4. task'[w] = t2
    BY <2>2 DEF Set, AInv, TaskInv
  <2> HIDE DEF t2
  <2>5. LookLive(look)
    <3>1. Present(r)
      BY <1>11 DEF Failed, Present
    <3>2. disk.kv = StateAt(disk.height) =>
            Claim(hash, 0, slot, SlotAt(k, slot, disk.height)) \in Live[disk.kv]
      BY <1>8, <1>11, <3>1 DEF hash
    <3> HIDE DEF look
    <3> QED  BY <1>5, <3>2 DEF LookLive
  <2> HIDE DEF look
  <2>6. CompleteInv'
    BY <2>2, <2>3, <2>5, SetLive
  <2> QED  BY <2>3, <2>4, <2>6
<1> QED  BY <1>9, <1>10, <1>11

(* A node of a complete trie, while no diff is applied.                    *)
LEMMA TrieLive ==
    ASSUME AInv, LookupInv, CompleteInv, UNCHANGED vars, NEW w \in Workers, TrieGet(w)
    PROVE  /\ CompleteInv'
           /\ task'[w].answer.value = Error => Overtaken(w)
<1> DEFINE t == task[w]
           look == t.look
           r == Get(look.hash)
           value == SlotAt(look.account, look.slot, look.at)
           b == Claim(look.hash, look.offset, look.slot, value)
           step == IF Present(r)
                   THEN TrieStep(DecodeNodePb(Fields[r.value]), look.slot, look.offset)
                   ELSE Found(Error)
           next == [look EXCEPT !.hash = step.hash, !.offset = step.offset]
           AtRest == dbOpen /\ look.at = disk.height /\ disk.kv = StateAt(disk.height)
<1>1. IF step.done THEN Answer(w, look, r, step.answer) ELSE Descend(w, next, r)
  BY DEF TrieGet
<1>2. IsTask(t) /\ LookOK(look) /\ LookLive(look)
  BY DEF TrieGet, LookupInv, LookupOK, CompleteInv, AInv, TaskInv, TaskOK
<1>3. /\ look \in [account : Accounts, slot : Slots, at : 0..disk.height,
                   hash : Hashes, offset : Nat]
      /\ disk.height \in Nat
  BY <1>2 DEF LookOK, AInv, IInv, TypeOK, StoreTypeOK
<1>4. ASSUME look.at = disk.height, disk.kv = StateAt(disk.height)
      PROVE  disk.kv \in DOMAIN Live /\ b \in Live[disk.kv]
  BY <1>2, <1>4 DEF LookLive, CompleteInv, ChainLive, AInv, IInv, HeightInv
<1>5. b.hash = look.hash /\ b.offset = look.offset /\ b.slot = look.slot /\ b.value = value
  BY DEF Claim
<1>6. ASSUME look.at = disk.height, disk.kv = StateAt(disk.height)
      PROVE  /\ look.hash \in Keys /\ disk.kv[look.hash] # Absent
             /\ LET s == TrieStep(DecodeNodePb(Fields[disk.kv[look.hash]]),
                                  look.slot, look.offset)
                IN  IF s.done THEN s.answer # Error
                    ELSE Claim(s.hash, s.offset, look.slot, value) \in Live[disk.kv]
  <2> HIDE DEF look, value, b
  <2> QED  BY <1>4, <1>5, <1>6, LiveNode
<1>7. ASSUME look.at = disk.height, disk.kv = StateAt(disk.height), Present(r)
      PROVE  r.value = disk.kv[look.hash]
  BY <1>6, <1>7 DEF Get, Present
<1>8. ASSUME AtRest
      PROVE  Present(r)
  <2>1. disk.kv[look.hash] \in Values
    BY <1>6, <1>8 DEF AInv, IInv, TypeOK, StoreTypeOK, Contents
  <2> QED  BY <1>6, <1>8, <2>1, ValidationAssumption DEF Get, Present
<1>9. ASSUME look.at = disk.height, disk.kv = StateAt(disk.height), Present(r)
      PROVE  IF step.done THEN step.answer # Error
             ELSE Claim(step.hash, step.offset, look.slot, value) \in Live[disk.kv]
  <2> HIDE DEF look, value, b, r
  <2> QED  BY <1>6, <1>7, <1>9
<1> HIDE DEF step
<1>10. CASE step.done
  <2> DEFINE t2 == [t EXCEPT !.pc = "evm",
                             !.read = r,
                             !.look = NoLook,
                             !.answer = [account |-> look.account, slot |-> look.slot,
                                         at |-> look.at, value |-> step.answer]]
  <2>1. Set(w, t2)
    BY <1>1, <1>10 DEF Answer
  <2>2. t2.pc = "evm" /\ t2.answer.at = look.at /\ t2.answer.value = step.answer
    BY <1>2 DEF IsTask
  <2>3. task'[w] = t2
    BY <2>1 DEF Set, AInv, TaskInv
  <2> HIDE DEF t2
  <2>4. CompleteInv'
    BY <2>1, <2>2, SetLive
  <2>5. step.answer = Error => ~AtRest
    BY <1>8, <1>9, <1>10
  <2>6. look.at \in 0..disk.height
    BY <1>3
  <2> HIDE DEF look
  <2>7. look.at # disk.height => disk.height > look.at
    BY <1>3, <2>6
  <2> QED  BY <2>2, <2>3, <2>4, <2>5, <2>7 DEF Overtaken
<1>11. CASE ~step.done
  <2> DEFINE t2 == [t EXCEPT !.pc = "trie", !.read = r, !.look = next,
                             !.answer = NoAnswer]
  <2>1. Set(w, t2)
    BY <1>1, <1>11 DEF Descend
  <2>2. t2.look = next /\ t2.answer.value # Error
    BY <1>2 DEF IsTask, NoAnswer, None, Error
  <2>3. task'[w] = t2
    BY <2>1 DEF Set, AInv, TaskInv
  <2> HIDE DEF t2
  <2>4. /\ next.hash = step.hash /\ next.offset = step.offset /\ next.slot = look.slot
        /\ next.account = look.account /\ next.at = look.at
    BY <1>3
  <2>5. Present(r)
    BY <1>11 DEF step, Found
  <2> HIDE DEF next, look
  <2>6. LookLive(next)
    BY <1>9, <1>11, <2>4, <2>5 DEF LookLive, value
  <2>7. CompleteInv'
    BY <2>1, <2>2, <2>6, SetLive
  <2> QED  BY <2>2, <2>3, <2>7
<1> QED  BY <1>10, <1>11

(* The other steps of a task begin no traversal and end none.              *)
LEMMA ValidateLive ==
    ASSUME AInv, LookupInv, CompleteInv, UNCHANGED vars, NEW w \in Workers, Validate(w)
    PROVE  /\ CompleteInv'
           /\ \A u \in Workers :
                 task'[u].answer # task[u].answer /\ task'[u].answer.value = Error
                    => Overtaken(u)
<1> DEFINE t == task[w]
<1>1. IsTask(t)
  BY DEF AInv, TaskInv, TaskOK
<1>2. ASSUME NEW t2, Set(w, t2)
      PROVE  task'[w] = t2 /\ \A u \in Workers \ {w} : task'[u] = task[u]
  BY <1>2 DEF Set, AInv, TaskInv
<1>3. ASSUME CompleteInv', task'[w].answer.value = Error => Overtaken(w), NEW t2, Set(w, t2)
      PROVE  /\ CompleteInv'
             /\ \A u \in Workers :
                   task'[u].answer # task[u].answer /\ task'[u].answer.value = Error
                      => Overtaken(u)
  BY <1>2, <1>3
<1>4. ASSUME NEW t2, Set(w, t2), t2.pc # "trie",
             t2.answer = t.answer \/ t2.answer = NoAnswer
      PROVE  /\ CompleteInv'
             /\ \A u \in Workers :
                   task'[u].answer # task[u].answer /\ task'[u].answer.value = Error
                      => Overtaken(u)
  <2>1. CompleteInv'
    BY <1>4, SetLive
  <2>2. NoAnswer.value # Error
    BY DEF NoAnswer, None, Error
  <2> QED  BY <1>2, <1>4, <2>1, <2>2
<1>5. CASE TakeTask(w)
  <2>1. Set(w, [Idle EXCEPT !.pc = "load"])
    BY <1>5 DEF TakeTask
  <2> DEFINE t2 == [Idle EXCEPT !.pc = "load"]
  <2>2. t2.pc = "load" /\ t2.answer = NoAnswer
    BY DEF Idle
  <2> HIDE DEF t2
  <2> QED  BY <1>4, <2>1, <2>2 DEF t2
<1>6. CASE LoadStore(w)
  <2>1. PICK src, pc : /\ Set(w, [t EXCEPT !.pc = pc, !.src = src])
                       /\ pc \in {"height", "done"}
    <3>1. CASE active
      <4>1. [t EXCEPT !.pc = "height"] = [t EXCEPT !.pc = "height", !.src = t.src]
        BY <1>1 DEF IsTask
      <4> QED  BY <1>6, <3>1, <4>1 DEF LoadStore
    <3>2. CASE ~active
      BY <1>6, <3>2 DEF LoadStore
    <3> QED  BY <3>1, <3>2
  <2> DEFINE t2 == [t EXCEPT !.pc = pc, !.src = src]
  <2>2. t2.pc = pc /\ t2.answer = t.answer
    BY <1>1 DEF IsTask
  <2> HIDE DEF t2
  <2> QED  BY <1>4, <2>1, <2>2 DEF t2
<1>7. CASE ReadHeight(w)
  <2>1. PICK pc \in {"account", "done"} :
           Set(w, [t EXCEPT !.pc = pc, !.label = height])
    BY <1>7 DEF ReadHeight
  <2> DEFINE t2 == [t EXCEPT !.pc = pc, !.label = height]
  <2>2. t2.pc = pc /\ t2.answer = t.answer
    BY <1>1 DEF IsTask
  <2> HIDE DEF t2
  <2> QED  BY <1>4, <2>1, <2>2 DEF t2
<1>8. CASE ReadAccount(w)
  <2>1. PICK k \in Accounts, pc \in {"evm", "done"}, src \in {"local", "coord"} :
           Set(w, [t EXCEPT !.pc = pc, !.read = Get(k), !.src = src])
    BY <1>8 DEF ReadAccount
  <2> DEFINE t2 == [t EXCEPT !.pc = pc, !.read = Get(k), !.src = src]
  <2>2. t2.pc = pc /\ t2.answer = t.answer
    BY <1>1 DEF IsTask
  <2> HIDE DEF t2
  <2> QED  BY <1>4, <2>1, <2>2 DEF t2
<1>9. CASE NoAddress(w)
  <2>1. PICK pc \in {"evm", "done"} : Set(w, [t EXCEPT !.pc = pc, !.src = "coord"])
    BY <1>9 DEF NoAddress
  <2> DEFINE t2 == [t EXCEPT !.pc = pc, !.src = "coord"]
  <2>2. t2.pc = pc /\ t2.answer = t.answer
    BY <1>1 DEF IsTask
  <2> HIDE DEF t2
  <2> QED  BY <1>4, <2>1, <2>2 DEF t2
<1>10. CASE EvmRead(w)
  <2>1. PICK k \in Accounts : Set(w, [t EXCEPT !.read = Get(k), !.answer = NoAnswer])
    BY <1>10 DEF EvmRead
  <2> DEFINE t2 == [t EXCEPT !.read = Get(k), !.answer = NoAnswer]
  <2>2. t2.pc = t.pc /\ t2.answer = NoAnswer /\ t.pc = "evm"
    BY <1>1, <1>10 DEF IsTask, EvmRead
  <2> HIDE DEF t2
  <2> QED  BY <1>4, <2>1, <2>2 DEF t2
<1>11. CASE BeginLookup(w)
  <2>1. PICK t2 : Set(w, t2)
    BY <1>11 DEF BeginLookup, Answer, Descend
  <2> QED  BY <1>3, <1>11, <2>1, BeginLive
<1>12. CASE TrieGet(w)
  <2>1. PICK t2 : Set(w, t2)
    BY <1>12 DEF TrieGet, Answer, Descend
  <2> QED  BY <1>3, <1>12, <2>1, TrieLive
<1>13. CASE EvmDone(w)
  <2> DEFINE t2 == [t EXCEPT !.pc = "done"]
  <2>1. Set(w, t2)
    BY <1>13 DEF EvmDone
  <2>2. t2.pc = "done" /\ t2.answer = t.answer
    BY <1>1 DEF IsTask
  <2> HIDE DEF t2
  <2> QED  BY <1>4, <2>1, <2>2
<1>14. CASE Reply(w)
  <2>1. Set(w, Idle) /\ Idle.pc = "idle" /\ Idle.answer = NoAnswer
    BY <1>14 DEF Reply, Idle
  <2> QED  BY <1>4, <2>1
<1> QED  BY <1>5, <1>6, <1>7, <1>8, <1>9, <1>10, <1>11, <1>12, <1>13, <1>14 DEF Validate

(* A diff that is applied overtakes every traversal under way.             *)
LEMMA AgentLive ==
    ASSUME AInv, LookupInv, CompleteInv, Agent
    PROVE  /\ CompleteInv'
           /\ \A w \in Workers :
                 task'[w].answer = task[w].answer \/ task'[w].answer.value # Error
<1>1. Next
  BY DEF Agent
<1>2. ChainLive'
  BY <1>1, ChainLiveStep DEF AInv, CompleteInv
<1>3. /\ disk.height \in 0..Len(chain) /\ disk'.height >= disk.height
      /\ \A h \in 0..Len(chain) : StateAt(h)' = StateAt(h)
      /\ disk.height \in Nat /\ disk'.height \in Nat
  BY <1>1, HeightGrows, StepInv DEF AInv, IInv, TypeOK, StoreTypeOK
<1>4. CASE task' = [w \in Workers |-> Idle]
  <2>1. \A w \in Workers : task'[w].pc = "idle" /\ task'[w].answer.value # Error
    BY <1>4 DEF Idle, NoAnswer, None, Error
  <2> QED  BY <1>2, <2>1 DEF CompleteInv
<1>5. CASE task' = task
  <2>1. ASSUME NEW w \in Workers, NEW l, l = task[w].look, task[w].pc = "trie"
        PROVE  LookLive(l)'
    <3>1. LookLive(l) /\ l.at \in 0..disk.height
      BY <2>1 DEF CompleteInv, LookupInv, LookupOK, LookOK
    <3> SUFFICES ASSUME l.at = disk'.height, disk'.kv = StateAt(disk.height)'
                 PROVE  Claim(l.hash, l.offset, l.slot, SlotAt(l.account, l.slot, l.at)')
                           \in Live[disk'.kv]
      BY DEF LookLive
    <3>2. disk'.height = disk.height /\ l.at = disk.height
      BY <1>3, <3>1
    <3>3. disk' = disk
      BY <1>1, <3>2, HeightTells DEF AInv
    <3>4. StateAt(l.at)' = StateAt(l.at)
      BY <1>3, <3>2
    <3>5. SlotAt(l.account, l.slot, l.at)' = SlotAt(l.account, l.slot, l.at)
      BY <3>4 DEF SlotAt
    <3>6. StateAt(disk.height)' = StateAt(l.at)
      BY <3>2, <3>4 DEF StateAt
    <3> QED  BY <3>1, <3>2, <3>3, <3>5, <3>6 DEF LookLive
  <2>2. \A w \in Workers : task'[w].pc = "trie" => LookLive(task[w].look)'
    <3> SUFFICES ASSUME NEW w \in Workers, task'[w].pc = "trie"
                 PROVE  LookLive(task[w].look)'
      OBVIOUS
    <3>1. PICK l : l = task[w].look
      OBVIOUS
    <3>2. LookLive(l)' /\ task'[w].look = l
      BY <1>5, <2>1, <3>1
    <3> QED  BY <3>2 DEF LookLive, SlotAt, StateAt
  <2> QED  BY <1>2, <1>5, <2>2 DEF CompleteInv
<1> QED  BY <1>4, <1>5 DEF Agent

LEMMA CompleteStep ==
    ASSUME AInv, LookupInv, CompleteInv, [ANext]_avars
    PROVE  /\ CompleteInv'
           /\ \A w \in Workers :
                 task'[w].answer # task[w].answer /\ task'[w].answer.value = Error
                    => Overtaken(w)
<1>1. ASSUME NEW w \in Workers, Validate(w), UNCHANGED vars
      PROVE  /\ CompleteInv'
             /\ \A u \in Workers :
                   task'[u].answer # task[u].answer /\ task'[u].answer.value = Error
                      => Overtaken(u)
  BY <1>1, ValidateLive
<1>2. CASE Agent
  BY <1>2, AgentLive
<1>3. CASE UNCHANGED avars
  <2>1. UNCHANGED <<disk, chain, task>>
    BY <1>3 DEF avars, vars, storeVars
  <2> QED  BY <2>1 DEF CompleteInv, ChainLive, LookLive, SlotAt, StateAt
<1> QED  BY <1>1, <1>2, <1>3 DEF ANext

(* A lookup fails only on a closed database, when a diff came between its  *)
(* reads, or on a store with holes (mpt.go trieGet, statedb.go:373).       *)
THEOREM LookupFailures == ASpec => LookupFailsOnlyIfOvertaken
<1>1. AInit => CompleteInv
  <2> SUFFICES ASSUME AInit PROVE CompleteInv
    OBVIOUS
  <2>1. \A h \in 0..Len(chain) : StateAt(h) = Empty
    BY DEF AInit, Init, StateAt
  <2>2. \A w \in Workers : task[w].pc = "idle"
    BY DEF AInit, Idle
  <2> QED  BY <2>1, <2>2, CompleteAssumption DEF CompleteInv, ChainLive
<1>2. AInv /\ LookupInv /\ CompleteInv /\ [ANext]_avars => CompleteInv'
  BY CompleteStep
<1>3. AInv /\ LookupInv /\ CompleteInv /\ [ANext]_avars =>
        [\A w \in Workers :
            task'[w].answer # task[w].answer /\ task'[w].answer.value = Error =>
                \/ ~dbOpen
                \/ disk.height > task'[w].answer.at
                \/ disk.kv # StateAt(disk.height)]_avars
  BY CompleteStep DEF Overtaken
<1> QED  BY <1>1, <1>2, <1>3, LookupInvariance, PTL DEF ASpec, LookupFailsOnlyIfOvertaken
-----------------------------------------------------------------------------
(* What the decoders make of an encoded node *)

LEMMA LastIs ==
    ASSUME NEW at \in SUBSET Nat, NEW i \in at, \A j \in at : j <= i
    PROVE  Last(at) = i
<1>1. \A k \in at : (\A j \in at : j <= k) => k = i
  OBVIOUS
<1> QED  BY <1>1 DEF Last

(* A field that occurs once.                                               *)
LEMMA OnlyField ==
    ASSUME NEW msg, DOMAIN msg \subseteq Nat, NEW num, NEW wire, NEW default,
           NEW i \in DOMAIN msg, Is(msg[i], num, wire),
           \A j \in DOMAIN msg : Is(msg[j], num, wire) => j = i
    PROVE  LastOf(msg, num, wire, default) = msg[i].value
<1> DEFINE at == Places(msg, num, wire)
<1>1. at = {i}
  BY DEF Places
<1>2. Last(at) = i
  <2> HIDE DEF at
  <2>1. at \in SUBSET Nat /\ \A j \in at : j <= i
    BY <1>1
  <2> QED  BY <1>1, <2>1, LastIs
<1> QED  BY <1>1, <1>2 DEF LastOf

(* The two fields of a leaf, of an extension, and of a branch's entry.     *)
LEMMA TwoFields ==
    ASSUME NEW a \in Nat, NEW v, NEW wire, NEW b \in Nat, NEW w, NEW default, a # b,
           wire \in {"varint", "bytes"}
    PROVE  LET msg == <<Field(a, wire, v), Field(b, "bytes", w)>>
           IN  /\ LastOf(msg, a, wire, default) = v
               /\ LastOf(msg, b, "bytes", default) = w
               /\ ~Malformed(msg)
<1> DEFINE msg == <<Field(a, wire, v), Field(b, "bytes", w)>>
<1>1. DOMAIN msg = 1..2
  OBVIOUS
<1>2. /\ msg[1].num = a /\ msg[1].wire = wire /\ msg[1].value = v
      /\ msg[2].num = b /\ msg[2].wire = "bytes" /\ msg[2].value = w
  BY DEF Field
<1> HIDE DEF msg
<1>3. LastOf(msg, a, wire, default) = v
  <2>1. 1 \in DOMAIN msg /\ DOMAIN msg \subseteq Nat
    BY <1>1
  <2>2. Is(msg[1], a, wire)
    BY <1>2 DEF Is
  <2>3. \A j \in DOMAIN msg : Is(msg[j], a, wire) => j = 1
    BY <1>1, <1>2 DEF Is
  <2> QED  BY <1>2, <2>1, <2>2, <2>3, OnlyField
<1>4. LastOf(msg, b, "bytes", default) = w
  <2>1. 2 \in DOMAIN msg /\ DOMAIN msg \subseteq Nat
    BY <1>1
  <2>2. Is(msg[2], b, "bytes")
    BY <1>2 DEF Is
  <2>3. \A j \in DOMAIN msg : Is(msg[j], b, "bytes") => j = 2
    BY <1>1, <1>2 DEF Is
  <2> QED  BY <1>2, <2>1, <2>2, <2>3, OnlyField
<1>5. ~Malformed(msg)
  BY <1>1, <1>2 DEF Malformed
<1> QED  BY <1>3, <1>4, <1>5 DEF msg

(* Fields of other numbers that come before the node are not read; what    *)
(* comes behind it is not either.                                          *)
LEMMA NodeField ==
    ASSUME NEW msg, NEW i \in DOMAIN msg, DOMAIN msg \subseteq Nat,
           NEW kind \in 2..4, Is(msg[i], kind, "bytes"),
           \A j \in DOMAIN msg :
               j < i => /\ msg[j].wire # "bad"
                        /\ ~(msg[j].num \in 2..4 /\ msg[j].wire = "bytes")
    PROVE  DecodeNodePb(msg) = CASE kind = 2 -> DecodeBranchPb(msg[i].value)
                                 [] kind = 3 -> DecodeLeafPb(msg[i].value)
                                 [] kind = 4 -> DecodeExtendPb(msg[i].value)
<1> DEFINE stops == {j \in DOMAIN msg : \/ msg[j].wire = "bad"
                                        \/ msg[j].num \in 2..4 /\ msg[j].wire = "bytes"}
           first == CHOOSE j \in stops : \A k \in stops : j <= k
<1>1. i \in stops /\ \A j \in stops : i <= j
  BY DEF Is
<1>2. first = i
  <2>1. stops \subseteq Nat
    OBVIOUS
  <2> HIDE DEF stops
  <2>2. \A j \in stops : (\A k \in stops : j <= k) => j = i
    BY <1>1, <2>1
  <2> QED  BY <1>1, <2>2
<1>3. stops # {}
  BY <1>1
<1>4. DecodeNodePb(msg) = LET f == msg[first]
                          IN  CASE Is(f, 2, "bytes") -> DecodeBranchPb(f.value)
                                [] Is(f, 3, "bytes") -> DecodeLeafPb(f.value)
                                [] Is(f, 4, "bytes") -> DecodeExtendPb(f.value)
                                [] OTHER -> Invalid
  BY <1>3 DEF DecodeNodePb
<1> HIDE DEF first, stops
<1> QED  BY <1>2, <1>4 DEF Is

LEMMA OneNode ==
    ASSUME NEW kind \in 2..4, NEW body
    PROVE  DecodeNodePb(<<Field(kind, "bytes", body)>>)
             = CASE kind = 2 -> DecodeBranchPb(body)
                 [] kind = 3 -> DecodeLeafPb(body)
                 [] kind = 4 -> DecodeExtendPb(body)
<1> DEFINE msg == <<Field(kind, "bytes", body)>>
<1>1. DOMAIN msg = 1..1
  OBVIOUS
<1>2. Is(msg[1], kind, "bytes") /\ msg[1].value = body
  BY DEF Is, Field
<1> HIDE DEF msg
<1>3. DOMAIN msg \subseteq Nat /\ 1 \in DOMAIN msg /\ \A j \in DOMAIN msg : ~(j < 1)
  BY <1>1
<1>4. DecodeNodePb(msg) = CASE kind = 2 -> DecodeBranchPb(msg[1].value)
                            [] kind = 3 -> DecodeLeafPb(msg[1].value)
                            [] kind = 4 -> DecodeExtendPb(msg[1].value)
  BY <1>2, <1>3, NodeField
<1> QED  BY <1>2, <1>4 DEF msg

(* The entries of a branch, in any order and even with repetitions, give   *)
(* back its children.                                                      *)
LEMMA BranchEntries ==
    ASSUME NEW D \in SUBSET (0..(ByteSize - 1)), NEW H, NEW children \in [D -> H],
           NEW order \in Seq(D), D = {order[i] : i \in DOMAIN order}
    PROVE  DecodeBranchPb([i \in DOMAIN order |->
                             Field(1, "bytes", << Field(1, "varint", order[i]),
                                                  Field(2, "bytes", children[order[i]]) >>)])
             = Branch(children)
<1> DEFINE entry(i) == << Field(1, "varint", order[i]),
                          Field(2, "bytes", children[order[i]]) >>
           msg == [i \in DOMAIN order |-> Field(1, "bytes", entry(i))]
           entries == Places(msg, 1, "bytes")
           index(i) == LastOf(msg[i].value, 1, "varint", 0) % ByteSize
           last(b) == Last({i \in entries : index(i) = b})
<1>0. ByteSize \in Nat /\ DOMAIN order \subseteq Nat /\ DOMAIN msg = DOMAIN order
  BY MptAssumption
<1>1. ASSUME NEW i \in DOMAIN order
      PROVE  /\ msg[i].num = 1 /\ msg[i].wire = "bytes"
             /\ ~Malformed(msg[i].value)
             /\ LastOf(msg[i].value, 1, "varint", 0) = order[i]
             /\ LastOf(msg[i].value, 2, "bytes", NilHash) = children[order[i]]
  <2>1. msg[i].num = 1 /\ msg[i].wire = "bytes" /\ msg[i].value = entry(i)
    BY DEF Field
  <2>2. /\ ~Malformed(entry(i))
        /\ LastOf(entry(i), 1, "varint", 0) = order[i]
        /\ LastOf(entry(i), 2, "bytes", NilHash) = children[order[i]]
    <3> DEFINE x == order[i]
               y == children[order[i]]
    <3> HIDE DEF x, y
    <3>1. LET m == << Field(1, "varint", x), Field(2, "bytes", y) >>
          IN  LastOf(m, 1, "varint", 0) = x /\ ~Malformed(m)
      BY TwoFields
    <3>2. LET m == << Field(1, "varint", x), Field(2, "bytes", y) >>
          IN  LastOf(m, 2, "bytes", NilHash) = y
      BY TwoFields
    <3> QED  BY <3>1, <3>2 DEF x, y
  <2> HIDE DEF msg, entry
  <2> QED  BY <2>1, <2>2
<1> HIDE DEF msg
<1>2. entries = DOMAIN order
  BY <1>0, <1>1 DEF Places, Is
<1>3. ~Malformed(msg) /\ \A i \in entries : ~Malformed(msg[i].value)
  BY <1>0, <1>1, <1>2 DEF Malformed
<1>4. ASSUME NEW i \in entries PROVE index(i) = order[i]
  <2>1. order[i] \in 0..(ByteSize - 1)
    BY <1>2
  <2> DEFINE b == order[i]
  <2>2. b \in Nat /\ b < ByteSize
    BY <1>0, <2>1
  <2> HIDE DEF b
  <2>3. b % ByteSize = b
    BY <1>0, <2>2
  <2> QED  BY <1>1, <1>2, <2>3 DEF b
<1> HIDE DEF entries
<1>5. {index(i) : i \in entries} = D
  BY <1>2, <1>4
<1>6. ASSUME NEW b \in D PROVE LastOf(msg[last(b)].value, 2, "bytes", NilHash) = children[b]
  <2> DEFINE at == {i \in entries : index(i) = b}
  <2>1. at = {i \in DOMAIN order : order[i] = b}
    BY <1>2, <1>4
  <2> HIDE DEF at
  <2>2. at # {}
    BY <2>1
  <2>3. at \in SUBSET (1..Len(order)) /\ Len(order) \in Nat
    BY <2>1
  <2>4. PICK k \in at : \A j \in at : j <= k
    BY <2>2, <2>3, GreatestExists
  <2>5. Last(at) = k
    BY <2>3, <2>4, LastIs
  <2>6. k \in DOMAIN order /\ order[k] = b
    BY <2>1
  <2> QED  BY <1>1, <2>5, <2>6 DEF at
<1>7. DecodeBranchPb(msg) = Branch([b \in {index(i) : i \in entries} |->
                              LastOf(msg[last(b)].value, 2, "bytes", NilHash)])
  BY <1>3 DEF DecodeBranchPb, entries
<1>8. [b \in {index(i) : i \in entries} |->
          LastOf(msg[last(b)].value, 2, "bytes", NilHash)] = children
  <2> HIDE DEF index, last
  <2> QED  BY <1>5, <1>6
<1> QED  BY <1>7, <1>8 DEF msg

(* The test TestEncodeDecodeRoundTrip for every node (mpt.go): what the    *)
(* encoders write the decoders read back, a branch in whatever order Go    *)
(* went through the map of its children.                                   *)
THEOREM RoundTrip ==
    /\ \A key, value : DecodeNodePb(EncodeLeafNode(key, value)) = Leaf(key, value)
    /\ \A path, child :
          DecodeNodePb(EncodeExtensionNode(path, child)) = Extension(path, child)
    /\ \A H : \A D \in SUBSET (0..(ByteSize - 1)) : \A children \in [D -> H], order \in Seq(D) :
          D = {order[i] : i \in DOMAIN order} =>
              DecodeNodePb(EncodeBranchNode(children, order)) = Branch(children)
<1>1. ASSUME NEW key, NEW value
      PROVE  DecodeNodePb(EncodeLeafNode(key, value)) = Leaf(key, value)
  <2> DEFINE body == <<Field(2, "bytes", key), Field(3, "bytes", value)>>
  <2>1. DecodeLeafPb(body) = Leaf(key, value)
    BY TwoFields DEF DecodeLeafPb
  <2> HIDE DEF body
  <2>2. DecodeNodePb(<<Field(3, "bytes", body)>>) = DecodeLeafPb(body)
    BY OneNode
  <2> QED  BY <2>1, <2>2 DEF EncodeLeafNode, body
<1>2. ASSUME NEW path, NEW child
      PROVE  DecodeNodePb(EncodeExtensionNode(path, child)) = Extension(path, child)
  <2> DEFINE body == <<Field(1, "bytes", path), Field(2, "bytes", child)>>
  <2>1. DecodeExtendPb(body) = Extension(path, child)
    BY TwoFields DEF DecodeExtendPb
  <2> HIDE DEF body
  <2>2. DecodeNodePb(<<Field(4, "bytes", body)>>) = DecodeExtendPb(body)
    BY OneNode
  <2> QED  BY <2>1, <2>2 DEF EncodeExtensionNode, body
<1>3. ASSUME NEW D \in SUBSET (0..(ByteSize - 1)), NEW H, NEW children \in [D -> H],
             NEW order \in Seq(D), D = {order[i] : i \in DOMAIN order}
      PROVE  DecodeNodePb(EncodeBranchNode(children, order)) = Branch(children)
  <2> DEFINE body == [i \in DOMAIN order |->
                        Field(1, "bytes", << Field(1, "varint", order[i]),
                                             Field(2, "bytes", children[order[i]]) >>)]
  <2>1. DecodeBranchPb(body) = Branch(children)
    BY <1>3, BranchEntries
  <2> HIDE DEF body
  <2>2. DecodeNodePb(<<Field(2, "bytes", body)>>) = DecodeBranchPb(body)
    BY OneNode
  <2> QED  BY <2>1, <2>2 DEF EncodeBranchNode, body
<1> QED  BY <1>1, <1>2, <1>3

(* A leaf that is reached along the bytes of the slot answers for it: with *)
(* its value if it is the slot's, and that there is none if it is another  *)
(* slot's, whose key has the same length (mpt.go trieGet, leaf case).      *)
THEOREM LeafSettles ==
    ASSUME NEW Bytes, NEW key \in Seq(Bytes), NEW slot \in Seq(Bytes),
           Len(key) = Len(slot), NEW offset \in 0..Len(slot),
           \A i \in 1..offset : key[i] = slot[i],
           NEW value
    PROVE  TrieStep(Leaf(key, value), slot, offset)
             = Found(IF key = slot THEN value ELSE None)
<1>0. Len(slot) \in Nat
  OBVIOUS
<1>1. From(key, offset) = From(slot, offset) <=> key = slot
  <2>1. ASSUME From(key, offset) = From(slot, offset) PROVE key = slot
    <3>1. \A i \in 1..(Len(slot) - offset) :
             /\ From(key, offset)[i] = key[offset + i]
             /\ From(slot, offset)[i] = slot[offset + i]
      BY <1>0 DEF From
    <3>2. ASSUME NEW i \in 1..Len(slot) PROVE key[i] = slot[i]
      <4>1. CASE i \in 1..offset
        BY <4>1
      <4>2. CASE i \notin 1..offset
        <5>1. i - offset \in 1..(Len(slot) - offset) /\ offset + (i - offset) = i
          BY <1>0, <4>2
        <5> QED  BY <2>1, <3>1, <5>1
      <4> QED  BY <4>1, <4>2
    <3> QED  BY <3>2
  <2> QED  BY <2>1
<1>2. TrieStep(Leaf(key, value), slot, offset)
        = IF From(key, offset) = From(slot, offset) THEN Found(value) ELSE Found(None)
  <2> DEFINE node == Leaf(key, value)
  <2>1. node.type = "L" /\ node.key = key /\ node.value = value
    BY DEF Leaf
  <2> HIDE DEF node
  <2>2. offset <= Len(key) /\ offset <= Len(slot)
    BY <1>0
  <2>3. TrieStep(node, slot, offset)
          = IF From(node.key, offset) = From(slot, offset)
            THEN Found(node.value) ELSE Found(None)
    BY <2>1, <2>2 DEF TrieStep
  <2> QED  BY <2>1, <2>3 DEF node
<1> QED  BY <1>1, <1>2

=============================================================================
