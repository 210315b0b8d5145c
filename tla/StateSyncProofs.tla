--------------------------- MODULE StateSyncProofs --------------------------
(***************************************************************************)
(* The agent's state store follows the coordinator's chain, for every set  *)
(* of keys, values and diffs, every snapshot, and any number of blocks,    *)
(* crashes, restarts and broken streams.                                   *)
(*                                                                         *)
(* ReplicaSound is not inductive.  The strengthening says where the two    *)
(* writers of the store are: the height in memory against the one in the   *)
(* file (HeightMatchesDisk), the height the open stream is at (StreamInv), *)
(* that one writer runs at a time (PcInv), and that every block's state is *)
(* its predecessor's with its diff applied (ChainInv).                     *)
(***************************************************************************)
EXTENDS StateSync, WellFoundedInduction, TLAPS

(* A non-empty set of numbers up to a bound has a greatest element.        *)
LEMMA GreatestExists ==
    ASSUME NEW n \in Nat, NEW S \in SUBSET (1..n), S # {}
    PROVE  \E k \in S : \A j \in S : j <= k
<1> DEFINE T == {m \in Nat : \E k \in S : m = n - k}
<1>1. T # {} /\ T \subseteq Nat
  <2>1. PICK k \in S : TRUE
    OBVIOUS
  <2>2. n - k \in Nat
    BY <2>1
  <2> QED  BY <2>2
<1>2. PICK m \in T : \A l \in T : <<l, m>> \notin OpToRel(<, Nat)
  <2> HIDE DEF T
  <2> QED  BY <1>1, NatLessThanWellFounded, WFMin
<1>3. PICK k \in S : m = n - k
  OBVIOUS
<1>4. ASSUME NEW j \in S PROVE j <= k
  <2>1. n - j \in T /\ n - j \in Nat /\ m \in Nat
    OBVIOUS
  <2>2. ~(n - j < m)
    BY <1>2, <2>1 DEF OpToRel
  <2> QED  BY <1>3, <2>2
<1> QED  BY <1>4

-----------------------------------------------------------------------------
(* What ApplyDiff makes of the contents (StateStore's ApplyEntries) *)

(* An entry that names a key has a last one among those that write it.     *)
LEMMA LastWriterExists ==
    ASSUME NEW k \in Keys, NEW es \in Seq(Entry), Writers(k, es) # {}
    PROVE  /\ LastWriter(k, es) \in Writers(k, es)
           /\ \A j \in Writers(k, es) : j <= LastWriter(k, es)
<1>1. Writers(k, es) \in SUBSET (1..Len(es)) /\ Len(es) \in Nat
  BY DEF Writers
<1>2. \E i \in Writers(k, es) : \A j \in Writers(k, es) : j <= i
  BY <1>1, GreatestExists
<1> QED  BY <1>2 DEF LastWriter

(* A diff leaves every key with a value of the store, or absent.           *)
LEMMA ApplyEntriesType ==
    ASSUME NEW kv \in Contents, NEW es \in Seq(Entry)
    PROVE  ApplyEntries(kv, es) \in Contents
<1> SUFFICES ASSUME NEW k \in Keys
             PROVE  ApplyEntries(kv, es)[k] \in Values \cup {Absent}
  BY DEF ApplyEntries, Contents
<1>1. CASE Writers(k, es) = {}
  BY <1>1 DEF ApplyEntries, Contents
<1>2. CASE Writers(k, es) # {}
  <2>1. LastWriter(k, es) \in DOMAIN es
    BY <1>2, LastWriterExists DEF Writers
  <2>2. es[LastWriter(k, es)] \in Entry
    BY <2>1
  <2>3. Written(es[LastWriter(k, es)]) \in Values \cup {Absent}
    BY <2>2 DEF Written, Entry
  <2> QED  BY <1>2, <2>3 DEF ApplyEntries
<1> QED  BY <1>1, <1>2

(* An empty diff changes nothing.                                          *)
LEMMA ApplyNothing ==
    ASSUME NEW kv \in Contents
    PROVE  ApplyEntries(kv, <<>>) = kv
BY DEF ApplyEntries, Writers, Contents

(* ApplyEntries is the loop of ApplyDiff (statestore.go): one more entry   *)
(* puts its value, deletes its key, or is skipped for its write type.      *)
THEOREM ApplyOneMore ==
    ASSUME NEW kv \in Contents, NEW es \in Seq(Entry), NEW e \in Entry
    PROVE  ApplyEntries(kv, Append(es, e)) =
             IF e.type \in {WriteTypePut, WriteTypeDelete}
             THEN [ApplyEntries(kv, es) EXCEPT ![e.key] = Written(e)]
             ELSE ApplyEntries(kv, es)
<1> DEFINE all == Append(es, e)
           writes == e.type \in {WriteTypePut, WriteTypeDelete}
           n == Len(es) + 1
<1>1. /\ DOMAIN es = 1..Len(es)
      /\ DOMAIN all = 1..n
      /\ all[n] = e
      /\ \A i \in 1..Len(es) : all[i] = es[i]
      /\ all \in Seq(Entry)
  OBVIOUS
<1> HIDE DEF all
<1>2. ASSUME NEW k \in Keys, writes, k = e.key
      PROVE  ApplyEntries(kv, all)[k] = Written(e)
  <2>1. n \in Writers(k, all)
    BY <1>1, <1>2 DEF Writers
  <2>2. LastWriter(k, all) = n
    <3>1. /\ LastWriter(k, all) \in Writers(k, all)
          /\ n <= LastWriter(k, all)
      BY <1>1, <2>1, LastWriterExists
    <3> QED  BY <3>1, <1>1 DEF Writers
  <2> QED  BY <1>1, <2>1, <2>2 DEF ApplyEntries
<1>3. ASSUME NEW k \in Keys, ~writes \/ k # e.key
      PROVE  ApplyEntries(kv, all)[k] = ApplyEntries(kv, es)[k]
  <2>1. Writers(k, all) = Writers(k, es)
    BY <1>1, <1>3 DEF Writers
  <2>2. CASE Writers(k, es) = {}
    BY <2>1, <2>2 DEF ApplyEntries
  <2>3. CASE Writers(k, es) # {}
    <3>1. LastWriter(k, all) = LastWriter(k, es)
      BY <2>1 DEF LastWriter
    <3>2. LastWriter(k, es) \in 1..Len(es)
      BY <2>3, <1>1, LastWriterExists DEF Writers
    <3> QED  BY <1>1, <2>1, <2>3, <3>1, <3>2 DEF ApplyEntries
  <2> QED  BY <2>2, <2>3
<1>4. e.key \in Keys
  BY DEF Entry
<1>5. ApplyEntries(kv, all) = [k \in Keys |-> ApplyEntries(kv, all)[k]]
  BY DEF ApplyEntries
<1>6. ApplyEntries(kv, es) = [k \in Keys |-> ApplyEntries(kv, es)[k]]
  BY DEF ApplyEntries
<1>7. CASE writes
  <2>1. \A k \in Keys : ApplyEntries(kv, all)[k] =
           [ApplyEntries(kv, es) EXCEPT ![e.key] = Written(e)][k]
    BY <1>2, <1>3, <1>4, <1>6, <1>7
  <2> QED  BY <1>5, <1>6, <1>7, <2>1 DEF all
<1>8. CASE ~writes
  BY <1>3, <1>5, <1>6, <1>8 DEF all
<1> QED  BY <1>7, <1>8

(* A diff never depends on more of the old contents than the key itself:   *)
(* a key that agrees with another state's, or that is absent, still        *)
(* agrees, or is absent, once both took the diff.                          *)
LEMMA ApplyKeepsAgreement ==
    ASSUME NEW kv, NEW state, NEW es, NEW k \in Keys
    PROVE  /\ kv[k] = state[k] =>
                ApplyEntries(kv, es)[k] = ApplyEntries(state, es)[k]
           /\ kv[k] = Absent =>
                ApplyEntries(kv, es)[k] \in {Absent, ApplyEntries(state, es)[k]}
BY DEF ApplyEntries

-----------------------------------------------------------------------------
(* The invariant *)

(* The store is open, and has one writer, where the code has it so.        *)
PcInv ==
    /\ workerPc \in {"down", "register", "open"} => ~dbOpen
    /\ workerPc \in {"load", "publish", "start", "wait", "serve", "close"} => dbOpen
    /\ workerPc \in {"down", "register", "open", "load", "publish", "start"}
          => syncPc = "off"
    /\ unpublished # NoHeight <=> "publish" \in {workerPc, syncPc}
    /\ workerPc = "down" => ~active /\ ~ready
    /\ syncPc \in {"off", "signal"} => ~ready
    /\ active => ready

(* What streamDiffs holds while a stream is open.                          *)
StreamInv ==
    /\ syncPc \in {"recv", "signal", "publish"} => stream = disk.height + 1
    /\ syncPc = "apply" => /\ diff = disk.height + 1
                           /\ diff \in 1..Len(chain)
                           /\ stream = diff + 1

(* The in-memory height, also after the store was closed.                  *)
HeightInv ==
    /\ disk.height \in 0..Len(chain)
    /\ unpublished # NoHeight => unpublished = disk.height
    /\ dbOpen \/ syncPc # "off" \/ ready =>
          disk.height = IF unpublished = NoHeight THEN height ELSE unpublished
    /\ syncPc = "signal" \/ ready => height >= 1 /\ height <= disk.height
    /\ syncPc = "publish" => disk.height >= 1

ChainInv ==
    \A h \in 1..Len(chain) :
        chain[h].state = ApplyEntries(StateAt(h - 1), chain[h].entries)

IInv ==
    /\ TypeOK
    /\ PcInv
    /\ StreamInv
    /\ HeightInv
    /\ ChainInv
    /\ ReplicaSound

-----------------------------------------------------------------------------
(* Facts the steps share *)

(* A step that changes neither the file nor the chain keeps what is said   *)
(* of them.                                                                *)
LEMMA DiskStable ==
    ASSUME ChainInv, ReplicaSound, UNCHANGED <<disk, chain>>
    PROVE  ChainInv' /\ ReplicaSound'
BY DEF ChainInv, ReplicaSound, StateAt

(* Every height of the chain has a state.                                  *)
LEMMA StateAtType ==
    ASSUME TypeOK, NEW h \in 0..Len(chain)
    PROVE  StateAt(h) \in Contents
<1>1. CASE h = 0
  BY <1>1 DEF StateAt, Empty, Contents
<1>2. CASE h # 0
  <2>1. h \in 1..Len(chain)
    BY <1>2
  <2>2. chain[h] \in Block
    BY <2>1 DEF TypeOK
  <2> QED  BY <1>2, <2>2 DEF StateAt, Block
<1> QED  BY <1>1, <1>2

LEMMA InitInv == Init => IInv
<1> SUFFICES ASSUME Init PROVE IInv
  OBVIOUS
<1> USE SyncAssumption, StoreAssumption DEF Init, StoreInit
<1>1. TypeOK
  <2>1. Empty \in Contents
    BY DEF Empty, Contents
  <2>2. StoreTypeOK
    BY <2>1 DEF StoreTypeOK
  <2>3. chain \in Seq(Block)
    OBVIOUS
  <2> QED  BY <2>2, <2>3 DEF TypeOK, SyncPc, WorkerPc
<1>2. PcInv
  BY DEF PcInv
<1>3. StreamInv
  BY DEF StreamInv
<1>4. HeightInv
  BY DEF HeightInv
<1>5. ChainInv
  BY DEF ChainInv
<1>6. ReplicaSound
  BY DEF ReplicaSound, StateAt, Empty
<1> QED  BY <1>1, <1>2, <1>3, <1>4, <1>5, <1>6 DEF IInv

-----------------------------------------------------------------------------
(* The three steps that change the file or the chain *)

LEMMA NewBlockInv == IInv /\ NewBlock => IInv'
<1> SUFFICES ASSUME IInv, NewBlock PROVE IInv'
  OBVIOUS
<1> USE SyncAssumption, StoreAssumption DEF IInv
<1>1. PICK es \in Diffs :
        chain' = Append(chain, [entries |-> es,
                                state |-> ApplyEntries(StateAt(Len(chain)), es)])
  BY DEF NewBlock
<1>2. UNCHANGED <<storeVars, syncVars, workerVars>>
  BY DEF NewBlock
<1> DEFINE b == [entries |-> es, state |-> ApplyEntries(StateAt(Len(chain)), es)]
<1>3. chain \in Seq(Block)
  BY DEF TypeOK
<1>4. b \in Block
  BY <1>3, StateAtType, ApplyEntriesType DEF Block
<1>5. /\ chain' \in Seq(Block)
      /\ Len(chain') = Len(chain) + 1
      /\ chain'[Len(chain')] = b
      /\ \A h \in 1..Len(chain) : chain'[h] = chain[h]
  BY <1>1, <1>3, <1>4
<1>6. \A h \in 0..Len(chain) : StateAt(h)' = StateAt(h)
  BY <1>5 DEF StateAt
<1>7. TypeOK'
  BY <1>2, <1>5 DEF TypeOK, StoreTypeOK, storeVars, syncVars, workerVars
<1>8. PcInv'
  BY <1>2 DEF PcInv, storeVars, syncVars, workerVars
<1>9. StreamInv'
  BY <1>2, <1>3, <1>5 DEF StreamInv, storeVars, syncVars, workerVars
<1>10. HeightInv'
  BY <1>2, <1>3, <1>5 DEF HeightInv, storeVars, syncVars, workerVars
<1>11. ChainInv'
  <2> SUFFICES ASSUME NEW h \in 1..Len(chain')
               PROVE  chain'[h].state = ApplyEntries(StateAt(h - 1)', chain'[h].entries)
    BY DEF ChainInv
  <2>1. CASE h = Len(chain')
    BY <1>3, <1>5, <1>6, <2>1
  <2>2. CASE h # Len(chain')
    <3>1. h \in 1..Len(chain) /\ h - 1 \in 0..Len(chain)
      BY <1>3, <1>5, <2>2
    <3> QED  BY <1>5, <1>6, <3>1 DEF ChainInv
  <2> QED  BY <2>1, <2>2
<1>12. ReplicaSound'
  BY <1>2, <1>6 DEF ReplicaSound, HeightInv, storeVars
<1> QED  BY <1>7, <1>8, <1>9, <1>10, <1>11, <1>12

(* The next diff takes a sound replica to a sound replica of the next      *)
(* block.                                                                  *)
LEMMA ApplyCommitInv == IInv /\ ApplyCommit => IInv'
<1> SUFFICES ASSUME IInv, ApplyCommit PROVE IInv'
  OBVIOUS
<1> USE SyncAssumption, StoreAssumption DEF IInv
<1> DEFINE es == chain[diff].entries
           kv2 == ApplyEntries(disk.kv, es)
<1>1. /\ syncPc = "apply" /\ syncPc' = "publish"
      /\ disk' = [kv |-> kv2, height |-> diff]
      /\ dbOpen /\ unpublished = NoHeight /\ unpublished' = diff
      /\ UNCHANGED <<height, dbOpen, chain, stream, diff, ready>>
      /\ UNCHANGED <<workerPc, active, cancelled>>
  BY DEF ApplyCommit, Commit, workerVars
<1>2. diff = disk.height + 1 /\ diff \in 1..Len(chain) /\ stream = diff + 1
  BY <1>1 DEF StreamInv
<1>3. chain[diff] \in Block
  BY <1>2 DEF TypeOK
<1>3a. es \in Seq(Entry)
  BY <1>3 DEF Block
<1>4. kv2 \in Contents
  BY <1>3a, ApplyEntriesType DEF TypeOK, StoreTypeOK
<1> HIDE DEF kv2
<1>5. disk'.kv = kv2 /\ disk'.height = diff /\ disk' \in [kv : Contents, height : Nat]
  BY <1>1, <1>2, <1>4 DEF TypeOK
<1>6. TypeOK'
  BY <1>1, <1>2, <1>5 DEF TypeOK, StoreTypeOK, SyncPc
<1>7. PcInv'
  BY <1>1, <1>2 DEF PcInv
<1>8. StreamInv'
  BY <1>1, <1>2, <1>5 DEF StreamInv
<1>9. HeightInv'
  BY <1>1, <1>2, <1>5 DEF HeightInv, TypeOK, StoreTypeOK
<1>10. ChainInv'
  BY <1>1 DEF ChainInv, StateAt
<1>11. ReplicaSound'
  <2> SUFFICES ASSUME NEW k \in Keys
               PROVE  /\ kv2[k] \in {Absent, StateAt(diff)[k]}
                      /\ k \in SnapKeys => kv2[k] = StateAt(diff)[k]
    BY <1>1, <1>5 DEF ReplicaSound, StateAt
  <2>1. StateAt(diff) = ApplyEntries(StateAt(disk.height), es)
    <3>1. diff - 1 = disk.height
      BY <1>2 DEF TypeOK, StoreTypeOK
    <3> QED  BY <1>2, <3>1 DEF ChainInv, StateAt
  <2>2. /\ disk.kv[k] \in {Absent, StateAt(disk.height)[k]}
        /\ k \in SnapKeys => disk.kv[k] = StateAt(disk.height)[k]
    BY DEF ReplicaSound
  <2> QED  BY <2>1, <2>2, ApplyKeepsAgreement DEF kv2
<1> QED  BY <1>6, <1>7, <1>8, <1>9, <1>10, <1>11

(* A snapshot goes into an empty store, so what it does not hold is absent. *)
LEMMA LoadSnapshotInv == IInv /\ LoadSnapshot => IInv'
<1> SUFFICES ASSUME IInv, LoadSnapshot PROVE IInv'
  OBVIOUS
<1> USE SyncAssumption, StoreAssumption DEF IInv
<1>1. PICK h \in 1..Len(chain) : Commit(h, Overlay(disk.kv, StateAt(h)))
  BY DEF LoadSnapshot
<1> DEFINE kv2 == Overlay(disk.kv, StateAt(h))
<1>2. /\ workerPc = "load" /\ workerPc' = "publish" /\ height = 0
      /\ disk' = [kv |-> kv2, height |-> h]
      /\ dbOpen /\ unpublished = NoHeight /\ unpublished' = h
      /\ UNCHANGED <<height, dbOpen, chain, active, cancelled>>
      /\ UNCHANGED <<stream, diff, syncPc, ready>>
  BY <1>1 DEF LoadSnapshot, Commit, syncVars
<1>3. syncPc = "off" /\ ~ready
  BY <1>2 DEF PcInv
<1>4. StateAt(h) \in Contents
  BY StateAtType DEF TypeOK
<1>5. \A k \in Keys : disk.kv[k] = Absent
  <2>1. disk.height = 0
    BY <1>2 DEF HeightInv
  <2> QED  BY <2>1 DEF ReplicaSound, StateAt, Empty
<1>6. kv2 \in Contents
  BY <1>4, <1>5 DEF Overlay, Contents
<1>7. \A k \in Keys : /\ kv2[k] \in {Absent, StateAt(h)[k]}
                      /\ k \in SnapKeys => kv2[k] = StateAt(h)[k]
  BY <1>5 DEF Overlay
<1> HIDE DEF kv2
<1>8. disk'.kv = kv2 /\ disk'.height = h /\ disk' \in [kv : Contents, height : Nat]
  BY <1>2, <1>6
<1>9. TypeOK'
  BY <1>2, <1>8 DEF TypeOK, StoreTypeOK, WorkerPc
<1>10. PcInv'
  BY <1>2, <1>3 DEF PcInv
<1>11. StreamInv'
  BY <1>2, <1>3 DEF StreamInv
<1>12. HeightInv'
  BY <1>2, <1>3, <1>8 DEF HeightInv, TypeOK, StoreTypeOK
<1>13. ChainInv'
  BY <1>2 DEF ChainInv, StateAt
<1>14. ReplicaSound'
  BY <1>2, <1>7, <1>8 DEF ReplicaSound, StateAt
<1> QED  BY <1>9, <1>10, <1>11, <1>12, <1>13, <1>14

-----------------------------------------------------------------------------
(* The steps that leave the file and the chain alone *)

ControlInv == TypeOK /\ PcInv /\ StreamInv /\ HeightInv

LEMMA ControlSteps ==
    ASSUME IInv, UNCHANGED <<disk, chain>>, [Next]_vars
    PROVE  ControlInv'
<1> USE SyncAssumption, StoreAssumption
    DEF IInv, ControlInv, TypeOK, StoreTypeOK, PcInv, StreamInv, HeightInv
<1>1. CASE OpenStream
  BY <1>1 DEF OpenStream, FirstStreamed, FromHeight, SyncPc, storeVars, workerVars
<1>2. CASE RecvDiff
  BY <1>2 DEF RecvDiff, SyncPc, storeVars, workerVars
<1>3. CASE ApplyPublish
  BY <1>3 DEF ApplyPublish, Publish, SyncPc, workerVars
<1>4. CASE SignalReady
  BY <1>4 DEF SignalReady, SyncPc, storeVars, workerVars
<1>5. CASE StreamFails
  BY <1>5 DEF StreamFails, SyncPc, storeVars, workerVars
<1>6. CASE WakeUp
  BY <1>6 DEF WakeUp, SyncPc, storeVars, workerVars
<1>7. CASE Boot
  BY <1>7 DEF Boot, WorkerPc, storeVars, syncVars
<1>8. CASE Register
  BY <1>8 DEF Register, WorkerPc, storeVars, syncVars
<1>9. CASE OpenStore
  BY <1>9 DEF OpenStore, OpenStateStore, WorkerPc, syncVars
<1>10. CASE OpenFails
  BY <1>10 DEF OpenFails, WorkerPc, storeVars, syncVars
<1>11. CASE SnapshotLoaded
  BY <1>11 DEF SnapshotLoaded, Publish, WorkerPc, syncVars
<1>12. CASE SkipSnapshot
  BY <1>12 DEF SkipSnapshot, WorkerPc, storeVars, syncVars
<1>13. CASE StartSync
  BY <1>13 DEF StartSync, WorkerPc, SyncPc, storeVars
<1>14. CASE StartServing
  BY <1>14 DEF StartServing, WorkerPc, storeVars, syncVars
<1>15. CASE LoadFails \/ NotReady \/ Shutdown
  <2>1. /\ workerPc \in {"load", "wait", "serve"}
        /\ workerPc' = "close"
        /\ cancelled' = TRUE
        /\ UNCHANGED <<storeVars, chain, syncVars, active>>
    BY <1>15 DEF LoadFails, NotReady, Shutdown, Return
  <2> QED  BY <2>1 DEF WorkerPc, storeVars, syncVars
<1>16. CASE CloseStore
  BY <1>16 DEF CloseStore, CloseStateStore, WorkerPc, syncVars
<1>17. CASE Signal
  BY <1>17 DEF Signal, storeVars, syncVars
<1>18. CASE Exit \/ Crash
  <2>1. /\ height' = 0 /\ dbOpen' = FALSE /\ unpublished' = NoHeight
        /\ stream' = NoHeight /\ diff' = NoHeight
        /\ syncPc' = "off" /\ ready' = FALSE
        /\ workerPc' = "down" /\ active' = FALSE /\ cancelled' = FALSE
    BY <1>18 DEF Exit, Crash, ProcessEnds, LoseMemory
  <2> QED  BY <2>1 DEF WorkerPc, SyncPc
<1>19. CASE NewBlock \/ ApplyCommit \/ LoadSnapshot
  BY <1>19, NewBlockInv, ApplyCommitInv, LoadSnapshotInv
<1>20. CASE UNCHANGED vars
  BY <1>20 DEF vars, storeVars, syncVars, workerVars
<1> QED
  BY <1>1, <1>2, <1>3, <1>4, <1>5, <1>6, <1>7, <1>8, <1>9, <1>10, <1>11, <1>12, <1>13, <1>14, <1>15, <1>16, <1>17, <1>18, <1>19, <1>20 DEF Next, Sync, Worker

-----------------------------------------------------------------------------
(* The theorems *)

(* Three actions change the file or the chain.                             *)
LEMMA OtherStepsStable ==
    [Next]_vars => NewBlock \/ ApplyCommit \/ LoadSnapshot \/ UNCHANGED <<disk, chain>>
BY DEF Next, Sync, Worker, vars, storeVars, OpenStream, RecvDiff, ApplyPublish,
       SignalReady, StreamFails, WakeUp, Boot, Register, OpenStore, OpenFails,
       OpenStateStore, SnapshotLoaded, Publish, SkipSnapshot, StartSync,
       StartServing, LoadFails, NotReady, Shutdown, Return, CloseStore,
       CloseStateStore, Signal, Exit, Crash, ProcessEnds, LoseMemory

LEMMA StepInv == IInv /\ [Next]_vars => IInv'
<1> SUFFICES ASSUME IInv, [Next]_vars PROVE IInv'
  OBVIOUS
<1>1. CASE NewBlock \/ ApplyCommit \/ LoadSnapshot
  BY <1>1, NewBlockInv, ApplyCommitInv, LoadSnapshotInv
<1>2. CASE UNCHANGED <<disk, chain>>
  <2>1. ControlInv'
    BY <1>2, ControlSteps
  <2>2. ChainInv' /\ ReplicaSound'
    BY <1>2, DiskStable DEF IInv
  <2> QED  BY <2>1, <2>2 DEF ControlInv, IInv
<1> QED  BY <1>1, <1>2, OtherStepsStable

(* The strengthened invariant holds of every behaviour of the agent.       *)
THEOREM Invariance == Spec => []IInv
<1>1. Init => IInv
  BY InitInv
<1>2. IInv /\ [Next]_vars => IInv'
  BY StepInv
<1> QED  BY <1>1, <1>2, PTL DEF Spec

(* Every variable keeps its type.                                          *)
THEOREM TypeCorrect == Spec => []TypeOK
BY Invariance, PTL DEF IInv

(* The file is never wrong: a key is right for the persisted height, or    *)
(* absent, and right if its namespace came with the snapshot.              *)
THEOREM SoundReplica == Spec => []ReplicaSound
BY Invariance, PTL DEF IInv

(* streamDiffs applies only the diff that follows the persisted height.    *)
THEOREM Contiguous == Spec => []NextDiffFits
<1>1. IInv => NextDiffFits
  BY DEF IInv, StreamInv, NextDiffFits
<1> QED  BY <1>1, Invariance, PTL

(* activeStateStore is set only to a store with a published height.        *)
THEOREM ServesSynced == Spec => []ActiveStoreSynced
<1>1. IInv => ActiveStoreSynced
  BY DEF IInv, TypeOK, StoreTypeOK, PcInv, HeightInv, ActiveStoreSynced
<1> QED  BY <1>1, Invariance, PTL

(* The height in memory and the one in the file agree but for a commit     *)
(* that is about to be published.                                          *)
THEOREM HeightAgrees == Spec => []HeightMatchesDisk
<1>1. IInv => HeightMatchesDisk
  BY DEF IInv, HeightInv, HeightMatchesDisk
<1> QED  BY <1>1, Invariance, PTL

-----------------------------------------------------------------------------
(* The agent implements the abstract replica *)

LEMMA ReplicaInit == Init => R!Init
BY DEF Init, StoreInit, R!Init, Empty

LEMMA StateAtIsReplicaStateAt ==
    \A h : R!StateAt(chain, h) = StateAt(h)
BY DEF R!StateAt, StateAt, Empty

(* What the invariant says of the contents is soundness as Replica has it. *)
LEMMA SoundStep ==
    ASSUME IInv, IInv', NEW h, h = disk'.height, UNCHANGED chain
    PROVE  disk'.kv \in R!Sound(h)
<1>1. disk'.kv \in [Keys -> Values \cup {Absent}]
  BY DEF IInv, TypeOK, StoreTypeOK, Contents
<1>2. ASSUME NEW k \in Keys, disk'.kv[k] # Absent
      PROVE  k \in R!Tracked(disk'.kv, h)
  <2>1. disk'.kv[k] = StateAt(h)[k]
    BY <1>2 DEF IInv, ReplicaSound, StateAt
  <2> QED  BY <2>1, StateAtIsReplicaStateAt DEF R!Tracked
<1> QED  BY <1>1, <1>2 DEF R!Sound

LEMMA ReplicaStep == IInv /\ [Next]_vars => [R!Next]_(R!vars)
<1> SUFFICES ASSUME IInv, [Next]_vars PROVE [R!Next]_(R!vars)
  OBVIOUS
<1>0. IInv'
  BY StepInv
<1>1. CASE UNCHANGED <<disk, chain>>
  BY <1>1 DEF R!vars
<1>2. CASE NewBlock
  <2>1. chain \in Seq(Block) /\ UNCHANGED disk
    BY <1>2 DEF IInv, TypeOK, NewBlock, storeVars
  <2>2. PICK b : chain' = Append(chain, b)
    BY <1>2 DEF NewBlock
  <2>3. /\ Len(chain') = Len(chain) + 1
        /\ \A h \in 1..Len(chain) : chain'[h] = chain[h]
    BY <2>1, <2>2
  <2> QED  BY <2>1, <2>3 DEF R!Next, R!NewBlock
<1>3. CASE ApplyCommit
  <2>1. /\ syncPc = "apply" /\ UNCHANGED chain
        /\ disk' = [kv |-> ApplyEntries(disk.kv, chain[diff].entries), height |-> diff]
    BY <1>3 DEF ApplyCommit, Commit
  <2>2. diff = disk.height + 1 /\ diff \in 1..Len(chain) /\ disk.height \in Nat
    BY <2>1 DEF IInv, StreamInv, TypeOK, StoreTypeOK
  <2>3. disk'.height = disk.height + 1 /\ disk.height < Len(chain)
    BY <2>1, <2>2 DEF IInv, TypeOK
  <2>4. disk'.kv \in R!Sound(disk.height + 1)
    BY <1>0, <2>1, <2>3, SoundStep
  <2>5. R!Tracked(disk.kv, disk.height) \subseteq R!Tracked(disk'.kv, disk.height + 1)
    <3>1. diff - 1 = disk.height
      BY <2>2
    <3>2. StateAt(disk.height + 1) =
             ApplyEntries(StateAt(disk.height), chain[diff].entries)
      BY <2>2, <3>1 DEF IInv, ChainInv, StateAt
    <3>3. disk'.kv = ApplyEntries(disk.kv, chain[diff].entries)
      BY <2>1
    <3>4. ASSUME NEW k \in Keys, disk.kv[k] = StateAt(disk.height)[k]
          PROVE  disk'.kv[k] = StateAt(disk.height + 1)[k]
      BY <3>2, <3>3, <3>4, ApplyKeepsAgreement
    <3> QED  BY <3>4, StateAtIsReplicaStateAt DEF R!Tracked
  <2> QED  BY <2>1, <2>3, <2>4, <2>5 DEF R!Next, R!Follow
<1>4. CASE LoadSnapshot
  <2>1. PICK h \in 1..Len(chain) : Commit(h, Overlay(disk.kv, StateAt(h)))
    BY <1>4 DEF LoadSnapshot
  <2>2. /\ workerPc = "load" /\ height = 0 /\ UNCHANGED chain
        /\ dbOpen /\ unpublished = NoHeight
        /\ disk' = [kv |-> Overlay(disk.kv, StateAt(h)), height |-> h]
    BY <1>4, <2>1 DEF LoadSnapshot, Commit
  <2>3. disk.height = 0 /\ disk'.height = h
    BY <2>2 DEF IInv, HeightInv
  <2>4. disk'.kv \in R!Sound(h)
    BY <1>0, <2>2, <2>3, SoundStep
  <2>5. SnapKeys \subseteq R!Tracked(disk'.kv, h)
    <3>1. \A k \in SnapKeys : disk'.kv[k] = StateAt(h)[k]
      BY <1>0, <2>2, <2>3, SyncAssumption DEF IInv, ReplicaSound, StateAt
    <3> QED  BY <3>1, SyncAssumption, StateAtIsReplicaStateAt DEF R!Tracked
  <2> QED  BY <2>2, <2>3, <2>4, <2>5 DEF R!Next, R!Bootstrap
<1> QED  BY <1>1, <1>2, <1>3, <1>4, OtherStepsStable

(* Read through its file, the agent is the replica of module Replica.      *)
THEOREM Refinement == Spec => ReplicaSpec
<1>1. Init => R!Init
  BY ReplicaInit
<1>2. IInv /\ [Next]_vars => [R!Next]_(R!vars)
  BY ReplicaStep
<1> QED  BY <1>1, <1>2, Invariance, PTL DEF Spec, R!Spec, ReplicaSpec
=============================================================================
