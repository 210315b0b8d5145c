----------------------------- MODULE StateSync ------------------------------
(***************************************************************************)
(* An L4 agent from boot to shutdown: the worker of runWorker (worker.go)  *)
(* that opens the state store, may load a snapshot (snapshot.go), starts   *)
(* the state sync goroutine (statesync.go) and waits for it before it      *)
(* processes tasks; and that goroutine, which streams the coordinator's    *)
(* state diffs into the store.                                             *)
(*                                                                         *)
(* The coordinator is outside this repository.  What the agent relies on   *)
(* is modelled: one diff per block, streamed in height order and without a *)
(* gap from the height the agent asks for, from block 1 when it asks for 0 *)
(* (the mock coordinator of l4_e2e_test.go).                               *)
(***************************************************************************)
EXTENDS StateStore

CONSTANTS
    Diffs,        \* the entries a block may come with
    SnapKeys,     \* the keys of the namespaces a snapshot file contains
    MaxHeight     \* bound: blocks the coordinator commits

ASSUME SyncAssumption == /\ Diffs \subseteq Seq(Entry)
                         /\ SnapKeys \subseteq Keys
                         /\ MaxHeight \in Nat

VARIABLES
    chain,      \* coordinator: per block its diff and the state after it
    stream,     \* height of the next diff on the open stream, or NoHeight
    diff,       \* height of the diff RecvMsg returned, or NoHeight
    syncPc,     \* where the sync goroutine is
    ready,      \* StateSync.ready and readyCh closed
    workerPc,   \* where runWorker is
    active,     \* activeStateStore is not nil
    cancelled   \* the context of the sync goroutine is cancelled

syncVars == <<stream, diff, syncPc, ready>>
workerVars == <<workerPc, active, cancelled>>
vars == <<storeVars, chain, syncVars, workerVars>>

SyncPc == {"off", "dial", "recv", "apply", "publish", "signal", "sleep", "done"}
WorkerPc == {"down", "register", "open", "load", "publish", "start", "wait",
             "serve", "close", "exit"}

(* The coordinator's state after block h; the chain starts empty.          *)
StateAt(h) == IF h = 0 THEN Empty ELSE chain[h].state

Block == [entries : Diffs, state : Contents]

Init ==
    /\ StoreInit
    /\ chain = <<>>
    /\ stream = NoHeight
    /\ diff = NoHeight
    /\ syncPc = "off"
    /\ ready = FALSE
    /\ workerPc = "down"
    /\ active = FALSE
    /\ cancelled = FALSE

-----------------------------------------------------------------------------
(* The coordinator *)

NewBlock ==
    /\ Len(chain) < MaxHeight
    /\ \E entries \in Diffs :
          chain' = Append(chain,
                          [entries |-> entries,
                           state |-> ApplyEntries(StateAt(Len(chain)), entries)])
    /\ UNCHANGED <<storeVars, syncVars, workerVars>>

(* The first height the coordinator streams to an agent that asks for h.   *)
FirstStreamed(h) == IF h = 0 THEN 1 ELSE h

-----------------------------------------------------------------------------
(* The sync goroutine: syncLoop and streamDiffs *)

(* Slips: resume one block early, without a check for 0; resume at the     *)
(* block that was applied last.                                            *)
SlipFromPrevious == height - 1
SlipFromSame == height

(* The height streamDiffs asks for.                                        *)
FromHeight == IF height > 0 THEN height + 1 ELSE height

OpenStream ==
    /\ syncPc = "dial"
    /\ ~cancelled
    /\ stream' = FirstStreamed(FromHeight)
    /\ syncPc' = "recv"
    /\ UNCHANGED <<storeVars, chain, diff, ready, workerVars>>

(* Slip: the height is published on receipt, before the commit.            *)
SlipRecvPublishes ==
    /\ syncPc = "recv"
    /\ stream <= Len(chain)
    /\ diff' = stream
    /\ stream' = stream + 1
    /\ height' = stream
    /\ syncPc' = "apply"
    /\ UNCHANGED <<disk, dbOpen, unpublished, chain, ready, workerVars>>

RecvDiff ==
    /\ syncPc = "recv"
    /\ stream <= Len(chain)
    /\ diff' = stream
    /\ stream' = stream + 1
    /\ syncPc' = "apply"
    /\ UNCHANGED <<storeVars, chain, ready, workerVars>>

(* ApplyDiff(resp.Height, resp.Entries): nothing compares resp.Height with *)
(* the store's height.                                                     *)
ApplyCommit ==
    /\ syncPc = "apply"
    /\ Commit(diff, ApplyEntries(disk.kv, chain[diff].entries))
    /\ syncPc' = "publish"
    /\ UNCHANGED <<chain, stream, diff, ready, workerVars>>

ApplyPublish ==
    /\ syncPc = "publish"
    /\ Publish
    /\ syncPc' = IF ready THEN "recv" ELSE "signal"
    /\ diff' = NoHeight
    /\ UNCHANGED <<chain, stream, ready, workerVars>>

(* ready.Store(true); close(readyCh), after the first diff.                *)
SignalReady ==
    /\ syncPc = "signal"
    /\ ready' = TRUE
    /\ syncPc' = "recv"
    /\ UNCHANGED <<storeVars, chain, stream, diff, workerVars>>

(* Slip: a failed stream is not reopened.                                  *)
SlipStreamEnds ==
    /\ syncPc \in {"dial", "recv", "apply"}
    /\ stream' = NoHeight
    /\ diff' = NoHeight
    /\ syncPc' = "done"
    /\ UNCHANGED <<storeVars, chain, ready, workerVars>>

(* streamDiffs returns an error: the stream could not be opened, RecvMsg   *)
(* failed, or the transaction failed (always, on a closed database).  A    *)
(* received diff is dropped with the stream.                               *)
StreamFails ==
    /\ syncPc \in {"dial", "recv", "apply"}
    /\ stream' = NoHeight
    /\ diff' = NoHeight
    /\ syncPc' = IF cancelled THEN "done" ELSE "sleep"
    /\ UNCHANGED <<storeVars, chain, ready, workerVars>>

(* The 3 s pause is over; syncLoop looks at the context before it redials. *)
WakeUp ==
    /\ syncPc = "sleep"
    /\ syncPc' = IF cancelled THEN "done" ELSE "dial"
    /\ UNCHANGED <<storeVars, chain, stream, diff, ready, workerVars>>

-----------------------------------------------------------------------------
(* The worker: runWorker *)

Boot ==
    /\ workerPc = "down"
    /\ workerPc' = "register"
    /\ UNCHANGED <<storeVars, chain, syncVars, active, cancelled>>

(* Dialling and the first register: a failure ends the worker.             *)
Register ==
    /\ workerPc = "register"
    /\ workerPc' \in IF cancelled THEN {"exit"} ELSE {"open", "exit"}
    /\ UNCHANGED <<storeVars, chain, syncVars, active, cancelled>>

OpenStore ==
    /\ workerPc = "open"
    /\ OpenStateStore
    /\ workerPc' = "load"
    /\ UNCHANGED <<chain, syncVars, active, cancelled>>

(* OpenStateStore fails: the worker returns with nothing to close.         *)
OpenFails ==
    /\ workerPc = "open"
    /\ workerPc' = "exit"
    /\ UNCHANGED <<storeVars, chain, syncVars, active, cancelled>>

(* A snapshot of height h holds a put for every key of its namespaces that *)
(* is present at h.                                                        *)
Overlay(kv, state) ==
    [k \in Keys |-> IF k \in SnapKeys /\ state[k] # Absent THEN state[k] ELSE kv[k]]

(* LoadSnapshot of a verified file: one ApplyDiff with all its entries.    *)
(* It is called only when the store is at height 0, and skips a file whose *)
(* height is not above the store's.                                        *)
LoadSnapshot ==
    /\ workerPc = "load"
    /\ height = 0
    /\ \E h \in 1..Len(chain) :
          /\ h > height
          /\ Commit(h, Overlay(disk.kv, StateAt(h)))
    /\ workerPc' = "publish"
    /\ UNCHANGED <<chain, syncVars, active, cancelled>>

SnapshotLoaded ==
    /\ workerPc = "publish"
    /\ Publish
    /\ workerPc' = "start"
    /\ UNCHANGED <<chain, syncVars, active, cancelled>>

(* The store has a height, no --snapshot is given, or the file is skipped. *)
SkipSnapshot ==
    /\ workerPc = "load"
    /\ workerPc' = "start"
    /\ UNCHANGED <<storeVars, chain, syncVars, active, cancelled>>

(* The worker returns.  Its deferred calls run: sync.Stop() cancels the    *)
(* goroutine but does not wait for it, then stateStore.Close().            *)
Return ==
    /\ workerPc' = "close"
    /\ cancelled' = TRUE
    /\ UNCHANGED <<storeVars, chain, syncVars, active>>

(* A damaged or unreadable snapshot file: nothing is applied.              *)
LoadFails == workerPc = "load" /\ height = 0 /\ Return

StartSync ==
    /\ workerPc = "start"
    /\ workerPc' = "wait"
    /\ syncPc' = "dial"
    /\ UNCHANGED <<storeVars, chain, stream, diff, ready, active, cancelled>>

(* Slip: the worker does not wait for the first diff.                      *)
SlipServeAtOnce ==
    /\ workerPc = "wait"
    /\ workerPc' = "serve"
    /\ active' = TRUE
    /\ UNCHANGED <<storeVars, chain, syncVars, cancelled>>

(* WaitReady returns nil; the store becomes the one L4 validation uses.    *)
StartServing ==
    /\ workerPc = "wait"
    /\ ready
    /\ workerPc' = "serve"
    /\ active' = TRUE
    /\ UNCHANGED <<storeVars, chain, syncVars, cancelled>>

(* The 60 s of WaitReady are over, or the context is cancelled: select may *)
(* take this branch even when readyCh is closed.                           *)
NotReady == workerPc = "wait" /\ Return

(* streamTasks returns once the context is cancelled.                      *)
Shutdown == workerPc = "serve" /\ cancelled /\ Return

CloseStore ==
    /\ workerPc = "close"
    /\ CloseStateStore
    /\ workerPc' = "exit"
    /\ UNCHANGED <<chain, syncVars, active, cancelled>>

(* SIGINT or SIGTERM cancels the context under everyone's feet.            *)
Signal ==
    /\ workerPc \notin {"down", "exit"}
    /\ ~cancelled
    /\ cancelled' = TRUE
    /\ UNCHANGED <<storeVars, chain, syncVars, workerPc, active>>

(* The process ends: after main's wg.Wait, or killed at any point.         *)
ProcessEnds ==
    /\ LoseMemory
    /\ stream' = NoHeight
    /\ diff' = NoHeight
    /\ syncPc' = "off"
    /\ ready' = FALSE
    /\ workerPc' = "down"
    /\ active' = FALSE
    /\ cancelled' = FALSE
    /\ UNCHANGED chain

Exit == workerPc = "exit" /\ ProcessEnds

Crash == workerPc \notin {"down", "exit"} /\ ProcessEnds

-----------------------------------------------------------------------------

Sync == \/ OpenStream \/ RecvDiff \/ ApplyCommit \/ ApplyPublish
        \/ SignalReady \/ WakeUp

Worker == \/ Register \/ OpenStore \/ OpenFails \/ LoadSnapshot \/ SnapshotLoaded
          \/ SkipSnapshot \/ LoadFails \/ StartSync \/ StartServing
          \/ NotReady \/ Shutdown \/ CloseStore \/ Exit

Next == \/ NewBlock \/ Sync \/ StreamFails \/ Boot \/ Worker \/ Signal \/ Crash

Spec == Init /\ [][Next]_vars

(* The goroutine is always scheduled again and its 3 s pause ends; a       *)
(* cancelled context ends streamTasks.                                     *)
FairSpec == Spec /\ WF_vars(Sync) /\ WF_vars(Shutdown)

-----------------------------------------------------------------------------
(* Properties *)

TypeOK ==
    /\ StoreTypeOK
    /\ chain \in Seq(Block)
    /\ stream \in Nat \cup {NoHeight}
    /\ diff \in Nat \cup {NoHeight}
    /\ syncPc \in SyncPc
    /\ ready \in BOOLEAN
    /\ workerPc \in WorkerPc
    /\ active \in BOOLEAN
    /\ cancelled \in BOOLEAN

(* The file never holds a wrong value: whatever crashed, failed or was     *)
(* retried, a key is either right for the persisted height or absent, and  *)
(* a key of the snapshot's namespaces is right (statestore.go ApplyDiff,   *)
(* statesync.go streamDiffs, snapshot.go LoadSnapshot together).           *)
ReplicaSound ==
    \A k \in Keys :
        /\ disk.kv[k] \in {Absent, StateAt(disk.height)[k]}
        /\ k \in SnapKeys => disk.kv[k] = StateAt(disk.height)[k]

(* streamDiffs applies resp.Height unchecked: the diff in hand is always   *)
(* the one that follows the persisted height, none skipped or repeated,    *)
(* and it is a committed block, on every stream a reconnection opens.      *)
NextDiffFits ==
    syncPc = "apply" => /\ diff = disk.height + 1
                        /\ diff \in 1..Len(chain)

(* L4 validation never gets a store without a state: while activeStateStore*)
(* is set, a height was committed and published (worker.go: WaitReady      *)
(* comes before activeStateStore.Store).                                   *)
ActiveStoreSynced ==
    active => /\ ready
              /\ height \in 1..disk.height

(* The in-memory height is what the file says, but for the commit that is  *)
(* waiting to be published: a resume from it neither skips nor repeats.    *)
HeightMatchesDisk ==
    dbOpen => disk.height = IF unpublished = NoHeight THEN height ELSE unpublished

(* README.md:263: an Account and Code snapshot is "sufficient for L4       *)
(* validation", and L4 "independently reads any contract storage", so a    *)
(* serving agent's store has every key of its height.                      *)
ServingIsComplete ==
    workerPc = "serve" => \A k \in Keys : disk.kv[k] = StateAt(disk.height)[k]

(* The store is a replica of the chain as module Replica promises.         *)
R == INSTANCE Replica WITH kv <- disk.kv, at <- disk.height
ReplicaSpec == R!Spec

Faults == StreamFails \/ Signal \/ Crash

(* A serving agent reaches every committed block once the network and the  *)
(* disk stop failing: a lost stream is reopened (statesync.go syncLoop).   *)
CatchesUp ==
    (<>[][~Faults]_vars) =>
        \A h \in 1..MaxHeight :
            (workerPc = "serve" /\ Len(chain) >= h)
                ~> (disk.height >= h \/ workerPc # "serve")
=============================================================================
