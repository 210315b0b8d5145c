--------------------------- MODULE SnapshotLoader ---------------------------
(***************************************************************************)
(* The agent of module StateSync with the snapshot file itself             *)
(* (snapshot.go): its parts, what may have happened to it on its way from  *)
(* the exporter, and the checks of LoadSnapshot, in their order.  StateSync*)
(* has the outcome only; the property ImplementsSync says the checks give  *)
(* no other.                                                               *)
(*                                                                         *)
(* A file is a sequence of parts in the order of the format; gzip and the  *)
(* lengths of names, keys and values are left out.  A part that is missing *)
(* shifts the others, so a reader does not find what it expects.  SHA-256  *)
(* is a perfect digest: it is what it was computed over.                   *)
(***************************************************************************)
EXTENDS StateSync, FiniteSets

CONSTANT Garbage    \* content no reader accepts

(* A bolt key has a bounded length.                                        *)
ASSUME LoaderAssumption == IsFiniteSet(SnapKeys)

-----------------------------------------------------------------------------
(* Files *)

Part(part, content) == [part |-> part, content |-> content]

Magic == Part("magic", "IOSWSNAP")
Version == Part("version", 1)
EndMarker == Part("end", 0)
EndMagic == Part("endmagic", "SNAPEND")

Header(h) == << Magic, Version, Part("height", h) >>
Trailer(count, digest) == << Part("count", count), Part("digest", digest), EndMagic >>

(* What the exporter writes for height h: an entry for each key, in order. *)
Exported(h, keys) ==
    LET payload == Header(h)
                   \o [i \in DOMAIN keys |->
                         Part("entry", [key |-> keys[i], value |-> StateAt(h)[keys[i]]])]
                   \o << EndMarker >>
    IN  payload \o Trailer(Len(keys), payload)

(* The snapshot's keys at height h, in any order.                          *)
KeysAt(h) == {k \in SnapKeys : StateAt(h)[k] # Absent}
Listings(S) == {keys \in [1..Cardinality(S) -> S] :
                    \A i, j \in DOMAIN keys : keys[i] = keys[j] => i = j}

(* Other contents a part may turn up with.                                 *)
Altered(p) ==
    CASE p.part = "height" -> {0, p.content + 1}
      [] p.part = "entry" -> {[p.content EXCEPT !.value = v] : v \in Values \ {p.content.value}}
      [] OTHER -> {Garbage}

Cut(f, i) == SubSeq(f, 1, i - 1)
Lost(f, i) == Cut(f, i) \o SubSeq(f, i + 1, Len(f))

-----------------------------------------------------------------------------
(* LoadSnapshot *)

Has(f, i, p) == i \in DOMAIN f /\ f[i].part = p.part /\ f[i].content = p.content

Refused == [verdict |-> "refused"]
Skipped == [verdict |-> "skipped"]
Loaded(h, entries) == [verdict |-> "loaded", height |-> h, entries |-> entries]

(* The place after the last entry: the loop stops at another marker.       *)
EndOf(f) ==
    CHOOSE e \in 4..(Len(f) + 1) :
        /\ \A i \in 4..(e - 1) : f[i].part = "entry"
        /\ e \in DOMAIN f => f[e].part # "entry"

HeaderGood(f) == /\ Has(f, 1, Magic) /\ Has(f, 2, Version)
                 /\ 3 \in DOMAIN f /\ f[3].part = "height"

(* Slip: the digest is read and not compared.                              *)
SlipTrailerUnverified(f) ==
    LET e == EndOf(f)
    IN  /\ Has(f, e, EndMarker)
        /\ Has(f, e + 1, Part("count", e - 4))
        /\ Has(f, e + 3, EndMagic)

(* The trailer is not part of the digest.                                  *)
TrailerGood(f) ==
    LET e == EndOf(f)
        trailer == Trailer(e - 4, SubSeq(f, 1, e))
    IN  /\ Has(f, e, EndMarker)
        /\ \A i \in DOMAIN trailer : Has(f, e + i, trailer[i])

PutsOf(f) == [i \in 1..(EndOf(f) - 4) |->
                 [type |-> WriteTypePut,
                  key |-> f[i + 3].content.key, value |-> f[i + 3].content.value]]

(* The height is compared with the store's before anything is verified.    *)
ReadSnapshot(f, storeHeight) ==
    CASE ~HeaderGood(f) -> Refused
      [] HeaderGood(f) /\ storeHeight >= f[3].content -> Skipped
      [] OTHER -> IF TrailerGood(f) THEN Loaded(f[3].content, PutsOf(f)) ELSE Refused

(* What may come of a file: it is whole, cut short, lacks a part or has   *)
(* other content in one.                                                   *)
VerdictsOn(f) ==
    {ReadSnapshot(f, height)}
    \cup {ReadSnapshot(Cut(f, i), height) : i \in DOMAIN f}
    \cup {ReadSnapshot(Lost(f, i), height) : i \in DOMAIN f}
    \cup UNION {{ReadSnapshot([f EXCEPT ![i].content = c], height) :
                  c \in Altered(f[i])} : i \in DOMAIN f}

(* The worker may be given an export of a block, or of the empty state.    *)
Verdicts ==
    UNION {UNION {VerdictsOn(Exported(h, keys)) : keys \in Listings(KeysAt(h))} :
             h \in 0..Len(chain)}

(* runWorker asks for the snapshot when the store has no height.           *)
Opens == workerPc = "load" /\ height = 0

(* Slip: a snapshot is loaded over a store that has a height.              *)
SlipLoadOver ==
    /\ workerPc = "load"
    /\ \E v \in Verdicts :
          /\ v.verdict = "loaded"
          /\ Commit(v.height, ApplyEntries(disk.kv, v.entries))
    /\ workerPc' = "publish"
    /\ UNCHANGED <<chain, syncVars, active, cancelled>>

(* A verified file: its entries are applied as one diff.                   *)
LoadFile ==
    /\ Opens
    /\ \E v \in Verdicts :
          /\ v.verdict = "loaded"
          /\ Commit(v.height, ApplyEntries(disk.kv, v.entries))
    /\ workerPc' = "publish"
    /\ UNCHANGED <<chain, syncVars, active, cancelled>>

SkipFile ==
    /\ Opens
    /\ Skipped \in Verdicts
    /\ workerPc' = "start"
    /\ UNCHANGED <<storeVars, chain, syncVars, active, cancelled>>

(* The file is refused, or the transaction of its ApplyDiff fails.         *)
FileFails ==
    /\ Opens
    /\ \E v \in Verdicts : v.verdict # "skipped"
    /\ Return

(* No --snapshot is given, or the store has a height.                      *)
NoFile ==
    /\ workerPc = "load"
    /\ workerPc' = "start"
    /\ UNCHANGED <<storeVars, chain, syncVars, active, cancelled>>

-----------------------------------------------------------------------------

LoaderWorker ==
    \/ Register \/ OpenStore \/ OpenFails \/ SnapshotLoaded
    \/ LoadFile \/ SkipFile \/ FileFails \/ NoFile
    \/ StartSync \/ StartServing \/ NotReady \/ Shutdown \/ CloseStore \/ Exit

LoaderNext ==
    \/ NewBlock \/ Sync \/ StreamFails \/ Boot \/ LoaderWorker \/ Signal \/ Crash

LoaderSpec == Init /\ [][LoaderNext]_vars

LoaderFairSpec == LoaderSpec /\ WF_vars(Sync) /\ WF_vars(Shutdown)

-----------------------------------------------------------------------------
(* Properties *)

(* Reading the file has no outcome but those StateSync allows: whatever    *)
(* happened to the file, the store takes a whole snapshot of one block or  *)
(* nothing (snapshot.go LoadSnapshot: one ApplyDiff, after the trailer).   *)
ImplementsSync == Spec
=============================================================================
