------------------------------ MODULE Replica -------------------------------
(***************************************************************************)
(* What an L4 agent's state store promises to whoever reads the file: it   *)
(* is a replica of the coordinator's chain that never holds a wrong value. *)
(* It follows the chain one block at a time; only an empty replica may     *)
(* jump, to the height of a snapshot.  A key it once tracks it tracks      *)
(* from then on, through every crash, restart, reconnection and retry.     *)
(***************************************************************************)
EXTENDS Naturals, Sequences

CONSTANTS Keys, Values, Absent,
          SnapKeys     \* the keys of the namespaces a snapshot contains

VARIABLES
    chain,    \* the state after each block, <<[state, ...], ...>>
    kv,       \* the contents of the replica
    at        \* the height of the replica

vars == <<chain, kv, at>>

StateAt(c, h) == IF h = 0 THEN [k \in Keys |-> Absent] ELSE c[h].state

(* The keys of which the contents m have the value of height h.            *)
Tracked(m, h) == {k \in Keys : m[k] = StateAt(chain, h)[k]}

(* Contents without a wrong value: what is there is right.                 *)
Sound(h) == {m \in [Keys -> Values \cup {Absent}] :
                \A k \in Keys : m[k] # Absent => k \in Tracked(m, h)}

Init ==
    /\ chain = <<>>
    /\ kv = [k \in Keys |-> Absent]
    /\ at = 0

(* The coordinator commits a block: earlier blocks do not change.          *)
NewBlock ==
    /\ Len(chain') = Len(chain) + 1
    /\ \A h \in 1..Len(chain) : chain'[h] = chain[h]
    /\ UNCHANGED <<kv, at>>

Follow ==
    /\ at < Len(chain)
    /\ at' = at + 1
    /\ kv' \in Sound(at + 1)
    /\ Tracked(kv, at) \subseteq Tracked(kv', at + 1)
    /\ UNCHANGED chain

Bootstrap ==
    /\ at = 0
    /\ at' \in 1..Len(chain)
    /\ kv' \in Sound(at')
    /\ SnapKeys \subseteq Tracked(kv', at')
    /\ UNCHANGED chain

Next == NewBlock \/ Follow \/ Bootstrap

Spec == Init /\ [][Next]_vars
=============================================================================
