--------------------------- MODULE JournaledState ---------------------------
(***************************************************************************)
(* What the EVM needs of its state database: whatever a call did, reverting *)
(* to the snapshot taken before it brings back exactly the state that was  *)
(* visible then, and discards that snapshot and the ones taken since.      *)
(***************************************************************************)
EXTENDS Naturals, Sequences

VARIABLES
    view,      \* everything the EVM can see
    journal    \* the view at each snapshot that may still be reverted to

vars == <<view, journal>>

Write == UNCHANGED journal

Snapshot ==
    /\ journal' = Append(journal, view)
    /\ UNCHANGED view

Revert ==
    \E i \in DOMAIN journal :
        /\ view' = journal[i]
        /\ journal' = SubSeq(journal, 1, i - 1)

Next == Write \/ Snapshot \/ Revert

Spec == journal = <<>> /\ [][Next]_vars
=============================================================================
