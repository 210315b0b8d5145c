----------------------------- MODULE MCReadyDoc -----------------------------
(***************************************************************************)
(* What the documentation says "state sync ready" means, checked with a    *)
(* history variable: the head of the chain when the agent opened the       *)
(* stream it became ready on (a stream opened later does not count).       *)
(***************************************************************************)
EXTENDS MCStateSync

VARIABLE headAtOpen

DocInit == Init /\ headAtOpen = 0

DocNext ==
    /\ Next
    /\ headAtOpen' = IF OpenStream /\ ~ready THEN Len(chain)
                     ELSE headAtOpen

DocSpec == DocInit /\ [][DocNext]_<<vars, headAtOpen>>

(* README.md:462: "state sync ready" means "caught up to coordinator": a   *)
(* worker that serves has at least the blocks the coordinator had when it  *)
(* opened the stream.                                                      *)
ReadyMeansCaughtUp ==
    workerPc = "serve" => disk.height >= headAtOpen
=============================================================================
