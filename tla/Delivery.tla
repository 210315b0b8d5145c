------------------------------ MODULE Delivery ------------------------------
(***************************************************************************)
(* What the agent promises a coordinator that hands it batches of tasks:   *)
(* it has one batch at a time in hand, and the results of a batch arrive   *)
(* once or are lost for good.  Nothing brings a batch back: not a lost     *)
(* call, an eviction, a new stream, a crash or a restart.                  *)
(***************************************************************************)
CONSTANTS Workers, Batches

VARIABLE stage    \* per worker and batch, how far it is

Init == stage = [w \in Workers |-> [b \in Batches |-> "queued"]]

InHand(w) == {b \in Batches : stage[w][b] = "hand"}

Take(w, b) ==
    /\ stage[w][b] = "queued" /\ InHand(w) = {}
    /\ stage' = [stage EXCEPT ![w][b] = "hand"]

Answer(w, b) ==
    /\ stage[w][b] = "hand"
    /\ \E end \in {"arrived", "lost"} : stage' = [stage EXCEPT ![w][b] = end]

(* The agent goes down, and with it what all its workers have in hand.     *)
GoDown ==
    stage' = [w \in Workers |-> [b \in Batches |->
                IF stage[w][b] = "hand" THEN "lost" ELSE stage[w][b]]]

Next == (\E w \in Workers, b \in Batches : Take(w, b) \/ Answer(w, b)) \/ GoDown

Spec == Init /\ [][Next]_stage
=============================================================================
