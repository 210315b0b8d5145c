---------------------------- MODULE MCTaskStream ----------------------------
(***************************************************************************)
(* TaskStream with two workers.  The bound is the number of batches a      *)
(* coordinator has, and two starts of the process: failures, evictions and *)
(* reconnections are unbounded.                                            *)
(***************************************************************************)
EXTENDS TaskStream

CONSTANTS w0, w1, b0, b1

MCWorkers == {w0, w1}
MCBatches == {b0, b1}
=============================================================================
