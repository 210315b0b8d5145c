-------------------------- MODULE MCWalletCommands --------------------------
(***************************************************************************)
(* WalletCommands with two commands that share a key: every pair but two   *)
(* deploys; two wallets to fund, and enough in the wallet to pay them      *)
(* all but for the gas.                                                    *)
(***************************************************************************)
EXTENDS WalletCommands

CONSTANTS x, y

MCCommands == {x, y}
MCRuns == {k \in [MCCommands -> {"fund", "claim", "deploy"}] :
              k[x] # "deploy" /\ (k[x] = "claim" => k[y] # "fund")}
=============================================================================
