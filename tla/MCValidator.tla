---------------------------- MODULE MCValidator -----------------------------
(***************************************************************************)
(* Validator with bytes of one bit, r and s of two bytes and nonces of two *)
(* bytes: the curve order (3) excludes the largest word, and a payload may *)
(* be shorter than a nonce.                                                *)
(***************************************************************************)
EXTENDS Validator

MCLevels == {"L1", "L2", "L3", "L4", "l3", "l4"}

MCWords == {<<0, 0>>, <<0, 1>>, <<1, 0>>, <<1, 1>>}
MCPayloads == {<<>>, <<0>>, <<0, 1>>, <<1, 0>>, <<1, 1, 0>>}
MCRaws == {<<>>, <<1, 0, 1, 0>>} \cup
          {p \o r \o s \o <<0>> : p \in MCPayloads, r \in MCWords, s \in MCWords}

MCSenders == {None} \cup [hexAddress : BOOLEAN, balance : {None, 0, 1}, nonce : {0, 2}]
MCReceivers == {None, [hasCode |-> TRUE]}
MCOutcomes == {"ok", "error", "panic", "oversized"}
MCEvmTxs == {None} \cup {[plain |-> o, local |-> o] : o \in MCOutcomes}
            \cup {[plain |-> "error", local |-> "ok"]}
MCLocals == {[set |-> FALSE, account |-> None], [set |-> TRUE, account |-> None]}
            \cup {[set |-> TRUE, account |-> [balance |-> b, nonce |-> n]] :
                     b \in {0, 1}, n \in {0, 2}}

MCTasks == [raw : MCRaws, sender : MCSenders, receiver : MCReceivers,
            evmTx : MCEvmTxs, local : MCLocals]
=============================================================================
