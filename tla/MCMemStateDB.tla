---------------------------- MODULE MCMemStateDB ----------------------------
(***************************************************************************)
(* MemStateDB with two addresses of one slot each.  The coordinator knows  *)
(* address x, in part; the store knows both addresses or neither.          *)
(***************************************************************************)
EXTENDS MemStateDB

CONSTANTS x, y, s, c

MCAddrs == {x, y}
MCSlots == {s}
MCCodes == {c}

MCTask(acct, code, slot) ==
    [accounts |-> [a \in MCAddrs |-> IF a = x THEN acct ELSE None],
     codes |-> [a \in MCAddrs |-> IF a = x THEN code ELSE None],
     slots |-> [cell \in MCAddrs \X MCSlots |-> IF cell = <<x, s>> THEN slot ELSE None]]

(* A contract without its code and its slot; a contract's code and slot    *)
(* without the account.                                                    *)
MCTasks == { MCTask([balance |-> 2, nonce |-> 1, hash |-> c], None, None),
             MCTask(None, c, 0) }

MCStore(acct, slot) ==
    [accounts |-> [a \in MCAddrs |-> acct],
     codes |-> {c},
     slots |-> [cell \in MCAddrs \X MCSlots |-> slot]]

MCStores == { MCStore(None, None),
              MCStore([balance |-> 1, nonce |-> 1, hash |-> c], 1) }
=============================================================================
