--------------------------- MODULE MCL4Validation ---------------------------
(***************************************************************************)
(* L4Validation with worker 0 and one more worker, a contract account and  *)
(* the nodes of two versions of its storage trie, which share two leaves:  *)
(*                                                                         *)
(*    r1: 0 -> e1, 1 -> lc      e1: path 1 -> b1     b1: 0 -> la, 1 -> lb  *)
(*    r2: 0 -> e2, 1 -> lc      e2: path 1 -> b2     b2: 0 -> la, 1 -> lx  *)
(*                                                                         *)
(* The diff to a version puts its nodes and deletes those of the other;    *)
(* the third diff empties the contract.  Bytes are 0 and 1, keys three     *)
(* bytes long; r2 has a field of a later format in front, and la its       *)
(* legacy field.                                                           *)
(***************************************************************************)
EXTENDS L4Validation, TLC

CONSTANTS acct, r1, e1, b1, r2, e2, b2, la, lb, lc, lx,   \* keys
          A0, A1, A2, R1, E1, B1, R2, E2, B2, LA, LB, LC, LX,   \* values
          w1

MCKeys == {acct, r1, e1, b1, r2, e2, b2, la, lb, lc, lx}
MCValues == {A0, A1, A2, R1, E1, B1, R2, E2, B2, LA, LB, LC, LX}
MCAccounts == {acct}
MCOthers == {w1}
MCSlots == { <<0,1,0>>, <<0,1,1>>, <<0,0,1>>, <<1,1,1>> }

Acct(nonce, root) ==
    << Field(1, "varint", nonce), Field(2, "bytes", "7"), Field(3, "bytes", root),
       Field(5, "varint", 1), Field(6, "bytes", "weight") >>

Pair(x, y) == [i \in {0, 1} |-> IF i = 0 THEN x ELSE y]
Later(msg) == <<Field(9, "bytes", "later")>> \o msg
Legacy(msg) == [msg EXCEPT ![1].value = <<Field(1, "varint", 1)>> \o @]

MCFields ==
    (A0 :> Acct(1, EmptyRoot)) @@ (A1 :> Acct(2, r1)) @@ (A2 :> Acct(3, r2))
    @@ (R1 :> EncodeBranchNode(Pair(e1, lc), <<1, 0>>))
    @@ (E1 :> EncodeExtensionNode(<<1>>, b1))
    @@ (B1 :> EncodeBranchNode(Pair(la, lb), <<0, 1>>))
    @@ (R2 :> Later(EncodeBranchNode(Pair(e2, lc), <<0, 1>>)))
    @@ (E2 :> EncodeExtensionNode(<<1>>, b2))
    @@ (B2 :> EncodeBranchNode(Pair(la, lx), <<1, 0>>))
    @@ (LA :> Legacy(EncodeLeafNode(<<0,1,0>>, "a")))
    @@ (LB :> EncodeLeafNode(<<0,1,1>>, "b"))
    @@ (LC :> EncodeLeafNode(<<1,0,0>>, "c"))
    @@ (LX :> EncodeLeafNode(<<0,1,1>>, "x"))

Holding(slots) == [s \in MCSlots |-> IF s \in DOMAIN slots THEN slots[s] ELSE None]

MCStorage == (A0 :> Holding(<<>>))
          @@ (A1 :> Holding((<<0,1,0>> :> "a") @@ (<<0,1,1>> :> "b")))
          @@ (A2 :> Holding((<<0,1,0>> :> "a") @@ (<<0,1,1>> :> "x")))

(* The claims of the roots, passed on from node to node.                   *)
MCNode == (r1 :> R1) @@ (e1 :> E1) @@ (b1 :> B1) @@ (r2 :> R2) @@ (e2 :> E2)
          @@ (b2 :> B2) @@ (la :> LA) @@ (lb :> LB) @@ (lc :> LC) @@ (lx :> LX)

ClaimsOf(accts) ==
    LET step(b) == TrieStep(DecodeNodePb(MCFields[MCNode[b.hash]]), b.slot, b.offset)
        next(b) == Claim(step(b).hash, step(b).offset, b.slot, b.value)
        claims[n \in 0..4] ==
            IF n = 0
            THEN {Claim(DecodeAccount(MCFields[v]).root, 0, slot, MCStorage[v][slot]) :
                     v \in accts \cap {A1, A2}, slot \in MCSlots}
            ELSE claims[n - 1] \cup {next(b) : b \in {x \in claims[n - 1] : ~step(x).done}}
    IN  claims[4]

MCBelow == ClaimsOf({A1, A2})

Put(k, v) == [type |-> WriteTypePut, key |-> k, value |-> v]
Del(k) == [type |-> WriteTypeDelete, key |-> k, value |-> A0]

Version1 == <<Put(r1, R1), Put(e1, E1), Put(b1, B1), Put(lb, LB)>>
Version2 == <<Put(r2, R2), Put(e2, E2), Put(b2, B2), Put(lx, LX)>>
Shared == <<Put(la, LA), Put(lc, LC)>>
Remove(puts) == [i \in DOMAIN puts |-> Del(puts[i].key)]

MCDiffs == { Remove(Version2) \o <<Put(acct, A1)>> \o Version1 \o Shared,
             Remove(Version1) \o <<Put(acct, A2)>> \o Version2 \o Shared,
             <<Put(acct, A0)>> \o Remove(Version1 \o Version2 \o Shared) }

(* The states of a chain: each diff takes all of them to the same one.     *)
MCLive == [state \in {Empty} \cup {ApplyEntries(Empty, d) : d \in MCDiffs} |->
              ClaimsOf({state[acct]})]
=============================================================================
