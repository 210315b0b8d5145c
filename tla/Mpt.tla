-------------------------------- MODULE Mpt ---------------------------------
(***************************************************************************)
(* The storage trie of a contract (mpt.go) and the account record that     *)
(* holds its root (account.go), as pure operators: the decoders, and one   *)
(* step of trieGet's traversal.  The steps are put together, on a store    *)
(* that moves between them, in module L4Validation.                        *)
(*                                                                         *)
(* A protobuf message is a sequence of fields [num, wire, value]: "varint" *)
(* and "bytes" fields carry a value, which may be a message; "fixed" is a  *)
(* 32 or 64 bit field; "bad" is a place where the bytes cannot be consumed *)
(* or the wire type is not supported.  Paths and keys are sequences of     *)
(* bytes; a hash is the store's key for the node.                          *)
(***************************************************************************)
EXTENDS Naturals, Sequences

CONSTANTS
    ByteSize,    \* the number of values of a byte (256)
    NilHash      \* a hash field that is empty or missing

ASSUME MptAssumption == ByteSize \in Nat \ {0}

-----------------------------------------------------------------------------
(* Fields *)

Field(num, wire, value) == [num |-> num, wire |-> wire, value |-> value]

Is(f, num, wire) == f.num = num /\ f.wire = wire

Malformed(msg) == \E i \in DOMAIN msg : msg[i].wire = "bad"

(* What a decoding loop leaves in a field: the value of the last one that  *)
(* fits, or the field's default; other fields are skipped.                 *)
Last(at) == CHOOSE i \in at : \A j \in at : j <= i

Places(msg, num, wire) == {i \in DOMAIN msg : Is(msg[i], num, wire)}

LastOf(msg, num, wire, default) ==
    LET at == Places(msg, num, wire)
    IN  IF at = {} THEN default ELSE msg[Last(at)].value

-----------------------------------------------------------------------------
(* Nodes *)

Invalid == [type |-> "invalid"]
Branch(children) == [type |-> "B", children |-> children]
Extension(path, child) == [type |-> "E", path |-> path, child |-> child]
Leaf(key, value) == [type |-> "L", key |-> key, value |-> value]

DecodeLeafPb(msg) ==
    IF Malformed(msg) THEN Invalid
    ELSE Leaf(LastOf(msg, 2, "bytes", <<>>), LastOf(msg, 3, "bytes", <<>>))

DecodeExtendPb(msg) ==
    IF Malformed(msg) THEN Invalid
    ELSE Extension(LastOf(msg, 1, "bytes", <<>>), LastOf(msg, 2, "bytes", NilHash))

(* The children of a branch: an index is cut to a byte, and a later entry  *)
(* for an index replaces an earlier one.                                   *)
DecodeBranchPb(msg) ==
    LET entries == Places(msg, 1, "bytes")
        index(i) == LastOf(msg[i].value, 1, "varint", 0) % ByteSize
        last(b) == Last({i \in entries : index(i) = b})
    IN  IF Malformed(msg) \/ \E i \in entries : Malformed(msg[i].value)
        THEN Invalid
        ELSE Branch([b \in {index(i) : i \in entries} |->
                        LastOf(msg[last(b)].value, 2, "bytes", NilHash)])

(* decodeNodePb: the first branch, leaf or extension field decides; what   *)
(* follows it is not read.                                                 *)
DecodeNodePb(msg) ==
    LET stops == {i \in DOMAIN msg : \/ msg[i].wire = "bad"
                                     \/ msg[i].num \in 2..4 /\ msg[i].wire = "bytes"}
    IN  IF stops = {} THEN Invalid
        ELSE LET f == msg[CHOOSE i \in stops : \A j \in stops : i <= j]
             IN  CASE Is(f, 2, "bytes") -> DecodeBranchPb(f.value)
                   [] Is(f, 3, "bytes") -> DecodeLeafPb(f.value)
                   [] Is(f, 4, "bytes") -> DecodeExtendPb(f.value)
                   [] OTHER -> Invalid

-----------------------------------------------------------------------------
(* Encoders *)

EncodeLeafNode(key, value) ==
    << Field(3, "bytes", <<Field(2, "bytes", key), Field(3, "bytes", value)>>) >>

EncodeExtensionNode(path, child) ==
    << Field(4, "bytes", <<Field(1, "bytes", path), Field(2, "bytes", child)>>) >>

(* Go writes the children of a map in any order; order is one of them.     *)
EncodeBranchNode(children, order) ==
    << Field(2, "bytes",
             [i \in DOMAIN order |->
                Field(1, "bytes", << Field(1, "varint", order[i]),
                                     Field(2, "bytes", children[order[i]]) >>)]) >>

-----------------------------------------------------------------------------
(* Accounts *)

NotANumber == "not a number"
NoAccount == [ok |-> FALSE]

(* DecodeAccount: an empty balance leaves the field as it is, one that is  *)
(* no number refuses the account, even if another one follows.             *)
DecodeAccount(msg) ==
    LET balances == {i \in Places(msg, 2, "bytes") : msg[i].value # ""}
    IN  IF \/ msg = <<>>
           \/ Malformed(msg)
           \/ \E i \in balances : msg[i].value = NotANumber
        THEN NoAccount
        ELSE [ok |-> TRUE,
              nonce |-> LastOf(msg, 1, "varint", 0),
              balance |-> IF balances = {} THEN "0" ELSE msg[Last(balances)].value,
              root |-> LastOf(msg, 3, "bytes", NilHash),
              codeHash |-> LastOf(msg, 4, "bytes", NilHash)]

-----------------------------------------------------------------------------
(* One step of trieGet *)

None == "none"     \* errKeyNotFound: the trie does not have the key
Error == "error"   \* any other error

Found(value) == [done |-> TRUE, answer |-> value]
GoTo(hash, offset) == [done |-> FALSE, hash |-> hash, offset |-> offset]

From(seq, offset) == SubSeq(seq, offset + 1, Len(seq))

(* The body of trieGet's loop, for a node that was loaded: the next node,  *)
(* the value of a leaf, or that there is none.                             *)
TrieStep(node, key, offset) ==
    CASE node.type = "B" /\ offset < Len(key) /\ key[offset + 1] \in DOMAIN node.children ->
            GoTo(node.children[key[offset + 1]], offset + 1)
      [] /\ node.type = "E"
         /\ offset + Len(node.path) <= Len(key)
         /\ node.path = SubSeq(key, offset + 1, offset + Len(node.path)) ->
            GoTo(node.child, offset + Len(node.path))
      [] /\ node.type = "L"
         /\ offset <= Len(node.key) /\ offset <= Len(key)
         /\ From(node.key, offset) = From(key, offset) ->
            Found(node.value)
      [] node.type = "invalid" -> Found(Error)
      [] OTHER -> Found(None)
=============================================================================
