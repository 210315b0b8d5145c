----------------------------- MODULE Validator ------------------------------
(***************************************************************************)
(* The decisions of one task's validation (validator.go), as operators on  *)
(* the task and on what the store says of its sender, and the three places *)
(* that interpret the --level flag (validateTask, parseLevel, runWorker).  *)
(*                                                                         *)
(* Widths are parameters: a byte has ByteMax + 1 values, r and s have      *)
(* WordLen bytes and a nonce NonceLen (256, 32 and 8 in the code).  What   *)
(* the EVM (go-ethereum) makes of a transaction is given with the task.    *)
(***************************************************************************)
EXTENDS Integers, Sequences, SequencesExt

CONSTANTS
    ByteMax, WordLen, NonceLen,
    CurveOrder,   \* secp256k1N
    None,         \* nil
    Tasks,        \* the tasks and local states to be judged
    Levels        \* values of --level

VARIABLES
    task,     \* the task, with what the local store has for its sender
    level,    \* the --level flag
    result    \* the taskResult, None until the task is validated

vars == <<task, level, result>>

-----------------------------------------------------------------------------
(* The raw transaction: payload, r, s, v *)

SigLen == 2 * WordLen + 1

Number(bytes) == FoldLeft(LAMBDA n, b : n * (ByteMax + 1) + b, 0, bytes)

(* r (part 0) and s (part 1) of the trailing signature.                    *)
SigWord(raw, part) ==
    LET start == Len(raw) - SigLen + part * WordLen
    IN  Number(SubSeq(raw, start + 1, start + WordLen))

TxNonce(raw) == IF Len(raw) < NonceLen THEN 0 ELSE Number(SubSeq(raw, 1, NonceLen))

-----------------------------------------------------------------------------
(* Results: the verdict, the gas estimate and whether the EVM ran *)

Result(valid, gas, evm) == [valid |-> valid, gas |-> gas, evm |-> evm]

Rejected == Result(FALSE, "none", FALSE)
Results == [valid : BOOLEAN, gas : {"none", "transfer", "contract", "used"}, evm : BOOLEAN]

PlainEstimate(t) ==
    IF t.receiver # None /\ t.receiver.hasCode THEN "contract" ELSE "transfer"

(* Slip: a panic of the EVM is not recovered.                              *)
SlipPanicEscapes(t, outcome) ==
    IF outcome = "panic" THEN Result(FALSE, "crash", TRUE)
    ELSE IF t.sender = None \/ outcome = "oversized" THEN Result(FALSE, "none", TRUE)
    ELSE Result(outcome = "ok", "used", TRUE)

(* executeEVM: a panic of the EVM is recovered and an oversized value is   *)
(* refused ("none": no gas counted); otherwise the EVM's verdict and gas.  *)
ExecuteEVM(t, outcome) ==
    IF t.sender = None \/ outcome \in {"panic", "oversized"}
    THEN Result(FALSE, "none", TRUE)
    ELSE Result(outcome = "ok", "used", TRUE)

ValidateL1(t) ==
    IF /\ Len(t.raw) >= SigLen
       /\ SigWord(t.raw, 0) \in 1..CurveOrder - 1
       /\ SigWord(t.raw, 1) \in 1..CurveOrder - 1
    THEN Result(TRUE, "transfer", FALSE)
    ELSE Rejected

(* A balance that does not parse is None.                                  *)
StateCheck(t, acct) ==
    /\ acct.balance # None
    /\ acct.balance > 0
    /\ TxNonce(t.raw) >= acct.nonce

ValidateL2(t) ==
    IF ValidateL1(t).valid /\ t.sender # None /\ StateCheck(t, t.sender)
    THEN Result(TRUE, PlainEstimate(t), FALSE)
    ELSE Rejected

(* Slip: only the signature is checked before the EVM.                     *)
SlipL3SkipsL2(t) ==
    IF ~ValidateL1(t).valid THEN ValidateL1(t)
    ELSE IF t.evmTx = None THEN ValidateL2(t)
    ELSE ExecuteEVM(t, t.evmTx.plain)

ValidateL3(t) ==
    IF ~ValidateL2(t).valid \/ t.evmTx = None
    THEN ValidateL2(t)
    ELSE ExecuteEVM(t, t.evmTx.plain)

(* The sender's account in the store: not asked for without a 0x address,  *)
(* None when it is not there or the read fails.                            *)
LocalAccount(t) ==
    IF t.sender # None /\ t.sender.hexAddress THEN t.local.account ELSE None

(* Slip: a sender that the store does not have needs no check.             *)
SlipL4NoFallback(t) ==
    LET acct == LocalAccount(t)
        checked == IF acct = None THEN t.sender # None ELSE StateCheck(t, acct)
    IN  IF ~t.local.set \/ ~ValidateL1(t).valid \/ ~checked THEN Rejected
        ELSE IF t.evmTx = None THEN Result(TRUE, PlainEstimate(t), FALSE)
        ELSE ExecuteEVM(t, t.evmTx.local)

ValidateL4(t) ==
    LET acct == LocalAccount(t)
        checked == IF acct = None THEN ValidateL2(t).valid ELSE StateCheck(t, acct)
    IN  IF ~t.local.set \/ ~ValidateL1(t).valid \/ ~checked THEN Rejected
        ELSE IF t.evmTx = None THEN Result(TRUE, PlainEstimate(t), FALSE)
        ELSE ExecuteEVM(t, t.evmTx.local)

-----------------------------------------------------------------------------
(* The --level flag *)

(* validateTask compares the flag as it is; everything else is L2.         *)
ValidatorOf(l) == IF l \in {"L1", "L3", "L4"} THEN l ELSE "L2"

Upper(l) == CASE l = "l1" -> "L1" [] l = "l2" -> "L2" [] l = "l3" -> "L3"
              [] l = "l4" -> "L4" [] OTHER -> l

(* Slip: a level is missing from parseLevel.                               *)
SlipParseLevel(l) ==
    CASE Upper(l) = "L1" -> 0 [] Upper(l) = "L3" -> 2 [] OTHER -> 1

(* The capability sent to the coordinator.                                 *)
ParseLevel(l) ==
    CASE Upper(l) = "L1" -> 0 [] Upper(l) = "L3" -> 2 [] Upper(l) = "L4" -> 3
      [] OTHER -> 1

(* runWorker opens a store (given --datadir).                              *)
OpensStore(l) == Upper(l) = "L4"

ValidateTask(t, l) ==
    CASE ValidatorOf(l) = "L1" -> ValidateL1(t)
      [] ValidatorOf(l) = "L2" -> ValidateL2(t)
      [] ValidatorOf(l) = "L3" -> ValidateL3(t)
      [] ValidatorOf(l) = "L4" -> ValidateL4(t)

-----------------------------------------------------------------------------

Init ==
    /\ task \in Tasks
    /\ level \in Levels
    /\ result = None

Validate ==
    /\ result = None
    /\ result' = ValidateTask(task, level)
    /\ UNCHANGED <<task, level>>

Spec == Init /\ [][Validate]_vars

-----------------------------------------------------------------------------
(* Properties *)

(* Every validation ends with a result, whatever the EVM does.             *)
TypeOK == task \in Tasks /\ level \in Levels /\ result \in Results \cup {None}

Done(l) == result # None /\ ValidatorOf(level) = l

(* README.md, "Validation Levels": L3 includes L1 and L2, L2 includes L1,  *)
(* and L4 includes the signature check whatever its store says: what a     *)
(* level accepts, the levels it includes accept.                           *)
LevelsInclude ==
    /\ Done("L2") /\ result.valid => ValidateL1(task).valid
    /\ Done("L3") /\ result.valid => ValidateL2(task).valid
    /\ Done("L4") /\ result.valid => ValidateL1(task).valid

(* The account the coordinator sent, as the store would have it.           *)
SameAccount(a, b) == a.balance = b.balance /\ a.nonce = b.nonce

(* validateL4 repeats the checks of validateL2 and validateL3 on other     *)
(* data: with a store it comes to another result than L3 only when it has  *)
(* another account for the sender, or the EVM another state to run on.     *)
L4DiffersOnlyByState ==
    Done("L4") /\ task.local.set /\ result # ValidateL3(task) =>
        \/ /\ LocalAccount(task) # None
           /\ ~SameAccount(LocalAccount(task), task.sender)
        \/ task.evmTx # None /\ task.evmTx.plain # task.evmTx.local

(* For the documented levels, the capability an agent registers with, the  *)
(* validator it runs and the store it opens are those of one level.        *)
LevelsAgree ==
    level \in {"L1", "L2", "L3", "L4"} =>
        /\ <<"L1", "L2", "L3", "L4">>[ParseLevel(level) + 1] = ValidatorOf(level)
        /\ OpensStore(level) <=> ValidatorOf(level) = "L4"
=============================================================================
