--------------------------- MODULE ValidatorProofs --------------------------
(***************************************************************************)
(* The validation levels against each other, for every task, local store,  *)
(* --level flag and outcome of the EVM, whatever the widths of a byte, a   *)
(* signature and a nonce and the order of the curve.                       *)
(***************************************************************************)
EXTENDS Validator, TLAPS

(* A result is the verdict of the level's validator on the task.           *)
IInv ==
    /\ TypeOK
    /\ result # None => result = ValidateTask(task, level)

-----------------------------------------------------------------------------
(* The validators *)

LEMMA VerdictType ==
    ASSUME NEW t, NEW outcome
    PROVE  /\ ValidateL1(t) \in Results /\ ValidateL2(t) \in Results
           /\ ValidateL3(t) \in Results /\ ValidateL4(t) \in Results
<1>1. \A valid, evm \in BOOLEAN, gas \in {"none", "transfer", "contract", "used"} :
         Result(valid, gas, evm) \in Results
  BY DEF Result, Results
<1>2. Rejected \in Results
  BY <1>1 DEF Rejected
<1>3. PlainEstimate(t) \in {"none", "transfer", "contract", "used"}
  BY DEF PlainEstimate
<1>4. \A o : ExecuteEVM(t, o) \in Results
  BY <1>1 DEF ExecuteEVM
<1>5. ValidateL1(t) \in Results
  BY <1>1, <1>2 DEF ValidateL1
<1>6. ValidateL2(t) \in Results
  BY <1>1, <1>2, <1>3 DEF ValidateL2
<1>7. ValidateL3(t) \in Results
  BY <1>4, <1>6 DEF ValidateL3
<1>8. ValidateL4(t) \in Results
  <2> DEFINE checked == IF LocalAccount(t) = None THEN ValidateL2(t).valid
                        ELSE StateCheck(t, LocalAccount(t))
  <2>1. ValidateL4(t) =
          IF ~t.local.set \/ ~ValidateL1(t).valid \/ ~checked THEN Rejected
          ELSE IF t.evmTx = None THEN Result(TRUE, PlainEstimate(t), FALSE)
          ELSE ExecuteEVM(t, t.evmTx.local)
    BY DEF ValidateL4
  <2> HIDE DEF checked
  <2> QED  BY <1>1, <1>2, <1>3, <1>4, <2>1
<1> QED  BY <1>5, <1>6, <1>7, <1>8

(* What a level accepts, the levels it includes accept.                    *)
LEMMA Includes ==
    ASSUME NEW t
    PROVE  /\ ValidateL2(t).valid => ValidateL1(t).valid
           /\ ValidateL3(t).valid => ValidateL2(t).valid
           /\ ValidateL4(t).valid => ValidateL1(t).valid
<1>1. ~Rejected.valid
  BY DEF Rejected, Result
<1>2. ValidateL2(t).valid => ValidateL1(t).valid
  BY <1>1 DEF ValidateL2
<1>3. ValidateL3(t).valid => ValidateL2(t).valid
  BY DEF ValidateL3
<1>4. ValidateL4(t).valid => ValidateL1(t).valid
  BY <1>1 DEF ValidateL4
<1> QED  BY <1>2, <1>3, <1>4

(* What an L2 verdict consists of.                                         *)
LEMMA L2Is ==
    ASSUME NEW t
    PROVE  /\ ValidateL2(t).valid <=>
                ValidateL1(t).valid /\ t.sender # None /\ StateCheck(t, t.sender)
           /\ ValidateL2(t) = IF ValidateL2(t).valid
                              THEN Result(TRUE, PlainEstimate(t), FALSE) ELSE Rejected
<1>1. ~Rejected.valid /\ Result(TRUE, PlainEstimate(t), FALSE).valid
  BY DEF Rejected, Result
<1> QED  BY <1>1 DEF ValidateL2

(* With the same account and the same state for the EVM, L4 is L3.         *)
LEMMA L4IsL3 ==
    ASSUME NEW t, t.local.set,
           LocalAccount(t) = None \/ SameAccount(LocalAccount(t), t.sender),
           t.evmTx = None \/ t.evmTx.plain = t.evmTx.local
    PROVE  ValidateL4(t) = ValidateL3(t)
<1> DEFINE checked == IF LocalAccount(t) = None THEN ValidateL2(t).valid
                      ELSE StateCheck(t, LocalAccount(t))
<1>1. ValidateL4(t) =
        IF ~t.local.set \/ ~ValidateL1(t).valid \/ ~checked THEN Rejected
        ELSE IF t.evmTx = None THEN Result(TRUE, PlainEstimate(t), FALSE)
        ELSE ExecuteEVM(t, t.evmTx.local)
  BY DEF ValidateL4
<1>2. ValidateL1(t).valid /\ checked <=> ValidateL2(t).valid
  <2>1. CASE LocalAccount(t) = None
    BY <2>1, L2Is
  <2>2. CASE LocalAccount(t) # None
    <3>1. t.sender # None
      BY <2>2 DEF LocalAccount
    <3>2. StateCheck(t, LocalAccount(t)) <=> StateCheck(t, t.sender)
      BY <2>2 DEF StateCheck, SameAccount
    <3> QED  BY <2>2, <3>1, <3>2, L2Is
  <2> QED  BY <2>1, <2>2
<1> HIDE DEF checked
<1>3. CASE ValidateL2(t).valid
  BY <1>1, <1>2, <1>3, L2Is DEF ValidateL3
<1>4. CASE ~ValidateL2(t).valid
  BY <1>1, <1>2, <1>4, L2Is DEF ValidateL3
<1> QED  BY <1>3, <1>4

-----------------------------------------------------------------------------
(* The theorems *)

(* The strengthened invariant.                                             *)
THEOREM Invariance == Spec => []IInv
<1>1. Init => IInv
  BY DEF Init, IInv, TypeOK
<1>2. IInv /\ [Validate]_vars => IInv'
  <2> SUFFICES ASSUME IInv, [Validate]_vars PROVE IInv'
    OBVIOUS
  <2>1. CASE Validate
    <3>1. ValidatorOf(level) \in {"L1", "L2", "L3", "L4"}
      BY DEF ValidatorOf
    <3>2. ValidateTask(task, level) \in Results
      BY <3>1, VerdictType DEF ValidateTask
    <3> QED  BY <2>1, <3>2 DEF Validate, IInv, TypeOK
  <2>2. CASE UNCHANGED vars
    BY <2>2 DEF vars, IInv, TypeOK, ValidateTask
  <2> QED  BY <2>1, <2>2
<1> QED  BY <1>1, <1>2, PTL DEF Spec

(* Every validation ends with a result, a panic of the EVM included        *)
(* (validator.go executeEVM).                                              *)
THEOREM TypeCorrect == Spec => []TypeOK
BY Invariance, PTL DEF IInv

(* What a level accepts, the levels it includes accept.                    *)
THEOREM Inclusion == Spec => []LevelsInclude
<1>1. IInv => LevelsInclude
  BY Includes DEF IInv, LevelsInclude, Done, ValidateTask
<1> QED  BY <1>1, Invariance, PTL

(* validateL4 repeats the checks of validateL2 and validateL3 on other     *)
(* data, and comes to another result only because of that data.            *)
THEOREM L4Differs == Spec => []L4DiffersOnlyByState
<1>1. IInv => L4DiffersOnlyByState
  <2> SUFFICES ASSUME IInv, Done("L4"), task.local.set, result # ValidateL3(task)
               PROVE  \/ /\ LocalAccount(task) # None
                         /\ ~SameAccount(LocalAccount(task), task.sender)
                      \/ task.evmTx # None /\ task.evmTx.plain # task.evmTx.local
    BY DEF L4DiffersOnlyByState
  <2>1. result = ValidateL4(task)
    BY DEF IInv, Done, ValidateTask
  <2> QED  BY <2>1, L4IsL3
<1> QED  BY <1>1, Invariance, PTL

(* For the documented levels, parseLevel, validateTask and runWorker mean  *)
(* one level by the flag (main.go:367, validator.go, worker.go).           *)
THEOREM LevelsMeanOne == Spec => []LevelsAgree
<1>1. LevelsAgree
  <2>1. CASE level = "L1"
    BY <2>1 DEF LevelsAgree, ParseLevel, ValidatorOf, OpensStore, Upper
  <2>2. CASE level = "L2"
    BY <2>2 DEF LevelsAgree, ParseLevel, ValidatorOf, OpensStore, Upper
  <2>3. CASE level = "L3"
    BY <2>3 DEF LevelsAgree, ParseLevel, ValidatorOf, OpensStore, Upper
  <2>4. CASE level = "L4"
    BY <2>4 DEF LevelsAgree, ParseLevel, ValidatorOf, OpensStore, Upper
  <2>5. CASE level \notin {"L1", "L2", "L3", "L4"}
    BY <2>5 DEF LevelsAgree
  <2> QED  BY <2>1, <2>2, <2>3, <2>4, <2>5
<1> QED  BY <1>1, PTL
=============================================================================
