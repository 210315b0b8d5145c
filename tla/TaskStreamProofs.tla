-------------------------- MODULE TaskStreamProofs --------------------------
(***************************************************************************)
(* Results are submitted at most once and the shared counter is exact, for *)
(* every set of workers and batches, every width of the counter, and any   *)
(* number of evictions, lost calls, crashes and restarts.                  *)
(*                                                                         *)
(* AtMostOnce is not inductive: whether a submit repeats one depends on    *)
(* where the batch in hand came from.  HandInv says that a worker has a    *)
(* batch in hand exactly while it validates and submits it, that the       *)
(* coordinator has sent it in this life of the process, and that none of   *)
(* its results has arrived.  With it the agent implements Delivery.        *)
(***************************************************************************)
EXTENDS TaskStream, FiniteSetTheorems, TLAPS

HandInv ==
    \A w \in Workers :
        /\ batch[w] = NoBatch <=> pc[w] \notin {"process", "submit"}
        /\ batch[w] # NoBatch => <<w, batch[w]>> \in Delivered \ before

(* What was sent before this start of the process was sent.                *)
SentInv == before \subseteq Delivered

SubmitInv == TypeOK /\ HandInv /\ SentInv /\ AtMostOnce

LEMMA InitInv == Init => SubmitInv
<1> SUFFICES ASSUME Init PROVE SubmitInv
  OBVIOUS
<1> USE TaskAssumption DEF Init
<1>1. TypeOK
  <2>1. undelivered \in [Workers -> SUBSET Batches]
    OBVIOUS
  <2>2. arrived \in [Workers -> [Batches -> Nat]]
    OBVIOUS
  <2>3. /\ tasksProcessed \in 0..CounterMax
        /\ boots \in 1..MaxBoots
    OBVIOUS
  <2> QED  BY <2>1, <2>2, <2>3 DEF TypeOK
<1>2. HandInv
  BY DEF HandInv
<1>3. SentInv
  BY DEF SentInv
<1>4. AtMostOnce
  BY DEF AtMostOnce
<1> QED  BY <1>1, <1>2, <1>3, <1>4 DEF SubmitInv

(* The steps that neither hand over a batch nor its results.               *)
Quiet == UNCHANGED <<batch, before, undelivered, arrived>>

LEMMA QuietInv ==
    ASSUME SubmitInv, TypeOK', Quiet,
           \A w \in Workers : pc'[w] \in {"process", "submit"}
                                 <=> pc[w] \in {"process", "submit"}
    PROVE  SubmitInv'
BY DEF SubmitInv, HandInv, SentInv, AtMostOnce, Delivered, Quiet

(* A crash, an exit and a start leave every worker empty-handed.           *)
LEMMA ForgetTypes ==
    ASSUME NEW l \in {"boot", "down"}, Forget(l)
    PROVE  /\ pc' \in [Workers -> {"boot", "top", "register", "dial", "recv",
                                   "process", "submit", "ended", "down"}]
           /\ firstRun' \in [Workers -> BOOLEAN]
           /\ batch' \in [Workers -> Batches \cup {NoBatch}]
           /\ tasksProcessed' \in 0..CounterMax
           /\ cancelled' \in BOOLEAN
<1>1. 0 \in 0..CounterMax
  BY TaskAssumption
<1> QED  BY <1>1 DEF Forget

LEMMA ForgetInv ==
    ASSUME SubmitInv, TypeOK', NEW l \in {"boot", "down"}, Forget(l),
           UNCHANGED <<undelivered, arrived>>, before' \in {before, Delivered}
    PROVE  SubmitInv'
<1> USE DEF SubmitInv
<1>1. \A w \in Workers : batch'[w] = NoBatch /\ pc'[w] = l
  BY DEF Forget
<1>2. HandInv'
  BY <1>1 DEF HandInv
<1>3. SentInv'
  BY DEF SentInv, Delivered
<1>4. AtMostOnce'
  BY <1>1, TaskAssumption DEF AtMostOnce
<1> QED  BY <1>2, <1>3, <1>4

LEMMA RecvInv ==
    ASSUME SubmitInv, NEW w \in Workers, RecvBatch(w)
    PROVE  SubmitInv'
<1> USE DEF SubmitInv
<1>1. PICK b \in undelivered[w] :
         /\ batch' = [batch EXCEPT ![w] = b]
         /\ undelivered' = [undelivered EXCEPT ![w] = @ \ {b}]
  BY DEF RecvBatch
<1>2. /\ pc[w] = "recv"
      /\ pc' = [pc EXCEPT ![w] = "process"]
      /\ UNCHANGED <<firstRun, tasksProcessed, cancelled, life, registered, streaming, arrived>>
  BY DEF RecvBatch, Goto
<1>3. b \in Batches /\ b # NoBatch
  BY TaskAssumption DEF TypeOK
<1>4. TypeOK'
  BY <1>1, <1>2, <1>3 DEF TypeOK, life
<1>5. Delivered' = Delivered \cup {<<w, b>>}
  BY <1>1, <1>3 DEF Delivered, TypeOK
<1>6. <<w, b>> \notin Delivered
  BY DEF Delivered
<1>7. HandInv'
  BY <1>1, <1>2, <1>3, <1>5, <1>6 DEF HandInv, SentInv, TypeOK, life
<1>8. SentInv'
  BY <1>2, <1>5 DEF SentInv, life
<1>9. AtMostOnce'
  BY <1>1, <1>2, <1>3 DEF AtMostOnce, TypeOK
<1> QED  BY <1>4, <1>7, <1>8, <1>9

LEMMA SubmitStepInv ==
    ASSUME SubmitInv, NEW w \in Workers, SubmitResults(w)
    PROVE  SubmitInv'
<1> USE DEF SubmitInv
<1>1. /\ pc[w] = "submit"
      /\ pc' = [pc EXCEPT ![w] = "recv"]
      /\ batch' = [batch EXCEPT ![w] = NoBatch]
      /\ \/ arrived' = arrived
         \/ arrived' = [arrived EXCEPT ![w][batch[w]] = @ + 1]
      /\ UNCHANGED <<firstRun, tasksProcessed, cancelled, life, registered, streaming,
                     undelivered>>
  BY DEF SubmitResults, Goto
<1>2. /\ batch[w] \in Batches
      /\ batch[w] # NoBatch
      /\ batch[w] \notin undelivered[w]
      /\ arrived[w][batch[w]] = 0
  BY <1>1, TaskAssumption DEF HandInv, TypeOK, AtMostOnce, Delivered
<1>3. arrived' \in [Workers -> [Batches -> Nat]]
  <2>1. arrived[w][batch[w]] + 1 \in Nat
    BY <1>2
  <2>2. [arrived[w] EXCEPT ![batch[w]] = @ + 1] \in [Batches -> Nat]
    BY <2>1 DEF TypeOK
  <2> QED  BY <1>1, <2>2 DEF TypeOK
<1>4. TypeOK'
  BY <1>1, <1>3 DEF TypeOK, life
<1>5. HandInv'
  BY <1>1 DEF HandInv, TypeOK, Delivered, life
<1>6. SentInv'
  BY <1>1 DEF SentInv, Delivered, life
<1>7. AtMostOnce'
  <2> SUFFICES ASSUME NEW v \in Workers, NEW b \in Batches
               PROVE  /\ arrived'[v][b] <= 1
                      /\ b \in undelivered[v] \/ batch'[v] = b => arrived'[v][b] = 0
    BY <1>1 DEF AtMostOnce
  <2>1. CASE v = w /\ b = batch[w]
    BY <1>1, <1>2, <2>1, TaskAssumption DEF TypeOK
  <2>2. CASE ~(v = w /\ b = batch[w])
    <3>1. arrived'[v][b] = arrived[v][b]
      BY <1>1, <1>2, <2>2 DEF TypeOK
    <3>2. batch'[v] = b => batch[v] = b
      BY <1>1, TaskAssumption DEF TypeOK
    <3> QED  BY <3>1, <3>2 DEF AtMostOnce
  <2> QED  BY <2>1, <2>2
<1> QED  BY <1>4, <1>5, <1>6, <1>7

LEMMA StepInv == SubmitInv /\ [Next]_vars => SubmitInv'
<1> SUFFICES ASSUME SubmitInv, [Next]_vars PROVE SubmitInv'
  OBVIOUS
<1>1. ASSUME NEW w \in Workers, RecvBatch(w) PROVE SubmitInv'
  BY <1>1, RecvInv
<1>2. ASSUME NEW w \in Workers, SubmitResults(w) PROVE SubmitInv'
  BY <1>2, SubmitStepInv
<1>3. ASSUME NEW w \in Workers, FirstRegister(w) \/ Reregister(w) PROVE SubmitInv'
  <2>1. TypeOK' /\ Quiet
    BY <1>3 DEF FirstRegister, Reregister, Registers, Goto, SubmitInv, TypeOK, life, Quiet
  <2> QED  BY <1>3, <2>1, QuietInv
           DEF FirstRegister, Reregister, Registers, Goto, SubmitInv, TypeOK
<1>4. ASSUME NEW w \in Workers, FirstRegisterFails(w) \/ ReregisterFails(w)
      PROVE  SubmitInv'
  <2>1. TypeOK' /\ Quiet
    BY <1>4 DEF FirstRegisterFails, ReregisterFails, RegisterFails, Goto, SubmitInv,
                TypeOK, life, Quiet
  <2> QED  BY <1>4, <2>1, QuietInv
           DEF FirstRegisterFails, ReregisterFails, RegisterFails, Goto, SubmitInv, TypeOK
<1>5. ASSUME NEW w \in Workers, LoopTop(w) \/ OpenStream(w) \/ OpenStreamFails(w)
      PROVE  SubmitInv'
  <2>1. TypeOK' /\ Quiet
    BY <1>5 DEF LoopTop, OpenStream, OpenStreamFails, Goto, SubmitInv,
                TypeOK, life, coordinator, Quiet
  <2> QED  BY <1>5, <2>1, QuietInv
           DEF LoopTop, OpenStream, OpenStreamFails, Goto, SubmitInv, TypeOK
<1>6. ASSUME NEW w \in Workers, ProcessBatch(w) \/ StreamEnds(w) PROVE SubmitInv'
  <2>1. (tasksProcessed + Size) % (CounterMax + 1) \in 0..CounterMax
    BY TaskAssumption DEF SubmitInv, TypeOK
  <2>2. TypeOK' /\ Quiet
    BY <1>6, <2>1 DEF ProcessBatch, StreamEnds, Goto, SubmitInv,
                      TypeOK, life, coordinator, Quiet
  <2> QED  BY <1>6, <2>2, QuietInv
           DEF ProcessBatch, StreamEnds, Goto, SubmitInv, TypeOK
<1>7. ASSUME NEW w \in Workers, StreamBreaks(w) \/ Evict(w) PROVE SubmitInv'
  <2>1. TypeOK' /\ Quiet /\ UNCHANGED pc
    BY <1>7 DEF StreamBreaks, Evict, agent, SubmitInv, TypeOK, life, Quiet
  <2> QED  BY <2>1, QuietInv
<1>8. CASE Cancel
  <2>1. TypeOK' /\ Quiet /\ UNCHANGED pc
    BY <1>8 DEF Cancel, coordinator, SubmitInv, TypeOK, life, Quiet
  <2> QED  BY <2>1, QuietInv
<1>9. CASE Exit \/ Crash
  <2>1. Forget("down") /\ UNCHANGED <<before, undelivered, arrived>>
    BY <1>9 DEF Exit, Crash, coordinator
  <2>2. /\ process' \in {"up", "success", "failure"}
        /\ UNCHANGED <<boots, registered>>
        /\ streaming' \in [Workers -> BOOLEAN]
    BY <1>9 DEF Exit, Crash, coordinator, SubmitInv, TypeOK
  <2>3. TypeOK'
    BY <2>1, <2>2, ForgetTypes DEF SubmitInv, TypeOK
  <2> QED  BY <2>1, <2>3, ForgetInv
<1>10. CASE Restart
  <2>1. TypeOK'
    <3>1. /\ Forget("boot") /\ UNCHANGED <<registered, streaming, undelivered, arrived>>
          /\ process' = "up"
          /\ boots' = boots + 1 /\ boots < MaxBoots
          /\ before' = Delivered
      BY <1>10 DEF Restart, coordinator
    <3>2. boots' \in 1..MaxBoots
      BY <3>1, TaskAssumption DEF SubmitInv, TypeOK
    <3>3. Delivered \subseteq Workers \X Batches
      BY DEF Delivered
    <3> QED  BY <3>1, <3>2, <3>3, ForgetTypes DEF SubmitInv, TypeOK
  <2>2. Forget("boot") /\ before' = Delivered /\ UNCHANGED <<undelivered, arrived>>
    BY <1>10 DEF Restart, coordinator
  <2> QED  BY <2>1, <2>2, ForgetInv
<1>11. CASE UNCHANGED vars
  BY <1>11 DEF vars, agent, life, coordinator, SubmitInv, TypeOK, HandInv, SentInv,
               AtMostOnce, Delivered
<1> QED
  BY <1>1, <1>2, <1>3, <1>4, <1>5, <1>6, <1>7, <1>8, <1>9, <1>10, <1>11
     DEF Next, Progress, CallFails

(* The strengthened invariant.                                             *)
THEOREM Invariance == Spec => []SubmitInv
<1>1. Init => SubmitInv
  BY InitInv
<1>2. SubmitInv /\ [Next]_vars => SubmitInv'
  BY StepInv
<1> QED  BY <1>1, <1>2, PTL DEF Spec

(* Every variable keeps its type; the counter stays within its width.      *)
THEOREM TypeCorrect == Spec => []TypeOK
<1>1. SubmitInv => TypeOK
  BY DEF SubmitInv
<1> QED  BY <1>1, Invariance, PTL

(* No results are submitted twice, or for a batch that was not sent.       *)
THEOREM SubmittedOnce == Spec => []AtMostOnce
<1>1. SubmitInv => AtMostOnce
  BY DEF SubmitInv
<1> QED  BY <1>1, Invariance, PTL
-----------------------------------------------------------------------------
(* The counter.  An addition modulo its width is an addition.              *)

LEMMA TimesGrows ==
    ASSUME NEW k \in Nat \ {0}, NEW m \in Nat \ {0}
    PROVE  k * m >= m
OBVIOUS

LEMMA DivMod ==
    ASSUME NEW x \in Nat, NEW m \in Nat \ {0}
    PROVE  /\ x \div m \in Nat
           /\ x % m \in 0..(m - 1)
           /\ x = (x \div m) * m + (x % m)
<1>1. x \div m \in Int /\ x % m \in 0..(m - 1)
  OBVIOUS
<1>2. x = (x \div m) * m + (x % m)
  OBVIOUS
<1>3. x \div m >= 0
  OBVIOUS
<1> QED  BY <1>1, <1>2, <1>3

LEMMA ModUnique ==
    ASSUME NEW m \in Nat \ {0}, NEW q \in Nat, NEW p \in Nat,
           NEW r \in 0..(m - 1), NEW s \in 0..(m - 1), q * m + r = p * m + s
    PROVE  r = s
<1>1. CASE q > p
  <2>1. (q - p) * m >= m
    BY <1>1, TimesGrows
  <2>2. (q - p) * m = q * m - p * m
    OBVIOUS
  <2> QED  BY <2>1, <2>2
<1>2. CASE q < p
  <2>1. (p - q) * m >= m
    BY <1>2, TimesGrows
  <2>2. (p - q) * m = p * m - q * m
    OBVIOUS
  <2> QED  BY <2>1, <2>2
<1>3. CASE q = p
  BY <1>3
<1> QED  BY <1>1, <1>2, <1>3

LEMMA ModAdd ==
    ASSUME NEW a \in Nat, NEW s \in Nat, NEW m \in Nat \ {0}
    PROVE  ((a % m) + s) % m = (a + s) % m
<1>1. PICK q \in Nat, r \in 0..(m - 1) : a = q * m + r /\ r = a % m
  BY DivMod
<1>2. PICK p \in Nat, t \in 0..(m - 1) : r + s = p * m + t /\ t = (r + s) % m
  <2>1. r + s \in Nat
    OBVIOUS
  <2> QED  BY <2>1, DivMod
<1>3. PICK u \in Nat, v \in 0..(m - 1) : a + s = u * m + v /\ v = (a + s) % m
  <2>1. a + s \in Nat
    OBVIOUS
  <2> QED  BY <2>1, DivMod
<1>4. (q + p) * m + t = u * m + v
  <2>1. (q + p) * m = q * m + p * m
    OBVIOUS
  <2>2. q * m \in Int /\ p * m \in Int /\ u * m \in Int
    OBVIOUS
  <2> QED  BY <1>1, <1>2, <1>3, <2>1, <2>2
<1>5. t = v
  BY <1>4, ModUnique
<1> QED  BY <1>1, <1>2, <1>3, <1>5

(* Finitely many batches were sent, so that they can be counted.           *)
CountInv == IsFiniteSet(Delivered) /\ CountIsExact

LEMMA ValidatedFinite ==
    ASSUME CountInv
    PROVE  IsFiniteSet(Validated) /\ Cardinality(Validated) \in Nat
<1>1. Validated \subseteq Delivered
  BY DEF Validated
<1> QED  BY <1>1, FS_Subset, FS_CardinalityType DEF CountInv

(* A step that validates nothing and sends nothing leaves the count.       *)
LEMMA SameCount ==
    ASSUME CountInv, UNCHANGED <<tasksProcessed, process, undelivered, before>>,
           \A w \in Workers, b \in Batches :
               (pc'[w] = "process" /\ batch'[w] = b) <=> (pc[w] = "process" /\ batch[w] = b)
    PROVE  CountInv'
<1>1. Delivered' = Delivered
  BY DEF Delivered
<1>2. Validated' = Validated
  BY <1>1 DEF Validated, Delivered
<1> QED  BY <1>1, <1>2 DEF CountInv, CountIsExact

(* A batch received is not counted before it is validated.                 *)
LEMMA RecvCount ==
    ASSUME SubmitInv, CountInv, NEW w \in Workers, RecvBatch(w)
    PROVE  CountInv'
<1>1. PICK b \in undelivered[w] :
         /\ batch' = [batch EXCEPT ![w] = b]
         /\ undelivered' = [undelivered EXCEPT ![w] = @ \ {b}]
  BY DEF RecvBatch
<1>2. /\ pc[w] = "recv"
      /\ pc' = [pc EXCEPT ![w] = "process"]
      /\ UNCHANGED <<tasksProcessed, process, before>>
  BY DEF RecvBatch, Goto, life
<1>3. b \in Batches
  BY DEF SubmitInv, TypeOK
<1>4. Delivered' = Delivered \cup {<<w, b>>}
  BY <1>1, <1>3 DEF Delivered, SubmitInv, TypeOK
<1>5. IsFiniteSet(Delivered')
  BY <1>4, FS_AddElement DEF CountInv
<1>6. Validated' = Validated
  <2>1. /\ pc'[w] = "process" /\ batch'[w] = b
        /\ \A v \in Workers \ {w} : pc'[v] = pc[v] /\ batch'[v] = batch[v]
    BY <1>1, <1>2 DEF SubmitInv, TypeOK
  <2>2. <<w, b>> \notin Delivered
    BY DEF Delivered
  <2>3. ASSUME NEW p \in Workers \X Batches
        PROVE  p \in Validated' <=> p \in Validated
    <3>1. p = <<p[1], p[2]>> /\ p[1] \in Workers
      OBVIOUS
    <3>2. CASE p = <<w, b>>
      BY <1>2, <2>1, <2>2, <3>2 DEF Validated
    <3>3. CASE p # <<w, b>> /\ p[1] = w
      BY <1>2, <1>4, <2>1, <3>1, <3>3 DEF Validated
    <3>4. CASE p[1] # w
      BY <1>2, <1>4, <2>1, <3>1, <3>4 DEF Validated
    <3> QED  BY <3>1, <3>2, <3>3, <3>4
  <2>4. Validated \subseteq Workers \X Batches
    BY DEF Validated, Delivered
  <2>5. Validated' \subseteq Workers \X Batches
    BY DEF Validated, Delivered
  <2> QED  BY <2>3, <2>4, <2>5
<1> QED  BY <1>2, <1>5, <1>6 DEF CountInv, CountIsExact

(* Validating a batch counts it, once.                                     *)
LEMMA ProcessCount ==
    ASSUME SubmitInv, CountInv, process = "up", NEW w \in Workers, ProcessBatch(w)
    PROVE  CountInv'
<1>1. /\ pc[w] = "process"
      /\ pc' = [pc EXCEPT ![w] = "submit"]
      /\ tasksProcessed' = (tasksProcessed + Size) % (CounterMax + 1)
      /\ UNCHANGED <<batch, process, before, undelivered>>
  BY DEF ProcessBatch, Goto, life, coordinator
<1>2. Delivered' = Delivered
  BY <1>1 DEF Delivered
<1> DEFINE p == <<w, batch[w]>>
<1>3. p \in Delivered \ before
  BY <1>1 DEF SubmitInv, HandInv
<1>4. p \notin Validated
  BY <1>1 DEF Validated
<1>5. Validated' = Validated \cup {p}
  <2>1. /\ pc'[w] = "submit"
        /\ \A v \in Workers \ {w} : pc'[v] = pc[v]
    BY <1>1 DEF SubmitInv, TypeOK
  <2>2. ASSUME NEW q \in Workers \X Batches
        PROVE  q \in Validated' <=> q \in Validated \cup {p}
    <3>1. q = <<q[1], q[2]>> /\ q[1] \in Workers
      OBVIOUS
    <3>2. CASE q = p
      BY <1>1, <1>2, <1>3, <2>1, <3>2 DEF Validated
    <3>3. CASE q # p /\ q[1] = w
      BY <1>1, <1>2, <2>1, <3>1, <3>3 DEF Validated
    <3>4. CASE q[1] # w
      BY <1>1, <1>2, <2>1, <3>1, <3>4 DEF Validated
    <3> QED  BY <3>1, <3>2, <3>3, <3>4
  <2>3. Validated \cup {p} \subseteq Workers \X Batches
    BY <1>3 DEF Validated, Delivered
  <2>4. Validated' \subseteq Workers \X Batches
    BY DEF Validated, Delivered
  <2> HIDE DEF p
  <2> QED  BY <2>2, <2>3, <2>4
<1> DEFINE n == Cardinality(Validated)
<1>6. n \in Nat /\ Cardinality(Validated') = n + 1
  BY <1>4, <1>5, ValidatedFinite, FS_AddElement
<1>7. tasksProcessed = (n * Size) % (CounterMax + 1)
  BY DEF CountInv, CountIsExact
<1>8. tasksProcessed' = ((n + 1) * Size) % (CounterMax + 1)
  <2> HIDE DEF n
  <2>1. n * Size \in Nat /\ CounterMax + 1 \in Nat \ {0} /\ Size \in Nat
    BY <1>6, TaskAssumption
  <2>2. (((n * Size) % (CounterMax + 1)) + Size) % (CounterMax + 1)
           = (n * Size + Size) % (CounterMax + 1)
    BY <2>1, ModAdd
  <2>3. n * Size + Size = (n + 1) * Size
    BY <1>6, TaskAssumption
  <2> QED  BY <1>1, <1>7, <2>2, <2>3
<1> QED  BY <1>2, <1>6, <1>8 DEF CountInv, CountIsExact

LEMMA InitCount == Init => CountInv
<1> SUFFICES ASSUME Init PROVE CountInv
  OBVIOUS
<1>1. Delivered = {}
  BY DEF Init, Delivered
<1>2. Validated = {}
  BY <1>1 DEF Validated
<1>3. (0 * Size) % (CounterMax + 1) = 0
  BY TaskAssumption
<1>4. tasksProcessed = 0
  BY DEF Init
<1> QED  BY <1>1, <1>2, <1>3, <1>4, FS_EmptySet DEF CountInv, CountIsExact

LEMMA StepCount == SubmitInv /\ CountInv /\ [Next]_vars => CountInv'
<1> SUFFICES ASSUME SubmitInv, CountInv, [Next]_vars PROVE CountInv'
  OBVIOUS
<1> USE DEF SubmitInv
<1>1. ASSUME NEW w \in Workers, RecvBatch(w) PROVE CountInv'
  BY <1>1, RecvCount
<1>2. ASSUME NEW w \in Workers, ProcessBatch(w) PROVE CountInv'
  <2>1. CASE process = "up"
    BY <1>2, <2>1, ProcessCount
  <2>2. CASE process # "up"
    <3>1. process' # "up" /\ Delivered' = Delivered
      BY <1>2, <2>2 DEF ProcessBatch, life, coordinator, Delivered
    <3> QED  BY <3>1 DEF CountInv, CountIsExact
  <2> QED  BY <2>1, <2>2
<1>3. ASSUME NEW w \in Workers, SubmitResults(w) PROVE CountInv'
  BY <1>3, SameCount DEF SubmitResults, Goto, life, TypeOK
<1>4. ASSUME NEW w \in Workers,
             \/ FirstRegister(w) \/ Reregister(w)
             \/ FirstRegisterFails(w) \/ ReregisterFails(w)
      PROVE  CountInv'
  BY <1>4, SameCount
     DEF FirstRegister, Reregister, FirstRegisterFails, ReregisterFails, Registers,
         RegisterFails, Goto, life, TypeOK
<1>5. ASSUME NEW w \in Workers,
             LoopTop(w) \/ OpenStream(w) \/ OpenStreamFails(w) \/ StreamEnds(w)
      PROVE  CountInv'
  BY <1>5, SameCount
     DEF LoopTop, OpenStream, OpenStreamFails, StreamEnds, Goto, life, coordinator, TypeOK
<1>6. ASSUME NEW w \in Workers, StreamBreaks(w) \/ Evict(w) PROVE CountInv'
  BY <1>6, SameCount DEF StreamBreaks, Evict, agent, life
<1>7. CASE Cancel
  BY <1>7, SameCount DEF Cancel, life, coordinator
<1>8. CASE Exit \/ Crash
  <2>1. process' # "up" /\ Delivered' = Delivered
    BY <1>8 DEF Exit, Crash, coordinator, Delivered
  <2> QED  BY <2>1 DEF CountInv, CountIsExact
<1>9. CASE Restart
  <2>1. /\ tasksProcessed' = 0 /\ before' = Delivered /\ undelivered' = undelivered
    BY <1>9 DEF Restart, Forget, coordinator
  <2>2. Delivered' = Delivered
    BY <2>1 DEF Delivered
  <2>3. Validated' = {}
    BY <2>1, <2>2 DEF Validated
  <2>4. (0 * Size) % (CounterMax + 1) = 0
    BY TaskAssumption
  <2>5. Cardinality(Validated') = 0
    BY <2>3, FS_EmptySet
  <2> QED  BY <2>1, <2>2, <2>4, <2>5 DEF CountInv, CountIsExact
<1>10. CASE UNCHANGED vars
  BY <1>10, SameCount DEF vars, agent, life, coordinator
<1> QED
  BY <1>1, <1>2, <1>3, <1>4, <1>5, <1>6, <1>7, <1>8, <1>9, <1>10
     DEF Next, Progress, CallFails

(* The counter is the number of tasks validated since the process started, *)
(* modulo its width: no addition is lost or made twice.                    *)
THEOREM ExactCount == Spec => []CountIsExact
<1>1. Init => SubmitInv /\ CountInv
  BY InitInv, InitCount
<1>2. SubmitInv /\ CountInv /\ [Next]_vars => (SubmitInv /\ CountInv)'
  BY StepInv, StepCount
<1>3. SubmitInv /\ CountInv => CountIsExact
  BY DEF CountInv
<1> QED  BY <1>1, <1>2, <1>3, PTL DEF Spec
-----------------------------------------------------------------------------
(* The agent implements Delivery.                                          *)

(* What becomes of the stages when no result arrives twice.                *)
LEMMA StageIs ==
    ASSUME SubmitInv, NEW w \in Workers, NEW b \in Batches
    PROVE  /\ Stages[w][b] = "queued" <=> b \in undelivered[w]
           /\ Stages[w][b] = "hand" <=> batch[w] = b
           /\ Stages[w][b] = "arrived" <=> arrived[w][b] = 1
           /\ Stages[w][b] \in {"queued", "hand", "arrived", "lost"}
<1>1. arrived[w][b] \in {0, 1}
  <2>1. arrived[w][b] \in Nat
    BY DEF SubmitInv, TypeOK
  <2>2. arrived[w][b] <= 1
    BY DEF SubmitInv, AtMostOnce
  <2> QED  BY <2>1, <2>2
<1>2. b \in undelivered[w] => arrived[w][b] = 0 /\ batch[w] # b
  BY TaskAssumption DEF SubmitInv, AtMostOnce, HandInv, Delivered
<1>3. batch[w] = b => arrived[w][b] = 0
  BY DEF SubmitInv, AtMostOnce
<1>4. Stages[w][b] = Stage(w, b)
  BY DEF Stages
<1>5. CASE b \in undelivered[w]
  BY <1>2, <1>4, <1>5 DEF Stage
<1>6. CASE b \notin undelivered[w] /\ arrived[w][b] = 1
  BY <1>3, <1>4, <1>6 DEF Stage
<1>7. CASE b \notin undelivered[w] /\ arrived[w][b] = 0
  BY <1>4, <1>7 DEF Stage
<1> QED  BY <1>1, <1>5, <1>6, <1>7

(* A step that moves one batch of one worker.                              *)
LEMMA OneMoves ==
    ASSUME NEW w \in Workers, NEW b \in Batches, NEW s, Stage(w, b)' = s,
           \A v \in Workers, c \in Batches :
               ~(v = w /\ c = b) => Stage(v, c)' = Stages[v][c]
    PROVE  Stages' = [Stages EXCEPT ![w][b] = s]
<1>1. Stages' = [v \in Workers |-> [c \in Batches |-> Stage(v, c)']]
  BY DEF Stages
<1>2. [Stages EXCEPT ![w][b] = s]
        = [v \in Workers |-> IF v = w THEN [Stages[w] EXCEPT ![b] = s] ELSE Stages[v]]
  BY DEF Stages
<1>3. [Stages[w] EXCEPT ![b] = s]
        = [c \in Batches |-> IF c = b THEN s ELSE Stages[w][c]]
  BY DEF Stages
<1>4. ASSUME NEW v \in Workers, v # w
      PROVE  Stages[v] = [c \in Batches |-> Stages[v][c]]
  BY DEF Stages
<1>5. ASSUME NEW v \in Workers
      PROVE  [c \in Batches |-> Stage(v, c)']
               = IF v = w THEN [Stages[w] EXCEPT ![b] = s] ELSE Stages[v]
  <2>1. CASE v = w
    BY <1>3, <2>1
  <2>2. CASE v # w
    BY <1>4, <2>2
  <2> QED  BY <2>1, <2>2
<1> QED  BY <1>1, <1>2, <1>5

LEMMA RecvTakes ==
    ASSUME SubmitInv, NEW w \in Workers, RecvBatch(w)
    PROVE  \E b \in Batches : D!Take(w, b)
<1>1. PICK b \in undelivered[w] :
         /\ batch' = [batch EXCEPT ![w] = b]
         /\ undelivered' = [undelivered EXCEPT ![w] = @ \ {b}]
  BY DEF RecvBatch
<1>2. b \in Batches /\ pc[w] = "recv" /\ UNCHANGED arrived
  BY DEF RecvBatch, SubmitInv, TypeOK
<1>3. batch[w] = NoBatch
  BY <1>2 DEF SubmitInv, HandInv
<1>4. D!InHand(w) = {}
  BY <1>3, StageIs, TaskAssumption DEF D!InHand
<1>5. Stages[w][b] = "queued"
  BY <1>2, StageIs
<1>6. Stage(w, b)' = "hand"
  <2>1. batch'[w] = b /\ b \notin undelivered'[w]
    BY <1>1 DEF SubmitInv, TypeOK
  <2>2. arrived'[w][b] = 0
    BY <1>2 DEF SubmitInv, AtMostOnce
  <2> QED  BY <2>1, <2>2 DEF Stage
<1>7. ASSUME NEW v \in Workers, NEW c \in Batches, ~(v = w /\ c = b)
      PROVE  Stage(v, c)' = Stages[v][c]
  <2>1. c \in undelivered'[v] <=> c \in undelivered[v]
    BY <1>1, <1>7 DEF SubmitInv, TypeOK
  <2>2. batch'[v] = c <=> batch[v] = c
    BY <1>1, <1>3, <1>7, TaskAssumption DEF SubmitInv, TypeOK
  <2>3. arrived'[v][c] = arrived[v][c] /\ arrived[v][c] \in {0, 1}
    <3>1. arrived[v][c] \in Nat /\ arrived[v][c] <= 1
      BY DEF SubmitInv, TypeOK, AtMostOnce
    <3> QED  BY <1>2, <3>1
  <2>4. Stage(v, c)' = Stage(v, c)
    <3>1. CASE c \in undelivered[v]
      BY <2>1, <3>1 DEF Stage
    <3>2. CASE c \notin undelivered[v] /\ arrived[v][c] = 1
      BY <2>1, <2>3, <3>2 DEF Stage
    <3>3. CASE c \notin undelivered[v] /\ arrived[v][c] = 0
      BY <2>1, <2>2, <2>3, <3>3 DEF Stage
    <3> QED  BY <2>3, <3>1, <3>2, <3>3
  <2> QED  BY <2>4 DEF Stages
<1>8. Stages' = [Stages EXCEPT ![w][b] = "hand"]
  BY <1>2, <1>6, <1>7, OneMoves
<1> QED  BY <1>2, <1>4, <1>5, <1>8 DEF D!Take

LEMMA SubmitAnswers ==
    ASSUME SubmitInv, NEW w \in Workers, SubmitResults(w)
    PROVE  \E b \in Batches : D!Answer(w, b)
<1>1. /\ pc[w] = "submit"
      /\ batch' = [batch EXCEPT ![w] = NoBatch]
      /\ UNCHANGED undelivered
      /\ \/ arrived' = arrived
         \/ arrived' = [arrived EXCEPT ![w][batch[w]] = @ + 1]
  BY DEF SubmitResults
<1>2. PICK b \in Batches : b = batch[w]
  BY <1>1, TaskAssumption DEF SubmitInv, HandInv, TypeOK
<1>3. /\ b \notin undelivered[w]
      /\ arrived[w][b] = 0
  BY <1>2, TaskAssumption DEF SubmitInv, HandInv, AtMostOnce, Delivered
<1>4. Stages[w][b] = "hand"
  BY <1>2, StageIs
<1>5. PICK end \in {"arrived", "lost"} : Stage(w, b)' = end
  <2>1. b \notin undelivered'[w] /\ batch'[w] # b
    BY <1>1, <1>3, TaskAssumption DEF SubmitInv, TypeOK
  <2>2. arrived'[w][b] \in {0, 1}
    BY <1>1, <1>2, <1>3 DEF SubmitInv, TypeOK
  <2> QED  BY <2>1, <2>2 DEF Stage
<1>6. ASSUME NEW v \in Workers, NEW c \in Batches, ~(v = w /\ c = b)
      PROVE  Stage(v, c)' = Stages[v][c]
  <2>1. arrived'[v][c] = arrived[v][c]
    BY <1>1, <1>2, <1>6 DEF SubmitInv, TypeOK
  <2>2. batch'[v] = c <=> batch[v] = c
    BY <1>1, <1>2, <1>6, TaskAssumption DEF SubmitInv, TypeOK
  <2>3. Stage(v, c)' = Stage(v, c)
    BY <1>1, <2>1, <2>2 DEF Stage
  <2> QED  BY <2>3 DEF Stages
<1>7. Stages' = [Stages EXCEPT ![w][b] = end]
  BY <1>5, <1>6, OneMoves
<1> QED  BY <1>4, <1>5, <1>7 DEF D!Answer

(* The end of the process, and its start, lose what is in hand.            *)
LEMMA ForgetGoesDown ==
    ASSUME SubmitInv, NEW l \in {"boot", "down"}, Forget(l),
           UNCHANGED <<undelivered, arrived>>
    PROVE  D!GoDown
<1>1. ASSUME NEW w \in Workers, NEW b \in Batches
      PROVE  Stage(w, b)' = IF Stages[w][b] = "hand" THEN "lost" ELSE Stages[w][b]
  <2>1. batch'[w] # b
    BY TaskAssumption DEF Forget
  <2>2. CASE batch[w] = b
    <3>1. b \notin undelivered[w] /\ arrived[w][b] = 0
      BY <2>2, TaskAssumption DEF SubmitInv, HandInv, AtMostOnce, Delivered
    <3>2. Stage(w, b)' = "lost"
      BY <2>1, <3>1 DEF Stage
    <3> QED  BY <2>2, <3>2, StageIs
  <2>3. CASE batch[w] # b
    <3>1. Stage(w, b)' = Stage(w, b)
      BY <2>1, <2>3 DEF Stage
    <3> QED  BY <2>3, <3>1, StageIs DEF Stages
  <2> QED  BY <2>2, <2>3
<1> QED  BY <1>1 DEF Stages, D!GoDown

LEMMA QuietStutters ==
    ASSUME UNCHANGED <<batch, undelivered, arrived>>
    PROVE  UNCHANGED Stages
BY DEF Stages, Stage

LEMMA InitDelivers == SubmitInv /\ Init => D!Init
<1> SUFFICES ASSUME SubmitInv, Init PROVE D!Init
  OBVIOUS
<1>1. \A w \in Workers, b \in Batches : Stages[w][b] = "queued"
  BY StageIs DEF Init
<1> QED  BY <1>1 DEF D!Init, Stages

LEMMA StepDelivers == SubmitInv /\ [Next]_vars => [D!Next]_Stages
<1> SUFFICES ASSUME SubmitInv, [Next]_vars PROVE D!Next \/ UNCHANGED Stages
  OBVIOUS
<1>1. ASSUME NEW w \in Workers, RecvBatch(w) PROVE D!Next
  BY <1>1, RecvTakes DEF D!Next
<1>2. ASSUME NEW w \in Workers, SubmitResults(w) PROVE D!Next
  BY <1>2, SubmitAnswers DEF D!Next
<1>3. CASE Exit \/ Crash \/ Restart
  <2>1. PICK l \in {"boot", "down"} : Forget(l)
    BY <1>3 DEF Exit, Crash, Restart
  <2>2. UNCHANGED <<undelivered, arrived>>
    BY <1>3 DEF Exit, Crash, Restart, coordinator
  <2> QED  BY <2>1, <2>2, ForgetGoesDown DEF D!Next
<1>4. ASSUME NEW w \in Workers,
             \/ FirstRegister(w) \/ Reregister(w) \/ OpenStream(w) \/ ProcessBatch(w)
             \/ StreamEnds(w) \/ LoopTop(w) \/ CallFails(w)
             \/ StreamBreaks(w) \/ Evict(w)
      PROVE  UNCHANGED Stages
  BY <1>4, QuietStutters
     DEF FirstRegister, Reregister, OpenStream, ProcessBatch, StreamEnds, LoopTop,
         CallFails, FirstRegisterFails, ReregisterFails, OpenStreamFails, Registers,
         RegisterFails, StreamBreaks, Evict, agent, coordinator
<1>5. CASE Cancel \/ UNCHANGED vars
  BY <1>5, QuietStutters DEF Cancel, vars, agent, coordinator
<1> QED  BY <1>1, <1>2, <1>3, <1>4, <1>5 DEF Next, Progress

(* The agent takes batches one at a time, and the results of each arrive   *)
(* once or are lost for good: submitResults does not repeat its call, and  *)
(* neither a new stream nor a new start of the process has a batch in hand.*)
THEOREM DeliveryImplemented == Spec => DeliversOnce
<1>1. Init => SubmitInv
  BY InitInv
<1>2. SubmitInv /\ [Next]_vars => SubmitInv'
  BY StepInv
<1>3. SubmitInv /\ Init => D!Init
  BY InitDelivers
<1>4. SubmitInv /\ [Next]_vars => [D!Next]_Stages
  BY StepDelivers
<1> QED  BY <1>1, <1>2, <1>3, <1>4, PTL DEF Spec, DeliversOnce, D!Spec
=============================================================================
