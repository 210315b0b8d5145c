----------------------------- MODULE TaskStream -----------------------------
(***************************************************************************)
(* The task side of the agent (main.go): one worker per coordinator, each  *)
(* of which registers, streams batches of tasks, validates them and        *)
(* submits the results.  The workers share the process, its cancellation   *)
(* and the counter tasksProcessed.  The heartbeats beside them only read   *)
(* the counter and log the answer, so they are not modelled.               *)
(*                                                                         *)
(* The coordinators are outside this repository.  As the agent uses them:  *)
(* a coordinator hands batches to a registered agent over its open stream; *)
(* an eviction ends the stream (the reason for registering again,          *)
(* main.go:262), and so does a restart.  Any call may fail, and a failed   *)
(* call may have arrived.                                                  *)
(*                                                                         *)
(* The process may crash at any point and lose its memory; a service       *)
(* manager starts it again (service.go, scripts/install.sh).               *)
(***************************************************************************)
EXTENDS Naturals, FiniteSets

CONSTANTS
    Workers,
    Batches,      \* per worker, the batches its coordinator has for it
    Size,         \* tasks in a batch
    NoBatch,      \* nothing in hand
    CounterMax,   \* the counter is a uint32: it holds values modulo CounterMax + 1
    RestartAfter, \* the ends of the process after which it is started again
    MaxBoots      \* bound: starts of the process

ASSUME TaskAssumption == /\ NoBatch \notin Batches
                         /\ Size \in Nat
                         /\ CounterMax \in Nat
                         /\ RestartAfter \subseteq {"success", "failure"}
                         /\ MaxBoots \in Nat \ {0}

VARIABLES
    pc,             \* where a worker is in runWorker and streamTasks
    firstRun,       \* streamTasks: no stream was tried yet
    batch,          \* the batch a worker received and has not submitted
    tasksProcessed, \* the global counter
    cancelled,      \* the process got SIGINT or SIGTERM
    process,        \* the process is up, or how it ended
    boots,          \* starts of the process
    registered,     \* coordinator: the agent is registered
    streaming,      \* coordinator: the agent's task stream is open
    undelivered,    \* coordinator: the batches not yet sent
    arrived,        \* coordinator: per batch, the times its results arrived
    before          \* history: the batches sent before this start of the process

life == <<process, boots, before>>
agent == <<pc, firstRun, batch, tasksProcessed, cancelled, life>>
coordinator == <<registered, streaming, undelivered, arrived>>
vars == <<agent, coordinator>>

Init ==
    /\ pc = [w \in Workers |-> "boot"]
    /\ firstRun = [w \in Workers |-> TRUE]
    /\ batch = [w \in Workers |-> NoBatch]
    /\ tasksProcessed = 0
    /\ cancelled = FALSE
    /\ process = "up"
    /\ boots = 1
    /\ before = {}
    /\ registered = [w \in Workers |-> FALSE]
    /\ streaming = [w \in Workers |-> FALSE]
    /\ undelivered = [w \in Workers |-> Batches]
    /\ arrived = [w \in Workers |-> [b \in Batches |-> 0]]

Goto(w, l) == pc' = [pc EXCEPT ![w] = l]

-----------------------------------------------------------------------------
(* Registration *)

Registers(w, from, to) ==
    /\ pc[w] = from
    /\ ~cancelled
    /\ registered' = [registered EXCEPT ![w] = TRUE]
    /\ Goto(w, to)
    /\ UNCHANGED <<firstRun, batch, tasksProcessed, cancelled, life,
                   streaming, undelivered, arrived>>

(* The call fails, is rejected, or its answer is lost: the coordinator may *)
(* have taken it.                                                          *)
RegisterFails(w, from, to) ==
    /\ pc[w] = from
    /\ \E taken \in BOOLEAN :
          registered' = [registered EXCEPT ![w] = @ \/ (taken /\ ~cancelled)]
    /\ Goto(w, to)
    /\ UNCHANGED <<firstRun, batch, tasksProcessed, cancelled, life,
                   streaming, undelivered, arrived>>

(* runWorker: a failure ends the worker.                                   *)
FirstRegister(w) == Registers(w, "boot", "top")
FirstRegisterFails(w) == RegisterFails(w, "boot", "ended")

(* streamTasks, before every stream but the first: a failure is retried    *)
(* after 5 s.                                                              *)
Reregister(w) == Registers(w, "register", "dial")
ReregisterFails(w) == RegisterFails(w, "register", "top")

-----------------------------------------------------------------------------
(* The stream *)

(* Slips: the loop goes on when the context is cancelled; it opens a new   *)
(* stream without registering again.                                       *)
SlipLoopTopDeaf(w) ==
    /\ pc[w] = "top"
    /\ Goto(w, IF firstRun[w] THEN "dial" ELSE "register")
    /\ firstRun' = [firstRun EXCEPT ![w] = FALSE]
    /\ UNCHANGED <<batch, tasksProcessed, cancelled, life, coordinator>>

SlipLoopTopDials(w) ==
    /\ pc[w] = "top"
    /\ Goto(w, IF cancelled THEN "ended" ELSE "dial")
    /\ firstRun' = [firstRun EXCEPT ![w] = FALSE]
    /\ UNCHANGED <<batch, tasksProcessed, cancelled, life, coordinator>>

(* The top of the loop of streamTasks.                                     *)
LoopTop(w) ==
    /\ pc[w] = "top"
    /\ Goto(w, IF cancelled THEN "ended" ELSE IF firstRun[w] THEN "dial" ELSE "register")
    /\ firstRun' = [firstRun EXCEPT ![w] = FALSE]
    /\ UNCHANGED <<batch, tasksProcessed, cancelled, life, coordinator>>

(* NewStream and SendMsg; the coordinator serves registered agents.        *)
OpenStream(w) ==
    /\ pc[w] = "dial"
    /\ ~cancelled
    /\ registered[w]
    /\ streaming' = [streaming EXCEPT ![w] = TRUE]
    /\ Goto(w, "recv")
    /\ UNCHANGED <<firstRun, batch, tasksProcessed, cancelled, life,
                   registered, undelivered, arrived>>

OpenStreamFails(w) ==
    /\ pc[w] = "dial"
    /\ Goto(w, "top")
    /\ UNCHANGED <<firstRun, batch, tasksProcessed, cancelled, life, coordinator>>

(* Slip: the next batch is received before the results are submitted.      *)
SlipReceiveAhead(w) ==
    /\ pc[w] \in {"recv", "submit"}
    /\ streaming[w]
    /\ \E b \in undelivered[w] :
          /\ batch' = [batch EXCEPT ![w] = b]
          /\ undelivered' = [undelivered EXCEPT ![w] = @ \ {b}]
    /\ Goto(w, "process")
    /\ UNCHANGED <<firstRun, tasksProcessed, cancelled, life, registered, streaming, arrived>>

(* RecvMsg hands over one batch; the loop reads the next when it is done.   *)
RecvBatch(w) ==
    /\ pc[w] = "recv"
    /\ streaming[w]
    /\ \E b \in undelivered[w] :
          /\ batch' = [batch EXCEPT ![w] = b]
          /\ undelivered' = [undelivered EXCEPT ![w] = @ \ {b}]
    /\ Goto(w, "process")
    /\ UNCHANGED <<firstRun, tasksProcessed, cancelled, life, registered, streaming, arrived>>

(* Slips: the counter is set, not added to; the counter has no width.      *)
SlipCountStored(w) ==
    /\ pc[w] = "process"
    /\ tasksProcessed' = Size
    /\ Goto(w, "submit")
    /\ UNCHANGED <<firstRun, batch, cancelled, life, coordinator>>

SlipCountWide(w) ==
    /\ pc[w] = "process"
    /\ tasksProcessed' = tasksProcessed + Size
    /\ Goto(w, "submit")
    /\ UNCHANGED <<firstRun, batch, cancelled, life, coordinator>>

(* processBatch: validates every task and counts them all, in one atomic   *)
(* addition to the counter the workers share.                              *)
ProcessBatch(w) ==
    /\ pc[w] = "process"
    /\ tasksProcessed' = (tasksProcessed + Size) % (CounterMax + 1)
    /\ Goto(w, "submit")
    /\ UNCHANGED <<firstRun, batch, cancelled, life, coordinator>>

(* Slip: a submit without an answer is repeated.                           *)
SlipSubmitAgain(w) ==
    /\ pc[w] = "submit"
    /\ \E reaches, answered \in BOOLEAN :
          /\ arrived' = IF reaches THEN [arrived EXCEPT ![w][batch[w]] = @ + 1] ELSE arrived
          /\ IF answered
             THEN Goto(w, "recv") /\ batch' = [batch EXCEPT ![w] = NoBatch]
             ELSE UNCHANGED <<pc, batch>>
    /\ UNCHANGED <<firstRun, tasksProcessed, cancelled, life, registered, streaming,
                   undelivered>>

(* submitResults makes one call.  Whether it is accepted, rejected, lost   *)
(* on the way or its answer is lost, the worker goes on to the next batch. *)
SubmitResults(w) ==
    /\ pc[w] = "submit"
    /\ \E reaches \in {FALSE, ~cancelled} :
          arrived' = IF reaches THEN [arrived EXCEPT ![w][batch[w]] = @ + 1] ELSE arrived
    /\ batch' = [batch EXCEPT ![w] = NoBatch]
    /\ Goto(w, "recv")
    /\ UNCHANGED <<firstRun, tasksProcessed, cancelled, life, registered, streaming,
                   undelivered>>

(* RecvMsg fails: the stream is gone, or the context is cancelled.  Back   *)
(* to the top of the loop after 2 s.                                       *)
StreamEnds(w) ==
    /\ pc[w] = "recv"
    /\ ~streaming[w] \/ cancelled
    /\ streaming' = [streaming EXCEPT ![w] = FALSE]
    /\ Goto(w, "top")
    /\ UNCHANGED <<firstRun, batch, tasksProcessed, cancelled, life,
                   registered, undelivered, arrived>>

Cancel ==
    /\ process = "up" /\ ~cancelled
    /\ cancelled' = TRUE
    /\ UNCHANGED <<pc, firstRun, batch, tasksProcessed, life, coordinator>>

-----------------------------------------------------------------------------
(* The process *)

Forget(pcAfter) ==
    /\ pc' = [w \in Workers |-> pcAfter]
    /\ firstRun' = [w \in Workers |-> TRUE]
    /\ batch' = [w \in Workers |-> NoBatch]
    /\ tasksProcessed' = 0
    /\ cancelled' = FALSE

(* main returns when every worker has, and the process exits with 0.       *)
Exit ==
    /\ process = "up" /\ \A w \in Workers : pc[w] = "ended"
    /\ process' = "success"
    /\ Forget("down")
    /\ UNCHANGED <<boots, before, coordinator>>

(* The process is killed; its streams end with it.                         *)
Crash ==
    /\ process = "up"
    /\ process' = "failure"
    /\ Forget("down")
    /\ streaming' = [w \in Workers |-> FALSE]
    /\ UNCHANGED <<boots, before, registered, undelivered, arrived>>

Delivered == {p \in Workers \X Batches : p[2] \notin undelivered[p[1]]}

(* The service manager starts it again: after a failure (Restart=on-failure*)
(* and SuccessfulExit false in service.go), or after every end             *)
(* (Restart=always in scripts/install.sh).                                 *)
Restart ==
    /\ process \in RestartAfter
    /\ boots < MaxBoots
    /\ process' = "up"
    /\ boots' = boots + 1
    /\ before' = Delivered
    /\ Forget("boot")
    /\ UNCHANGED coordinator

-----------------------------------------------------------------------------
(* The coordinators and the network *)

StreamBreaks(w) ==
    /\ streaming[w]
    /\ streaming' = [streaming EXCEPT ![w] = FALSE]
    /\ UNCHANGED <<agent, registered, undelivered, arrived>>

(* An eviction, or a restart of the coordinator.                           *)
Evict(w) ==
    /\ registered[w]
    /\ registered' = [registered EXCEPT ![w] = FALSE]
    /\ streaming' = [streaming EXCEPT ![w] = FALSE]
    /\ UNCHANGED <<agent, undelivered, arrived>>

-----------------------------------------------------------------------------

Progress(w) == \/ FirstRegister(w) \/ Reregister(w) \/ OpenStream(w) \/ RecvBatch(w)
               \/ ProcessBatch(w) \/ SubmitResults(w) \/ StreamEnds(w) \/ LoopTop(w)

CallFails(w) == FirstRegisterFails(w) \/ ReregisterFails(w) \/ OpenStreamFails(w)

Next == \/ \E w \in Workers : \/ Progress(w) \/ CallFails(w)
                              \/ StreamBreaks(w) \/ Evict(w)
        \/ Cancel \/ Exit \/ Crash \/ Restart

Spec == Init /\ [][Next]_vars

(* Each worker is a goroutine whose pauses end.  A call returns: with an   *)
(* error once the context is cancelled, and the coordinator refuses the    *)
(* stream of an agent it does not know.                                    *)
FairSpec == /\ Spec
            /\ \A w \in Workers :
                  /\ WF_vars(Progress(w))
                  /\ WF_vars(cancelled /\ CallFails(w))
                  /\ WF_vars(~registered[w] /\ OpenStreamFails(w))
            /\ WF_vars(Exit)

-----------------------------------------------------------------------------
(* Properties *)

(* The type invariant: the counter stays within its width.                 *)
TypeOK ==
    /\ pc \in [Workers -> {"boot", "top", "register", "dial", "recv",
                           "process", "submit", "ended", "down"}]
    /\ firstRun \in [Workers -> BOOLEAN]
    /\ batch \in [Workers -> Batches \cup {NoBatch}]
    /\ tasksProcessed \in 0..CounterMax
    /\ cancelled \in BOOLEAN
    /\ registered \in [Workers -> BOOLEAN]
    /\ streaming \in [Workers -> BOOLEAN]
    /\ undelivered \in [Workers -> SUBSET Batches]
    /\ arrived \in [Workers -> [Batches -> Nat]]
    /\ process \in {"up", "success", "failure"}
    /\ boots \in 1..MaxBoots
    /\ before \subseteq Workers \X Batches

(* The results of a batch arrive at most once, and only after the batch    *)
(* was sent, whatever is lost, however often the stream is reopened and    *)
(* whenever the process crashes and starts again (submitResults is not     *)
(* repeated, and a new stream starts with nothing in hand).                *)
AtMostOnce ==
    \A w \in Workers, b \in Batches :
        /\ arrived[w][b] <= 1
        /\ b \in undelivered[w] \/ batch[w] = b => arrived[w][b] = 0

(* How far a batch is.                                                     *)
Stage(w, b) ==
    CASE b \in undelivered[w] -> "queued"
      [] b \notin undelivered[w] /\ arrived[w][b] > 1 -> "twice"
      [] b \notin undelivered[w] /\ arrived[w][b] = 1 -> "arrived"
      [] b \notin undelivered[w] /\ arrived[w][b] = 0 ->
            IF batch[w] = b THEN "hand" ELSE "lost"

Stages == [w \in Workers |-> [b \in Batches |-> Stage(w, b)]]

D == INSTANCE Delivery WITH stage <- Stages

(* The agent keeps the promise of module Delivery: a worker that waits for *)
(* a batch has none in hand; the one call of submitResults, answered or    *)
(* not, ends the batch; and the end of the process loses every batch in    *)
(* hand, which no start, registration or stream brings back.               *)
DeliversOnce == D!Spec

Validated == { p \in Delivered \ before :
                 ~(pc[p[1]] = "process" /\ batch[p[1]] = p[2]) }

(* The counter that the heartbeats report to every coordinator is the      *)
(* number of tasks validated for all of them since the process started,    *)
(* those whose results were lost included, modulo its width: no addition   *)
(* is lost or made twice.                                                  *)
CountIsExact ==
    process = "up" => tasksProcessed = (Cardinality(Validated) * Size) % (CounterMax + 1)

(* README.md:491: a worker past its first register streams again after the *)
(* coordinator evicted it, restarted or lost its stream, if failures stop  *)
(* and the process stays up.                                               *)
Reconnects ==
    (<>[][\A w \in Workers : ~ \/ StreamBreaks(w) \/ Evict(w) \/ ReregisterFails(w)
                               \/ registered[w] /\ OpenStreamFails(w)]_vars)
        => \A w \in Workers :
             (pc[w] \notin {"boot", "ended", "down"})
                 ~> (streaming[w] \/ cancelled \/ process # "up")

(* A signal ends every worker, so that main returns (wg.Wait) and the      *)
(* process exits.                                                          *)
ShutsDown == cancelled ~> (process # "up")
=============================================================================
