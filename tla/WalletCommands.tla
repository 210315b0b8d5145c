--------------------------- MODULE WalletCommands ---------------------------
(***************************************************************************)
(* The commands that send transactions from a wallet: fund (fund.go),      *)
(* claim (claim.go) and deploy (deploy.go), several of which may run at a  *)
(* time with one key.  Each asks the node for a nonce once and counts on   *)
(* from it; each reads a balance or an amount once and relies on it later. *)
(*                                                                         *)
(* The node and the reward contract are outside this repository.  What the *)
(* commands rely on is modelled: the node accepts a transaction whose nonce*)
(* is neither used nor taken and whose cost the wallet can still pay, and  *)
(* mines nonces in order; claim() pays what is owed and reverts for        *)
(* nothing.  A replacement at a higher gas price is left out, and so is    *)
(* --dry-run, which stops before the nonce.                                *)
(***************************************************************************)
EXTENDS Naturals, FiniteSets

CONSTANTS
    Commands,    \* running commands of one wallet
    Runs,        \* what they may be: "fund", "claim" or "deploy"
    Wallets,     \* the number of wallets a fund command is given
    Amount,      \* what it sends to each
    Gas,         \* what a transaction costs beside its amount
    Funds,       \* what the wallet starts with
    MaxOwed,     \* bound: rewards the contract owes
    MaxPolls     \* how often a receipt is asked for (30 and 60 in the code)

ASSUME WalletAssumption == /\ Runs \subseteq [Commands -> {"fund", "claim", "deploy"}]
                           /\ {Amount, Gas, Funds, MaxOwed} \subseteq Nat
                           /\ MaxPolls \in Nat \ {0}
                           /\ Wallets \in Nat \ {0}   \* fund.go:38 refuses none

VARIABLES
    used,      \* node: nonces 0..used-1 are mined
    pool,      \* node: nonce -> pending transaction
    funds,     \* node: the wallet's balance
    receipts,  \* node: mined transactions, whether they succeeded, what they paid
    dropped,   \* node: it forgot a pending transaction
    owed,      \* contract: claimable(wallet)
    taken,     \* per claim: someone else withdrew since it read claimable
    kind,      \* which command each is
    cmd        \* per command: its local variables

nodeVars == <<used, pool, funds, receipts, dropped>>
vars == <<nodeVars, owed, taken, kind, cmd>>

Running == {"start", "nonce", "send", "wait", "poll"}
Ended == {"done", "nothing", "succeeded", "reverted", "unconfirmed", "exit"}

(* next: the wallet in turn (for fund); sent: the wallets counted as sent; *)
(* expired: the context's deadline is over, and every call fails.          *)
Locals == [pc : Running \cup Ended, nonce : Nat, next : 1..(Wallets + 1),
           sent : SUBSET (1..Wallets), claimable : 0..MaxOwed,
           polls : 0..(MaxPolls - 1), expired : BOOLEAN]

Tx(c) == [by |-> c, item |-> cmd[c].next]
Value(tx) == IF kind[tx.by] = "fund" THEN Amount ELSE 0
Cost(tx) == Value(tx) + Gas

Init ==
    /\ used = 0
    /\ pool = [n \in {} |-> 0]
    /\ funds = Funds
    /\ receipts = {}
    /\ dropped = FALSE
    /\ owed \in 0..MaxOwed
    /\ taken = [c \in Commands |-> FALSE]
    /\ kind \in Runs
    /\ cmd = [c \in Commands |-> [pc |-> "start", nonce |-> 0, next |-> 1, sent |-> {},
                                  claimable |-> 0, polls |-> 0, expired |-> FALSE]]

-----------------------------------------------------------------------------
(* The node and the contract *)

Pending == DOMAIN pool

Committed == Amount * Cardinality({n \in Pending : kind[pool[n].by] = "fund"})
             + Gas * Cardinality(Pending)

Accepts(nonce, tx) ==
    /\ nonce >= used /\ nonce \notin Pending
    /\ Committed + Cost(tx) <= funds

(* PendingNonceAt: the first nonce that is neither used nor taken.         *)
PendingNonce == CHOOSE n \in used..(used + Cardinality(Pending)) :
                    n \notin Pending /\ used..(n - 1) \subseteq Pending

AddToPool(nonce, tx) ==
    /\ pool' = [n \in Pending \cup {nonce} |-> IF n = nonce THEN tx ELSE pool[n]]
    /\ UNCHANGED <<used, funds, receipts, dropped, owed, taken, kind>>

(* A block takes the next nonce.  claim() reverts when nothing is owed;    *)
(* what it pays goes to the wallet.                                        *)
Mine ==
    /\ used \in Pending
    /\ LET tx == pool[used]
           claim == kind[tx.by] = "claim"
           paid == IF claim THEN owed ELSE 0
       IN  /\ receipts' = receipts \cup
                  {[tx |-> tx, ok |-> (claim => owed > 0), paid |-> paid]}
           /\ funds' = funds - Cost(tx) + paid
           /\ owed' = IF claim THEN 0 ELSE owed
           /\ taken' = [c \in Commands |-> taken[c] \/ (claim /\ kind[c] = "claim" /\ c # tx.by)]
    /\ pool' = [n \in Pending \ {used} |-> pool[n]]
    /\ used' = used + 1
    /\ UNCHANGED <<dropped, kind, cmd>>

(* A node forgets a transaction (bound: once): it restarts, or its pool is *)
(* full.                                                                   *)
Drop ==
    /\ ~dropped
    /\ \E n \in Pending : pool' = [m \in Pending \ {n} |-> pool[m]]
    /\ dropped' = TRUE
    /\ UNCHANGED <<used, funds, receipts, owed, taken, kind, cmd>>

(* The coordinator settles an epoch; or it pays the agent out (claimFor).  *)
Settle ==
    /\ owed < MaxOwed
    /\ owed' = owed + 1
    /\ UNCHANGED <<nodeVars, taken, kind, cmd>>

ClaimFor ==
    /\ owed > 0
    /\ owed' = 0
    /\ taken' = [c \in Commands |-> kind[c] = "claim"]
    /\ UNCHANGED <<nodeVars, kind, cmd>>

-----------------------------------------------------------------------------
(* The commands *)

Local(c, l) == cmd' = [cmd EXCEPT ![c] = l]
Goto(c, pc) == Local(c, [cmd[c] EXCEPT !.pc = pc])
At(c, kinds, pc) == kind[c] \in kinds /\ cmd[c].pc = pc
Online(c) == ~cmd[c].expired

(* fund compares the balance with the amounts, without the gas; deploy     *)
(* with zero.                                                              *)
CheckBalance(c) ==
    /\ At(c, {"fund", "deploy"}, "start") /\ Online(c)
    /\ Goto(c, IF funds < (IF kind[c] = "fund" THEN Amount * Wallets ELSE 1)
               THEN "exit" ELSE "nonce")
    /\ UNCHANGED <<nodeVars, owed, taken, kind>>

ReadClaimable(c) ==
    /\ At(c, {"claim"}, "start") /\ Online(c)
    /\ Local(c, [cmd[c] EXCEPT !.pc = IF owed = 0 THEN "nothing" ELSE "nonce",
                               !.claimable = owed])
    /\ taken' = [taken EXCEPT ![c] = FALSE]
    /\ UNCHANGED <<nodeVars, owed, kind>>

FetchNonce(c) ==
    /\ cmd[c].pc = "nonce" /\ Online(c)
    /\ Local(c, [cmd[c] EXCEPT !.pc = "send", !.nonce = PendingNonce])
    /\ UNCHANGED <<nodeVars, owed, taken, kind>>

(* The next turn of fund's loop, and what follows it.                      *)
Turn(c, l) == Local(c, [l EXCEPT !.next = @ + 1,
                                 !.pc = CASE l.next < Wallets -> "send"
                                          [] l.next >= Wallets /\ l.sent # {} -> "wait"
                                          [] OTHER -> "done"])

(* The node accepts the transaction and says so.                           *)
SendOK(c) ==
    /\ cmd[c].pc = "send" /\ Online(c)
    /\ Accepts(cmd[c].nonce, Tx(c))
    /\ AddToPool(cmd[c].nonce, Tx(c))
    /\ IF kind[c] = "fund"
       THEN Turn(c, [cmd[c] EXCEPT !.nonce = @ + 1, !.sent = @ \cup {cmd[c].next}])
       ELSE Goto(c, "poll")

(* Slip: the nonce advances for a wallet that failed, too.                 *)
SlipNonceAdvances(c) ==
    IF kind[c] = "fund" THEN Turn(c, [cmd[c] EXCEPT !.nonce = @ + 1]) ELSE Goto(c, "exit")

(* Slip: the answer to a send is not looked at.                            *)
SlipErrorIgnored(c) ==
    IF kind[c] = "fund"
    THEN Turn(c, [cmd[c] EXCEPT !.nonce = @ + 1, !.sent = @ \cup {cmd[c].next}])
    ELSE Goto(c, "poll")

(* SendTransaction returned an error: fund counts the wallet as failed and *)
(* uses the nonce for the next one; the others exit.                       *)
SendError(c) ==
    IF kind[c] = "fund" THEN Turn(c, cmd[c]) ELSE Goto(c, "exit")

(* The node refuses, or the call does not reach it.                        *)
SendFails(c) ==
    /\ cmd[c].pc = "send"
    /\ SendError(c)
    /\ UNCHANGED <<nodeVars, owed, taken, kind>>

(* The node accepts, and its answer is lost.                               *)
AnswerLost(c) ==
    /\ cmd[c].pc = "send" /\ Online(c)
    /\ Accepts(cmd[c].nonce, Tx(c))
    /\ AddToPool(cmd[c].nonce, Tx(c))
    /\ SendError(c)

(* fund waits 15 s and reports; it asks for no receipt.                    *)
FundComplete(c) ==
    /\ cmd[c].pc = "wait"
    /\ Goto(c, "done")
    /\ UNCHANGED <<nodeVars, owed, taken, kind>>

ReceiptsOf(c) == {r \in receipts : r.tx.by = c}

(* Slip: any receipt is a success.                                         *)
SlipPollStatus(c) ==
    /\ cmd[c].pc = "poll" /\ Online(c)
    /\ ReceiptsOf(c) # {}
    /\ Goto(c, "succeeded")
    /\ UNCHANGED <<nodeVars, owed, taken, kind>>

(* claim reports the amount it read before it sent the transaction.        *)
Receipt(c) ==
    /\ cmd[c].pc = "poll" /\ Online(c)
    /\ \E r \in ReceiptsOf(c) : Goto(c, IF r.ok THEN "succeeded" ELSE "reverted")
    /\ UNCHANGED <<nodeVars, owed, taken, kind>>

(* Slip: the last turn of the loop does not end it.                        *)
SlipOnePollMore(c) ==
    /\ cmd[c].pc = "poll"
    /\ Local(c, IF cmd[c].polls < MaxPolls
                THEN [cmd[c] EXCEPT !.polls = @ + 1]
                ELSE [cmd[c] EXCEPT !.pc = "unconfirmed"])
    /\ UNCHANGED <<nodeVars, owed, taken, kind>>

(* No receipt yet, or the call failed.                                     *)
NoReceipt(c) ==
    /\ cmd[c].pc = "poll"
    /\ Local(c, IF cmd[c].polls + 1 < MaxPolls
                THEN [cmd[c] EXCEPT !.polls = @ + 1]
                ELSE [cmd[c] EXCEPT !.pc = "unconfirmed"])
    /\ UNCHANGED <<nodeVars, owed, taken, kind>>

(* A call before the first send fails, or the command is killed.           *)
Exit(c) ==
    /\ cmd[c].pc \in Running
    /\ Goto(c, "exit")
    /\ UNCHANGED <<nodeVars, owed, taken, kind>>

(* The deadline of the context: 30 s for claim, 120 s for fund and deploy. *)
Expire(c) ==
    /\ cmd[c].pc \in Running \ {"wait"} /\ Online(c)
    /\ Local(c, [cmd[c] EXCEPT !.expired = TRUE])
    /\ UNCHANGED <<nodeVars, owed, taken, kind>>

Step(c) == \/ CheckBalance(c) \/ ReadClaimable(c) \/ FetchNonce(c)
           \/ SendOK(c) \/ SendFails(c) \/ AnswerLost(c) \/ FundComplete(c)
           \/ Receipt(c) \/ NoReceipt(c) \/ Exit(c) \/ Expire(c)

Next == Mine \/ Drop \/ Settle \/ ClaimFor \/ \E c \in Commands : Step(c)

(* The network goes on producing blocks.                                   *)
Spec == Init /\ [][Next]_vars /\ WF_vars(Mine)

-----------------------------------------------------------------------------
(* Properties *)

TypeOK ==
    /\ used \in Nat
    /\ \A n \in Pending : /\ n \in Nat
                          /\ pool[n] \in [by : Commands, item : 1..(Wallets + 1)]
    /\ funds \in Nat
    /\ \A r \in receipts : r.ok \in BOOLEAN /\ r.paid \in 0..MaxOwed
    /\ dropped \in BOOLEAN
    /\ owed \in 0..MaxOwed
    /\ taken \in [Commands -> BOOLEAN]
    /\ kind \in Runs
    /\ cmd \in [Commands -> Locals]

(* No pending transaction waits for a nonce nobody used: whatever failed,  *)
(* was lost, or was sent by another command with the same key, the wallet's*)
(* pending nonces follow the mined ones without a gap, unless the node     *)
(* itself forgot one (fund.go:142: the nonce advances after a success      *)
(* only).                                                                  *)
NoNonceGap ==
    ~dropped => Pending = used..(used + Cardinality(Pending) - 1)

(* A wallet fund counts as sent has its transaction in the node's pool or  *)
(* in a block, whatever failed before it or after it and whoever else      *)
(* sends with the key, until the node forgets one (fund.go:131-142).       *)
Travelling == {pool[n] : n \in Pending} \cup {r.tx : r \in receipts}

NothingSentIsLost ==
    ~dropped => \A c \in Commands : \A i \in cmd[c].sent :
                    [by |-> c, item |-> i] \in Travelling

(* And the wallet is paid, although fund does not look for a receipt, if   *)
(* the node forgets nothing.                                               *)
SentArePaid ==
    []~dropped =>
        \A c \in Commands : \A i \in 1..Wallets :
            (i \in cmd[c].sent) ~> (\E r \in receipts : r.tx = [by |-> c, item |-> i])

(* "Claimed X successfully" (claim.go:195) means that claim() paid, and at *)
(* least X unless someone else withdrew after X was read.                  *)
ClaimReportIsLowerBound ==
    \A c \in Commands :
        kind[c] = "claim" /\ cmd[c].pc = "succeeded" =>
            \E r \in ReceiptsOf(c) :
                /\ r.paid > 0
                /\ r.paid >= cmd[c].claimable \/ taken[c]
=============================================================================
