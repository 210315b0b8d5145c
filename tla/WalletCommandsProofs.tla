------------------------ MODULE WalletCommandsProofs ------------------------
(***************************************************************************)
(* The wallet's nonces have no gap and a reported claim was paid, for any  *)
(* number of commands with one key, wallets and amounts, and whatever is   *)
(* lost.                                                                   *)
(***************************************************************************)
EXTENDS WalletCommands, FiniteSetTheorems, TLAPS

Unsent == {"start", "nonce", "send"}

(* A transaction is accepted when the wallet can pay it beside those that  *)
(* are pending, so that mining never overdraws.                            *)
SolventInv == IsFiniteSet(Pending) /\ Committed <= funds

(* A command that still sends has a wallet to send to.                     *)
TurnInv == \A c \in Commands : cmd[c].pc \in Unsent => cmd[c].next <= Wallets

(* A nonce a command counted up to itself is one the node would give it,   *)
(* or one that was taken since; never a later one.                         *)
NonceInv ==
    ~dropped => \A c \in Commands :
                    cmd[c].pc = "send" => cmd[c].nonce <= used + Cardinality(Pending)

PendingOf(c) == {n \in Pending : pool[n].by = c}

(* A claim sends one transaction.  Until it is mined the contract owes what*)
(* the command read, unless someone withdrew since.                        *)
ClaimOf(c) ==
    /\ cmd[c].pc \in Unsent => PendingOf(c) = {} /\ ReceiptsOf(c) = {}
    /\ PendingOf(c) # {} => ReceiptsOf(c) = {}
    /\ \A n, m \in PendingOf(c) : n = m
    /\ cmd[c].pc \in {"nonce", "send"} \/ PendingOf(c) # {}
          => owed >= cmd[c].claimable \/ taken[c]
    /\ \A r \in ReceiptsOf(c) :
          r.ok => r.paid > 0 /\ (r.paid >= cmd[c].claimable \/ taken[c])
    /\ cmd[c].pc = "succeeded" => \E r \in ReceiptsOf(c) : r.ok

ClaimInv == \A c \in Commands : kind[c] = "claim" => ClaimOf(c)

WalletInv == TypeOK /\ SolventInv /\ TurnInv /\ NoNonceGap /\ NonceInv /\ ClaimInv

-----------------------------------------------------------------------------
(* The node *)

FundedOnes == {n \in Pending : kind[pool[n].by] = "fund"}

LEMMA CommittedType ==
    ASSUME TypeOK, IsFiniteSet(Pending)
    PROVE  /\ IsFiniteSet(FundedOnes)
           /\ Cardinality(FundedOnes) \in Nat
           /\ Cardinality(Pending) \in Nat
           /\ Committed = Amount * Cardinality(FundedOnes) + Gas * Cardinality(Pending)
           /\ Committed \in Nat
<1>1. IsFiniteSet(FundedOnes)
  BY FS_Subset DEF FundedOnes
<1>2. Cardinality(FundedOnes) \in Nat /\ Cardinality(Pending) \in Nat
  BY <1>1, FS_CardinalityType
<1>3. Committed = Amount * Cardinality(FundedOnes) + Gas * Cardinality(Pending)
  BY DEF Committed, FundedOnes
<1>4. /\ Amount * Cardinality(FundedOnes) \in Nat
      /\ Gas * Cardinality(Pending) \in Nat
  BY <1>2, WalletAssumption
<1> QED  BY <1>1, <1>2, <1>3, <1>4

(* A non-empty set of numbers below a bound has a least element.           *)
LEMMA LeastGap ==
    ASSUME NEW a \in Nat, NEW b \in Nat, NEW S \in SUBSET (a..b), S # {}
    PROVE  \E n \in S : \A m \in S : n <= m
<1> DEFINE Below == {a..(n - 1) : n \in S}
           R == StrictSubsetOrdering(Nat)
<1>1. Below \subseteq FiniteSubsetsOf(Nat)
  <2>1. ASSUME NEW n \in S PROVE a..(n - 1) \in FiniteSubsetsOf(Nat)
    <3>1. IsFiniteSet(a..(n - 1))
      BY FS_Interval
    <3>2. a..(n - 1) \subseteq Nat
      OBVIOUS
    <3> QED  BY <3>1, <3>2 DEF FiniteSubsetsOf
  <2> QED  BY <2>1
<1>2. IsWellFoundedOn(R, FiniteSubsetsOf(Nat))
  BY FS_StrictSubsetOrderingWellFounded
<1>3. Below # {}
  OBVIOUS
<1>4. PICK T \in Below : \A U \in Below : <<U, T>> \notin R
  <2> HIDE DEF Below, R
  <2> QED  BY <1>1, <1>2, <1>3, WFMin
<1>5. PICK n \in S : T = a..(n - 1)
  BY <1>4
<1>6. ASSUME NEW m \in S PROVE n <= m
  <2>1. <<a..(m - 1), a..(n - 1)>> \notin R
    BY <1>4, <1>5
  <2>2. ~(a..(m - 1) \subseteq a..(n - 1) /\ a..(m - 1) # a..(n - 1))
    <3>1. a..(m - 1) \subseteq Nat /\ a..(n - 1) \subseteq Nat
      OBVIOUS
    <3> QED  BY <2>1, <3>1 DEF StrictSubsetOrdering
  <2>3. CASE m < n
    <3>1. a..(m - 1) \subseteq a..(n - 1)
      BY <2>3
    <3>2. m \in a..(n - 1) /\ m \notin a..(m - 1)
      BY <2>3
    <3> QED  BY <2>2, <3>1, <3>2
  <2> QED  BY <2>3
<1> QED  BY <1>6

(* The node always has a nonce to give; without a gap it is the next one.  *)
LEMMA PendingNonceType ==
    ASSUME TypeOK, IsFiniteSet(Pending)
    PROVE  /\ PendingNonce \in used..(used + Cardinality(Pending))
           /\ PendingNonce \notin Pending
<1> DEFINE c == Cardinality(Pending)
           S == {n \in used..(used + c) : n \notin Pending}
<1>1. used \in Nat /\ c \in Nat
  BY FS_CardinalityType DEF TypeOK
<1>2. S # {}
  <2> SUFFICES ASSUME used..(used + c) \subseteq Pending PROVE FALSE
    OBVIOUS
  <2>1. Cardinality(used..(used + c)) = c + 1
    <3> HIDE DEF c
    <3> QED  BY <1>1, FS_Interval
  <2>2. Cardinality(used..(used + c)) <= c
    BY FS_Subset
  <2> QED  BY <1>1, <2>1, <2>2
<1>3. PICK n \in S : \A m \in S : n <= m
  <2> HIDE DEF c
  <2>1. S \in SUBSET (used..(used + c)) /\ used + c \in Nat
    BY <1>1
  <2> HIDE DEF S
  <2> QED  BY <1>1, <1>2, <2>1, LeastGap
<1>4. n \in used..(used + c) /\ n \notin Pending /\ used..(n - 1) \subseteq Pending
  <2> HIDE DEF c
  <2> QED  BY <1>1, <1>3
<1> QED  BY <1>4 DEF PendingNonce

(* What the node accepts leaves the wallet able to pay for it.             *)
LEMMA AddSolvent ==
    ASSUME WalletInv, NEW nonce \in Nat, NEW c \in Commands,
           Accepts(nonce, Tx(c)), AddToPool(nonce, Tx(c))
    PROVE  /\ SolventInv'
           /\ Pending' = Pending \cup {nonce}
           /\ Cardinality(Pending') = Cardinality(Pending) + 1
           /\ pool'[nonce] = Tx(c)
           /\ \A n \in Pending : pool'[n] = pool[n]
<1> USE DEF WalletInv
<1>1. /\ Pending' = Pending \cup {nonce}
      /\ pool'[nonce] = Tx(c)
      /\ \A n \in Pending : pool'[n] = pool[n]
      /\ nonce \notin Pending
      /\ UNCHANGED <<funds, kind>>
  BY DEF AddToPool, Accepts, Pending
<1>2. IsFiniteSet(Pending') /\ Cardinality(Pending') = Cardinality(Pending) + 1
  BY <1>1, FS_AddElement DEF SolventInv
<1>3. Tx(c).by = c
  BY DEF Tx
<1>4. FundedOnes' = IF kind[c] = "fund" THEN FundedOnes \cup {nonce} ELSE FundedOnes
  BY <1>1, <1>3 DEF FundedOnes
<1>5. Cardinality(FundedOnes') = Cardinality(FundedOnes) + IF kind[c] = "fund" THEN 1 ELSE 0
  <2>1. nonce \notin FundedOnes
    BY <1>1 DEF FundedOnes
  <2>2. IsFiniteSet(FundedOnes) /\ Cardinality(FundedOnes) \in Nat
    BY CommittedType DEF SolventInv
  <2>3. Cardinality(FundedOnes \cup {nonce}) = Cardinality(FundedOnes) + 1
    BY <2>1, <2>2, FS_AddElement
  <2> QED  BY <1>4, <2>2, <2>3
<1>6. Committed' = Committed + Cost(Tx(c))
  <2>1. Committed' = Amount * Cardinality(FundedOnes') + Gas * Cardinality(Pending')
    BY DEF Committed, FundedOnes
  <2>2. Cost(Tx(c)) = (IF kind[c] = "fund" THEN Amount ELSE 0) + Gas
    BY <1>3 DEF Cost, Value
  <2>3. Amount \in Nat /\ Gas \in Nat
    BY WalletAssumption
  <2>4. /\ Cardinality(FundedOnes) \in Nat /\ Cardinality(Pending) \in Nat
        /\ Committed = Amount * Cardinality(FundedOnes) + Gas * Cardinality(Pending)
    BY CommittedType DEF SolventInv
  <2>5. Gas * (Cardinality(Pending) + 1) = Gas * Cardinality(Pending) + Gas
    BY <2>3, <2>4
  <2>6. Amount * (Cardinality(FundedOnes) + 1) = Amount * Cardinality(FundedOnes) + Amount
    BY <2>3, <2>4
  <2>7. /\ Amount * Cardinality(FundedOnes) \in Nat
        /\ Gas * Cardinality(Pending) \in Nat
    BY <2>3, <2>4
  <2>8. CASE kind[c] = "fund"
    BY <1>2, <1>5, <2>1, <2>2, <2>3, <2>4, <2>5, <2>6, <2>7, <2>8
  <2>9. CASE kind[c] # "fund"
    BY <1>2, <1>5, <2>1, <2>2, <2>3, <2>4, <2>5, <2>7, <2>9
  <2> QED  BY <2>8, <2>9
<1>7. Committed' <= funds'
  BY <1>1, <1>6 DEF Accepts
<1> QED  BY <1>1, <1>2, <1>7 DEF SolventInv

(* A transaction that leaves the pool leaves the rest of it alone.         *)
LEMMA RemoveOne ==
    ASSUME WalletInv, NEW n \in Pending, pool' = [m \in Pending \ {n} |-> pool[m]],
           UNCHANGED kind
    PROVE  /\ Pending' = Pending \ {n}
           /\ \A m \in Pending' : pool'[m] = pool[m]
           /\ IsFiniteSet(Pending')
           /\ Cardinality(Pending') = Cardinality(Pending) - 1
           /\ Committed' = Committed - Cost(pool[n])
           /\ Committed' \in Nat
<1> USE DEF WalletInv
<1>1. Pending' = Pending \ {n} /\ \A m \in Pending' : pool'[m] = pool[m]
  BY DEF Pending
<1>2. IsFiniteSet(Pending') /\ Cardinality(Pending') = Cardinality(Pending) - 1
  BY <1>1, FS_RemoveElement DEF SolventInv
<1> DEFINE fund == kind[pool[n].by] = "fund"
<1>3. FundedOnes' = FundedOnes \ {n}
  BY <1>1 DEF FundedOnes
<1>4. n \in FundedOnes <=> fund
  BY DEF FundedOnes
<1>5. /\ IsFiniteSet(FundedOnes')
      /\ Cardinality(FundedOnes') = Cardinality(FundedOnes) - IF fund THEN 1 ELSE 0
  <2> HIDE DEF fund
  <2> QED  BY <1>3, <1>4, CommittedType, FS_RemoveElement DEF SolventInv
<1>6. Committed' = Amount * Cardinality(FundedOnes') + Gas * Cardinality(Pending')
  BY DEF Committed, FundedOnes
<1>7. /\ Cardinality(FundedOnes') \in Nat /\ Cardinality(Pending') \in Nat
      /\ Amount \in Nat /\ Gas \in Nat
  BY <1>2, <1>5, FS_CardinalityType, WalletAssumption
<1>8. /\ Amount * Cardinality(FundedOnes') \in Nat
      /\ Gas * Cardinality(Pending') \in Nat
  BY <1>7
<1>9. Committed' \in Nat
  BY <1>6, <1>8
<1>10. Committed = Committed' + Cost(pool[n])
  <2> HIDE DEF fund
  <2>1. /\ Cardinality(FundedOnes) \in Nat /\ Cardinality(Pending) \in Nat
        /\ Committed = Amount * Cardinality(FundedOnes) + Gas * Cardinality(Pending)
    BY CommittedType DEF SolventInv
  <2>2. Cost(pool[n]) = (IF fund THEN Amount ELSE 0) + Gas
    BY DEF Cost, Value, fund
  <2>3. Gas * (Cardinality(Pending') + 1) = Gas * Cardinality(Pending') + Gas
    BY <1>7
  <2>4. Amount * (Cardinality(FundedOnes') + 1) = Amount * Cardinality(FundedOnes') + Amount
    BY <1>7
  <2>5. Cardinality(Pending) = Cardinality(Pending') + 1
    BY <1>2, <1>7, <2>1
  <2>6. CASE fund
    <3>1. Cardinality(FundedOnes) = Cardinality(FundedOnes') + 1
      BY <1>5, <1>7, <2>1, <2>6
    <3> QED  BY <1>6, <1>7, <1>8, <2>1, <2>2, <2>3, <2>4, <2>5, <2>6, <3>1
  <2>7. CASE ~fund
    <3>1. Cardinality(FundedOnes) = Cardinality(FundedOnes')
      BY <1>5, <1>7, <2>1, <2>7
    <3> QED  BY <1>6, <1>7, <1>8, <2>1, <2>2, <2>3, <2>5, <2>7, <3>1
  <2> QED  BY <2>6, <2>7
<1>11. Cost(pool[n]) \in Nat
  BY WalletAssumption DEF Cost, Value
<1> QED  BY <1>1, <1>2, <1>9, <1>10, <1>11

-----------------------------------------------------------------------------
(* The steps of the network *)

LEMMA MineInv == WalletInv /\ Mine => WalletInv'
<1> SUFFICES ASSUME WalletInv, Mine PROVE WalletInv'
  OBVIOUS
<1> USE DEF WalletInv
<1> DEFINE tx == pool[used]
           claim == kind[tx.by] = "claim"
           paid == IF claim THEN owed ELSE 0
           new == [tx |-> tx, ok |-> (claim => owed > 0), paid |-> paid]
<1>1. /\ used \in Pending
      /\ receipts' = receipts \cup {new}
      /\ funds' = funds - Cost(tx) + paid
      /\ owed' = IF claim THEN 0 ELSE owed
      /\ taken' = [c \in Commands |-> taken[c] \/ (claim /\ kind[c] = "claim" /\ c # tx.by)]
      /\ pool' = [n \in Pending \ {used} |-> pool[n]]
      /\ used' = used + 1
      /\ UNCHANGED <<dropped, kind, cmd>>
  BY DEF Mine
<1>2. tx.by \in Commands /\ tx.item \in 1..(Wallets + 1)
  BY <1>1 DEF TypeOK
<1>3. paid \in 0..MaxOwed /\ owed' \in 0..MaxOwed
  BY <1>1, WalletAssumption DEF TypeOK
<1>4. /\ Pending' = Pending \ {used}
      /\ \A n \in Pending' : pool'[n] = pool[n]
      /\ IsFiniteSet(Pending')
      /\ Cardinality(Pending') = Cardinality(Pending) - 1
      /\ Committed' = Committed - Cost(tx)
      /\ Committed' \in Nat
  BY <1>1, RemoveOne
<1>5. /\ Committed \in Nat /\ Cost(tx) \in Nat
      /\ Cardinality(Pending) \in Nat /\ Cardinality(Pending') \in Nat
  <2>1. Committed \in Nat /\ Cardinality(Pending) \in Nat
    BY CommittedType DEF SolventInv
  <2>2. Cardinality(Pending') \in Nat
    BY <1>4, FS_CardinalityType
  <2>3. Cost(tx) \in Nat
    BY WalletAssumption DEF Cost, Value
  <2> QED  BY <2>1, <2>2, <2>3
<1>6. funds' \in Nat /\ Committed' <= funds'
  <2>1. Committed <= funds /\ funds \in Nat /\ paid \in Nat
    BY <1>3, WalletAssumption DEF SolventInv, TypeOK
  <2> HIDE DEF paid, tx
  <2> QED  BY <1>1, <1>4, <1>5, <2>1
<1>7. TypeOK'
  <2>1. \A n \in Pending' : n \in Nat /\ pool'[n] \in [by : Commands, item : 1..(Wallets + 1)]
    BY <1>4 DEF TypeOK
  <2>2. \A r \in receipts' : r.ok \in BOOLEAN /\ r.paid \in 0..MaxOwed
    <3>1. new.ok \in BOOLEAN /\ new.paid \in 0..MaxOwed
      BY <1>3, Zenon
    <3> HIDE DEF new
    <3> QED  BY <1>1, <3>1 DEF TypeOK
  <2>3. taken' \in [Commands -> BOOLEAN]
    <3> HIDE DEF claim, tx
    <3> QED  BY <1>1 DEF TypeOK
  <2>4. used' \in Nat
    BY <1>1 DEF TypeOK
  <2>5. dropped' \in BOOLEAN /\ kind' \in Runs /\ cmd' \in [Commands -> Locals]
    BY <1>1 DEF TypeOK
  <2> QED  BY <1>3, <1>6, <2>1, <2>2, <2>3, <2>4, <2>5 DEF TypeOK
<1>8. SolventInv'
  BY <1>4, <1>6 DEF SolventInv
<1>9. TurnInv'
  BY <1>1 DEF TurnInv
<1>10. NoNonceGap'
  <2> SUFFICES ASSUME ~dropped
               PROVE  Pending' = used'..(used' + Cardinality(Pending') - 1)
    BY <1>1 DEF NoNonceGap
  <2>1. Pending = used..(used + Cardinality(Pending) - 1)
    BY DEF NoNonceGap
  <2>2. Pending' = (used + 1)..(used + Cardinality(Pending) - 1)
    BY <1>4, <1>5, <2>1 DEF TypeOK
  <2>3. used' + Cardinality(Pending') - 1 = used + Cardinality(Pending) - 1
    BY <1>1, <1>4, <1>5 DEF TypeOK
  <2> QED  BY <1>1, <2>2, <2>3
<1>11. NonceInv'
  <2>1. used' + Cardinality(Pending') = used + Cardinality(Pending)
    BY <1>1, <1>4, <1>5 DEF TypeOK
  <2> QED  BY <1>1, <2>1 DEF NonceInv
<1>12. ClaimInv'
  <2> SUFFICES ASSUME NEW c \in Commands, kind[c] = "claim"
               PROVE  ClaimOf(c)'
    BY <1>1 DEF ClaimInv
  <2>1. ClaimOf(c)
    BY DEF ClaimInv
  <2>2. CASE c = tx.by
    <3>1. claim /\ used \in PendingOf(c)
      BY <1>1, <2>2 DEF PendingOf
    <3>2. PendingOf(c)' = {}
      BY <1>4, <2>1, <3>1 DEF PendingOf, ClaimOf
    <3>3. ReceiptsOf(c) = {} /\ cmd[c].pc \notin Unsent
      BY <2>1, <3>1 DEF ClaimOf
    <3>4. ReceiptsOf(c)' = {new}
      <4>1. new.tx.by = c
        BY <2>2
      <4>2. ReceiptsOf(c)' = ReceiptsOf(c) \cup {new}
        <5> HIDE DEF new
        <5> QED  BY <1>1, <4>1 DEF ReceiptsOf
      <4> QED  BY <3>3, <4>2
    <3>5. /\ new.ok = (owed > 0) /\ new.paid = owed
          /\ taken'[c] = taken[c]
      BY <1>1, <2>2, <3>1 DEF TypeOK
    <3>6. owed >= cmd[c].claimable \/ taken[c]
      BY <2>1, <3>1 DEF ClaimOf
    <3>7. cmd[c].pc # "succeeded"
      BY <2>1, <3>3 DEF ClaimOf
    <3> HIDE DEF new, claim, tx
    <3> QED  BY <1>1, <3>2, <3>3, <3>4, <3>5, <3>6, <3>7 DEF ClaimOf, Unsent
  <2>3. CASE c # tx.by
    <3>1. PendingOf(c)' = PendingOf(c)
      BY <1>4, <2>3 DEF PendingOf
    <3>2. ReceiptsOf(c)' = ReceiptsOf(c)
      <4>1. new.tx.by # c
        BY <2>3
      <4> HIDE DEF new
      <4> QED  BY <1>1, <4>1 DEF ReceiptsOf
    <3>3. /\ taken[c] => taken'[c]
          /\ owed' = owed \/ taken'[c]
      BY <1>1, <2>3 DEF TypeOK
    <3> QED  BY <1>1, <2>1, <3>1, <3>2, <3>3 DEF ClaimOf
  <2> QED  BY <2>2, <2>3
<1> QED  BY <1>7, <1>8, <1>9, <1>10, <1>11, <1>12

(* Nothing a command does or knows, and nothing in the pool, changes.      *)
LEMMA ContractInv == WalletInv /\ (Settle \/ ClaimFor) => WalletInv'
<1> SUFFICES ASSUME WalletInv, Settle \/ ClaimFor PROVE WalletInv'
  OBVIOUS
<1> USE DEF WalletInv
<1>1. /\ UNCHANGED <<used, pool, funds, receipts, dropped, kind, cmd>>
      /\ UNCHANGED <<Pending, Committed>>
  BY DEF Settle, ClaimFor, nodeVars, Pending, Committed
<1>2. owed' \in 0..MaxOwed
  BY WalletAssumption DEF Settle, ClaimFor, TypeOK
<1>3. taken' \in [Commands -> BOOLEAN]
  BY DEF Settle, ClaimFor, TypeOK
<1>4. TypeOK'
  BY <1>1, <1>2, <1>3 DEF TypeOK
<1>5. SolventInv' /\ TurnInv' /\ NoNonceGap' /\ NonceInv'
  BY <1>1 DEF SolventInv, TurnInv, NoNonceGap, NonceInv
<1>6. ClaimInv'
  <2> SUFFICES ASSUME NEW c \in Commands, kind[c] = "claim"
               PROVE  ClaimOf(c)'
    BY <1>1 DEF ClaimInv
  <2>1. ClaimOf(c)
    BY DEF ClaimInv
  <2>2. UNCHANGED <<PendingOf(c), ReceiptsOf(c)>>
    BY <1>1 DEF PendingOf, ReceiptsOf
  <2>3. owed' >= owed \/ taken'[c]
    <3>1. CASE Settle
      BY <3>1 DEF Settle, TypeOK
    <3>2. CASE ClaimFor
      BY <3>2 DEF ClaimFor
    <3> QED  BY <3>1, <3>2
  <2>4. taken[c] => taken'[c]
    BY DEF Settle, ClaimFor, TypeOK
  <2>5. cmd[c].claimable \in Int /\ owed \in Int /\ owed' \in Int
    BY <1>2 DEF TypeOK, Locals
  <2> QED  BY <1>1, <2>1, <2>2, <2>3, <2>4, <2>5 DEF ClaimOf
<1> QED  BY <1>4, <1>5, <1>6

LEMMA DropInv == WalletInv /\ Drop => WalletInv'
<1> SUFFICES ASSUME WalletInv, Drop PROVE WalletInv'
  OBVIOUS
<1> USE DEF WalletInv
<1>1. PICK n \in Pending : pool' = [m \in Pending \ {n} |-> pool[m]]
  BY DEF Drop
<1>2. dropped' = TRUE /\ UNCHANGED <<used, funds, receipts, owed, taken, kind, cmd>>
  BY DEF Drop
<1>3. /\ Pending' = Pending \ {n}
      /\ \A m \in Pending' : pool'[m] = pool[m]
      /\ IsFiniteSet(Pending')
      /\ Committed' = Committed - Cost(pool[n])
  BY <1>1, <1>2, RemoveOne
<1>4. TypeOK'
  BY <1>2, <1>3 DEF TypeOK
<1>5. SolventInv'
  <2>1. Committed \in Nat /\ Cost(pool[n]) \in Nat /\ Committed <= funds /\ funds \in Nat
    BY CommittedType, WalletAssumption DEF Cost, Value, SolventInv, TypeOK
  <2> QED  BY <1>2, <1>3, <2>1 DEF SolventInv
<1>6. TurnInv' /\ NoNonceGap' /\ NonceInv'
  BY <1>2 DEF TurnInv, NoNonceGap, NonceInv
<1>7. ClaimInv'
  <2> SUFFICES ASSUME NEW c \in Commands, kind[c] = "claim"
               PROVE  ClaimOf(c)'
    BY <1>2 DEF ClaimInv
  <2>1. ClaimOf(c)
    BY DEF ClaimInv
  <2>2. PendingOf(c)' \subseteq PendingOf(c)
    BY <1>3 DEF PendingOf
  <2>3. ReceiptsOf(c)' = ReceiptsOf(c)
    BY <1>2 DEF ReceiptsOf
  <2> QED  BY <1>2, <2>1, <2>2, <2>3 DEF ClaimOf
<1> QED  BY <1>4, <1>5, <1>6, <1>7

-----------------------------------------------------------------------------
(* The steps of the commands *)

(* What a command may do by itself: a claim neither goes back before its   *)
(* send nor forgets the amount it read, and reports a success only on a    *)
(* receipt.                                                                *)
LocalStep(c, l) ==
    /\ cmd' = [cmd EXCEPT ![c] = l]
    /\ l \in Locals
    /\ l.pc \in Unsent => l.next <= Wallets
    /\ ~dropped /\ l.pc = "send" => l.nonce <= used + Cardinality(Pending)
    /\ kind[c] = "claim" =>
          /\ l.claimable = cmd[c].claimable
          /\ l.pc \in Unsent => cmd[c].pc \in Unsent
          /\ l.pc \in {"nonce", "send"} => cmd[c].pc \in {"nonce", "send"}
          /\ l.pc = "succeeded" => \E r \in ReceiptsOf(c) : r.ok
    /\ UNCHANGED <<nodeVars, owed, taken, kind>>

LEMMA LocalInv ==
    ASSUME WalletInv, NEW c \in Commands, NEW l, LocalStep(c, l)
    PROVE  WalletInv'
<1> USE DEF WalletInv, LocalStep
<1>1. /\ cmd' \in [Commands -> Locals]
      /\ cmd'[c] = l
      /\ \A d \in Commands \ {c} : cmd'[d] = cmd[d]
      /\ UNCHANGED <<used, pool, funds, receipts, dropped, owed, taken, kind>>
      /\ UNCHANGED <<Pending, Committed>>
  BY DEF TypeOK, nodeVars, Pending, Committed
<1>2. TypeOK'
  BY <1>1 DEF TypeOK
<1>3. SolventInv' /\ NoNonceGap'
  BY <1>1 DEF SolventInv, NoNonceGap
<1>4. TurnInv'
  BY <1>1 DEF TurnInv
<1>5. NonceInv'
  BY <1>1 DEF NonceInv
<1>6. ClaimInv'
  <2> SUFFICES ASSUME NEW d \in Commands, kind[d] = "claim"
               PROVE  ClaimOf(d)'
    BY <1>1 DEF ClaimInv
  <2>1. ClaimOf(d)
    BY DEF ClaimInv
  <2>2. UNCHANGED <<PendingOf(d), ReceiptsOf(d)>>
    BY <1>1 DEF PendingOf, ReceiptsOf
  <2>3. CASE d = c
    BY <1>1, <2>1, <2>2, <2>3 DEF ClaimOf
  <2>4. CASE d # c
    BY <1>1, <2>1, <2>2, <2>4 DEF ClaimOf
  <2> QED  BY <2>3, <2>4
<1> QED  BY <1>2, <1>3, <1>4, <1>5, <1>6

(* The amount a claim reads is what the contract owes.                     *)
LEMMA ReadClaimableInv ==
    ASSUME WalletInv, NEW c \in Commands, ReadClaimable(c)
    PROVE  WalletInv'
<1> USE DEF WalletInv
<1> DEFINE l == [cmd[c] EXCEPT !.pc = IF owed = 0 THEN "nothing" ELSE "nonce",
                               !.claimable = owed]
<1>1. /\ kind[c] = "claim" /\ cmd[c].pc = "start"
      /\ cmd' = [cmd EXCEPT ![c] = l]
      /\ taken' = [taken EXCEPT ![c] = FALSE]
      /\ UNCHANGED <<used, pool, funds, receipts, dropped, owed, kind>>
      /\ UNCHANGED <<Pending, Committed>>
  BY DEF ReadClaimable, At, Local, nodeVars, Pending, Committed
<1>2. /\ l \in Locals
      /\ l.pc \in {"nothing", "nonce"} /\ l.claimable = owed /\ l.next = cmd[c].next
  <2>1. cmd[c] \in Locals /\ owed \in 0..MaxOwed
    BY DEF TypeOK
  <2> QED  BY <2>1 DEF Locals, Running, Ended
<1> HIDE DEF l
<1>3. /\ cmd' \in [Commands -> Locals] /\ taken' \in [Commands -> BOOLEAN]
      /\ cmd'[c] = l
      /\ \A d \in Commands \ {c} : cmd'[d] = cmd[d] /\ taken'[d] = taken[d]
  BY <1>1, <1>2 DEF TypeOK
<1>4. TypeOK'
  BY <1>1, <1>3 DEF TypeOK
<1>5. SolventInv' /\ NoNonceGap'
  BY <1>1 DEF SolventInv, NoNonceGap
<1>6. TurnInv'
  BY <1>1, <1>2, <1>3 DEF TurnInv, Unsent
<1>7. NonceInv'
  BY <1>1, <1>2, <1>3 DEF NonceInv
<1>8. ClaimInv'
  <2> SUFFICES ASSUME NEW d \in Commands, kind[d] = "claim"
               PROVE  ClaimOf(d)'
    BY <1>1 DEF ClaimInv
  <2>1. ClaimOf(d)
    BY DEF ClaimInv
  <2>2. UNCHANGED <<PendingOf(d), ReceiptsOf(d)>>
    BY <1>1 DEF PendingOf, ReceiptsOf
  <2>3. CASE d = c
    <3>1. PendingOf(c) = {} /\ ReceiptsOf(c) = {}
      BY <1>1, <2>1, <2>3 DEF ClaimOf, Unsent
    <3> QED  BY <1>1, <1>2, <1>3, <2>2, <2>3, <3>1 DEF ClaimOf, TypeOK
  <2>4. CASE d # c
    BY <1>1, <1>3, <2>1, <2>2, <2>4 DEF ClaimOf
  <2> QED  BY <2>3, <2>4
<1> QED  BY <1>4, <1>5, <1>6, <1>7, <1>8

(* A transaction the node accepts, whether the command hears of it or not. *)
LEMMA AcceptedInv ==
    ASSUME WalletInv, NEW c \in Commands, NEW l \in Locals,
           cmd[c].pc = "send",
           Accepts(cmd[c].nonce, Tx(c)), AddToPool(cmd[c].nonce, Tx(c)),
           cmd' = [cmd EXCEPT ![c] = l],
           l.pc \in Unsent => l.next <= Wallets,
           l.pc = "send" => l.nonce \in {cmd[c].nonce, cmd[c].nonce + 1},
           kind[c] = "claim" => /\ l.claimable = cmd[c].claimable
                                /\ l.pc \notin Unsent \cup {"succeeded"}
    PROVE  WalletInv'
<1> USE DEF WalletInv
<1> DEFINE nonce == cmd[c].nonce
           size == Cardinality(Pending)
<1>1. nonce \in Nat /\ cmd[c].next \in 1..(Wallets + 1) /\ l.nonce \in Nat
  BY DEF TypeOK, Locals
<1>2. /\ SolventInv'
      /\ Pending' = Pending \cup {nonce}
      /\ Cardinality(Pending') = size + 1
      /\ pool'[nonce] = Tx(c)
      /\ \A n \in Pending : pool'[n] = pool[n]
  BY <1>1, AddSolvent
<1>3. /\ cmd' \in [Commands -> Locals]
      /\ cmd'[c] = l
      /\ \A d \in Commands \ {c} : cmd'[d] = cmd[d]
      /\ UNCHANGED <<used, funds, receipts, dropped, owed, taken, kind>>
  BY DEF TypeOK, AddToPool
<1>4. size \in Nat
  BY FS_CardinalityType DEF SolventInv
<1>5. TypeOK'
  <2>1. Tx(c) \in [by : Commands, item : 1..(Wallets + 1)]
    BY <1>1 DEF Tx
  <2>2. \A n \in Pending' : n \in Nat /\ pool'[n] \in [by : Commands, item : 1..(Wallets + 1)]
    BY <1>1, <1>2, <2>1 DEF TypeOK
  <2> QED  BY <1>3, <2>2 DEF TypeOK
<1>6. TurnInv'
  BY <1>3 DEF TurnInv
<1>7. ASSUME ~dropped
      PROVE  nonce = used + size /\ Pending = used..(used + size - 1)
  <2>1. nonce <= used + size /\ Pending = used..(used + size - 1)
    BY <1>7 DEF NonceInv, NoNonceGap
  <2>2. nonce >= used /\ nonce \notin Pending
    BY DEF Accepts
  <2> HIDE DEF nonce, size
  <2> QED  BY <1>1, <1>4, <2>1, <2>2 DEF TypeOK
<1>8. NoNonceGap'
  <2> SUFFICES ASSUME ~dropped
               PROVE  Pending' = used'..(used' + Cardinality(Pending') - 1)
    BY <1>3 DEF NoNonceGap
  <2> HIDE DEF nonce, size
  <2>1. Pending' = used..(used + size)
    BY <1>2, <1>4, <1>7 DEF TypeOK
  <2>2. used' + Cardinality(Pending') - 1 = used + size
    BY <1>2, <1>3, <1>4 DEF TypeOK
  <2> QED  BY <1>3, <2>1, <2>2
<1>9. NonceInv'
  <2> SUFFICES ASSUME ~dropped, NEW d \in Commands, cmd'[d].pc = "send"
               PROVE  cmd'[d].nonce <= used' + Cardinality(Pending')
    BY <1>3 DEF NonceInv
  <2>1. used' + Cardinality(Pending') = used + size + 1
    BY <1>2, <1>3, <1>4 DEF TypeOK
  <2>2. CASE d = c
    BY <1>1, <1>3, <1>4, <1>7, <2>1, <2>2 DEF TypeOK
  <2>3. CASE d # c
    <3>1. cmd[d].nonce <= used + size /\ cmd[d].nonce \in Nat
      BY <1>3, <2>3 DEF NonceInv, TypeOK, Locals
    <3> HIDE DEF size
    <3> QED  BY <1>3, <1>4, <2>1, <2>3, <3>1 DEF TypeOK
  <2> QED  BY <2>2, <2>3
<1>10. ClaimInv'
  <2> SUFFICES ASSUME NEW d \in Commands, kind[d] = "claim"
               PROVE  ClaimOf(d)'
    BY <1>3 DEF ClaimInv
  <2>1. ClaimOf(d)
    BY DEF ClaimInv
  <2>2. ReceiptsOf(d)' = ReceiptsOf(d)
    BY <1>3 DEF ReceiptsOf
  <2>3. Tx(c).by = c /\ nonce \notin Pending
    BY DEF Tx, Accepts
  <2>4. CASE d = c
    <3>1. PendingOf(c) = {} /\ ReceiptsOf(c) = {}
      BY <2>1, <2>4 DEF ClaimOf, Unsent
    <3>2. PendingOf(c)' = {nonce}
      BY <1>2, <2>3, <3>1 DEF PendingOf
    <3>3. owed >= cmd[c].claimable \/ taken[c]
      BY <2>1, <2>4 DEF ClaimOf
    <3> QED  BY <1>3, <2>2, <2>4, <3>1, <3>2, <3>3 DEF ClaimOf
  <2>5. CASE d # c
    <3>1. PendingOf(d)' = PendingOf(d)
      BY <1>2, <2>3, <2>5 DEF PendingOf
    <3> QED  BY <1>3, <2>1, <2>2, <2>5, <3>1 DEF ClaimOf
  <2> QED  BY <2>4, <2>5
<1> QED  BY <1>2, <1>5, <1>6, <1>8, <1>9, <1>10

(* The locals after a turn of fund's loop.                                 *)
Turned(l) == [l EXCEPT !.next = @ + 1,
                       !.pc = CASE l.next < Wallets -> "send"
                                [] l.next >= Wallets /\ l.sent # {} -> "wait"
                                [] OTHER -> "done"]

LEMMA TurnedType ==
    ASSUME NEW l \in Locals, l.next <= Wallets
    PROVE  /\ Turned(l) \in Locals
           /\ Turned(l).pc \in {"send", "wait", "done"}
           /\ Turned(l).pc = "send" => Turned(l).next <= Wallets
           /\ Turned(l).nonce = l.nonce
<1>1. /\ l.next \in Nat /\ l.next >= 1 /\ Wallets \in Nat
      /\ l.next + 1 \in 1..(Wallets + 1)
  BY WalletAssumption DEF Locals
<1> DEFINE pc == CASE l.next < Wallets -> "send"
                   [] l.next >= Wallets /\ l.sent # {} -> "wait"
                   [] OTHER -> "done"
<1>2. pc \in {"send", "wait", "done"} /\ (pc = "send" => l.next < Wallets)
  BY <1>1
<1>3. Turned(l) = [l EXCEPT !.next = l.next + 1, !.pc = pc]
  BY DEF Turned
<1> HIDE DEF pc
<1>4. /\ Turned(l).pc = pc /\ Turned(l).next = l.next + 1 /\ Turned(l).nonce = l.nonce
      /\ Turned(l) \in Locals
  BY <1>1, <1>2, <1>3 DEF Locals, Running, Ended
<1> QED  BY <1>1, <1>2, <1>4

LEMMA SendErrorStep ==
    ASSUME WalletInv, NEW c \in Commands, cmd[c].pc = "send", SendError(c)
    PROVE  \E l \in Locals :
              /\ cmd' = [cmd EXCEPT ![c] = l]
              /\ l.pc \in {"send", "wait", "done", "exit"}
              /\ l.pc = "send" => /\ kind[c] = "fund"
                                  /\ l.next <= Wallets
                                  /\ l.nonce = cmd[c].nonce
              /\ kind[c] = "claim" => l.claimable = cmd[c].claimable
<1>1. cmd[c] \in Locals /\ cmd[c].next <= Wallets
  BY DEF WalletInv, TypeOK, TurnInv, Unsent
<1>2. CASE kind[c] = "fund"
  <2>1. cmd' = [cmd EXCEPT ![c] = Turned(cmd[c])]
    BY <1>2 DEF SendError, Turn, Local, Turned
  <2> QED  BY <1>1, <1>2, <2>1, TurnedType
<1>3. CASE kind[c] # "fund"
  <2> DEFINE l == [cmd[c] EXCEPT !.pc = "exit"]
  <2>1. cmd' = [cmd EXCEPT ![c] = l]
    BY <1>3 DEF SendError, Goto, Local
  <2>2. l \in Locals /\ l.pc = "exit" /\ l.claimable = cmd[c].claimable
    BY <1>1 DEF Locals, Ended
  <2> HIDE DEF l
  <2> QED  BY <2>1, <2>2
<1> QED  BY <1>2, <1>3

LEMMA SendOKInv ==
    ASSUME WalletInv, NEW c \in Commands, SendOK(c)
    PROVE  WalletInv'
<1>1. /\ cmd[c].pc = "send"
      /\ Accepts(cmd[c].nonce, Tx(c))
      /\ AddToPool(cmd[c].nonce, Tx(c))
  BY DEF SendOK
<1>2. cmd[c] \in Locals /\ cmd[c].next <= Wallets
  BY <1>1 DEF WalletInv, TypeOK, TurnInv, Unsent
<1>3. CASE kind[c] = "fund"
  <2> DEFINE k == [cmd[c] EXCEPT !.nonce = @ + 1, !.sent = @ \cup {cmd[c].next}]
  <2>1. cmd' = [cmd EXCEPT ![c] = Turned(k)]
    BY <1>3 DEF SendOK, Turn, Local, Turned
  <2>2. k \in Locals /\ k.next = cmd[c].next /\ k.nonce = cmd[c].nonce + 1
    <3>1. cmd[c].next \in 1..Wallets /\ cmd[c].nonce + 1 \in Nat
      BY <1>2, WalletAssumption DEF Locals
    <3>2. cmd[c].sent \cup {cmd[c].next} \in SUBSET (1..Wallets)
      BY <1>2, <3>1 DEF Locals
    <3> QED  BY <1>2, <3>1, <3>2 DEF Locals
  <2> HIDE DEF k
  <2>3. /\ Turned(k) \in Locals
        /\ Turned(k).pc \in {"send", "wait", "done"}
        /\ Turned(k).pc = "send" => Turned(k).next <= Wallets
        /\ Turned(k).nonce = cmd[c].nonce + 1
    BY <1>2, <2>2, TurnedType
  <2> HIDE DEF Turned
  <2> QED  BY <1>1, <1>3, <2>1, <2>3, AcceptedInv DEF Unsent
<1>4. CASE kind[c] # "fund"
  <2> DEFINE l == [cmd[c] EXCEPT !.pc = "poll"]
  <2>1. cmd' = [cmd EXCEPT ![c] = l]
    BY <1>4 DEF SendOK, Goto, Local
  <2>2. l \in Locals /\ l.pc = "poll" /\ l.claimable = cmd[c].claimable
    BY <1>2 DEF Locals, Running
  <2> HIDE DEF l
  <2> QED  BY <1>1, <2>1, <2>2, AcceptedInv DEF Unsent
<1> QED  BY <1>3, <1>4

LEMMA SendFailsInv ==
    ASSUME WalletInv, NEW c \in Commands, SendFails(c)
    PROVE  WalletInv'
<1>1. cmd[c].pc = "send" /\ SendError(c) /\ UNCHANGED <<nodeVars, owed, taken, kind>>
  BY DEF SendFails
<1>2. PICK l \in Locals :
         /\ cmd' = [cmd EXCEPT ![c] = l]
         /\ l.pc \in {"send", "wait", "done", "exit"}
         /\ l.pc = "send" => /\ kind[c] = "fund"
                             /\ l.next <= Wallets
                             /\ l.nonce = cmd[c].nonce
         /\ kind[c] = "claim" => l.claimable = cmd[c].claimable
  BY <1>1, SendErrorStep
<1>3. ~dropped => cmd[c].nonce <= used + Cardinality(Pending)
  BY <1>1 DEF WalletInv, NonceInv
<1>4. LocalStep(c, l)
  BY <1>1, <1>2, <1>3 DEF LocalStep, Unsent
<1> QED  BY <1>4, LocalInv

LEMMA AnswerLostInv ==
    ASSUME WalletInv, NEW c \in Commands, AnswerLost(c)
    PROVE  WalletInv'
<1>1. /\ cmd[c].pc = "send" /\ SendError(c)
      /\ Accepts(cmd[c].nonce, Tx(c))
      /\ AddToPool(cmd[c].nonce, Tx(c))
  BY DEF AnswerLost
<1>2. PICK l \in Locals :
         /\ cmd' = [cmd EXCEPT ![c] = l]
         /\ l.pc \in {"send", "wait", "done", "exit"}
         /\ l.pc = "send" => /\ kind[c] = "fund"
                             /\ l.next <= Wallets
                             /\ l.nonce = cmd[c].nonce
         /\ kind[c] = "claim" => l.claimable = cmd[c].claimable
  BY <1>1, SendErrorStep
<1> QED  BY <1>1, <1>2, AcceptedInv DEF Unsent

(* The steps of a command that send nothing.                               *)
LEMMA LocalSteps ==
    ASSUME WalletInv, NEW c \in Commands,
           \/ CheckBalance(c) \/ FetchNonce(c) \/ FundComplete(c)
           \/ Receipt(c) \/ NoReceipt(c) \/ Exit(c) \/ Expire(c)
    PROVE  \E l : LocalStep(c, l)
<1> USE DEF Goto, Local, At, LocalStep, Unsent
<1>1. /\ cmd[c] \in Locals
      /\ cmd[c].pc \in Unsent => cmd[c].next <= Wallets
      /\ ~dropped /\ cmd[c].pc = "send" => cmd[c].nonce <= used + Cardinality(Pending)
  BY DEF WalletInv, TypeOK, TurnInv, NonceInv
<1> DEFINE to(pc) == [cmd[c] EXCEPT !.pc = pc]
<1>2. ASSUME NEW pc \in Running \cup Ended
      PROVE  /\ to(pc) \in Locals /\ to(pc).pc = pc /\ to(pc).next = cmd[c].next
             /\ to(pc).nonce = cmd[c].nonce /\ to(pc).claimable = cmd[c].claimable
  BY <1>1 DEF Locals
<1>3. CASE CheckBalance(c)
  <2> DEFINE pc == IF funds < (IF kind[c] = "fund" THEN Amount * Wallets ELSE 1)
                   THEN "exit" ELSE "nonce"
  <2>1. /\ kind[c] \in {"fund", "deploy"} /\ cmd[c].pc = "start"
        /\ cmd' = [cmd EXCEPT ![c] = to(pc)]
        /\ UNCHANGED <<nodeVars, owed, taken, kind>>
    BY <1>3 DEF CheckBalance
  <2>2. pc \in {"exit", "nonce"} /\ pc \in Running \cup Ended
    BY DEF Running, Ended
  <2> HIDE DEF pc, to
  <2>3. LocalStep(c, to(pc))
    BY <1>1, <1>2, <2>1, <2>2
  <2> QED  BY <2>3
<1>4. CASE FetchNonce(c)
  <2> DEFINE l == [cmd[c] EXCEPT !.pc = "send", !.nonce = PendingNonce]
  <2>1. /\ cmd[c].pc = "nonce"
        /\ cmd' = [cmd EXCEPT ![c] = l]
        /\ UNCHANGED <<nodeVars, owed, taken, kind>>
    BY <1>4 DEF FetchNonce
  <2>2. PendingNonce \in used..(used + Cardinality(Pending)) /\ used \in Nat
    BY PendingNonceType DEF WalletInv, SolventInv, TypeOK
  <2>3. l \in Locals /\ l.pc = "send" /\ l.next = cmd[c].next
        /\ l.nonce = PendingNonce /\ l.claimable = cmd[c].claimable
    <3>1. PendingNonce \in Nat
      <4>1. Cardinality(Pending) \in Nat
        BY FS_CardinalityType DEF WalletInv, SolventInv
      <4> QED  BY <2>2, <4>1
    <3> QED  BY <1>1, <3>1 DEF Locals, Running
  <2> HIDE DEF l
  <2>4. LocalStep(c, l)
    BY <1>1, <2>1, <2>2, <2>3
  <2> QED  BY <2>4
<1>5. CASE FundComplete(c) \/ Exit(c)
  <2>1. PICK pc \in {"done", "exit"} :
           /\ cmd' = [cmd EXCEPT ![c] = to(pc)]
           /\ UNCHANGED <<nodeVars, owed, taken, kind>>
    BY <1>5 DEF FundComplete, Exit
  <2>2. pc \in Running \cup Ended
    BY DEF Ended
  <2> HIDE DEF to
  <2>3. LocalStep(c, to(pc))
    BY <1>2, <2>1, <2>2
  <2> QED  BY <2>3
<1>6. CASE Receipt(c)
  <2>1. PICK r \in ReceiptsOf(c) :
           cmd' = [cmd EXCEPT ![c] = to(IF r.ok THEN "succeeded" ELSE "reverted")]
    BY <1>6 DEF Receipt
  <2>2. UNCHANGED <<nodeVars, owed, taken, kind>>
    BY <1>6 DEF Receipt
  <2> DEFINE pc == IF r.ok THEN "succeeded" ELSE "reverted"
  <2>3. pc \in {"succeeded", "reverted"} /\ pc \in Running \cup Ended
        /\ (pc = "succeeded" => r.ok)
    BY DEF Ended
  <2>4. cmd' = [cmd EXCEPT ![c] = to(pc)]
    BY <2>1
  <2> HIDE DEF to, pc
  <2>5. LocalStep(c, to(pc))
    BY <1>2, <2>2, <2>3, <2>4
  <2> QED  BY <2>5
<1>7. CASE NoReceipt(c)
  <2> DEFINE l == IF cmd[c].polls + 1 < MaxPolls
                  THEN [cmd[c] EXCEPT !.polls = @ + 1] ELSE to("unconfirmed")
  <2>1. /\ cmd[c].pc = "poll"
        /\ cmd' = [cmd EXCEPT ![c] = l]
        /\ UNCHANGED <<nodeVars, owed, taken, kind>>
    BY <1>7 DEF NoReceipt
  <2>2. l \in Locals /\ l.pc \in {"poll", "unconfirmed"} /\ l.claimable = cmd[c].claimable
    BY <1>1, <2>1, WalletAssumption DEF Locals, Ended
  <2> HIDE DEF l
  <2>3. LocalStep(c, l)
    BY <2>1, <2>2
  <2> QED  BY <2>3
<1>8. CASE Expire(c)
  <2> DEFINE l == [cmd[c] EXCEPT !.expired = TRUE]
  <2>1. /\ cmd[c].pc \in Running
        /\ cmd' = [cmd EXCEPT ![c] = l]
        /\ UNCHANGED <<nodeVars, owed, taken, kind>>
    BY <1>8 DEF Expire
  <2>2. /\ l \in Locals /\ l.pc = cmd[c].pc /\ l.next = cmd[c].next
        /\ l.nonce = cmd[c].nonce /\ l.claimable = cmd[c].claimable
    BY <1>1 DEF Locals
  <2> HIDE DEF l
  <2>3. LocalStep(c, l)
    BY <1>1, <2>1, <2>2 DEF Running
  <2> QED  BY <2>3
<1> QED  BY <1>3, <1>4, <1>5, <1>6, <1>7, <1>8

-----------------------------------------------------------------------------

LEMMA InitInv == Init => WalletInv
<1> SUFFICES ASSUME Init PROVE WalletInv
  OBVIOUS
<1> USE WalletAssumption DEF Init
<1>1. Pending = {} /\ Cardinality(Pending) = 0 /\ IsFiniteSet(Pending)
  BY FS_EmptySet DEF Pending
<1>2. TypeOK
  <2>1. [pc |-> "start", nonce |-> 0, next |-> 1, sent |-> {}, claimable |-> 0,
         polls |-> 0, expired |-> FALSE] \in Locals
    BY DEF Locals, Running
  <2> QED  BY <1>1, <2>1 DEF TypeOK
<1>3. SolventInv
  <2>1. FundedOnes = {} /\ Cardinality(FundedOnes) = 0
    BY <1>1, FS_EmptySet DEF FundedOnes
  <2>2. Committed = 0
    BY <1>1, <2>1 DEF Committed, FundedOnes
  <2> QED  BY <1>1, <2>2 DEF SolventInv
<1>4. TurnInv
  BY DEF TurnInv
<1>5. NoNonceGap
  BY <1>1 DEF NoNonceGap
<1>6. NonceInv
  BY DEF NonceInv
<1>7. ClaimInv
  BY <1>1 DEF ClaimInv, ClaimOf, PendingOf, ReceiptsOf
<1> QED  BY <1>2, <1>3, <1>4, <1>5, <1>6, <1>7 DEF WalletInv

LEMMA StepInv == WalletInv /\ [Next]_vars => WalletInv'
<1> SUFFICES ASSUME WalletInv, [Next]_vars PROVE WalletInv'
  OBVIOUS
<1>1. CASE Mine
  BY <1>1, MineInv
<1>2. CASE Drop
  BY <1>2, DropInv
<1>3. CASE Settle \/ ClaimFor
  BY <1>3, ContractInv
<1>4. ASSUME NEW c \in Commands, Step(c) PROVE WalletInv'
  <2>1. CASE ReadClaimable(c)
    BY <2>1, ReadClaimableInv
  <2>2. CASE SendOK(c)
    BY <2>2, SendOKInv
  <2>3. CASE SendFails(c)
    BY <2>3, SendFailsInv
  <2>4. CASE AnswerLost(c)
    BY <2>4, AnswerLostInv
  <2>5. CASE \/ CheckBalance(c) \/ FetchNonce(c) \/ FundComplete(c)
             \/ Receipt(c) \/ NoReceipt(c) \/ Exit(c) \/ Expire(c)
    BY <2>5, LocalSteps, LocalInv
  <2> QED  BY <1>4, <2>1, <2>2, <2>3, <2>4, <2>5 DEF Step
<1>5. CASE UNCHANGED vars
  BY <1>5 DEF vars, nodeVars, WalletInv, TypeOK, SolventInv, TurnInv, NoNonceGap, NonceInv,
              ClaimInv, ClaimOf, PendingOf, ReceiptsOf, Pending, Committed
<1> QED  BY <1>1, <1>2, <1>3, <1>4, <1>5 DEF Next

(* The strengthened invariant.                                             *)
THEOREM Invariance == Spec => []WalletInv
BY InitInv, StepInv, PTL DEF Spec

(* Every variable keeps its type; mining never overdraws the wallet.       *)
THEOREM TypeCorrect == Spec => []TypeOK
<1>1. WalletInv => TypeOK
  BY DEF WalletInv
<1> QED  BY <1>1, Invariance, PTL

(* Whatever fails or is lost, and whichever commands share the key, no     *)
(* pending transaction waits for a nonce nobody used.                      *)
THEOREM NoncesFollow == Spec => []NoNonceGap
<1>1. WalletInv => NoNonceGap
  BY DEF WalletInv
<1> QED  BY <1>1, Invariance, PTL

(* A claim that reports success was paid at least what it reports, unless  *)
(* someone withdrew after it read the amount.                              *)
THEOREM ClaimsArePaid == Spec => []ClaimReportIsLowerBound
<1>1. WalletInv => ClaimReportIsLowerBound
  <2> SUFFICES ASSUME WalletInv, NEW c \in Commands,
                      kind[c] = "claim", cmd[c].pc = "succeeded"
               PROVE  \E r \in ReceiptsOf(c) :
                         /\ r.paid > 0
                         /\ r.paid >= cmd[c].claimable \/ taken[c]
    BY DEF ClaimReportIsLowerBound
  <2>1. ClaimOf(c)
    BY DEF WalletInv, ClaimInv
  <2>2. PICK r \in ReceiptsOf(c) : r.ok
    BY <2>1 DEF ClaimOf
  <2> QED  BY <2>1, <2>2 DEF ClaimOf
<1> QED  BY <1>1, Invariance, PTL

-----------------------------------------------------------------------------
(* What fund counts as sent.  The node loses nothing but what it forgets,  *)
(* and a wallet is counted when its transaction is already there.          *)

LEMMA MineKeeps == WalletInv /\ Mine => Travelling \subseteq Travelling'
<1> SUFFICES ASSUME WalletInv, Mine PROVE Travelling \subseteq Travelling'
  OBVIOUS
<1>1. pool' = [n \in Pending \ {used} |-> pool[n]]
  BY DEF Mine
<1>2. \E tx : tx = pool[used] /\ \E r \in receipts' : r.tx = tx
  <2> DEFINE tx == pool[used]
             claim == kind[tx.by] = "claim"
             r == [tx |-> tx, ok |-> (claim => owed > 0), paid |-> IF claim THEN owed ELSE 0]
  <2>1. receipts' = receipts \cup {r}
    BY DEF Mine
  <2>2. r.tx = tx
    OBVIOUS
  <2> HIDE DEF r
  <2> QED  BY <2>1, <2>2
<1>3. receipts \subseteq receipts'
  BY DEF Mine
<1>4. Pending' = Pending \ {used} /\ \A n \in Pending' : pool'[n] = pool[n]
  BY <1>1 DEF Pending
<1> QED  BY <1>2, <1>3, <1>4 DEF Travelling

LEMMA PoolKeeps ==
    ASSUME NEW n, n \notin Pending, NEW tx, AddToPool(n, tx)
    PROVE  Travelling' = Travelling \cup {tx}
<1>1. /\ pool' = [m \in Pending \cup {n} |-> IF m = n THEN tx ELSE pool[m]]
      /\ receipts' = receipts
  BY DEF AddToPool
<1>2. /\ Pending' = Pending \cup {n}
      /\ pool'[n] = tx
      /\ \A m \in Pending : pool'[m] = pool[m]
  BY <1>1 DEF Pending
<1> QED  BY <1>1, <1>2 DEF Travelling

(* A wallet is counted only when its transaction was accepted.             *)
LEMMA StepSends ==
    ASSUME WalletInv, NEW c \in Commands, Step(c)
    PROVE  /\ Travelling \subseteq Travelling'
           /\ dropped' = dropped
           /\ \A d \in Commands \ {c} : cmd'[d] = cmd[d]
           /\ \A i \in cmd'[c].sent : i \in cmd[c].sent \/ [by |-> c, item |-> i] \in Travelling'
<1>0. cmd \in [Commands -> Locals] /\ cmd[c] \in Locals
  BY DEF WalletInv, TypeOK
<1>1. ASSUME NEW l, cmd' = [cmd EXCEPT ![c] = l]
      PROVE  cmd'[c] = l /\ \A d \in Commands \ {c} : cmd'[d] = cmd[d]
  BY <1>0, <1>1
<1>2. CASE SendOK(c) \/ AnswerLost(c)
  <2>1. cmd[c].nonce \notin Pending /\ AddToPool(cmd[c].nonce, Tx(c))
    BY <1>2 DEF SendOK, AnswerLost, Accepts
  <2>2. Travelling' = Travelling \cup {Tx(c)} /\ dropped' = dropped
    BY <2>1, PoolKeeps DEF AddToPool
  <2>3. PICK l : /\ cmd' = [cmd EXCEPT ![c] = l]
                 /\ \A i \in l.sent : i \in cmd[c].sent \/ i = cmd[c].next
    <3> DEFINE old == cmd[c]
               counted == [old EXCEPT !.nonce = @ + 1, !.sent = @ \cup {old.next}]
    <3> HIDE DEF old
    <3>1. /\ \A i \in Turned(old).sent : i \in old.sent
          /\ \A i \in Turned(counted).sent : i \in old.sent \/ i = old.next
          /\ \A pc : [old EXCEPT !.pc = pc].sent = old.sent
      BY <1>0 DEF Turned, Locals, old
    <3>2. \/ cmd' = [cmd EXCEPT ![c] = Turned(old)]
          \/ cmd' = [cmd EXCEPT ![c] = Turned(counted)]
          \/ \E pc : cmd' = [cmd EXCEPT ![c] = [old EXCEPT !.pc = pc]]
      BY <1>2 DEF SendOK, AnswerLost, SendError, Turn, Goto, Local, Turned, old
    <3> HIDE DEF counted
    <3> QED  BY <3>1, <3>2 DEF old
  <2> QED  BY <1>1, <2>2, <2>3 DEF Tx
<1>3. CASE \/ CheckBalance(c) \/ ReadClaimable(c) \/ FetchNonce(c) \/ SendFails(c)
           \/ FundComplete(c) \/ Receipt(c) \/ NoReceipt(c) \/ Exit(c) \/ Expire(c)
  <2>1. UNCHANGED <<pool, receipts, dropped>>
    BY <1>3 DEF CheckBalance, ReadClaimable, FetchNonce, SendFails, FundComplete,
                Receipt, NoReceipt, Exit, Expire, nodeVars
  <2>2. Travelling' = Travelling
    BY <2>1 DEF Travelling, Pending
  <2>3. PICK l : cmd' = [cmd EXCEPT ![c] = l] /\ l.sent = cmd[c].sent
    <3> DEFINE old == cmd[c]
    <3> HIDE DEF old
    <3>1. /\ Turned(old).sent = old.sent
          /\ \A pc : [old EXCEPT !.pc = pc].sent = old.sent
          /\ \A pc, x : [old EXCEPT !.pc = pc, !.claimable = x].sent = old.sent
          /\ \A pc, x : [old EXCEPT !.pc = pc, !.nonce = x].sent = old.sent
          /\ \A x : [old EXCEPT !.polls = x].sent = old.sent
          /\ \A x : [old EXCEPT !.expired = x].sent = old.sent
      BY <1>0 DEF Turned, Locals, old
    <3>2. CASE SendFails(c)
      <4>1. \/ cmd' = [cmd EXCEPT ![c] = Turned(old)]
            \/ cmd' = [cmd EXCEPT ![c] = [old EXCEPT !.pc = "exit"]]
        BY <3>2 DEF SendFails, SendError, Turn, Goto, Local, Turned, old
      <4> QED  BY <3>1, <4>1 DEF old
    <3>3. CASE CheckBalance(c) \/ FundComplete(c) \/ Receipt(c) \/ Exit(c)
      <4>1. PICK pc : cmd' = [cmd EXCEPT ![c] = [old EXCEPT !.pc = pc]]
        BY <3>3 DEF CheckBalance, FundComplete, Receipt, Exit, Goto, Local, old
      <4> QED  BY <3>1, <4>1 DEF old
    <3>4. CASE ReadClaimable(c)
      <4>1. PICK pc : cmd' = [cmd EXCEPT ![c] = [old EXCEPT !.pc = pc, !.claimable = owed]]
        BY <3>4 DEF ReadClaimable, Local, old
      <4> DEFINE l == [old EXCEPT !.pc = pc, !.claimable = owed]
      <4>2. l.sent = old.sent
        BY <3>1
      <4> HIDE DEF l
      <4> QED  BY <4>1, <4>2 DEF old, l
    <3>5. CASE FetchNonce(c)
      <4>1. cmd' = [cmd EXCEPT ![c] = [old EXCEPT !.pc = "send", !.nonce = PendingNonce]]
        BY <3>5 DEF FetchNonce, Local, old
      <4> DEFINE l == [old EXCEPT !.pc = "send", !.nonce = PendingNonce]
      <4>2. l.sent = old.sent
        BY <3>1
      <4> HIDE DEF l
      <4> QED  BY <4>1, <4>2 DEF old, l
    <3>6. CASE NoReceipt(c)
      <4>1. \/ cmd' = [cmd EXCEPT ![c] = [old EXCEPT !.polls = old.polls + 1]]
            \/ cmd' = [cmd EXCEPT ![c] = [old EXCEPT !.pc = "unconfirmed"]]
        BY <3>6 DEF NoReceipt, Local, old
      <4> QED  BY <3>1, <4>1 DEF old
    <3>7. CASE Expire(c)
      <4>1. cmd' = [cmd EXCEPT ![c] = [old EXCEPT !.expired = TRUE]]
        BY <3>7 DEF Expire, Local, old
      <4> QED  BY <3>1, <4>1 DEF old
    <3> QED  BY <1>3, <3>2, <3>3, <3>4, <3>5, <3>6, <3>7
  <2> QED  BY <1>1, <2>1, <2>2, <2>3
<1> QED  BY <1>2, <1>3 DEF Step

LEMMA SentStep == WalletInv /\ NothingSentIsLost /\ [Next]_vars => NothingSentIsLost'
<1> SUFFICES ASSUME WalletInv, NothingSentIsLost, [Next]_vars, ~dropped'
             PROVE  \A c \in Commands : \A i \in cmd'[c].sent :
                       [by |-> c, item |-> i] \in Travelling'
  BY DEF NothingSentIsLost
<1>1. CASE Mine
  <2>1. cmd' = cmd /\ dropped' = dropped
    BY <1>1 DEF Mine
  <2> QED  BY <2>1, <1>1, MineKeeps DEF NothingSentIsLost
<1>2. CASE Drop
  BY <1>2 DEF Drop
<1>3. CASE Settle \/ ClaimFor \/ UNCHANGED vars
  <2>1. UNCHANGED <<cmd, dropped, pool, receipts>>
    BY <1>3 DEF Settle, ClaimFor, vars, nodeVars
  <2>2. Travelling' = Travelling
    BY <2>1 DEF Travelling, Pending
  <2> QED  BY <2>1, <2>2 DEF NothingSentIsLost
<1>4. ASSUME NEW c \in Commands, Step(c)
      PROVE  \A d \in Commands : \A i \in cmd'[d].sent :
                 [by |-> d, item |-> i] \in Travelling'
  <2>1. /\ Travelling \subseteq Travelling'
        /\ dropped' = dropped
        /\ \A d \in Commands \ {c} : cmd'[d] = cmd[d]
        /\ \A i \in cmd'[c].sent :
              i \in cmd[c].sent \/ [by |-> c, item |-> i] \in Travelling'
    BY <1>4, StepSends
  <2>2. \A d \in Commands : \A i \in cmd[d].sent : [by |-> d, item |-> i] \in Travelling'
    BY <2>1 DEF NothingSentIsLost
  <2>3. ASSUME NEW d \in Commands, NEW i \in cmd'[d].sent
        PROVE  [by |-> d, item |-> i] \in Travelling'
    <3>1. CASE d = c
      BY <2>1, <2>2, <2>3, <3>1
    <3>2. CASE d # c
      BY <2>1, <2>2, <2>3, <3>2
    <3> QED  BY <3>1, <3>2
  <2> QED  BY <2>3
<1> QED  BY <1>1, <1>2, <1>3, <1>4 DEF Next

(* The safety half of SentArePaid, for any commands with one key: what     *)
(* fund counts as sent is pending or mined until the node forgets one, and *)
(* by NoNonceGap the next to be mined is always among the pending          *)
(* (fund.go:131-142).                                                      *)
THEOREM SentAreOnTheWay == Spec => []NothingSentIsLost
<1>1. Init => NothingSentIsLost
  BY DEF Init, NothingSentIsLost
<1> QED  BY <1>1, Invariance, SentStep, PTL DEF Spec
=============================================================================
