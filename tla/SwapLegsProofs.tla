--------------------------- MODULE SwapLegsProofs ---------------------------
(***************************************************************************)
(* What the two networks guarantee of the contracts of a swap, whoever     *)
(* publishes, however blocks are reorganised and whatever is evicted.      *)
(***************************************************************************)
EXTENDS SwapLegs, TLAPS

Out(t) == chain[t] # "none"

Spends(leg) == {Claim(leg), Refund(leg)}

\* What the networks alone guarantee.
ChainInv ==
    /\ \A leg \in Parties : \A t \in Spends(leg) :
          /\ Mined(t) => Mined(Fund(leg)) /\ ~Out(Rival(t))
          /\ chain[t] = "final" => chain[Fund(leg)] = "final"
    /\ \A p \in Parties : \A t \in known[p] : chain[t] = "pool"
    /\ \A leg \in Parties : Out(Refund(leg)) => RefundDue(leg)

-----------------------------------------------------------------------------
\* The transactions of a leg are transactions.
LEMMA FundIsTx == \A l \in Parties : Fund(l) \in Txs /\ Claim(l) \in Txs /\ Refund(l) \in Txs
  BY DEF Fund, Claim, Refund, Txs

\* The three transactions of a leg are three, and belong to that leg alone.
LEMMA TxNames ==
    /\ \A l \in Parties : /\ Rival(Claim(l)) = Refund(l) /\ Rival(Refund(l)) = Claim(l)
                          /\ Fund(l)[1] = l /\ Claim(l)[1] = l /\ Refund(l)[1] = l
                          /\ Fund(l)[2] = "fund" /\ Claim(l)[2] = "claim" /\ Refund(l)[2] = "refund"
    /\ \A l, k \in Parties : /\ Fund(l) \notin {Claim(k), Refund(k)} /\ Claim(l) # Refund(k)
                             /\ Fund(l) = Fund(k) => l = k
                             /\ Claim(l) = Claim(k) => l = k
                             /\ Refund(l) = Refund(k) => l = k
    /\ \A t \in Txs : \E l \in Parties : t \in {Fund(l), Claim(l), Refund(l)}
  BY DEF Rival, Fund, Claim, Refund, Txs

\* Transactions by their names.
LEMMA EachTx ==
    ASSUME NEW t \in Txs
    PROVE  \E l \in Parties : \/ t = Fund(l)
                              \/ t \in Spends(l) /\ t # Fund(l) /\ Rival(t) \in Spends(l)
                                 /\ Rival(t) # t /\ Rival(Rival(t)) = t
  BY TxNames DEF Spends

\* A claim and a refund of one leg are each other's rival and no funding.
LEMMA SpendNames ==
    ASSUME NEW l \in Parties, NEW t \in Spends(l)
    PROVE  /\ t \in Txs /\ Rival(t) \in Spends(l) /\ Rival(t) \in Txs /\ Rival(Rival(t)) = t
           /\ Rival(t) # t /\ t[1] = l /\ t[2] # "fund"
           /\ \A k \in Parties : t # Fund(k) /\ (t \in Spends(k) => k = l)
           /\ Fund(l) \in Txs
  BY TxNames, FundIsTx DEF Spends

\* Publishing t keeps the types and touches no other transaction.
LEMMA BroadcastLegs ==
    ASSUME LegsTypeOK, NEW p \in Parties, NEW t \in Txs, Broadcast(p, t)
    PROVE  /\ LegsTypeOK'
           /\ \A u \in Txs : u # t => chain'[u] = chain[u]
  BY DEF LegsTypeOK, Broadcast

\* Publishing mines nothing and keeps what the networks guarantee.
LEMMA ChainBroadcast ==
    ASSUME LegsTypeOK, ChainInv, NEW p \in Parties, NEW t \in Txs, Broadcast(p, t)
    PROVE  /\ ChainInv'
           /\ \A u \in Txs : Mined(u)' <=> Mined(u)
           /\ \A u \in Txs : chain[u] = "final" => chain'[u] = "final"
           /\ \A u \in Txs : Out(u)' <=> Out(u) \/ u = t
           /\ epoch' = epoch
  <1>1. /\ \A u \in Txs : u # t => chain'[u] = chain[u]
        /\ chain'[t] = IF chain[t] = "none" THEN "pool" ELSE chain[t]
        /\ epoch' = epoch
        /\ DOMAIN chain' = DOMAIN chain
    BY DEF LegsTypeOK, Broadcast
  <1>2. \A u \in Txs : Mined(u)' <=> Mined(u)
    BY <1>1 DEF LegsTypeOK, Mined
  <1>3. \A u \in Txs : Out(u)' <=> Out(u) \/ u = t
    BY <1>1 DEF Out, LegsTypeOK
  <1>4. ASSUME NEW l \in Parties, NEW u \in Spends(l)
        PROVE  /\ Mined(u)' => Mined(Fund(l))' /\ ~Out(Rival(u))'
               /\ chain'[u] = "final" => chain'[Fund(l)] = "final"
    <2>1. /\ Mined(u) => Mined(Fund(l)) /\ ~Out(Rival(u))
          /\ chain[u] = "final" => chain[Fund(l)] = "final"
      BY <1>4 DEF ChainInv
    <2>2. Rival(u) = t => ~Mined(u)
      BY SpendNames, TxNames DEF Broadcast, Publishable
    <2> QED  BY <1>1, <1>2, <1>3, <2>1, <2>2, SpendNames
  <1>5. ASSUME NEW q \in Parties, NEW u \in known'[q] PROVE chain'[u] = "pool"
    <2>1. u \in known[q] \/ (u = t /\ ~Mined(t))
      BY <1>5 DEF LegsTypeOK, Broadcast
    <2> QED  BY <1>1, <2>1 DEF LegsTypeOK, ChainInv, Mined
  <1>6. ASSUME NEW l \in Parties, Out(Refund(l))' PROVE RefundDue(l)'
    <2>1. Out(Refund(l)) \/ Refund(l) = t
      BY <1>3, <1>6, FundIsTx
    <2> QED  BY <1>1, <2>1, TxNames DEF ChainInv, Broadcast, Publishable, RefundDue
  <1> QED  BY <1>1, <1>2, <1>3, <1>4, <1>5, <1>6 DEF ChainInv

\* A step of the networks publishes nothing, buries nothing and loses neither
\* what is buried nor the maker's funding.
NetworkStep ==
    /\ epoch' = epoch
    /\ \A u \in Txs : chain[u] = "final" => chain'[u] = "final"
    /\ \A u \in Txs : Out(u)' => Out(u)
    /\ Out(Fund("maker")) => Out(Fund("maker"))'

\* A block keeps what the networks guarantee: it drops the rival of a mined spend.
LEMMA ChainConfirm ==
    ASSUME LegsTypeOK, ChainInv, NEW t \in Txs, Confirm(t)
    PROVE  ChainInv' /\ NetworkStep
  <1> DEFINE dead == IF t[2] = "fund" THEN {} ELSE {Rival(t)}
  <1>1. /\ \A u \in Txs : chain'[u] = IF u = t THEN "conf" ELSE IF u \in dead THEN "none" ELSE chain[u]
        /\ \A p \in Parties : known'[p] = known[p] \ ({t} \union dead)
        /\ epoch' = epoch /\ chain[t] = "pool"
        /\ t[2] # "fund" => Mined(Fund(t[1]))
    <2>1. /\ chain' = [u \in Txs |-> CASE u = t -> "conf"
                                       [] u \in dead -> "none"
                                       [] OTHER -> chain[u]]
          /\ known' = Forget({t} \cup dead)
          /\ epoch' = epoch /\ chain[t] = "pool"
          /\ t[2] # "fund" => Mined(Fund(t[1]))
      BY Zenon DEF Confirm
    <2>2. t \notin dead
      BY EachTx, TxNames
    <2> HIDE DEF dead
    <2>3. \A u \in Txs : chain'[u] = IF u = t THEN "conf" ELSE IF u \in dead THEN "none" ELSE chain[u]
      BY <2>1, <2>2
    <2>4. \A p \in Parties : known'[p] = known[p] \ ({t} \union dead)
      BY <2>1 DEF Forget
    <2> QED  BY <2>1, <2>3, <2>4
  <1>2. PICK k \in Parties : \/ t = Fund(k)
                             \/ t \in Spends(k) /\ t # Fund(k) /\ Rival(t) \in Spends(k)
                                /\ Rival(t) # t /\ Rival(Rival(t)) = t
    BY EachTx
  <1>3. ASSUME NEW l \in Parties, NEW u \in Spends(l)
        PROVE  /\ Mined(u)' => Mined(Fund(l))' /\ ~Out(Rival(u))'
               /\ chain'[u] = "final" => chain'[Fund(l)] = "final"
    <2>1. /\ Mined(u) => Mined(Fund(l)) /\ ~Out(Rival(u))
          /\ chain[u] = "final" => chain[Fund(l)] = "final"
      BY <1>3 DEF ChainInv
    <2>2. CASE t = Fund(k)
      <3>1. dead = {}
        BY <2>2, TxNames
      <3>2. u # t /\ Rival(u) # t
        BY <2>2, SpendNames
      <3> QED  BY <1>1, <2>1, <3>1, <3>2, SpendNames DEF Mined, Out
    <2>3. CASE t \in Spends(k)
      <3>1. dead = {Rival(t)} /\ t[1] = k /\ Fund(l) # t /\ Fund(l) # Rival(t)
        BY <1>2, <2>3, SpendNames
      <3>2. CASE u = t
        BY <1>1, <1>2, <2>3, <3>1, <3>2, SpendNames DEF Mined, Out
      <3>3. CASE u = Rival(t)
        BY <1>1, <1>2, <2>3, <3>1, <3>3, SpendNames DEF Mined, Out
      <3>4. CASE u # t /\ u # Rival(t)
        <4>1. Rival(u) # t /\ Rival(u) # Rival(t)
          BY <1>2, <2>3, <3>4, SpendNames
        <4> QED  BY <1>1, <2>1, <3>1, <3>4, <4>1, SpendNames DEF Mined, Out
      <3> QED  BY <3>2, <3>3, <3>4
    <2> QED  BY <1>2, <2>2, <2>3
  <1>4. ASSUME NEW q \in Parties, NEW u \in known'[q] PROVE chain'[u] = "pool"
    <2>1. u \in known[q] /\ u # t /\ u \notin dead /\ u \in Txs
      BY <1>1, <1>4 DEF LegsTypeOK
    <2> QED  BY <1>1, <2>1 DEF ChainInv
  <1>5. NetworkStep
    <2>1. \A u \in Txs : Out(u)' => Out(u)
      BY <1>1 DEF Out
    <2>2. ASSUME NEW u \in Txs, chain[u] = "final" PROVE chain'[u] = "final"
      <3>1. u \notin dead
        <4>1. CASE t = Fund(k)
          BY <4>1, TxNames
        <4>2. CASE t \in Spends(k)
          <5>1. /\ dead = {Rival(t)} /\ Rival(t) \in Spends(k) /\ Rival(Rival(t)) = t
            BY <4>2, SpendNames
          <5>2. ~Mined(Rival(t))
            BY <1>1, <5>1 DEF ChainInv, Out
          <5> QED  BY <2>2, <5>1, <5>2 DEF Mined
        <4> QED  BY <1>2, <4>1, <4>2
      <3> QED  BY <1>1, <2>2, <3>1
    <2>3. Fund("maker") \notin dead
      BY <1>2, SpendNames, TxNames DEF Parties
    <2> QED  BY <1>1, <2>1, <2>2, <2>3, FundIsTx DEF NetworkStep, Out, Parties
  <1>6. \A l \in Parties : Out(Refund(l))' => RefundDue(l)'
    BY <1>1, <1>5, FundIsTx DEF NetworkStep, ChainInv, RefundDue
  <1> QED  BY <1>3, <1>4, <1>5, <1>6 DEF ChainInv

\* A reorganisation takes back a funding only together with its mined spend.
LEMMA ChainReorg ==
    ASSUME LegsTypeOK, ChainInv, NEW t \in Txs, Reorg(t)
    PROVE  ChainInv' /\ NetworkStep
  <1> DEFINE lost == {t} \cup IF t[2] = "fund"
                              THEN {u \in {Claim(t[1]), Refund(t[1])} : chain[u] = "conf"}
                              ELSE {}
  <1>1. /\ \A u \in Txs : chain'[u] = IF u \in lost THEN "pool" ELSE chain[u]
        /\ \A p \in Parties : known'[p] = known[p] \cup lost
        /\ epoch' = epoch /\ chain[t] = "conf"
    BY Zenon DEF Reorg
  <1>2. /\ \A u \in lost : u \in Txs /\ chain[u] = "conf"
        /\ \A l \in Parties : Fund(l) \in lost => \A u \in Spends(l) : u \in lost \/ chain[u] # "conf"
    BY <1>1, TxNames, FundIsTx, SpendNames DEF Spends
  <1> HIDE DEF lost
  <1>3. ASSUME NEW l \in Parties, NEW u \in Spends(l)
        PROVE  /\ Mined(u)' => Mined(Fund(l))' /\ ~Out(Rival(u))'
               /\ chain'[u] = "final" => chain'[Fund(l)] = "final"
    <2>1. /\ Mined(u) => Mined(Fund(l)) /\ ~Out(Rival(u))
          /\ chain[u] = "final" => chain[Fund(l)] = "final"
      BY <1>3 DEF ChainInv
    <2> QED  BY <1>1, <1>2, <2>1, SpendNames DEF Mined, Out
  <1>4. ASSUME NEW q \in Parties, NEW u \in known'[q] PROVE chain'[u] = "pool"
    <2>1. u \in known[q] \/ u \in lost
      BY <1>1, <1>4
    <2>2. u \in known[q] => u \in Txs /\ chain[u] = "pool"
      BY DEF LegsTypeOK, ChainInv
    <2> QED  BY <1>1, <1>2, <2>1, <2>2
  <1>5. NetworkStep
    BY <1>1, <1>2, FundIsTx DEF NetworkStep, Out, Parties
  <1>6. \A l \in Parties : Out(Refund(l))' => RefundDue(l)'
    BY <1>1, <1>5, FundIsTx DEF NetworkStep, ChainInv, RefundDue
  <1> QED  BY <1>3, <1>4, <1>5, <1>6 DEF ChainInv

\* An eviction takes a funding only together with its unconfirmed spends.
LEMMA ChainEvict ==
    ASSUME LegsTypeOK, ChainInv, NEW t \in Txs, Evict(t)
    PROVE  ChainInv' /\ NetworkStep
  <1> DEFINE lost == IF t[2] = "fund" THEN {t, Claim(t[1]), Refund(t[1])} ELSE {t}
  <1>1. /\ \A u \in Txs : chain'[u] = IF u \in lost THEN "none" ELSE chain[u]
        /\ \A p \in Parties : known'[p] = known[p] \ lost
        /\ epoch' = epoch /\ chain[t] = "pool" /\ t # Fund("maker")
    BY Zenon DEF Evict, Forget
  <1>2. /\ \A u \in lost : u \in Txs /\ ~Mined(u)
        /\ \A l \in Parties : Fund(l) \in lost => \A u \in Spends(l) : u \in lost
        /\ Fund("maker") \notin lost
    <2>1. PICK k \in Parties : t = Fund(k) \/ t \in Spends(k)
      BY EachTx
    <2>2. CASE t = Fund(k)
      <3>1. lost = {t, Claim(k), Refund(k)}
        BY <2>2, TxNames
      <3>2. ~Mined(t) /\ ~Mined(Claim(k)) /\ ~Mined(Refund(k))
        BY <1>1, <2>2 DEF ChainInv, Spends, Mined
      <3> QED  BY <1>1, <2>2, <3>1, <3>2, TxNames, FundIsTx DEF Spends, Parties
    <2>3. CASE t \in Spends(k)
      BY <1>1, <2>3, SpendNames DEF Mined
    <2> QED  BY <2>1, <2>2, <2>3
  <1> HIDE DEF lost
  <1>3. ASSUME NEW l \in Parties, NEW u \in Spends(l)
        PROVE  /\ Mined(u)' => Mined(Fund(l))' /\ ~Out(Rival(u))'
               /\ chain'[u] = "final" => chain'[Fund(l)] = "final"
    <2>1. /\ Mined(u) => Mined(Fund(l)) /\ ~Out(Rival(u))
          /\ chain[u] = "final" => chain[Fund(l)] = "final"
      BY <1>3 DEF ChainInv
    <2> QED  BY <1>1, <1>2, <2>1, SpendNames DEF Mined, Out
  <1>4. ASSUME NEW q \in Parties, NEW u \in known'[q] PROVE chain'[u] = "pool"
    <2>1. u \in known[q] /\ u \notin lost
      BY <1>1, <1>4
    <2>2. u \in Txs /\ chain[u] = "pool"
      BY <2>1 DEF LegsTypeOK, ChainInv
    <2> QED  BY <1>1, <2>1, <2>2
  <1>5. NetworkStep
    BY <1>1, <1>2, FundIsTx DEF NetworkStep, Out, Mined, Parties
  <1>6. \A l \in Parties : Out(Refund(l))' => RefundDue(l)'
    BY <1>1, <1>5, FundIsTx DEF NetworkStep, ChainInv, RefundDue
  <1> QED  BY <1>3, <1>4, <1>5, <1>6 DEF ChainInv

\* A wallet is told only of transactions in the pools.
LEMMA ChainGossip ==
    ASSUME LegsTypeOK, ChainInv, NEW p \in Parties, NEW t \in Txs, Gossip(p, t)
    PROVE  ChainInv' /\ NetworkStep
  <1>1. UNCHANGED <<chain, epoch>> /\ chain[t] = "pool"
        /\ \A q \in Parties : known'[q] \subseteq known[q] \union {t}
    BY DEF Gossip, LegsTypeOK
  <1> QED  BY <1>1 DEF ChainInv, NetworkStep, Mined, Out, RefundDue

\* The next epoch buries what was mined.
LEMMA ChainNextEpoch ==
    ASSUME LegsTypeOK, ChainInv, NextEpoch
    PROVE  /\ ChainInv'
           /\ epoch' = epoch + 1
           /\ \A u \in Txs : (chain'[u] = "final") <=> Mined(u)
           /\ \A u \in Txs : Out(u)' <=> Out(u)
  <1>1. /\ \A u \in Txs : chain'[u] = IF chain[u] = "conf" THEN "final" ELSE chain[u]
        /\ epoch' = epoch + 1 /\ known' = known
    BY DEF NextEpoch
  <1>2. ASSUME NEW l \in Parties, NEW u \in Spends(l)
        PROVE  /\ Mined(u)' => Mined(Fund(l))' /\ ~Out(Rival(u))'
               /\ chain'[u] = "final" => chain'[Fund(l)] = "final"
    <2>1. Mined(u) => Mined(Fund(l)) /\ ~Out(Rival(u))
      BY <1>2 DEF ChainInv
    <2> QED  BY <1>1, <2>1, SpendNames DEF Mined, Out
  <1>3. \A q \in Parties : \A u \in known'[q] : chain'[u] = "pool"
    BY <1>1 DEF ChainInv, LegsTypeOK
  <1>4. \A l \in Parties : Out(Refund(l))' => RefundDue(l)'
    BY <1>1, FundIsTx DEF ChainInv, RefundDue, Out, RefundEpoch, LegsTypeOK, LastEpoch
  <1>5. \A u \in Txs : /\ (chain'[u] = "final") <=> Mined(u)
                       /\ Out(u)' <=> Out(u)
    BY <1>1 DEF Mined, Out
  <1> QED  BY <1>1, <1>2, <1>3, <1>4, <1>5 DEF ChainInv
=============================================================================
