-------------------------- MODULE LegacySwapProofs --------------------------
(***************************************************************************)
(* Proofs about the version 1 swap for every number of aborted passes and  *)
(* reorganisations.  Whoever is present: no money moves before both        *)
(* journals hold the agreement, a journal that looked reports what the     *)
(* chains say, and once both traders have looked after the last refund     *)
(* height no amount is left in a contract.  A maker that is present, and a *)
(* taker beside it, is never left with neither amount.                     *)
(***************************************************************************)
EXTENDS LegacySwap, SwapLegsProofs

Agreed == \A p \in Parties : rec[p].agreement

\* The steps of a pass that driveExecution reaches.
ExecutionSteps == {"fund", "save", "notify", "await", "claim", "observe", "settle"}

\* Nobody reads a message that was not sent.
InOrder == \A p \in Parties : got[p] <= sent[Peer(p)]

\* Why the agreement comes first: the taker stores it only when the maker has,
\* acknowledges it only when it is stored, and nothing is executed before the
\* maker has the acknowledgement and the taker its own copy.
AgreementFirst ==
    /\ rec["taker"].agreement => rec["maker"].agreement
    /\ \A p \in Parties : rec[p].phase # "matched" => rec[p].agreement
    /\ rec["maker"].phase \notin {"matched", "terms_proposed"} => rec["taker"].agreement
    /\ pc["maker"] \in {"proposed", "send"} => rec["maker"].agreement
    /\ pc["taker"] = "accept" => rec["maker"].agreement
    /\ pc["taker"] \in {"proposed", "ack"} => rec["taker"].agreement
    /\ \A p \in Parties : sent[p] >= Terms => rec[p].agreement
    /\ \A p \in Parties : sent[p] >= Notice => Agreed
    /\ \A p \in Parties : pc[p] \in ExecutionSteps => Agreed
    /\ AgreementBeforeFunding

Inv == TypeOK /\ InOrder /\ AgreementFirst

\* What every step keeps: the types, the order of the messages, and an
\* agreement that was stored.
Kept ==
    /\ TypeOK'
    /\ InOrder'
    /\ \A p \in Parties : rec[p].agreement => rec'[p].agreement

LegacySwapPhases == Phases \ AsyncPhases

-----------------------------------------------------------------------------
\* A trader's peer is a trader.
LEMMA PeerIsParty == \A p \in Parties : Peer(p) \in Parties
  BY DEF Peer, Parties

\* The phases that the version 1 engine moves to are phases of its records.
LEMMA PhasesReached ==
    {"matched", "terms_proposed", "terms_agreed", "maker_funding", "maker_funded",
     "taker_funding", "taker_funded", "maker_claiming", "maker_claimed",
     "taker_claiming", "waiting_for_refund", "refunding", "complete",
     "refunded", "expired"} \subseteq LegacySwapPhases
  BY DEF LegacySwapPhases, Phases, LegacyPhases, AsyncPhases, RefundPhases, TerminalPhases

\* The places that the actions name are places of a pass.
LEMMA StepsReached ==
    {"idle", "hello", "read", "accept", "proposed", "ack", "agree", "notices",
     "propose", "send", "refund", "phase", "fund", "save", "notify", "await",
     "claim", "observe", "settle"} = EngineSteps
  BY DEF EngineSteps

\* News for both traders has the type of poll.
LEMMA StaleTyped == Stale \in [Parties -> {"stale", "running", "done"}]
  BY DEF Stale

\* Where a pass is after a step that goes on or ends.
LEMMA Moves ==
    ASSUME TypeOK, NEW p \in Parties, NEW step \in EngineSteps,
           Goto(p, step) \/ Return(p)
    PROVE  /\ pc' \in [Parties -> EngineSteps]
           /\ poll' \in [Parties -> {"stale", "running", "done"}]
  <1>1. CASE Goto(p, step)
    BY <1>1, StaleTyped DEF Goto, TypeOK
  <1>2. CASE Return(p)
    <2>1. [poll EXCEPT ![p] = IF @ = "running" THEN "done" ELSE "stale"]
              \in [Parties -> {"stale", "running", "done"}]
      BY DEF TypeOK
    <2>2. poll' \in [Parties -> {"stale", "running", "done"}]
      BY <1>2, <2>1, StaleTyped DEF Return
    <2>3. pc' = [pc EXCEPT ![p] = "idle"]
      BY <1>2 DEF Return
    <2> QED  BY <2>2, <2>3, StepsReached DEF TypeOK
  <1> QED  BY <1>1, <1>2

-----------------------------------------------------------------------------
(* The shapes of a step *)

\* A step that leaves the journals and the messages alone.
LEMMA QuietKept ==
    ASSUME Inv, NEW p \in Parties, NEW step \in EngineSteps,
           Goto(p, step) \/ Return(p), Quiet, UNCHANGED faultVars
    PROVE  Kept
  <1>1. TypeOK'
    BY Moves DEF Inv, TypeOK, LegsTypeOK, Quiet, legVars, engineVars, mailVars, faultVars
  <1> QED  BY <1>1 DEF Inv, InOrder, Kept, Quiet, engineVars, mailVars

\* A step that publishes a transaction.
LEMMA PublishKept ==
    ASSUME Inv, NEW p \in Parties, NEW step \in EngineSteps, NEW t \in Txs,
           Goto(p, step) \/ Return(p), Broadcast(p, t),
           UNCHANGED <<rec, mailVars>>, UNCHANGED faultVars,
           funded' \in [Parties -> BOOLEAN]
    PROVE  Kept
  <1>1. LegsTypeOK'
    BY BroadcastLegs DEF Inv, TypeOK
  <1>2. TypeOK'
    BY <1>1, Moves DEF Inv, TypeOK, mailVars, faultVars
  <1> QED  BY <1>2 DEF Inv, InOrder, Kept, mailVars

\* A step that sends a message.
LEMMA SendKept ==
    ASSUME Inv, NEW p \in Parties, NEW step \in EngineSteps, NEW n \in 0..Notice,
           Goto(p, step), Receive(p, n),
           UNCHANGED <<legVars, rec, funded, got, lapsed>>, UNCHANGED faultVars
    PROVE  Kept
  <1>1. sent' \in [Parties -> 0..Notice] /\ \A q \in Parties : sent[q] <= sent'[q]
    BY DEF Inv, TypeOK, Receive, Notice
  <1>2. TypeOK'
    BY <1>1, Moves DEF Inv, TypeOK, LegsTypeOK, legVars, faultVars
  <1>3. InOrder'
    <2> SUFFICES ASSUME NEW q \in Parties PROVE got[q] <= sent'[Peer(q)]
      BY DEF InOrder
    <2>1. got[q] <= sent[Peer(q)] /\ sent[Peer(q)] <= sent'[Peer(q)]
      BY <1>1, PeerIsParty DEF Inv, InOrder
    <2>2. got[q] \in 0..Notice /\ sent[Peer(q)] \in 0..Notice /\ sent'[Peer(q)] \in 0..Notice
      BY <1>1, PeerIsParty DEF Inv, TypeOK
    <2> QED  BY <2>1, <2>2 DEF Notice
  <1> QED  BY <1>2, <1>3 DEF Kept

\* A step that writes the journal.
LEMMA WriteKept ==
    ASSUME Inv, NEW p \in Parties, NEW step \in EngineSteps, NEW r \in Records,
           rec[p].agreement => r.agreement,
           Write(p, r, step), UNCHANGED faultVars
    PROVE  Kept
  <1>1. rec' \in [Parties -> Records] /\ \A q \in Parties : rec[q].agreement => rec'[q].agreement
    BY DEF Inv, TypeOK, Write
  <1>2. TypeOK'
    BY <1>1, Moves DEF Inv, TypeOK, Write, LegsTypeOK, legVars, engineVars, mailVars, faultVars
  <1> QED  BY <1>1, <1>2 DEF Inv, InOrder, Kept, Write, engineVars, mailVars

\* A record with another phase of version 1 is a record.
LEMMA PhaseTyped ==
    ASSUME Inv, NEW p \in Parties, NEW phase \in LegacySwapPhases
    PROVE  /\ [rec[p] EXCEPT !.phase = phase] \in Records
           /\ [rec[p] EXCEPT !.phase = phase].agreement = rec[p].agreement
  <1>1. rec[p] \in Records
    BY DEF Inv, TypeOK
  <1> QED  BY <1>1 DEF Records, LegacySwapPhases

\* A journal advance keeps the types and touches one record.
LEMMA AdvanceKept ==
    ASSUME Inv, NEW p \in Parties, NEW phase \in LegacySwapPhases,
           NEW step \in EngineSteps,
           AdvanceThen(p, phase, step), UNCHANGED faultVars
    PROVE  Kept
  BY PhaseTyped, WriteKept DEF AdvanceThen

\* An advance that goes on in the same pass keeps the types.
LEMMA AdvanceToKept ==
    ASSUME Inv, NEW p \in Parties, NEW phase \in LegacySwapPhases,
           AdvanceTo(p, phase) \/ RewindTo(p, phase), UNCHANGED faultVars
    PROVE  Kept
  BY AdvanceKept, PhaseTyped, WriteKept, StepsReached DEF AdvanceTo, RewindTo

\* A rewind that ends the pass keeps the types.
LEMMA RewindAndReturnKept ==
    ASSUME Inv, NEW p \in Parties, NEW phase \in LegacySwapPhases,
           RewindAndReturn(p, phase), UNCHANGED faultVars
    PROVE  Kept
  <1>1. rec' = [rec EXCEPT ![p] = [rec[p] EXCEPT !.phase = phase]]
    BY DEF RewindAndReturn, Inv, TypeOK
  <1>2. rec' \in [Parties -> Records] /\ \A q \in Parties : rec[q].agreement => rec'[q].agreement
    BY <1>1, PhaseTyped DEF Inv, TypeOK
  <1>3. TypeOK'
    BY <1>2, StepsReached
       DEF RewindAndReturn, Inv, TypeOK, LegsTypeOK, legVars, engineVars, mailVars, faultVars
  <1> QED  BY <1>2, <1>3 DEF Inv, InOrder, Kept, RewindAndReturn, engineVars, mailVars

-----------------------------------------------------------------------------
(* The actions keep the types, the order and the stored agreements *)

\* The steps of processPeerMessages and proposeAgreement keep the types.
LEMMA MessagingKept ==
    ASSUME Inv, NEW p \in Parties, Messaging(p), UNCHANGED faultVars
    PROVE  Kept
  <1>0. /\ rec[p] \in Records
        /\ got[p] \in 0..Notice
    BY DEF Inv, TypeOK
  <1>1. CASE Begin(p)
    <2>1. poll' \in [Parties -> {"stale", "running", "done"}] /\ pc' \in [Parties -> EngineSteps]
      BY <1>1, StepsReached DEF Begin, Inv, TypeOK
    <2>2. TypeOK'
      BY <1>1, <2>1 DEF Begin, Inv, TypeOK, LegsTypeOK, Quiet, legVars, engineVars,
                        mailVars, faultVars
    <2> QED  BY <1>1, <2>2 DEF Begin, Inv, InOrder, Kept, Quiet, engineVars, mailVars
  <1>2. CASE SendHello(p)
    <2>1. Hello \in 0..Notice
      BY DEF Hello, Notice
    <2> QED  BY <1>2, <2>1, QuietKept, SendKept, StepsReached DEF SendHello
  <1>3. CASE ReadMessages(p)
    <2> DEFINE heard == rec[p].hello \/ got[p] >= Hello
               phase == IF p = "maker" /\ got[p] >= Terms /\ rec[p].phase = "terms_proposed"
                        THEN "terms_agreed" ELSE rec[p].phase
               r == [rec[p] EXCEPT !.hello = heard, !.phase = phase]
               step == IF p = "taker" /\ got[p] >= Terms THEN "accept" ELSE "notices"
    <2>1. heard \in BOOLEAN /\ phase \in LegacySwapPhases
      BY <1>0, PhasesReached DEF Records, LegacySwapPhases
    <2>2. Write(p, r, step)
      BY <1>3, <1>0 DEF ReadMessages, Records
    <2>3. step \in EngineSteps
      BY StepsReached
    <2> HIDE DEF heard, phase, step
    <2>4. r \in Records /\ r.agreement = rec[p].agreement
      BY <1>0, <2>1 DEF Records, LegacySwapPhases
    <2> QED  BY <2>2, <2>3, <2>4, WriteKept
  <1>4. CASE p = "taker" /\ AcceptAgreement
    <2>1. [rec[p] EXCEPT !.agreement = TRUE] \in Records
      BY <1>0 DEF Records
    <2>2. [rec[p] EXCEPT !.agreement = TRUE].agreement
      BY <1>0 DEF Records
    <2> QED  BY <1>4, <2>1, <2>2, QuietKept, WriteKept, StepsReached DEF AcceptAgreement
  <1>5. CASE MarkProposed(p)
    BY <1>5, AdvanceKept, PhasesReached, StepsReached DEF MarkProposed
  <1>6. CASE (p = "taker" /\ Acknowledge) \/ (p = "maker" /\ SendAgreement)
    <2>1. Terms \in 0..Notice
      BY DEF Terms, Notice
    <2> QED  BY <1>6, <2>1, SendKept, StepsReached DEF Acknowledge, SendAgreement
  <1>7. CASE p = "taker" /\ Agree
    BY <1>7, AdvanceKept, QuietKept, PhasesReached, StepsReached DEF Agree
  <1>8. CASE ReadNotice(p)
    <2>1. rec' \in [Parties -> Records]
      BY <1>0, <1>8, PeerIsParty DEF ReadNotice, Inv, TypeOK, Records
    <2>2. \A q \in Parties : rec[q].agreement => rec'[q].agreement
      BY <1>0, <1>8, PeerIsParty DEF ReadNotice, Inv, TypeOK, Records
    <2>3. LegsTypeOK'
      <3>1. CASE Broadcast(p, Fund(Peer(p)))
        BY <3>1, BroadcastLegs, FundIsTx, PeerIsParty DEF Inv, TypeOK
      <3>2. CASE UNCHANGED legVars
        BY <3>2 DEF Inv, TypeOK, LegsTypeOK, legVars
      <3> QED  BY <1>8, <3>1, <3>2 DEF ReadNotice
    <2>4. /\ pc' \in [Parties -> EngineSteps]
          /\ poll' \in [Parties -> {"stale", "running", "done"}]
      BY <1>8, Moves, StepsReached DEF ReadNotice, Inv
    <2>5. TypeOK'
      BY <1>8, <2>1, <2>3, <2>4 DEF ReadNotice, Inv, TypeOK, engineVars, mailVars, faultVars
    <2> QED  BY <1>8, <2>2, <2>5 DEF ReadNotice, Inv, InOrder, Kept, engineVars, mailVars
  <1>9. CASE p = "maker" /\ StoreProposal
    <2>1. [rec[p] EXCEPT !.agreement = TRUE] \in Records
      BY <1>0 DEF Records
    <2>2. [rec[p] EXCEPT !.agreement = TRUE].agreement
      BY <1>0 DEF Records
    <2> QED  BY <1>9, <2>1, <2>2, WriteKept, StepsReached DEF StoreProposal
  <1> QED  BY <1>1, <1>2, <1>3, <1>4, <1>5, <1>6, <1>7, <1>8, <1>9 DEF Messaging

\* What the refund check recovers is a record.
LEMMA RecoveredTyped ==
    ASSUME Inv, NEW p \in Parties
    PROVE  /\ Recovered(p) \in Records
           /\ [Recovered(p) EXCEPT !.revealed = TRUE] \in Records
           /\ [Recovered(p) EXCEPT !.phase = "waiting_for_refund"] \in Records
           /\ Recovered(p).agreement = rec[p].agreement
           /\ [Recovered(p) EXCEPT !.revealed = TRUE].agreement = rec[p].agreement
           /\ [Recovered(p) EXCEPT !.phase = "waiting_for_refund"].agreement = rec[p].agreement
  <1>1. rec[p] \in Records
    BY DEF Inv, TypeOK
  <1>2. Recovered(p) \in Records /\ Recovered(p).agreement = rec[p].agreement
    BY <1>1 DEF Recovered, Records
  <1> HIDE DEF Recovered
  <1>3. "waiting_for_refund" \in Phases \ AsyncPhases
    BY PhasesReached DEF LegacySwapPhases
  <1> QED  BY <1>2, <1>3 DEF Records

\* The refund check keeps the types and touches no message.
LEMMA RefundCheckKept ==
    ASSUME Inv, NEW p \in Parties, RefundCheck(p), UNCHANGED faultVars
    PROVE  Kept
  <1>1. CASE NothingAgreed(p) \/ NoRefundCheck(p)
    BY <1>1, QuietKept, StepsReached DEF NothingAgreed, NoRefundCheck
  <1>2. CASE ClaimBeforeRefund(p) \/ NotDue(p) \/ StartRefund(p)
    BY <1>2, WriteKept, RecoveredTyped, StepsReached DEF ClaimBeforeRefund, NotDue, StartRefund
  <1>3. CASE Expire(p) \/ UnfundedInWindow(p)
    BY <1>3, AdvanceToKept, QuietKept, PhasesReached, StepsReached
       DEF Expire, UnfundedInWindow
  <1> QED  BY <1>1, <1>2, <1>3 DEF RefundCheck

\* The steps of the funding phases keep the types.
LEMMA FundingKept ==
    ASSUME Inv, NEW p \in Parties, Funding(p), UNCHANGED faultVars
    PROVE  Kept
  <1>1. CASE TermsAgreed(p) \/ MakerFunding(p)
    BY <1>1, AdvanceToKept, QuietKept, PhasesReached, StepsReached
       DEF TermsAgreed, MakerFunding, FundingStep
  <1>2. CASE FundOwnLeg(p)
    <2>1. CASE FundingWindowOpen
      <3>1. funded' \in [Parties -> BOOLEAN]
        BY <1>2, <2>1 DEF FundOwnLeg, Inv, TypeOK
      <3> QED  BY <1>2, <2>1, <3>1, PublishKept, FundIsTx, StepsReached DEF FundOwnLeg
    <2>2. CASE ~FundingWindowOpen
      BY <1>2, <2>2, QuietKept, StepsReached DEF FundOwnLeg
    <2> QED  BY <2>1, <2>2
  <1>3. CASE SaveNotice(p)
    <2>1. rec[p] \in Records
      BY DEF Inv, TypeOK
    <2>2. [rec[p] EXCEPT !.notices = @ \cup {p}] \in Records
      BY <2>1 DEF Records
    <2>3. [rec[p] EXCEPT !.notices = @ \cup {p}].agreement = rec[p].agreement
      BY <2>1 DEF Records
    <2> QED  BY <1>3, <2>2, <2>3, WriteKept, StepsReached DEF SaveNotice
  <1>4. CASE SendNotice(p)
    <2>1. Notice \in 0..Notice
      BY DEF Notice
    <2> QED  BY <1>4, <2>1, SendKept, StepsReached DEF SendNotice
  <1>5. CASE AwaitFunding(p)
    BY <1>5, AdvanceToKept, QuietKept, PhasesReached, StepsReached DEF AwaitFunding
  <1>6. CASE MakerFunded(p) \/ TakerFunding(p) \/ TakerFunded(p)
    BY <1>6, AdvanceToKept, RewindAndReturnKept, QuietKept, PhasesReached, StepsReached
       DEF MakerFunded, TakerFunding, TakerFunded, FundingStep
  <1> QED  BY <1>1, <1>2, <1>3, <1>4, <1>5, <1>6 DEF Funding

\* The steps of the claiming phases keep the types.
LEMMA ClaimingKept ==
    ASSUME Inv, NEW p \in Parties, Claiming(p), UNCHANGED faultVars
    PROVE  Kept
  <1>1. CASE MakerClaiming(p) \/ MakerClaimed(p) \/ TakerClaiming(p) \/ Settle(p)
    BY <1>1, AdvanceToKept, QuietKept, PhasesReached, StepsReached
       DEF MakerClaiming, MakerClaimed, TakerClaiming, Settle
  <1>2. CASE ClaimPeerLeg(p)
    <2>1. funded \in [Parties -> BOOLEAN]
      BY DEF Inv, TypeOK
    <2> QED  BY <1>2, <2>1, PublishKept, QuietKept, FundIsTx, PeerIsParty, StepsReached
             DEF ClaimPeerLeg, engineVars
  <1>3. CASE ObserveMakerClaim(p)
    <2>1. rec[p] \in Records /\ "maker_claimed" \in Phases \ AsyncPhases
      BY PhasesReached DEF Inv, TypeOK, LegacySwapPhases
    <2>2. [rec[p] EXCEPT !.revealed = TRUE, !.phase = "maker_claimed"] \in Records
      BY <2>1 DEF Records
    <2>3. [rec[p] EXCEPT !.revealed = TRUE, !.phase = "maker_claimed"].agreement
              = rec[p].agreement
      BY <2>1 DEF Records
    <2> QED  BY <1>3, <2>2, <2>3, WriteKept, QuietKept, StepsReached DEF ObserveMakerClaim
  <1> QED  BY <1>1, <1>2, <1>3 DEF Claiming

\* The steps of the ending phases keep the types.
LEMMA EndingKept ==
    ASSUME Inv, NEW p \in Parties, Ending(p), UNCHANGED faultVars
    PROVE  Kept
  <1>1. CASE Complete(p) \/ WaitingForRefund(p) \/ Refunded(p) \/ Expired(p)
    BY <1>1, AdvanceToKept, RewindAndReturnKept, QuietKept, PhasesReached, StepsReached
       DEF Complete, WaitingForRefund, Refunded, Expired
  <1>2. CASE Refunding(p)
    <2>1. funded \in [Parties -> BOOLEAN] /\ RefundedLeg(p) \in Parties
      BY PeerIsParty DEF Inv, TypeOK, RefundedLeg
    <2> QED  BY <1>2, <2>1, AdvanceToKept, PublishKept, QuietKept, FundIsTx, PhasesReached,
                StepsReached
             DEF Refunding, engineVars
  <1> QED  BY <1>1, <1>2 DEF Ending

\* Every step of an engine keeps the types.
LEMMA EngineKept ==
    ASSUME Inv, NEW p \in Parties, Engine(p)
    PROVE  Kept
  BY MessagingKept, RefundCheckKept, FundingKept, ClaimingKept, EndingKept DEF Engine

-----------------------------------------------------------------------------
(* The agreement comes first *)

\* An agreement that both journals hold stays, and is all that is asked.
LEMMA WhenAgreed ==
    ASSUME Inv, Kept, Agreed
    PROVE  AgreementFirst'
  <1>1. Agreed'
    BY DEF Agreed, Kept
  <1> QED  BY <1>1 DEF Agreed, AgreementFirst, AgreementBeforeFunding, Parties

\* Where both traders are as long as it is missing.
LEMMA NotYet ==
    ASSUME Inv, ~Agreed
    PROVE  /\ ~rec["taker"].agreement
           /\ rec["taker"].phase = "matched"
           /\ rec["maker"].phase \in {"matched", "terms_proposed"}
           /\ \A p \in Parties : ~Executing(p) /\ pc[p] \notin ExecutionSteps
           /\ pc["taker"] \notin {"proposed", "ack"}
           /\ got["maker"] < Terms /\ got["taker"] < Notice
           /\ \A p \in Parties : chain[Fund(p)] = "none"
  <1>1. ~rec["taker"].agreement
    BY DEF Inv, AgreementFirst, Agreed, Parties
  <1>2. /\ rec["taker"].phase = "matched"
        /\ rec["maker"].phase \in {"matched", "terms_proposed"}
        /\ \A p \in Parties : pc[p] \notin ExecutionSteps /\ chain[Fund(p)] = "none"
        /\ pc["taker"] \notin {"proposed", "ack"}
    BY <1>1 DEF Inv, AgreementFirst, AgreementBeforeFunding, Agreed, Parties
  <1>3. /\ sent["taker"] \in 0..Notice /\ sent["maker"] \in 0..Notice
        /\ got["taker"] \in 0..Notice /\ got["maker"] \in 0..Notice
    BY DEF Inv, TypeOK, Parties
  <1>4. ~(sent["taker"] >= Terms) /\ ~(sent["maker"] >= Notice)
    BY <1>1 DEF Inv, AgreementFirst, Agreed, Parties
  <1>5. got["maker"] <= sent["taker"] /\ got["taker"] <= sent["maker"]
    BY DEF Inv, InOrder, Parties, Peer
  <1>6. got["maker"] < Terms /\ got["taker"] < Notice
    BY <1>3, <1>4, <1>5 DEF Terms, Notice
  <1> QED  BY <1>1, <1>2, <1>6 DEF Executing, Parties

\* What driveExecution does after the refund check, it does with the agreement.
LEMMA ExecutionAgreed ==
    ASSUME Inv, NEW p \in Parties, Funding(p) \/ Claiming(p) \/ Ending(p)
    PROVE  Agreed
  <1> SUFFICES ASSUME ~Agreed PROVE FALSE
    OBVIOUS
  <1>1. pc[p] \notin ExecutionSteps /\ rec[p].phase \in {"matched", "terms_proposed"}
    BY NotYet DEF Parties
  <1>2. CASE Funding(p)
    BY <1>1, <1>2
       DEF Funding, TermsAgreed, MakerFunding, FundOwnLeg, SaveNotice, SendNotice,
           AwaitFunding, MakerFunded, TakerFunding, TakerFunded, InPhase, At, ExecutionSteps
  <1>3. CASE Claiming(p)
    BY <1>1, <1>3
       DEF Claiming, MakerClaiming, ClaimPeerLeg, ObserveMakerClaim, MakerClaimed,
           TakerClaiming, Settle, InPhase, At, ExecutionSteps
  <1>4. CASE Ending(p)
    BY <1>1, <1>4
       DEF Ending, Complete, WaitingForRefund, Refunding, Refunded, Expired, InPhase
  <1> QED  BY <1>2, <1>3, <1>4

\* A pass moves one trader, and to one place.
LEMMA OneMoves ==
    ASSUME TypeOK, NEW p \in Parties, NEW step,
           Goto(p, step) \/ Return(p)
    PROVE  /\ pc'[p] \in {step, "idle"}
           /\ \A q \in Parties : q # p => pc'[q] = pc[q]
  BY DEF TypeOK, Goto, Return

\* Nothing the invariant speaks of changes but the place of p in its pass,
\* which is none where the agreement is needed.
LEMMA PlaceFirst ==
    ASSUME Inv, ~Agreed, Kept, NEW p \in Parties, NEW step, Goto(p, step) \/ Return(p),
           step \notin {"accept", "proposed", "ack", "send"} \cup ExecutionSteps,
           UNCHANGED <<chain, rec, sent>>
    PROVE  AgreementFirst'
  <1>1. \A q \in Parties : pc'[q] = pc[q] \/ pc'[q] \in {step, "idle"}
    BY OneMoves DEF Inv
  <1>2. Agreed' = Agreed
    BY DEF Agreed
  <1> QED  BY <1>1, <1>2
           DEF Inv, AgreementFirst, AgreementBeforeFunding, Parties, ExecutionSteps

\* Until both have the agreement, the messages lead up to it in their order.
LEMMA MessagingFirst ==
    ASSUME Inv, ~Agreed, Kept, NEW p \in Parties, Messaging(p)
    PROVE  AgreementFirst'
  <1>0. /\ rec[p] \in Records /\ rec["maker"] \in Records /\ rec["taker"] \in Records
        /\ \A q \in Parties : got[q] \in 0..Notice /\ sent[q] \in 0..Notice
    BY DEF Inv, TypeOK, Parties
  <1>1. CASE Begin(p)
    <2>1. \A q \in Parties : pc'[q] = pc[q] \/ pc'[q] = "hello"
      BY <1>1 DEF Begin, Inv, TypeOK
    <2>2. UNCHANGED <<chain, rec, sent>> /\ Agreed' = Agreed
      BY <1>1 DEF Begin, Quiet, legVars, engineVars, mailVars, Agreed
    <2> QED  BY <2>1, <2>2
             DEF Inv, AgreementFirst, AgreementBeforeFunding, Parties, ExecutionSteps
  <1>2. CASE SendHello(p)
    <2>1. CASE lapsed
      BY <1>2, <2>1, PlaceFirst
         DEF SendHello, Quiet, legVars, engineVars, mailVars, ExecutionSteps
    <2>2. CASE ~lapsed
      <3>1. \A q \in Parties : sent'[q] = sent[q] \/ sent'[q] = Hello
        BY <1>2, <2>2 DEF SendHello, Receive, Inv, TypeOK
      <3>2. \A q \in Parties : pc'[q] = pc[q] \/ pc'[q] \in {"read", "idle"}
        BY <1>2, <2>2, OneMoves DEF SendHello, Inv
      <3>3. UNCHANGED <<chain, rec>> /\ Agreed' = Agreed
        BY <1>2, <2>2 DEF SendHello, legVars, Agreed
      <3> QED  BY <1>0, <3>1, <3>2, <3>3
               DEF Inv, AgreementFirst, AgreementBeforeFunding, Parties, ExecutionSteps,
                   Hello, Terms, Notice
    <2> QED  BY <2>1, <2>2
  <1>3. CASE ReadMessages(p)
    <2>1. ~(p = "maker" /\ got[p] >= Terms)
      BY <1>0, NotYet DEF Terms, Notice
    <2>2. rec' = [rec EXCEPT ![p] = [rec[p] EXCEPT !.hello = @ \/ got[p] >= Hello]]
      BY <1>0, <1>3, <2>1 DEF ReadMessages, Write, Records
    <2>3. \A q \in Parties : rec'[q].agreement = rec[q].agreement
                             /\ rec'[q].phase = rec[q].phase
      BY <1>0, <2>2 DEF Inv, TypeOK, Records
    <2>4. UNCHANGED <<chain, sent>>
      BY <1>3 DEF ReadMessages, Write, legVars, engineVars, mailVars
    <2>5. p = "taker" /\ got[p] >= Terms => rec["maker"].agreement
      <3>1. got["taker"] <= sent["maker"]
        BY DEF Inv, InOrder, Parties, Peer
      <3>2. sent["maker"] >= Terms => rec["maker"].agreement
        BY DEF Inv, AgreementFirst, Parties
      <3> QED  BY <1>0, <3>1, <3>2 DEF Terms, Notice, Parties
    <2>6. /\ pc'[p] \in {"notices", "idle", "accept"}
          /\ pc'[p] = "accept" => p = "taker" /\ got[p] >= Terms
          /\ \A q \in Parties : q # p => pc'[q] = pc[q]
      BY <1>3, OneMoves DEF ReadMessages, Write, Inv
    <2>7. Agreed' = Agreed
      BY <2>3 DEF Agreed
    <2> QED  BY <2>3, <2>4, <2>5, <2>6, <2>7
             DEF Inv, AgreementFirst, AgreementBeforeFunding, Parties, ExecutionSteps
  <1>4. CASE p = "taker" /\ AcceptAgreement
    <2>1. rec["maker"].agreement
      BY <1>4 DEF AcceptAgreement, At, Inv, AgreementFirst
    <2>2. Agreed'
      BY <1>0, <1>4, <2>1, NotYet
         DEF AcceptAgreement, Write, Agreed, Inv, TypeOK, Records, Parties
    <2> QED  BY <2>2 DEF Agreed, AgreementFirst, AgreementBeforeFunding, Parties
  <1>5. CASE MarkProposed(p)
    <2>1. p = "maker" /\ rec["maker"].agreement
      BY <1>5, NotYet DEF MarkProposed, At, Inv, AgreementFirst, Parties
    <2>2. rec' = [rec EXCEPT !["maker"] = [rec["maker"] EXCEPT !.phase = "terms_proposed"]]
      BY <1>5, <2>1 DEF MarkProposed, AdvanceThen, Write
    <2>3. /\ rec'["maker"].phase = "terms_proposed"
          /\ rec'["maker"].agreement = rec["maker"].agreement
          /\ rec'["taker"] = rec["taker"]
      BY <1>0, <2>2 DEF Inv, TypeOK, Records, Parties
    <2>4. UNCHANGED <<chain, sent>>
      BY <1>5 DEF MarkProposed, AdvanceThen, Write, legVars, engineVars, mailVars
    <2>5. pc'["maker"] \in {"send", "idle"} /\ pc'["taker"] = pc["taker"]
      BY <1>5, <2>1, OneMoves DEF MarkProposed, AdvanceThen, Write, Inv, Parties
    <2>6. Agreed' = Agreed
      BY <2>3 DEF Agreed, Parties
    <2> QED  BY <2>1, <2>3, <2>4, <2>5, <2>6
             DEF Inv, AgreementFirst, AgreementBeforeFunding, Parties, ExecutionSteps
  <1>6. CASE p = "taker" /\ Acknowledge
    BY <1>6, NotYet DEF Acknowledge, At
  <1>7. CASE p = "taker" /\ Agree
    BY <1>7, NotYet, PlaceFirst
       DEF Agree, Quiet, legVars, engineVars, mailVars, ExecutionSteps
  <1>8. CASE ReadNotice(p)
    <2>1. ~(got[p] >= Notice)
      BY <1>0, NotYet DEF Terms, Notice, Parties
    <2>2. UNCHANGED <<chain, rec, sent>>
      BY <1>8, <2>1 DEF ReadNotice, legVars, engineVars, mailVars
    <2> QED  BY <1>8, <2>2, PlaceFirst DEF ReadNotice, ExecutionSteps
  <1>9. CASE p = "maker" /\ StoreProposal
    <2>1. rec' = [rec EXCEPT !["maker"] = [rec["maker"] EXCEPT !.agreement = TRUE]]
      BY <1>9 DEF StoreProposal, Write
    <2>2. /\ rec'["maker"].phase = rec["maker"].phase
          /\ rec'["maker"].agreement
          /\ rec'["taker"] = rec["taker"]
      BY <1>0, <2>1 DEF Inv, TypeOK, Records, Parties
    <2>3. UNCHANGED <<chain, sent>>
      BY <1>9 DEF StoreProposal, Write, legVars, engineVars, mailVars
    <2>4. pc'["maker"] \in {"proposed", "idle"} /\ pc'["taker"] = pc["taker"]
      BY <1>9, OneMoves DEF StoreProposal, Write, Inv, Parties
    <2>5. \A q \in Parties : sent[q] < Notice
      BY <1>0 DEF Inv, AgreementFirst, Notice
    <2> QED  BY <2>2, <2>3, <2>4, <2>5, NotYet, <1>0
             DEF Inv, AgreementFirst, AgreementBeforeFunding, Parties, ExecutionSteps,
                 Notice, Terms
  <1>10. CASE p = "maker" /\ SendAgreement
    <2>1. rec["maker"].agreement
      BY <1>10 DEF SendAgreement, At, Inv, AgreementFirst
    <2>2. sent'["taker"] = sent["taker"] /\ sent'["maker"] \in {sent["maker"], Terms}
      BY <1>10 DEF SendAgreement, Receive, Inv, TypeOK, Parties
    <2>3. UNCHANGED <<chain, rec>> /\ Agreed' = Agreed
      BY <1>10 DEF SendAgreement, legVars, Agreed
    <2>4. pc'["maker"] \in {"read", "idle"} /\ pc'["taker"] = pc["taker"]
      BY <1>10, OneMoves DEF SendAgreement, Inv, Parties
    <2> QED  BY <1>0, <2>1, <2>2, <2>3, <2>4
             DEF Inv, AgreementFirst, AgreementBeforeFunding, Parties, ExecutionSteps,
                 Notice, Terms
  <1> QED  BY <1>1, <1>2, <1>3, <1>4, <1>5, <1>6, <1>7, <1>8, <1>9, <1>10 DEF Messaging

\* Every step of an engine keeps the invariant.
LEMMA EngineInv ==
    ASSUME Inv, NEW p \in Parties, Engine(p)
    PROVE  Inv'
  <1>1. Kept
    BY EngineKept
  <1>2. CASE Agreed
    BY <1>1, <1>2, WhenAgreed DEF Inv, Kept
  <1>3. CASE ~Agreed
    <2>1. CASE Messaging(p)
      BY <1>1, <1>3, <2>1, MessagingFirst DEF Inv, Kept
    <2>2. CASE RefundCheck(p)
      <3>1. ~Executing(p) /\ rec[p].phase \notin TerminalPhases \cup RefundPhases
        BY <1>3, NotYet DEF Parties, TerminalPhases, RefundPhases
      <3>2. NothingAgreed(p)
        BY <2>2, <3>1
           DEF RefundCheck, NoRefundCheck, ClaimBeforeRefund, NotDue, StartRefund,
               Expire, UnfundedInWindow, MayRefund
      <3> QED  BY <1>1, <1>3, <3>2, PlaceFirst
               DEF NothingAgreed, Quiet, legVars, engineVars, mailVars, ExecutionSteps,
                   Inv, Kept
    <2> QED  BY <1>3, <2>1, <2>2, ExecutionAgreed DEF Engine
  <1> QED  BY <1>2, <1>3

-----------------------------------------------------------------------------
(* The relay, the networks and the faults *)

\* Steps outside the engines: the journals, what was sent, and that a funding
\* was never published, stay.
LEMMA OutsideInv ==
    ASSUME Inv, TypeOK', InOrder', UNCHANGED <<rec, sent>>,
           \A p \in Parties : pc'[p] \in {pc[p], "idle"},
           \A p \in Parties : chain[Fund(p)] = "none" => chain'[Fund(p)] = "none"
    PROVE  Inv'
  <1>1. Agreed' = Agreed
    BY DEF Agreed
  <1> QED  BY <1>1
           DEF Inv, AgreementFirst, AgreementBeforeFunding, Parties, ExecutionSteps

\* Delivering a message keeps the invariant.
LEMMA DeliverInv ==
    ASSUME Inv, NEW p \in Parties, Deliver(p)
    PROVE  Inv'
  <1>1. got' \in [Parties -> 0..Notice]
    BY PeerIsParty DEF Deliver, Inv, TypeOK, Notice
  <1>2. TypeOK'
    BY <1>1, StaleTyped DEF Deliver, Inv, TypeOK, LegsTypeOK, legVars, faultVars
  <1>3. InOrder'
    BY PeerIsParty DEF Deliver, Inv, InOrder, TypeOK, Notice
  <1> QED  BY <1>2, <1>3, OutsideInv DEF Deliver, legVars

\* A crash or a failed call keeps the invariant.
LEMMA AbortInv ==
    ASSUME Inv, NEW p \in Parties, Abort(p)
    PROVE  Inv'
  <1>1. pc' \in [Parties -> EngineSteps] /\ \A q \in Parties : pc'[q] \in {pc[q], "idle"}
    BY StepsReached DEF Abort, Inv, TypeOK
  <1>2. aborts' \in 0..MaxAborts
    BY LegacyAssumption DEF Abort, Inv, TypeOK
  <1>3. poll' \in [Parties -> {"stale", "running", "done"}]
    BY DEF Abort, Inv, TypeOK
  <1>4. TypeOK'
    BY <1>1, <1>2, <1>3 DEF Abort, Inv, TypeOK, LegsTypeOK, legVars, engineVars, mailVars
  <1>5. InOrder'
    BY DEF Abort, Inv, InOrder, engineVars, mailVars
  <1> QED  BY <1>1, <1>4, <1>5, OutsideInv DEF Abort, legVars, engineVars, mailVars

\* A block, a rumour, an eviction or a reorganisation never makes a funding
\* that nobody published.
LEMMA ChainMoves ==
    ASSUME LegsTypeOK, NEW t \in Txs, NEW p \in Parties,
           Confirm(t) \/ Gossip(p, t) \/ Reorg(t) \/ Evict(t)
    PROVE  /\ LegsTypeOK'
           /\ \A q \in Parties : chain[Fund(q)] = "none" => chain'[Fund(q)] = "none"
  <1>1. CASE Confirm(t)
    BY <1>1, FundIsTx DEF Confirm, LegsTypeOK, Forget
  <1>2. CASE Gossip(p, t)
    BY <1>2 DEF Gossip, LegsTypeOK
  <1>3. CASE Reorg(t)
    <2> DEFINE lost == {t} \cup IF t[2] = "fund"
                            THEN {u \in {Claim(t[1]), Refund(t[1])} : chain[u] = "conf"}
                            ELSE {}
    <2>1. t[1] \in Parties
      BY DEF Txs
    <2>2. lost \subseteq Txs /\ \A u \in lost : chain[u] = "conf"
      BY <1>3, <2>1, FundIsTx DEF Reorg
    <2>3. /\ chain' = [u \in Txs |-> IF u \in lost THEN "pool" ELSE chain[u]]
          /\ known' = [q \in Parties |-> known[q] \cup lost]
          /\ epoch' = epoch
      BY <1>3 DEF Reorg
    <2> HIDE DEF lost
    <2> QED  BY <2>2, <2>3, FundIsTx DEF LegsTypeOK
  <1>4. CASE Evict(t)
    <2> DEFINE lost == IF t[2] = "fund" THEN {t, Claim(t[1]), Refund(t[1])} ELSE {t}
    <2>1. /\ chain' = [u \in Txs |-> IF u \in lost THEN "none" ELSE chain[u]]
          /\ known' = Forget(lost)
          /\ epoch' = epoch
      BY <1>4 DEF Evict
    <2> HIDE DEF lost
    <2> QED  BY <2>1, FundIsTx DEF LegsTypeOK, Forget
  <1> QED  BY <1>1, <1>2, <1>3, <1>4

\* Blocks, gossip, reorganisations and evictions keep the invariant.
LEMMA NetworkInv ==
    ASSUME Inv, Network \/ Disturbance
    PROVE  Inv'
  <1>1. PICK t \in Txs, p \in Parties :
            Confirm(t) \/ Gossip(p, t) \/ Reorg(t) \/ Evict(t)
    BY DEF Network, Disturbance, Parties
  <1>2. /\ LegsTypeOK'
        /\ \A q \in Parties : chain[Fund(q)] = "none" => chain'[Fund(q)] = "none"
    BY <1>1, ChainMoves DEF Inv, TypeOK
  <1>3. reorgs' \in 0..MaxReorgs
    BY LegacyAssumption DEF Network, Disturbance, faultVars, Inv, TypeOK
  <1>4. TypeOK' /\ InOrder'
    BY <1>2, <1>3, StaleTyped
       DEF Network, Disturbance, Inv, TypeOK, InOrder, engineVars, mailVars, faultVars
  <1> QED  BY <1>2, <1>4, OutsideInv DEF Network, Disturbance, engineVars, mailVars, Inv, TypeOK

\* The clock and the end of a message's life keep the invariant.
LEMMA TimeInv ==
    ASSUME Inv, Tick \/ Lapse
    PROVE  Inv'
  <1>1. /\ LegsTypeOK'
        /\ \A q \in Parties : chain[Fund(q)] = "none" => chain'[Fund(q)] = "none"
    BY FundIsTx DEF Tick, Lapse, NextEpoch, Inv, TypeOK, LegsTypeOK, LastEpoch
  <1>2. TypeOK' /\ InOrder'
    BY <1>1, StaleTyped DEF Tick, Lapse, Inv, TypeOK, InOrder, engineVars, mailVars, faultVars
  <1> QED  BY <1>1, <1>2, OutsideInv DEF Tick, Lapse, engineVars, mailVars, Inv, TypeOK

\* The invariant holds before the first step.
LEMMA InitInv == Init => Inv
  <1> SUFFICES ASSUME Init PROVE Inv
    OBVIOUS
  <1>1. LegsTypeOK
    BY DEF Init, LegsInit, LegsTypeOK, LastEpoch
  <1>2. TypeOK
    <2>1. rec \in [Parties -> Records]
      <3>1. "matched" \in Phases \ AsyncPhases
        BY PhasesReached DEF LegacySwapPhases
      <3> QED  BY <3>1 DEF Init, Records
    <2>2. aborts \in 0..MaxAborts /\ reorgs \in 0..MaxReorgs
      BY LegacyAssumption DEF Init
    <2>3. "idle" \in EngineSteps
      BY StepsReached
    <2>4. /\ pc \in [Parties -> EngineSteps]
          /\ poll \in [Parties -> {"stale", "running", "done"}]
      BY <2>3 DEF Init
    <2>5. sent \in [Parties -> 0..Notice] /\ got \in [Parties -> 0..Notice]
      BY DEF Init, Notice
    <2>6. funded \in [Parties -> BOOLEAN] /\ lapsed \in BOOLEAN
      BY Zenon DEF Init
    <2> QED  BY <1>1, <2>1, <2>2, <2>4, <2>5, <2>6 DEF TypeOK
  <1>3. InOrder
    BY PeerIsParty DEF Init, InOrder
  <1>4. AgreementFirst
    BY FundIsTx DEF Init, LegsInit, AgreementFirst, AgreementBeforeFunding, Parties,
                   ExecutionSteps, Terms, Notice
  <1> QED  BY <1>2, <1>3, <1>4 DEF Inv

\* Every step keeps the invariant.
LEMMA NextInv == Inv /\ [Next]_vars => Inv'
  <1> SUFFICES ASSUME Inv, [Next]_vars PROVE Inv'
    OBVIOUS
  <1>1. CASE \E p \in Parties : Engine(p) \/ Abort(p) \/ Deliver(p)
    BY <1>1, EngineInv, AbortInv, DeliverInv
  <1>2. CASE Network \/ Disturbance
    BY <1>2, NetworkInv
  <1>3. CASE Tick \/ Lapse
    BY <1>3, TimeInv
  <1>4. CASE UNCHANGED vars
    <2>1. TypeOK' /\ InOrder'
      BY <1>4 DEF vars, Inv, TypeOK, InOrder, LegsTypeOK, legVars, engineVars, mailVars,
                  faultVars
    <2> QED  BY <1>4, <2>1, OutsideInv DEF vars, legVars, engineVars, mailVars
  <1> QED  BY <1>1, <1>2, <1>3, <1>4 DEF Next

\* The invariant holds throughout.
LEMMA Invariance == Spec => []Inv
  BY InitInv, NextInv, PTL DEF Spec

-----------------------------------------------------------------------------
\* The journals, the messages and the chains of a version 1 swap keep their
\* types, in particular no phase is one of version 2 (driveSwap).
THEOREM Typing == Spec => []TypeOK
  BY Invariance, PTL DEF Inv

\* Whatever is lost, repeated or undone, no coin enters a contract of the swap
\* before both journals hold the agreement whose refund heights and hashes it
\* is built from (proposeAgreement, acceptAgreement, ensureLocalFunding).
THEOREM AgreedBeforeFunding == Spec => []AgreementBeforeFunding
  BY Invariance, PTL DEF Inv, AgreementFirst

-----------------------------------------------------------------------------
(* The fundings, the journals and the places of a pass *)

\* The phases before an amount moves, and those that a swap does not leave
\* but for a reorganisation.
Unfunded == {"matched", "terms_proposed", "terms_agreed"}
RefundedPhases == RefundPhases \union {"refunded"}
Settled == TerminalPhases \union RefundPhases

FundingPhase(p) == IF p = "maker" THEN "maker_funding" ELSE "taker_funding"
ClaimingPhase(p) == IF p = "maker" THEN "maker_claiming" ELSE "taker_claiming"

\* The taker's refund is due and it has not sent its notice.
TooLate(p) == p = "taker" /\ epoch >= 2 /\ sent["taker"] < Notice

\* What the contracts hold came from the engines in the order of the protocol.
FundsOK ==
    /\ \A p \in Parties : /\ Out(Fund(p)) <=> funded[p]
                          /\ sent[p] >= Notice => funded[p]
                          /\ funded[p] /\ epoch >= 1 => chain[Fund(p)] = "final"
    /\ funded["taker"] => funded["maker"]
    /\ Out(Claim("maker")) \/ Out(Claim("taker")) => sent["taker"] >= Notice

\* What p's journal may hold.
JournalOK(p, r) ==
    /\ \A q \in Parties : q \in r.notices => funded[q]
    /\ Peer(p) \in r.notices => got[p] >= Notice
    /\ funded[p] => r.phase \notin Unfunded
    /\ r.phase = "expired" => ~funded[p]
    /\ r.phase \in RefundedPhases /\ funded[p] => p \in r.notices /\ RefundDue(p)

\* Where p's pass may be in a phase.
PlaceOK(p, phase, step) ==
    /\ step \in {"fund", "save", "notify"} => phase = FundingPhase(p)
    /\ step \in {"save", "notify"} => funded[p]
    /\ step = "fund" /\ p = "taker" => funded["maker"]
    /\ step = "await" => phase \in {"maker_funding", "taker_funding"}
    /\ step = "claim" => phase = ClaimingPhase(p) /\ sent["taker"] >= Notice
    /\ step = "observe" => phase = "maker_claiming"
    /\ step = "settle" => phase = "taker_claiming"
    /\ TooLate(p) => step \notin ExecutionSteps /\ (step = "phase" => phase \in Settled)

SwapInv ==
    /\ ChainInv
    /\ FundsOK
    /\ \A p \in Parties : JournalOK(p, rec[p]) /\ PlaceOK(p, rec[p].phase, pc[p])

-----------------------------------------------------------------------------
\* A pass that goes on or ends is where it says, and the other's where it was.
LEMMA MoveEffect ==
    ASSUME TypeOK, NEW p \in Parties, NEW step, Goto(p, step) \/ Return(p)
    PROVE  pc' = [pc EXCEPT ![p] = step] \/ pc' = [pc EXCEPT ![p] = "idle"]
  BY DEF Goto, Return

\* Between two steps of a pass any place is allowed but those it acts from.
LEMMA CalmPlace ==
    ASSUME NEW p, NEW phase, NEW step, step \notin ExecutionSteps \union {"phase"}
    PROVE  PlaceOK(p, phase, step)
  BY DEF PlaceOK, ExecutionSteps

\* A journal write, or none, that keeps what a journal may hold.
LEMMA WriteOK ==
    ASSUME Inv, SwapInv, NEW p \in Parties, NEW r \in Records, NEW step,
           rec' = [rec EXCEPT ![p] = r], UNCHANGED <<legVars, engineVars>>,
           pc' = [pc EXCEPT ![p] = step],
           JournalOK(p, r), PlaceOK(p, r.phase, step)
    PROVE  SwapInv'
  <1>1. UNCHANGED <<chain, known, epoch, funded, sent, got>>
    BY DEF legVars, engineVars, mailVars
  <1>2. ChainInv' /\ FundsOK'
    BY <1>1 DEF SwapInv, ChainInv, FundsOK, Mined, Out, RefundDue
  <1>3. \A q, x, s : JournalOK(q, x)' = JournalOK(q, x) /\ PlaceOK(q, x, s)' = PlaceOK(q, x, s)
    BY <1>1 DEF JournalOK, PlaceOK, TooLate, RefundDue
  <1> QED  BY <1>2, <1>3 DEF Inv, TypeOK, SwapInv

\* A step that leaves the journals alone.
LEMMA QuietOK ==
    ASSUME Inv, SwapInv, NEW p \in Parties, NEW step, Quiet,
           pc' = [pc EXCEPT ![p] = step], PlaceOK(p, rec[p].phase, step)
    PROVE  SwapInv'
  <1>1. rec[p] \in Records /\ rec' = [rec EXCEPT ![p] = rec[p]]
    BY DEF Quiet, Inv, TypeOK
  <1>2. JournalOK(p, rec[p]) /\ UNCHANGED <<legVars, engineVars>>
    BY DEF SwapInv, Quiet
  <1> QED  BY <1>1, <1>2, WriteOK

\* A step that ends the pass or takes it elsewhere, and leaves the journals alone.
LEMMA QuietMoveOK ==
    ASSUME Inv, SwapInv, NEW p \in Parties, NEW step, Quiet,
           Goto(p, step) \/ Return(p), PlaceOK(p, rec[p].phase, step)
    PROVE  SwapInv'
  <1>1. PlaceOK(p, rec[p].phase, "idle")
    BY CalmPlace DEF ExecutionSteps
  <1> QED  BY <1>1, MoveEffect, QuietOK DEF Inv

\* A move between phases.
LEMMA PhaseOK ==
    ASSUME Inv, SwapInv, NEW p \in Parties, NEW phase \in LegacySwapPhases,
           AdvanceTo(p, phase) \/ RewindTo(p, phase) \/ RewindAndReturn(p, phase),
           \/ phase \notin Unfunded \union {"expired"} \union RefundedPhases
           \/ {phase, rec[p].phase} \subseteq RefundedPhases
           \/ ~funded[p]
    PROVE  SwapInv'
  <1> DEFINE r == [rec[p] EXCEPT !.phase = phase]
  <1>1. r \in Records /\ r.phase = phase /\ r.notices = rec[p].notices
    BY PhaseTyped DEF Inv, TypeOK, Records
  <1>2. /\ rec' = [rec EXCEPT ![p] = r]
        /\ UNCHANGED <<legVars, engineVars>>
        /\ \/ pc' = [pc EXCEPT ![p] = "refund"]
           \/ pc' = [pc EXCEPT ![p] = "idle"]
    BY DEF AdvanceTo, AdvanceThen, RewindTo, RewindAndReturn, Write, Goto, Inv, TypeOK
  <1>3. PlaceOK(p, phase, "refund") /\ PlaceOK(p, phase, "idle")
    BY CalmPlace DEF ExecutionSteps
  <1>4. JournalOK(p, r)
    <2>1. JournalOK(p, rec[p])
      BY DEF SwapInv
    <2> QED  BY <1>1, <2>1 DEF JournalOK, RefundedPhases, RefundPhases, Unfunded
  <1> HIDE DEF r
  <1> QED  BY <1>1, <1>2, <1>3, <1>4, WriteOK

\* A message: the notice goes out only after the funding.
LEMMA SendOK ==
    ASSUME Inv, SwapInv, NEW p \in Parties, NEW n \in 0..Notice, NEW step,
           Receive(p, n), UNCHANGED <<legVars, rec, funded, got, lapsed>>,
           Goto(p, step), n = Notice => funded[p], PlaceOK(p, rec[p].phase, step)
    PROVE  SwapInv'
  <1>1. UNCHANGED <<chain, known, epoch, funded, got, rec>> /\ pc' = [pc EXCEPT ![p] = step]
    BY DEF legVars, Goto
  <1>2. \A q \in Parties : sent[q] <= sent'[q] /\ (sent'[q] >= Notice => sent[q] >= Notice \/ funded[q])
    BY DEF Inv, TypeOK, Receive, Notice
  <1>3. \A q \in Parties : /\ sent[q] \in Nat /\ sent'[q] \in Nat
                           /\ sent[q] >= Notice => sent'[q] >= Notice
    BY <1>2 DEF Inv, TypeOK, Receive, Notice
  <1>4. ChainInv' /\ FundsOK'
    BY <1>1, <1>2, <1>3 DEF SwapInv, ChainInv, FundsOK, Mined, Out, RefundDue, Parties
  <1>5. \A q, x : JournalOK(q, x)' = JournalOK(q, x)
    BY <1>1 DEF JournalOK, RefundDue
  <1>6. \A q, x, s : PlaceOK(q, x, s) => PlaceOK(q, x, s)'
    BY <1>1, <1>3 DEF PlaceOK, TooLate, Parties, Inv, TypeOK, Notice
  <1>7. \A q \in Parties : PlaceOK(q, rec[q].phase, pc'[q])
    BY <1>1 DEF SwapInv, Inv, TypeOK
  <1> QED  BY <1>1, <1>4, <1>5, <1>6, <1>7 DEF SwapInv

\* Publishing what is out already, a claim after the notice of the taker, or a
\* refund, while the journal stays or gains the peer's notice.
LEMMA PublishOK ==
    ASSUME Inv, SwapInv, NEW p \in Parties, NEW t \in Txs, NEW r \in Records, NEW step,
           Broadcast(p, t), rec' = [rec EXCEPT ![p] = r], UNCHANGED engineVars,
           pc' = [pc EXCEPT ![p] = step],
           \A l \in Parties : t = Fund(l) => Out(t),
           (\E l \in Parties : t = Claim(l)) => sent["taker"] >= Notice,
           JournalOK(p, r), PlaceOK(p, r.phase, step)
    PROVE  SwapInv'
  <1>1. /\ ChainInv'
        /\ \A u \in Txs : chain[u] = "final" => chain'[u] = "final"
        /\ \A u \in Txs : Out(u)' <=> Out(u) \/ u = t
        /\ epoch' = epoch
    BY ChainBroadcast DEF Inv, TypeOK, SwapInv
  <1>2. UNCHANGED <<funded, sent, got>>
    BY DEF engineVars, mailVars
  <1>3. FundsOK'
    <2>1. \A l \in Parties : Out(Fund(l))' <=> Out(Fund(l))
      BY <1>1, FundIsTx
    <2>2. \A l \in Parties : Out(Claim(l))' => Out(Claim(l)) \/ sent["taker"] >= Notice
      BY <1>1, FundIsTx
    <2> QED  BY <1>1, <1>2, <2>1, <2>2, FundIsTx DEF SwapInv, FundsOK, Parties
  <1>4. \A q, x, s : JournalOK(q, x)' = JournalOK(q, x) /\ PlaceOK(q, x, s)' = PlaceOK(q, x, s)
    BY <1>1, <1>2 DEF JournalOK, PlaceOK, TooLate, RefundDue
  <1> QED  BY <1>1, <1>3, <1>4 DEF Inv, TypeOK, SwapInv

-----------------------------------------------------------------------------
(* The steps of the engines *)

\* The messages, and the notice that a message carries.
LEMMA MessagingOK ==
    ASSUME Inv, SwapInv, NEW p \in Parties, Messaging(p)
    PROVE  SwapInv'
  <1>0. /\ rec[p] \in Records /\ JournalOK(p, rec[p])
        /\ \A step, phase : step \in EngineSteps \ (ExecutionSteps \union {"phase"})
                                => PlaceOK(p, phase, step)
        /\ 1 \in 0..Notice /\ 2 \in 0..Notice /\ Hello = 1 /\ Terms = 2 /\ Notice = 3
    BY CalmPlace DEF Inv, TypeOK, SwapInv, Hello, Terms, Notice
  <1>1. \A step \in {"hello", "read", "accept", "proposed", "ack", "agree", "notices",
                      "propose", "send", "refund", "idle"} :
            step \in EngineSteps \ (ExecutionSteps \union {"phase"})
    BY DEF EngineSteps, ExecutionSteps
  <1>2. CASE Begin(p)
    BY <1>0, <1>1, <1>2, QuietOK DEF Begin
  <1>3. CASE SendHello(p)
    BY <1>0, <1>1, <1>3, QuietMoveOK, SendOK DEF SendHello
  <1>4. CASE ReadMessages(p)
    <2> DEFINE acknowledged == p = "maker" /\ got[p] >= Terms /\ rec[p].phase = "terms_proposed"
               r == [rec[p] EXCEPT !.hello = @ \/ got[p] >= Hello,
                                   !.phase = IF acknowledged THEN "terms_agreed" ELSE @]
               step == IF p = "taker" /\ got[p] >= Terms THEN "accept" ELSE "notices"
    <2>1. Write(p, r, step)
      BY <1>4 DEF ReadMessages
    <2>2. /\ r \in Records /\ r.notices = rec[p].notices
          /\ r.phase = rec[p].phase \/ (rec[p].phase = "terms_proposed" /\ r.phase = "terms_agreed")
      BY <1>0, PhasesReached DEF Records, LegacySwapPhases
    <2>3. JournalOK(p, r)
      BY <1>0, <2>2 DEF JournalOK, Unfunded, RefundedPhases, RefundPhases
    <2>4. PlaceOK(p, r.phase, step)
      BY <1>0, <1>1
    <2> HIDE DEF r, step
    <2> QED  BY <2>1, <2>2, <2>3, <2>4, WriteOK DEF Write, Goto
  <1>5. CASE MarkProposed(p)
    <2> DEFINE r == [rec[p] EXCEPT !.phase = "terms_proposed"]
               step == IF p = "maker" THEN "send" ELSE "ack"
    <2>1. Write(p, r, step) /\ ValidAdvance(rec[p].phase, "terms_proposed")
      BY <1>5 DEF MarkProposed, AdvanceThen
    <2>2. /\ r \in Records /\ r.notices = rec[p].notices
          /\ rec[p].phase = "matched" /\ r.phase = "terms_proposed"
      BY <1>0, <2>1, PhasesReached DEF Records, LegacySwapPhases, ValidAdvance, Advances
    <2>3. JournalOK(p, r)
      BY <1>0, <2>2 DEF JournalOK, Unfunded, RefundedPhases, RefundPhases
    <2>4. PlaceOK(p, r.phase, step)
      BY <1>0, <1>1
    <2> HIDE DEF r, step
    <2> QED  BY <2>1, <2>2, <2>3, <2>4, WriteOK DEF Write, Goto
  <1>6. CASE ReadNotice(p)
    <2> DEFINE noticed == got[p] >= Notice
               r == IF noticed THEN [rec[p] EXCEPT !.notices = @ \cup {Peer(p)}] ELSE rec[p]
               step == IF p = "maker" /\ rec[p].phase = "matched" /\ rec[p].hello
                       THEN "propose" ELSE "refund"
    <2>1. /\ rec' = [rec EXCEPT ![p] = r]
          /\ UNCHANGED engineVars
          /\ pc' = [pc EXCEPT ![p] = step]
          /\ UNCHANGED legVars \/ (noticed /\ Broadcast(p, Fund(Peer(p))))
      BY <1>0, <1>6 DEF ReadNotice, Goto, Inv, TypeOK
    <2>2. noticed => funded[Peer(p)] /\ Out(Fund(Peer(p)))
      BY PeerIsParty DEF Inv, InOrder, SwapInv, FundsOK, TypeOK, Notice
    <2>3. r \in Records /\ r.phase = rec[p].phase /\ r.notices \subseteq rec[p].notices \union {Peer(p)}
          /\ rec[p].notices \subseteq r.notices
          /\ (~noticed => r = rec[p])
      BY <1>0, PeerIsParty DEF Records
    <2>4. JournalOK(p, r)
      BY <1>0, <2>2, <2>3 DEF JournalOK
    <2>5. PlaceOK(p, r.phase, step)
      BY <1>0, <1>1
    <2>6. CASE UNCHANGED legVars
      BY <2>1, <2>3, <2>4, <2>5, <2>6, WriteOK
    <2>7. CASE noticed /\ Broadcast(p, Fund(Peer(p)))
      <3>1. /\ Fund(Peer(p)) \in Txs
            /\ \A l \in Parties : Fund(Peer(p)) = Fund(l) => Out(Fund(Peer(p)))
            /\ ~ \E l \in Parties : Fund(Peer(p)) = Claim(l)
        BY <2>2, <2>7, PeerIsParty, TxNames, FundIsTx
      <3> HIDE DEF r, step, noticed
      <3> QED  BY <2>1, <2>3, <2>4, <2>5, <2>7, <3>1, PublishOK
    <2> QED  BY <2>1, <2>6, <2>7
  <1>7. CASE p = "taker" /\ AcceptAgreement
    <2> DEFINE r == [rec[p] EXCEPT !.agreement = TRUE]
    <2>1. \/ Quiet /\ Goto(p, "ack")
          \/ Write(p, r, "proposed")
      BY <1>7 DEF AcceptAgreement
    <2>2. r \in Records /\ r.notices = rec[p].notices /\ r.phase = rec[p].phase
      BY <1>0 DEF Records
    <2>3. JournalOK(p, r)
      BY <1>0, <2>2 DEF JournalOK
    <2> HIDE DEF r
    <2> QED  BY <1>0, <1>1, <2>1, <2>2, <2>3, WriteOK, QuietMoveOK DEF Write, Goto
  <1>8. CASE p = "taker" /\ Acknowledge
    BY <1>0, <1>1, <1>8, SendOK DEF Acknowledge
  <1>9. CASE p = "taker" /\ Agree
    <2> DEFINE r == [rec[p] EXCEPT !.phase = "terms_agreed"]
    <2>1. \/ Quiet /\ Goto(p, "notices")
          \/ Write(p, r, "notices") /\ rec[p].phase = "terms_proposed"
      BY <1>9 DEF Agree, AdvanceThen
    <2>2. /\ r \in Records /\ r.notices = rec[p].notices /\ r.phase = "terms_agreed"
      BY <1>0, PhasesReached DEF Records, LegacySwapPhases
    <2>3. rec[p].phase = "terms_proposed" => JournalOK(p, r)
      BY <1>0, <2>2 DEF JournalOK, Unfunded, RefundedPhases, RefundPhases
    <2> HIDE DEF r
    <2> QED  BY <1>0, <1>1, <2>1, <2>2, <2>3, WriteOK, QuietMoveOK DEF Write, Goto
  <1>10. CASE p = "maker" /\ StoreProposal
    <2> DEFINE r == [rec[p] EXCEPT !.agreement = TRUE]
    <2>1. Write(p, r, "proposed")
      BY <1>10 DEF StoreProposal
    <2>2. r \in Records /\ r.notices = rec[p].notices /\ r.phase = rec[p].phase
      BY <1>0 DEF Records
    <2>3. JournalOK(p, r)
      BY <1>0, <2>2 DEF JournalOK
    <2> HIDE DEF r
    <2> QED  BY <1>0, <1>1, <2>1, <2>2, <2>3, WriteOK DEF Write, Goto
  <1>11. CASE p = "maker" /\ SendAgreement
    BY <1>0, <1>1, <1>11, SendOK DEF SendAgreement
  <1> QED  BY <1>2, <1>3, <1>4, <1>5, <1>6, <1>7, <1>8, <1>9, <1>10, <1>11, Zenon DEF Messaging

\* Where a pass meets a phase in which the swap still moves.
LEMMA Moving ==
    ASSUME SwapInv, NEW p \in Parties, pc[p] = "phase", rec[p].phase \notin Settled
    PROVE  ~TooLate(p)
  BY DEF SwapInv, PlaceOK

\* What the refund check finds and restores.
LEMMA RefundCheckOK ==
    ASSUME Inv, SwapInv, NEW p \in Parties, RefundCheck(p)
    PROVE  SwapInv'
  <1>0. /\ rec[p] \in Records /\ JournalOK(p, rec[p])
        /\ \A step, phase : step \in {"refund", "idle"} => PlaceOK(p, phase, step)
        /\ LegacySwapPhases = Phases \ AsyncPhases
    BY CalmPlace DEF Inv, TypeOK, SwapInv, ExecutionSteps, LegacySwapPhases
  <1>1. OwnFunding(p) => funded[p]
    BY <1>0 DEF JournalOK, OwnFunding
  <1>2. CASE NothingAgreed(p)
    BY <1>0, <1>2, QuietMoveOK DEF NothingAgreed
  <1>3. CASE NoRefundCheck(p)
    <2>1. PlaceOK(p, rec[p].phase, "phase")
      BY <1>3 DEF NoRefundCheck, PlaceOK, ExecutionSteps, Settled
    <2> QED  BY <1>3, <2>1, QuietMoveOK DEF NoRefundCheck
  <1>4. ASSUME MayRefund(p), OwnFunding(p), NEW r \in Records,
               r.notices = rec[p].notices \union {p}, r.phase = rec[p].phase
        PROVE  JournalOK(p, r)
    BY <1>0, <1>1, <1>4 DEF JournalOK, MayRefund, RefundedPhases, TerminalPhases, Peer, Parties
  <1>5. Recovered(p).notices = rec[p].notices \union {p} /\ Recovered(p).phase = rec[p].phase
    BY <1>0 DEF Recovered, Records
  <1>6. CASE ClaimBeforeRefund(p)
    <2> DEFINE r == [Recovered(p) EXCEPT !.revealed = TRUE]
    <2>1. r \in Records /\ r.notices = rec[p].notices \union {p} /\ r.phase = rec[p].phase
      <3>1. Recovered(p) \in Records /\ r \in Records
        BY RecoveredTyped
      <3> QED  BY <1>5, <3>1 DEF Records
    <2>2. JournalOK(p, r)
      BY <1>4, <1>6, <2>1 DEF ClaimBeforeRefund
    <2>3. Out(Claim(p))
      BY <1>6 DEF ClaimBeforeRefund, Seen, Mined, Out, SwapInv, ChainInv
    <2>4. PlaceOK(p, r.phase, "phase")
      BY <2>3 DEF SwapInv, FundsOK, PlaceOK, ExecutionSteps, TooLate, Notice, Inv, TypeOK
    <2>5. Write(p, r, "phase")
      BY <1>6 DEF ClaimBeforeRefund
    <2> HIDE DEF r
    <2> QED  BY <2>1, <2>2, <2>4, <2>5, WriteOK DEF Write, Goto
  <1>7. CASE NotDue(p)
    <2>1. Recovered(p) \in Records /\ JournalOK(p, Recovered(p))
      BY <1>4, <1>5, <1>7, RecoveredTyped DEF NotDue
    <2>2. PlaceOK(p, Recovered(p).phase, "phase")
      BY <1>7, LegacyAssumption
         DEF NotDue, PlaceOK, ExecutionSteps, TooLate, RefundDue, RefundEpoch, Parties
    <2>3. Write(p, Recovered(p), "phase")
      BY <1>7 DEF NotDue
    <2> QED  BY <2>1, <2>2, <2>3, WriteOK DEF Write, Goto
  <1>8. CASE StartRefund(p)
    <2> DEFINE r == [Recovered(p) EXCEPT !.phase = "waiting_for_refund"]
    <2>1. r \in Records /\ r.notices = rec[p].notices \union {p} /\ r.phase = "waiting_for_refund"
      <3>1. Recovered(p) \in Records /\ r \in Records
        BY RecoveredTyped
      <3> QED  BY <1>5, <3>1 DEF Records
    <2>2. JournalOK(p, r)
      BY <1>0, <1>1, <1>8, <2>1 DEF StartRefund, JournalOK, Unfunded, Peer, Parties
    <2>3. PlaceOK(p, r.phase, "refund") /\ Write(p, r, "refund")
      BY <1>0, <1>8 DEF StartRefund
    <2> HIDE DEF r
    <2> QED  BY <2>1, <2>2, <2>3, WriteOK DEF Write, Goto
  <1>9. CASE Expire(p)
    <2>1. ~funded[p] /\ AdvanceTo(p, "expired")
      BY <1>9 DEF Expire, OwnFunding
    <2> QED  BY <2>1, PhaseOK, PhasesReached
  <1>10. CASE UnfundedInWindow(p)
    <2>1. ~funded[p] /\ epoch = 0
      BY <1>10 DEF UnfundedInWindow, OwnFunding, FundingWindowOpen
    <2>2. PlaceOK(p, rec[p].phase, "phase")
      BY <2>1 DEF PlaceOK, ExecutionSteps, TooLate
    <2>3. CASE AdvanceTo(p, "waiting_for_refund")
      BY <2>1, <2>3, PhaseOK, PhasesReached
    <2>4. CASE Quiet /\ Goto(p, "phase")
      BY <2>2, <2>4, QuietMoveOK
    <2> QED  BY <1>10, <2>3, <2>4 DEF UnfundedInWindow
  <1> QED  BY <1>2, <1>3, <1>6, <1>7, <1>8, <1>9, <1>10 DEF RefundCheck

\* The phases in which a swap still moves.
WorkingPhases ==
    {"maker_funding", "maker_funded", "taker_funding", "taker_funded",
     "maker_claiming", "maker_claimed", "taker_claiming"}

\* They are no phases of a refund, and a swap that funded may have them.
LEMMA Working ==
    /\ WorkingPhases \subseteq LegacySwapPhases
    /\ \A phase \in WorkingPhases :
          phase \notin Unfunded \union {"expired"} \union RefundedPhases \union Settled
  BY PhasesReached
     DEF WorkingPhases, Unfunded, RefundedPhases, RefundPhases, Settled, TerminalPhases

\* A wait, and a move to a phase in which the swap still moves.
LEMMA CalmOK ==
    ASSUME Inv, SwapInv, NEW p \in Parties,
           \/ Quiet /\ Return(p)
           \/ \E phase \in WorkingPhases \union {"complete"} :
                 AdvanceTo(p, phase) \/ RewindTo(p, phase) \/ RewindAndReturn(p, phase)
    PROVE  SwapInv'
  <1>1. CASE Quiet /\ Return(p)
    <2>1. PlaceOK(p, rec[p].phase, "idle")
      BY CalmPlace DEF ExecutionSteps
    <2> QED  BY <1>1, <2>1, QuietMoveOK
  <1>2. ASSUME NEW phase \in WorkingPhases \union {"complete"},
               AdvanceTo(p, phase) \/ RewindTo(p, phase) \/ RewindAndReturn(p, phase)
        PROVE  SwapInv'
    <2>1. phase \in LegacySwapPhases /\ phase \notin Unfunded \union {"expired"} \union RefundedPhases
      BY Working, PhasesReached DEF Unfunded, RefundedPhases, RefundPhases
    <2> QED  BY <1>2, <2>1, PhaseOK
  <1> QED  BY <1>1, <1>2

\* The funding phases.
LEMMA FundingOK ==
    ASSUME Inv, SwapInv, NEW p \in Parties, Funding(p)
    PROVE  SwapInv'
  <1>0. rec[p] \in Records /\ JournalOK(p, rec[p]) /\ PlaceOK(p, rec[p].phase, pc[p])
    BY DEF Inv, TypeOK, SwapInv
  <1>1. CASE TermsAgreed(p)
    BY <1>1, CalmOK DEF TermsAgreed, WorkingPhases
  <1>2. CASE MakerFunding(p)
    <2>1. /\ pc[p] = "phase" /\ rec[p].phase = "maker_funding"
          /\ Quiet /\ Goto(p, FundingStep(p, "maker"))
      BY <1>2 DEF MakerFunding, InPhase
    <2>2. ~TooLate(p)
      BY <2>1, Moving, Working DEF WorkingPhases
    <2>3. PlaceOK(p, rec[p].phase, FundingStep(p, "maker"))
      BY <1>0, <2>1, <2>2 DEF PlaceOK, FundingStep, FundingPhase, JournalOK, Parties
    <2> QED  BY <2>1, <2>3, QuietMoveOK
  <1>3. CASE FundOwnLeg(p)
    <2>1. CASE Quiet /\ Return(p)
      BY <2>1, CalmOK
    <2>2. CASE epoch = 0 /\ Broadcast(p, Fund(p)) /\ funded' = [funded EXCEPT ![p] = TRUE]
               /\ UNCHANGED <<rec, mailVars>> /\ Goto(p, "save")
      <3>1. Fund(p) \in Txs
        BY FundIsTx
      <3>2. /\ ChainInv'
            /\ \A u \in Txs : Out(u)' <=> Out(u) \/ u = Fund(p)
            /\ epoch' = 0
        BY <2>2, <3>1, ChainBroadcast DEF Inv, TypeOK, SwapInv
      <3>3. /\ UNCHANGED <<rec, sent, got>> /\ pc' = [pc EXCEPT ![p] = "save"]
            /\ funded'[p] /\ \A q \in Parties : q # p => funded'[q] = funded[q]
            /\ rec[p].phase = FundingPhase(p) /\ (p = "taker" => funded["maker"])
        BY <1>0, <1>3, <2>2 DEF mailVars, Goto, FundOwnLeg, At, PlaceOK, Inv, TypeOK
      <3>4. FundsOK'
        <4>1. \A q \in Parties : Out(Fund(q))' <=> funded'[q]
          BY <3>2, <3>3, FundIsTx, TxNames DEF SwapInv, FundsOK
        <4>2. \A q \in Parties : (funded[q] => funded'[q]) /\ (Out(Claim(q))' <=> Out(Claim(q)))
          BY <3>2, <3>3, FundIsTx, TxNames
        <4> QED  BY <3>2, <3>3, <4>1, <4>2 DEF SwapInv, FundsOK, Parties
      <3>5. \A q \in Parties : JournalOK(q, rec[q])'
        <4>1. JournalOK(p, rec[p])'
          BY <1>0, <3>2, <3>3
             DEF JournalOK, FundingPhase, Unfunded, RefundedPhases, RefundPhases
        <4>2. ASSUME NEW q \in Parties, q # p PROVE JournalOK(q, rec[q])'
          BY <2>2, <3>2, <3>3, <4>2 DEF JournalOK, SwapInv, RefundDue
        <4> QED  BY <4>1, <4>2
      <3>6. \A q \in Parties : PlaceOK(q, rec[q].phase, pc[q])'
        <4>1. ASSUME NEW q \in Parties PROVE ~TooLate(q)'
          BY <3>2 DEF TooLate
        <4>2. PlaceOK(p, rec[p].phase, pc[p])'
          BY <3>3, <4>1 DEF PlaceOK, Inv, TypeOK, FundingPhase
        <4>3. ASSUME NEW q \in Parties, q # p PROVE PlaceOK(q, rec[q].phase, pc[q])'
          BY <3>3, <4>1, <4>3 DEF PlaceOK, SwapInv, Inv, TypeOK, FundingPhase, ClaimingPhase, Parties
        <4> QED  BY <4>2, <4>3
      <3> QED  BY <3>2, <3>4, <3>5, <3>6 DEF SwapInv
    <2> QED  BY <1>3, <2>1, <2>2 DEF FundOwnLeg, FundingWindowOpen
  <1>4. CASE SaveNotice(p)
    <2> DEFINE r == [rec[p] EXCEPT !.notices = @ \cup {p}]
    <2>1. r \in Records /\ r.phase = rec[p].phase /\ r.notices = rec[p].notices \union {p}
      BY <1>0 DEF Records
    <2>2. /\ Write(p, r, "notify") /\ rec[p].phase = FundingPhase(p) /\ funded[p] /\ ~TooLate(p)
      BY <1>0, <1>4 DEF SaveNotice, At, PlaceOK, ExecutionSteps
    <2>3. JournalOK(p, r) /\ PlaceOK(p, r.phase, "notify")
      BY <1>0, <2>1, <2>2
         DEF JournalOK, PlaceOK, FundingPhase, RefundedPhases, RefundPhases, Peer, Parties
    <2> HIDE DEF r
    <2> QED  BY <2>1, <2>2, <2>3, WriteOK DEF Write, Goto
  <1>5. CASE SendNotice(p)
    <2>1. rec[p].phase = FundingPhase(p) /\ funded[p] /\ ~TooLate(p)
      BY <1>0, <1>5 DEF SendNotice, At, PlaceOK, ExecutionSteps
    <2>2. PlaceOK(p, rec[p].phase, "await")
      BY <2>1 DEF PlaceOK, FundingPhase
    <2> QED  BY <1>5, <2>1, <2>2, SendOK DEF SendNotice, Notice
  <1>6. CASE AwaitFunding(p)
    BY <1>6, CalmOK DEF AwaitFunding, WorkingPhases
  <1>7. CASE MakerFunded(p)
    BY <1>7, CalmOK DEF MakerFunded, WorkingPhases
  <1>8. CASE TakerFunding(p)
    <2>1. CASE RewindTo(p, "maker_funding")
      BY <2>1, CalmOK DEF WorkingPhases
    <2>2. CASE FundingConfirmed(p, "maker") /\ Quiet /\ Goto(p, FundingStep(p, "taker"))
      <3>1. pc[p] = "phase" /\ rec[p].phase = "taker_funding"
        BY <1>8 DEF TakerFunding, InPhase
      <3>2. ~TooLate(p)
        BY <3>1, Moving, Working DEF WorkingPhases
      <3>3. funded["maker"]
        BY <1>0, <2>2 DEF FundingConfirmed, JournalOK, Parties
      <3>4. PlaceOK(p, rec[p].phase, FundingStep(p, "taker"))
        BY <1>0, <3>1, <3>2, <3>3 DEF PlaceOK, FundingStep, FundingPhase, JournalOK, Parties
      <3> QED  BY <2>2, <3>4, QuietMoveOK
    <2> QED  BY <1>8, <2>1, <2>2 DEF TakerFunding
  <1>9. CASE TakerFunded(p)
    BY <1>9, CalmOK DEF TakerFunded, WorkingPhases
  <1> QED  BY <1>1, <1>2, <1>3, <1>4, <1>5, <1>6, <1>7, <1>8, <1>9 DEF Funding

\* The claiming phases.
LEMMA ClaimingOK ==
    ASSUME Inv, SwapInv, NEW p \in Parties, Claiming(p)
    PROVE  SwapInv'
  <1>0. rec[p] \in Records /\ JournalOK(p, rec[p]) /\ PlaceOK(p, rec[p].phase, pc[p])
    BY DEF Inv, TypeOK, SwapInv
  <1>1. CASE MakerClaiming(p)
    <2>1. CASE \E phase \in WorkingPhases : RewindTo(p, phase)
      BY <2>1, CalmOK
    <2>2. CASE FundingConfirmed(p, "taker") /\ Quiet
               /\ Goto(p, IF p = "maker" THEN "claim" ELSE "observe")
      <3>1. pc[p] = "phase" /\ rec[p].phase = "maker_claiming"
        BY <1>1 DEF MakerClaiming, InPhase
      <3>2. ~TooLate(p)
        BY <3>1, Moving, Working DEF WorkingPhases
      <3>3. p = "maker" => sent["taker"] >= Notice
        BY <1>0, <2>2 DEF FundingConfirmed, JournalOK, Peer, Inv, TypeOK, InOrder, Parties, Notice
      <3>4. PlaceOK(p, rec[p].phase, IF p = "maker" THEN "claim" ELSE "observe")
        BY <3>1, <3>2, <3>3 DEF PlaceOK, ClaimingPhase
      <3> QED  BY <2>2, <3>4, QuietMoveOK
    <2> QED  BY <1>1, <2>1, <2>2 DEF MakerClaiming, WorkingPhases
  <1>2. CASE ClaimPeerLeg(p)
    <2>1. CASE Quiet /\ Return(p)
      BY <2>1, CalmOK
    <2>2. CASE Broadcast(p, Claim(Peer(p))) /\ UNCHANGED <<rec, engineVars>>
               /\ Goto(p, IF p = "maker" THEN "observe" ELSE "settle")
      <3> DEFINE step == IF p = "maker" THEN "observe" ELSE "settle"
      <3>1. sent["taker"] >= Notice /\ rec[p].phase = ClaimingPhase(p) /\ ~TooLate(p)
        BY <1>0, <1>2 DEF ClaimPeerLeg, At, PlaceOK, ExecutionSteps
      <3>2. PlaceOK(p, rec[p].phase, step)
        BY <3>1 DEF PlaceOK, ClaimingPhase
      <3>3. /\ Claim(Peer(p)) \in Txs /\ \A l \in Parties : Claim(Peer(p)) # Fund(l)
            /\ rec' = [rec EXCEPT ![p] = rec[p]] /\ UNCHANGED engineVars
            /\ pc' = [pc EXCEPT ![p] = step]
        BY <2>2, PeerIsParty, FundIsTx, TxNames DEF Goto, Inv, TypeOK
      <3> HIDE DEF step
      <3> QED  BY <1>0, <2>2, <3>1, <3>2, <3>3, PublishOK
    <2> QED  BY <1>2, <2>1, <2>2 DEF ClaimPeerLeg
  <1>3. CASE ObserveMakerClaim(p)
    <2> DEFINE r == [rec[p] EXCEPT !.revealed = TRUE, !.phase = "maker_claimed"]
    <2>1. r \in Records /\ r.phase = "maker_claimed" /\ r.notices = rec[p].notices
      BY <1>0, Working DEF Records, WorkingPhases, LegacySwapPhases
    <2>2. JournalOK(p, r) /\ PlaceOK(p, r.phase, "refund")
      BY <1>0, <2>1, CalmPlace
         DEF JournalOK, ExecutionSteps, Unfunded, RefundedPhases, RefundPhases
    <2>3. \/ Write(p, r, "refund")
          \/ Quiet /\ Return(p)
      BY <1>3 DEF ObserveMakerClaim
    <2> HIDE DEF r
    <2> QED  BY <2>1, <2>2, <2>3, WriteOK, CalmOK DEF Write, Goto
  <1>4. CASE MakerClaimed(p)
    BY <1>4, CalmOK DEF MakerClaimed, WorkingPhases
  <1>5. CASE TakerClaiming(p)
    <2>1. CASE RewindTo(p, "maker_claiming")
      BY <2>1, CalmOK DEF WorkingPhases
    <2>2. CASE ClaimSeen(p, "taker") /\ Quiet
               /\ Goto(p, IF p = "taker" THEN "claim" ELSE "settle")
      <3>1. pc[p] = "phase" /\ rec[p].phase = "taker_claiming"
        BY <1>5 DEF TakerClaiming, InPhase
      <3>2. ~TooLate(p)
        BY <3>1, Moving, Working DEF WorkingPhases
      <3>3. Out(Claim("taker"))
        BY <2>2 DEF ClaimSeen, Seen, Mined, Out, SwapInv, ChainInv
      <3>4. PlaceOK(p, rec[p].phase, IF p = "taker" THEN "claim" ELSE "settle")
        BY <3>1, <3>2, <3>3 DEF PlaceOK, ClaimingPhase, SwapInv, FundsOK
      <3> QED  BY <2>2, <3>4, QuietMoveOK
    <2> QED  BY <1>5, <2>1, <2>2 DEF TakerClaiming
  <1>6. CASE Settle(p)
    BY <1>6, CalmOK DEF Settle
  <1> QED  BY <1>1, <1>2, <1>3, <1>4, <1>5, <1>6 DEF Claiming

\* The phases that end a swap.
LEMMA EndingOK ==
    ASSUME Inv, SwapInv, NEW p \in Parties, Ending(p)
    PROVE  SwapInv'
  <1>0. rec[p] \in Records /\ JournalOK(p, rec[p])
    BY DEF Inv, TypeOK, SwapInv
  <1>1. CASE Complete(p)
    BY <1>1, CalmOK DEF Complete, WorkingPhases
  <1>2. CASE WaitingForRefund(p)
    BY <1>2, PhaseOK, PhasesReached DEF WaitingForRefund, InPhase, RefundedPhases, RefundPhases
  <1>3. CASE Refunding(p)
    <2> DEFINE t == Refund(RefundedLeg(p))
    <2>1. CASE AdvanceTo(p, "refunded")
      BY <1>3, <2>1, PhaseOK, PhasesReached DEF Refunding, InPhase, RefundedPhases, RefundPhases
    <2>2. CASE Broadcast(p, t) /\ UNCHANGED <<rec, engineVars>> /\ Return(p)
      <3>1. /\ t \in Txs /\ \A l \in Parties : t # Fund(l) /\ t # Claim(l)
        BY PeerIsParty, FundIsTx, TxNames DEF RefundedLeg
      <3>2. /\ rec' = [rec EXCEPT ![p] = rec[p]] /\ UNCHANGED engineVars
            /\ pc' = [pc EXCEPT ![p] = "idle"]
            /\ PlaceOK(p, rec[p].phase, "idle")
        BY <2>2, CalmPlace DEF Return, Inv, TypeOK, ExecutionSteps
      <3> HIDE DEF t
      <3> QED  BY <1>0, <2>2, <3>1, <3>2, PublishOK
    <2>3. CASE Quiet /\ Return(p)
      BY <2>3, CalmOK
    <2> QED  BY <1>3, <2>1, <2>2, <2>3 DEF Refunding
  <1>4. CASE Refunded(p)
    <2>1. CASE RewindAndReturn(p, "refunding")
      BY <1>4, <2>1, PhaseOK, PhasesReached DEF Refunded, InPhase, RefundedPhases, RefundPhases
    <2> QED  BY <1>4, <2>1, CalmOK DEF Refunded
  <1>5. CASE Expired(p)
    BY <1>5, CalmOK DEF Expired
  <1> QED  BY <1>1, <1>2, <1>3, <1>4, <1>5 DEF Ending

-----------------------------------------------------------------------------
(* The steps outside the engines *)

\* A pass that ends, and messages that arrive, are no harm; the fundings stay
\* on the chains and no claim appears.
LEMMA OutsideOK ==
    ASSUME Inv, SwapInv, Inv', ChainInv', UNCHANGED <<rec, funded, sent>>,
           \A p \in Parties : pc'[p] \in {pc[p], "idle"},
           \A p \in Parties : got[p] <= got'[p],
           \/ epoch' = epoch
           \/ /\ epoch' >= epoch
              /\ \A p \in Parties : funded[p] => chain'[Fund(p)] = "final"
              /\ \A p \in Parties : pc[p] = "idle",
           \A p \in Parties : Out(Fund(p))' <=> Out(Fund(p)),
           \A p \in Parties : Out(Claim(p))' => Out(Claim(p)),
           \A p \in Parties : chain[Fund(p)] = "final" => chain'[Fund(p)] = "final"
    PROVE  SwapInv'
  <1>0. /\ epoch \in 0..3 /\ epoch' \in 0..3 /\ epoch' >= epoch
        /\ \A p \in Parties : got[p] \in Nat /\ got'[p] \in Nat
    BY DEF Inv, TypeOK, LegsTypeOK, LastEpoch, Notice
  <1>1. FundsOK'
    BY <1>0 DEF SwapInv, FundsOK, Parties
  <1>2. \A p \in Parties : RefundDue(p) => RefundDue(p)'
    BY <1>0 DEF RefundDue, RefundEpoch
  <1>3. \A p \in Parties : JournalOK(p, rec[p])'
    BY <1>0, <1>2 DEF SwapInv, JournalOK, Notice
  <1>4. ASSUME NEW p \in Parties PROVE PlaceOK(p, rec[p].phase, pc[p])'
    <2>1. CASE pc'[p] = "idle"
      BY <2>1 DEF PlaceOK, ExecutionSteps
    <2>2. CASE pc'[p] = pc[p] /\ epoch' = epoch
      BY <2>2 DEF PlaceOK, SwapInv, TooLate
    <2> QED  BY <2>1, <2>2
  <1> QED  BY <1>1, <1>3, <1>4 DEF SwapInv

\* No block, rumour, reorganisation or eviction of a spend undoes a funding.
LEMMA FundsStay ==
    ASSUME LegsTypeOK, NEW t \in Txs, NEW p \in Parties,
           Confirm(t) \/ Gossip(p, t) \/ Reorg(t) \/ (t[2] # "fund" /\ Evict(t)),
           NEW l \in Parties, Out(Fund(l))
    PROVE  Out(Fund(l))'
  <1>0. Fund(l) \in Txs /\ Fund(l)[2] = "fund" /\ Fund(l)[1] = l
    BY FundIsTx, TxNames
  <1>1. CASE Confirm(t)
    <2> DEFINE dead == IF t[2] = "fund" THEN {} ELSE {Rival(t)}
    <2>1. /\ chain' = [u \in Txs |-> CASE u = t -> "conf"
                                       [] u \in dead -> "none"
                                       [] OTHER -> chain[u]]
      BY <1>1, Zenon DEF Confirm
    <2>2. Fund(l) \notin dead
      BY <1>0, TxNames DEF Rival
    <2> HIDE DEF dead
    <2> QED  BY <1>0, <2>1, <2>2 DEF Out
  <1>2. CASE Gossip(p, t)
    BY <1>2 DEF Gossip, Out
  <1>3. CASE Reorg(t)
    <2> DEFINE lost == {t} \cup IF t[2] = "fund"
                                THEN {u \in {Claim(t[1]), Refund(t[1])} : chain[u] = "conf"}
                                ELSE {}
    <2>1. chain' = [u \in Txs |-> IF u \in lost THEN "pool" ELSE chain[u]]
      BY <1>3, Zenon DEF Reorg
    <2> HIDE DEF lost
    <2> QED  BY <1>0, <2>1 DEF Out
  <1>4. CASE t[2] # "fund" /\ Evict(t)
    BY <1>0, <1>4 DEF Evict, Out
  <1> QED  BY <1>1, <1>2, <1>3, <1>4

\* Blocks, gossip, reorganisations and evictions.
LEMMA NetworkOK ==
    ASSUME Inv, SwapInv, Network \/ Disturbance
    PROVE  SwapInv'
  <1>1. PICK t \in Txs, p \in Parties :
            Confirm(t) \/ Gossip(p, t) \/ Reorg(t) \/ (t[2] # "fund" /\ Evict(t))
    BY DEF Network, Disturbance, Parties
  <1>2. ChainInv' /\ NetworkStep
    BY <1>1, ChainConfirm, ChainReorg, ChainEvict, ChainGossip DEF Inv, TypeOK, SwapInv
  <1>3. \A l \in Parties : Out(Fund(l)) => Out(Fund(l))'
    BY <1>1, FundsStay DEF Inv, TypeOK
  <1>4. UNCHANGED <<rec, funded, sent, got, pc>>
    BY DEF Network, Disturbance, engineVars, mailVars
  <1>5. Inv'
    BY NetworkInv
  <1>6. \A l \in Parties : got[l] <= got'[l]
    BY <1>4 DEF Inv, TypeOK, Notice
  <1> QED  BY <1>2, <1>3, <1>4, <1>5, <1>6, FundIsTx, OutsideOK DEF NetworkStep

\* What was mined is buried, and nothing else changes on the chains.
LEMMA Buried ==
    ASSUME Inv, SwapInv, Tick \/ Lapse
    PROVE  /\ ChainInv'
           /\ \A u \in Txs : (chain'[u] = "final") <=> Mined(u)
           /\ \A u \in Txs : Mined(u)' <=> Mined(u)
           /\ \A u \in Txs : Out(u)' <=> Out(u)
           /\ UNCHANGED known
  <1>1. /\ chain' = [t \in Txs |-> IF chain[t] = "conf" THEN "final" ELSE chain[t]]
        /\ known' = known
        /\ epoch \in 0..3 /\ epoch' \in 0..3 /\ epoch' >= epoch
    BY DEF Tick, NextEpoch, Lapse, Inv, TypeOK, LegsTypeOK, LastEpoch
  <1>2. \A u \in Txs : /\ (chain'[u] = "final") <=> Mined(u)
                       /\ Mined(u)' <=> Mined(u)
                       /\ Out(u)' <=> Out(u)
                       /\ (chain'[u] = "pool") <=> (chain[u] = "pool")
    BY <1>1 DEF Mined, Out
  <1>3. ChainInv'
    <2>1. \A l \in Parties : \A t \in Spends(l) :
             /\ Mined(t)' => Mined(Fund(l))' /\ ~Out(Rival(t))'
             /\ chain'[t] = "final" => chain'[Fund(l)] = "final"
      BY <1>2, SpendNames DEF SwapInv, ChainInv
    <2>2. \A p \in Parties : \A t \in known'[p] : chain'[t] = "pool"
      BY <1>1, <1>2 DEF SwapInv, ChainInv, Inv, TypeOK, LegsTypeOK
    <2>3. \A l \in Parties : Out(Refund(l))' => RefundDue(l)'
      <3>1. \A l \in Parties : RefundDue(l) => RefundDue(l)'
        BY <1>1 DEF RefundDue, RefundEpoch
      <3> QED  BY <1>2, <3>1, FundIsTx DEF SwapInv, ChainInv
    <2> QED  BY <2>1, <2>2, <2>3 DEF ChainInv
  <1> QED  BY <1>1, <1>2, <1>3

\* The clock, and the end of a message's life.
LEMMA TimeOK ==
    ASSUME Inv, SwapInv, Tick \/ Lapse
    PROVE  SwapInv'
  <1>1. /\ ChainInv'
        /\ \A u \in Txs : (chain'[u] = "final") <=> Mined(u)
        /\ \A u \in Txs : Out(u)' <=> Out(u)
    BY Buried
  <1>2. /\ UNCHANGED <<rec, funded, sent, got, pc>>
        /\ epoch' >= epoch
        /\ PoolsDrained /\ \A p \in Parties : pc[p] = "idle"
    BY DEF Tick, Lapse, NextEpoch, engineVars, mailVars, Quiescent, At, Inv, TypeOK,
           LegsTypeOK, LastEpoch
  <1>3. \A p \in Parties : funded[p] => chain'[Fund(p)] = "final"
    BY <1>1, <1>2, FundIsTx, TxNames
       DEF PoolsDrained, SwapInv, FundsOK, Out, Mined, Inv, TypeOK, LegsTypeOK
  <1>4. \A p \in Parties : got[p] <= got'[p] /\ (chain[Fund(p)] = "final" => chain'[Fund(p)] = "final")
    BY <1>1, <1>2, FundIsTx DEF Inv, TypeOK, Notice, Mined
  <1>5. Inv'
    BY TimeInv
  <1> QED  BY <1>1, <1>2, <1>3, <1>4, <1>5, FundIsTx, OutsideOK

\* Crashes, failed calls and deliveries.
LEMMA AroundOK ==
    ASSUME Inv, SwapInv, NEW p \in Parties, Abort(p) \/ Deliver(p)
    PROVE  SwapInv'
  <1>1. Inv'
    BY AbortInv, DeliverInv
  <1>2. UNCHANGED <<chain, known, epoch, rec, funded, sent>>
    BY DEF Abort, Deliver, legVars, engineVars, mailVars
  <1>3. \A q \in Parties : pc'[q] \in {pc[q], "idle"} /\ got[q] <= got'[q]
    BY DEF Abort, Deliver, engineVars, mailVars, Inv, TypeOK, Notice
  <1>4. ChainInv'
    BY <1>2 DEF SwapInv, ChainInv, Mined, Out, RefundDue
  <1> QED  BY <1>1, <1>2, <1>3, <1>4, OutsideOK DEF Out

\* The funding and place invariant holds before the first step.
LEMMA InitOK == Init => SwapInv
  <1> SUFFICES ASSUME Init PROVE SwapInv
    OBVIOUS
  <1>0. \A t \in Txs : chain[t] = "none" /\ ~Mined(t) /\ ~Out(t)
    BY DEF Init, LegsInit, Mined, Out
  <1>1. ChainInv
    BY <1>0, SpendNames, FundIsTx DEF Init, LegsInit, ChainInv
  <1>2. FundsOK
    BY <1>0, FundIsTx DEF Init, FundsOK, Notice, Parties
  <1>3. \A p \in Parties : JournalOK(p, rec[p])
    BY DEF Init, JournalOK, RefundedPhases, RefundPhases
  <1>4. \A p \in Parties : PlaceOK(p, rec[p].phase, pc[p])
    BY CalmPlace DEF Init, ExecutionSteps
  <1> QED  BY <1>1, <1>2, <1>3, <1>4 DEF SwapInv

\* Every step keeps it.
LEMMA NextOK == Inv /\ SwapInv /\ [Next]_vars => SwapInv'
  <1> SUFFICES ASSUME Inv, SwapInv, [Next]_vars PROVE SwapInv'
    OBVIOUS
  <1>1. CASE \E p \in Parties : Engine(p) \/ Abort(p) \/ Deliver(p)
    BY <1>1, MessagingOK, RefundCheckOK, FundingOK, ClaimingOK, EndingOK, AroundOK DEF Engine
  <1>2. CASE Network \/ Disturbance
    BY <1>2, NetworkOK
  <1>3. CASE Tick \/ Lapse
    BY <1>3, TimeOK
  <1>4. CASE UNCHANGED vars
    BY <1>4 DEF vars, legVars, engineVars, mailVars, SwapInv, ChainInv, FundsOK, JournalOK,
                PlaceOK, TooLate, RefundDue, Mined, Out
  <1> QED  BY <1>1, <1>2, <1>3, <1>4 DEF Next

\* It holds throughout.
LEMMA SwapInvariance == Spec => []SwapInv
  BY InitOK, NextOK, Invariance, PTL DEF Spec

-----------------------------------------------------------------------------
(* What a pass knows while nothing happens *)

\* The shapes of a step of p's engine.
Steps(p) ==
    /\ \A q \in Parties : q # p => rec'[q] = rec[q] /\ pc'[q] = pc[q] /\ funded'[q] = funded[q]
    /\ epoch' = epoch /\ lapsed' = lapsed
    /\ \/ Begin(p)
       \/ \E step \in EngineSteps \ {"idle"} : Goto(p, step) /\ pc[p] # "idle"
       \/ Return(p) /\ pc[p] # "idle"
       \/ \E phase \in Phases : RewindAndReturn(p, phase) /\ pc[p] # "idle"

\* A journal move is one step of a pass.
LEMMA WriteSteps ==
    ASSUME TypeOK, NEW p \in Parties, pc[p] # "idle",
           \/ \E r, step : step \in EngineSteps \ {"idle"} /\ Write(p, r, step)
           \/ \E step \in EngineSteps \ {"idle"} : Quiet /\ Goto(p, step)
           \/ Quiet /\ Return(p)
           \/ \E phase : AdvanceTo(p, phase) \/ RewindTo(p, phase)
           \/ \E phase \in Phases : RewindAndReturn(p, phase)
    PROVE  Steps(p)
  <1>0. "refund" \in EngineSteps \ {"idle"}
    BY DEF EngineSteps
  <1>1. ASSUME NEW r, NEW step \in EngineSteps \ {"idle"}, Write(p, r, step)
        PROVE  Steps(p)
    <2>1. Goto(p, step) /\ rec' = [rec EXCEPT ![p] = r] /\ UNCHANGED <<legVars, engineVars>>
      BY <1>1 DEF Write
    <2> QED  BY <2>1 DEF Steps, Goto, TypeOK, legVars, engineVars, mailVars
  <1>2. ASSUME NEW step \in EngineSteps \ {"idle"}, Quiet, Goto(p, step)
        PROVE  Steps(p)
    BY <1>2 DEF Steps, Goto, TypeOK, Quiet, legVars, engineVars, mailVars
  <1>3. CASE Quiet /\ Return(p)
    BY <1>3 DEF Steps, Return, TypeOK, Quiet, legVars, engineVars, mailVars
  <1>4. ASSUME NEW phase, AdvanceTo(p, phase) \/ RewindTo(p, phase)
        PROVE  Steps(p)
    BY <1>0, <1>1, <1>4 DEF AdvanceTo, AdvanceThen, RewindTo
  <1>5. ASSUME NEW phase \in Phases, RewindAndReturn(p, phase)
        PROVE  Steps(p)
    BY <1>5 DEF Steps, RewindAndReturn, TypeOK, legVars, engineVars, mailVars
  <1> QED  BY <1>1, <1>2, <1>3, <1>4, <1>5

\* A message or a publication is one, too.
LEMMA OutSteps ==
    ASSUME TypeOK, NEW p \in Parties, pc[p] # "idle",
           \A q \in Parties : q # p => rec'[q] = rec[q] /\ funded'[q] = funded[q],
           epoch' = epoch, lapsed' = lapsed,
           \/ \E step \in EngineSteps \ {"idle"} : Goto(p, step)
           \/ Return(p)
    PROVE  Steps(p)
  BY DEF Steps, Goto, Return, TypeOK

\* Every step of an engine has one of these shapes.
LEMMA EngineShapes ==
    ASSUME TypeOK, NEW p \in Parties, Engine(p)
    PROVE  Steps(p)
  <1>0. EngineSteps \ {"idle"} =
            {"hello", "read", "accept", "proposed", "ack", "agree", "notices", "propose",
             "send", "refund", "phase", "fund", "save", "notify", "await", "claim",
             "observe", "settle"}
    BY DEF EngineSteps
  <1>1. CASE Messaging(p)
    <2>1. CASE Begin(p)
      BY <2>1 DEF Steps, Begin, Quiet, TypeOK, legVars, engineVars, mailVars
    <2>2. CASE SendHello(p)
      BY <1>0, <2>2, WriteSteps, OutSteps DEF SendHello, At, legVars
    <2>3. CASE ReadMessages(p)
      <3>1. pc[p] # "idle" /\ \E r, step : step \in EngineSteps \ {"idle"} /\ Write(p, r, step)
        BY <1>0, <2>3, Zenon DEF ReadMessages, At
      <3> QED  BY <3>1, WriteSteps
    <2>4. CASE MarkProposed(p)
      <3>1. pc[p] # "idle" /\ \E r, step : step \in EngineSteps \ {"idle"} /\ Write(p, r, step)
        BY <1>0, <2>4, Zenon DEF MarkProposed, AdvanceThen, At
      <3> QED  BY <3>1, WriteSteps
    <2>5. CASE ReadNotice(p)
      BY <1>0, <2>5, OutSteps DEF ReadNotice, Broadcast, legVars, engineVars, mailVars, At, TypeOK
    <2>6. CASE p = "taker" /\ (AcceptAgreement \/ Agree)
      <3>1. /\ pc[p] # "idle"
            /\ \/ \E r, step : step \in EngineSteps \ {"idle"} /\ Write(p, r, step)
               \/ \E step \in EngineSteps \ {"idle"} : Quiet /\ Goto(p, step)
        BY <1>0, <2>6, Zenon DEF AcceptAgreement, Agree, AdvanceThen, At
      <3> QED  BY <3>1, WriteSteps
    <2>7. CASE (p = "taker" /\ Acknowledge) \/ (p = "maker" /\ SendAgreement)
      BY <1>0, <2>7, OutSteps DEF Acknowledge, SendAgreement, legVars, At
    <2>8. CASE p = "maker" /\ StoreProposal
      <3>1. pc[p] # "idle" /\ \E r, step : step \in EngineSteps \ {"idle"} /\ Write(p, r, step)
        BY <1>0, <2>8, Zenon DEF StoreProposal, At
      <3> QED  BY <3>1, WriteSteps
    <2> QED  BY <1>1, <2>1, <2>2, <2>3, <2>4, <2>5, <2>6, <2>7, <2>8, Zenon DEF Messaging
  <1>2. CASE RefundCheck(p)
    <2>1. CASE NothingAgreed(p) \/ NoRefundCheck(p)
      BY <1>0, <2>1, WriteSteps DEF NothingAgreed, NoRefundCheck, At
    <2>2. CASE ClaimBeforeRefund(p) \/ NotDue(p) \/ StartRefund(p)
      <3>1. pc[p] # "idle" /\ \E r, step : step \in EngineSteps \ {"idle"} /\ Write(p, r, step)
        BY <1>0, <2>2, Zenon DEF ClaimBeforeRefund, NotDue, StartRefund, MayRefund, At
      <3> QED  BY <3>1, WriteSteps
    <2>3. CASE Expire(p) \/ UnfundedInWindow(p)
      BY <1>0, <2>3, WriteSteps DEF Expire, UnfundedInWindow, MayRefund, At
    <2> QED  BY <1>2, <2>1, <2>2, <2>3 DEF RefundCheck
  <1>3. CASE Funding(p)
    <2>1. CASE TermsAgreed(p) \/ MakerFunding(p) \/ AwaitFunding(p) \/ TakerFunding(p)
      BY <1>0, <2>1, WriteSteps
         DEF TermsAgreed, MakerFunding, AwaitFunding, TakerFunding, FundingStep, InPhase, At
    <2>2. CASE MakerFunded(p) \/ TakerFunded(p)
      BY <2>2, WriteSteps DEF MakerFunded, TakerFunded, InPhase, Phases, LegacyPhases
    <2>3. CASE FundOwnLeg(p)
      BY <1>0, <2>3, WriteSteps, OutSteps DEF FundOwnLeg, Broadcast, mailVars, At, TypeOK
    <2>4. CASE SaveNotice(p)
      <3>1. pc[p] # "idle" /\ \E r, step : step \in EngineSteps \ {"idle"} /\ Write(p, r, step)
        BY <1>0, <2>4, Zenon DEF SaveNotice, At
      <3> QED  BY <3>1, WriteSteps
    <2>5. CASE SendNotice(p)
      BY <1>0, <2>5, OutSteps DEF SendNotice, legVars, At
    <2> QED  BY <1>3, <2>1, <2>2, <2>3, <2>4, <2>5 DEF Funding
  <1>4. CASE Claiming(p)
    <2>1. CASE MakerClaiming(p) \/ MakerClaimed(p) \/ TakerClaiming(p) \/ Settle(p)
      BY <1>0, <2>1, WriteSteps
         DEF MakerClaiming, MakerClaimed, TakerClaiming, Settle, InPhase, At
    <2>2. CASE ClaimPeerLeg(p)
      BY <1>0, <2>2, WriteSteps, OutSteps
         DEF ClaimPeerLeg, Broadcast, engineVars, mailVars, At
    <2>3. CASE ObserveMakerClaim(p)
      <3>1. /\ pc[p] # "idle"
            /\ \/ \E r, step : step \in EngineSteps \ {"idle"} /\ Write(p, r, step)
               \/ Quiet /\ Return(p)
        BY <1>0, <2>3, Zenon DEF ObserveMakerClaim, At
      <3> QED  BY <3>1, WriteSteps
    <2> QED  BY <1>4, <2>1, <2>2, <2>3 DEF Claiming
  <1>5. CASE Ending(p)
    <2>1. CASE Complete(p) \/ WaitingForRefund(p) \/ Refunded(p) \/ Expired(p)
      BY <2>1, WriteSteps
         DEF Complete, WaitingForRefund, Refunded, Expired, InPhase, Phases, LegacyPhases,
             RefundPhases
    <2>2. CASE Refunding(p)
      BY <2>2, WriteSteps, OutSteps DEF Refunding, Broadcast, engineVars, mailVars, InPhase
    <2> QED  BY <1>5, <2>1, <2>2 DEF Ending
  <1> QED  BY <1>1, <1>2, <1>3, <1>4, <1>5 DEF Engine

\* A look is under way or over, and the messages live until the last epoch.
PollOK ==
    /\ \A p \in Parties : /\ poll[p] = "running" => pc[p] # "idle"
                          /\ poll[p] = "done" => pc[p] = "idle"
    /\ epoch < LastEpoch => ~lapsed

Looked(p) == poll[p] # "stale"

\* A step of p that its pass survives: nothing happened.
LEMMA Undisturbed ==
    ASSUME Inv, PollOK, NEW p \in Parties, Steps(p), Looked(p)'
    PROVE  /\ Observable' = Observable
           /\ \/ Begin(p) /\ pc'[p] = "hello"
              \/ Looked(p) /\ pc[p] # "idle" /\ pc'[p] # "idle"
              \/ Looked(p) /\ pc[p] # "idle" /\ pc'[p] = "idle" /\ Return(p)
  <1>1. CASE Begin(p)
    BY <1>1 DEF Begin, Quiet, Observable, engineVars, Inv, TypeOK
  <1>2. ASSUME NEW step \in EngineSteps \ {"idle"}, Goto(p, step), pc[p] # "idle"
        PROVE  Observable' = Observable /\ Looked(p) /\ pc'[p] # "idle"
    BY <1>2 DEF Goto, Looked, Stale, Inv, TypeOK
  <1>3. CASE Return(p) /\ pc[p] # "idle"
    BY <1>3 DEF Return, Looked, Stale, Inv, TypeOK
  <1>4. ASSUME NEW phase \in Phases, RewindAndReturn(p, phase)
        PROVE  FALSE
    BY <1>4 DEF RewindAndReturn, Looked, Inv, TypeOK
  <1> QED  BY <1>1, <1>2, <1>3, <1>4, Zenon DEF Steps

\* A step of p that the other's pass survives.
LEMMA UndisturbedPeer ==
    ASSUME Inv, NEW p \in Parties, Steps(p), NEW q \in Parties, q # p, Looked(q)'
    PROVE  /\ Observable' = Observable
           /\ poll'[q] = poll[q] /\ pc'[q] = pc[q] /\ rec'[q] = rec[q] /\ funded'[q] = funded[q]
  <1>0. pc'[q] = pc[q] /\ rec'[q] = rec[q] /\ funded'[q] = funded[q]
    BY DEF Steps
  <1>1. CASE Begin(p)
    BY <1>1 DEF Begin, Quiet, Observable, engineVars, Inv, TypeOK
  <1>2. ASSUME NEW step \in EngineSteps \ {"idle"}, Goto(p, step)
        PROVE  Observable' = Observable /\ poll'[q] = poll[q]
    BY <1>2 DEF Goto, Looked, Stale, Inv, TypeOK
  <1>3. CASE Return(p)
    <2>1. Observable' = Observable
      BY <1>3 DEF Return, Looked, Stale
    <2>2. poll' = [poll EXCEPT ![p] = IF poll[p] = "running" THEN "done" ELSE "stale"]
      BY <1>3, <2>1 DEF Return
    <2> QED  BY <1>0, <2>1, <2>2 DEF Inv, TypeOK
  <1>4. ASSUME NEW phase \in Phases, RewindAndReturn(p, phase)
        PROVE  Observable' = Observable /\ poll'[q] = poll[q]
    BY <1>4 DEF RewindAndReturn, Observable, engineVars, Inv, TypeOK
  <1> QED  BY <1>0, <1>1, <1>2, <1>3, <1>4, Zenon DEF Steps

\* A step of p keeps track of the looks.
LEMMA PollSteps ==
    ASSUME Inv, PollOK, NEW p \in Parties, Steps(p)
    PROVE  PollOK'
  <1>1. epoch' < LastEpoch => ~lapsed'
    BY DEF Steps, PollOK
  <1>2. ASSUME NEW q \in Parties, q # p
        PROVE  /\ poll'[q] = "running" => pc'[q] # "idle"
               /\ poll'[q] = "done" => pc'[q] = "idle"
    BY <1>2, UndisturbedPeer DEF PollOK, Looked
  <1>3. /\ poll'[p] = "running" => pc'[p] # "idle"
        /\ poll'[p] = "done" => pc'[p] = "idle"
    <2>1. CASE Begin(p)
      BY <2>1 DEF Begin, Inv, TypeOK
    <2>2. ASSUME NEW step \in EngineSteps \ {"idle"}, Goto(p, step), pc[p] # "idle"
          PROVE  pc'[p] # "idle" /\ poll'[p] # "done"
      BY <2>2 DEF Goto, Stale, Inv, TypeOK, PollOK
    <2>3. CASE Return(p)
      BY <2>3 DEF Return, Stale, Inv, TypeOK
    <2>4. ASSUME NEW phase \in Phases, RewindAndReturn(p, phase)
          PROVE  poll'[p] = "stale"
      BY <2>4 DEF RewindAndReturn, Inv, TypeOK
    <2> QED  BY <2>1, <2>2, <2>3, <2>4, Zenon DEF Steps
  <1> QED  BY <1>1, <1>2, <1>3 DEF PollOK

\* The look of p that ended tells of what was seen.
EndOK(p) ==
    Looked(p) /\ ~lapsed /\ pc[p] = "idle" =>
        /\ rec[p].phase = "complete" => Mined(Claim("maker")) /\ Seen(p, Claim("taker"))
        /\ rec[p].phase = "refunded" => Mined(Refund(RefundedLeg(p)))

\* In the last epoch a look that gets past the refund check, or ends, has found
\* the own leg claimed, or its refund on the way.
LockOK(p) ==
    Looked(p) /\ ~lapsed /\ epoch = LastEpoch /\ funded[p] =>
        /\ pc[p] = "phase" => rec[p].phase \in Settled \/ Seen(p, Claim(p))
        /\ pc[p] \in ExecutionSteps => Seen(p, Claim(p))
        /\ pc[p] = "idle" => \/ Seen(p, Claim(p))
                             \/ Out(Refund(p))
                             \/ Mined(Claim("maker")) /\ Seen(p, Claim("taker"))

PassOK == PollOK /\ \A p \in Parties : EndOK(p) /\ LockOK(p)

\* Where a step must not lead without a reason.
Watched == {"idle", "phase"} \union ExecutionSteps

\* The message steps lead to the refund check, or end as no message lives.
LEMMA MessagingLeads ==
    ASSUME Inv, NEW p \in Parties, Messaging(p)
    PROVE  pc'[p] \notin Watched \/ lapsed
  <1>0. \A step : Goto(p, step) => pc'[p] = step
    BY DEF Goto, Inv, TypeOK
  <1>1. \A step \in {"hello", "read", "accept", "proposed", "ack", "agree", "notices",
                      "propose", "send", "refund"} : step \notin Watched
    BY DEF Watched, ExecutionSteps
  <1>2. CASE Begin(p)
    BY <1>1, <1>2 DEF Begin, Inv, TypeOK
  <1>3. CASE SendHello(p) \/ MarkProposed(p) \/ ReadNotice(p)
    BY <1>0, <1>1, <1>3 DEF SendHello, MarkProposed, AdvanceThen, Write, ReadNotice
  <1>4. CASE ReadMessages(p)
    BY <1>0, <1>1, <1>4 DEF ReadMessages, Write
  <1>5. CASE p = "taker" /\ (AcceptAgreement \/ Acknowledge \/ Agree)
    BY <1>0, <1>1, <1>5 DEF AcceptAgreement, Acknowledge, Agree, AdvanceThen, Write
  <1>6. CASE p = "maker" /\ (StoreProposal \/ SendAgreement)
    BY <1>0, <1>1, <1>6 DEF StoreProposal, SendAgreement, Write
  <1> QED  BY <1>2, <1>3, <1>4, <1>5, <1>6, Zenon DEF Messaging

\* A look that a funding or a claiming phase ends leaves the journal alone.
LEMMA ExecutionEnds ==
    ASSUME Inv, SwapInv, NEW p \in Parties, Funding(p) \/ Claiming(p), Looked(p)',
           pc'[p] = "idle"
    PROVE  rec' = rec /\ rec[p].phase \in WorkingPhases \union {"terms_agreed"}
  <1>0. /\ \A step : Goto(p, step) => pc'[p] = step
        /\ \A phase : AdvanceTo(p, phase) \/ RewindTo(p, phase) => pc'[p] = "refund"
        /\ \A phase : ~RewindAndReturn(p, phase)
        /\ PlaceOK(p, rec[p].phase, pc[p])
    BY DEF Goto, AdvanceTo, AdvanceThen, RewindTo, Write, RewindAndReturn, Looked, Inv, TypeOK,
           SwapInv
  <1>1. CASE Funding(p)
    <2>1. CASE TermsAgreed(p) \/ MakerFunded(p) \/ TakerFunding(p) \/ TakerFunded(p) \/ MakerFunding(p)
      BY <1>0, <2>1
         DEF TermsAgreed, MakerFunded, TakerFunding, TakerFunded, MakerFunding, FundingStep,
             InPhase, Quiet, WorkingPhases
    <2>2. CASE FundOwnLeg(p) \/ SaveNotice(p) \/ SendNotice(p) \/ AwaitFunding(p)
      BY <1>0, <2>2
         DEF FundOwnLeg, SaveNotice, SendNotice, AwaitFunding, At, Write, Quiet, WorkingPhases,
             PlaceOK, FundingPhase
    <2> QED  BY <1>1, <2>1, <2>2 DEF Funding
  <1>2. CASE Claiming(p)
    BY <1>0, <1>2
       DEF Claiming, MakerClaiming, ClaimPeerLeg, ObserveMakerClaim, MakerClaimed,
           TakerClaiming, Settle, InPhase, At, Write, Quiet, WorkingPhases, PlaceOK, ClaimingPhase
  <1> QED  BY <1>1, <1>2

\* A funding or claiming step acts from a place of its own.
LEMMA ExecutionFrom ==
    ASSUME NEW p \in Parties, Funding(p) \/ Claiming(p)
    PROVE  \/ pc[p] \in ExecutionSteps
           \/ pc[p] = "phase" /\ rec[p].phase \in WorkingPhases \union {"terms_agreed"}
  BY DEF Funding, TermsAgreed, MakerFunding, FundOwnLeg, SaveNotice, SendNotice, AwaitFunding,
         MakerFunded, TakerFunding, TakerFunded,
         Claiming, MakerClaiming, ClaimPeerLeg, ObserveMakerClaim, MakerClaimed,
         TakerClaiming, Settle, InPhase, At, WorkingPhases, ExecutionSteps

\* Outside the funding window nobody funds.
LEMMA FundedStays ==
    ASSUME NEW p \in Parties, Engine(p), epoch # 0
    PROVE  funded' = funded
  <1>1. CASE Messaging(p)
    BY <1>1 DEF Messaging, Begin, SendHello, ReadMessages, MarkProposed, ReadNotice,
                AcceptAgreement, Acknowledge, Agree, StoreProposal, SendAgreement,
                AdvanceThen, Write, Quiet, engineVars
  <1>2. CASE RefundCheck(p)
    BY <1>2 DEF RefundCheck, NothingAgreed, NoRefundCheck, ClaimBeforeRefund, NotDue,
                StartRefund, Expire, UnfundedInWindow, AdvanceTo, AdvanceThen, Write, Quiet,
                engineVars
  <1>3. CASE Funding(p)
    BY <1>3 DEF Funding, TermsAgreed, MakerFunding, FundOwnLeg, SaveNotice, SendNotice,
                AwaitFunding, MakerFunded, TakerFunding, TakerFunded, FundingWindowOpen,
                AdvanceTo, AdvanceThen, RewindTo, RewindAndReturn, Write, Quiet, engineVars
  <1>4. CASE Claiming(p)
    BY <1>4 DEF Claiming, MakerClaiming, ClaimPeerLeg, ObserveMakerClaim, MakerClaimed,
                TakerClaiming, Settle, AdvanceTo, AdvanceThen, RewindTo, Write, Quiet, engineVars
  <1>5. CASE Ending(p)
    BY <1>5 DEF Ending, Complete, WaitingForRefund, Refunding, Refunded, Expired,
                AdvanceTo, AdvanceThen, RewindAndReturn, Write, Quiet, engineVars
  <1> QED  BY <1>1, <1>2, <1>3, <1>4, <1>5 DEF Engine

\* The refund check of the last epoch lets nobody pass unawares.
LEMMA CheckLooks ==
    ASSUME Inv, SwapInv, NEW p \in Parties, RefundCheck(p), epoch = LastEpoch, funded[p]
    PROVE  \/ pc'[p] = "refund"
           \/ pc'[p] = "phase" /\ rec'[p].phase \in Settled
           \/ pc'[p] = "phase" /\ Seen(p, Claim(p))
  <1>0. /\ \A step : Goto(p, step) => pc'[p] = step
        /\ JournalOK(p, rec[p]) /\ OwnFunding(p)
        /\ epoch >= RefundEpoch[p] /\ epoch # 0
    BY DEF Goto, Inv, TypeOK, SwapInv, OwnFunding, RefundEpoch, LastEpoch
  <1>1. CASE NothingAgreed(p)
    BY <1>0, <1>1 DEF NothingAgreed, Executing, JournalOK, Unfunded, Inv, AgreementFirst
  <1>2. CASE NoRefundCheck(p)
    BY <1>0, <1>2 DEF NoRefundCheck, Settled, Quiet
  <1>3. CASE ClaimBeforeRefund(p) \/ NotDue(p) \/ StartRefund(p)
    BY <1>0, <1>3 DEF ClaimBeforeRefund, NotDue, StartRefund, RefundDue, Write
  <1>4. CASE Expire(p) \/ UnfundedInWindow(p)
    BY <1>0, <1>4 DEF Expire, UnfundedInWindow
  <1> QED  BY <1>1, <1>2, <1>3, <1>4 DEF RefundCheck

\* A look that the refund check ends has found nothing agreed.
LEMMA CheckEnds ==
    ASSUME Inv, NEW p \in Parties, RefundCheck(p), pc'[p] = "idle"
    PROVE  rec' = rec /\ rec[p].phase \in Unfunded
  <1>0. /\ \A step : Goto(p, step) => pc'[p] = step
        /\ \A phase : AdvanceTo(p, phase) => pc'[p] = "refund"
    BY DEF Goto, Inv, TypeOK, AdvanceTo, AdvanceThen, Write
  <1>1. CASE NothingAgreed(p)
    BY <1>1 DEF NothingAgreed, Executing, Quiet, Unfunded, Inv, AgreementFirst
  <1> QED  BY <1>0, <1>1 DEF RefundCheck, NoRefundCheck, ClaimBeforeRefund, NotDue, StartRefund,
                             Expire, UnfundedInWindow, Write

\* A refund that is due, is not mined and may not be published is too late.
LEMMA RefundOpen ==
    ASSUME Inv, SwapInv, NEW p \in Parties, epoch = LastEpoch, funded[p],
           ~Mined(Refund(p)), ~Publishable(Refund(p))
    PROVE  Mined(Claim(p))
  <1>1. /\ Refund(p)[1] = p /\ Refund(p)[2] = "refund" /\ Rival(Refund(p)) = Claim(p)
    BY TxNames
  <1>2. chain[Fund(p)] = "final" /\ RefundDue(p)
    BY DEF SwapInv, FundsOK, RefundDue, RefundEpoch, LastEpoch
  <1> QED  BY <1>1, <1>2 DEF Publishable, Mined

\* Where a look of p stands once the swap was over.
LEMMA EndingLooks ==
    ASSUME Inv, SwapInv, NEW p \in Parties, Ending(p), Looked(p)',
           Observable' = Observable, Looked(p), ~lapsed
    PROVE  /\ pc'[p] = "refund" \/ (pc'[p] = "idle" /\ rec' = rec)
           /\ EndOK(p)'
           /\ LockOK(p)'
  <1>0. /\ \A step : Goto(p, step) => pc'[p] = step
        /\ \A phase : AdvanceTo(p, phase) \/ RewindTo(p, phase) => pc'[p] = "refund"
        /\ \A phase : ~RewindAndReturn(p, phase)
        /\ Return(p) => pc'[p] = "idle"
        /\ "refund" \notin Watched
        /\ JournalOK(p, rec[p])
    BY DEF Goto, Return, AdvanceTo, AdvanceThen, RewindTo, Write, RewindAndReturn, Looked, Inv,
           TypeOK, Watched, ExecutionSteps, SwapInv
  <1>1. UNCHANGED <<chain, known, epoch, lapsed>>
    BY DEF Observable, legVars, mailVars
  <1>2. pc'[p] = "refund" \/ (pc'[p] = "idle" /\ rec' = rec)
    BY <1>0 DEF Ending, Complete, WaitingForRefund, Refunding, Refunded, Expired, Quiet
  <1>3. CASE pc'[p] = "refund"
    BY <1>0, <1>3 DEF EndOK, LockOK, Watched
  <1>4. CASE pc'[p] = "idle" /\ rec' = rec /\ epoch = LastEpoch /\ funded'[p]
    <2>1. funded[p]
      BY <1>4, FundedStays DEF Ending, Complete, WaitingForRefund, Refunding, Refunded, Expired,
                               Quiet, AdvanceTo, AdvanceThen, Write, RewindAndReturn, engineVars
    <2>2. CASE Complete(p)
      <3>1. Mined(Claim("maker")) /\ Seen(p, Claim("taker")) /\ rec[p].phase = "complete"
        BY <1>0, <1>4, <2>2 DEF Complete, ClaimSeen, InPhase
      <3> QED  BY <1>1, <1>2, <1>4, <3>1 DEF EndOK, LockOK, Mined, Seen, ExecutionSteps
    <2>3. CASE WaitingForRefund(p)
      BY <1>0, <1>4, <2>3 DEF WaitingForRefund
    <2>4. CASE Refunding(p)
      <3>1. RefundedLeg(p) = p /\ rec[p].phase = "refunding"
        BY <1>0, <2>1, <2>4
           DEF Refunding, InPhase, RefundedLeg, JournalOK, RefundedPhases, RefundPhases
      <3>2. Seen(p, Claim(p)) \/ Out(Refund(p))'
        <4>1. CASE Mined(Refund(p))
          BY <1>1, <4>1 DEF Mined, Out
        <4>2. CASE ~Mined(Refund(p)) /\ ~Publishable(Refund(p))
          BY <1>4, <2>1, <4>2, RefundOpen DEF Seen
        <4>3. CASE ~Mined(Refund(p)) /\ Publishable(Refund(p))
          <5>1. Broadcast(p, Refund(p))
            BY <2>4, <3>1, <4>3 DEF Refunding
          <5> QED  BY <5>1, FundIsTx DEF Broadcast, Out, Inv, TypeOK, LegsTypeOK
        <4> QED  BY <4>1, <4>2, <4>3
      <3> QED  BY <1>1, <1>4, <3>1, <3>2 DEF EndOK, LockOK, Mined, Seen, Out, ExecutionSteps
    <2>5. CASE Refunded(p)
      <3>1. Mined(Refund(RefundedLeg(p))) /\ rec[p].phase = "refunded"
        BY <1>0, <1>4, <2>5 DEF Refunded, InPhase
      <3>2. RefundedLeg(p) = p
        BY <1>0, <2>1, <3>1 DEF RefundedLeg, JournalOK, RefundedPhases
      <3> QED  BY <1>1, <1>4, <3>1, <3>2
               DEF EndOK, LockOK, Mined, Out, ExecutionSteps, RefundedLeg
    <2>6. CASE Expired(p)
      BY <1>0, <2>1, <2>6 DEF Expired, InPhase, JournalOK
    <2> QED  BY <2>2, <2>3, <2>4, <2>5, <2>6 DEF Ending
  <1>5. CASE pc'[p] = "idle" /\ rec' = rec /\ ~(epoch = LastEpoch /\ funded'[p])
    <2>1. LockOK(p)'
      BY <1>1, <1>5 DEF LockOK
    <2>2. EndOK(p)'
      <3>1. CASE Complete(p)
        <4>1. Mined(Claim("maker")) /\ Seen(p, Claim("taker")) /\ rec[p].phase = "complete"
          BY <1>0, <1>5, <3>1 DEF Complete, ClaimSeen, InPhase
        <4> QED  BY <1>1, <1>5, <4>1 DEF EndOK, Mined, Seen
      <3>2. CASE Refunded(p)
        <4>1. Mined(Refund(RefundedLeg(p))) /\ rec[p].phase = "refunded"
          BY <1>0, <1>5, <3>2 DEF Refunded, InPhase
        <4> QED  BY <1>1, <1>5, <4>1 DEF EndOK, Mined, RefundedLeg
      <3>3. CASE WaitingForRefund(p) \/ Refunding(p) \/ Expired(p)
        BY <1>5, <3>3 DEF WaitingForRefund, Refunding, Expired, InPhase, EndOK
      <3> QED  BY <3>1, <3>2, <3>3 DEF Ending
    <2> QED  BY <1>5, <2>1, <2>2
  <1> QED  BY <1>2, <1>3, <1>4, <1>5

\* A look of p, and what it finds.
LEMMA OwnLooks ==
    ASSUME Inv, SwapInv, PassOK, NEW p \in Parties, Engine(p)
    PROVE  EndOK(p)' /\ LockOK(p)'
  <1> SUFFICES ASSUME Looked(p)', ~lapsed' PROVE EndOK(p)' /\ LockOK(p)'
    BY DEF EndOK, LockOK
  <1>0. Steps(p)
    BY EngineShapes DEF Inv
  <1>1. /\ UNCHANGED <<chain, known, epoch, lapsed>> /\ Observable' = Observable
        /\ Begin(p) \/ Looked(p)
    BY <1>0, Undisturbed DEF PassOK, Observable, legVars, mailVars
  <1>2. CASE Messaging(p)
    BY <1>1, <1>2, MessagingLeads DEF Watched, EndOK, LockOK
  <1>3. CASE RefundCheck(p)
    <2>1. EndOK(p)'
      BY <1>3, CheckEnds DEF EndOK, Unfunded
    <2>2. ASSUME epoch = LastEpoch, funded'[p] PROVE LockOK(p)'
      <3>1. funded[p]
        BY <2>2, FundedStays DEF LastEpoch
      <3>2. \/ pc'[p] = "refund"
            \/ pc'[p] = "phase" /\ rec'[p].phase \in Settled
            \/ pc'[p] = "phase" /\ Seen(p, Claim(p))
        BY <1>3, <2>2, <3>1, CheckLooks
      <3> QED  BY <1>1, <3>2 DEF LockOK, ExecutionSteps, Seen, Mined
    <2> QED  BY <1>1, <2>1, <2>2 DEF LockOK
  <1>4. CASE Funding(p) \/ Claiming(p)
    <2>1. EndOK(p)'
      BY <1>4, ExecutionEnds DEF EndOK, WorkingPhases
    <2>2. ASSUME epoch = LastEpoch, funded'[p] PROVE LockOK(p)'
      <3>1. funded[p]
        BY <2>2, FundedStays DEF LastEpoch
      <3>2. Looked(p)
        BY <1>1, <1>4, ExecutionFrom DEF Begin, At, ExecutionSteps
      <3>3. rec[p].phase \in WorkingPhases \union {"terms_agreed"} => rec[p].phase \notin Settled
        BY Working DEF Settled, TerminalPhases, RefundPhases
      <3>4. Seen(p, Claim(p))
        BY <1>1, <1>4, <2>2, <3>1, <3>2, <3>3, ExecutionFrom DEF PassOK, LockOK
      <3> QED  BY <1>1, <3>4 DEF LockOK, Seen, Mined
    <2> QED  BY <1>1, <2>1, <2>2 DEF LockOK
  <1>5. CASE Ending(p)
    <2>1. pc[p] = "phase"
      BY <1>5 DEF Ending, Complete, WaitingForRefund, Refunding, Refunded, Expired, InPhase
    <2> QED  BY <1>1, <1>5, <2>1, EndingLooks DEF Begin, At
  <1> QED  BY <1>2, <1>3, <1>4, <1>5 DEF Engine

\* What was found stays found while nothing happens.
LEMMA LooksStay ==
    ASSUME NEW p \in Parties, Observable' = Observable,
           poll'[p] = poll[p], pc'[p] = pc[p], rec'[p] = rec[p], funded'[p] = funded[p],
           EndOK(p), LockOK(p)
    PROVE  EndOK(p)' /\ LockOK(p)'
  BY DEF Observable, legVars, mailVars, EndOK, LockOK, Looked, Mined, Seen, Out, RefundedLeg

\* After an event nobody has looked.
LEMMA Forgotten ==
    ASSUME NEW p \in Parties, poll'[p] = "stale"
    PROVE  EndOK(p)' /\ LockOK(p)'
  BY DEF EndOK, LockOK, Looked

\* Every step keeps what the looks found.
LEMMA NextPass == Inv /\ SwapInv /\ PassOK /\ [Next]_vars => PassOK'
  <1> SUFFICES ASSUME Inv, SwapInv, PassOK, [Next]_vars PROVE PassOK'
    OBVIOUS
  <1>1. ASSUME NEW p \in Parties, Engine(p) PROVE PassOK'
    <2>0. Steps(p)
      BY <1>1, EngineShapes DEF Inv
    <2>1. PollOK'
      BY <2>0, PollSteps DEF PassOK
    <2>2. EndOK(p)' /\ LockOK(p)'
      BY <1>1, OwnLooks
    <2>3. ASSUME NEW q \in Parties, q # p PROVE EndOK(q)' /\ LockOK(q)'
      <3>1. CASE poll'[q] = "stale"
        BY <3>1, Forgotten
      <3>2. CASE poll'[q] # "stale"
        BY <2>0, <2>3, <3>2, UndisturbedPeer, LooksStay DEF PassOK, Looked
      <3> QED  BY <3>1, <3>2
    <2> QED  BY <2>1, <2>2, <2>3 DEF PassOK
  <1>2. ASSUME NEW p \in Parties, Abort(p) PROVE PassOK'
    <2>1. /\ poll'[p] = "stale"
          /\ Observable' = Observable /\ rec' = rec /\ funded' = funded
          /\ \A q \in Parties : q # p => poll'[q] = poll[q] /\ pc'[q] = pc[q]
      BY <1>2 DEF Abort, engineVars, Observable, Inv, TypeOK
    <2>2. PollOK'
      BY <2>1 DEF PassOK, PollOK, Observable, legVars, mailVars
    <2>3. ASSUME NEW q \in Parties PROVE EndOK(q)' /\ LockOK(q)'
      BY <2>1, Forgotten, LooksStay DEF PassOK
    <2> QED  BY <2>2, <2>3 DEF PassOK
  <1>3. CASE (\E p \in Parties : Deliver(p)) \/ Network \/ Disturbance \/ Tick \/ Lapse
    <2>1. \A p \in Parties : poll'[p] = "stale"
      BY <1>3 DEF Deliver, Network, Disturbance, Tick, Lapse, Stale
    <2>2. epoch' < LastEpoch => ~lapsed'
      <3>1. CASE Tick
        BY <3>1 DEF Tick, NextEpoch, PassOK, PollOK, LastEpoch, engineVars, mailVars
      <3>2. CASE Lapse
        BY <3>2 DEF Lapse, LastEpoch
      <3>3. CASE (\E p \in Parties : Deliver(p)) \/ Network \/ Disturbance
        <4>1. epoch' = epoch /\ lapsed' = lapsed
          BY <3>3 DEF Deliver, Network, Disturbance, Confirm, Gossip, Reorg, Evict, legVars,
                      engineVars, mailVars
        <4> QED  BY <4>1 DEF PassOK, PollOK
      <3> QED  BY <1>3, <3>1, <3>2, <3>3
    <2> QED  BY <2>1, <2>2, Forgotten DEF PassOK, PollOK
  <1>4. CASE UNCHANGED vars
    <2>1. /\ Observable' = Observable
          /\ UNCHANGED <<poll, pc, rec, funded, epoch, lapsed>>
      BY <1>4 DEF vars, Observable, legVars, engineVars, mailVars
    <2> QED  BY <2>1, LooksStay DEF PassOK, PollOK
  <1> QED  BY <1>1, <1>2, <1>3, <1>4 DEF Next

\* Nobody has looked before the first step.
LEMMA InitPass == Init => PassOK
  BY DEF Init, LegsInit, PassOK, PollOK, EndOK, LockOK, Looked, LastEpoch

\* What the looks found holds throughout.
LEMMA PassInvariance == Spec => []PassOK
  BY InitPass, NextPass, Invariance, SwapInvariance, PTL DEF Spec

-----------------------------------------------------------------------------
\* A journal that has looked and calls its swap complete, refunded or expired
\* is right about the chains, whatever was reorganised, evicted, lost or cut
\* short before (driveExecution's last phases, observeClaim, ensureLocalRefund).
THEOREM SettledIsTrue == Spec => []SettledAgrees
  <1>1. Inv /\ SwapInv /\ PassOK => SettledAgrees
    <2> SUFFICES ASSUME Inv, SwapInv, PassOK, NEW p \in Parties, poll[p] = "done", ~lapsed
                 PROVE  /\ rec[p].phase = "complete" => Mined(Claim("maker")) /\ Seen(p, Claim("taker"))
                        /\ rec[p].phase = "refunded" =>
                              Mined(Refund(p)) \/ (~Mined(Fund(p)) /\ Mined(Refund(Peer(p))))
                        /\ rec[p].phase = "expired" => ~Mined(Fund(p))
      BY DEF SettledAgrees
    <2>1. EndOK(p) /\ pc[p] = "idle" /\ Looked(p) /\ JournalOK(p, rec[p])
      BY DEF PassOK, PollOK, SwapInv, Looked
    <2>2. ~funded[p] => ~Mined(Fund(p))
      BY DEF SwapInv, FundsOK, Mined, Out
    <2>3. ASSUME rec[p].phase = "refunded"
          PROVE  Mined(Refund(p)) \/ (~Mined(Fund(p)) /\ Mined(Refund(Peer(p))))
      <3>1. Mined(Refund(RefundedLeg(p))) /\ (funded[p] => p \in rec[p].notices)
        BY <2>1, <2>3 DEF EndOK, JournalOK, RefundedPhases
      <3> QED  BY <2>2, <3>1 DEF RefundedLeg
    <2> QED  BY <2>1, <2>2, <2>3 DEF EndOK, JournalOK
  <1> QED  BY <1>1, Invariance, SwapInvariance, PassInvariance, PTL

\* Once both traders have looked after the last refund height, and the blocks
\* took what they published, both legs are spent: neither trader's presence
\* before that is needed (maybeStartRefund, ensureLocalRefund, ensureLocalClaim).
THEOREM SpentInTheEnd == Spec => []NothingLocked
  <1>1. Inv /\ SwapInv /\ PassOK => NothingLocked
    <2> SUFFICES ASSUME Inv, SwapInv, PassOK, epoch = LastEpoch, PoolsDrained, ~lapsed,
                        NEW p \in Parties, poll[p] = "done", Mined(Fund(p))
                 PROVE  Mined(Claim(p)) \/ Mined(Refund(p))
      BY DEF NothingLocked, Settling, Attentive, Unlocked
    <2>1. LockOK(p) /\ pc[p] = "idle" /\ Looked(p) /\ funded[p]
      BY DEF PassOK, PollOK, SwapInv, FundsOK, Mined, Out, Looked
    <2>2. chain[Claim(p)] # "pool" /\ chain[Refund(p)] # "pool"
      BY FundIsTx, TxNames DEF PoolsDrained
    <2>3. Seen(p, Claim(p)) => Mined(Claim(p))
      BY <2>2 DEF Seen, SwapInv, ChainInv
    <2>4. Out(Refund(p)) => Mined(Refund(p))
      BY <2>2, FundIsTx DEF Out, Mined, Inv, TypeOK, LegsTypeOK
    <2>5. CASE p = "maker"
      BY <2>1, <2>3, <2>4, <2>5 DEF LockOK
    <2>6. CASE p = "taker"
      BY <2>1, <2>3, <2>4, <2>6 DEF LockOK
    <2> QED  BY <2>5, <2>6 DEF Parties
  <1> QED  BY <1>1, Invariance, SwapInvariance, PassInvariance, PTL

-----------------------------------------------------------------------------
(* A trader that is present *)

\* The epoch in which it is p's turn to claim its peer's leg.
Turn(p) ==
    IF p = "maker" THEN epoch = 1 /\ got["maker"] >= Notice
                   ELSE epoch = 2 /\ sent["taker"] >= Notice

\* A look of p in its turn finds both notices, and ends with the claim published.
TurnOK(p) ==
    Turn(p) /\ Looked(p) =>
        /\ pc[p] \notin {"fund", "save"}
        /\ pc[p] \in {"refund", "phase"} \union ExecutionSteps => Peer(p) \in rec[p].notices
        /\ pc[p] \in ExecutionSteps \/ (pc[p] = "phase" /\ rec[p].phase \notin Settled) =>
              p \in rec[p].notices
        /\ pc[p] \in {"idle", "settle"} \/ (p = "maker" /\ pc[p] = "observe") =>
              Seen(p, Claim(Peer(p)))

\* The claims come in the order of the refund heights.
PresentInv ==
    /\ funded["taker"] \/ pc["taker"] = "fund" => "maker" \in rec["taker"].notices
    /\ sent["taker"] >= Notice /\ epoch >= 2 => chain[Claim("taker")] = "final"
    /\ sent["taker"] >= Notice /\ epoch = 2 => rec["taker"].phase \notin RefundedPhases
    /\ sent["taker"] >= Notice /\ epoch = 3 /\ "taker" \in Prompt =>
          chain[Claim("maker")] = "final"
    /\ \A p \in Parties : TurnOK(p)

\* What a journal write, and a step without one, leave alone.
LEMMA Moved ==
    ASSUME Inv, NEW p \in Parties
    PROVE  /\ \A step : Goto(p, step) => pc'[p] = step
           /\ Return(p) => pc'[p] = "idle"
           /\ Quiet => rec'[p] = rec[p] /\ UNCHANGED <<chain, funded, sent>>
           /\ \A r, step : Write(p, r, step) =>
                 rec'[p] = r /\ pc'[p] = step /\ UNCHANGED <<chain, funded, sent>>
           /\ \A phase \in Phases : AdvanceTo(p, phase) \/ RewindTo(p, phase) =>
                 /\ rec'[p].phase = phase /\ rec'[p].notices = rec[p].notices
                 /\ pc'[p] = "refund" /\ UNCHANGED <<chain, funded, sent>>
           /\ \A phase \in Phases : RewindAndReturn(p, phase) =>
                 /\ rec'[p].phase = phase /\ rec'[p].notices = rec[p].notices
                 /\ pc'[p] = "idle" /\ UNCHANGED <<chain, funded, sent>>
  <1>1. rec[p] \in Records /\ rec \in [Parties -> Records] /\ pc \in [Parties -> EngineSteps]
    BY DEF Inv, TypeOK
  <1>2. \A phase \in Phases : [rec[p] EXCEPT !.phase = phase].phase = phase
                              /\ [rec[p] EXCEPT !.phase = phase].notices = rec[p].notices
    BY <1>1 DEF Records
  <1>3. \A r, step : Write(p, r, step) =>
           rec'[p] = r /\ pc'[p] = step /\ UNCHANGED <<chain, funded, sent>>
    BY <1>1 DEF Write, Goto, legVars, engineVars, mailVars
  <1>4. ASSUME NEW phase \in Phases, AdvanceTo(p, phase) \/ RewindTo(p, phase)
        PROVE  /\ rec'[p].phase = phase /\ rec'[p].notices = rec[p].notices
               /\ pc'[p] = "refund" /\ UNCHANGED <<chain, funded, sent>>
    BY <1>2, <1>3, <1>4 DEF AdvanceTo, AdvanceThen, RewindTo
  <1>5. ASSUME NEW phase \in Phases, RewindAndReturn(p, phase)
        PROVE  /\ rec'[p].phase = phase /\ rec'[p].notices = rec[p].notices
               /\ pc'[p] = "idle" /\ UNCHANGED <<chain, funded, sent>>
    BY <1>1, <1>5 DEF RewindAndReturn, legVars, engineVars, mailVars, Records
  <1>6. /\ \A step : Goto(p, step) => pc'[p] = step
        /\ Return(p) => pc'[p] = "idle"
        /\ Quiet => rec'[p] = rec[p] /\ UNCHANGED <<chain, funded, sent>>
    BY <1>1 DEF Goto, Return, Quiet, legVars, engineVars, mailVars
  <1> QED  BY <1>3, <1>4, <1>5, <1>6

\* How far one step of an engine gets.
OneStep(p) ==
    /\ rec[p].notices \subseteq rec'[p].notices
    /\ pc'[p] = "fund" => MakerFunding(p) \/ TakerFunding(p)
    /\ funded'[p] => funded[p] \/ pc[p] = "fund"
    /\ rec'[p].phase \in RefundedPhases =>
          rec[p].phase \in RefundedPhases \/ StartRefund(p) \/ UnfundedInWindow(p)
    /\ \A q \in Parties : sent'[q] >= Notice => sent[q] >= Notice \/ (q = p /\ pc[q] = "notify")
    /\ \A t \in Txs : chain[t] = "final" => chain'[t] = "final"

\* Sending another message than the notice.
LEMMA EarlyMessage ==
    ASSUME Inv, NEW p \in Parties, NEW n \in 0..2, Receive(p, n)
    PROVE  \A q \in Parties : sent'[q] >= Notice => sent[q] >= Notice
  BY DEF Receive, Inv, TypeOK, Notice

\* The message steps.
LEMMA MessagingStep ==
    ASSUME Inv, NEW p \in Parties, Messaging(p)
    PROVE  OneStep(p) /\ (pc'[p] = "refund" => ReadNotice(p))
  <1>0. /\ rec[p] \in Records /\ rec \in [Parties -> Records]
        /\ "terms_proposed" \notin RefundedPhases /\ "terms_agreed" \notin RefundedPhases
        /\ 1 \in 0..2 /\ 2 \in 0..2 /\ Hello = 1 /\ Terms = 2
    BY DEF Inv, TypeOK, RefundedPhases, RefundPhases, Hello, Terms
  <1>1. CASE Begin(p)
    <2>1. Quiet /\ pc'[p] = "hello"
      BY <1>1 DEF Begin, Inv, TypeOK
    <2> QED  BY <2>1, Moved DEF OneStep
  <1>2. CASE SendHello(p) \/ (p = "taker" /\ Acknowledge) \/ (p = "maker" /\ SendAgreement)
    <2>1. /\ UNCHANGED <<chain, rec, funded>>
          /\ pc'[p] \notin {"fund", "refund"}
          /\ UNCHANGED sent \/ Receive(p, 1) \/ Receive(p, 2)
      BY <1>0, <1>2, Moved
         DEF SendHello, Acknowledge, SendAgreement, legVars, Quiet, engineVars, mailVars
    <2> QED  BY <1>0, <2>1, EarlyMessage DEF OneStep
  <1>3. CASE ReadMessages(p)
    <2> DEFINE acknowledged == p = "maker" /\ got[p] >= Terms /\ rec[p].phase = "terms_proposed"
               r == [rec[p] EXCEPT !.hello = @ \/ got[p] >= Hello,
                                   !.phase = IF acknowledged THEN "terms_agreed" ELSE @]
               step == IF p = "taker" /\ got[p] >= Terms THEN "accept" ELSE "notices"
    <2>1. Write(p, r, step) /\ step \notin {"fund", "refund"}
      BY <1>3 DEF ReadMessages
    <2>2. r.notices = rec[p].notices /\ r.phase \in {rec[p].phase, "terms_agreed"}
      BY <1>0 DEF Records
    <2> HIDE DEF r, step
    <2> QED  BY <1>0, <2>1, <2>2, Moved DEF OneStep
  <1>4. CASE MarkProposed(p) \/ (p = "taker" /\ Agree)
    <2>1. /\ pc'[p] \notin {"fund", "refund"}
          /\ UNCHANGED <<chain, funded, sent>>
          /\ \/ rec'[p] = rec[p]
             \/ rec'[p] = [rec[p] EXCEPT !.phase = "terms_proposed"]
             \/ rec'[p] = [rec[p] EXCEPT !.phase = "terms_agreed"]
      BY <1>4, Moved DEF MarkProposed, Agree, AdvanceThen
    <2>2. rec'[p].notices = rec[p].notices
          /\ rec'[p].phase \in {rec[p].phase, "terms_proposed", "terms_agreed"}
      BY <1>0, <2>1 DEF Records
    <2> QED  BY <1>0, <2>1, <2>2 DEF OneStep
  <1>5. CASE (p = "taker" /\ AcceptAgreement) \/ (p = "maker" /\ StoreProposal)
    <2> DEFINE r == [rec[p] EXCEPT !.agreement = TRUE]
    <2>1. (Quiet /\ Goto(p, "ack")) \/ Write(p, r, "proposed")
      BY <1>5 DEF AcceptAgreement, StoreProposal
    <2>2. r.notices = rec[p].notices /\ r.phase = rec[p].phase
      BY <1>0 DEF Records
    <2> HIDE DEF r
    <2> QED  BY <2>1, <2>2, Moved DEF OneStep
  <1>6. CASE ReadNotice(p)
    <2>1. /\ pc'[p] # "fund" /\ UNCHANGED <<funded, sent>>
          /\ rec[p].notices \subseteq rec'[p].notices /\ rec'[p].phase = rec[p].phase
      BY <1>0, <1>6, Moved DEF ReadNotice, engineVars, mailVars, Records
    <2>2. \A t \in Txs : chain[t] = "final" => chain'[t] = "final"
      BY <1>6 DEF ReadNotice, Broadcast, legVars, Inv, TypeOK, LegsTypeOK
    <2> QED  BY <1>6, <2>1, <2>2 DEF OneStep
  <1> QED  BY <1>1, <1>2, <1>3, <1>4, <1>5, <1>6, Zenon DEF Messaging

\* The refund check.
LEMMA CheckStep ==
    ASSUME Inv, NEW p \in Parties, RefundCheck(p)
    PROVE  OneStep(p)
  <1>0. /\ Recovered(p) \in Records /\ rec[p] \in Records
        /\ Recovered(p).notices = rec[p].notices \union {p} /\ Recovered(p).phase = rec[p].phase
        /\ "waiting_for_refund" \in Phases /\ "expired" \in Phases
        /\ "expired" \notin RefundedPhases
    <2>1. Recovered(p) \in Records /\ rec[p] \in Records
      BY RecoveredTyped DEF Inv, TypeOK
    <2>2. Recovered(p).notices = rec[p].notices \union {p} /\ Recovered(p).phase = rec[p].phase
      BY <2>1 DEF Recovered, Records
    <2> QED  BY <2>1, <2>2 DEF Phases, RefundPhases, TerminalPhases, RefundedPhases
  <1>1. CASE NothingAgreed(p) \/ NoRefundCheck(p)
    BY <1>1, Moved DEF NothingAgreed, NoRefundCheck, OneStep
  <1>2. CASE ClaimBeforeRefund(p)
    <2> DEFINE r == [Recovered(p) EXCEPT !.revealed = TRUE]
    <2>1. r.notices = rec[p].notices \union {p} /\ r.phase = rec[p].phase
      BY <1>0 DEF Records
    <2>2. Write(p, r, "phase")
      BY <1>2 DEF ClaimBeforeRefund
    <2> HIDE DEF r
    <2> QED  BY <2>1, <2>2, Moved DEF OneStep
  <1>3. CASE NotDue(p)
    BY <1>0, <1>3, Moved DEF NotDue, OneStep
  <1>4. CASE StartRefund(p)
    <2> DEFINE r == [Recovered(p) EXCEPT !.phase = "waiting_for_refund"]
    <2>1. r.notices = rec[p].notices \union {p}
      BY <1>0 DEF Records
    <2>2. Write(p, r, "refund")
      BY <1>4 DEF StartRefund
    <2> HIDE DEF r
    <2> QED  BY <1>4, <2>1, <2>2, Moved DEF OneStep
  <1>5. CASE Expire(p)
    BY <1>0, <1>5, Moved DEF Expire, OneStep
  <1>6. CASE UnfundedInWindow(p)
    <2>1. AdvanceTo(p, "waiting_for_refund") \/ (Quiet /\ Goto(p, "phase"))
      BY <1>6 DEF UnfundedInWindow
    <2> QED  BY <1>0, <1>6, <2>1, Moved DEF OneStep
  <1> QED  BY <1>1, <1>2, <1>3, <1>4, <1>5, <1>6 DEF RefundCheck

\* The funding and claiming phases, and those that end a swap.
LEMMA ExecutionStep ==
    ASSUME Inv, NEW p \in Parties, Funding(p) \/ Claiming(p) \/ Ending(p)
    PROVE  OneStep(p)
  <1>0. /\ rec[p] \in Records /\ rec \in [Parties -> Records]
        /\ WorkingPhases \subseteq Phases /\ "complete" \in Phases
        /\ RefundedPhases \subseteq Phases
        /\ \A phase \in WorkingPhases \union {"complete"} : phase \notin RefundedPhases
    BY Working, PhasesReached
       DEF Inv, TypeOK, LegacySwapPhases, RefundedPhases, RefundPhases, Phases, TerminalPhases
  <1>1. ASSUME \/ Quiet /\ pc'[p] # "fund"
               \/ \E phase \in WorkingPhases \union {"complete"} :
                     AdvanceTo(p, phase) \/ RewindTo(p, phase) \/ RewindAndReturn(p, phase)
               \/ /\ rec[p].phase \in RefundedPhases
                  /\ \E phase \in RefundedPhases : AdvanceTo(p, phase) \/ RewindAndReturn(p, phase)
        PROVE  OneStep(p)
    <2>1. CASE Quiet /\ pc'[p] # "fund"
      BY <2>1, Moved DEF OneStep
    <2>2. ASSUME NEW phase \in WorkingPhases \union {"complete"},
                 AdvanceTo(p, phase) \/ RewindTo(p, phase) \/ RewindAndReturn(p, phase)
          PROVE  OneStep(p)
      BY <1>0, <2>2, Moved DEF OneStep
    <2>3. ASSUME rec[p].phase \in RefundedPhases, NEW phase \in RefundedPhases,
                 AdvanceTo(p, phase) \/ RewindAndReturn(p, phase)
          PROVE  OneStep(p)
      BY <1>0, <2>3, Moved DEF OneStep
    <2> QED  BY <1>1, <2>1, <2>2, <2>3
  <1>2. CASE Funding(p)
    <2>1. CASE TermsAgreed(p) \/ AwaitFunding(p) \/ MakerFunded(p) \/ TakerFunded(p)
      BY <1>1, <2>1, Moved DEF TermsAgreed, AwaitFunding, MakerFunded, TakerFunded, WorkingPhases
    <2>2. CASE MakerFunding(p)
      BY <2>2, Moved DEF MakerFunding, OneStep
    <2>3. CASE TakerFunding(p)
      <3>1. RewindTo(p, "maker_funding") \/ Quiet
        BY <2>3 DEF TakerFunding
      <3> QED  BY <1>1, <2>3, <3>1, Moved DEF WorkingPhases, OneStep
    <2>4. CASE FundOwnLeg(p)
      <3>1. CASE Quiet /\ Return(p)
        BY <1>1, <3>1, Moved
      <3>2. CASE Broadcast(p, Fund(p)) /\ UNCHANGED <<rec, mailVars>> /\ Goto(p, "save")
        <4>1. \A t \in Txs : chain[t] = "final" => chain'[t] = "final"
          BY <3>2 DEF Broadcast, Inv, TypeOK, LegsTypeOK
        <4>2. UNCHANGED <<rec, sent>> /\ pc'[p] = "save" /\ pc[p] = "fund"
          BY <2>4, <3>2, Moved DEF mailVars, FundOwnLeg, At
        <4> QED  BY <4>1, <4>2 DEF OneStep
      <3> QED  BY <2>4, <3>1, <3>2 DEF FundOwnLeg
    <2>5. CASE SaveNotice(p)
      <3> DEFINE r == [rec[p] EXCEPT !.notices = @ \cup {p}]
      <3>1. Write(p, r, "notify")
        BY <2>5 DEF SaveNotice
      <3>2. r.notices = rec[p].notices \union {p} /\ r.phase = rec[p].phase
        BY <1>0 DEF Records
      <3> HIDE DEF r
      <3> QED  BY <3>1, <3>2, Moved DEF OneStep
    <2>6. CASE SendNotice(p)
      <3>1. /\ UNCHANGED <<chain, rec, funded>> /\ pc'[p] = "await" /\ pc[p] = "notify"
            /\ \A q \in Parties : q # p => sent'[q] = sent[q]
        BY <2>6, Moved DEF SendNotice, Receive, legVars, At, Inv, TypeOK
      <3> QED  BY <3>1 DEF OneStep
    <2> QED  BY <1>2, <2>1, <2>2, <2>3, <2>4, <2>5, <2>6 DEF Funding
  <1>3. CASE Claiming(p)
    <2>1. CASE MakerClaiming(p) \/ MakerClaimed(p) \/ TakerClaiming(p) \/ Settle(p)
      BY <1>1, <2>1, Moved DEF MakerClaiming, MakerClaimed, TakerClaiming, Settle, WorkingPhases
    <2>2. CASE ClaimPeerLeg(p)
      <3>1. /\ UNCHANGED <<rec, funded, sent>> /\ pc'[p] # "fund"
            /\ \A t \in Txs : chain[t] = "final" => chain'[t] = "final"
        BY <2>2, Moved DEF ClaimPeerLeg, Broadcast, Quiet, legVars, engineVars, mailVars, Inv,
                           TypeOK, LegsTypeOK
      <3> QED  BY <3>1 DEF OneStep
    <2>3. CASE ObserveMakerClaim(p)
      <3> DEFINE r == [rec[p] EXCEPT !.revealed = TRUE, !.phase = "maker_claimed"]
      <3>1. Write(p, r, "refund") \/ (Quiet /\ Return(p))
        BY <2>3 DEF ObserveMakerClaim
      <3>2. r.notices = rec[p].notices /\ r.phase \notin RefundedPhases
        BY <1>0 DEF Records, WorkingPhases
      <3> HIDE DEF r
      <3> QED  BY <1>1, <3>1, <3>2, Moved DEF OneStep
    <2> QED  BY <1>3, <2>1, <2>2, <2>3 DEF Claiming
  <1>4. CASE Ending(p)
    <2>1. CASE Complete(p) \/ WaitingForRefund(p) \/ Refunded(p) \/ Expired(p)
      BY <1>1, <2>1, Moved
         DEF Complete, WaitingForRefund, Refunded, Expired, InPhase, WorkingPhases,
             RefundedPhases, RefundPhases
    <2>2. CASE Refunding(p)
      <3>1. CASE Broadcast(p, Refund(RefundedLeg(p))) /\ UNCHANGED <<rec, engineVars>> /\ Return(p)
        <4>1. \A t \in Txs : chain[t] = "final" => chain'[t] = "final"
          BY <3>1 DEF Broadcast, Inv, TypeOK, LegsTypeOK
        <4>2. UNCHANGED <<rec, funded, sent>> /\ pc'[p] = "idle"
          BY <3>1, Moved DEF engineVars, mailVars
        <4> QED  BY <4>1, <4>2 DEF OneStep
      <3> QED  BY <1>1, <2>2, <3>1, Moved
               DEF Refunding, InPhase, RefundedPhases, RefundPhases
    <2> QED  BY <1>4, <2>1, <2>2 DEF Ending
  <1> QED  BY <1>2, <1>3, <1>4

\* How far a step of an engine gets.
LEMMA EngineOneStep ==
    ASSUME Inv, NEW p \in Parties, Engine(p)
    PROVE  OneStep(p)
  BY MessagingStep, CheckStep, ExecutionStep DEF Engine

\* What holds in p's turn.
LEMMA TurnFacts ==
    ASSUME Inv, SwapInv, PassOK, PresentInv, NEW p \in Parties, Turn(p)
    PROVE  /\ ~lapsed /\ epoch # 0 /\ sent["taker"] >= Notice
           /\ \A l \in Parties : funded[l] /\ chain[Fund(l)] = "final" /\ Mined(Fund(l))
           /\ rec[p].phase \in WorkingPhases \union {"complete"} /\ Executing(p)
           /\ ~RefundDue(Peer(p))
           /\ Mined(Claim(Peer(p))) \/ Publishable(Claim(Peer(p)))
           /\ p = "taker" => Mined(Claim("taker")) /\ "maker" \in rec["taker"].notices
           /\ p = "maker" => ~RefundDue("maker")
  <1>0. /\ p = "maker" \/ p = "taker"
        /\ \A l \in Parties : sent[l] \in 0..3 /\ got[l] \in 0..3
        /\ rec[p] \in Records /\ JournalOK(p, rec[p]) /\ Notice = 3
        /\ RefundEpoch = [q \in Parties |-> IF q = "maker" THEN 3 ELSE 2]
    BY LegacyAssumption DEF Parties, Inv, TypeOK, Notice, SwapInv, RefundEpoch
  <1>1. sent["taker"] >= Notice /\ epoch \in {1, 2} /\ ~lapsed
    BY <1>0 DEF Turn, Inv, InOrder, Peer, Parties, PassOK, PollOK, LastEpoch
  <1>2. \A l \in Parties : funded[l] /\ chain[Fund(l)] = "final" /\ Mined(Fund(l))
    BY <1>1 DEF SwapInv, FundsOK, Parties, Mined
  <1>3. /\ p = "taker" => Mined(Claim("taker")) /\ "maker" \in rec["taker"].notices
        /\ p = "taker" => rec[p].phase \notin RefundedPhases
    BY <1>1, <1>2 DEF PresentInv, Turn, Parties, Mined
  <1>4. ~RefundDue(Peer(p)) /\ (p = "maker" => ~RefundDue("maker"))
    BY <1>0, <1>1 DEF Turn, RefundDue, Peer, Parties
  <1>5. rec[p].phase \in WorkingPhases \union {"complete"}
    <2>1. rec[p].phase \notin Unfunded \union {"expired"} \union RefundedPhases
      BY <1>0, <1>2, <1>3, <1>4 DEF JournalOK
    <2> QED  BY <1>0, <2>1
             DEF Records, Phases, LegacyPhases, AsyncPhases, RefundPhases, TerminalPhases,
                 RefundedPhases, WorkingPhases, Unfunded
  <1>6. Executing(p)
    BY <1>5 DEF Executing, WorkingPhases, Inv, AgreementFirst
  <1>7. Mined(Claim(Peer(p))) \/ Publishable(Claim(Peer(p)))
    <2>1. /\ Claim(Peer(p))[1] = Peer(p) /\ Claim(Peer(p))[2] = "claim"
          /\ Rival(Claim(Peer(p))) = Refund(Peer(p))
      BY TxNames, PeerIsParty
    <2>2. ~Mined(Refund(Peer(p))) /\ chain[Fund(Peer(p))] # "none" /\ Mined(Fund(Peer(p)))
      BY <1>2, <1>4, PeerIsParty DEF SwapInv, ChainInv, Out, Mined
    <2> QED  BY <2>1, <2>2 DEF Publishable
  <1> QED  BY <1>1, <1>2, <1>3, <1>4, <1>5, <1>6, <1>7

\* In p's turn a look reads the peer's notice before it checks the refund.
LEMMA TurnMessaging ==
    ASSUME Inv, SwapInv, PassOK, PresentInv, NEW p \in Parties, Messaging(p), Turn(p), Turn(p)'
    PROVE  TurnOK(p)'
  <1>1. pc'[p] \notin Watched
    BY MessagingLeads, TurnFacts
  <1>2. pc'[p] = "refund" => Peer(p) \in rec'[p].notices
    <2>1. SUFFICES ASSUME ReadNotice(p) PROVE Peer(p) \in rec'[p].notices
      BY MessagingStep
    <2>2. CASE p = "maker"
      <3>1. got[p] >= Notice
        BY <2>2 DEF Turn
      <3>2. rec' = [rec EXCEPT ![p].notices = @ \cup {Peer(p)}] /\ rec[p] \in Records
        BY <2>1, <3>1 DEF ReadNotice, Inv, TypeOK
      <3> QED  BY <3>2 DEF Inv, TypeOK, Records
    <2>3. CASE p = "taker"
      BY <2>3, TurnFacts, MessagingStep DEF OneStep, Peer
    <2> QED  BY <2>2, <2>3 DEF Parties
  <1> QED  BY <1>1, <1>2 DEF TurnOK, Watched, ExecutionSteps

\* It passes the refund check with both notices.
LEMMA TurnCheck ==
    ASSUME Inv, SwapInv, PassOK, PresentInv, NEW p \in Parties, RefundCheck(p), Turn(p),
           Looked(p)
    PROVE  TurnOK(p)'
  <1>0. /\ pc[p] = "refund" /\ Peer(p) \in rec[p].notices
        /\ Executing(p) /\ OwnFunding(p)
        /\ rec[p].phase \in WorkingPhases \union {"complete"}
    <2>1. pc[p] = "refund"
      BY DEF RefundCheck, NothingAgreed, NoRefundCheck, ClaimBeforeRefund, NotDue, StartRefund,
             Expire, UnfundedInWindow, MayRefund, At
    <2>2. TurnOK(p)
      BY DEF PresentInv
    <2> QED  BY <2>1, <2>2, TurnFacts DEF TurnOK, OwnFunding
  <1>1. Peer(p) \in rec'[p].notices
    BY <1>0, CheckStep DEF OneStep
  <1>2. CASE NoRefundCheck(p)
    <2>1. pc'[p] = "phase" /\ rec'[p] = rec[p] /\ rec[p].phase \in Settled
      BY <1>2, Moved DEF NoRefundCheck, Settled
    <2> QED  BY <1>1, <2>1 DEF TurnOK, ExecutionSteps
  <1>3. CASE ClaimBeforeRefund(p) \/ NotDue(p)
    <2> DEFINE r == [Recovered(p) EXCEPT !.revealed = TRUE]
    <2>1. Recovered(p) \in Records /\ rec[p] \in Records
      BY RecoveredTyped DEF Inv, TypeOK
    <2>2. r.notices = rec[p].notices \union {p} /\ Recovered(p).notices = rec[p].notices \union {p}
      BY <2>1 DEF Recovered, Records
    <2>3. Write(p, r, "phase") \/ Write(p, Recovered(p), "phase")
      BY <1>3 DEF ClaimBeforeRefund, NotDue
    <2> HIDE DEF r
    <2>4. pc'[p] = "phase" /\ p \in rec'[p].notices
      BY <2>2, <2>3, Moved
    <2> QED  BY <1>1, <2>4 DEF TurnOK, ExecutionSteps
  <1>4. ~StartRefund(p)
    BY TurnFacts DEF StartRefund, Seen, Parties
  <1>5. ~NothingAgreed(p) /\ ~Expire(p) /\ ~UnfundedInWindow(p)
    BY <1>0 DEF NothingAgreed, Expire, UnfundedInWindow
  <1> QED  BY <1>2, <1>3, <1>4, <1>5 DEF RefundCheck

\* It goes through the funding phases without a wait.
LEMMA TurnFunding ==
    ASSUME Inv, SwapInv, PassOK, PresentInv, NEW p \in Parties, Funding(p), Turn(p),
           Looked(p), Looked(p)'
    PROVE  TurnOK(p)'
  <1>0. /\ pc[p] \notin {"fund", "save"} /\ {p, Peer(p)} \subseteq rec[p].notices
        /\ rec[p].phase # "terms_agreed"
    <2>1. TurnOK(p) /\ rec[p].phase \in WorkingPhases \union {"complete"}
      BY TurnFacts DEF PresentInv
    <2>2. pc[p] \in ExecutionSteps \/ (pc[p] = "phase" /\ rec[p].phase \notin Settled)
      BY <2>1, ExecutionFrom, Working DEF WorkingPhases
    <2> QED  BY <2>1, <2>2 DEF TurnOK, WorkingPhases
  <1>1. \A l \in Parties : FundingConfirmed(p, l)
    BY <1>0, TurnFacts DEF FundingConfirmed, Parties, Peer
  <1>2. {p, Peer(p)} \subseteq rec'[p].notices
    BY <1>0, ExecutionStep DEF OneStep
  <1>3. pc'[p] \in {"refund", "notify", "await"}
    <2>0. /\ \A step : Goto(p, step) => pc'[p] = step
          /\ \A phase : AdvanceTo(p, phase) \/ RewindTo(p, phase) => pc'[p] = "refund"
      BY DEF Goto, AdvanceTo, AdvanceThen, RewindTo, Write, Inv, TypeOK
    <2>1. "maker" \in Parties /\ "taker" \in Parties /\ Peer("maker") = "taker"
      BY DEF Parties, Peer
    <2>2. CASE TermsAgreed(p) \/ FundOwnLeg(p) \/ SaveNotice(p)
      BY <1>0, <2>2 DEF TermsAgreed, FundOwnLeg, SaveNotice, InPhase, At
    <2>3. CASE MakerFunding(p) \/ TakerFunding(p)
      <3>1. FundingStep(p, "maker") \in {"notify", "await"}
            /\ FundingStep(p, "taker") \in {"notify", "await"}
        BY <1>0 DEF FundingStep
      <3> QED  BY <1>1, <2>0, <2>1, <2>3, <3>1 DEF MakerFunding, TakerFunding
    <2>4. CASE SendNotice(p)
      BY <2>0, <2>4 DEF SendNotice
    <2>5. CASE AwaitFunding(p)
      BY <1>1, <2>0, <2>1, <2>5 DEF AwaitFunding
    <2>6. CASE MakerFunded(p) \/ TakerFunded(p)
      BY <1>0, <1>1, <2>0, <2>1, <2>6 DEF MakerFunded, TakerFunded, Parties
    <2> QED  BY <2>2, <2>3, <2>4, <2>5, <2>6 DEF Funding
  <1> QED  BY <1>2, <1>3 DEF TurnOK

\* It publishes p's claim of the peer's leg before it ends.
LEMMA TurnClaiming ==
    ASSUME Inv, SwapInv, PassOK, PresentInv, NEW p \in Parties, Claiming(p), Turn(p),
           Looked(p), Looked(p)', Observable' = Observable
    PROVE  TurnOK(p)'
  <1>0. {p, Peer(p)} \subseteq rec[p].notices /\ TurnOK(p)
    <2>1. TurnOK(p) /\ rec[p].phase \in WorkingPhases \union {"complete"}
      BY TurnFacts DEF PresentInv
    <2>2. pc[p] \in ExecutionSteps \/ (pc[p] = "phase" /\ rec[p].phase \notin Settled)
      BY <2>1, ExecutionFrom, Working DEF WorkingPhases
    <2> QED  BY <2>1, <2>2 DEF TurnOK
  <1>1. \A l \in Parties : FundingConfirmed(p, l)
    BY <1>0, TurnFacts DEF FundingConfirmed, Parties, Peer
  <1>2. {p, Peer(p)} \subseteq rec'[p].notices
    BY <1>0, ExecutionStep DEF OneStep
  <1>3. /\ \A step : Goto(p, step) => pc'[p] = step
        /\ \A phase : AdvanceTo(p, phase) \/ RewindTo(p, phase) => pc'[p] = "refund"
        /\ Return(p) => pc'[p] = "idle"
        /\ \A t : Seen(p, t)' <=> Seen(p, t)
        /\ "maker" \in Parties /\ "taker" \in Parties
    BY DEF Goto, Return, AdvanceTo, AdvanceThen, RewindTo, Write, Inv, TypeOK, Parties,
           Observable, legVars, Seen, Mined
  <1>4. p = "taker" => ClaimSeen(p, "taker")
    BY <1>0, TurnFacts DEF ClaimSeen, Seen
  <1>5. CASE MakerClaiming(p)
    <2>1. pc'[p] = IF p = "maker" THEN "claim" ELSE "observe"
      BY <1>1, <1>3, <1>5 DEF MakerClaiming
    <2> QED  BY <1>2, <2>1 DEF TurnOK
  <1>6. CASE ClaimPeerLeg(p)
    <2>1. Seen(p, Claim(Peer(p)))'
      <3>1. CASE Publishable(Claim(Peer(p)))
        <4>1. Broadcast(p, Claim(Peer(p)))
          BY <1>6, <3>1 DEF ClaimPeerLeg
        <4>2. known'[p] = IF Mined(Claim(Peer(p))) THEN known[p] ELSE known[p] \union {Claim(Peer(p))}
          BY <4>1 DEF Broadcast, Inv, TypeOK, LegsTypeOK
        <4> QED  BY <1>3, <4>2 DEF Seen
      <3>2. CASE ~Publishable(Claim(Peer(p)))
        BY <1>3, <3>2, TurnFacts DEF Seen
      <3> QED  BY <3>1, <3>2
    <2>2. pc'[p] \notin {"fund", "save"}
      BY <1>3, <1>6 DEF ClaimPeerLeg
    <2> QED  BY <1>2, <2>1, <2>2 DEF TurnOK
  <1>7. CASE ObserveMakerClaim(p)
    <2>1. ClaimSeen(p, "taker")
      <3>1. CASE p = "maker"
        BY <1>0, <1>7, <3>1 DEF ObserveMakerClaim, At, TurnOK, ClaimSeen, Peer
      <3> QED  BY <1>4, <3>1 DEF Parties
    <2>2. pc'[p] = "refund"
      BY <1>3, <1>7, <2>1 DEF ObserveMakerClaim, Write
    <2> QED  BY <1>2, <2>2 DEF TurnOK
  <1>8. CASE MakerClaimed(p)
    <2>1. pc'[p] = "refund" \/ (pc'[p] = "idle" /\ p = "maker" /\ Seen(p, Claim("taker")))
      BY <1>3, <1>8 DEF MakerClaimed, ClaimSeen, Parties
    <2> QED  BY <1>2, <1>3, <2>1 DEF TurnOK, Peer
  <1>9. CASE TakerClaiming(p)
    <2>1. \/ pc'[p] = "refund"
          \/ pc'[p] = "claim"
          \/ pc'[p] = "settle" /\ p = "maker" /\ Seen(p, Claim("taker"))
      BY <1>3, <1>9 DEF TakerClaiming, ClaimSeen, Parties
    <2> QED  BY <1>2, <1>3, <2>1 DEF TurnOK, Peer
  <1>10. CASE Settle(p)
    <2>1. Seen(p, Claim(Peer(p))) /\ pc'[p] \in {"refund", "idle"}
      BY <1>0, <1>3, <1>10 DEF Settle, At, TurnOK
    <2> QED  BY <1>2, <1>3, <2>1 DEF TurnOK
  <1> QED  BY <1>5, <1>6, <1>7, <1>8, <1>9, <1>10 DEF Claiming

\* It ends otherwise only where the swap is complete.
LEMMA TurnEnding ==
    ASSUME Inv, SwapInv, PassOK, PresentInv, NEW p \in Parties, Ending(p), Turn(p),
           Looked(p), Looked(p)', Observable' = Observable
    PROVE  TurnOK(p)'
  <1>1. Complete(p)
    <2>1. rec[p].phase \in WorkingPhases \union {"complete"}
      BY TurnFacts
    <2> QED  BY <2>1 DEF Ending, Complete, WaitingForRefund, Refunding, Refunded, Expired, InPhase,
                         WorkingPhases
  <1>2. \A phase : ~RewindAndReturn(p, phase)
    BY DEF RewindAndReturn, Looked, Inv, TypeOK
  <1>3. /\ Mined(Claim("maker")) /\ Seen(p, Claim("taker")) /\ pc'[p] = "idle"
    BY <1>1, <1>2, Moved DEF Complete, ClaimSeen
  <1>4. \A t : Seen(p, t)' <=> Seen(p, t)
    BY DEF Observable, legVars, Seen, Mined
  <1> QED  BY <1>3, <1>4 DEF TurnOK, Peer, Seen, ExecutionSteps

\* A step of an engine in the turn of one of the traders.
LEMMA TurnLooks ==
    ASSUME Inv, SwapInv, PassOK, PresentInv, NEW p \in Parties, Engine(p), NEW q \in Parties
    PROVE  TurnOK(q)'
  <1> SUFFICES ASSUME Looked(q)', Turn(q)' PROVE TurnOK(q)'
    BY DEF TurnOK
  <1>0. Steps(p)
    BY EngineShapes DEF Inv
  <1>1. CASE q # p
    <2>1. /\ Observable' = Observable
          /\ poll'[q] = poll[q] /\ pc'[q] = pc[q] /\ rec'[q] = rec[q]
      BY <1>0, <1>1, UndisturbedPeer
    <2>2. TurnOK(q)
      BY DEF PresentInv
    <2> QED  BY <2>1, <2>2 DEF TurnOK, Turn, Looked, Seen, Mined, Observable, legVars, mailVars
  <1>2. CASE q = p
    <2>1. Observable' = Observable /\ (Looked(p) \/ Begin(p)) /\ Looked(p)'
      BY <1>0, <1>2, Undisturbed DEF PassOK
    <2>2. Turn(p) /\ Turn(p)'
      BY <1>2, <2>1 DEF Turn, Observable, legVars, mailVars
    <2>3. CASE Messaging(p)
      BY <1>2, <2>2, <2>3, TurnMessaging
    <2>4. CASE ~Messaging(p)
      <3>1. Looked(p)
        BY <2>1, <2>4 DEF Messaging
      <3> QED  BY <1>2, <2>1, <2>2, <2>4, <3>1, TurnCheck, TurnFunding, TurnClaiming, TurnEnding
               DEF Engine
    <2> QED  BY <2>3, <2>4
  <1> QED  BY <1>1, <1>2

\* A step of an engine keeps the order of the claims.
LEMMA EnginePresent ==
    ASSUME Inv, SwapInv, PassOK, PresentInv, NEW p \in Parties, Engine(p)
    PROVE  PresentInv'
  <1>0. /\ OneStep(p) /\ Steps(p) /\ epoch' = epoch
        /\ "taker" \in Parties /\ "maker" \in Parties /\ "taker" # "maker"
        /\ \A l \in Parties : Claim(l) \in Txs
    BY EngineOneStep, EngineShapes, FundIsTx DEF Inv, Steps, Parties
  <1>1. funded'["taker"] \/ pc'["taker"] = "fund" => "maker" \in rec'["taker"].notices
    <2>1. CASE p = "taker"
      <3>1. rec["taker"].notices \subseteq rec'["taker"].notices
        BY <1>0, <2>1 DEF OneStep
      <3>2. ASSUME pc'["taker"] = "fund" PROVE "maker" \in rec["taker"].notices
        <4>1. MakerFunding("taker") \/ TakerFunding("taker")
          BY <1>0, <2>1, <3>2 DEF OneStep
        <4>2. ~MakerFunding("taker")
          BY <3>2, Moved, <1>0 DEF MakerFunding, FundingStep
        <4>3. FundingConfirmed("taker", "maker")
          BY <1>0, <3>2, <4>1, <4>2, Moved DEF TakerFunding, RewindTo, Write
        <4> QED  BY <4>3 DEF FundingConfirmed
      <3> QED  BY <1>0, <2>1, <3>1, <3>2 DEF OneStep, PresentInv
    <2>2. CASE p # "taker"
      BY <1>0, <2>2 DEF Steps, PresentInv
    <2> QED  BY <2>1, <2>2
  <1>2. sent'["taker"] >= Notice /\ epoch' >= 2 => sent["taker"] >= Notice
    <2> SUFFICES ASSUME epoch >= 2, sent'["taker"] >= Notice, ~(sent["taker"] >= Notice)
                 PROVE  FALSE
      BY <1>0
    <2>1. p = "taker" /\ pc["taker"] = "notify"
      BY <1>0 DEF OneStep
    <2>2. ~TooLate("taker")
      BY <1>0, <2>1 DEF SwapInv, PlaceOK, ExecutionSteps
    <2> QED  BY <1>0, <2>2 DEF TooLate, Inv, TypeOK, Notice
  <1>3. sent'["taker"] >= Notice /\ epoch' >= 2 => chain'[Claim("taker")] = "final"
    BY <1>0, <1>2 DEF PresentInv, OneStep
  <1>4. sent'["taker"] >= Notice /\ epoch' = 2 => rec'["taker"].phase \notin RefundedPhases
    <2> SUFFICES ASSUME sent'["taker"] >= Notice, epoch = 2,
                        rec'["taker"].phase \in RefundedPhases
                 PROVE  FALSE
      BY <1>0
    <2>1. /\ chain[Claim("taker")] = "final" /\ rec["taker"].phase \notin RefundedPhases
          /\ funded["taker"]
      BY <1>0, <1>2 DEF PresentInv, SwapInv, FundsOK
    <2>2. p = "taker"
      BY <1>0, <2>1 DEF Steps
    <2>3. StartRefund("taker") \/ UnfundedInWindow("taker")
      BY <1>0, <2>1, <2>2 DEF OneStep
    <2> QED  BY <2>1, <2>3 DEF StartRefund, UnfundedInWindow, OwnFunding, Seen, Mined
  <1>5. sent'["taker"] >= Notice /\ epoch' = 3 /\ "taker" \in Prompt =>
            chain'[Claim("maker")] = "final"
    BY <1>0, <1>2 DEF PresentInv, OneStep
  <1>6. \A q \in Parties : TurnOK(q)'
    BY TurnLooks
  <1> QED  BY <1>1, <1>3, <1>4, <1>5, <1>6 DEF PresentInv

\* A trader that was present in its turn has its claim mined before the next
\* height.
LEMMA TurnEnds ==
    ASSUME Inv, SwapInv, PassOK, PresentInv, Quiescent, NEW p \in Parties, p \in Prompt, Turn(p)
    PROVE  Mined(Claim(Peer(p)))
  <1>1. Looked(p) /\ pc[p] = "idle" /\ TurnOK(p)
    BY DEF Quiescent, Attentive, Looked, At, PresentInv
  <1>2. Seen(p, Claim(Peer(p)))
    BY <1>1 DEF TurnOK
  <1>3. chain[Claim(Peer(p))] # "pool"
    BY TurnFacts, PeerIsParty, FundIsTx, TxNames DEF Quiescent, PoolsDrained
  <1> QED  BY <1>2, <1>3 DEF Seen, SwapInv, ChainInv

\* The next height keeps the order of the claims.
LEMMA TickPresent ==
    ASSUME Inv, SwapInv, PassOK, PresentInv, "maker" \in Prompt, Tick
    PROVE  PresentInv'
  <1>0. /\ epoch \in {0, 1, 2} /\ epoch' = epoch + 1
        /\ UNCHANGED <<rec, funded, sent, got, pc>>
        /\ \A p \in Parties : poll'[p] = "stale" /\ sent[p] \in 0..3
        /\ Quiescent /\ Notice = 3
        /\ "maker" \in Parties /\ "taker" \in Parties /\ \A l \in Parties : Claim(l) \in Txs
    BY FundIsTx DEF Tick, NextEpoch, engineVars, mailVars, Stale, Parties, Inv, TypeOK, LegsTypeOK,
                    LastEpoch, Notice
  <1>1. \A u \in Txs : (chain'[u] = "final") <=> Mined(u)
    BY Buried
  <1>2. ASSUME sent["taker"] >= Notice, epoch = 1 PROVE Mined(Claim("taker"))
    <2>1. Turn("maker")
      BY <1>0, <1>2 DEF Quiescent, Attentive, Peer, Turn
    <2> QED  BY <1>0, <2>1, TurnEnds DEF Peer
  <1>3. ASSUME sent["taker"] >= Notice, epoch = 2, "taker" \in Prompt
        PROVE  Mined(Claim("maker"))
    <2>1. Turn("taker")
      BY <1>0, <1>3 DEF Turn
    <2> QED  BY <1>0, <1>3, <2>1, TurnEnds DEF Peer
  <1>4. ASSUME sent["taker"] >= Notice, epoch = 1 PROVE rec["taker"].phase \notin RefundedPhases
    <2>1. funded["taker"] /\ ~RefundDue("taker")
      BY <1>0, <1>4, LegacyAssumption DEF SwapInv, FundsOK, RefundDue, RefundEpoch, Parties
    <2> QED  BY <1>0, <2>1 DEF SwapInv, JournalOK
  <1>5. sent["taker"] >= Notice /\ epoch >= 2 => Mined(Claim("taker"))
    BY <1>0 DEF PresentInv, Mined
  <1>6. \A p \in Parties : TurnOK(p)'
    BY <1>0 DEF TurnOK, Looked
  <1>7. funded'["taker"] \/ pc'["taker"] = "fund" => "maker" \in rec'["taker"].notices
    BY <1>0 DEF PresentInv
  <1>8. sent'["taker"] >= Notice /\ epoch' >= 2 => chain'[Claim("taker")] = "final"
    BY <1>0, <1>1, <1>2, <1>5
  <1>9. sent'["taker"] >= Notice /\ epoch' = 2 => rec'["taker"].phase \notin RefundedPhases
    BY <1>0, <1>4
  <1>10. sent'["taker"] >= Notice /\ epoch' = 3 /\ "taker" \in Prompt => chain'[Claim("maker")] = "final"
    BY <1>0, <1>1, <1>3
  <1> QED  BY <1>6, <1>7, <1>8, <1>9, <1>10 DEF PresentInv

\* Events that change no journal, send no message and move no clock.
LEMMA EventPresent ==
    ASSUME PresentInv, UNCHANGED <<rec, funded, sent, epoch>>,
           pc'["taker"] \in {pc["taker"], "idle"},
           \A u \in Txs : chain[u] = "final" => chain'[u] = "final",
           \A p \in Parties : TurnOK(p)'
    PROVE  PresentInv'
  BY FundIsTx DEF PresentInv, Parties

\* Every step keeps the order of the claims.
LEMMA NextPresent ==
    ASSUME Inv, SwapInv, PassOK, PresentInv, "maker" \in Prompt, [Next]_vars
    PROVE  PresentInv'
  <1>1. CASE \E p \in Parties : Engine(p)
    BY <1>1, EnginePresent
  <1>2. ASSUME NEW p \in Parties, Abort(p) PROVE PresentInv'
    <2>1. /\ Observable' = Observable /\ UNCHANGED <<rec, funded>>
          /\ poll'[p] = "stale"
          /\ \A q \in Parties : q # p => poll'[q] = poll[q] /\ pc'[q] = pc[q]
          /\ pc'["taker"] \in {pc["taker"], "idle"}
      BY <1>2 DEF Abort, engineVars, Observable, Inv, TypeOK
    <2>2. ASSUME NEW q \in Parties PROVE TurnOK(q)'
      <3>1. CASE q = p
        BY <2>1, <3>1 DEF TurnOK, Looked
      <3>2. CASE q # p
        BY <2>1, <3>2 DEF PresentInv, TurnOK, Turn, Looked, Seen, Mined, Observable, legVars, mailVars
      <3> QED  BY <3>1, <3>2
    <2> QED  BY <2>1, <2>2, EventPresent DEF Observable, legVars, mailVars
  <1>3. CASE (\E p \in Parties : Deliver(p)) \/ Network \/ Disturbance \/ Lapse
    <2>1. /\ \A p \in Parties : poll'[p] = "stale"
          /\ UNCHANGED <<rec, funded, sent, pc>>
      BY <1>3 DEF Deliver, Network, Disturbance, Lapse, Stale, engineVars, mailVars
    <2>2. \A p \in Parties : TurnOK(p)'
      BY <2>1 DEF TurnOK, Looked
    <2>3. epoch' = epoch /\ \A u \in Txs : chain[u] = "final" => chain'[u] = "final"
      <3>1. CASE \E p \in Parties : Deliver(p)
        BY <3>1 DEF Deliver, legVars
      <3>2. CASE Network \/ Disturbance
        <4>1. PICK t \in Txs, p \in Parties :
                  Confirm(t) \/ Gossip(p, t) \/ Reorg(t) \/ Evict(t)
          BY <3>2 DEF Network, Disturbance, Parties
        <4>2. NetworkStep
          BY <4>1, ChainConfirm, ChainReorg, ChainEvict, ChainGossip DEF Inv, TypeOK, SwapInv
        <4> QED  BY <4>2 DEF NetworkStep
      <3>3. CASE Lapse
        BY <3>3 DEF Lapse
      <3> QED  BY <1>3, <3>1, <3>2, <3>3
    <2> QED  BY <2>1, <2>2, <2>3, EventPresent
  <1>4. CASE Tick
    BY <1>4, TickPresent
  <1>5. CASE UNCHANGED vars
    <2>1. Observable' = Observable /\ UNCHANGED <<poll, pc, rec, funded, sent, epoch, chain>>
      BY <1>5 DEF vars, Observable, legVars, engineVars, mailVars
    <2>2. \A q \in Parties : TurnOK(q)'
      BY <2>1 DEF PresentInv, TurnOK, Turn, Looked, Seen, Mined, Observable, legVars, mailVars
    <2> QED  BY <2>1, <2>2, EventPresent
  <1> QED  BY <1>1, <1>2, <1>3, <1>4, <1>5 DEF Next

\* The order of the claims holds before the first step.
LEMMA InitPresent == Init => PresentInv
  BY DEF Init, LegsInit, PresentInv, TurnOK, Looked, Notice, Parties

\* A maker whose application stays open never loses: the taker's claim of its
\* leg and the taker's refund are never both on the chains, and neither does a
\* taker that stays open together with it (driveExecution: a claim of the own
\* leg is looked for before its refund, and the peer's leg claimed before its
\* height).  A taker that is present alone may lose.
THEOREM PresentMakerSafe ==
    ASSUME "taker" \in Prompt => "maker" \in Prompt
    PROVE  Spec => []PresentNeverLose
  <1>1. CASE Prompt = {}
    <2>1. PresentNeverLose
      BY <1>1 DEF PresentNeverLose
    <2> QED  BY <2>1, PTL
  <1>2. CASE "maker" \in Prompt
    <2>1. Inv /\ SwapInv /\ PassOK /\ PresentInv /\ [Next]_vars => PresentInv'
      BY <1>2, NextPresent
    <2>2. Inv /\ SwapInv /\ PassOK /\ PresentInv => PresentNeverLose
      <3> SUFFICES ASSUME Inv, SwapInv, PassOK, PresentInv, NEW p \in Prompt,
                          Mined(Claim(p)), Mined(Refund(Peer(p)))
                   PROVE  FALSE
        BY DEF PresentNeverLose
      <3>1. p \in Parties
        BY LegacyAssumption
      <3>2. sent["taker"] >= Notice
        BY <3>1 DEF SwapInv, FundsOK, Mined, Out, Parties
      <3>3. RefundDue(Peer(p)) /\ ~Out(Claim(Peer(p)))
        BY <3>1, PeerIsParty, TxNames DEF SwapInv, ChainInv, Spends, Mined, Out
      <3>4. CASE p = "maker"
        BY <3>2, <3>3, <3>4, LegacyAssumption
           DEF PresentInv, RefundDue, RefundEpoch, Peer, Parties, Out
      <3>5. CASE p = "taker"
        <4>1. epoch = 3
          BY <3>3, <3>5, LegacyAssumption
             DEF RefundDue, RefundEpoch, Peer, Parties, Inv, TypeOK, LegsTypeOK, LastEpoch
        <4> QED  BY <3>2, <3>3, <3>5, <4>1 DEF PresentInv, Peer, Out
      <3> QED  BY <3>1, <3>4, <3>5 DEF Parties
    <2> QED  BY <2>1, <2>2, InitPresent, Invariance, SwapInvariance, PassInvariance, PTL DEF Spec
  <1>3. Prompt = {} \/ "maker" \in Prompt
    BY LegacyAssumption DEF Parties
  <1> QED  BY <1>1, <1>2, <1>3
=============================================================================
