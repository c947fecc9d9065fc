--------------------------- MODULE OutcomeProofs ----------------------------
(***************************************************************************)
(* How a version 2 swap ends when its taker is attentive: what a journal   *)
(* that looked reports is true of the chains, and once both traders have   *)
(* looked after the last refund height no amount is left in a contract.    *)
(* Undisturbed by reorganisations, the two engines implement the abstract  *)
(* swap, in which no leg is claimed while the other returns to its funder. *)
(***************************************************************************)
EXTENDS AsyncSwapProofs

\* The phases a swap has only with the maker's notice, and those among them
\* that it has only once the secret was seen.
ClaimPhases ==
    {"async_maker_funded", "async_taker_claiming", "async_taker_claimed",
     "async_maker_claiming", "complete"}
RevealedPhases == {"async_taker_claimed", "async_maker_claiming", "complete"}

\* What a record must hold for the phase it has.
RecordInv ==
    /\ rec["taker"].phase \in ClaimPhases => rec["taker"].notice
    /\ rec["taker"].phase \in RevealedPhases => rec["taker"].template
    /\ pc["taker"] \in {"claim", "proxy", "observe"} =>
          rec["taker"].notice /\ rec["taker"].template
    /\ rec["maker"].phase \in RefundedPhases => rec["maker"].notice

Settled == TerminalPhases \union RefundPhases

\* A pass that acts on a phase acts on one in which the swap still moves.
MidPass(p) == pc[p] \in {"idle", "refund", "phase"} \/ rec[p].phase \notin Settled

\* p's money is out, its refund is due and the secret will never be revealed.
Alone(p) == epoch = 3 /\ "notice" \notin mail /\ Out(Fund(p))

\* A pass of p in which nothing happened ends with the truth in the journal,
\* and with the refund on its way when p is alone.
EndInv(p) ==
    /\ poll[p] = "running" => pc[p] # "idle"
    /\ poll[p] = "done" => pc[p] = "idle"
    /\ MidPass(p)
    /\ poll[p] = "done" /\ rec[p].phase = "complete" => \A l \in Parties : Mined(Claim(l))
    /\ poll[p] = "done" /\ rec[p].phase = "refunded" => Mined(Refund(p))
    /\ poll[p] = "running" /\ Alone(p) =>
          /\ pc[p] \in {"refund", "phase"}
          /\ pc[p] = "phase" => rec[p].phase \in RefundedPhases \union {"complete"}
    /\ poll[p] = "done" /\ Alone(p) => Out(Refund(p))

OutcomeInv == RecordInv /\ \A p \in Parties : EndInv(p)

-----------------------------------------------------------------------------
(* The records *)

\* The taker's step keeps the messages that its phase rests on.
LEMMA TakerRecord ==
    ASSUME TypeOK, TakerInv, RecordInv, EngineStep("taker")
    PROVE  /\ rec'["taker"].phase \in ClaimPhases => rec'["taker"].notice
           /\ rec'["taker"].phase \in RevealedPhases => rec'["taker"].template
           /\ pc'["taker"] \in {"claim", "proxy", "observe"} =>
                 rec'["taker"].notice /\ rec'["taker"].template
  <1>0. /\ "taker" \in Parties /\ "taker" # "maker"
        /\ rec["taker"] \in Records /\ rec \in [Parties -> Records]
    BY DEF Parties, TypeOK
  <1>1. CASE Begins
    <2>1. /\ rec["taker"].notice => rec'["taker"].notice
          /\ rec["taker"].template => rec'["taker"].template
      <3>1. LET r == Initialized(rec["taker"])
            IN  /\ r \in Records /\ r.notice = rec["taker"].notice
                /\ r.template = rec["taker"].template
        BY <1>0, InitializedTyped DEF Initialized, Records
      <3>2. CASE Begin("taker") \/ RefuseTemplate
        <4>1. rec'["taker"] = Initialized(rec["taker"])
          BY <1>0, <3>2 DEF Begin, RefuseTemplate
        <4> QED  BY <3>1, <4>1
      <3>3. CASE BeginWithMessages
        <4>1. rec'["taker"] = [Initialized(rec["taker"]) EXCEPT
                    !.template = rec["taker"].template \/ "template" \in inbox,
                    !.notice = rec["taker"].notice \/ "notice" \in inbox]
          BY <1>0, <3>3 DEF BeginWithMessages
        <4> QED  BY <3>1, <4>1 DEF Records
      <3> QED  BY <1>1, <3>2, <3>3 DEF Begins
    <2> QED  BY <1>1, <2>1, TakerBegins DEF RecordInv, ClaimPhases, RevealedPhases
  <1>2. CASE RefundCheck("taker")
    <2>1. RefundChecked("taker")
      BY <1>0, <1>2, RefundCheckEffects
    <2>2. pc'["taker"] \in {"refund", "phase", "idle"}
      BY <1>0, <2>1, GotoEffect, ReturnEffect DEF RefundChecked
    <2> QED  BY <1>0, <2>1, <2>2 DEF RefundChecked, RecordInv, ClaimPhases, RevealedPhases
  <1>3. CASE TakerFunding("taker") \/ MarkSubmitted("taker") \/ TakerFunded("taker")
             \/ MakerFunding("taker")
    <2>1. Effect("taker", {"async_taker_funding", "async_taker_funded", "async_maker_funding"},
                 {"refund", "mark", "await"})
      BY <1>0, <1>3, FundingEffects DEF Effect
    <2>2. pc'["taker"] \in {"refund", "mark", "await", "idle"}
      BY <1>0, <2>1, GotoEffect, ReturnEffect DEF Effect
    <2> QED  BY <1>0, <2>1, <2>2 DEF Effect, RecordInv, ClaimPhases, RevealedPhases
  <1>4. CASE AwaitMakerFunding("taker") \/ MakerFunded("taker")
    <2>1. Effect("taker", {"async_taker_funding", "async_maker_funding", "async_maker_funded",
                           "async_taker_claiming"}, {"refund"})
      BY <1>0, <1>4, FundingEffects DEF Effect
    <2>2. pc'["taker"] \in {"refund", "idle"}
      BY <1>0, <2>1, GotoEffect, ReturnEffect DEF Effect
    <2>3. rec'["taker"].phase \in ClaimPhases => rec["taker"].notice
      <3>1. CASE AwaitMakerFunding("taker")
        <4>1. FundingConfirmed("taker", "maker") \/ UNCHANGED rec
          BY <3>1 DEF AwaitMakerFunding, Quiet
        <4> QED  BY <4>1 DEF FundingConfirmed, RecordInv
      <3>2. CASE MakerFunded("taker")
        BY <3>2 DEF MakerFunded, InPhase, RecordInv, ClaimPhases
      <3> QED  BY <1>4, <3>1, <3>2
    <2> QED  BY <1>0, <2>1, <2>2, <2>3 DEF Effect, RecordInv, RevealedPhases
  <1>5. CASE TakerClaiming("taker")
    <2>1. Effect("taker", {"async_taker_funding", "async_maker_funding"}, {"refund", "claim"})
      BY <1>0, <1>5, ClaimingEffects DEF Effect
    <2>2. pc'["taker"] \in {"refund", "claim", "idle"}
      BY <1>0, <2>1, GotoEffect, ReturnEffect DEF Effect
    <2>3. pc'["taker"] = "claim" => rec["taker"].notice /\ rec["taker"].template
      <3>1. CASE ~FundingConfirmed("taker", "taker") \/ ~FundingConfirmed("taker", "maker")
        <4>1. \E phase : RewindTo("taker", phase)
          BY <1>5, <3>1 DEF TakerClaiming
        <4> QED  BY <1>0, <4>1, AdvanceEffect, GotoEffect
      <3>2. CASE FundingConfirmed("taker", "maker") /\ FundingConfirmed("taker", "taker")
                 /\ LacksTemplate("taker")
        BY <1>0, <1>5, <3>2, ReturnEffect DEF TakerClaiming
      <3>3. CASE FundingConfirmed("taker", "maker") /\ ~LacksTemplate("taker")
        BY <3>3 DEF FundingConfirmed, LacksTemplate
      <3> QED  BY <3>1, <3>2, <3>3
    <2> QED  BY <1>0, <2>1, <2>2, <2>3 DEF Effect, RecordInv, ClaimPhases, RevealedPhases
  <1>6. CASE ClaimMakerLeg \/ ProxyMakerClaim
    <2>1. Effect("taker", {}, {"proxy", "observe"})
      BY <1>0, <1>6, ClaimingEffects DEF Effect
    <2>2. rec["taker"].notice /\ rec["taker"].template
      BY <1>6 DEF ClaimMakerLeg, ProxyMakerClaim, At, RecordInv
    <2> QED  BY <1>0, <2>1, <2>2 DEF Effect
  <1>7. CASE ObserveTakerClaim("taker")
    <2>1. Effect("taker", {"async_taker_claimed"}, {"refund"})
      BY <1>0, <1>7, ClaimingEffects
    <2>2. rec["taker"].notice /\ rec["taker"].template
      BY <1>7 DEF ObserveTakerClaim, At, RecordInv
    <2> QED  BY <1>0, <2>1, <2>2 DEF Effect
  <1>8. CASE TakerClaimed("taker") \/ MakerClaiming("taker") \/ Settle("taker") \/ Complete("taker")
    <2>1. Effect("taker", {"async_taker_claiming", "async_maker_claiming", "async_taker_funding",
                           "complete"}, {"refund", "settle"})
      BY <1>0, <1>8, ClaimingEffects, EndingEffects DEF Effect
    <2>2. pc'["taker"] \in {"refund", "settle", "idle"}
      BY <1>0, <2>1, GotoEffect, ReturnEffect DEF Effect
    <2>3. rec'["taker"].phase = rec["taker"].phase \/ rec["taker"].phase \in RevealedPhases
      <3>1. CASE TakerClaimed("taker") \/ MakerClaiming("taker") \/ Complete("taker")
        BY <3>1 DEF TakerClaimed, MakerClaiming, Complete, InPhase, RevealedPhases
      <3>2. CASE Settle("taker")
        <4>1. UNCHANGED rec \/ ValidAdvance(rec["taker"].phase, "complete")
          BY <3>2 DEF Settle, AdvanceTo, Quiet
        <4> QED
          BY <1>0, <4>1 DEF ValidAdvance, Advances, Records, LegacyPhases, RevealedPhases
      <3> QED  BY <1>8, <3>1, <3>2
    <2>4. RevealedPhases \subseteq ClaimPhases
      BY DEF RevealedPhases, ClaimPhases
    <2> QED  BY <1>0, <2>1, <2>2, <2>3, <2>4 DEF Effect, RecordInv
  <1>9. CASE WaitingForRefund("taker") \/ Refunding("taker") \/ Refunded("taker") \/ Expired("taker")
    <2>1. Effect("taker", {"refunding", "refunded"}, {"refund"})
      BY <1>0, <1>9, EndingEffects DEF Effect
    <2>2. pc'["taker"] \in {"refund", "idle"}
      BY <1>0, <2>1, GotoEffect, ReturnEffect DEF Effect
    <2> QED  BY <1>0, <2>1, <2>2 DEF Effect, RecordInv, ClaimPhases, RevealedPhases
  <1> QED
    BY <1>0, <1>1, <1>2, <1>3, <1>4, <1>5, <1>6, <1>7, <1>8, <1>9 DEF EngineStep, Begins

\* The maker's step keeps the notice that its refund rests on.
LEMMA MakerRecord ==
    ASSUME TypeOK, ChainInv, RecordInv, EngineStep("maker")
    PROVE  rec'["maker"].phase \in RefundedPhases => rec'["maker"].notice
  <1>0. /\ "maker" \in Parties /\ "taker" \in Parties /\ "taker" # "maker" /\ FirstFunder = "taker"
        /\ rec["maker"] \in Records /\ rec \in [Parties -> Records]
    BY ConstantsAssumption DEF Parties, TypeOK
  <1>1. CASE Begin("maker")
    <2>1. rec'["maker"] = Initialized(rec["maker"])
      BY <1>0, <1>1 DEF Begin
    <2> QED  BY <1>0, <2>1 DEF Initialized, Records, RecordInv, RefundedPhases, RefundPhases
  <1>2. CASE RefundCheck("maker")
    <2>1. ~(FundingWindowOpen /\ Mined(Refund("taker")))
      BY <1>0 DEF FundingWindowOpen, ChainInv, Mined, Out, RefundDue, RefundEpoch
    <2>2. CASE StartRefund("maker")
      <3>1. rec'["maker"] = [Recovered("maker") EXCEPT !.phase = "waiting_for_refund"]
        BY <1>0, <2>2 DEF StartRefund
      <3>2. Recovered("maker") = [rec["maker"] EXCEPT !.notice = TRUE]
        BY <1>0, <2>2 DEF StartRefund, Recovered
      <3> QED  BY <1>0, <3>1, <3>2 DEF Records
    <2>3. CASE ~StartRefund("maker")
      <3>1. RefundChecked("maker")
        BY <1>0, <1>2, RefundCheckEffects
      <3>2. rec'["maker"].phase \in {rec["maker"].phase, "expired"}
        <4>1. CASE NoRefundCheck("maker") \/ RefusedExpiry("maker")
          BY <4>1 DEF NoRefundCheck, RefusedExpiry, Quiet
        <4>2. CASE ClaimBeforeRefund("maker") \/ NotDue("maker")
          <5>1. /\ Recovered("maker").phase = rec["maker"].phase /\ Recovered("maker") \in Records
                /\ \/ rec'["maker"] = Recovered("maker")
                   \/ rec'["maker"] = [Recovered("maker") EXCEPT !.revealed = TRUE]
            BY <1>0, <4>2 DEF ClaimBeforeRefund, NotDue, Recovered, Records
          <5> QED  BY <5>1 DEF Records
        <4>3. CASE Expire("maker")
          BY <1>0, <4>3, AdvanceEffect DEF Expire
        <4>4. CASE UnfundedInWindow("maker")
          <5>1. ~Mined(Refund(Peer("maker")))
            BY <2>1, <4>4 DEF UnfundedInWindow, Peer
          <5> QED  BY <4>4, <5>1 DEF UnfundedInWindow, Quiet
        <4> QED  BY <1>2, <2>3, <4>1, <4>2, <4>3, <4>4 DEF RefundCheck
      <3> QED  BY <3>1, <3>2 DEF RefundChecked, RecordInv, RefundedPhases, RefundPhases
    <2> QED  BY <2>2, <2>3
  <1>3. CASE WaitingForRefund("maker") \/ Refunding("maker") \/ Refunded("maker")
    <2>1. Effect("maker", {"refunding", "refunded"}, {"refund"})
      BY <1>0, <1>3, EndingEffects DEF Effect
    <2>2. rec["maker"].phase \in RefundedPhases
      BY <1>3 DEF WaitingForRefund, Refunding, Refunded, InPhase, RefundedPhases, RefundPhases
    <2> QED  BY <2>1, <2>2 DEF Effect, RecordInv
  <1>4. CASE SendTemplate \/ FundMakerLeg \/ SaveNotice \/ SendNotice
    <2>1. CASE SaveNotice
      <3>1. rec' = [rec EXCEPT !["maker"].notice = TRUE]
        BY <2>1 DEF SaveNotice
      <3> QED  BY <1>0, <3>1 DEF Records
    <2>2. CASE SendTemplate \/ FundMakerLeg \/ SendNotice
      BY <2>2 DEF SendTemplate, FundMakerLeg, SendNotice, Quiet, RecordInv
    <2> QED  BY <1>4, <2>1, <2>2
  <1> DEFINE calm == {"async_taker_funding", "async_taker_funded", "async_maker_funding",
                      "async_maker_funded", "async_taker_claiming", "async_taker_claimed",
                      "async_maker_claiming", "complete"}
  <1>5. TakerFunding("maker") \/ MarkSubmitted("maker") \/ TakerFunded("maker") \/ MakerFunding("maker")
        \/ AwaitMakerFunding("maker") \/ MakerFunded("maker")
        => Effect("maker", calm, EngineSteps)
    BY <1>0, FundingEffects DEF Effect, EngineSteps
  <1>6. TakerClaiming("maker") \/ ObserveTakerClaim("maker") \/ TakerClaimed("maker")
        \/ MakerClaiming("maker") \/ Settle("maker")
        => Effect("maker", calm, EngineSteps)
    BY <1>0, ClaimingEffects DEF Effect, EngineSteps
  <1>7. Complete("maker") \/ Expired("maker") => Effect("maker", calm, EngineSteps)
    BY <1>0, EndingEffects DEF Effect, EngineSteps
  <1>8. CASE Effect("maker", calm, EngineSteps)
    BY <1>8 DEF Effect, RecordInv, RefundedPhases, RefundPhases
  <1> HIDE DEF calm
  <1> QED
    BY <1>0, <1>1, <1>2, <1>3, <1>4, <1>5, <1>6, <1>7, <1>8 DEF EngineStep

-----------------------------------------------------------------------------
(* Places in a pass *)

Starts(p) == Begin(p) \/ (p = "taker" /\ (BeginWithMessages \/ RefuseTemplate))

Ends(p) == Complete(p) \/ Refunding(p) \/ Refunded(p) \/ Expired(p)

\* p's pass goes on, or it ends: in a settled phase only after the check that
\* belongs to that phase.
Moved(p) ==
    /\ pc[p] # "idle"
    /\ MidPass(p)'
    /\ \/ \E step \in EngineSteps \ {"idle"} : Goto(p, step)
       \/ Return(p) /\ (rec'[p].phase \notin Settled \/ Ends(p))

\* A step that acts on an unsettled phase and settles nothing.
LEMMA ActingMoved ==
    ASSUME TypeOK, NEW p \in Parties, pc[p] # "idle", rec[p].phase \notin Settled,
           NEW phases, phases \cap Settled = {},
           NEW steps \in SUBSET (EngineSteps \ {"idle"}), Effect(p, phases, steps)
    PROVE  Moved(p)
  BY DEF Effect, Moved, MidPass

\* An advance or rewind goes on with the refund check.
LEMMA AdvanceMoved ==
    ASSUME TypeOK, NEW p \in Parties, pc[p] # "idle", NEW phase,
           AdvanceTo(p, phase) \/ RewindTo(p, phase)
    PROVE  Moved(p)
  <1>1. Goto(p, "refund") /\ pc'[p] = "refund"
    BY AdvanceEffect, GotoEffect
  <1> QED  BY <1>1 DEF Moved, MidPass, EngineSteps

\* Every step of a pass, but its first, moves it along.
LEMMA PassMoves ==
    ASSUME TypeOK, NEW p \in Parties, MidPass(p), EngineStep(p), ~Starts(p)
    PROVE  Moved(p)
  <1>0. /\ {"refund", "mark"} \subseteq EngineSteps \ {"idle"}
        /\ {"refund", "template"} \subseteq EngineSteps \ {"idle"}
        /\ {"refund", "await"} \subseteq EngineSteps \ {"idle"}
        /\ {"refund", "claim"} \subseteq EngineSteps \ {"idle"}
        /\ {"refund", "observe"} \subseteq EngineSteps \ {"idle"}
        /\ {"refund"} \subseteq EngineSteps \ {"idle"} /\ {"proxy"} \subseteq EngineSteps \ {"idle"}
        /\ {"observe"} \subseteq EngineSteps \ {"idle"}
    BY DEF EngineSteps
  <1>1. {"async_taker_funding", "async_taker_funded", "async_maker_funding", "async_maker_funded",
         "async_taker_claiming", "async_taker_claimed", "async_maker_claiming"} \cap Settled = {}
    BY DEF Settled, TerminalPhases, RefundPhases
  <1>2. CASE RefundCheck(p)
    <2>1. RefundChecked(p)
      BY <1>2, RefundCheckEffects
    <2>2. CASE Goto(p, "refund") \/ Goto(p, "phase")
      BY <1>2, <2>2, GotoEffect
      DEF Moved, MidPass, EngineSteps, RefundCheck, NoRefundCheck, ClaimBeforeRefund, NotDue,
          StartRefund, Expire, RefusedExpiry, UnfundedInWindow, At
    <2>3. CASE Return(p) /\ ~Goto(p, "refund") /\ ~Goto(p, "phase")
      <3>1. RefusedExpiry(p)
        BY <1>2, <2>3
        DEF RefundCheck, NoRefundCheck, ClaimBeforeRefund, NotDue, StartRefund, Expire,
            UnfundedInWindow, AdvanceTo
      <3>2. pc[p] = "refund" /\ rec[p].phase \notin Settled /\ rec' = rec
        BY <3>1 DEF RefusedExpiry, Quiet, At, Settled
      <3> QED  BY <2>3, <3>2 DEF Moved, MidPass
    <2> QED  BY <2>1, <2>2, <2>3 DEF RefundChecked
  <1>3. CASE TakerFunding(p) \/ TakerFunded(p) \/ MakerFunding(p) \/ MakerFunded(p)
             \/ TakerClaiming(p)
    <2>1. pc[p] = "phase" /\ rec[p].phase \notin Settled
      BY <1>1, <1>3 DEF TakerFunding, TakerFunded, MakerFunding, MakerFunded, TakerClaiming, InPhase
    <2>2. CASE TakerFunding(p)
      BY <1>0, <1>1, <2>1, <2>2, FundingEffects, ActingMoved
    <2>3. CASE TakerFunded(p)
      BY <1>0, <1>1, <2>1, <2>3, FundingEffects, ActingMoved
    <2>4. CASE MakerFunding(p)
      BY <1>0, <1>1, <2>1, <2>4, FundingEffects, ActingMoved
    <2>5. CASE MakerFunded(p)
      BY <1>0, <1>1, <2>1, <2>5, FundingEffects, ActingMoved
    <2>6. CASE TakerClaiming(p)
      BY <1>0, <1>1, <2>1, <2>6, ClaimingEffects, ActingMoved
    <2> QED  BY <1>3, <2>2, <2>3, <2>4, <2>5, <2>6
  <1>4. CASE MarkSubmitted(p) \/ AwaitMakerFunding(p) \/ ObserveTakerClaim(p)
             \/ (p = "taker" /\ (ClaimMakerLeg \/ ProxyMakerClaim))
    <2>1. pc[p] \notin {"idle", "refund", "phase"} /\ rec[p].phase \notin Settled
      BY <1>4 DEF MarkSubmitted, AwaitMakerFunding, ObserveTakerClaim, ClaimMakerLeg,
                  ProxyMakerClaim, At, MidPass
    <2>2. CASE MarkSubmitted(p) \/ AwaitMakerFunding(p)
      BY <1>0, <1>1, <2>1, <2>2, FundingEffects, ActingMoved
    <2>3. CASE ObserveTakerClaim(p)
      BY <1>0, <1>1, <2>1, <2>3, ClaimingEffects, ActingMoved
    <2>4. CASE p = "taker" /\ (ClaimMakerLeg \/ ProxyMakerClaim)
      BY <1>0, <1>1, <2>1, <2>4, ClaimingEffects, ActingMoved
    <2> QED  BY <1>4, <2>2, <2>3, <2>4
  <1>5. CASE p = "maker" /\ (SendTemplate \/ FundMakerLeg \/ SaveNotice \/ SendNotice)
    <2>1. pc[p] \in SendingSteps
      BY <1>5 DEF SendTemplate, FundMakerLeg, SaveNotice, SendNotice, At, SendingSteps
    <2>2. rec[p].phase \notin Settled
      BY <2>1 DEF MidPass, SendingSteps
    <2>3. rec'[p].phase = rec[p].phase
      <3>1. rec' = rec \/ rec' = [rec EXCEPT ![p].notice = TRUE]
        BY <1>5 DEF SendTemplate, FundMakerLeg, SaveNotice, SendNotice, Quiet
      <3> QED  BY <3>1 DEF TypeOK, Records
    <2>4. Return(p) \/ \E step \in EngineSteps \ {"idle"} : Goto(p, step)
      BY <1>5 DEF SendTemplate, FundMakerLeg, SaveNotice, SendNotice, EngineSteps
    <2> QED  BY <2>1, <2>2, <2>3, <2>4 DEF Moved, MidPass, SendingSteps
  <1>6. CASE TakerClaimed(p)
    BY <1>6, AdvanceMoved DEF TakerClaimed, InPhase
  <1>7. CASE MakerClaiming(p) \/ Settle(p)
    <2>1. pc[p] # "idle" /\ rec[p].phase \notin Settled
      BY <1>1, <1>7 DEF MakerClaiming, Settle, InPhase, At, MidPass
    <2>2. \/ \E phase : AdvanceTo(p, phase) \/ RewindTo(p, phase)
          \/ rec' = rec /\ (Return(p) \/ Goto(p, "settle"))
      BY <1>7 DEF MakerClaiming, Settle, PublishThen, Quiet
    <2> QED  BY <2>1, <2>2, AdvanceMoved DEF Moved, MidPass, EngineSteps
  <1>8. CASE WaitingForRefund(p)
    BY <1>8, AdvanceMoved DEF WaitingForRefund, InPhase
  <1>9. CASE Ends(p)
    <2>1. pc[p] = "phase"
      BY <1>9 DEF Ends, Complete, Refunding, Refunded, Expired, InPhase
    <2>2. (\E phase : AdvanceTo(p, phase) \/ RewindTo(p, phase)) \/ Return(p)
      BY <1>9 DEF Ends, Complete, Refunding, Refunded, Expired
    <2>3. CASE Return(p)
      BY <1>9, <2>1, <2>3, ReturnEffect DEF Moved, MidPass
    <2> QED  BY <2>1, <2>2, <2>3, AdvanceMoved
  <1> QED
    BY <1>2, <1>3, <1>4, <1>5, <1>6, <1>7, <1>8, <1>9 DEF EngineStep, Starts, Ends

\* A pass begins with the refund check; one that the taker cannot begin is over.
LEMMA StartMoves ==
    ASSUME TypeOK, NEW p \in Parties, Starts(p)
    PROVE  /\ MidPass(p)'
           /\ \/ pc'[p] = "refund" /\ poll'[p] \in {"running", "stale"}
              \/ /\ p = "taker" /\ RefuseTemplate
                 /\ pc'[p] = "idle" /\ poll'[p] = "done"
  <1>1. CASE Begin(p)
    BY <1>1 DEF Begin, TypeOK, MidPass
  <1>2. CASE p = "taker" /\ BeginWithMessages
    BY <1>2 DEF BeginWithMessages, TypeOK, MidPass, Stale
  <1>3. CASE p = "taker" /\ RefuseTemplate
    BY <1>3 DEF RefuseTemplate, TypeOK, MidPass, At
  <1> QED  BY <1>1, <1>2, <1>3 DEF Starts

-----------------------------------------------------------------------------
(* A pass of a trader whose money is alone in its contract *)

\* At the refund check and in an ending phase the engine takes no other step.
LEMMA EndingSteps ==
    ASSUME NEW p \in Parties, EngineStep(p), ~Starts(p),
           pc[p] \in {"refund", "phase"},
           pc[p] = "phase" => rec[p].phase \in RefundedPhases \union {"complete"}
    PROVE  \/ pc[p] = "refund" /\ RefundCheck(p)
           \/ pc[p] = "phase" /\ (Complete(p) \/ WaitingForRefund(p) \/ Refunding(p) \/ Refunded(p))
  <1>1. CASE RefundCheck(p)
    BY <1>1
    DEF RefundCheck, NoRefundCheck, ClaimBeforeRefund, NotDue, StartRefund, Expire,
        RefusedExpiry, UnfundedInWindow, At
  <1>2. CASE TakerFunding(p) \/ TakerFunded(p) \/ MakerFunding(p) \/ MakerFunded(p)
             \/ TakerClaiming(p) \/ TakerClaimed(p) \/ MakerClaiming(p) \/ Expired(p)
    BY <1>2
    DEF TakerFunding, TakerFunded, MakerFunding, MakerFunded, TakerClaiming, TakerClaimed,
        MakerClaiming, Expired, InPhase, RefundedPhases, RefundPhases
  <1>3. CASE MarkSubmitted(p) \/ AwaitMakerFunding(p) \/ ObserveTakerClaim(p) \/ Settle(p)
    BY <1>3 DEF MarkSubmitted, AwaitMakerFunding, ObserveTakerClaim, Settle, At
  <1>4. CASE p = "maker" /\ (SendTemplate \/ FundMakerLeg \/ SaveNotice \/ SendNotice)
    BY <1>4 DEF SendTemplate, FundMakerLeg, SaveNotice, SendNotice, At
  <1>5. CASE p = "taker" /\ (ClaimMakerLeg \/ ProxyMakerClaim)
    BY <1>5 DEF ClaimMakerLeg, ProxyMakerClaim, At
  <1>6. CASE Complete(p) \/ WaitingForRefund(p) \/ Refunding(p) \/ Refunded(p)
    BY <1>6 DEF Complete, WaitingForRefund, Refunding, Refunded, InPhase
  <1> QED
    BY <1>1, <1>2, <1>3, <1>4, <1>5, <1>6 DEF EngineStep, Starts

\* What holds of a trader whose money is alone: it knows of its funding, sees
\* no claim, and its refund is accepted once it is not mined.
LEMMA AloneFacts ==
    ASSUME TypeOK, ChainInv, MakerInv, TakerInv, EpochInv, RecordInv, MakerGives = "BTC",
           NEW p \in Parties, Alone(p)
    PROVE  /\ OwnFunding(p) /\ RefundDue(p) /\ ~FundingWindowOpen
           /\ \A q \in Parties, l \in Parties : ~Seen(q, Claim(l))
           /\ rec[p].phase # "expired"
           /\ rec[p].phase \in RefundedPhases => RefundedLeg(p) = p
           /\ Mined(Refund(p)) \/ Publishable(Refund(p))
           /\ p = "taker" => Mined(Fund(p))
  <1>0. /\ epoch = 3 /\ "notice" \notin mail /\ Out(Fund(p)) /\ FirstFunder = "taker"
        /\ "maker" \in Parties /\ "taker" \in Parties
    BY ConstantsAssumption DEF Alone, Parties
  <1>1. p = "taker" => Mined(Fund(p))
    BY <1>0 DEF EpochInv, Mined
  <1>2. OwnFunding(p)
    BY <1>0, <1>1 DEF OwnFunding, MakerInv, Seen, Parties
  <1>3. RefundDue(p) /\ ~FundingWindowOpen
    BY <1>0 DEF RefundDue, RefundEpoch, FundingWindowOpen, Parties
  <1>4. \A l \in Parties : ~Out(Claim(l))
    BY <1>0 DEF TakerInv, Parties
  <1>5. \A q \in Parties, l \in Parties : ~Seen(q, Claim(l))
    BY <1>4 DEF Seen, Mined, Out, ChainInv
  <1>6. rec[p].phase # "expired"
    BY <1>0 DEF TakerInv, MakerInv, Parties
  <1>7. rec[p].phase \in RefundedPhases => RefundedLeg(p) = p
    BY DEF RefundedLeg, RecordInv, Parties
  <1>8. ASSUME ~Mined(Refund(p)) PROVE Publishable(Refund(p))
    <2>1. Refund(p)[1] = p /\ Refund(p)[2] = "refund" /\ Rival(Refund(p)) = Claim(p)
      BY TxNames
    <2>2. ~Mined(Claim(p))
      BY <1>4 DEF Mined, Out
    <2>3. Asset(p) = "QDAY" => Mined(Fund(p))
      BY <1>1 DEF Asset, Parties
    <2> QED  BY <1>0, <1>3, <1>8, <2>1, <2>2, <2>3 DEF Publishable, Out
  <1> QED  BY <1>1, <1>2, <1>3, <1>5, <1>6, <1>7, <1>8

\* Such a pass goes on to the refund, or ends once the refund is on its way.
LEMMA AlonePass ==
    ASSUME TypeOK, ChainInv, MakerInv, TakerInv, EpochInv, RecordInv, MakerGives = "BTC",
           NEW p \in Parties, Alone(p), EngineStep(p), ~Starts(p),
           pc[p] \in {"refund", "phase"},
           pc[p] = "phase" => rec[p].phase \in RefundedPhases \union {"complete"}
    PROVE  \/ Goto(p, "refund")
           \/ Goto(p, "phase") /\ rec'[p].phase \in RefundedPhases \union {"complete"}
           \/ Return(p) /\ Out(Refund(p))'
  <1>0. Refund(p) \in Txs /\ "maker" \in Parties
    BY FundIsTx DEF Parties
  <1>1. CASE pc[p] = "refund" /\ RefundCheck(p)
    <2>1. NoRefundCheck(p) \/ StartRefund(p)
      BY <1>0, <1>1, AloneFacts
      DEF RefundCheck, ClaimBeforeRefund, NotDue, Expire, RefusedExpiry, UnfundedInWindow
    <2>2. CASE NoRefundCheck(p)
      BY <2>2, AloneFacts
      DEF NoRefundCheck, Quiet, RefundedPhases, RefundPhases, TerminalPhases
    <2>3. CASE StartRefund(p)
      BY <2>3 DEF StartRefund
    <2> QED  BY <2>1, <2>2, <2>3
  <1>2. CASE Complete(p)
    <2>1. ~ClaimSeen(p, "maker")
      BY <1>0, AloneFacts DEF ClaimSeen
    <2> QED  BY <1>2, <2>1 DEF Complete, RewindTo
  <1>3. CASE WaitingForRefund(p)
    BY <1>3 DEF WaitingForRefund, AdvanceTo
  <1>4. CASE Refunding(p)
    <2>1. RefundedLeg(p) = p
      BY <1>4, AloneFacts DEF Refunding, InPhase, RefundedPhases, RefundPhases
    <2>2. CASE Mined(Refund(p))
      BY <1>4, <2>1, <2>2 DEF Refunding, AdvanceTo
    <2>3. CASE ~Mined(Refund(p))
      <3>1. Broadcast(p, Refund(p)) /\ Return(p)
        BY <1>4, <2>1, <2>3, AloneFacts DEF Refunding
      <3> QED  BY <1>0, <3>1, ChainBroadcast DEF TypeOK
    <2> QED  BY <2>2, <2>3
  <1>5. CASE Refunded(p)
    <2>1. RefundedLeg(p) = p
      BY <1>5, AloneFacts DEF Refunded, InPhase, RefundedPhases
    <2>2. CASE Mined(Refund(p))
      <3>1. Return(p) /\ Out(Refund(p)) /\ UNCHANGED chain
        BY <1>5, <2>1, <2>2 DEF Refunded, Quiet, legVars, Mined, Out
      <3> QED  BY <3>1 DEF Out
    <2>3. CASE ~Mined(Refund(p))
      BY <1>5, <2>1, <2>3 DEF Refunded, RewindTo
    <2> QED  BY <2>2, <2>3
  <1> QED  BY <1>1, <1>2, <1>3, <1>4, <1>5, EndingSteps

-----------------------------------------------------------------------------
(* The invariant *)

\* A check that ends a pass in a terminal phase has seen it on the chains.
LEMMA EndsInTruth ==
    ASSUME TypeOK, RecordInv, NEW p \in Parties, Ends(p), Return(p)
    PROVE  /\ rec'[p].phase = "complete" => \A l \in Parties : Mined(Claim(l))
           /\ rec'[p].phase = "refunded" => Mined(Refund(p))
  <1>1. pc'[p] = "idle" /\ ~\E step \in EngineSteps \ {"idle"} : Goto(p, step)
    BY ReturnEffect, GotoEffect
  <1>2. ~\E phase : AdvanceTo(p, phase) \/ RewindTo(p, phase)
    BY <1>1, AdvanceEffect DEF EngineSteps
  <1>3. CASE Complete(p)
    BY <1>2, <1>3 DEF Complete, InPhase, Quiet, Parties
  <1>4. CASE Refunding(p)
    BY <1>2, <1>4 DEF Refunding, InPhase, Quiet
  <1>5. CASE Refunded(p)
    <2>1. RefundedLeg(p) = p
      BY <1>5 DEF Refunded, InPhase, RefundedLeg, RecordInv, RefundedPhases, Parties
    <2> QED  BY <1>2, <1>5, <2>1 DEF Refunded, InPhase, Quiet
  <1>6. CASE Expired(p)
    BY <1>6 DEF Expired, InPhase, Quiet
  <1> QED  BY <1>3, <1>4, <1>5, <1>6 DEF Ends

\* A pass that the taker cannot begin settles nothing and leaves nothing alone.
LEMMA RefusedEnd ==
    ASSUME TypeOK, TakerInv, EpochInv, RecordInv, RefuseTemplate
    PROVE  /\ rec'["taker"].phase \notin RefundedPhases \union {"complete"}
           /\ ~Alone("taker")
  <1>0. "taker" \in Parties /\ rec["taker"] \in Records
    BY DEF Parties, TypeOK
  <1>1. ~Seen("taker", Fund("taker")) /\ ~rec["taker"].template
    BY DEF RefuseTemplate, TemplateUsable
  <1>2. ~(epoch >= 1)
    BY <1>1 DEF Seen, Mined, EpochInv
  <1>3. rec["taker"].phase \notin RefundedPhases \union {"complete"}
    BY <1>1, <1>2
    DEF RecordInv, RevealedPhases, TakerInv, RefundedPhases, TypeOK, LegsTypeOK, LastEpoch
  <1>4. rec'["taker"] = Initialized(rec["taker"])
    BY <1>0 DEF RefuseTemplate, TypeOK
  <1>5. rec'["taker"].phase \in {rec["taker"].phase, "async_taker_funding"}
    BY <1>0, <1>4 DEF Initialized, Records
  <1> QED  BY <1>2, <1>3, <1>5 DEF Alone, RefundedPhases, RefundPhases

\* Its own step keeps what a trader's pass establishes.
LEMMA OwnEnd ==
    ASSUME TypeOK, ChainInv, MakerInv, TakerInv, EpochInv, RecordInv, MakerGives = "BTC",
           NEW p \in Parties, EndInv(p), EngineStep(p)
    PROVE  EndInv(p)'
  <1>0. /\ Refund(p) \in Txs /\ Fund(p) \in Txs /\ \A l \in Parties : Claim(l) \in Txs
    BY FundIsTx
  <1>1. /\ epoch' = epoch /\ \A u \in Txs : Mined(u)' <=> Mined(u)
    BY EngineChain
  <1>2. CASE Starts(p)
    <2>1. CASE pc'[p] = "refund" /\ poll'[p] \in {"running", "stale"}
      BY <1>2, <2>1, StartMoves DEF EndInv
    <2>2. CASE p = "taker" /\ RefuseTemplate /\ pc'[p] = "idle" /\ poll'[p] = "done"
      <3>1. Alone(p)' <=> Alone(p)
        BY <2>2 DEF RefuseTemplate, legVars, engineVars, Alone, Out
      <3> QED  BY <1>2, <2>2, <3>1, StartMoves, RefusedEnd DEF EndInv, RefundedPhases
    <2> QED  BY <1>2, <2>1, <2>2, StartMoves
  <1>3. CASE ~Starts(p)
    <2>1. Moved(p)
      BY <1>3, PassMoves DEF EndInv
    <2>2. /\ poll'[p] = "running" => /\ poll[p] = "running" /\ Observable' = Observable
                                     /\ pc'[p] # "idle"
          /\ poll'[p] = "done" => /\ poll[p] = "running" /\ Observable' = Observable
                                  /\ Return(p) /\ pc'[p] = "idle"
      BY <2>1, GotoEffect, ReturnEffect DEF Moved, EndInv
    <2>3. Observable' = Observable => (Alone(p)' <=> Alone(p))
      BY DEF Observable, legVars, Alone, Out
    <2>4. ASSUME poll'[p] = "done"
          PROVE  /\ rec'[p].phase = "complete" => \A l \in Parties : Mined(Claim(l))'
                 /\ rec'[p].phase = "refunded" => Mined(Refund(p))'
      <3>1. Return(p)
        BY <2>2, <2>4
      <3>2. rec'[p].phase \notin Settled \/ Ends(p)
        BY <2>1, <3>1, ReturnEffect, GotoEffect DEF Moved
      <3> QED  BY <1>0, <1>1, <3>1, <3>2, EndsInTruth DEF Settled, TerminalPhases
    <2>5. ASSUME poll'[p] \in {"running", "done"}, Alone(p)'
          PROVE  \/ Goto(p, "refund")
                 \/ Goto(p, "phase") /\ rec'[p].phase \in RefundedPhases \union {"complete"}
                 \/ Return(p) /\ Out(Refund(p))'
      <3>1. Alone(p) /\ poll[p] = "running"
        BY <2>2, <2>3, <2>5
      <3>2. /\ pc[p] \in {"refund", "phase"}
            /\ pc[p] = "phase" => rec[p].phase \in RefundedPhases \union {"complete"}
        BY <3>1 DEF EndInv
      <3> QED  BY <1>3, <3>1, <3>2, AlonePass
    <2>6. poll'[p] = "running" /\ Alone(p)' =>
             /\ pc'[p] \in {"refund", "phase"}
             /\ pc'[p] = "phase" => rec'[p].phase \in RefundedPhases \union {"complete"}
      BY <2>2, <2>5, GotoEffect, ReturnEffect
    <2>7. poll'[p] = "done" /\ Alone(p)' => Out(Refund(p))'
      BY <2>2, <2>5, GotoEffect
    <2>8. MidPass(p)'
      BY <2>1 DEF Moved
    <2> QED  BY <2>2, <2>4, <2>6, <2>7, <2>8 DEF EndInv
  <1> QED  BY <1>2, <1>3

\* A step of the other trader keeps it: what p saw is as it was, or p looks again.
LEMMA OtherEnd ==
    ASSUME NEW p \in Parties, EndInv(p), LeavesAlone(p)
    PROVE  EndInv(p)'
  <1>1. MidPass(p)'
    BY DEF LeavesAlone, EndInv, MidPass
  <1>2. CASE poll'[p] = "stale"
    BY <1>1, <1>2 DEF EndInv
  <1>3. CASE poll'[p] = poll[p] /\ Observable' = Observable
    <2>1. UNCHANGED <<chain, epoch, mail>>
      BY <1>3 DEF Observable, legVars
    <2> QED  BY <1>1, <1>3, <2>1 DEF LeavesAlone, EndInv, Alone, Mined, Out
  <1> QED  BY <1>2, <1>3 DEF LeavesAlone

\* Every step keeps what the records and the passes establish.
LEMMA OutcomeStep ==
    ASSUME Inv, AtomicInv, OutcomeInv, Attended, Next
    PROVE  OutcomeInv'
  <1>0. /\ TypeOK /\ ChainInv /\ MakerInv /\ TakerInv /\ EpochInv /\ RecordInv
        /\ MakerGives = "BTC" /\ "maker" \in Parties /\ "taker" \in Parties
        /\ \A p \in Parties : EndInv(p)
    BY DEF Inv, AtomicInv, OutcomeInv, Attended, Parties
  <1>1. ASSUME NEW p \in Parties, EngineStep(p) PROVE OutcomeInv'
    <2>1. EndInv(p)'
      BY <1>0, <1>1, OwnEnd
    <2>2. \A q \in Parties \ {p} : LeavesAlone(q)
      BY <1>0, <1>1, EngineFrame
    <2>3. \A q \in Parties \ {p} : EndInv(q)'
      BY <1>0, <2>2, OtherEnd
    <2>4. RecordInv'
      <3>1. CASE p = "taker"
        <4>1. LeavesAlone("maker")
          BY <1>0, <2>2, <3>1
        <4> QED  BY <1>0, <1>1, <3>1, <4>1, TakerRecord DEF RecordInv, LeavesAlone
      <3>2. CASE p = "maker"
        <4>1. LeavesAlone("taker")
          BY <1>0, <2>2, <3>2
        <4> QED  BY <1>0, <1>1, <3>2, <4>1, MakerRecord DEF RecordInv, LeavesAlone
      <3> QED  BY <3>1, <3>2 DEF Parties
    <2> QED  BY <2>1, <2>3, <2>4 DEF OutcomeInv
  <1>2. CASE Deliver \/ Network \/ Disturbance \/ Tick
    <2>1. UNCHANGED <<rec, pc>> /\ \A p \in Parties : poll'[p] = "stale"
      BY <1>2 DEF Deliver, Network, Disturbance, Tick, Stale
    <2> QED  BY <1>0, <2>1 DEF OutcomeInv, RecordInv, EndInv, MidPass
  <1>3. ASSUME NEW p \in Parties, Abort(p) PROVE OutcomeInv'
    <2>1. /\ UNCHANGED <<chain, epoch, mail, rec>>
          /\ \A q \in Parties : \/ pc'[q] = pc[q] /\ poll'[q] = poll[q]
                                \/ pc'[q] = "idle" /\ poll'[q] = "stale"
      BY <1>0, <1>3 DEF Abort, legVars, TypeOK
    <2>2. RecordInv'
      BY <1>0, <2>1 DEF RecordInv
    <2>3. \A q \in Parties : EndInv(q)'
      BY <1>0, <2>1 DEF EndInv, MidPass, Alone, Mined, Out
    <2> QED  BY <2>2, <2>3 DEF OutcomeInv
  <1> QED  BY <1>1, <1>2, <1>3 DEF Next, Engine

\* The invariant holds throughout, when the taker attends and its funding stays.
LEMMA Outcome ==
    ASSUME Attended
    PROVE  Spec /\ [][FundingStays]_vars => [](Inv /\ AtomicInv /\ OutcomeInv)
  <1>1. Init => OutcomeInv
    BY DEF Init, OutcomeInv, RecordInv, EndInv, MidPass, ClaimPhases, RevealedPhases,
           RefundedPhases, RefundPhases, Parties
  <1>2. Inv /\ AtomicInv /\ OutcomeInv /\ [Next]_vars => OutcomeInv'
    <2>1. CASE UNCHANGED vars
      <3>1. UNCHANGED <<chain, epoch, mail, rec, pc, poll>>
        BY <2>1 DEF vars, legVars, engineVars
      <3> QED  BY <3>1 DEF OutcomeInv, RecordInv, EndInv, MidPass, Alone, Mined, Out
    <2>2. CASE Next
      BY <2>2, OutcomeStep
    <2> QED  BY <2>1, <2>2
  <1> QED  BY <1>1, <1>2, Attention, PTL DEF Spec

\* A journal that has looked and holds a terminal phase tells the truth about
\* the chains, however blocks were reorganised before (driveAsyncSwap,
\* PhaseComplete, PhaseRefunded and PhaseExpired).
THEOREM AttendedSettlesInTruth ==
    ASSUME Attended
    PROVE  Spec /\ [][FundingStays]_vars => []SettledAgrees
  <1>1. AtomicInv /\ OutcomeInv => SettledAgrees
    <2> SUFFICES ASSUME AtomicInv, OutcomeInv, NEW p \in Parties, poll[p] = "done"
                 PROVE  /\ rec[p].phase = "complete" => \A l \in Parties : Mined(Claim(l))
                        /\ rec[p].phase = "refunded" =>
                              Mined(Refund(p)) \/ (~Mined(Fund(p)) /\ Mined(Refund(Peer(p))))
                        /\ rec[p].phase = "expired" => ~Mined(Fund(p))
      BY DEF SettledAgrees
    <2>1. EndInv(p)
      BY DEF OutcomeInv
    <2>2. rec[p].phase = "expired" => ~Out(Fund(p))
      BY DEF AtomicInv, MakerInv, TakerInv, Parties
    <2> QED  BY <2>1, <2>2 DEF EndInv, Mined, Out
  <1> QED  BY <1>1, Outcome, PTL

\* Once both traders have looked after the last refund height and nothing waits
\* to be mined, every funded leg was claimed or refunded, and the two claims
\* were mined together or not at all (driveAsyncSwap, maybeStartRefund).
THEOREM AttendedEndsWhole ==
    ASSUME Attended
    PROVE  Spec /\ [][FundingStays]_vars => []AtomicOutcome
  <1>1. Inv /\ AtomicInv /\ OutcomeInv => AtomicOutcome
    <2> SUFFICES ASSUME Inv, AtomicInv, OutcomeInv, epoch = 3, PoolsDrained,
                        \A p \in Parties : poll[p] = "done"
                 PROVE  /\ \A p \in Parties : Mined(Fund(p)) => Mined(Claim(p)) \/ Mined(Refund(p))
                        /\ Mined(Claim("maker")) <=> Mined(Claim("taker"))
      BY DEF AtomicOutcome, Attentive, LastEpoch
    <2>0. "maker" \in Parties /\ "taker" \in Parties /\ TypeOK /\ LegsTypeOK
      BY DEF Parties, Inv, TypeOK
    <2>1. CASE "notice" \in mail
      <3>1. chain[Claim("maker")] = "final" /\ chain[Claim("taker")] = "final"
        BY <2>0, <2>1 DEF AtomicInv, EpochInv
      <3> QED  BY <3>1 DEF Mined, Parties
    <2>2. CASE "notice" \notin mail
      <3>1. ~Mined(Claim("maker")) /\ ~Mined(Claim("taker"))
        BY <2>2 DEF AtomicInv, TakerInv, Mined, Out
      <3>2. ASSUME NEW p \in Parties, Mined(Fund(p)) PROVE Mined(Refund(p))
        <4>1. Alone(p)
          BY <2>2, <3>2 DEF Alone, Mined, Out
        <4>2. Out(Refund(p))
          BY <4>1 DEF OutcomeInv, EndInv
        <4>3. Refund(p) \in Txs /\ Refund(p)[1] = p
          BY FundIsTx, TxNames
        <4>4. chain[Refund(p)] # "pool"
          BY <3>2, <4>3 DEF PoolsDrained
        <4> QED  BY <2>0, <4>2, <4>3, <4>4 DEF LegsTypeOK, Out, Mined
      <3> QED  BY <3>1, <3>2
    <2> QED  BY <2>1, <2>2
  <1> QED  BY <1>1, Outcome, PTL

-----------------------------------------------------------------------------
(* Without reorganisations *)

\* No block is reorganised and nothing is evicted.
Undisturbed == reorgs' = reorgs

\* What the engines rely on that only a reorganisation or an eviction undoes.
CalmInv ==
    /\ pc["maker"] \in SendingSteps \/ "template" \in mail \/ Out(Fund("maker")) =>
          Mined(Fund("taker"))
    /\ pc["taker"] \in {"claim", "proxy"} => Mined(Fund("maker")) /\ Mined(Fund("taker"))
    /\ pc["taker"] = "proxy" => Out(Claim("maker"))
    /\ Out(Claim("maker")) => Mined(Fund("maker")) /\ Mined(Fund("taker"))
    /\ Out(Claim("taker")) => Out(Claim("maker"))
    /\ Out(Fund("maker")) /\ epoch >= 1 => chain[Fund("maker")] = "final"

-----------------------------------------------------------------------------
\* A refund is never on its way once the secret was published.
LEMMA RefundBeforeReveal ==
    ASSUME TypeOK, AtomicInv, NEW l \in Parties, Out(Refund(l))
    PROVE  ~Out(Claim("maker")) /\ ~Out(Claim("taker"))
  <1>0. /\ "maker" \in Parties /\ "taker" \in Parties /\ FirstFunder = "taker"
        /\ \A k \in Parties : Claim(k) \in Spends(k) /\ Rival(Claim(k)) = Refund(k)
        /\ epoch \in 0..3
    BY TxNames, ConstantsAssumption DEF Parties, Spends, TypeOK, LegsTypeOK, LastEpoch
  <1>1. chain[Claim(l)] # "final"
    BY <1>0 DEF AtomicInv, ChainInv, Mined
  <1>2. RefundDue(l)
    BY DEF AtomicInv, ChainInv
  <1>3. "notice" \notin mail
    <2>1. CASE l = "maker"
      BY <1>0, <1>1, <1>2, <2>1 DEF AtomicInv, EpochInv, RefundDue, RefundEpoch
    <2>2. CASE l = "taker"
      BY <1>0, <1>1, <1>2, <2>2 DEF AtomicInv, EpochInv, RefundDue, RefundEpoch
    <2> QED  BY <2>1, <2>2 DEF Parties
  <1> QED  BY <1>3 DEF AtomicInv, TakerInv

\* A block that includes a funding changes nothing else; one that includes a
\* spend of a leg drops that spend's rival.
LEMMA ConfirmEffect ==
    ASSUME LegsTypeOK, NEW t \in Txs, Confirm(t)
    PROVE  /\ epoch' = epoch /\ chain[t] = "pool" /\ chain'[t] = "conf"
           /\ \E l \in Parties :
                 \/ t = Fund(l) /\ \A u \in Txs \ {t} : chain'[u] = chain[u]
                 \/ /\ t \in Spends(l) /\ Mined(Fund(l)) /\ chain'[Rival(t)] = "none"
                    /\ \A u \in Txs \ {t, Rival(t)} : chain'[u] = chain[u]
  <1> DEFINE dead == IF t[2] = "fund" THEN {} ELSE {Rival(t)}
  <1>1. PICK l \in Parties : \/ t = Fund(l)
                             \/ t \in Spends(l) /\ t # Fund(l) /\ Rival(t) \in Spends(l)
                                /\ Rival(t) # t /\ Rival(Rival(t)) = t
    BY EachTx
  <1>2. /\ chain' = [u \in Txs |-> CASE u = t -> "conf"
                                     [] u \in dead -> "none"
                                     [] OTHER -> chain[u]]
        /\ epoch' = epoch /\ chain[t] = "pool"
        /\ t[2] # "fund" => Mined(Fund(t[1]))
    BY Zenon DEF Confirm
  <1>3. CASE t = Fund(l)
    <2>1. dead = {}
      BY <1>3, TxNames
    <2> HIDE DEF dead
    <2>2. chain'[t] = "conf" /\ \A u \in Txs \ {t} : chain'[u] = chain[u]
      BY <1>2, <2>1
    <2> QED  BY <1>2, <1>3, <2>2
  <1>4. CASE t \in Spends(l)
    <2>1. dead = {Rival(t)} /\ t[1] = l /\ t[2] # "fund" /\ Rival(t) \in Txs /\ Rival(t) # t
      BY <1>4, SpendNames
    <2> HIDE DEF dead
    <2>2. /\ chain'[t] = "conf" /\ chain'[Rival(t)] = "none"
          /\ \A u \in Txs \ {t, Rival(t)} : chain'[u] = chain[u]
      BY <1>2, <2>1
    <2> QED  BY <1>2, <1>4, <2>1, <2>2
  <1> QED  BY <1>1, <1>3, <1>4

\* A block mines no less than before of the fundings, and keeps a revealed secret.
LEMMA CalmConfirm ==
    ASSUME TypeOK, AtomicInv, NEW t \in Txs, Confirm(t)
    PROVE  /\ \A l \in Parties : /\ Mined(Fund(l)) => Mined(Fund(l))'
                                 /\ Out(Fund(l)) <=> Out(Fund(l))'
           /\ Out(Claim("maker")) <=> Out(Claim("maker"))'
           /\ Out(Claim("taker"))' => Out(Claim("taker"))
           /\ \A u \in Txs : chain[u] = "final" => chain'[u] = "final"
           /\ epoch' = epoch
  <1>0. /\ LegsTypeOK /\ ChainInv /\ "maker" \in Parties /\ "taker" \in Parties
        /\ \A l \in Parties : Fund(l) \in Txs /\ Claim(l) \in Txs
    BY FundIsTx DEF TypeOK, AtomicInv, Parties
  <1>1. NetworkStep
    BY <1>0, ChainConfirm
  <1>2. PICK k \in Parties :
           \/ t = Fund(k) /\ \A u \in Txs \ {t} : chain'[u] = chain[u]
           \/ /\ t \in Spends(k) /\ Mined(Fund(k)) /\ chain'[Rival(t)] = "none"
              /\ \A u \in Txs \ {t, Rival(t)} : chain'[u] = chain[u]
    BY <1>0, ConfirmEffect
  <1>3. chain[t] = "pool" /\ chain'[t] = "conf"
    BY <1>0, ConfirmEffect
  <1>4. \A l \in Parties : Fund(l) = t \/ chain'[Fund(l)] = chain[Fund(l)]
    BY <1>0, <1>2, SpendNames
  <1>5. \A l \in Parties : /\ Mined(Fund(l)) => Mined(Fund(l))'
                           /\ Out(Fund(l)) <=> Out(Fund(l))'
    BY <1>3, <1>4 DEF Mined, Out
  <1>6. Out(Claim("maker")) => Out(Claim("maker"))'
    <2>1. CASE Claim("maker") = t \/ chain'[Claim("maker")] = chain[Claim("maker")]
      BY <1>3, <2>1 DEF Out
    <2>2. CASE t \in Spends(k) /\ Claim("maker") = Rival(t)
      <3>1. t = Refund("maker")
        BY <1>0, <2>2, SpendNames, TxNames
      <3> QED  BY <1>0, <1>3, <3>1, RefundBeforeReveal DEF Out
    <2> QED  BY <1>0, <1>2, <2>1, <2>2
  <1> QED  BY <1>0, <1>1, <1>5, <1>6 DEF NetworkStep

\* Without disturbances the taker's funding is not lost.
LEMMA CalmFunding ==
    ASSUME Inv, AtomicInv, Next, Undisturbed
    PROVE  FundingStays
  <1>0. /\ TypeOK /\ LegsTypeOK /\ ChainInv /\ MakerInv /\ "taker" \in Parties /\ Fund("taker") \in Txs
        /\ reorgs \in Nat
    BY FundIsTx, ConstantsAssumption DEF Inv, TypeOK, AtomicInv, Parties
  <1>1. CASE \E p \in Parties : EngineStep(p)
    BY <1>0, <1>1, EngineChain DEF FundingStays, Out
  <1>2. CASE \E t \in Txs : Confirm(t)
    BY <1>0, <1>2, CalmConfirm DEF FundingStays, Out
  <1>3. CASE UNCHANGED chain
    BY <1>3 DEF FundingStays
  <1>4. CASE Tick
    BY <1>0, <1>4, ChainNextEpoch DEF Tick, FundingStays, Out
  <1>5. ~Disturbance
    BY <1>0 DEF Undisturbed, Disturbance
  <1>6. Deliver \/ (\E p \in Parties : Abort(p)) \/ (\E p \in Parties, t \in Txs : Gossip(p, t))
        => UNCHANGED chain
    BY DEF Deliver, Abort, Gossip, legVars
  <1> QED  BY <1>1, <1>2, <1>3, <1>4, <1>5, <1>6 DEF Next, Engine, Network

-----------------------------------------------------------------------------
(* The invariant of an undisturbed swap *)

\* Where the maker may start to send, it has seen the taker's leg locked.
LEMMA CalmMaker ==
    ASSUME TypeOK, ChainInv, MakerInv, CalmInv, EngineStep("maker")
    PROVE  pc'["maker"] \in SendingSteps \/ "template" \in mail' \/ funded' => Mined(Fund("taker"))
  <1>0. "maker" \in Parties
    BY DEF Parties
  <1>1. CASE Begin("maker")
    BY <1>0, <1>1 DEF Begin, engineVars, TypeOK, SendingSteps, CalmInv, MakerInv
  <1>2. CASE RefundCheck("maker")
    <2>1. RefundChecked("maker") /\ UNCHANGED engineVars
      BY <1>0, <1>2, RefundCheckEffects, RefundCheckFrame
    <2>2. pc'["maker"] \notin SendingSteps
      BY <1>0, <2>1, GotoEffect, ReturnEffect DEF RefundChecked, SendingSteps
    <2> QED  BY <2>1, <2>2 DEF engineVars, CalmInv, MakerInv
  <1>3. CASE MakerFunding("maker")
    <2>1. UNCHANGED engineVars
      BY <1>3 DEF MakerFunding, RewindTo
    <2>2. pc'["maker"] \in SendingSteps => Mined(Fund("taker"))
      <3>1. CASE FundingConfirmed("maker", "taker")
        BY <3>1 DEF FundingConfirmed
      <3>2. CASE ~FundingConfirmed("maker", "taker")
        <4>1. RewindTo("maker", "async_taker_funding")
          BY <1>3, <3>2 DEF MakerFunding
        <4> QED  BY <1>0, <4>1, AdvanceEffect, GotoEffect DEF SendingSteps
      <3> QED  BY <3>1, <3>2
    <2> QED  BY <2>1, <2>2 DEF engineVars, CalmInv, MakerInv
  <1>4. CASE SendTemplate \/ FundMakerLeg \/ SaveNotice \/ SendNotice
    <2>1. pc["maker"] \in SendingSteps
      BY <1>4 DEF SendTemplate, FundMakerLeg, SaveNotice, SendNotice, At, SendingSteps
    <2> QED  BY <2>1 DEF CalmInv
  <1>5. CASE /\ Effect("maker", Phases \ {"expired"}, {"refund", "mark", "observe", "settle"})
             /\ ~(SendTemplate \/ FundMakerLeg \/ SendNotice)
    <2>1. UNCHANGED <<funded, mail>>
      BY <1>0, <1>5, EngineMessages
    <2>2. pc'["maker"] \notin SendingSteps
      BY <1>0, <1>5, GotoEffect, ReturnEffect DEF Effect, SendingSteps
    <2> QED  BY <2>1, <2>2 DEF CalmInv, MakerInv
  <1> QED  BY <1>1, <1>2, <1>3, <1>4, <1>5, MakerElsewhere

\* Where the taker may reveal the secret, it has seen both legs locked.
LEMMA CalmTaker ==
    ASSUME TypeOK, ChainInv, MakerInv, TakerInv, CalmInv, EngineStep("taker")
    PROVE  /\ pc'["taker"] \in {"claim", "proxy"} => Mined(Fund("maker")) /\ Mined(Fund("taker"))
           /\ pc'["taker"] = "proxy" => Out(Claim("maker"))'
  <1>0. "taker" \in Parties /\ Claim("maker") \in Txs
    BY FundIsTx DEF Parties
  <1>1. CASE Begins
    BY <1>1, TakerBegins
  <1>2. CASE RefundCheck("taker")
    BY <1>0, <1>2, RefundCheckEffects, GotoEffect, ReturnEffect DEF RefundChecked
  <1>3. CASE TakerFunding("taker")
    BY <1>0, <1>3, FundingEffects, GotoEffect, ReturnEffect DEF Effect
  <1>4. CASE TakerClaiming("taker")
    <2>1. Effect("taker", {"async_taker_funding", "async_maker_funding"}, {"refund", "claim"})
      BY <1>0, <1>4, ClaimingEffects
    <2>2. pc'["taker"] \in {"refund", "claim", "idle"}
      BY <1>0, <2>1, GotoEffect, ReturnEffect DEF Effect
    <2>3. CASE ~FundingConfirmed("taker", "taker") \/ ~FundingConfirmed("taker", "maker")
      <3>1. \E phase : RewindTo("taker", phase)
        BY <1>4, <2>3 DEF TakerClaiming
      <3> QED  BY <1>0, <3>1, AdvanceEffect, GotoEffect
    <2>4. CASE FundingConfirmed("taker", "taker") /\ FundingConfirmed("taker", "maker")
      BY <2>2, <2>4 DEF FundingConfirmed
    <2> QED  BY <2>3, <2>4
  <1>5. CASE ClaimMakerLeg
    <2>1. pc["taker"] = "claim"
      BY <1>5 DEF ClaimMakerLeg, At
    <2>2. pc'["taker"] = "proxy" => Broadcast("taker", Claim("maker"))
      BY <1>0, <1>5, ReturnEffect DEF ClaimMakerLeg, PublishThen
    <2>3. Broadcast("taker", Claim("maker")) => Out(Claim("maker"))'
      BY <1>0, ChainBroadcast DEF TypeOK
    <2> QED  BY <2>1, <2>2, <2>3 DEF CalmInv
  <1>6. CASE \E phases : Effect("taker", phases, {"refund", "await", "observe", "settle"})
    BY <1>0, <1>6, GotoEffect, ReturnEffect DEF Effect
  <1>7. CASE \E phases : Effect("taker", phases, {"refund"})
    BY <1>0, <1>7, GotoEffect, ReturnEffect DEF Effect
  <1>8. CASE rec["taker"].phase = "expired"
    BY <1>8 DEF TakerInv
  <1> QED  BY <1>1, <1>2, <1>3, <1>4, <1>5, <1>6, <1>7, <1>8, TakerElsewhere

\* Every step but a disturbance keeps what the engines rely on.
LEMMA CalmStep ==
    ASSUME Inv, AtomicInv, CalmInv, Attended, Next, Undisturbed
    PROVE  CalmInv'
  <1>0. /\ TypeOK /\ LegsTypeOK /\ ChainInv /\ MakerInv /\ TakerInv
        /\ "maker" \in Parties /\ "taker" \in Parties /\ reorgs \in Nat
        /\ Fund("maker") \in Txs /\ Fund("taker") \in Txs /\ Claim("maker") \in Txs /\ Claim("taker") \in Txs
        /\ Claim("maker") # Claim("taker") /\ Fund("maker") # Fund("taker")
        /\ \A l, k \in Parties : Claim(l) # Fund(k) /\ Claim(l) # Refund(k) /\ Fund(l) # Refund(k)
    BY FundIsTx, TxNames, ConstantsAssumption DEF Inv, TypeOK, AtomicInv, Parties
  <1>1. CASE \E p \in Parties : EngineStep(p)
    <2>1. PICK p \in Parties : EngineStep(p)
      BY <1>1
    <2>2. /\ epoch' = epoch
          /\ \A u \in Txs : Mined(u)' <=> Mined(u)
          /\ \A u \in Txs : chain[u] = "final" => chain'[u] = "final"
          /\ \A u \in Txs : Out(u) => Out(u)'
          /\ \A u \in Txs : Out(u)' => Out(u) \/ Grounds(p, u)
      BY <1>0, <2>1, EngineChain
    <2>3. Out(Claim("maker"))' => Out(Claim("maker")) \/ pc["taker"] = "claim"
      BY <1>0, <2>2 DEF Grounds
    <2>4. Out(Claim("taker"))' => Out(Claim("taker")) \/ Out(Claim("maker"))
      <3>1. ClaimSeen(p, "maker") => Out(Claim("maker"))
        BY <1>0 DEF ClaimSeen, Seen, Mined, ChainInv, Out
      <3> QED  BY <1>0, <2>2, <3>1 DEF Grounds, CalmInv
    <2>5. funded' => funded \/ (p = "maker" /\ epoch = 0)
      BY <1>0, <2>1, EngineMessages
      DEF SendTemplate, SendNotice, FundMakerLeg, FundingWindowOpen, Quiet, engineVars
    <2>6. Out(Fund("maker"))' => Out(Fund("maker")) \/ funded'
      BY <1>0, <2>2 DEF Grounds
    <2>7. CASE p = "maker"
      <3>1. pc'["maker"] \in SendingSteps \/ "template" \in mail' \/ funded' => Mined(Fund("taker"))
        BY <1>0, <2>1, <2>7, CalmMaker
      <3>2. LeavesAlone("taker")
        BY <1>0, <2>1, <2>7, EngineFrame
      <3> QED  BY <1>0, <2>2, <2>3, <2>4, <2>5, <2>6, <3>1, <3>2 DEF CalmInv, LeavesAlone, MakerInv
    <2>8. CASE p = "taker"
      <3>1. /\ pc'["taker"] \in {"claim", "proxy"} => Mined(Fund("maker")) /\ Mined(Fund("taker"))
            /\ pc'["taker"] = "proxy" => Out(Claim("maker"))'
        BY <1>0, <2>1, <2>8, CalmTaker
      <3>2. LeavesAlone("maker") /\ UNCHANGED <<funded, mail>>
        BY <1>0, <2>1, <2>8, EngineFrame, EngineMessages
      <3> QED  BY <1>0, <2>2, <2>3, <2>4, <2>5, <2>6, <3>1, <3>2 DEF CalmInv, LeavesAlone, MakerInv
    <2> QED  BY <2>7, <2>8 DEF Parties
  <1>2. CASE Network
    <2>1. UNCHANGED <<pc, mail>>
      BY <1>2 DEF Network
    <2>2. CASE \E t \in Txs : Confirm(t)
      <3>1. /\ \A l \in Parties : /\ Mined(Fund(l)) => Mined(Fund(l))'
                                  /\ Out(Fund(l)) <=> Out(Fund(l))'
            /\ Out(Claim("maker")) <=> Out(Claim("maker"))'
            /\ Out(Claim("taker"))' => Out(Claim("taker"))
            /\ \A u \in Txs : chain[u] = "final" => chain'[u] = "final"
            /\ epoch' = epoch
        BY <1>0, <2>2, CalmConfirm
      <3> QED  BY <1>0, <2>1, <3>1 DEF CalmInv
    <2>3. CASE \E p \in Parties, t \in Txs : Gossip(p, t)
      BY <2>1, <2>3 DEF Gossip, CalmInv, Mined, Out
    <2> QED  BY <1>2, <2>2, <2>3 DEF Network
  <1>3. CASE Tick
    <2>1. /\ epoch' = epoch + 1 /\ UNCHANGED <<pc, mail>> /\ PoolsDrained
          /\ \A u \in Txs : (chain'[u] = "final") <=> Mined(u)
          /\ \A u \in Txs : Out(u)' <=> Out(u)
      BY <1>0, <1>3, ChainNextEpoch DEF Tick, Attended
    <2>2. \A u \in Txs : Mined(u) => Mined(u)'
      BY <2>1 DEF Mined
    <2>3. Out(Fund("maker")) => Mined(Fund("maker"))
      <3>1. chain[Fund("maker")] # "pool"
        BY <1>0, <2>1, TxNames DEF PoolsDrained
      <3> QED  BY <1>0, <3>1 DEF LegsTypeOK, Out, Mined
    <2> QED  BY <1>0, <2>1, <2>2, <2>3 DEF CalmInv
  <1>4. CASE Deliver
    BY <1>4 DEF Deliver, legVars, CalmInv, Mined, Out
  <1>5. CASE \E p \in Parties : Abort(p)
    <2>1. /\ UNCHANGED <<chain, epoch, mail>>
          /\ \A q \in Parties : pc'[q] \in {pc[q], "idle"}
      BY <1>0, <1>5 DEF Abort, legVars, TypeOK
    <2> QED  BY <1>0, <2>1 DEF CalmInv, Mined, Out, SendingSteps
  <1>6. ~Disturbance
    BY <1>0 DEF Undisturbed, Disturbance
  <1> QED  BY <1>1, <1>2, <1>3, <1>4, <1>5, <1>6 DEF Next, Engine

-----------------------------------------------------------------------------
(* The abstract swap *)

\* What the state of a leg says of the chains.
LEMMA LegStates ==
    ASSUME ChainInv, NEW p \in Parties
    PROVE  /\ (LegState(p) = "claimed") <=> Mined(Claim(p))
           /\ (LegState(p) = "refunded") <=> Mined(Refund(p))
           /\ (LegState(p) = "unfunded") <=> ~Mined(Fund(p))
           /\ (LegState(p) = "locked") <=> (Mined(Fund(p)) /\ ~Mined(Claim(p)) /\ ~Mined(Refund(p)))
  <1>1. /\ Claim(p) \in Spends(p) /\ Refund(p) \in Spends(p) /\ Rival(Claim(p)) = Refund(p)
    BY TxNames DEF Spends
  <1>2. /\ Mined(Claim(p)) => Mined(Fund(p)) /\ ~Mined(Refund(p))
        /\ Mined(Refund(p)) => Mined(Fund(p))
    BY <1>1 DEF ChainInv, Mined, Out
  <1> QED  BY <1>2 DEF LegState

\* A leg whose transactions are mined as before is in the same state.
LEMMA SameLegs ==
    ASSUME \A p \in Parties : /\ Mined(Fund(p))' <=> Mined(Fund(p))
                              /\ Mined(Claim(p))' <=> Mined(Claim(p))
                              /\ Mined(Refund(p))' <=> Mined(Refund(p))
    PROVE  [p \in Parties |-> LegState(p)]' = [p \in Parties |-> LegState(p)]
  BY DEF LegState

\* A block locks, claims or refunds one leg.
LEMMA BlockImplements ==
    ASSUME TypeOK, AtomicInv, AtomicInv', CalmInv, NEW t \in Txs, Confirm(t)
    PROVE  Abstract!Next
  <1> DEFINE legs == [p \in Parties |-> LegState(p)]
             revealed == chain[Claim("maker")] # "none"
  <1>0. /\ LegsTypeOK /\ ChainInv /\ ChainInv' /\ "maker" \in Parties /\ "taker" \in Parties
        /\ \A p \in Parties : Fund(p) \in Txs /\ Claim(p) \in Txs /\ Refund(p) \in Txs
    BY FundIsTx DEF TypeOK, AtomicInv, Parties
  <1>1. revealed' = revealed
    BY CalmConfirm DEF Out
  <1>2. PICK k \in Parties :
           \/ t = Fund(k) /\ \A u \in Txs \ {t} : chain'[u] = chain[u]
           \/ /\ t \in Spends(k) /\ Mined(Fund(k)) /\ chain'[Rival(t)] = "none"
              /\ \A u \in Txs \ {t, Rival(t)} : chain'[u] = chain[u]
    BY <1>0, ConfirmEffect
  <1>3. chain[t] = "pool" /\ chain'[t] = "conf"
    BY <1>0, ConfirmEffect
  <1>4. \A p \in Parties \ {k} : LegState(p)' = LegState(p)
    <2> SUFFICES ASSUME NEW p \in Parties, p # k PROVE LegState(p)' = LegState(p)
      OBVIOUS
    <2>1. \A u \in {Fund(p), Claim(p), Refund(p)} : chain'[u] = chain[u]
      <3>1. Claim(p) \in Spends(p) /\ Refund(p) \in Spends(p)
        BY DEF Spends
      <3>2. CASE t = Fund(k)
        BY <1>0, <1>2, <3>1, <3>2, TxNames, SpendNames
      <3>3. CASE t \in Spends(k)
        <4>1. t \notin Spends(p) /\ Rival(t) \notin Spends(p) /\ Fund(p) # t /\ Fund(p) # Rival(t)
          BY <3>3, SpendNames
        <4> QED  BY <1>0, <1>2, <3>1, <3>3, <4>1, SpendNames
      <3> QED  BY <1>2, <3>2, <3>3
    <2> QED  BY <2>1 DEF LegState, Mined
  <1>5. \A s : LegState(k)' = s => legs' = [legs EXCEPT ![k] = s]
    BY <1>4
  <1>6. CASE t = Fund(k)
    <2>1. ~Mined(Fund(k)) /\ Mined(Fund(k))'
      BY <1>3, <1>6 DEF Mined
    <2>2. ~Mined(Claim(k))' /\ ~Mined(Refund(k))'
      <3>1. chain'[Claim(k)] = chain[Claim(k)] /\ chain'[Refund(k)] = chain[Refund(k)]
        BY <1>0, <1>2, <1>6, SpendNames DEF Spends
      <3>2. ~Mined(Claim(k)) /\ ~Mined(Refund(k))
        BY <1>0, <2>1 DEF ChainInv, Spends
      <3> QED  BY <3>1, <3>2 DEF Mined
    <2>3. LegState(k) = "unfunded" /\ LegState(k)' = "locked"
      BY <1>0, <2>1, <2>2, LegStates DEF LegState
    <2>4. k = "maker" => LegState("taker") = "locked"
      <3> SUFFICES ASSUME k = "maker" PROVE LegState("taker") = "locked"
        OBVIOUS
      <3>1. Mined(Fund("taker"))
        BY <1>3, <1>6 DEF CalmInv, Out
      <3>2. ~Mined(Claim("taker"))
        BY <2>1 DEF CalmInv, Mined, Out
      <3>3. ~Mined(Refund("taker"))
        <4>1. SUFFICES ASSUME Mined(Refund("taker")) PROVE FALSE
          OBVIOUS
        <4>2. epoch >= 3
          BY <1>0, <4>1, ConstantsAssumption DEF ChainInv, Mined, Out, RefundDue, RefundEpoch
        <4>3. chain[Fund("maker")] = "final"
          BY <1>3, <1>6, <4>2 DEF CalmInv, Out, TypeOK, LegsTypeOK
        <4> QED  BY <1>3, <1>6, <4>3
      <3> QED  BY <1>0, <3>1, <3>2, <3>3, LegStates
    <2>5. legs' = [legs EXCEPT ![k] = "locked"]
      BY <1>5, <2>3
    <2> QED
      BY <1>0, <1>1, <2>3, <2>4, <2>5 DEF Abstract!Next, Abstract!Lock, Abstract!Legs, Parties
  <1>7. CASE t \in Spends(k)
    <2>1. ~Mined(t) /\ ~Mined(Rival(t)) /\ Mined(Fund(k))
      <3>1. Rival(t) \in Spends(k) /\ Rival(Rival(t)) = t
        BY <1>7, SpendNames
      <3>2. ~Mined(Rival(t))
        BY <1>0, <1>3, <3>1 DEF ChainInv, Out
      <3> QED  BY <1>2, <1>3, <1>7, <3>2, SpendNames DEF Mined
    <2>2. LegState(k) = "locked"
      BY <1>0, <1>7, <2>1, LegStates, TxNames DEF Spends
    <2>3. CASE t = Claim(k)
      <3>0. chain'[Refund(k)] = "none"
        BY <1>2, <1>7, <2>3, SpendNames, TxNames
      <3>1. LegState(k)' = "claimed"
        BY <1>3, <2>3, <3>0 DEF LegState, Mined
      <3>2. revealed
        BY <1>3, <2>3 DEF CalmInv, Out, Parties
      <3>3. legs' = [legs EXCEPT ![k] = "claimed"]
        BY <1>5, <3>1
      <3> QED
        BY <1>0, <1>1, <2>2, <3>2, <3>3 DEF Abstract!Next, Abstract!Claim, Abstract!Legs, Parties
    <2>4. CASE t = Refund(k)
      <3>1. chain'[Claim(k)] = "none"
        BY <1>2, <1>7, <2>4, SpendNames, TxNames
      <3>2. LegState(k)' = "refunded"
        BY <1>3, <2>4, <3>1 DEF LegState, Mined
      <3>3. ~revealed
        BY <1>3, <2>4, RefundBeforeReveal DEF Out
      <3>4. legs' = [legs EXCEPT ![k] = "refunded"]
        BY <1>5, <3>2
      <3> QED
        BY <1>0, <1>1, <2>2, <3>3, <3>4 DEF Abstract!Next, Abstract!Refund, Abstract!Legs, Parties
    <2> QED  BY <1>7, <2>3, <2>4 DEF Spends
  <1> QED  BY <1>2, <1>6, <1>7

\* A step of an engine reveals the secret while both legs are locked, or is
\* none of the abstract swap's steps.
LEMMA EngineImplements ==
    ASSUME TypeOK, AtomicInv, CalmInv, NEW p \in Parties, EngineStep(p)
    PROVE  Abstract!Next \/ UNCHANGED Abstract!vars
  <1> DEFINE legs == [q \in Parties |-> LegState(q)]
             revealed == chain[Claim("maker")] # "none"
  <1>0. /\ ChainInv /\ MakerInv /\ TakerInv /\ "maker" \in Parties /\ "taker" \in Parties
        /\ \A q \in Parties : Fund(q) \in Txs /\ Claim(q) \in Txs /\ Refund(q) \in Txs
        /\ \A l, k \in Parties : Claim(l) # Fund(k) /\ Claim(l) # Refund(k)
        /\ Claim("maker") # Claim("taker")
    BY FundIsTx, TxNames DEF AtomicInv, Parties
  <1>1. /\ \A u \in Txs : Mined(u)' <=> Mined(u)
        /\ \A u \in Txs : Out(u) => Out(u)'
        /\ \A u \in Txs : Out(u)' => Out(u) \/ Grounds(p, u)
    BY <1>0, EngineChain
  <1>2. legs' = legs
    BY <1>0, <1>1, SameLegs
  <1>3. CASE revealed' = revealed
    BY <1>2, <1>3 DEF Abstract!vars
  <1>4. CASE revealed' # revealed
    <2>1. ~Out(Claim("maker")) /\ Out(Claim("maker"))'
      BY <1>0, <1>1, <1>4 DEF Out
    <2>2. p = "taker" /\ pc["taker"] = "claim"
      BY <1>0, <1>1, <2>1 DEF Grounds
    <2>3. Mined(Fund("maker")) /\ Mined(Fund("taker"))
      BY <2>2 DEF CalmInv
    <2>4. \A l \in Parties : ~Mined(Claim(l))
      BY <2>1 DEF CalmInv, Mined, Out, Parties
    <2>5. \A l \in Parties : ~Mined(Refund(l))
      <3>1. ClaimMakerLeg
        <4>1. CASE ~ClaimMakerLeg
          <5>1. Starts("taker") => FALSE
            BY <2>2 DEF Starts, Begin, BeginWithMessages, RefuseTemplate, At
          <5>2. RefundCheck("taker") => FALSE
            BY <2>2
            DEF RefundCheck, NoRefundCheck, ClaimBeforeRefund, NotDue, StartRefund, Expire,
                RefusedExpiry, UnfundedInWindow, At
          <5>3. TakerFunding("taker") \/ TakerFunded("taker") \/ MakerFunding("taker")
                \/ MakerFunded("taker") \/ TakerClaiming("taker") \/ TakerClaimed("taker")
                \/ MakerClaiming("taker") \/ Complete("taker") \/ WaitingForRefund("taker")
                \/ Refunding("taker") \/ Refunded("taker") \/ Expired("taker") => FALSE
            BY <2>2
            DEF TakerFunding, TakerFunded, MakerFunding, MakerFunded, TakerClaiming, TakerClaimed,
                MakerClaiming, Complete, WaitingForRefund, Refunding, Refunded, Expired, InPhase
          <5>4. MarkSubmitted("taker") \/ AwaitMakerFunding("taker") \/ ObserveTakerClaim("taker")
                \/ Settle("taker") \/ ProxyMakerClaim => FALSE
            BY <2>2
            DEF MarkSubmitted, AwaitMakerFunding, ObserveTakerClaim, Settle, ProxyMakerClaim, At
          <5> QED  BY <2>2, <4>1, <5>1, <5>2, <5>3, <5>4 DEF EngineStep, Starts
        <4> QED  BY <4>1
      <3>2. Publishable(Claim("maker"))
        <4>1. CASE ~Publishable(Claim("maker"))
          <5>1. UNCHANGED chain
            BY <3>1, <4>1 DEF ClaimMakerLeg, PublishThen, Quiet, legVars
          <5> QED  BY <2>1, <5>1 DEF Out
        <4> QED  BY <4>1
      <3>3. ~Mined(Refund("maker"))
        BY <1>0, <3>2, TxNames DEF Publishable
      <3>4. ~Mined(Refund("taker"))
        <4>1. SUFFICES ASSUME Mined(Refund("taker")) PROVE FALSE
          OBVIOUS
        <4>2. epoch >= 3
          BY <1>0, <4>1, ConstantsAssumption DEF ChainInv, Mined, Out, RefundDue, RefundEpoch
        <4>3. "notice" \in mail
          BY <1>0, <2>2 DEF TakerInv, TypeOK
        <4>4. chain[Claim("taker")] = "final"
          BY <4>2, <4>3 DEF AtomicInv, EpochInv
        <4> QED  BY <2>4, <4>4, <1>0 DEF Mined
      <3> QED  BY <3>3, <3>4 DEF Parties
    <2>6. \A l \in Parties : LegState(l) = "locked"
      BY <1>0, <2>3, <2>4, <2>5, LegStates DEF Parties
    <2>7. \A l \in Abstract!Legs : legs[l] = "locked"
      BY <2>6 DEF Abstract!Legs, Parties
    <2>8. ~revealed /\ revealed' = TRUE
      BY <2>1 DEF Out
    <2> QED  BY <1>2, <2>7, <2>8 DEF Abstract!Next, Abstract!Reveal
  <1> QED  BY <1>3, <1>4

\* Every undisturbed step of the two engines, the relay and the networks is a
\* step of the abstract swap or none of its steps.
LEMMA StepImplements ==
    ASSUME Inv, AtomicInv, AtomicInv', CalmInv, Next, Undisturbed
    PROVE  Abstract!Next \/ UNCHANGED Abstract!vars
  <1>0. /\ TypeOK /\ ChainInv /\ LegsTypeOK /\ reorgs \in Nat
        /\ \A p \in Parties : Fund(p) \in Txs /\ Claim(p) \in Txs /\ Refund(p) \in Txs
        /\ "maker" \in Parties
    BY FundIsTx, ConstantsAssumption DEF Inv, TypeOK, AtomicInv, Parties
  <1>1. CASE \E p \in Parties : EngineStep(p)
    BY <1>0, <1>1, EngineImplements
  <1>2. CASE \E t \in Txs : Confirm(t)
    BY <1>0, <1>2, BlockImplements
  <1>3. CASE UNCHANGED chain
    BY <1>3, SameLegs DEF Mined, Abstract!vars
  <1>4. CASE Tick
    <2>1. /\ \A u \in Txs : (chain'[u] = "final") <=> Mined(u)
          /\ \A u \in Txs : Out(u)' <=> Out(u)
          /\ \A u \in Txs : chain'[u] # "conf"
      BY <1>0, <1>4, ChainNextEpoch DEF Tick, NextEpoch, LegsTypeOK
    <2>2. \A u \in Txs : Mined(u)' <=> Mined(u)
      BY <2>1 DEF Mined
    <2>3. [p \in Parties |-> LegState(p)]' = [p \in Parties |-> LegState(p)]
      BY <1>0, <2>2, SameLegs
    <2>4. (chain[Claim("maker")] # "none")' = (chain[Claim("maker")] # "none")
      BY <1>0, <2>1 DEF Out
    <2> QED  BY <2>3, <2>4 DEF Abstract!vars
  <1>5. ~Disturbance
    BY <1>0 DEF Undisturbed, Disturbance
  <1>6. Deliver \/ (\E p \in Parties : Abort(p)) \/ (\E p \in Parties, t \in Txs : Gossip(p, t))
        => UNCHANGED chain
    BY DEF Deliver, Abort, Gossip, legVars
  <1> QED  BY <1>1, <1>2, <1>3, <1>4, <1>5, <1>6 DEF Next, Engine, Network

\* The first state is the abstract swap's, and what the engines rely on holds.
LEMMA CalmInit ==
    ASSUME Init
    PROVE  CalmInv /\ Abstract!Init
  <1>1. \A u \in Txs : ~Mined(u) /\ ~Out(u)
    BY DEF Init, LegsInit, Mined, Out
  <1>2. \A p \in Parties : Fund(p) \in Txs /\ Claim(p) \in Txs /\ Refund(p) \in Txs
    BY FundIsTx
  <1>3. CalmInv
    BY <1>1, <1>2 DEF Init, CalmInv, SendingSteps, Parties
  <1>4. \A p \in Parties : LegState(p) = "unfunded"
    BY <1>1, <1>2 DEF LegState
  <1>5. Abstract!Init
    BY <1>1, <1>2, <1>4 DEF Abstract!Init, Abstract!Legs, Parties, Out
  <1> QED  BY <1>3, <1>5

\* When no block is reorganised and nothing evicted, two engines with an
\* attentive taker implement the abstract swap step by step: the amounts are
\* locked in order, the secret is revealed while both are locked, and then
\* both are claimed, or it never is and they return (driveAsyncSwap).
THEOREM Implementation ==
    ASSUME Attended
    PROVE  Spec /\ [][Undisturbed]_vars => ImplementsAtomicSwap
  <1> DEFINE IInv == AtomicInv /\ CalmInv
  <1>1. Init => IInv /\ Abstract!Init
    BY AtomicInit, CalmInit
  <1>2. Inv /\ IInv /\ [Next]_vars /\ [Undisturbed]_vars
           => IInv' /\ [Abstract!Next]_(Abstract!vars)
    <2> SUFFICES ASSUME Inv, IInv, [Next]_vars, [Undisturbed]_vars
                 PROVE  IInv' /\ [Abstract!Next]_(Abstract!vars)
      OBVIOUS
    <2>1. CASE UNCHANGED vars
      <3>1. UNCHANGED <<chain, known, epoch, rec, funded, mail, inbox, pc, poll>>
        BY <2>1 DEF vars, legVars, engineVars
      <3>2. AtomicInv'
        <4>1. ChainInv' /\ MakerInv'
          BY <3>1 DEF AtomicInv, ChainInv, MakerInv, Out, Mined, RefundDue
        <4>2. TakerInv' /\ EpochInv'
          BY <3>1 DEF AtomicInv, TakerInv, EpochInv, Out
        <4>3. PassInv'
          BY <3>1 DEF AtomicInv, PassInv, Claimable, Seen, Mined, Out
        <4> QED  BY <4>1, <4>2, <4>3 DEF AtomicInv
      <3>3. CalmInv'
        BY <3>1 DEF CalmInv, Mined, Out
      <3>4. UNCHANGED Abstract!vars
        BY <3>1, SameLegs DEF Mined, Abstract!vars
      <3> QED  BY <3>2, <3>3, <3>4
    <2>2. CASE Next /\ Undisturbed
      <3>1. AtomicInv'
        BY <2>2, CalmFunding, AtomicStep
      <3>2. CalmInv'
        BY <2>2, CalmStep
      <3>3. Abstract!Next \/ UNCHANGED Abstract!vars
        BY <2>2, <3>1, StepImplements
      <3> QED  BY <3>1, <3>2, <3>3
    <2> QED  BY <2>1, <2>2
  <1> QED  BY <1>1, <1>2, Invariance, PTL DEF Spec, ImplementsAtomicSwap, Abstract!Spec

\* Where the model of the chains is without reorganisations, nothing else is
\* asked of a behaviour of the engines (the bound the run implements has).
THEOREM ImplementationWithoutReorgs ==
    ASSUME Attended, MaxReorgs = 0
    PROVE  Spec => ImplementsAtomicSwap
  <1>1. Inv /\ [Next]_vars => [Undisturbed]_vars
    <2> SUFFICES ASSUME Inv, Next PROVE Undisturbed \/ UNCHANGED vars
      OBVIOUS
    <2>1. ~Disturbance
      BY DEF Disturbance, Inv, TypeOK
    <2>2. Network \/ Tick \/ Deliver \/ (\E p \in Parties : Abort(p)) => Undisturbed
      BY DEF Network, Tick, Deliver, Abort, Undisturbed, faultVars
    <2>3. (\E p \in Parties : Engine(p)) => Undisturbed
      BY DEF Engine, Undisturbed, faultVars
    <2> QED  BY <2>1, <2>2, <2>3 DEF Next
  <1> QED  BY <1>1, Invariance, Implementation, PTL DEF Spec
-----------------------------------------------------------------------------
(* The abstract swap *)

Revealed == chain[Claim("maker")] # "none"

\* The secret decides: before it is public no leg is claimed, and once it is
\* public no leg is anything but locked or claimed.
Decided ==
    /\ ~Revealed => \A l \in Parties : LegState(l) # "claimed"
    /\ Revealed => \A l \in Parties : LegState(l) \in {"locked", "claimed"}

\* A step of the abstract swap changes one leg, or reveals the secret.
LEMMA AbstractStep ==
    ASSUME [Abstract!Next]_(Abstract!vars), Decided
    PROVE  Decided'
  <1>0. Parties = Abstract!Legs
    BY DEF Parties, Abstract!Legs
  <1>1. CASE Abstract!Reveal
    <2>1. ~Revealed /\ Revealed' /\ \A l \in Parties : LegState(l) = "locked"
      BY <1>0, <1>1 DEF Abstract!Reveal, Revealed
    <2>2. \A l \in Parties : LegState(l)' = LegState(l)
      BY <1>1 DEF Abstract!Reveal
    <2> QED  BY <2>1, <2>2 DEF Decided
  <1>2. ASSUME NEW l \in Parties, Abstract!Lock(l)
        PROVE  Decided'
    <2>1. /\ Revealed' <=> Revealed
          /\ LegState(l) = "unfunded" /\ LegState(l)' = "locked"
          /\ \A m \in Parties : m # l => LegState(m)' = LegState(m)
      BY <1>2 DEF Abstract!Lock, Revealed
    <2> QED  BY <2>1 DEF Decided
  <1>3. ASSUME NEW l \in Parties, Abstract!Claim(l)
        PROVE  Decided'
    <2>1. /\ Revealed /\ Revealed'
          /\ LegState(l)' = "claimed"
          /\ \A m \in Parties : m # l => LegState(m)' = LegState(m)
      BY <1>3 DEF Abstract!Claim, Revealed
    <2> QED  BY <2>1 DEF Decided
  <1>4. ASSUME NEW l \in Parties, Abstract!Refund(l)
        PROVE  Decided'
    <2>1. /\ ~Revealed /\ ~Revealed'
          /\ LegState(l)' = "refunded"
          /\ \A m \in Parties : m # l => LegState(m)' = LegState(m)
      BY <1>4 DEF Abstract!Refund, Revealed
    <2> QED  BY <2>1 DEF Decided
  <1>5. CASE UNCHANGED Abstract!vars
    <2>1. (Revealed' <=> Revealed) /\ \A l \in Parties : LegState(l)' = LegState(l)
      BY <1>5 DEF Abstract!vars, Revealed
    <2> QED  BY <2>1 DEF Decided
  <1> QED  BY <1>0, <1>1, <1>2, <1>3, <1>4, <1>5 DEF Abstract!Next

\* The two amounts of an abstract swap change hands together or both return:
\* no leg is refunded to its funder while the other is claimed
\* (docs/PRODUCT.md).
THEOREM AbstractIsAtomic == Abstract!Spec => [](Abstract!TypeOK /\ Abstract!Atomic)
  <1>1. Abstract!Init => Decided
    <2> SUFFICES ASSUME Abstract!Init PROVE Decided
      OBVIOUS
    <2>1. ~Revealed /\ \A l \in Parties : LegState(l) = "unfunded"
      BY DEF Abstract!Init, Abstract!Legs, Parties, Revealed
    <2> QED  BY <2>1 DEF Decided
  <1>2. Decided /\ [Abstract!Next]_(Abstract!vars) => Decided'
    BY AbstractStep
  <1>3. Decided => Abstract!Atomic
    BY DEF Decided, Abstract!Atomic, Abstract!Legs, Parties
  <1>4. Abstract!TypeOK
    <2>1. \A l \in Parties : LegState(l) \in {"unfunded", "locked", "claimed", "refunded"}
      BY DEF LegState
    <2> QED  BY <2>1 DEF Abstract!TypeOK, Abstract!Legs, Parties
  <1> QED  BY <1>1, <1>2, <1>3, <1>4, PTL DEF Abstract!Spec
=============================================================================
