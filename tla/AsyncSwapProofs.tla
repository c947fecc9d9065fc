-------------------------- MODULE AsyncSwapProofs ---------------------------
(***************************************************************************)
(* Proofs about the version 2 swap for every number of aborted passes,     *)
(* reorganisations and evictions.  First, for every choice of attentive    *)
(* traders, types, and that the maker never funds before the taker can be  *)
(* handed the template of the maker's claim.  Then why the swap is atomic  *)
(* when its taker is attentive, the maker gives bitcoin and no eviction    *)
(* takes the taker's funding; the maker may run at any time or never.      *)
(***************************************************************************)
EXTENDS AsyncSwap, SwapLegsProofs

\* The maker's engine past the point where the template was sent.
FundingSteps == {"fund", "save", "notice"}

\* Why the order holds: the engine funds and notifies only after the template,
\* and a notice, which the taker may act on, is behind the template.
TemplateFirst ==
    /\ pc["maker"] \in FundingSteps => "template" \in mail
    /\ "notice" \in mail => "template" \in mail
    /\ TemplateBeforeFunding

Inv == TypeOK /\ TemplateFirst

\* The phases a version 2 swap can have.
AsyncSwapPhases == Phases \ LegacyPhases

-----------------------------------------------------------------------------
\* No claim or refund, and no other funding, is the maker's funding.
LEMMA OnlyFunds ==
    /\ \A l \in Parties : Claim(l) # Fund("maker") /\ Refund(l) # Fund("maker")
    /\ Fund("taker") # Fund("maker")
  BY DEF Fund, Claim, Refund

\* The phases that the version 2 engine moves to are phases of its records.
LEMMA PhasesReached ==
    {"async_taker_funding", "async_taker_funded", "async_maker_funding",
     "async_maker_funded", "async_taker_claiming", "async_taker_claimed",
     "async_maker_claiming", "waiting_for_refund", "refunding", "complete",
     "refunded", "expired"} \subseteq AsyncSwapPhases
  BY DEF AsyncSwapPhases, Phases, LegacyPhases, AsyncPhases, RefundPhases, TerminalPhases

\* What a pass does next is one of the engine's steps, and a pass that goes on
\* or ends keeps the other trader where it is.
LEMMA Moves ==
    ASSUME TypeOK, NEW p \in Parties, NEW step \in EngineSteps,
           Goto(p, step) \/ Return(p)
    PROVE  /\ pc' \in [Parties -> EngineSteps]
           /\ poll' \in [Parties -> {"stale", "running", "done"}]
           /\ \A q \in Parties : pc'[q] \in {pc[q], step, "idle"}
  <1>1. Stale \in [Parties -> {"stale", "running", "done"}]
    BY DEF Stale
  <1>2. CASE Goto(p, step)
    BY <1>1, <1>2 DEF Goto, TypeOK
  <1>3. CASE Return(p)
    <2>1. [poll EXCEPT ![p] = IF @ = "running" THEN "done" ELSE "stale"]
              \in [Parties -> {"stale", "running", "done"}]
      BY DEF TypeOK
    <2>2. poll' \in [Parties -> {"stale", "running", "done"}]
      BY <1>1, <1>3, <2>1 DEF Return
    <2>3. pc' = [pc EXCEPT ![p] = "idle"]
      BY <1>3 DEF Return
    <2>4. "idle" \in EngineSteps
      BY DEF EngineSteps
    <2> QED  BY <2>2, <2>3, <2>4 DEF TypeOK
  <1> QED  BY <1>2, <1>3

\* A step that neither sends a message nor lets the maker's funding start
\* keeps the invariant, wherever the pass goes but to the funding steps.
LEMMA PlainStep ==
    ASSUME Inv, NEW p \in Parties, NEW step \in EngineSteps \ FundingSteps,
           Goto(p, step) \/ Return(p),
           LegsTypeOK',
           chain[Fund("maker")] = "none" => chain'[Fund("maker")] = "none",
           rec' \in [Parties -> Records],
           UNCHANGED engineVars, UNCHANGED faultVars
    PROVE  Inv'
  <1>1. TypeOK'
    BY Moves DEF Inv, TypeOK, engineVars, faultVars
  <1>2. pc'["maker"] \in {pc["maker"], step, "idle"}
    BY Moves DEF Inv, Parties
  <1>3. TemplateFirst'
    BY <1>2 DEF Inv, TemplateFirst, TemplateBeforeFunding, FundingSteps, engineVars
  <1> QED  BY <1>1, <1>3 DEF Inv

\* The same for a step that also leaves the chains alone.
LEMMA LocalStep ==
    ASSUME Inv, NEW p \in Parties, NEW step \in EngineSteps \ FundingSteps,
           Goto(p, step) \/ Return(p),
           rec' \in [Parties -> Records],
           UNCHANGED <<legVars, engineVars>>, UNCHANGED faultVars
    PROVE  Inv'
  <1>1. LegsTypeOK'
    BY DEF Inv, TypeOK, LegsTypeOK, legVars
  <1> QED  BY <1>1, PlainStep DEF legVars

\* A step that changes nothing durable keeps the invariant.
LEMMA QuietStep ==
    ASSUME Inv, NEW p \in Parties, NEW step \in EngineSteps \ FundingSteps,
           Goto(p, step) \/ Return(p), Quiet, UNCHANGED faultVars
    PROVE  Inv'
  BY LocalStep DEF Quiet, Inv, TypeOK

\* The places of a pass that are not between the template and the notice.
LEMMA Steps ==
    /\ {"idle", "refund", "phase", "mark", "template", "await", "claim", "proxy",
        "observe", "settle"} = EngineSteps \ FundingSteps
    /\ FundingSteps \subseteq EngineSteps
  BY DEF EngineSteps, FundingSteps

\* Publishing a transaction other than the maker's funding keeps the invariant.
LEMMA PublishStep ==
    ASSUME Inv, NEW p \in Parties, NEW t \in Txs \ {Fund("maker")},
           NEW step \in EngineSteps \ FundingSteps,
           Goto(p, step) \/ Return(p), Broadcast(p, t),
           UNCHANGED <<rec, engineVars>>, UNCHANGED faultVars
    PROVE  Inv'
  <1>1. LegsTypeOK' /\ chain'[Fund("maker")] = chain[Fund("maker")]
    BY BroadcastLegs, FundIsTx DEF Inv, TypeOK, Parties
  <1> QED  BY <1>1, PlainStep DEF Inv, TypeOK

\* The same when the wallet may refuse the transaction.
LEMMA PublishThenStep ==
    ASSUME Inv, NEW p \in Parties, NEW t \in Txs \ {Fund("maker")},
           NEW step \in EngineSteps \ FundingSteps,
           PublishThen(p, t, step), UNCHANGED faultVars
    PROVE  Inv'
  BY PublishStep, QuietStep, Steps DEF PublishThen

\* A journal advance (Journal.Advance) keeps the invariant.
LEMMA AdvanceStep ==
    ASSUME Inv, NEW p \in Parties, NEW phase \in AsyncSwapPhases,
           AdvanceTo(p, phase), UNCHANGED faultVars
    PROVE  Inv'
  <1>1. rec' \in [Parties -> Records]
    BY DEF Inv, TypeOK, AdvanceTo, Records, AsyncSwapPhases
  <1> QED  BY <1>1, LocalStep, Steps DEF AdvanceTo

\* A journal rewind (Journal.RewindAfterReorg) keeps the invariant.
LEMMA RewindStep ==
    ASSUME Inv, NEW p \in Parties, NEW phase \in AsyncSwapPhases,
           RewindTo(p, phase), UNCHANGED faultVars
    PROVE  Inv'
  <1>1. rec' \in [Parties -> Records]
    <2> DEFINE kept == rec[p].submitted /\ phase # "async_taker_funding"
    <2>1. rec \in [Parties -> Records] /\ rec[p] \in Records
      BY DEF Inv, TypeOK
    <2>2. [rec[p] EXCEPT !.phase = phase, !.submitted = kept] \in Records
      <3>1. kept \in BOOLEAN /\ phase \in Phases \ LegacyPhases
        BY DEF AsyncSwapPhases
      <3> HIDE DEF kept
      <3> QED  BY <2>1, <3>1 DEF Records
    <2>3. rec' = [rec EXCEPT ![p] = [rec[p] EXCEPT !.phase = phase, !.submitted = kept]]
      BY <2>1 DEF RewindTo
    <2> QED  BY <2>1, <2>2, <2>3
  <1> QED  BY <1>1, LocalStep, Steps DEF RewindTo

-----------------------------------------------------------------------------
\* The record a pass starts with has the type of a record.
LEMMA InitializedTyped ==
    ASSUME NEW r \in Records
    PROVE  Initialized(r) \in Records
  BY PhasesReached DEF Initialized, Records, AsyncSwapPhases

\* A pass that starts, with or without messages, keeps the invariant: a notice
\* the taker acts on is behind the template.
LEMMA BeginStep ==
    ASSUME Inv, NEW p \in Parties, UNCHANGED faultVars,
           Begin(p) \/ (p = "taker" /\ (BeginWithMessages \/ RefuseTemplate))
    PROVE  Inv'
  <1>1. TypeOK' /\ (chain[Fund("maker")] = "none" /\ "notice" \notin inbox
                        => chain'[Fund("maker")] = "none")
    <2>1. "refund" \in EngineSteps /\ "running" \in {"stale", "running", "done"}
      BY DEF EngineSteps
    <2>2. CASE Begin(p)
      <3>1. rec' \in [Parties -> Records]
        BY <2>2, InitializedTyped DEF Begin, Inv, TypeOK
      <3> QED  BY <2>1, <2>2, <3>1
               DEF Begin, Inv, TypeOK, LegsTypeOK, legVars, engineVars, faultVars
    <2>3. CASE p = "taker" /\ BeginWithMessages
      <3>1. rec' \in [Parties -> Records]
        <4>1. Initialized(rec["taker"]) \in Records
          BY InitializedTyped DEF Inv, TypeOK, Parties
        <4> QED  BY <2>3, <4>1 DEF BeginWithMessages, Inv, TypeOK, Records
      <3>2. poll' \in [Parties -> {"stale", "running", "done"}]
        BY <2>3 DEF BeginWithMessages, Inv, TypeOK, Stale
      <3>3. pc' \in [Parties -> EngineSteps]
        BY <2>1, <2>3 DEF BeginWithMessages, Inv, TypeOK
      <3>4. LegsTypeOK' /\ ("notice" \notin inbox => chain' = chain)
        <4>1. CASE UNCHANGED legVars
          BY <4>1 DEF Inv, TypeOK, LegsTypeOK, legVars
        <4>2. CASE "notice" \in inbox /\ Broadcast("taker", Fund("maker"))
          BY <4>2, BroadcastLegs, FundIsTx DEF Inv, TypeOK, Parties
        <4> QED  BY <2>3, <4>1, <4>2 DEF BeginWithMessages
      <3> QED  BY <2>3, <3>1, <3>2, <3>3, <3>4
               DEF BeginWithMessages, Inv, TypeOK, engineVars, faultVars
    <2>4. CASE p = "taker" /\ RefuseTemplate
      <3>1. rec' \in [Parties -> Records]
        BY <2>4, InitializedTyped DEF RefuseTemplate, Inv, TypeOK
      <3> QED  BY <2>4, <3>1
               DEF RefuseTemplate, Inv, TypeOK, LegsTypeOK, legVars, engineVars, faultVars
    <2> QED  BY <2>2, <2>3, <2>4
  <1>2. UNCHANGED <<mail, inbox>> /\ pc'["maker"] \in {pc["maker"], "refund"}
    BY DEF Begin, BeginWithMessages, RefuseTemplate, engineVars, Inv, TypeOK, Parties
  <1>3. TemplateFirst'
    BY <1>1, <1>2 DEF Inv, TypeOK, TemplateFirst, TemplateBeforeFunding, FundingSteps
  <1> QED  BY <1>1, <1>3 DEF Inv

\* The refund check keeps the invariant.
LEMMA RefundCheckStep ==
    ASSUME Inv, NEW p \in Parties, RefundCheck(p), UNCHANGED faultVars
    PROVE  Inv'
  <1>1. Recovered(p) \in Records
    BY DEF Recovered, Inv, TypeOK, Records
  <1>2. CASE NoRefundCheck(p) \/ RefusedExpiry(p)
    BY <1>2, QuietStep, Steps DEF NoRefundCheck, RefusedExpiry
  <1>3. CASE ClaimBeforeRefund(p)
    <2>1. rec' \in [Parties -> Records]
      BY <1>1, <1>3 DEF ClaimBeforeRefund, Inv, TypeOK, Records
    <2> QED  BY <1>3, <2>1, LocalStep, Steps DEF ClaimBeforeRefund
  <1>4. CASE NotDue(p)
    <2>1. rec' \in [Parties -> Records]
      BY <1>1, <1>4 DEF NotDue, Inv, TypeOK
    <2> QED  BY <1>4, <2>1, LocalStep, Steps DEF NotDue
  <1>5. CASE StartRefund(p)
    <2>1. rec' \in [Parties -> Records]
      BY <1>1, <1>5, PhasesReached DEF StartRefund, Inv, TypeOK, Records, AsyncSwapPhases
    <2> QED  BY <1>5, <2>1, LocalStep, Steps DEF StartRefund
  <1>6. CASE Expire(p)
    BY <1>6, AdvanceStep, PhasesReached DEF Expire
  <1>7. CASE UnfundedInWindow(p)
    BY <1>7, AdvanceStep, QuietStep, PhasesReached, Steps DEF UnfundedInWindow
  <1> QED  BY <1>2, <1>3, <1>4, <1>5, <1>6, <1>7 DEF RefundCheck

\* A record that advances with one more mark keeps its type.
LEMMA MarkTyped ==
    ASSUME NEW r \in Records, NEW phase \in AsyncSwapPhases
    PROVE  /\ [r EXCEPT !.submitted = TRUE] \in Records
           /\ [r EXCEPT !.notice = TRUE] \in Records
           /\ [r EXCEPT !.template = TRUE] \in Records
           /\ [r EXCEPT !.submitted = TRUE, !.phase = phase] \in Records
           /\ [r EXCEPT !.revealed = TRUE, !.phase = phase] \in Records
  <1>1. phase \in Phases \ LegacyPhases /\ TRUE \in BOOLEAN
    BY DEF AsyncSwapPhases
  <1>2. [r EXCEPT !.submitted = TRUE] \in Records
    BY <1>1 DEF Records
  <1>3. [r EXCEPT !.notice = TRUE] \in Records
    BY <1>1 DEF Records
  <1>4. [r EXCEPT !.template = TRUE] \in Records
    BY <1>1 DEF Records
  <1>5. [r EXCEPT !.submitted = TRUE, !.phase = phase] \in Records
    BY <1>1 DEF Records
  <1>6. [r EXCEPT !.revealed = TRUE, !.phase = phase] \in Records
    BY <1>1 DEF Records
  <1> QED  BY <1>2, <1>3, <1>4, <1>5, <1>6

\* The same within the records of both traders.
LEMMA MarkedTyped ==
    ASSUME TypeOK, NEW p \in Parties, NEW phase \in AsyncSwapPhases
    PROVE  /\ [rec EXCEPT ![p].submitted = TRUE] \in [Parties -> Records]
           /\ [rec EXCEPT ![p].notice = TRUE] \in [Parties -> Records]
           /\ [rec EXCEPT ![p].template = TRUE] \in [Parties -> Records]
           /\ [rec EXCEPT ![p].submitted = TRUE, ![p].phase = phase] \in [Parties -> Records]
           /\ [rec EXCEPT ![p].revealed = TRUE, ![p].phase = phase] \in [Parties -> Records]
  <1>1. rec \in [Parties -> Records] /\ rec[p] \in Records
    BY DEF TypeOK
  <1>2. \A r \in Records : [rec EXCEPT ![p] = r] \in [Parties -> Records]
    BY <1>1
  <1>3. [rec EXCEPT ![p].submitted = TRUE] \in [Parties -> Records]
    BY <1>1, <1>2, MarkTyped
  <1>4. [rec EXCEPT ![p].notice = TRUE] \in [Parties -> Records]
    BY <1>1, <1>2, MarkTyped
  <1>5. [rec EXCEPT ![p].template = TRUE] \in [Parties -> Records]
    BY <1>1, <1>2, MarkTyped
  <1>6. [rec EXCEPT ![p].submitted = TRUE, ![p].phase = phase] \in [Parties -> Records]
    BY <1>1, <1>2, MarkTyped
  <1>7. [rec EXCEPT ![p].revealed = TRUE, ![p].phase = phase] \in [Parties -> Records]
    BY <1>1, <1>2, MarkTyped
  <1> QED  BY <1>3, <1>4, <1>5, <1>6, <1>7

\* The steps on the taker's funding keep the invariant.
LEMMA TakerFundingStep ==
    ASSUME Inv, NEW p \in Parties, UNCHANGED faultVars,
           TakerFunding(p) \/ MarkSubmitted(p) \/ TakerFunded(p)
    PROVE  Inv'
  <1>0. "async_taker_funded" \in AsyncSwapPhases
    BY PhasesReached
  <1>1. Fund("taker") \in Txs \ {Fund("maker")}
    BY FundIsTx, OnlyFunds DEF Parties
  <1>2. CASE TakerFunding(p)
    <2>1. CASE Mined(Fund("taker"))
      <3>1. rec' \in [Parties -> Records]
        <4>1. [rec EXCEPT ![p].submitted = TRUE, ![p].phase = "async_taker_funded"]
                 \in [Parties -> Records]
          BY <1>0, MarkedTyped DEF Inv
        <4>2. rec' = [rec EXCEPT ![p].submitted = TRUE, ![p].phase = "async_taker_funded"]
          BY <1>2, <2>1 DEF TakerFunding
        <4> QED  BY <4>1, <4>2, Zenon
      <3> QED  BY <1>2, <2>1, <3>1, LocalStep, Steps DEF TakerFunding
    <2>2. CASE ~Mined(Fund("taker"))
      BY <1>1, <1>2, <2>2, PublishStep, Steps DEF TakerFunding
    <2> QED  BY <2>1, <2>2
  <1>3. CASE MarkSubmitted(p)
    <2>1. rec' \in [Parties -> Records]
      <3>1. /\ [rec EXCEPT ![p].submitted = TRUE] \in [Parties -> Records]
            /\ [rec EXCEPT ![p].submitted = TRUE, ![p].phase = "async_taker_funded"]
                 \in [Parties -> Records]
        BY <1>0, MarkedTyped DEF Inv
      <3>2. \/ rec' = [rec EXCEPT ![p].submitted = TRUE]
            \/ rec' = [rec EXCEPT ![p].submitted = TRUE, ![p].phase = "async_taker_funded"]
        BY <1>3, Zenon DEF MarkSubmitted
      <3> QED  BY <3>1, <3>2, Zenon
    <2> QED  BY <1>3, <2>1, LocalStep, Steps DEF MarkSubmitted
  <1>4. CASE TakerFunded(p)
    BY <1>4, AdvanceStep, RewindStep, PhasesReached DEF TakerFunded
  <1> QED  BY <1>2, <1>3, <1>4

\* The steps up to the claims keep the invariant, those by which the maker
\* sends its template, funds and notifies excepted.
LEMMA MakerFundingStep ==
    ASSUME Inv, NEW p \in Parties, UNCHANGED faultVars,
           MakerFunding(p) \/ AwaitMakerFunding(p) \/ MakerFunded(p) \/ TakerClaiming(p)
    PROVE  Inv'
  <1>1. CASE MakerFunding(p)
    <2>1. CASE FundingConfirmed(p, "taker")
      <3>1. rec' \in [Parties -> Records]
        <4>1. rec \in [Parties -> Records] /\ [rec EXCEPT ![p].template = TRUE] \in [Parties -> Records]
          BY MarkedTyped, PhasesReached DEF Inv, TypeOK
        <4>2. rec' = IF p = "maker" THEN [rec EXCEPT ![p].template = TRUE] ELSE rec
          BY <1>1, <2>1 DEF MakerFunding
        <4> QED  BY <4>1, <4>2, Zenon
      <3> QED  BY <1>1, <2>1, <3>1, LocalStep, Steps DEF MakerFunding
    <2>2. CASE ~FundingConfirmed(p, "taker")
      BY <1>1, <2>2, RewindStep, PhasesReached DEF MakerFunding
    <2> QED  BY <2>1, <2>2
  <1>2. CASE AwaitMakerFunding(p)
    BY <1>2, AdvanceStep, QuietStep, PhasesReached, Steps DEF AwaitMakerFunding
  <1>3. CASE MakerFunded(p)
    BY <1>3, AdvanceStep, RewindStep, QuietStep, PhasesReached, Steps DEF MakerFunded
  <1>4. CASE TakerClaiming(p)
    BY <1>4, RewindStep, QuietStep, PhasesReached, Steps DEF TakerClaiming
  <1> QED  BY <1>1, <1>2, <1>3, <1>4

\* The maker's template, funding and notice keep their order.
LEMMA MakerSendsStep ==
    ASSUME Inv, SendTemplate \/ FundMakerLeg \/ SaveNotice \/ SendNotice,
           UNCHANGED faultVars
    PROVE  Inv'
  <1>0. "maker" \in Parties /\ Fund("maker") \in Txs
    BY FundIsTx DEF Parties
  <1>1. CASE SendTemplate
    <2>1. Goto("maker", IF rec["maker"].notice THEN "notice" ELSE "fund")
      BY <1>1 DEF SendTemplate
    <2>2. mail' = mail \cup {"template"} /\ UNCHANGED <<legVars, rec, funded, inbox>>
      BY <1>1 DEF SendTemplate
    <2>3. TypeOK'
      BY <1>0, <2>1, <2>2, Moves, Steps
      DEF FundingSteps, Inv, TypeOK, LegsTypeOK, Messages, legVars, faultVars
    <2> QED  BY <2>2, <2>3 DEF Inv, TemplateFirst, TemplateBeforeFunding
  <1>2. CASE FundMakerLeg
    <2>1. CASE FundingWindowOpen
      <3>1. LegsTypeOK'
        BY <1>0, <1>2, <2>1, BroadcastLegs DEF FundMakerLeg, Inv, TypeOK
      <3>2. /\ Goto("maker", "save") /\ funded' = TRUE
            /\ UNCHANGED <<rec, mail, inbox>>
            /\ "template" \in mail
        BY <1>2, <2>1 DEF FundMakerLeg, At, Inv, TemplateFirst, FundingSteps
      <3>3. TypeOK'
        BY <1>0, <3>1, <3>2, Moves, Steps DEF FundingSteps, Inv, TypeOK, faultVars
      <3> QED  BY <3>2, <3>3 DEF Inv, TemplateFirst, TemplateBeforeFunding
    <2>2. CASE ~FundingWindowOpen
      BY <1>0, <1>2, <2>2, QuietStep, Steps DEF FundMakerLeg
    <2> QED  BY <2>1, <2>2
  <1>3. CASE SaveNotice
    <2>1. rec' \in [Parties -> Records]
      <3>1. [rec EXCEPT !["maker"].notice = TRUE] \in [Parties -> Records]
        BY <1>0, MarkedTyped, PhasesReached DEF Inv
      <3>2. rec' = [rec EXCEPT !["maker"].notice = TRUE]
        BY <1>3 DEF SaveNotice
      <3> QED  BY <3>1, <3>2, Zenon
    <2>2. Goto("maker", "notice") /\ UNCHANGED <<legVars, engineVars>> /\ "template" \in mail
      BY <1>3 DEF SaveNotice, At, Inv, TemplateFirst, FundingSteps
    <2>3. TypeOK'
      BY <1>0, <2>1, <2>2, Moves, Steps
      DEF FundingSteps, Inv, TypeOK, LegsTypeOK, legVars, engineVars, faultVars
    <2> QED  BY <2>2, <2>3 DEF Inv, TemplateFirst, TemplateBeforeFunding, engineVars
  <1>4. CASE SendNotice
    <2>1. /\ Goto("maker", "await") /\ mail' = mail \cup {"notice"}
          /\ UNCHANGED <<legVars, rec, funded, inbox>>
          /\ "template" \in mail
      BY <1>4 DEF SendNotice, At, Inv, TemplateFirst, FundingSteps
    <2>2. TypeOK'
      BY <1>0, <2>1, Moves, Steps
      DEF Inv, TypeOK, LegsTypeOK, Messages, legVars, faultVars
    <2> QED  BY <2>1, <2>2 DEF Inv, TemplateFirst, TemplateBeforeFunding
  <1> QED  BY <1>1, <1>2, <1>3, <1>4

\* The claims keep the invariant.
LEMMA ClaimingStep ==
    ASSUME Inv, NEW p \in Parties, UNCHANGED faultVars,
           \/ p = "taker" /\ (ClaimMakerLeg \/ ProxyMakerClaim)
           \/ ObserveTakerClaim(p) \/ TakerClaimed(p) \/ MakerClaiming(p) \/ Settle(p)
    PROVE  Inv'
  <1>1. Claim("maker") \in Txs \ {Fund("maker")} /\ Claim("taker") \in Txs \ {Fund("maker")}
    BY FundIsTx, OnlyFunds DEF Parties
  <1>2. CASE p = "taker" /\ ClaimMakerLeg
    BY <1>1, <1>2, PublishThenStep, Steps DEF ClaimMakerLeg
  <1>3. CASE p = "taker" /\ ProxyMakerClaim
    BY <1>1, <1>3, PublishThenStep, QuietStep, Steps DEF ProxyMakerClaim
  <1>4. CASE ObserveTakerClaim(p)
    <2>0. "async_taker_claimed" \in AsyncSwapPhases
      BY PhasesReached
    <2>1. CASE ClaimSeen(p, "maker")
      <3>1. rec' \in [Parties -> Records]
        <4>1. [rec EXCEPT ![p].revealed = TRUE, ![p].phase = "async_taker_claimed"]
                 \in [Parties -> Records]
          BY <2>0, MarkedTyped DEF Inv
        <4>2. rec' = [rec EXCEPT ![p].revealed = TRUE, ![p].phase = "async_taker_claimed"]
          BY <1>4, <2>1 DEF ObserveTakerClaim
        <4> QED  BY <4>1, <4>2, Zenon
      <3> QED  BY <1>4, <2>1, <3>1, LocalStep, Steps DEF ObserveTakerClaim
    <2>2. CASE ~ClaimSeen(p, "maker")
      BY <1>4, <2>2, QuietStep, Steps DEF ObserveTakerClaim
    <2> QED  BY <2>1, <2>2
  <1>5. CASE TakerClaimed(p)
    BY <1>5, AdvanceStep, RewindStep, PhasesReached DEF TakerClaimed
  <1>6. CASE MakerClaiming(p)
    BY <1>1, <1>6, AdvanceStep, RewindStep, QuietStep, PublishStep, PublishThenStep,
       PhasesReached, Steps
    DEF MakerClaiming
  <1>7. CASE Settle(p)
    BY <1>7, AdvanceStep, QuietStep, PhasesReached, Steps DEF Settle
  <1> QED  BY <1>2, <1>3, <1>4, <1>5, <1>6, <1>7

\* The phases that end a swap keep the invariant.
LEMMA EndingStep ==
    ASSUME Inv, NEW p \in Parties, UNCHANGED faultVars,
           Complete(p) \/ WaitingForRefund(p) \/ Refunding(p) \/ Refunded(p) \/ Expired(p)
    PROVE  Inv'
  <1>1. Refund(RefundedLeg(p)) \in Txs \ {Fund("maker")}
    BY FundIsTx, OnlyFunds DEF RefundedLeg, Parties
  <1>2. CASE Complete(p)
    BY <1>2, RewindStep, QuietStep, PhasesReached, Steps DEF Complete
  <1>3. CASE WaitingForRefund(p)
    BY <1>3, AdvanceStep, PhasesReached DEF WaitingForRefund
  <1>4. CASE Refunding(p)
    BY <1>1, <1>4, AdvanceStep, PublishStep, QuietStep, PhasesReached, Steps DEF Refunding
  <1>5. CASE Refunded(p)
    BY <1>5, RewindStep, QuietStep, PhasesReached, Steps DEF Refunded
  <1>6. CASE Expired(p)
    BY <1>6, QuietStep, Steps DEF Expired
  <1> QED  BY <1>2, <1>3, <1>4, <1>5, <1>6

\* What happens outside the engines (crashes, delivery, the networks and the
\* clock) keeps the invariant: no network step brings the maker's funding
\* from nowhere.
LEMMA OutsideStep ==
    ASSUME Inv,
           (\E p \in Parties : Abort(p)) \/ Deliver \/ Network \/ Disturbance \/ Tick
    PROVE  Inv'
  <1>0. Stale \in [Parties -> {"stale", "running", "done"}]
    BY DEF Stale
  <1>1. CASE \E p \in Parties : Abort(p)
    <2>1. PICK p \in Parties : Abort(p)
      BY <1>1
    <2>2. pc' \in [Parties -> EngineSteps] /\ pc'["maker"] \in {pc["maker"], "idle"}
      BY <2>1 DEF Abort, Inv, TypeOK, EngineSteps, Parties
    <2>3. aborts' \in 0..MaxAborts
      BY <2>1, ConstantsAssumption DEF Abort, Inv, TypeOK
    <2>4. TypeOK'
      BY <2>1, <2>2, <2>3 DEF Abort, Inv, TypeOK, LegsTypeOK, legVars
    <2>5. TemplateFirst'
      BY <2>1, <2>2
      DEF Abort, Inv, TemplateFirst, TemplateBeforeFunding, FundingSteps, legVars
    <2> QED  BY <2>4, <2>5 DEF Inv
  <1>2. CASE Deliver
    <2>1. inbox' \in SUBSET mail
      BY <1>2 DEF Deliver, Inv, TypeOK, Messages
    <2>2. TypeOK'
      BY <1>0, <1>2, <2>1 DEF Deliver, Inv, TypeOK, LegsTypeOK, legVars, faultVars
    <2> QED  BY <1>2, <2>2 DEF Deliver, Inv, TemplateFirst, TemplateBeforeFunding, legVars
  <1>3. CASE Network \/ Disturbance \/ Tick
    <2>1. LegsTypeOK' /\ (chain[Fund("maker")] = "none" => chain'[Fund("maker")] = "none")
      <3>1. Fund("maker") \in Txs
        BY FundIsTx DEF Parties
      <3>2. CASE \E t \in Txs : Confirm(t)
        BY <3>1, <3>2 DEF Confirm, Forget, Inv, TypeOK, LegsTypeOK
      <3>3. CASE \E t \in Txs, p \in Parties : Gossip(p, t)
        BY <3>1, <3>3 DEF Gossip, Inv, TypeOK, LegsTypeOK
      <3>4. CASE \E t \in Txs : Reorg(t)
        <4>1. PICK t \in Txs : Reorg(t)
          BY <3>4
        <4>2. PICK lost \in SUBSET Txs :
                 /\ \A u \in lost : chain[u] = "conf"
                 /\ chain' = [u \in Txs |-> IF u \in lost THEN "pool" ELSE chain[u]]
                 /\ known' = [p \in Parties |-> known[p] \cup lost]
          <5> DEFINE lost == {t} \cup IF t[2] = "fund"
                            THEN {u \in {Claim(t[1]), Refund(t[1])} : chain[u] = "conf"}
                            ELSE {}
          <5>1. lost \in SUBSET Txs
            BY FundIsTx DEF Txs
          <5>2. \A u \in lost : chain[u] = "conf"
            BY <4>1 DEF Reorg
          <5>3. /\ chain' = [u \in Txs |-> IF u \in lost THEN "pool" ELSE chain[u]]
                /\ known' = [p \in Parties |-> known[p] \cup lost]
            BY <4>1, Zenon DEF Reorg
          <5> HIDE DEF lost
          <5> QED  BY <5>1, <5>2, <5>3
        <4> QED  BY <3>1, <4>1, <4>2 DEF Reorg, Inv, TypeOK, LegsTypeOK
      <3>5. CASE \E t \in Txs : Evict(t)
        BY <3>1, <3>5 DEF Evict, Forget, Inv, TypeOK, LegsTypeOK
      <3>6. CASE NextEpoch
        BY <3>1, <3>6 DEF NextEpoch, LastEpoch, Inv, TypeOK, LegsTypeOK
      <3> QED  BY <1>3, <3>2, <3>3, <3>4, <3>5, <3>6 DEF Network, Disturbance, Tick
    <2>2. poll' = Stale /\ UNCHANGED <<rec, funded, mail, inbox, pc, aborts>>
      BY <1>3 DEF Network, Disturbance, Tick, faultVars
    <2>3. reorgs' \in 0..MaxReorgs
      BY <1>3, ConstantsAssumption DEF Network, Disturbance, Tick, faultVars, Inv, TypeOK
    <2>4. TypeOK'
      BY <1>0, <2>1, <2>2, <2>3 DEF Inv, TypeOK
    <2> QED  BY <2>1, <2>2, <2>4 DEF Inv, TemplateFirst, TemplateBeforeFunding
  <1> QED  BY <1>1, <1>2, <1>3

-----------------------------------------------------------------------------
\* Every step of the two engines, the relay and the networks keeps the
\* invariant, which holds at the start.
LEMMA Invariance == Spec => []Inv
  <1>1. Init => Inv
    <2> SUFFICES ASSUME Init PROVE Inv
      OBVIOUS
    <2>1. rec \in [Parties -> Records]
      BY DEF Init, Records, Phases, LegacyPhases
    <2>2. TypeOK
      <3>1. LegsTypeOK
        BY DEF Init, LegsInit, LegsTypeOK, LastEpoch
      <3>2. 0 \in 0..MaxAborts /\ 0 \in 0..MaxReorgs
        BY ConstantsAssumption
      <3>3. pc \in [Parties -> EngineSteps]
        BY DEF Init, EngineSteps
      <3> QED  BY <2>1, <3>1, <3>2, <3>3 DEF Init, TypeOK
    <2>3. TemplateFirst
      BY FundIsTx
      DEF Init, LegsInit, TemplateFirst, TemplateBeforeFunding, FundingSteps, Parties
    <2> QED  BY <2>2, <2>3 DEF Inv
  <1>2. Inv /\ [Next]_vars => Inv'
    <2> SUFFICES ASSUME Inv, [Next]_vars PROVE Inv'
      OBVIOUS
    <2>1. CASE \E p \in Parties : Engine(p)
      <3>1. PICK p \in Parties : EngineStep(p) /\ UNCHANGED faultVars
        BY <2>1 DEF Engine
      <3> QED  BY <3>1, BeginStep, RefundCheckStep, TakerFundingStep, MakerFundingStep,
                  MakerSendsStep, ClaimingStep, EndingStep
               DEF EngineStep
    <2>2. CASE UNCHANGED vars
      BY <2>2 DEF vars, legVars, engineVars, faultVars, Inv, TypeOK, LegsTypeOK,
                  TemplateFirst, TemplateBeforeFunding
    <2> QED  BY <2>1, <2>2, OutsideStep DEF Next
  <1> QED  BY <1>1, <1>2, PTL DEF Spec

\* The journals, the engines' positions, the relay's messages and the chains
\* keep their types (swapstate.Swap, async_engine.go).
THEOREM Typing == Spec => []TypeOK
  BY Invariance, PTL DEF Inv

\* In every run, with any number of crashes and reorganisations, the maker's
\* funding is on no chain and in no pool before its claim template is at the
\* relay (driveAsyncSwap, PhaseAsyncMakerFunding).
THEOREM TemplateFirstAlways == Spec => []TemplateBeforeFunding
  BY Invariance, PTL DEF Inv, TemplateFirst

-----------------------------------------------------------------------------
(* Atomicity *)

\* The taker's application runs in every epoch and what is published is mined.
Attended == MakerGives = "BTC" /\ "taker" \in Prompt /\ MinedInTime

\* The taker's signed funding, once published, is not lost by every node.
FundingStays == chain[Fund("taker")] # "none" => chain'[Fund("taker")] # "none"

\* The maker's funding, its notice and its template.
MakerInv ==
    /\ funded <=> Out(Fund("maker"))
    /\ rec["maker"].notice => funded
    /\ pc["maker"] \in {"save", "notice"} => funded
    /\ "notice" \in mail => funded
    /\ pc["maker"] = "template" \/ "template" \in mail => Out(Fund("taker"))
    /\ pc["maker"] \in {"template", "fund", "save", "notice"} =>
          rec["maker"].phase = "async_maker_funding"
    /\ rec["maker"].phase = "expired" => ~funded

\* What the taker has read and how far that lets it go.
TakerInv ==
    /\ rec["taker"].notice => "notice" \in inbox
    /\ rec["taker"].template => "template" \in inbox
    /\ "notice" \in inbox => "template" \in inbox
    /\ pc["taker"] \in {"claim", "proxy"} => rec["taker"].notice
    /\ Out(Claim("maker")) \/ Out(Claim("taker")) => "notice" \in mail
    /\ rec["taker"].phase # "expired"
    /\ epoch <= 2 => rec["taker"].phase \notin RefundPhases \union {"refunded"}
    /\ \/ rec["taker"].phase \notin {"matched", "async_taker_funding"}
       \/ pc["taker"] \in {"mark", "await", "claim", "proxy", "observe", "settle"}
       => Out(Fund("taker"))

\* What is decided when an epoch begins.
EpochInv ==
    /\ epoch >= 1 => chain[Fund("taker")] = "final"
    /\ epoch >= 2 => "notice" \notin mail \/ chain[Claim("maker")] = "final"
    /\ epoch >= 3 => "notice" \notin mail \/ chain[Claim("taker")] = "final"
    /\ epoch >= 2 /\ "notice" \notin mail =>
          /\ pc["maker"] \notin {"template", "fund", "save", "notice"}
          /\ pc["maker"] = "phase" => rec["maker"].phase \in TerminalPhases \union RefundPhases

\* The taker can claim: it has the notice, and both legs are locked.
Claimable ==
    /\ "notice" \in inbox
    /\ Mined(Fund("taker")) /\ Mined(Fund("maker"))
    /\ epoch <= 2
    /\ ~Mined(Refund("maker"))

\* A pass of the taker in which nothing happened ends with both claims seen.
PassInv ==
    /\ poll["taker"] = "running" => pc["taker"] # "idle"
    /\ poll["taker"] = "running" /\ Claimable =>
          /\ rec["taker"].notice /\ rec["taker"].template
          /\ pc["taker"] \notin {"mark", "settle"}
          /\ pc["taker"] \in {"proxy", "observe"} => Seen("taker", Claim("maker"))
          /\ pc["taker"] = "observe" => Seen("taker", Claim("taker"))
    /\ poll["taker"] = "done" /\ Claimable =>
          Seen("taker", Claim("maker")) /\ Seen("taker", Claim("taker"))
    /\ poll["taker"] = "done" /\ epoch = 0 => Out(Fund("taker"))

AtomicInv == ChainInv /\ MakerInv /\ TakerInv /\ EpochInv /\ PassInv

-----------------------------------------------------------------------------
(* What a step of one trader's engine leaves alone and what it publishes *)

\* The other trader q stays where it is; it must look again unless nothing
\* that it could look at has changed.
LeavesAlone(q) ==
    /\ pc'[q] = pc[q] /\ rec'[q] = rec[q]
    /\ poll'[q] = "stale" \/ (poll'[q] = poll[q] /\ Observable' = Observable)

\* A step that moves one trader along leaves the other alone.
LEMMA Elsewhere ==
    ASSUME TypeOK, NEW p \in Parties, NEW q \in Parties, q # p, NEW step,
           Goto(p, step) \/ Return(p), rec'[q] = rec[q]
    PROVE  LeavesAlone(q)
  BY DEF Goto, Return, LeavesAlone, TypeOK, Stale

\* The records that Goto and Return of p go with.
OwnRecord(p) ==
    \/ rec' = rec
    \/ \E r : rec' = [rec EXCEPT ![p] = r]

\* A change of one record is none of the other.
LEMMA OwnRecordAlone ==
    ASSUME TypeOK, NEW p \in Parties, NEW q \in Parties, q # p, OwnRecord(p)
    PROVE  rec'[q] = rec[q]
  BY DEF OwnRecord, TypeOK

\* A journal advance or rewind changes one record and nothing outside.
LEMMA AdvanceFrame ==
    ASSUME NEW p \in Parties, NEW phase, AdvanceTo(p, phase) \/ RewindTo(p, phase)
    PROVE  OwnRecord(p) /\ (\E step : Goto(p, step) \/ Return(p)) /\ UNCHANGED <<legVars, engineVars>>
  BY DEF AdvanceTo, RewindTo, OwnRecord

\* A quiet step changes no record.
LEMMA QuietFrame ==
    ASSUME NEW p \in Parties, Quiet
    PROVE  OwnRecord(p) /\ UNCHANGED <<legVars, engineVars>>
  BY DEF Quiet, OwnRecord

\* The engine's step as an action of p that goes on or ends its pass.
Frame(p) == OwnRecord(p) /\ \E step : Goto(p, step) \/ Return(p)

\* Beginning a pass leaves the other trader alone.
LEMMA BeginFrame ==
    ASSUME TypeOK, NEW p \in Parties, NEW q \in Parties, q # p,
           Begin(p) \/ (p = "taker" /\ (BeginWithMessages \/ RefuseTemplate))
    PROVE  LeavesAlone(q)
  <1>1. OwnRecord(p)
    BY DEF Begin, BeginWithMessages, RefuseTemplate, OwnRecord
  <1>2. rec'[q] = rec[q]
    BY <1>1, OwnRecordAlone
  <1>3. CASE Begin(p)
    BY <1>2, <1>3 DEF Begin, LeavesAlone, TypeOK, Observable, engineVars, legVars
  <1>4. CASE p = "taker" /\ BeginWithMessages
    BY <1>2, <1>4 DEF BeginWithMessages, LeavesAlone, TypeOK, Stale
  <1>5. CASE p = "taker" /\ RefuseTemplate
    BY <1>2, <1>5 DEF RefuseTemplate, LeavesAlone, TypeOK, Observable, engineVars, legVars
  <1> QED  BY <1>3, <1>4, <1>5

\* The refund check (maybeStartRefund) publishes nothing and sends nothing.
LEMMA RefundCheckFrame ==
    ASSUME NEW p \in Parties, RefundCheck(p)
    PROVE  Frame(p) /\ UNCHANGED <<legVars, engineVars>>
  <1>1. CASE NoRefundCheck(p) \/ RefusedExpiry(p)
    BY <1>1, QuietFrame DEF NoRefundCheck, RefusedExpiry, Frame
  <1>2. CASE ClaimBeforeRefund(p) \/ NotDue(p) \/ StartRefund(p)
    BY <1>2 DEF ClaimBeforeRefund, NotDue, StartRefund, Frame, OwnRecord
  <1>3. CASE Expire(p)
    BY <1>3, AdvanceFrame DEF Expire, Frame
  <1>4. CASE UnfundedInWindow(p)
    BY <1>4, AdvanceFrame, QuietFrame DEF UnfundedInWindow, Frame
  <1> QED  BY <1>1, <1>2, <1>3, <1>4 DEF RefundCheck

\* The steps of the funding phases change only the record of their trader.
LEMMA FundingFrame ==
    ASSUME NEW p \in Parties,
           TakerFunding(p) \/ MarkSubmitted(p) \/ TakerFunded(p) \/ MakerFunding(p)
           \/ AwaitMakerFunding(p) \/ MakerFunded(p)
           \/ (p = "maker" /\ (SendTemplate \/ FundMakerLeg \/ SaveNotice \/ SendNotice))
    PROVE  Frame(p)
  <1>1. CASE TakerFunding(p) \/ MarkSubmitted(p)
    BY <1>1 DEF TakerFunding, MarkSubmitted, Frame, OwnRecord
  <1>2. CASE TakerFunded(p) \/ AwaitMakerFunding(p) \/ MakerFunded(p)
    BY <1>2, AdvanceFrame, QuietFrame DEF TakerFunded, AwaitMakerFunding, MakerFunded, Frame
  <1>3. CASE MakerFunding(p)
    <2>1. CASE RewindTo(p, "async_taker_funding")
      BY <2>1, AdvanceFrame DEF Frame
    <2>2. CASE ~RewindTo(p, "async_taker_funding")
      <3>1. rec' = [rec EXCEPT ![p].template = TRUE] \/ rec' = rec
        BY <1>3, <2>2 DEF MakerFunding
      <3>2. OwnRecord(p)
        BY <3>1 DEF OwnRecord
      <3>3. \E step : Goto(p, step)
        BY <1>3, <2>2 DEF MakerFunding
      <3> QED  BY <3>2, <3>3 DEF Frame
    <2> QED  BY <2>1, <2>2
  <1>4. CASE p = "maker" /\ (SendTemplate \/ FundMakerLeg \/ SaveNotice \/ SendNotice)
    BY <1>4 DEF SendTemplate, FundMakerLeg, SaveNotice, SendNotice, Quiet, Frame, OwnRecord
  <1> QED  BY <1>1, <1>2, <1>3, <1>4

\* The steps of the claiming phases change only the record of their trader.
LEMMA ClaimingFrame ==
    ASSUME NEW p \in Parties,
           TakerClaiming(p) \/ (p = "taker" /\ (ClaimMakerLeg \/ ProxyMakerClaim))
           \/ ObserveTakerClaim(p) \/ TakerClaimed(p) \/ MakerClaiming(p) \/ Settle(p)
    PROVE  Frame(p)
  <1>1. CASE TakerClaiming(p) \/ TakerClaimed(p) \/ Settle(p)
    BY <1>1, AdvanceFrame, QuietFrame DEF TakerClaiming, TakerClaimed, Settle, Frame
  <1>2. CASE p = "taker" /\ (ClaimMakerLeg \/ ProxyMakerClaim)
    BY <1>2 DEF ClaimMakerLeg, ProxyMakerClaim, PublishThen, Quiet, Frame, OwnRecord
  <1>3. CASE ObserveTakerClaim(p)
    BY <1>3 DEF ObserveTakerClaim, Quiet, Frame, OwnRecord
  <1>4. CASE MakerClaiming(p)
    <2>1. \/ \E phase : AdvanceTo(p, phase) \/ RewindTo(p, phase)
          \/ UNCHANGED rec /\ \E step : Goto(p, step) \/ Return(p)
      BY <1>4 DEF MakerClaiming, PublishThen, Quiet
    <2> QED  BY <2>1, AdvanceFrame DEF Frame, OwnRecord
  <1> QED  BY <1>1, <1>2, <1>3, <1>4

\* The steps of the ending phases change only the record of their trader.
LEMMA EndingFrame ==
    ASSUME NEW p \in Parties,
           Complete(p) \/ WaitingForRefund(p) \/ Refunding(p) \/ Refunded(p) \/ Expired(p)
    PROVE  Frame(p)
  <1>1. CASE Complete(p) \/ WaitingForRefund(p) \/ Refunded(p) \/ Expired(p)
    BY <1>1, AdvanceFrame, QuietFrame DEF Complete, WaitingForRefund, Refunded, Expired, Frame
  <1>2. CASE Refunding(p)
    <2>1. \/ \E phase : AdvanceTo(p, phase)
          \/ UNCHANGED rec /\ Return(p)
      BY <1>2 DEF Refunding, Quiet
    <2> QED  BY <2>1, AdvanceFrame DEF Frame, OwnRecord
  <1> QED  BY <1>1, <1>2

\* A step of one engine leaves the other trader alone.
LEMMA EngineFrame ==
    ASSUME TypeOK, NEW p \in Parties, NEW q \in Parties, q # p, EngineStep(p)
    PROVE  LeavesAlone(q)
  <1>1. CASE Begin(p) \/ (p = "taker" /\ (BeginWithMessages \/ RefuseTemplate))
    BY <1>1, BeginFrame
  <1>2. CASE Frame(p)
    BY <1>2, OwnRecordAlone, Elsewhere DEF Frame
  <1> QED
    BY <1>1, <1>2, RefundCheckFrame, FundingFrame, ClaimingFrame, EndingFrame DEF EngineStep

\* What p's engine publishes, and on which ground.
Grounds(p, t) ==
    \/ t = Fund("taker")
    \/ t = Fund("maker") /\ funded'
    \/ t = Claim("maker") /\ p = "taker" /\ pc["taker"] = "claim"
    \/ t = Claim("taker") /\ ((p = "taker" /\ pc["taker"] = "proxy") \/ ClaimSeen(p, "maker"))
    \/ t = Refund(p)

Publishes(p) == UNCHANGED legVars \/ \E t \in Txs : Broadcast(p, t) /\ Grounds(p, t)

\* An engine's step publishes at most one transaction, on the grounds above.
LEMMA EngineLegs ==
    ASSUME TypeOK, MakerInv, NEW p \in Parties, EngineStep(p)
    PROVE  Publishes(p)
  <1>0. {Fund("taker"), Fund("maker"), Claim("maker"), Claim("taker"), Refund(p)} \subseteq Txs
    BY FundIsTx DEF Parties
  <1>1. CASE Begin(p) \/ (p = "taker" /\ RefuseTemplate)
    BY <1>1 DEF Begin, RefuseTemplate, Publishes
  <1>2. CASE p = "taker" /\ BeginWithMessages
    <2>1. UNCHANGED legVars \/ (Broadcast(p, Fund("maker")) /\ "notice" \in inbox)
      BY <1>2 DEF BeginWithMessages
    <2>2. "notice" \in inbox => funded'
      BY <1>2 DEF BeginWithMessages, MakerInv, TypeOK, engineVars
    <2> QED  BY <1>0, <2>1, <2>2 DEF Publishes, Grounds
  <1>3. CASE RefundCheck(p) \/ TakerFunded(p) \/ MakerFunding(p) \/ AwaitMakerFunding(p)
             \/ MakerFunded(p) \/ TakerClaiming(p) \/ TakerClaimed(p) \/ Settle(p)
             \/ Complete(p) \/ WaitingForRefund(p) \/ Refunded(p) \/ Expired(p)
    BY <1>3, RefundCheckFrame
    DEF TakerFunded, MakerFunding, AwaitMakerFunding, MakerFunded, TakerClaiming,
        TakerClaimed, Settle, Complete, WaitingForRefund, Refunded, Expired,
        AdvanceTo, RewindTo, Quiet, Publishes
  <1>4. CASE TakerFunding(p) \/ MarkSubmitted(p) \/ ObserveTakerClaim(p)
    BY <1>0, <1>4 DEF TakerFunding, MarkSubmitted, ObserveTakerClaim, Quiet, Publishes, Grounds
  <1>5. CASE p = "maker" /\ (SendTemplate \/ FundMakerLeg \/ SaveNotice \/ SendNotice)
    BY <1>0, <1>5
    DEF SendTemplate, FundMakerLeg, SaveNotice, SendNotice, Quiet, Publishes, Grounds
  <1>6. CASE p = "taker" /\ (ClaimMakerLeg \/ ProxyMakerClaim)
    BY <1>0, <1>6
    DEF ClaimMakerLeg, ProxyMakerClaim, PublishThen, Quiet, Publishes, Grounds, At
  <1>7. CASE MakerClaiming(p)
    <2>1. UNCHANGED legVars \/ (Broadcast(p, Claim("taker")) /\ ClaimSeen(p, "maker"))
      BY <1>7 DEF MakerClaiming, PublishThen, Quiet, AdvanceTo, RewindTo
    <2> QED  BY <1>0, <2>1 DEF Publishes, Grounds
  <1>8. CASE Refunding(p)
    <2>1. UNCHANGED legVars \/ Broadcast(p, Refund(p))
      BY <1>8 DEF Refunding, Quiet, AdvanceTo
    <2> QED  BY <1>0, <2>1 DEF Publishes, Grounds
  <1> QED
    BY <1>1, <1>2, <1>3, <1>4, <1>5, <1>6, <1>7, <1>8 DEF EngineStep

\* Only the maker's engine sends messages or funds the maker's leg.
LEMMA EngineMessages ==
    ASSUME NEW p \in Parties, EngineStep(p)
    PROVE  /\ inbox' = inbox
           /\ \/ UNCHANGED <<funded, mail>>
              \/ p = "maker" /\ (SendTemplate \/ FundMakerLeg \/ SendNotice)
  <1>1. CASE Begin(p) \/ (p = "taker" /\ (BeginWithMessages \/ RefuseTemplate))
    BY <1>1 DEF Begin, BeginWithMessages, RefuseTemplate, engineVars
  <1>2. CASE RefundCheck(p) \/ TakerFunded(p) \/ MakerFunding(p) \/ AwaitMakerFunding(p)
             \/ MakerFunded(p) \/ TakerClaiming(p) \/ TakerClaimed(p) \/ Settle(p)
             \/ Complete(p) \/ WaitingForRefund(p) \/ Refunded(p) \/ Expired(p)
    BY <1>2, RefundCheckFrame
    DEF TakerFunded, MakerFunding, AwaitMakerFunding, MakerFunded, TakerClaiming,
        TakerClaimed, Settle, Complete, WaitingForRefund, Refunded, Expired,
        AdvanceTo, RewindTo, Quiet, engineVars
  <1>3. CASE TakerFunding(p) \/ MarkSubmitted(p) \/ ObserveTakerClaim(p) \/ MakerClaiming(p)
             \/ Refunding(p)
    BY <1>3
    DEF TakerFunding, MarkSubmitted, ObserveTakerClaim, MakerClaiming, Refunding,
        PublishThen, AdvanceTo, RewindTo, Quiet, engineVars
  <1>4. CASE p = "maker" /\ (SendTemplate \/ FundMakerLeg \/ SaveNotice \/ SendNotice)
    BY <1>4 DEF SendTemplate, FundMakerLeg, SaveNotice, SendNotice, Quiet, engineVars
  <1>5. CASE p = "taker" /\ (ClaimMakerLeg \/ ProxyMakerClaim)
    BY <1>5 DEF ClaimMakerLeg, ProxyMakerClaim, PublishThen, Quiet, engineVars
  <1> QED  BY <1>1, <1>2, <1>3, <1>4, <1>5 DEF EngineStep

\* The chains after a step of an engine.
LEMMA EngineChain ==
    ASSUME TypeOK, ChainInv, MakerInv, NEW p \in Parties, EngineStep(p)
    PROVE  /\ ChainInv' /\ epoch' = epoch
           /\ \A u \in Txs : Mined(u)' <=> Mined(u)
           /\ \A u \in Txs : chain[u] = "final" => chain'[u] = "final"
           /\ \A u \in Txs : Out(u) => Out(u)'
           /\ \A u \in Txs : Out(u)' => Out(u) \/ Grounds(p, u)
  <1>1. CASE UNCHANGED legVars
    BY <1>1 DEF legVars, ChainInv, Mined, Out, RefundDue
  <1>2. CASE \E t \in Txs : Broadcast(p, t) /\ Grounds(p, t)
    <2>1. PICK t \in Txs : Broadcast(p, t) /\ Grounds(p, t)
      BY <1>2
    <2> QED  BY <2>1, ChainBroadcast DEF TypeOK
  <1> QED  BY <1>1, <1>2, EngineLegs DEF Publishes

-----------------------------------------------------------------------------
(* What a step of an engine does to its own record and its place in the pass *)

\* A pass that goes on stands at its next step and is as fresh as before.
LEMMA GotoEffect ==
    ASSUME TypeOK, NEW p \in Parties, NEW step, Goto(p, step)
    PROVE  /\ pc'[p] = step
           /\ poll'[p] # "stale" => poll'[p] = poll[p] /\ Observable' = Observable
  BY DEF Goto, TypeOK, Stale

\* A pass that ends is done only if nothing changed since it began.
LEMMA ReturnEffect ==
    ASSUME TypeOK, NEW p \in Parties, Return(p)
    PROVE  /\ pc'[p] = "idle"
           /\ poll'[p] # "stale" => poll'[p] = "done" /\ poll[p] = "running" /\ Observable' = Observable
  BY DEF Return, TypeOK, Stale

\* An advance or rewind sets the phase, keeps the messages and checks again.
LEMMA AdvanceEffect ==
    ASSUME TypeOK, NEW p \in Parties, NEW phase, AdvanceTo(p, phase) \/ RewindTo(p, phase)
    PROVE  /\ rec'[p].phase = phase
           /\ rec'[p].notice = rec[p].notice /\ rec'[p].template = rec[p].template
           /\ Goto(p, "refund")
  BY DEF AdvanceTo, RewindTo, TypeOK, Records

\* The record of p keeps its messages and, unless its phase is among phases,
\* its phase too; the pass ends or goes on with one of steps.
Effect(p, phases, steps) ==
    /\ rec'[p].notice = rec[p].notice
    /\ rec'[p].template = rec[p].template \/ (p = "maker" /\ rec'[p].template)
    /\ rec'[p].phase = rec[p].phase \/ rec'[p].phase \in phases
    /\ Return(p) \/ \E step \in steps : Goto(p, step)

\* An advance or rewind to one of the phases has that effect.
LEMMA AdvanceEffects ==
    ASSUME TypeOK, NEW p \in Parties, NEW phases, NEW steps, "refund" \in steps, NEW phase \in phases,
           AdvanceTo(p, phase) \/ RewindTo(p, phase)
    PROVE  Effect(p, phases, steps)
  BY AdvanceEffect DEF Effect

\* A step that keeps the records has that effect, whatever the phases.
LEMMA QuietEffects ==
    ASSUME TypeOK, NEW p \in Parties, NEW phases, NEW steps, UNCHANGED rec,
           Return(p) \/ \E step \in steps : Goto(p, step)
    PROVE  Effect(p, phases, steps)
  BY DEF Effect

\* Where the steps of the funding phases lead.
LEMMA FundingEffects ==
    ASSUME TypeOK, NEW p \in Parties
    PROVE  /\ TakerFunding(p) => Effect(p, {"async_taker_funded"}, {"refund", "mark"})
           /\ MarkSubmitted(p) => Effect(p, {"async_taker_funded"}, {"refund"})
           /\ TakerFunded(p) =>
                 Effect(p, {"async_taker_funding", "async_maker_funding"}, {"refund"})
           /\ MakerFunding(p) =>
                 Effect(p, {"async_taker_funding"}, {"refund", IF p = "maker" THEN "template" ELSE "await"})
           /\ AwaitMakerFunding(p) => Effect(p, {"async_maker_funded"}, {"refund"})
           /\ MakerFunded(p) =>
                 Effect(p, {"async_taker_funding", "async_maker_funding", "async_taker_claiming"},
                        {"refund"})
  <1>0. rec[p] \in Records
    BY DEF TypeOK
  <1>1. TakerFunding(p) => Effect(p, {"async_taker_funded"}, {"refund", "mark"})
    <2> SUFFICES ASSUME TakerFunding(p) PROVE Effect(p, {"async_taker_funded"}, {"refund", "mark"})
      OBVIOUS
    <2>1. CASE Mined(Fund("taker"))
      BY <1>0, <2>1 DEF TakerFunding, Effect, TypeOK, Records
    <2>2. CASE ~Mined(Fund("taker"))
      BY <2>2, QuietEffects DEF TakerFunding
    <2> QED  BY <2>1, <2>2
  <1>2. MarkSubmitted(p) => Effect(p, {"async_taker_funded"}, {"refund"})
    BY <1>0 DEF MarkSubmitted, Effect, TypeOK, Records
  <1>3. TakerFunded(p) =>
           Effect(p, {"async_taker_funding", "async_maker_funding"}, {"refund"})
    BY AdvanceEffects DEF TakerFunded
  <1>4. MakerFunding(p) =>
           Effect(p, {"async_taker_funding"}, {"refund", IF p = "maker" THEN "template" ELSE "await"})
    <2>1. CASE RewindTo(p, "async_taker_funding")
      BY <2>1, AdvanceEffects
    <2>2. CASE MakerFunding(p) /\ ~RewindTo(p, "async_taker_funding") /\ p = "maker"
      <3>1. rec' = [rec EXCEPT ![p].template = TRUE] /\ Goto(p, "template")
        BY <2>2 DEF MakerFunding
      <3> QED  BY <1>0, <2>2, <3>1 DEF Effect, TypeOK, Records
    <2>3. CASE MakerFunding(p) /\ ~RewindTo(p, "async_taker_funding") /\ p # "maker"
      BY <2>3, QuietEffects DEF MakerFunding
    <2> QED  BY <2>1, <2>2, <2>3
  <1>5. AwaitMakerFunding(p) => Effect(p, {"async_maker_funded"}, {"refund"})
    BY AdvanceEffects, QuietEffects DEF AwaitMakerFunding, Quiet
  <1>6. MakerFunded(p) =>
           Effect(p, {"async_taker_funding", "async_maker_funding", "async_taker_claiming"},
                  {"refund"})
    BY AdvanceEffects, QuietEffects DEF MakerFunded, Quiet
  <1> QED  BY <1>1, <1>2, <1>3, <1>4, <1>5, <1>6

\* Where the steps of the claiming phases lead.
LEMMA ClaimingEffects ==
    ASSUME TypeOK, NEW p \in Parties
    PROVE  /\ TakerClaiming(p) =>
                 Effect(p, {"async_taker_funding", "async_maker_funding"},
                        {"refund", IF p = "taker" THEN "claim" ELSE "observe"})
           /\ p = "taker" /\ ClaimMakerLeg => Effect(p, {}, {"proxy"})
           /\ p = "taker" /\ ProxyMakerClaim => Effect(p, {}, {"observe"})
           /\ ObserveTakerClaim(p) => Effect(p, {"async_taker_claimed"}, {"refund"})
           /\ TakerClaimed(p) =>
                 Effect(p, {"async_taker_claiming", "async_maker_claiming"}, {"refund"})
           /\ MakerClaiming(p) =>
                 Effect(p, {"async_taker_claiming", "async_taker_funding", "complete"},
                        {"refund", "settle"})
           /\ Settle(p) => Effect(p, {"complete"}, {"refund"})
  <1>1. TakerClaiming(p) =>
           Effect(p, {"async_taker_funding", "async_maker_funding"},
                  {"refund", IF p = "taker" THEN "claim" ELSE "observe"})
    BY AdvanceEffects, QuietEffects DEF TakerClaiming, Quiet
  <1>2. p = "taker" /\ ClaimMakerLeg => Effect(p, {}, {"proxy"})
    BY QuietEffects DEF ClaimMakerLeg, PublishThen, Quiet
  <1>3. p = "taker" /\ ProxyMakerClaim => Effect(p, {}, {"observe"})
    BY QuietEffects DEF ProxyMakerClaim, PublishThen, Quiet
  <1>4. ObserveTakerClaim(p) => Effect(p, {"async_taker_claimed"}, {"refund"})
    <2> SUFFICES ASSUME ObserveTakerClaim(p) PROVE Effect(p, {"async_taker_claimed"}, {"refund"})
      OBVIOUS
    <2>1. CASE ClaimSeen(p, "maker")
      BY <2>1 DEF ObserveTakerClaim, Effect, TypeOK, Records
    <2>2. CASE ~ClaimSeen(p, "maker")
      BY <2>2, QuietEffects DEF ObserveTakerClaim, Quiet
    <2> QED  BY <2>1, <2>2
  <1>5. TakerClaimed(p) =>
           Effect(p, {"async_taker_claiming", "async_maker_claiming"}, {"refund"})
    BY AdvanceEffects DEF TakerClaimed
  <1>6. MakerClaiming(p) =>
           Effect(p, {"async_taker_claiming", "async_taker_funding", "complete"},
                  {"refund", "settle"})
    <2>1. MakerClaiming(p) =>
             \/ \E phase \in {"async_taker_claiming", "async_taker_funding", "complete"} :
                   AdvanceTo(p, phase) \/ RewindTo(p, phase)
             \/ UNCHANGED rec /\ (Return(p) \/ Goto(p, "settle"))
      BY DEF MakerClaiming, PublishThen, Quiet
    <2> QED  BY <2>1, AdvanceEffects, QuietEffects
  <1>7. Settle(p) => Effect(p, {"complete"}, {"refund"})
    BY AdvanceEffects, QuietEffects DEF Settle, Quiet
  <1> QED  BY <1>1, <1>2, <1>3, <1>4, <1>5, <1>6, <1>7

\* Where the steps of the ending phases lead.
LEMMA EndingEffects ==
    ASSUME TypeOK, NEW p \in Parties
    PROVE  /\ Complete(p) =>
                 Effect(p, {"async_taker_claiming", "async_maker_claiming"}, {"refund"})
           /\ WaitingForRefund(p) \/ Refunded(p) => Effect(p, {"refunding"}, {"refund"})
           /\ Refunding(p) => Effect(p, {"refunded"}, {"refund"})
           /\ Expired(p) => Effect(p, {}, {"refund"})
  <1>1. Complete(p) =>
           Effect(p, {"async_taker_claiming", "async_maker_claiming"}, {"refund"})
    BY AdvanceEffects, QuietEffects DEF Complete, Quiet
  <1>2. WaitingForRefund(p) \/ Refunded(p) => Effect(p, {"refunding"}, {"refund"})
    BY AdvanceEffects, QuietEffects DEF WaitingForRefund, Refunded, Quiet
  <1>3. Refunding(p) => Effect(p, {"refunded"}, {"refund"})
    <2>1. Refunding(p) => AdvanceTo(p, "refunded") \/ (UNCHANGED rec /\ Return(p))
      BY DEF Refunding, Quiet
    <2> QED  BY <2>1, AdvanceEffects, QuietEffects
  <1>4. Expired(p) => Effect(p, {}, {"refund"})
    BY QuietEffects DEF Expired, Quiet
  <1> QED  BY <1>1, <1>2, <1>3, <1>4

\* The refund check decides by the chains and by what p knows of its funding.
RefundChecked(p) ==
    /\ rec'[p].template = rec[p].template
    /\ rec'[p].notice = rec[p].notice \/ (p = "maker" /\ rec'[p].notice /\ (funded \/ rec[p].notice))
    /\ \/ rec'[p].phase = rec[p].phase
       \/ rec'[p].phase = "expired" /\ ~OwnFunding(p) /\ ~FundingWindowOpen
       \/ rec'[p].phase = "waiting_for_refund" /\ RefundDue(p)
       \/ rec'[p].phase = "waiting_for_refund" /\ FundingWindowOpen /\ Mined(Refund(Peer(p)))
    /\ \/ Goto(p, "refund")
       \/ Return(p) /\ ~OwnFunding(p) /\ ~FundingWindowOpen
       \/ /\ Goto(p, "phase")
          /\ \/ rec'[p].phase \in TerminalPhases \cup RefundPhases
             \/ Seen(p, Claim(p)) \/ ~RefundDue(p) \/ FundingWindowOpen

\* The refund check has the effect above in each of its branches.
LEMMA RefundCheckEffects ==
    ASSUME TypeOK, NEW p \in Parties, RefundCheck(p)
    PROVE  RefundChecked(p)
  <1>0. rec[p] \in Records /\ rec \in [Parties -> Records]
    BY DEF TypeOK
  <1>1. /\ Recovered(p).template = rec[p].template /\ Recovered(p).phase = rec[p].phase
        /\ Recovered(p) \in Records
        /\ \/ Recovered(p).notice = rec[p].notice
           \/ p = "maker" /\ Recovered(p).notice /\ (funded \/ rec[p].notice)
    BY <1>0 DEF Recovered, OwnFunding, Records
  <1>2. CASE NoRefundCheck(p) \/ RefusedExpiry(p)
    BY <1>2 DEF NoRefundCheck, RefusedExpiry, Quiet, RefundChecked
  <1>3. CASE ClaimBeforeRefund(p)
    <2>1. rec'[p] = [Recovered(p) EXCEPT !.revealed = TRUE]
      BY <1>0, <1>3 DEF ClaimBeforeRefund
    <2> QED  BY <1>1, <1>3, <2>1 DEF ClaimBeforeRefund, Records, RefundChecked
  <1>4. CASE NotDue(p)
    <2>1. rec'[p] = Recovered(p)
      BY <1>0, <1>4 DEF NotDue
    <2> QED  BY <1>1, <1>4, <2>1 DEF NotDue, RefundChecked
  <1>5. CASE StartRefund(p)
    <2>1. rec'[p] = [Recovered(p) EXCEPT !.phase = "waiting_for_refund"]
      BY <1>0, <1>5 DEF StartRefund
    <2> QED  BY <1>1, <1>5, <2>1 DEF StartRefund, Records, RefundChecked
  <1>6. CASE Expire(p)
    BY <1>6, AdvanceEffect DEF Expire, RefundChecked
  <1>7. CASE UnfundedInWindow(p)
    BY <1>7, AdvanceEffect DEF UnfundedInWindow, Quiet, RefundChecked
  <1> QED  BY <1>2, <1>3, <1>4, <1>5, <1>6, <1>7 DEF RefundCheck

-----------------------------------------------------------------------------
(* The maker's own steps *)

SendingSteps == {"template", "fund", "save", "notice"}

\* Steps of the maker that neither send, fund nor look for a refund.
LEMMA MakerElsewhere ==
    ASSUME TypeOK, EngineStep("maker")
    PROVE  \/ Begin("maker") \/ RefundCheck("maker") \/ MakerFunding("maker")
           \/ SendTemplate \/ FundMakerLeg \/ SaveNotice \/ SendNotice
           \/ /\ Effect("maker", Phases \ {"expired"}, {"refund", "mark", "observe", "settle"})
              /\ ~(SendTemplate \/ FundMakerLeg \/ SendNotice)
  <1>0. "maker" \in Parties /\ "maker" # "taker"
    BY DEF Parties
  <1> DEFINE steps == {"refund", "mark", "observe", "settle"}
             phases == Phases \ {"expired"}
             Plain == Effect("maker", phases, steps)
  <1>1. /\ {"async_taker_funded"} \subseteq phases
        /\ {"async_taker_funding", "async_maker_funding"} \subseteq phases
        /\ {"async_maker_funded"} \subseteq phases
        /\ {"async_taker_funding", "async_maker_funding", "async_taker_claiming"} \subseteq phases
        /\ {"async_taker_claimed"} \subseteq phases
        /\ {"async_taker_claiming", "async_maker_claiming"} \subseteq phases
        /\ {"async_taker_claiming", "async_taker_funding", "complete"} \subseteq phases
        /\ {"complete"} \subseteq phases /\ {"refunding"} \subseteq phases
        /\ {"refunded"} \subseteq phases /\ {} \subseteq phases
    BY PhasesReached DEF AsyncSwapPhases
  <1>3. TakerFunding("maker") \/ MarkSubmitted("maker") \/ TakerFunded("maker")
        \/ AwaitMakerFunding("maker") \/ MakerFunded("maker") => Plain
    BY <1>0, <1>1, FundingEffects DEF Effect
  <1>4. TakerClaiming("maker") \/ ObserveTakerClaim("maker") \/ TakerClaimed("maker")
        \/ MakerClaiming("maker") \/ Settle("maker") => Plain
    BY <1>0, <1>1, ClaimingEffects DEF Effect
  <1>5. Complete("maker") \/ WaitingForRefund("maker") \/ Refunding("maker")
        \/ Refunded("maker") \/ Expired("maker") => Plain
    BY <1>0, <1>1, EndingEffects DEF Effect
  <1> HIDE DEF Plain
  <1>6. \/ Begin("maker") \/ RefundCheck("maker") \/ MakerFunding("maker")
        \/ SendTemplate \/ FundMakerLeg \/ SaveNotice \/ SendNotice
        \/ Plain
    BY <1>0, <1>3, <1>4, <1>5 DEF EngineStep
  <1> QED  BY <1>6 DEF Plain

\* The maker's step keeps what is known of its funding, notice and template.
LEMMA MakerSteps ==
    ASSUME TypeOK, ChainInv, MakerInv, EngineStep("maker")
    PROVE  MakerInv'
  <1>0. /\ "maker" \in Parties /\ Fund("maker") \in Txs /\ Fund("taker") \in Txs
        /\ Fund("maker") # Fund("taker")
        /\ \A l \in Parties : Fund("maker") \notin {Claim(l), Refund(l)}
    BY FundIsTx, TxNames DEF Parties
  <1>1. rec["maker"] \in Records /\ rec \in [Parties -> Records]
    BY <1>0 DEF TypeOK
  <1>2. /\ Out(Fund("taker")) => Out(Fund("taker"))'
        /\ Out(Fund("maker")) => Out(Fund("maker"))'
        /\ Out(Fund("maker"))' => Out(Fund("maker")) \/ funded'
    BY <1>0, EngineChain DEF Grounds, Parties
  <1>3. funded' => funded \/ Out(Fund("maker"))'
    <2>1. CASE FundMakerLeg
      BY <1>0, <2>1, ChainBroadcast DEF FundMakerLeg, Quiet, engineVars, TypeOK
    <2> QED  BY <1>0, <2>1, EngineMessages DEF SendTemplate, SendNotice
  <1>4. funded => funded'
    BY <1>0, EngineMessages DEF SendTemplate, SendNotice, FundMakerLeg, Quiet, engineVars
  <1>5. funded' <=> Out(Fund("maker"))'
    BY <1>2, <1>3, <1>4 DEF MakerInv
  <1>6. CASE Begin("maker")
    <2>1. /\ rec'["maker"] = Initialized(rec["maker"]) /\ pc'["maker"] = "refund"
          /\ UNCHANGED <<legVars, engineVars>>
      BY <1>0, <1>1, <1>6 DEF Begin, TypeOK
    <2>2. /\ rec'["maker"].notice = rec["maker"].notice
          /\ rec'["maker"].phase = "expired" => rec["maker"].phase = "expired"
      BY <1>1, <2>1 DEF Initialized, Records
    <2> QED  BY <1>2, <1>5, <2>1, <2>2 DEF MakerInv, engineVars
  <1>7. CASE RefundCheck("maker")
    <2>1. RefundChecked("maker") /\ UNCHANGED engineVars
      BY <1>0, <1>7, RefundCheckEffects, RefundCheckFrame
    <2>2. pc'["maker"] \in {"refund", "phase", "idle"}
      BY <1>0, <2>1, GotoEffect, ReturnEffect DEF RefundChecked
    <2>3. rec'["maker"].phase = "expired" => rec["maker"].phase = "expired" \/ ~funded
      BY <2>1 DEF RefundChecked, OwnFunding
    <2>4. rec'["maker"].notice => funded
      BY <2>1 DEF RefundChecked, MakerInv
    <2> QED  BY <1>2, <1>5, <2>1, <2>2, <2>3, <2>4 DEF MakerInv, engineVars
  <1>8. CASE MakerFunding("maker")
    <2>1. Effect("maker", {"async_taker_funding"}, {"refund", "template"})
      BY <1>0, <1>8, FundingEffects
    <2>2. pc'["maker"] \in {"refund", "template", "idle"}
      BY <1>0, <2>1, GotoEffect, ReturnEffect DEF Effect
    <2>3. pc'["maker"] = "template" =>
             Mined(Fund("taker")) /\ rec'["maker"].phase = "async_maker_funding"
      <3>1. CASE FundingConfirmed("maker", "taker")
        BY <1>1, <1>8, <3>1 DEF MakerFunding, FundingConfirmed, InPhase, Records
      <3>2. CASE ~FundingConfirmed("maker", "taker")
        <4>1. RewindTo("maker", "async_taker_funding")
          BY <1>8, <3>2 DEF MakerFunding
        <4> QED  BY <1>0, <4>1, AdvanceEffect, GotoEffect
      <3> QED  BY <3>1, <3>2
    <2>4. Mined(Fund("taker")) => Out(Fund("taker"))
      BY DEF Mined, Out
    <2>5. UNCHANGED <<funded, mail>>
      BY <1>8 DEF MakerFunding, RewindTo, engineVars
    <2> QED  BY <1>2, <1>5, <2>1, <2>2, <2>3, <2>4, <2>5 DEF MakerInv, Effect
  <1>9. CASE SendTemplate \/ FundMakerLeg \/ SaveNotice \/ SendNotice
    <2>1. CASE SendTemplate
      <3>1. pc'["maker"] \in {"notice", "fund"} /\ (pc'["maker"] = "notice" => rec["maker"].notice)
        BY <1>0, <2>1, GotoEffect DEF SendTemplate
      <3>2. UNCHANGED <<rec, funded>> /\ mail' = mail \cup {"template"} /\ pc["maker"] = "template"
        BY <2>1 DEF SendTemplate, At
      <3> QED  BY <1>2, <1>5, <3>1, <3>2 DEF MakerInv
    <2>2. CASE FundMakerLeg
      <3>1. UNCHANGED <<rec, mail>> /\ pc["maker"] = "fund"
        BY <2>2 DEF FundMakerLeg, Quiet, engineVars, At
      <3>2. (pc'["maker"] = "save" /\ funded') \/ pc'["maker"] = "idle"
        BY <1>0, <2>2, GotoEffect, ReturnEffect DEF FundMakerLeg
      <3> QED  BY <1>2, <1>4, <1>5, <3>1, <3>2 DEF MakerInv
    <2>3. CASE SaveNotice
      <3>1. /\ pc["maker"] = "save" /\ pc'["maker"] = "notice" /\ UNCHANGED <<funded, mail>>
            /\ rec' = [rec EXCEPT !["maker"].notice = TRUE]
        BY <1>0, <2>3, GotoEffect DEF SaveNotice, engineVars, At
      <3>2. rec'["maker"].phase = rec["maker"].phase
        BY <1>0, <1>1, <3>1 DEF Records
      <3> QED  BY <1>2, <1>5, <3>1, <3>2 DEF MakerInv
    <2>4. CASE SendNotice
      <3>1. /\ pc["maker"] = "notice" /\ pc'["maker"] = "await" /\ UNCHANGED <<funded, rec>>
            /\ mail' = mail \cup {"notice"}
        BY <1>0, <2>4, GotoEffect DEF SendNotice, At
      <3> QED  BY <1>2, <1>5, <3>1 DEF MakerInv
    <2> QED  BY <1>9, <2>1, <2>2, <2>3, <2>4
  <1>10. CASE /\ Effect("maker", Phases \ {"expired"}, {"refund", "mark", "observe", "settle"})
              /\ ~(SendTemplate \/ FundMakerLeg \/ SendNotice)
    <2>1. UNCHANGED <<funded, mail>>
      BY <1>0, <1>10, EngineMessages
    <2>2. pc'["maker"] \in {"refund", "mark", "observe", "settle", "idle"}
      BY <1>0, <1>10, GotoEffect, ReturnEffect DEF Effect
    <2> QED  BY <1>2, <1>5, <1>10, <2>1, <2>2 DEF MakerInv, Effect
  <1> QED  BY <1>6, <1>7, <1>8, <1>9, <1>10, MakerElsewhere

\* The maker's step keeps what was decided when an epoch began: without a
\* notice at the relay, a maker that runs late goes nowhere but to the end.
LEMMA MakerEpoch ==
    ASSUME TypeOK, ChainInv, MakerInv, TakerInv, EpochInv, EngineStep("maker")
    PROVE  EpochInv'
  <1>0. /\ "maker" \in Parties /\ FirstFunder = "taker"
        /\ Fund("taker") \in Txs /\ Claim("maker") \in Txs /\ Claim("taker") \in Txs
    BY FundIsTx, ConstantsAssumption DEF Parties
  <1>1. /\ epoch' = epoch
        /\ \A u \in Txs : chain[u] = "final" => chain'[u] = "final"
    BY <1>0, EngineChain
  <1>2. "notice" \in mail => "notice" \in mail'
    BY <1>0, EngineMessages DEF SendTemplate, SendNotice, FundMakerLeg, Quiet, engineVars
  <1>3. epoch >= 2 /\ "notice" \in mail' => "notice" \in mail
    <2>1. SendNotice => pc["maker"] = "notice"
      BY DEF SendNotice, At
    <2>2. \/ UNCHANGED mail \/ mail' = mail \cup {"template"} \/ SendNotice
      BY <1>0, EngineMessages DEF SendTemplate, FundMakerLeg, Quiet, engineVars
    <2> QED  BY <2>1, <2>2 DEF EpochInv
  <1>4. ASSUME epoch >= 2, "notice" \notin mail
        PROVE  /\ pc'["maker"] \notin SendingSteps
               /\ pc'["maker"] = "phase" => rec'["maker"].phase \in TerminalPhases \union RefundPhases
    <2>0. /\ pc["maker"] \notin SendingSteps
          /\ pc["maker"] = "phase" => rec["maker"].phase \in TerminalPhases \union RefundPhases
      BY <1>4 DEF EpochInv, SendingSteps
    <2>1. CASE Begin("maker")
      BY <1>0, <2>1 DEF Begin, TypeOK, SendingSteps
    <2>2. CASE RefundCheck("maker")
      <3>1. RefundChecked("maker")
        BY <1>0, <2>2, RefundCheckEffects
      <3>2. RefundDue("maker") /\ ~FundingWindowOpen
        BY <1>0, <1>4 DEF RefundDue, RefundEpoch, FundingWindowOpen, TypeOK, LegsTypeOK
      <3>3. ~Seen("maker", Claim("maker"))
        BY <1>0, <1>4 DEF Seen, Mined, ChainInv, TakerInv, Out
      <3> QED  BY <1>0, <3>1, <3>2, <3>3, GotoEffect, ReturnEffect DEF RefundChecked, SendingSteps
    <2>3. CASE MakerFunding("maker") \/ SendTemplate \/ FundMakerLeg \/ SaveNotice \/ SendNotice
      BY <2>0, <2>3
      DEF MakerFunding, SendTemplate, FundMakerLeg, SaveNotice, SendNotice, At, InPhase,
          SendingSteps, TerminalPhases, RefundPhases
    <2>4. CASE Effect("maker", Phases \ {"expired"}, {"refund", "mark", "observe", "settle"})
      BY <1>0, <2>4, GotoEffect, ReturnEffect DEF Effect, SendingSteps
    <2> QED  BY <2>1, <2>2, <2>3, <2>4, MakerElsewhere
  <1>5. epoch >= 1 => chain'[Fund("taker")] = "final"
    BY <1>0, <1>1 DEF EpochInv
  <1>6. epoch >= 2 => "notice" \notin mail' \/ chain'[Claim("maker")] = "final"
    BY <1>0, <1>1, <1>3 DEF EpochInv
  <1>7. epoch >= 3 => "notice" \notin mail' \/ chain'[Claim("taker")] = "final"
    BY <1>0, <1>1, <1>3 DEF EpochInv, TypeOK, LegsTypeOK
  <1>8. epoch >= 2 /\ "notice" \notin mail' =>
           /\ pc'["maker"] \notin SendingSteps
           /\ pc'["maker"] = "phase" => rec'["maker"].phase \in TerminalPhases \union RefundPhases
    BY <1>2, <1>4
  <1> QED  BY <1>1, <1>5, <1>6, <1>7, <1>8 DEF EpochInv, SendingSteps

\* The maker's step keeps what is known of the taker: what it publishes, the
\* taker had reason to see published.
LEMMA MakerSparesTaker ==
    ASSUME TypeOK, ChainInv, MakerInv, TakerInv, PassInv, EngineStep("maker")
    PROVE  TakerInv' /\ PassInv'
  <1>0. /\ "maker" \in Parties /\ "taker" \in Parties /\ "maker" # "taker"
        /\ Fund("taker") \in Txs /\ Claim("maker") \in Txs /\ Claim("taker") \in Txs
        /\ Claim("maker") # Claim("taker")
        /\ \A l, k \in Parties : Claim(l) \notin {Fund(k), Refund(k)}
    BY FundIsTx, TxNames DEF Parties
  <1>1. /\ epoch' = epoch
        /\ \A u \in Txs : Mined(u)' <=> Mined(u)
        /\ \A u \in Txs : Out(u) => Out(u)'
        /\ \A u \in Txs : Out(u)' => Out(u) \/ Grounds("maker", u)
    BY <1>0, EngineChain
  <1>2. LeavesAlone("taker") /\ inbox' = inbox
    BY <1>0, EngineFrame, EngineMessages
  <1>3. \A m \in Messages : m \in mail => m \in mail'
    BY <1>0, EngineMessages DEF SendTemplate, SendNotice, FundMakerLeg, Quiet, engineVars
  <1>4. Out(Claim("maker"))' \/ Out(Claim("taker"))' => "notice" \in mail
    <2>1. Out(Claim("maker"))' => Out(Claim("maker"))
      BY <1>0, <1>1 DEF Grounds
    <2>2. Out(Claim("taker"))' => Out(Claim("taker")) \/ ClaimSeen("maker", "maker")
      BY <1>0, <1>1 DEF Grounds
    <2>3. ClaimSeen("maker", "maker") => Out(Claim("maker"))
      BY <1>0 DEF ClaimSeen, Seen, Mined, ChainInv, Out
    <2> QED  BY <2>1, <2>2, <2>3 DEF TakerInv
  <1>5. TakerInv'
    BY <1>0, <1>1, <1>2, <1>3, <1>4 DEF TakerInv, LeavesAlone, Messages
  <1>6. PassInv'
    <2>1. CASE poll'["taker"] = "stale"
      BY <2>1 DEF PassInv
    <2>2. CASE poll'["taker"] = poll["taker"] /\ Observable' = Observable
      <3>1. chain' = chain /\ known' = known
        BY <2>2 DEF Observable, legVars
      <3> QED  BY <1>1, <1>2, <2>2, <3>1 DEF PassInv, LeavesAlone, Claimable, Seen, Mined, Out
    <2> QED  BY <1>2, <2>1, <2>2 DEF LeavesAlone
  <1> QED  BY <1>5, <1>6

\* The taker's step keeps what is known of the maker.
LEMMA TakerSparesMaker ==
    ASSUME TypeOK, ChainInv, MakerInv, EpochInv, EngineStep("taker")
    PROVE  MakerInv' /\ EpochInv'
  <1>0. /\ "maker" \in Parties /\ "taker" \in Parties /\ "maker" # "taker"
        /\ Fund("maker") # Fund("taker") /\ Fund("taker") \in Txs /\ Fund("maker") \in Txs
        /\ Claim("maker") \in Txs /\ Claim("taker") \in Txs
        /\ \A l, k \in Parties : Claim(l) # Fund(k) /\ Refund(l) # Fund(k)
    BY FundIsTx, TxNames DEF Parties
  <1>1. /\ epoch' = epoch
        /\ \A u \in Txs : chain[u] = "final" => chain'[u] = "final"
        /\ \A u \in Txs : Out(u) => Out(u)'
        /\ Out(Fund("maker"))' => Out(Fund("maker")) \/ funded'
    BY <1>0, EngineChain DEF Grounds
  <1>2. LeavesAlone("maker") /\ UNCHANGED <<funded, mail>>
    BY <1>0, EngineFrame, EngineMessages
  <1>3. MakerInv'
    BY <1>0, <1>1, <1>2 DEF MakerInv, LeavesAlone
  <1>4. EpochInv'
    BY <1>0, <1>1, <1>2 DEF EpochInv, LeavesAlone
  <1> QED  BY <1>3, <1>4

-----------------------------------------------------------------------------
(* The taker's own steps *)

Begins == Begin("taker") \/ BeginWithMessages \/ RefuseTemplate

\* The phases a taker's swap has only after the taker's refund height.
RefundedPhases == RefundPhases \union {"refunded"}

\* Steps of the taker that neither begin a pass nor look for a refund.
LEMMA TakerElsewhere ==
    ASSUME TypeOK, EngineStep("taker")
    PROVE  \/ Begins \/ RefundCheck("taker")
           \/ TakerFunding("taker")
           \/ TakerClaiming("taker") \/ ClaimMakerLeg
           \/ /\ Effect("taker", Phases \ (RefundedPhases \union {"expired"}),
                        {"refund", "await", "observe", "settle"})
              /\ \/ pc["taker"] \in {"mark", "await", "claim", "proxy", "observe", "settle"}
                 \/ pc["taker"] = "phase" /\ rec["taker"].phase \notin {"matched", "async_taker_funding"}
           \/ /\ pc["taker"] = "phase" /\ rec["taker"].phase \in RefundedPhases
              /\ Effect("taker", RefundedPhases, {"refund"})
           \/ pc["taker"] = "phase" /\ rec["taker"].phase = "expired"
  <1>0. "taker" \in Parties /\ "taker" # "maker"
    BY DEF Parties
  <1> DEFINE phases == Phases \ (RefundedPhases \union {"expired"})
             steps == {"refund", "await", "observe", "settle"}
             late == \/ pc["taker"] \in {"mark", "await", "claim", "proxy", "observe", "settle"}
                     \/ pc["taker"] = "phase" /\ rec["taker"].phase \notin {"matched", "async_taker_funding"}
             Plain == Effect("taker", phases, steps)
             Ending == /\ pc["taker"] = "phase" /\ rec["taker"].phase \in RefundedPhases
                       /\ Effect("taker", RefundedPhases, {"refund"})
             Gone == pc["taker"] = "phase" /\ rec["taker"].phase = "expired"
  <1>1. {"async_taker_funding", "async_taker_funded", "async_maker_funding",
         "async_maker_funded", "async_taker_claiming", "async_taker_claimed",
         "async_maker_claiming", "complete"} \subseteq phases
    BY PhasesReached DEF AsyncSwapPhases, RefundedPhases, RefundPhases
  <1>2. MarkSubmitted("taker") \/ TakerFunded("taker") \/ MakerFunding("taker")
        \/ AwaitMakerFunding("taker") \/ MakerFunded("taker") => Plain /\ late
    <2>1. MarkSubmitted("taker") \/ TakerFunded("taker") \/ MakerFunding("taker")
          \/ AwaitMakerFunding("taker") \/ MakerFunded("taker") => Plain
      <3> HIDE DEF phases
      <3> QED  BY <1>0, <1>1, FundingEffects DEF Effect
    <2> QED  BY <2>1 DEF MarkSubmitted, TakerFunded, MakerFunding, AwaitMakerFunding, MakerFunded, InPhase, At
  <1>3. ProxyMakerClaim \/ ObserveTakerClaim("taker") \/ TakerClaimed("taker")
        \/ MakerClaiming("taker") \/ Settle("taker") \/ Complete("taker") => Plain /\ late
    <2>1. ProxyMakerClaim \/ ObserveTakerClaim("taker") \/ TakerClaimed("taker")
          \/ MakerClaiming("taker") \/ Settle("taker") \/ Complete("taker") => Plain
      <3> HIDE DEF phases
      <3> QED  BY <1>0, <1>1, ClaimingEffects, EndingEffects DEF Effect
    <2> QED  BY <2>1
             DEF ProxyMakerClaim, ObserveTakerClaim, TakerClaimed, MakerClaiming, Settle, Complete,
                 InPhase, At
  <1>4. WaitingForRefund("taker") \/ Refunding("taker") \/ Refunded("taker") => Ending
    <2>1. {"refunding", "refunded"} \subseteq RefundedPhases
      BY DEF RefundedPhases, RefundPhases
    <2>2. WaitingForRefund("taker") \/ Refunding("taker") \/ Refunded("taker") =>
             Effect("taker", RefundedPhases, {"refund"})
      BY <1>0, <2>1, EndingEffects DEF Effect
    <2>3. WaitingForRefund("taker") \/ Refunding("taker") \/ Refunded("taker") =>
             pc["taker"] = "phase" /\ rec["taker"].phase \in RefundedPhases
      BY DEF WaitingForRefund, Refunding, Refunded, InPhase, RefundedPhases, RefundPhases
    <2> QED  BY <2>2, <2>3
  <1>5. Expired("taker") => Gone
    BY DEF Expired, InPhase
  <1> HIDE DEF late, Plain, Ending, Gone
  <1>6. \/ Begins \/ RefundCheck("taker") \/ TakerFunding("taker")
        \/ TakerClaiming("taker") \/ ClaimMakerLeg
        \/ (Plain /\ late) \/ Ending \/ Gone
    BY <1>0, <1>2, <1>3, <1>4, <1>5 DEF EngineStep, Begins
  <1> QED  BY <1>6 DEF late, Plain, Ending, Gone

\* A pass of the taker begins with what was stored of the messages.
LEMMA TakerBegins ==
    ASSUME TypeOK, Begins
    PROVE  /\ rec'["taker"].phase = rec["taker"].phase \/ rec'["taker"].phase = "async_taker_funding"
           /\ rec'["taker"].notice => rec["taker"].notice \/ "notice" \in inbox
           /\ rec'["taker"].template => rec["taker"].template \/ "template" \in inbox
           /\ pc'["taker"] \in {"idle", "refund"}
  <1>0. "taker" \in Parties /\ rec["taker"] \in Records /\ rec \in [Parties -> Records]
    BY DEF Parties, TypeOK
  <1>1. LET r == Initialized(rec["taker"])
        IN  /\ r \in Records /\ r.notice = rec["taker"].notice /\ r.template = rec["taker"].template
            /\ r.phase = rec["taker"].phase \/ r.phase = "async_taker_funding"
    BY <1>0, InitializedTyped DEF Initialized, Records
  <1>2. CASE Begin("taker") \/ RefuseTemplate
    <2>1. rec'["taker"] = Initialized(rec["taker"]) /\ pc'["taker"] \in {"idle", "refund"}
      BY <1>0, <1>2 DEF Begin, RefuseTemplate, TypeOK, At
    <2> QED  BY <1>1, <2>1
  <1>3. CASE BeginWithMessages
    <2>1. /\ rec'["taker"] = [Initialized(rec["taker"]) EXCEPT
                    !.template = rec["taker"].template \/ "template" \in inbox,
                    !.notice = rec["taker"].notice \/ "notice" \in inbox]
          /\ pc'["taker"] = "refund"
      BY <1>0, <1>3 DEF BeginWithMessages, TypeOK
    <2> QED  BY <1>1, <2>1 DEF Records
  <1> QED  BY <1>2, <1>3 DEF Begins

\* The taker goes past its funding only once that was published, reveals the
\* secret only with a notice in hand, and never expires.
LEMMA TakerSteps ==
    ASSUME TypeOK, ChainInv, MakerInv, TakerInv, EpochInv, EngineStep("taker")
    PROVE  TakerInv'
  <1>0. /\ "maker" \in Parties /\ "taker" \in Parties /\ "maker" # "taker" /\ FirstFunder = "taker"
        /\ Fund("taker") \in Txs /\ Claim("maker") \in Txs /\ Claim("taker") \in Txs
        /\ Claim("maker") # Claim("taker")
        /\ \A l, k \in Parties : Claim(l) \notin {Fund(k), Refund(k)}
        /\ rec["taker"] \in Records /\ rec \in [Parties -> Records]
    BY FundIsTx, TxNames, ConstantsAssumption DEF Parties, TypeOK
  <1>1. /\ epoch' = epoch
        /\ \A u \in Txs : Out(u) => Out(u)'
        /\ \A u \in Txs : Out(u)' => Out(u) \/ Grounds("taker", u)
    BY <1>0, EngineChain
  <1>2. UNCHANGED <<inbox, mail>> /\ inbox \subseteq mail
    BY <1>0, EngineMessages DEF TypeOK
  <1>3. Out(Claim("maker"))' \/ Out(Claim("taker"))' => "notice" \in mail
    <2>1. Out(Claim("maker"))' => Out(Claim("maker")) \/ pc["taker"] = "claim"
      BY <1>0, <1>1 DEF Grounds
    <2>2. Out(Claim("taker"))' => Out(Claim("taker")) \/ pc["taker"] = "proxy" \/ ClaimSeen("taker", "maker")
      BY <1>0, <1>1 DEF Grounds
    <2>3. ClaimSeen("taker", "maker") => Out(Claim("maker"))
      BY <1>0 DEF ClaimSeen, Seen, Mined, ChainInv, Out
    <2>4. pc["taker"] \in {"claim", "proxy"} => "notice" \in mail
      BY <1>2 DEF TakerInv
    <2> QED  BY <2>1, <2>2, <2>3, <2>4 DEF TakerInv
  <1>4. SUFFICES
          /\ rec'["taker"].notice => rec["taker"].notice \/ "notice" \in inbox
          /\ rec'["taker"].template => rec["taker"].template \/ "template" \in inbox
          /\ pc'["taker"] \in {"claim", "proxy"} => rec'["taker"].notice
          /\ rec'["taker"].phase # "expired"
          /\ rec'["taker"].phase = rec["taker"].phase \/ rec'["taker"].phase \notin RefundedPhases \/ epoch >= 3
          /\ \/ rec'["taker"].phase \notin {"matched", "async_taker_funding"}
             \/ pc'["taker"] \in {"mark", "await", "claim", "proxy", "observe", "settle"}
             => Out(Fund("taker"))'
    BY <1>0, <1>1, <1>2, <1>3 DEF TakerInv, RefundedPhases, TypeOK, LegsTypeOK
  <1>5. CASE Begins
    BY <1>0, <1>1, <1>5, TakerBegins DEF TakerInv, RefundedPhases, RefundPhases
  <1>6. CASE RefundCheck("taker")
    <2>1. RefundChecked("taker")
      BY <1>0, <1>6, RefundCheckEffects
    <2>2. pc'["taker"] \in {"refund", "phase", "idle"}
      BY <1>0, <2>1, GotoEffect, ReturnEffect DEF RefundChecked
    <2>3. epoch >= 1 => Out(Fund("taker")) /\ OwnFunding("taker")
      BY <1>0 DEF EpochInv, Out, OwnFunding, Seen, Mined
    <2>4. ~FundingWindowOpen => epoch >= 1
      BY DEF FundingWindowOpen, TypeOK, LegsTypeOK
    <2>5. RefundDue("taker") => epoch >= 3
      BY <1>0 DEF RefundDue, RefundEpoch
    <2>6. ~(FundingWindowOpen /\ Mined(Refund(Peer("taker"))))
      BY <1>0, FundIsTx DEF ChainInv, FundingWindowOpen, Mined, Out, RefundDue, RefundEpoch, Peer, Parties
    <2>7. rec'["taker"].phase = rec["taker"].phase
          \/ (rec'["taker"].phase = "waiting_for_refund" /\ epoch >= 3)
      BY <2>1, <2>3, <2>4, <2>5, <2>6 DEF RefundChecked
    <2> QED  BY <1>0, <1>1, <2>1, <2>2, <2>3, <2>7 DEF TakerInv, RefundChecked, TypeOK, LegsTypeOK
  <1>7. CASE TakerFunding("taker")
    <2>1. Effect("taker", {"async_taker_funded"}, {"refund", "mark"})
      BY <1>0, <1>7, FundingEffects
    <2>2. pc'["taker"] \in {"refund", "mark", "idle"}
      BY <1>0, <2>1, GotoEffect, ReturnEffect DEF Effect
    <2>3. Out(Fund("taker"))'
      <3>1. CASE Mined(Fund("taker"))
        BY <1>0, <1>1, <3>1 DEF Mined, Out
      <3>2. CASE ~Mined(Fund("taker"))
        <4>1. Broadcast("taker", Fund("taker"))
          BY <1>7, <3>2 DEF TakerFunding
        <4> QED  BY <1>0, <4>1, ChainBroadcast DEF TypeOK
      <3> QED  BY <3>1, <3>2
    <2> QED  BY <1>0, <2>1, <2>2, <2>3 DEF TakerInv, Effect, RefundedPhases, RefundPhases
  <1>8. CASE TakerClaiming("taker") \/ ClaimMakerLeg
    <2>1. Out(Fund("taker"))'
      BY <1>0, <1>1, <1>8 DEF TakerInv, TakerClaiming, ClaimMakerLeg, InPhase, At
    <2>2. Effect("taker", {"async_taker_funding", "async_maker_funding"}, {"refund", "claim", "proxy"})
      BY <1>0, <1>8, ClaimingEffects DEF Effect
    <2>3. pc'["taker"] \in {"claim", "proxy"} => rec["taker"].notice
      <3>1. CASE ClaimMakerLeg
        BY <3>1 DEF ClaimMakerLeg, At, TakerInv
      <3>2. CASE TakerClaiming("taker") /\ FundingConfirmed("taker", "maker")
        BY <3>2 DEF FundingConfirmed
      <3>3. CASE TakerClaiming("taker") /\ ~FundingConfirmed("taker", "maker")
        <4>1. \E phase : RewindTo("taker", phase)
          BY <3>3 DEF TakerClaiming
        <4> QED  BY <1>0, <4>1, AdvanceEffect, GotoEffect
      <3> QED  BY <1>8, <3>1, <3>2, <3>3
    <2> QED  BY <1>0, <2>1, <2>2, <2>3 DEF TakerInv, Effect, RefundedPhases, RefundPhases
  <1>9. CASE /\ Effect("taker", Phases \ (RefundedPhases \union {"expired"}),
                       {"refund", "await", "observe", "settle"})
             /\ \/ pc["taker"] \in {"mark", "await", "claim", "proxy", "observe", "settle"}
                \/ pc["taker"] = "phase" /\ rec["taker"].phase \notin {"matched", "async_taker_funding"}
    <2>1. Out(Fund("taker"))'
      BY <1>0, <1>1, <1>9 DEF TakerInv
    <2>2. pc'["taker"] \in {"refund", "await", "observe", "settle", "idle"}
      BY <1>0, <1>9, GotoEffect, ReturnEffect DEF Effect
    <2> QED  BY <1>0, <1>9, <2>1, <2>2 DEF TakerInv, Effect
  <1>10. CASE /\ pc["taker"] = "phase" /\ rec["taker"].phase \in RefundedPhases
              /\ Effect("taker", RefundedPhases, {"refund"})
    <2>1. epoch >= 3
      BY <1>10 DEF TakerInv, RefundedPhases, TypeOK, LegsTypeOK
    <2>2. pc'["taker"] \in {"refund", "idle"}
      BY <1>0, <1>10, GotoEffect, ReturnEffect DEF Effect
    <2>3. Out(Fund("taker"))'
      BY <1>0, <1>1, <1>10 DEF TakerInv, RefundedPhases, RefundPhases
    <2> QED  BY <1>0, <1>10, <2>1, <2>2, <2>3 DEF TakerInv, Effect, RefundedPhases, RefundPhases
  <1>11. CASE pc["taker"] = "phase" /\ rec["taker"].phase = "expired"
    BY <1>11 DEF TakerInv
  <1> QED  BY <1>5, <1>6, <1>7, <1>8, <1>9, <1>10, <1>11, TakerElsewhere

\* What p published without a change was in its view before.
LEMMA PublishedBefore ==
    ASSUME TypeOK, NEW p \in Parties, NEW t \in Txs, Broadcast(p, t), known' = known
    PROVE  Seen(p, t)
  BY DEF Broadcast, Seen, TypeOK, LegsTypeOK

\* While the taker can claim, the wallets accept both claims.
LEMMA ClaimsAccepted ==
    ASSUME TypeOK, ChainInv, Claimable, MakerGives = "BTC"
    PROVE  /\ Publishable(Claim("maker"))
           /\ Seen("taker", Claim("taker")) \/ Publishable(Claim("taker"))
           /\ Seen("taker", Fund("taker")) /\ OwnFunding("taker")
           /\ FundingConfirmed("taker", "taker")
           /\ rec["taker"].notice => FundingConfirmed("taker", "maker")
  <1>1. /\ Claim("maker")[1] = "maker" /\ Claim("taker")[1] = "taker"
        /\ Claim("maker")[2] = "claim" /\ Claim("taker")[2] = "claim"
        /\ Rival(Claim("maker")) = Refund("maker") /\ Rival(Claim("taker")) = Refund("taker")
    BY TxNames DEF Parties
  <1>2. ~Mined(Refund("taker"))
    BY ConstantsAssumption
    DEF Claimable, ChainInv, Out, Mined, RefundDue, RefundEpoch, Parties, TypeOK, LegsTypeOK
  <1>3. Asset("maker") = "BTC"
    BY DEF Asset
  <1>4. chain[Fund("maker")] # "none" /\ chain[Fund("taker")] # "none"
    BY DEF Claimable, Mined
  <1>5. Publishable(Claim("maker"))
    BY <1>1, <1>3, <1>4 DEF Publishable, Claimable
  <1>6. ~Mined(Claim("taker")) => Publishable(Claim("taker"))
    BY <1>1, <1>2, <1>4 DEF Publishable, Claimable
  <1> QED  BY <1>5, <1>6 DEF Claimable, Seen, OwnFunding, FundingConfirmed

\* A pass of the taker that changes nothing although it could claim ends only
\* where both claims are in its view.
CalmPass ==
    \/ Return("taker") /\ Seen("taker", Claim("maker")) /\ Seen("taker", Claim("taker"))
    \/ \E step \in {"refund", "phase", "await", "claim"} : Goto("taker", step)
    \/ Goto("taker", "proxy") /\ Seen("taker", Claim("maker"))
    \/ Goto("taker", "observe") /\ Seen("taker", Claim("maker")) /\ Seen("taker", Claim("taker"))

\* Every step of such a pass of the taker is one of a calm pass.
LEMMA CalmSteps ==
    ASSUME TypeOK, ChainInv, MakerInv, TakerInv, Claimable, MakerGives = "BTC",
           rec["taker"].notice, rec["taker"].template,
           pc["taker"] \notin {"mark", "settle"},
           pc["taker"] \in {"proxy", "observe"} => Seen("taker", Claim("maker")),
           pc["taker"] = "observe" => Seen("taker", Claim("taker")),
           Observable' = Observable, EngineStep("taker"), ~Begins
    PROVE  CalmPass /\ rec'["taker"].notice /\ rec'["taker"].template
  <1>0. /\ "maker" \in Parties /\ "taker" \in Parties /\ "maker" # "taker"
        /\ Fund("taker") \in Txs /\ Claim("maker") \in Txs /\ Claim("taker") \in Txs
        /\ known' = known
    BY FundIsTx DEF Parties, Observable, legVars
  <1>1. /\ Publishable(Claim("maker"))
        /\ Seen("taker", Claim("taker")) \/ Publishable(Claim("taker"))
        /\ Seen("taker", Fund("taker")) /\ OwnFunding("taker")
        /\ FundingConfirmed("taker", "taker") /\ FundingConfirmed("taker", "maker")
        /\ Mined(Fund("taker"))
    BY ClaimsAccepted DEF Claimable
  <1>2. /\ \A t \in Txs : Broadcast("taker", t) => Seen("taker", t)
        /\ \A l \in Parties : ClaimSeen("taker", l) <=> Seen("taker", Claim(l))
    BY <1>0, PublishedBefore DEF ClaimSeen, Parties
  <1>3. rec["taker"].phase \notin RefundedPhases \union {"expired"}
    BY DEF TakerInv, RefundedPhases, Claimable
  <1>4. rec'["taker"].notice = rec["taker"].notice /\ rec'["taker"].template = rec["taker"].template
    <2>1. CASE RefundCheck("taker")
      BY <1>0, <2>1, RefundCheckEffects DEF RefundChecked
    <2>2. CASE TakerFunding("taker") \/ TakerClaiming("taker") \/ ClaimMakerLeg
      BY <1>0, <2>2, FundingEffects, ClaimingEffects DEF Effect
    <2> QED  BY <1>0, <1>3, <2>1, <2>2, TakerElsewhere DEF Effect
  <1> SUFFICES CalmPass
    BY <1>4
  <1>5. CASE RefundCheck("taker")
    BY <1>0, <1>1, <1>5, RefundCheckEffects DEF RefundChecked, CalmPass
  <1>6. CASE TakerFunding("taker") \/ MarkSubmitted("taker") \/ TakerFunded("taker")
             \/ MakerFunding("taker") \/ AwaitMakerFunding("taker") \/ MakerFunded("taker")
    BY <1>0, <1>1, <1>6
    DEF TakerFunding, MarkSubmitted, TakerFunded, MakerFunding, AwaitMakerFunding, MakerFunded,
        LacksTemplate, AdvanceTo, At, CalmPass
  <1>7. CASE TakerClaiming("taker") \/ ClaimMakerLeg \/ ProxyMakerClaim
    BY <1>0, <1>1, <1>2, <1>7
    DEF TakerClaiming, ClaimMakerLeg, ProxyMakerClaim, PublishThen, LacksTemplate, At, CalmPass
  <1>8. CASE ObserveTakerClaim("taker") \/ TakerClaimed("taker") \/ Settle("taker")
    BY <1>0, <1>2, <1>8
    DEF ObserveTakerClaim, TakerClaimed, Settle, AdvanceTo, RewindTo, At, CalmPass
  <1>9. CASE MakerClaiming("taker")
    <2>1. CASE ~ClaimSeen("taker", "maker")
      BY <1>9, <2>1 DEF MakerClaiming, RewindTo, CalmPass
    <2>2. CASE ClaimSeen("taker", "maker") /\ ClaimSeen("taker", "taker")
      BY <1>0, <1>2, <1>9, <2>2 DEF MakerClaiming, AdvanceTo, CalmPass
    <2>3. CASE ClaimSeen("taker", "maker") /\ ~ClaimSeen("taker", "taker")
      <3>1. Broadcast("taker", Claim("taker"))
        BY <1>0, <1>1, <1>2, <1>9, <2>3 DEF MakerClaiming, PublishThen
      <3> QED  BY <1>0, <1>2, <2>3, <3>1
    <2> QED  BY <2>1, <2>2, <2>3
  <1>10. CASE Complete("taker")
    <2>1. Mined(Claim("taker")) => Seen("taker", Claim("taker"))
      BY DEF Seen
    <2> QED  BY <1>0, <1>2, <1>10, <2>1 DEF Complete, RewindTo, CalmPass
  <1>11. CASE WaitingForRefund("taker") \/ Refunding("taker") \/ Refunded("taker") \/ Expired("taker")
    BY <1>3, <1>11
    DEF WaitingForRefund, Refunding, Refunded, Expired, InPhase, RefundedPhases, RefundPhases
  <1> QED
    BY <1>0, <1>5, <1>6, <1>7, <1>8, <1>9, <1>10, <1>11 DEF EngineStep, Begins

\* How far a pass of the taker that nothing disturbed has come.
LEMMA TakerPass ==
    ASSUME TypeOK, ChainInv, MakerInv, TakerInv, PassInv, MakerGives = "BTC", EngineStep("taker")
    PROVE  PassInv'
  <1>0. /\ "maker" \in Parties /\ "taker" \in Parties /\ "maker" # "taker"
        /\ {Fund("taker"), Fund("maker"), Claim("maker"), Claim("taker"), Refund("maker")} \subseteq Txs
    BY FundIsTx DEF Parties
  <1>1. /\ epoch' = epoch /\ inbox' = inbox
        /\ Claimable' <=> Claimable
        /\ Out(Fund("taker")) => Out(Fund("taker"))'
    <2>1. /\ epoch' = epoch /\ inbox' = inbox
          /\ \A u \in Txs : Mined(u)' <=> Mined(u)
          /\ \A u \in Txs : Out(u) => Out(u)'
      BY <1>0, EngineChain, EngineMessages
    <2> QED  BY <1>0, <2>1 DEF Claimable
  <1>3. CASE Begins
    <2>1. CASE Begin("taker")
      <3>1. poll'["taker"] = "running" /\ pc'["taker"] = "refund" /\ ~Unread
        BY <1>0, <2>1 DEF Begin, TypeOK
      <3>2. ~Claimable
        BY <3>1 DEF Claimable, Unread
      <3> QED  BY <1>1, <3>1, <3>2 DEF PassInv
    <2>2. CASE BeginWithMessages
      <3>1. /\ pc'["taker"] = "refund" /\ poll'["taker"] \in {"running", "stale"}
            /\ rec'["taker"] = [Initialized(rec["taker"]) EXCEPT
                    !.template = rec["taker"].template \/ "template" \in inbox,
                    !.notice = rec["taker"].notice \/ "notice" \in inbox]
        BY <1>0, <2>2 DEF BeginWithMessages, TypeOK, Stale
      <3>2. Initialized(rec["taker"]) \in Records
        BY <1>0, InitializedTyped DEF TypeOK
      <3>3. Claimable => rec'["taker"].notice /\ rec'["taker"].template
        BY <3>1, <3>2 DEF Claimable, TakerInv, Records
      <3> QED  BY <1>1, <3>1, <3>3 DEF PassInv
    <2>3. CASE RefuseTemplate
      <3>1. /\ poll'["taker"] = "done" /\ "template" \in inbox /\ ~Seen("taker", Fund("taker"))
        BY <1>0, <2>3 DEF RefuseTemplate, TemplateUsable, TypeOK
      <3>2. ~Claimable
        BY <3>1 DEF Claimable, Seen
      <3>3. Out(Fund("taker"))
        BY <3>1 DEF MakerInv, TypeOK
      <3> QED  BY <1>1, <3>1, <3>2, <3>3 DEF PassInv
    <2> QED  BY <1>3, <2>1, <2>2, <2>3 DEF Begins
  <1>4. CASE ~Begins
    <2>1. Return("taker") \/ \E step \in EngineSteps \ {"idle"} : Goto("taker", step)
      <3>1. CASE RefundCheck("taker")
        BY <1>0, <3>1, RefundCheckEffects DEF RefundChecked, EngineSteps
      <3>2. CASE TakerFunding("taker") \/ TakerClaiming("taker") \/ ClaimMakerLeg
        BY <1>0, <3>2, FundingEffects, ClaimingEffects DEF Effect, EngineSteps
      <3> QED  BY <1>0, <1>4, <3>1, <3>2, TakerElsewhere DEF Effect, TakerInv, EngineSteps
    <2>2. /\ poll'["taker"] = "running" => poll["taker"] = "running" /\ pc'["taker"] # "idle"
          /\ poll'["taker"] = "done" =>
                poll["taker"] = "done" \/ (poll["taker"] = "running" /\ Return("taker"))
          /\ poll'["taker"] \in {"running", "done"} => Observable' = Observable
      BY <1>0, <2>1, GotoEffect, ReturnEffect
    <2>3. poll["taker"] = "running" /\ Claimable /\ Observable' = Observable =>
             CalmPass /\ rec'["taker"].notice /\ rec'["taker"].template
      BY <1>4, CalmSteps DEF PassInv
    <2>4. ASSUME poll'["taker"] = "running", Claimable'
          PROVE  /\ rec'["taker"].notice /\ rec'["taker"].template
                 /\ pc'["taker"] \notin {"mark", "settle"}
                 /\ pc'["taker"] \in {"proxy", "observe"} => Seen("taker", Claim("maker"))'
                 /\ pc'["taker"] = "observe" => Seen("taker", Claim("taker"))'
      <3>1. CalmPass /\ rec'["taker"].notice /\ rec'["taker"].template /\ pc'["taker"] # "idle"
        BY <1>1, <2>2, <2>3, <2>4
      <3>2. /\ pc'["taker"] \notin {"mark", "settle"}
            /\ pc'["taker"] \in {"proxy", "observe"} => Seen("taker", Claim("maker"))
            /\ pc'["taker"] = "observe" => Seen("taker", Claim("taker"))
        BY <1>0, <3>1, GotoEffect, ReturnEffect DEF CalmPass
      <3>3. Observable' = Observable
        BY <2>2, <2>4
      <3> QED  BY <3>1, <3>2, <3>3 DEF Observable, legVars, Seen, Mined
    <2>5. ASSUME poll'["taker"] = "done", Claimable'
          PROVE  Seen("taker", Claim("maker"))' /\ Seen("taker", Claim("taker"))'
      <3>1. Seen("taker", Claim("maker")) /\ Seen("taker", Claim("taker"))
        <4>1. CASE poll["taker"] = "done"
          BY <1>1, <2>5, <4>1 DEF PassInv
        <4>2. CASE poll["taker"] = "running" /\ Return("taker")
          <5>1. CalmPass /\ pc'["taker"] = "idle"
            BY <1>0, <1>1, <2>2, <2>3, <2>5, <4>2, ReturnEffect
          <5> QED  BY <1>0, <5>1, GotoEffect DEF CalmPass
        <4> QED  BY <2>2, <2>5, <4>1, <4>2
      <3>2. Observable' = Observable
        BY <2>2, <2>5
      <3> QED  BY <3>1, <3>2 DEF Observable, legVars, Seen, Mined
    <2>6. ASSUME poll'["taker"] = "done", epoch = 0
          PROVE  Out(Fund("taker"))
      <3>1. CASE poll["taker"] = "done"
        BY <2>6, <3>1 DEF PassInv
      <3>2. CASE Return("taker")
        <4>1. pc'["taker"] = "idle"
          BY <1>0, <3>2, ReturnEffect
        <4>2. CASE RefundCheck("taker")
          BY <1>0, <2>6, <4>1, <4>2, RefundCheckEffects, GotoEffect
          DEF RefundChecked, FundingWindowOpen
        <4>3. CASE TakerFunding("taker")
          BY <1>0, <4>1, <4>3, GotoEffect DEF TakerFunding
        <4>4. CASE TakerClaiming("taker") \/ ClaimMakerLeg
          BY <4>4 DEF TakerInv, TakerClaiming, ClaimMakerLeg, InPhase, At
        <4> QED
          BY <1>4, <4>2, <4>3, <4>4, TakerElsewhere DEF TakerInv, RefundedPhases, RefundPhases
      <3> QED  BY <2>2, <2>6, <3>1, <3>2
    <2>7. poll'["taker"] = "running" => pc'["taker"] # "idle"
      BY <2>2
    <2>8. poll'["taker"] = "done" /\ epoch = 0 => Out(Fund("taker"))'
      BY <1>1, <2>6
    <2> QED  BY <1>1, <2>4, <2>5, <2>7, <2>8 DEF PassInv
  <1> QED  BY <1>3, <1>4

-----------------------------------------------------------------------------
(* What happens outside the engines *)

\* Blocks, reorganisations and gossip change no record, and every trader looks
\* again after them.
LEMMA NetworksStep ==
    ASSUME TypeOK, AtomicInv, Network \/ Disturbance, FundingStays
    PROVE  AtomicInv'
  <1>0. /\ "maker" \in Parties /\ "taker" \in Parties
        /\ {Fund("taker"), Fund("maker"), Claim("maker"), Claim("taker")} \subseteq Txs
    BY FundIsTx DEF Parties
  <1>1. ChainInv' /\ NetworkStep
    <2>1. LegsTypeOK /\ ChainInv
      BY DEF TypeOK, AtomicInv
    <2>2. \/ \E t \in Txs : Confirm(t) \/ Reorg(t) \/ Evict(t)
          \/ \E t \in Txs, p \in Parties : Gossip(p, t)
      BY DEF Network, Disturbance
    <2> QED  BY <2>1, <2>2, ChainConfirm, ChainReorg, ChainEvict, ChainGossip
  <1>2. UNCHANGED <<rec, funded, mail, inbox, pc>> /\ poll' = Stale
    BY DEF Network, Disturbance
  <1>3. poll'["taker"] = "stale"
    BY <1>0, <1>2 DEF Stale
  <1>4. MakerInv'
    BY <1>0, <1>1, <1>2 DEF AtomicInv, MakerInv, NetworkStep, FundingStays, Out
  <1>5. TakerInv'
    BY <1>0, <1>1, <1>2 DEF AtomicInv, TakerInv, NetworkStep, FundingStays, Out
  <1>6. EpochInv'
    BY <1>0, <1>1, <1>2 DEF AtomicInv, EpochInv, NetworkStep
  <1>7. PassInv'
    BY <1>3 DEF PassInv
  <1> QED  BY <1>1, <1>4, <1>5, <1>6, <1>7 DEF AtomicInv

\* The relay hands messages over in the order they were sent.
LEMMA DeliverStep ==
    ASSUME Inv, AtomicInv, Deliver
    PROVE  AtomicInv'
  <1>1. /\ UNCHANGED <<chain, known, epoch, rec, funded, mail, pc>> /\ poll'["taker"] = "stale"
        /\ inbox \subseteq inbox'
    BY DEF Deliver, legVars, Stale, Parties
  <1>2. "notice" \in inbox' => "template" \in inbox'
    BY DEF Deliver, AtomicInv, TakerInv, Inv, TypeOK, TemplateFirst, Messages
  <1>3. ChainInv' /\ MakerInv' /\ EpochInv'
    BY <1>1 DEF AtomicInv, ChainInv, MakerInv, EpochInv, Out, Mined, RefundDue
  <1>4. TakerInv' /\ PassInv'
    BY <1>1, <1>2 DEF AtomicInv, TakerInv, PassInv, Out
  <1> QED  BY <1>3, <1>4 DEF AtomicInv

\* A crash forgets a place in a pass and nothing else.
LEMMA AbortStep ==
    ASSUME TypeOK, AtomicInv, NEW p \in Parties, Abort(p)
    PROVE  AtomicInv'
  <1>1. /\ UNCHANGED <<chain, known, epoch, rec, funded, mail, inbox>>
        /\ \A q \in Parties : \/ pc'[q] = pc[q] /\ poll'[q] = poll[q]
                              \/ pc'[q] = "idle" /\ poll'[q] = "stale"
        /\ "maker" \in Parties /\ "taker" \in Parties
    BY DEF Abort, legVars, TypeOK, Parties
  <1>2. ChainInv' /\ MakerInv'
    BY <1>1 DEF AtomicInv, ChainInv, MakerInv, Out, Mined, RefundDue
  <1>3. TakerInv' /\ EpochInv'
    BY <1>1 DEF AtomicInv, TakerInv, EpochInv, Out
  <1>4. PassInv'
    BY <1>1 DEF AtomicInv, PassInv, Claimable, Seen, Mined, Out
  <1> QED  BY <1>2, <1>3, <1>4 DEF AtomicInv

\* An epoch begins only when the taker has looked and what was published is
\* mined, so the new epoch finds the claims buried that the old one allowed.
LEMMA TickStep ==
    ASSUME TypeOK, AtomicInv, Attended, Tick
    PROVE  AtomicInv'
  <1>0. /\ "maker" \in Parties /\ "taker" \in Parties /\ FirstFunder = "taker"
        /\ {Fund("taker"), Fund("maker"), Claim("maker"), Claim("taker"), Refund("maker")} \subseteq Txs
        /\ \A l \in Parties : Claim(l)[1] = l /\ Claim(l)[2] = "claim" /\ Fund(l)[2] = "fund"
    BY FundIsTx, TxNames, ConstantsAssumption DEF Parties
  <1>1. /\ poll["taker"] = "done" /\ inbox = mail /\ PoolsDrained
        /\ pc["maker"] = "idle"
        /\ UNCHANGED <<rec, funded, mail, inbox, pc>> /\ poll'["taker"] = "stale"
    BY <1>0 DEF Tick, Attended, Attentive, At, Stale
  <1>2. /\ ChainInv' /\ epoch' = epoch + 1
        /\ \A u \in Txs : (chain'[u] = "final") <=> Mined(u)
        /\ \A u \in Txs : Out(u)' <=> Out(u)
    BY ChainNextEpoch DEF Tick, TypeOK, AtomicInv
  <1>3. \A l \in Parties :
           /\ Out(Fund(l)) => Mined(Fund(l))
           /\ Mined(Fund(l)) /\ Seen("taker", Claim(l)) => Mined(Claim(l))
    <2> SUFFICES ASSUME NEW l \in Parties
                 PROVE  /\ Out(Fund(l)) => Mined(Fund(l))
                        /\ Mined(Fund(l)) /\ Seen("taker", Claim(l)) => Mined(Claim(l))
      OBVIOUS
    <2>0. Fund(l) \in Txs /\ Fund(l)[2] = "fund"
      BY <1>0, FundIsTx
    <2>1. Out(Fund(l)) => Mined(Fund(l))
      <3>1. chain[Fund(l)] # "pool"
        BY <1>1, <2>0 DEF PoolsDrained
      <3> QED  BY <2>0, <3>1 DEF Out, Mined, TypeOK, LegsTypeOK
    <2>2. Mined(Fund(l)) /\ Seen("taker", Claim(l)) => Mined(Claim(l))
      BY <1>0, <1>1, FundIsTx DEF PoolsDrained, Seen, AtomicInv, ChainInv, Mined
    <2> QED  BY <2>1, <2>2
  <1>4. Mined(Fund("taker"))
    BY <1>0, <1>1, <1>3 DEF AtomicInv, EpochInv, PassInv, Mined, TypeOK, LegsTypeOK
  <1>5. "notice" \in mail /\ epoch <= 2 /\ ~Mined(Refund("maker")) =>
           Mined(Claim("maker")) /\ Mined(Claim("taker"))
    <2>1. "notice" \in mail => Mined(Fund("maker"))
      BY <1>0, <1>3 DEF AtomicInv, MakerInv
    <2> QED  BY <1>0, <1>1, <1>3, <1>4, <2>1 DEF AtomicInv, PassInv, Claimable
  <1>6. epoch = 1 => ~Mined(Refund("maker"))
    BY <1>0 DEF AtomicInv, ChainInv, Mined, Out, RefundDue, RefundEpoch
  <1>7. epoch = 2 /\ "notice" \in mail => ~Mined(Refund("maker"))
    <2>1. Claim("maker") \in Spends("maker") /\ Rival(Claim("maker")) = Refund("maker")
      BY <1>0, TxNames DEF Spends
    <2> QED  BY <1>0, <2>1 DEF AtomicInv, EpochInv, ChainInv, Mined, Out
  <1>8. EpochInv'
    <2>1. epoch' >= 1 => chain'[Fund("taker")] = "final"
      BY <1>0, <1>2, <1>4
    <2>2. epoch' >= 2 => "notice" \notin mail \/ chain'[Claim("maker")] = "final"
      BY <1>0, <1>2, <1>5, <1>6 DEF AtomicInv, EpochInv, Mined, TypeOK, LegsTypeOK
    <2>3. epoch' >= 3 => "notice" \notin mail \/ chain'[Claim("taker")] = "final"
      BY <1>0, <1>2, <1>5, <1>7 DEF AtomicInv, EpochInv, Mined, TypeOK, LegsTypeOK
    <2> QED  BY <1>1, <2>1, <2>2, <2>3 DEF EpochInv
  <1>9. MakerInv'
    BY <1>0, <1>1, <1>2 DEF AtomicInv, MakerInv
  <1>10. TakerInv'
    BY <1>0, <1>1, <1>2 DEF AtomicInv, TakerInv, TypeOK, LegsTypeOK
  <1>11. PassInv'
    BY <1>1 DEF PassInv
  <1> QED  BY <1>2, <1>8, <1>9, <1>10, <1>11 DEF AtomicInv

-----------------------------------------------------------------------------
(* The theorems *)

\* Every step of the system keeps the invariant.
LEMMA AtomicStep ==
    ASSUME Inv, AtomicInv, Attended, Next, FundingStays
    PROVE  AtomicInv'
  <1>0. TypeOK /\ "maker" \in Parties /\ "taker" \in Parties
    BY DEF Inv, Parties
  <1>1. CASE EngineStep("maker")
    BY <1>0, <1>1, EngineChain, MakerSteps, MakerEpoch, MakerSparesTaker DEF AtomicInv
  <1>2. CASE EngineStep("taker")
    BY <1>0, <1>2, EngineChain, TakerSparesMaker, TakerSteps, TakerPass DEF AtomicInv, Attended
  <1>3. CASE Network \/ Disturbance
    BY <1>0, <1>3, NetworksStep
  <1>4. CASE Deliver
    BY <1>4, DeliverStep
  <1>5. CASE Tick
    BY <1>0, <1>5, TickStep
  <1>6. CASE \E p \in Parties : Abort(p)
    BY <1>0, <1>6, AbortStep
  <1> QED  BY <1>1, <1>2, <1>3, <1>4, <1>5, <1>6 DEF Next, Engine, Parties

\* The invariant holds before the first step.
LEMMA AtomicInit ==
    ASSUME Init
    PROVE  AtomicInv
  <1>0. /\ "maker" \in Parties /\ "taker" \in Parties
        /\ \A u \in Txs : ~Mined(u) /\ ~Out(u) /\ chain[u] # "final"
        /\ \A q \in Parties : known[q] = {}
        /\ epoch = 0
    BY DEF Init, LegsInit, Parties, Mined, Out
  <1>1. ChainInv
    BY <1>0, SpendNames, FundIsTx DEF ChainInv
  <1>2. MakerInv
    BY <1>0, FundIsTx DEF Init, MakerInv
  <1>3. TakerInv
    BY <1>0, FundIsTx DEF Init, TakerInv, RefundPhases
  <1>4. EpochInv /\ PassInv
    BY <1>0 DEF Init, EpochInv, PassInv
  <1> QED  BY <1>1, <1>2, <1>3, <1>4 DEF AtomicInv

\* The invariant holds throughout, when the taker attends and its funding stays.
LEMMA Attention ==
    ASSUME Attended
    PROVE  Spec /\ [][FundingStays]_vars => [](Inv /\ AtomicInv)
  <1>1. Init => AtomicInv
    BY AtomicInit
  <1>2. Inv /\ AtomicInv /\ [Next]_vars /\ [FundingStays]_vars => AtomicInv'
    <2> SUFFICES ASSUME Inv, AtomicInv, [Next]_vars, [FundingStays]_vars PROVE AtomicInv'
      OBVIOUS
    <2>1. CASE UNCHANGED vars
      <3>1. UNCHANGED <<chain, known, epoch, rec, funded, mail, inbox, pc, poll>>
        BY <2>1 DEF vars, legVars, engineVars
      <3>2. ChainInv' /\ MakerInv'
        BY <3>1 DEF AtomicInv, ChainInv, MakerInv, Out, Mined, RefundDue
      <3>3. TakerInv' /\ EpochInv'
        BY <3>1 DEF AtomicInv, TakerInv, EpochInv, Out
      <3>4. PassInv'
        BY <3>1 DEF AtomicInv, PassInv, Claimable, Seen, Mined, Out
      <3> QED  BY <3>2, <3>3, <3>4 DEF AtomicInv
    <2>2. CASE Next /\ FundingStays
      BY <2>2, AtomicStep
    <2> QED  BY <2>1, <2>2
  <1> QED  BY <1>1, <1>2, Invariance, PTL DEF Spec

\* With an attentive taker and bitcoin from the maker, neither trader pays
\* without being paid, however often passes are cut short and blocks are
\* reorganised (async_engine.go).
THEOREM AttendedIsAtomic ==
    ASSUME Attended
    PROVE  Spec /\ [][FundingStays]_vars => []Atomicity
  <1>1. Inv /\ AtomicInv => Atomicity
    <2> SUFFICES ASSUME Inv, AtomicInv PROVE Atomicity
      OBVIOUS
    <2>0. /\ "maker" \in Parties /\ "taker" \in Parties /\ FirstFunder = "taker"
          /\ \A l \in Parties : /\ Claim(l) \in Spends(l)
                                /\ Rival(Claim(l)) = Refund(l)
          /\ \A l \in Parties : Mined(Refund(l)) => Out(Refund(l)) /\ RefundDue(l)
      BY TxNames, ConstantsAssumption DEF Parties, Spends, AtomicInv, ChainInv, Mined, Out
    <2>1. \A l \in Parties : chain[Claim(l)] = "final" => ~Out(Refund(l))
      BY <2>0 DEF AtomicInv, ChainInv, Mined
    <2>2. Mined(Claim("maker")) \/ Mined(Claim("taker")) => "notice" \in mail
      BY DEF AtomicInv, TakerInv, Mined, Out
    <2>3. NoMakerLoss
      BY <2>0, <2>1, <2>2 DEF NoMakerLoss, AtomicInv, EpochInv, RefundDue, RefundEpoch
    <2>4. NoTakerLoss
      BY <2>0, <2>1, <2>2 DEF NoTakerLoss, AtomicInv, EpochInv, RefundDue, RefundEpoch
    <2> QED  BY <2>3, <2>4 DEF Atomicity
  <1> QED  BY <1>1, Attention, PTL

\* With such a taker no swap expires that has money on its way
\* (maybeStartRefund).
THEOREM AttendedExpiresUnfunded ==
    ASSUME Attended
    PROVE  Spec /\ [][FundingStays]_vars => []ExpiredUnfunded
  <1>1. AtomicInv => ExpiredUnfunded
    BY DEF AtomicInv, MakerInv, TakerInv, ExpiredUnfunded, Parties, Out
  <1> QED  BY <1>1, Attention, PTL

\* Such a taker never begins to reveal the secret once the maker may refund
\* (driveAsyncSwap, PhaseAsyncTakerClaiming).
THEOREM AttendedRevealsInTime ==
    ASSUME Attended
    PROVE  Spec /\ [][FundingStays]_vars => NoLateReveal
  <1> DEFINE InTime == chain[Claim("maker")] = "none" /\ chain'[Claim("maker")] # "none"
                          => ~RefundDue("maker")
  <1>1. Inv /\ AtomicInv /\ [Next]_vars => [InTime]_vars
    <2> SUFFICES ASSUME Inv, AtomicInv, Next,
                        ~Out(Claim("maker")), Out(Claim("maker"))', RefundDue("maker")
                 PROVE  FALSE
      BY DEF Out
    <2>0. /\ "maker" \in Parties /\ "taker" \in Parties /\ FirstFunder = "taker"
          /\ Claim("maker") \in Txs /\ TypeOK /\ LegsTypeOK /\ ChainInv /\ MakerInv
      BY FundIsTx, ConstantsAssumption DEF Parties, Inv, TypeOK, AtomicInv
    <2>1. "notice" \notin mail
      BY <2>0 DEF AtomicInv, EpochInv, RefundDue, RefundEpoch, Out
    <2>2. CASE \E p \in Parties : EngineStep(p)
      <3>1. PICK p \in Parties : EngineStep(p)
        BY <2>2
      <3>2. Grounds(p, Claim("maker"))
        BY <2>0, <3>1, EngineChain
      <3>3. pc["taker"] = "claim"
        BY <2>0, <3>1, <3>2, TxNames DEF Grounds
      <3> QED  BY <2>0, <2>1, <3>3 DEF AtomicInv, TakerInv, TypeOK
    <2>3. CASE Network \/ Disturbance
      <3>1. \/ \E t \in Txs : Confirm(t) \/ Reorg(t) \/ Evict(t)
            \/ \E t \in Txs, p \in Parties : Gossip(p, t)
        BY <2>3 DEF Network, Disturbance
      <3>2. NetworkStep
        BY <2>0, <3>1, ChainConfirm, ChainReorg, ChainEvict, ChainGossip
      <3> QED  BY <2>0, <3>2 DEF NetworkStep
    <2>4. CASE Tick
      BY <2>0, <2>4, ChainNextEpoch DEF Tick
    <2>5. CASE Deliver \/ \E p \in Parties : Abort(p)
      BY <2>5 DEF Deliver, Abort, legVars, Out
    <2> QED  BY <2>2, <2>3, <2>4, <2>5 DEF Next, Engine
  <1> QED  BY <1>1, Attention, PTL DEF Spec, NoLateReveal
=============================================================================
