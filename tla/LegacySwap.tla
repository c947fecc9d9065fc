----------------------------- MODULE LegacySwap -----------------------------
(***************************************************************************)
(* One matched swap of protocol version 1, as the engine still drives the  *)
(* swaps of older journals (driveSwap in internal/app/engine.go).  Here    *)
(* the maker owns the secret and funds first, into the leg with the longer *)
(* refund window.  Both traders must be present: they exchange hellos, the *)
(* maker proposes the agreement, the taker acknowledges it, and each sends *)
(* a notice of its own funding.  The maker claims the taker's leg, which   *)
(* reveals the secret, and the taker claims the maker's leg with it.       *)
(*                                                                         *)
(* A trader's messages carry the sequence numbers 1 (hello), 2 (agreement, *)
(* or its acknowledgement) and 3 (funding notice), so what was sent and    *)
(* what was received are two numbers.  As in AsyncSwap, pc says where in   *)
(* its pass an engine is.                                                  *)
(***************************************************************************)
EXTENDS SwapPhases, SwapLegs

CONSTANTS
    Prompt,         \* traders whose application runs through every epoch
    MaxAborts,      \* bound on passes cut short by a crash or a failed call
    MaxReorgs       \* bound on reorganisations and evictions

ASSUME LegacyAssumption ==
    /\ MakerGives \in {"BTC", "QDAY"}
    /\ FirstFunder = "maker"
    /\ Prompt \subseteq Parties
    /\ MaxAborts \in Nat
    /\ MaxReorgs \in Nat

VARIABLES
    rec,        \* rec[p]: p's durable journal record of the swap
    funded,     \* funded[p]: p's wallet submitted p's funding
    sent,       \* sent[p]: last message of p that the relay received
    got,        \* got[p]: last message of the peer that p's journal stored
    lapsed,     \* the lifetime of the traders' hello messages is over
    pc,         \* pc[p]: where p's engine is in its pass, lost in a crash
    poll,       \* poll[p]: whether p has looked since the last event
    aborts,     \* passes cut short so far
    reorgs      \* reorganisations and evictions so far

mailVars == <<sent, got, lapsed>>
engineVars == <<funded, mailVars>>
faultVars == <<aborts, reorgs>>
vars == <<legVars, rec, engineVars, pc, poll, faultVars>>

\* The parts of swapstate.Swap that the version 1 engine branches on.
Records ==
    [phase     : Phases \ AsyncPhases,
     hello     : BOOLEAN,           \* PeerHelloJSON is set
     agreement : BOOLEAN,           \* AgreementJSON is set
     notices   : SUBSET Parties,    \* MakerFunding, TakerFunding are set
     revealed  : BOOLEAN]           \* RevealedSecret is set

Hello == 1
Terms == 2      \* the maker's agreement, the taker's acknowledgement
Notice == 3

EngineSteps ==
    {"idle", "hello", "read", "accept", "proposed", "ack", "agree", "notices",
     "propose", "send", "refund", "phase", "fund", "save", "notify", "await",
     "claim", "observe", "settle"}

Init ==
    /\ LegsInit
    /\ rec = [p \in Parties |->
                 [phase |-> "matched", hello |-> FALSE, agreement |-> FALSE,
                  notices |-> {}, revealed |-> FALSE]]
    /\ funded = [p \in Parties |-> FALSE]
    /\ sent = [p \in Parties |-> 0]
    /\ got = [p \in Parties |-> 0]
    /\ lapsed = FALSE
    /\ pc = [p \in Parties |-> "idle"]
    /\ poll = [p \in Parties |-> "stale"]
    /\ aborts = 0
    /\ reorgs = 0

-----------------------------------------------------------------------------
(* Control of a pass *)

Observable == <<legVars, mailVars>>

Stale == [p \in Parties |-> "stale"]

\* The pass goes on; what it changed is news to both traders.
Goto(p, step) ==
    /\ pc' = [pc EXCEPT ![p] = step]
    /\ poll' = IF Observable' = Observable THEN poll ELSE Stale

\* The pass ends, by a return or by an error the next pass would meet again.
Return(p) ==
    /\ pc' = [pc EXCEPT ![p] = "idle"]
    /\ poll' = IF Observable' # Observable THEN Stale
               ELSE [poll EXCEPT ![p] = IF @ = "running" THEN "done" ELSE "stale"]

At(p, step) == pc[p] = step
InPhase(p, phase) == pc[p] = "phase" /\ rec[p].phase = phase

\* A journal write that is followed by the given step.
Write(p, r, step) ==
    /\ rec' = [rec EXCEPT ![p] = r]
    /\ UNCHANGED <<legVars, engineVars>>
    /\ Goto(p, step)

\* Journal.Advance, then the step that follows it.
AdvanceThen(p, phase, step) ==
    /\ ValidAdvance(rec[p].phase, phase)
    /\ Write(p, [rec[p] EXCEPT !.phase = phase], step)

AdvanceTo(p, phase) == AdvanceThen(p, phase, "refund")

\* Journal.RewindAfterReorg; the engine goes on with the earlier phase.
RewindTo(p, phase) ==
    /\ ValidRewind(rec[p].phase, phase)
    /\ Write(p, [rec[p] EXCEPT !.phase = phase], "refund")

\* A rewind that ends the pass.
RewindAndReturn(p, phase) ==
    /\ ValidRewind(rec[p].phase, phase)
    /\ rec' = [rec EXCEPT ![p].phase = phase]
    /\ UNCHANGED <<legVars, engineVars>>
    /\ pc' = [pc EXCEPT ![p] = "idle"]
    /\ poll' = [poll EXCEPT ![p] = "stale"]

Quiet == UNCHANGED <<legVars, rec, engineVars>>

\* partyFundingConfirmed, which knows nothing of a leg without its notice.
FundingConfirmed(p, leg) == leg \in rec[p].notices /\ Mined(Fund(leg))

\* Mutant of ClaimSeen: a claim that was seen once is never looked for again.
ClaimRemembered(p, leg) ==
    leg \in rec[p].notices /\ (Seen(p, Claim(leg)) \/ (leg = "taker" /\ rec[p].revealed))

\* observeClaim: a spend of the leg that reveals the secret is visible to p.
ClaimSeen(p, leg) == leg \in rec[p].notices /\ Seen(p, Claim(leg))

-----------------------------------------------------------------------------
(* The messages: ensureLocalHello, processPeerMessages, proposeAgreement *)

Begin(p) ==
    /\ At(p, "idle")
    /\ poll[p] # "done"
    /\ Quiet
    /\ pc' = [pc EXCEPT ![p] = "hello"]
    /\ poll' = [poll EXCEPT ![p] = "running"]

\* Mutant of Receive: a message sent again is a new message.
ReceiveFresh(p, n) == sent' = [sent EXCEPT ![p] = @ + 1]

\* The relay holds message n of p, and every earlier one.
Receive(p, n) == sent' = [sent EXCEPT ![p] = IF @ < n THEN n ELSE @]

\* Every pass sends the stored hello again, and ends when the relay refuses
\* it.  The relay checks the lifetime before it looks for the known envelope.
SendHello(p) ==
    /\ At(p, "hello")
    /\ IF lapsed
       THEN Quiet /\ Return(p)
       ELSE /\ Receive(p, Hello)
            /\ UNCHANGED <<legVars, rec, funded, got, lapsed>>
            /\ Goto(p, "read")

\* Stored messages are replayed in every pass, oldest first: the peer's hello,
\* then the maker's agreement, or the acknowledgement that the maker awaits.
ReadMessages(p) ==
    LET acknowledged == p = "maker" /\ got[p] >= Terms
                        /\ rec[p].phase = "terms_proposed"
    IN
    /\ At(p, "read")
    /\ Write(p, [rec[p] EXCEPT !.hello = @ \/ got[p] >= Hello,
                               !.phase = IF acknowledged THEN "terms_agreed" ELSE @],
             IF p = "taker" /\ got[p] >= Terms THEN "accept" ELSE "notices")

\* Mutant of AcceptAgreement: it acknowledges before it has stored.
AcknowledgeUnstored ==
    LET p == "taker" IN
    /\ At(p, "accept")
    /\ Quiet
    /\ Goto(p, "ack")

\* acceptAgreement: an agreement already stored is only acknowledged again.
AcceptAgreement ==
    LET p == "taker" IN
    /\ At(p, "accept")
    /\ IF rec[p].agreement
       THEN Quiet /\ Goto(p, "ack")
       ELSE Write(p, [rec[p] EXCEPT !.agreement = TRUE], "proposed")

MarkProposed(p) ==
    /\ At(p, "proposed")
    /\ AdvanceThen(p, "terms_proposed", IF p = "maker" THEN "send" ELSE "ack")

Acknowledge ==
    LET p == "taker" IN
    /\ At(p, "ack")
    /\ Receive(p, Terms)
    /\ UNCHANGED <<legVars, rec, funded, got, lapsed>>
    /\ Goto(p, "agree")

Agree ==
    LET p == "taker" IN
    /\ At(p, "agree")
    /\ IF rec[p].phase = "terms_proposed"
       THEN AdvanceThen(p, "terms_agreed", "notices")
       ELSE Quiet /\ Goto(p, "notices")

\* A funding notice; one of Bitcoin is relayed before it is stored.  A maker
\* that knows the taker's hello then proposes.  (The messages are processed
\* once more before the execution; only the maker's own proposal lies between.)
ReadNotice(p) ==
    LET noticed == got[p] >= Notice IN
    /\ At(p, "notices")
    /\ rec' = IF noticed THEN [rec EXCEPT ![p].notices = @ \cup {Peer(p)}] ELSE rec
    /\ IF noticed /\ Asset(Peer(p)) = "BTC"
       THEN Broadcast(p, Fund(Peer(p)))
       ELSE UNCHANGED legVars
    /\ UNCHANGED engineVars
    /\ Goto(p, IF p = "maker" /\ rec[p].phase = "matched" /\ rec[p].hello
               THEN "propose" ELSE "refund")

StoreProposal ==
    LET p == "maker" IN
    /\ At(p, "propose")
    /\ Write(p, [rec[p] EXCEPT !.agreement = TRUE], "proposed")

SendAgreement ==
    LET p == "maker" IN
    /\ At(p, "send")
    /\ Receive(p, Terms)
    /\ UNCHANGED <<legVars, rec, funded, got, lapsed>>
    /\ Goto(p, "read")

Messaging(p) ==
    \/ Begin(p) \/ SendHello(p) \/ ReadMessages(p) \/ MarkProposed(p) \/ ReadNotice(p)
    \/ p = "taker" /\ (AcceptAgreement \/ Acknowledge \/ Agree)
    \/ p = "maker" /\ (StoreProposal \/ SendAgreement)

-----------------------------------------------------------------------------
(* driveExecution: nothing before an agreement, the refund check on top *)

Executing(p) == rec[p].agreement /\ rec[p].phase \notin {"matched", "terms_proposed"}

NothingAgreed(p) ==
    /\ At(p, "refund")
    /\ ~Executing(p)
    /\ Quiet
    /\ Return(p)

NoRefundCheck(p) ==
    /\ At(p, "refund")
    /\ rec[p].phase \in TerminalPhases \cup RefundPhases
    /\ Quiet
    /\ Goto(p, "phase")

\* Where maybeStartRefund does something.
MayRefund(p) ==
    /\ At(p, "refund")
    /\ Executing(p)
    /\ rec[p].phase \notin TerminalPhases \cup RefundPhases

\* Mutant of OwnFunding: a crash between the broadcast and the notice loses
\* the funding.
FundingByNotice(p) == p \in rec[p].notices

\* The record says, or p's wallet still knows, that p's leg was funded.
OwnFunding(p) == p \in rec[p].notices \/ funded[p]

\* The record with the own notice that the check restored.
Recovered(p) == [rec[p] EXCEPT !.notices = @ \cup {p}]

\* A visible claim of the own leg comes before any refund of it.
ClaimBeforeRefund(p) ==
    /\ MayRefund(p)
    /\ OwnFunding(p)
    /\ Seen(p, Claim(p))
    /\ Write(p, [Recovered(p) EXCEPT !.revealed = TRUE], "phase")

NotDue(p) ==
    /\ MayRefund(p)
    /\ OwnFunding(p)
    /\ ~Seen(p, Claim(p))
    /\ ~RefundDue(p)
    /\ Write(p, Recovered(p), "phase")

StartRefund(p) ==
    /\ MayRefund(p)
    /\ OwnFunding(p)
    /\ ~Seen(p, Claim(p))
    /\ RefundDue(p)
    /\ ValidAdvance(rec[p].phase, "waiting_for_refund")
    /\ Write(p, [Recovered(p) EXCEPT !.phase = "waiting_for_refund"], "refund")

\* Nothing was funded and the window has closed: the swap expires.
Expire(p) ==
    /\ MayRefund(p)
    /\ ~OwnFunding(p)
    /\ ~FundingWindowOpen
    /\ AdvanceTo(p, "expired")

\* Inside the window an unfunded trader follows a peer that was refunded.
UnfundedInWindow(p) ==
    /\ MayRefund(p)
    /\ ~OwnFunding(p)
    /\ FundingWindowOpen
    /\ IF Peer(p) \in rec[p].notices /\ Mined(Refund(Peer(p)))
       THEN AdvanceTo(p, "waiting_for_refund")
       ELSE Quiet /\ Goto(p, "phase")

RefundCheck(p) ==
    \/ NothingAgreed(p) \/ NoRefundCheck(p)
    \/ ClaimBeforeRefund(p) \/ NotDue(p) \/ StartRefund(p)
    \/ Expire(p) \/ UnfundedInWindow(p)

-----------------------------------------------------------------------------
(* The funding phases *)

\* New swaps need no second approval: the signed offer and the signed
\* acceptance are the approvals.
TermsAgreed(p) ==
    /\ InPhase(p, "terms_agreed")
    /\ IF p = "maker" \/ "maker" \in rec[p].notices
       THEN AdvanceTo(p, "maker_funding")
       ELSE Quiet /\ Return(p)

\* The own funding, or the wait for the peer's.
FundingStep(p, funder) ==
    IF p # funder THEN "await" ELSE IF p \in rec[p].notices THEN "notify" ELSE "fund"

MakerFunding(p) ==
    /\ InPhase(p, "maker_funding")
    /\ Quiet
    /\ Goto(p, FundingStep(p, "maker"))

\* ensureLocalFunding, first call: the window must still be open.
FundOwnLeg(p) ==
    /\ At(p, "fund")
    /\ IF FundingWindowOpen
       THEN /\ Broadcast(p, Fund(p))
            /\ funded' = [funded EXCEPT ![p] = TRUE]
            /\ UNCHANGED <<rec, mailVars>>
            /\ Goto(p, "save")
       ELSE Quiet /\ Return(p)

SaveNotice(p) ==
    /\ At(p, "save")
    /\ Write(p, [rec[p] EXCEPT !.notices = @ \cup {p}], "notify")

SendNotice(p) ==
    /\ At(p, "notify")
    /\ Receive(p, Notice)
    /\ UNCHANGED <<legVars, rec, funded, got, lapsed>>
    /\ Goto(p, "await")

AwaitFunding(p) ==
    LET making == rec[p].phase = "maker_funding" IN
    /\ At(p, "await")
    /\ IF FundingConfirmed(p, IF making THEN "maker" ELSE "taker")
       THEN AdvanceTo(p, IF making THEN "maker_funded" ELSE "taker_funded")
       ELSE Quiet /\ Return(p)

MakerFunded(p) ==
    /\ InPhase(p, "maker_funded")
    /\ IF ~FundingConfirmed(p, "maker") THEN RewindAndReturn(p, "maker_funding")
       ELSE IF p = "taker" \/ "taker" \in rec[p].notices THEN AdvanceTo(p, "taker_funding")
       ELSE Quiet /\ Return(p)

TakerFunding(p) ==
    /\ InPhase(p, "taker_funding")
    /\ IF ~FundingConfirmed(p, "maker") THEN RewindTo(p, "maker_funding")
       ELSE Quiet /\ Goto(p, FundingStep(p, "taker"))

TakerFunded(p) ==
    /\ InPhase(p, "taker_funded")
    /\ IF ~FundingConfirmed(p, "maker") THEN RewindTo(p, "maker_funding")
       ELSE IF ~FundingConfirmed(p, "taker") THEN RewindAndReturn(p, "taker_funding")
       ELSE AdvanceTo(p, "maker_claiming")

Funding(p) ==
    \/ TermsAgreed(p) \/ MakerFunding(p)
    \/ FundOwnLeg(p) \/ SaveNotice(p) \/ SendNotice(p) \/ AwaitFunding(p)
    \/ MakerFunded(p) \/ TakerFunding(p) \/ TakerFunded(p)

-----------------------------------------------------------------------------
(* The claiming phases *)

MakerClaiming(p) ==
    /\ InPhase(p, "maker_claiming")
    /\ IF ~FundingConfirmed(p, "maker") THEN RewindTo(p, "maker_funding")
       ELSE IF ~FundingConfirmed(p, "taker") THEN RewindTo(p, "taker_funding")
       ELSE Quiet /\ Goto(p, IF p = "maker" THEN "claim" ELSE "observe")

\* ensureLocalClaim: p claims its peer's leg.
ClaimPeerLeg(p) ==
    /\ At(p, "claim")
    /\ IF Publishable(Claim(Peer(p)))
       THEN /\ Broadcast(p, Claim(Peer(p)))
            /\ UNCHANGED <<rec, engineVars>>
            /\ Goto(p, IF p = "maker" THEN "observe" ELSE "settle")
       ELSE Quiet /\ Return(p)

ObserveMakerClaim(p) ==
    /\ At(p, "observe")
    /\ IF ClaimSeen(p, "taker")
       THEN Write(p, [rec[p] EXCEPT !.revealed = TRUE, !.phase = "maker_claimed"], "refund")
       ELSE Quiet /\ Return(p)

MakerClaimed(p) ==
    /\ InPhase(p, "maker_claimed")
    /\ IF ~ClaimSeen(p, "taker") THEN RewindTo(p, "maker_claiming")
       ELSE IF p = "taker" \/ ClaimSeen(p, "maker") THEN AdvanceTo(p, "taker_claiming")
       ELSE Quiet /\ Return(p)

TakerClaiming(p) ==
    /\ InPhase(p, "taker_claiming")
    /\ IF ~ClaimSeen(p, "taker") THEN RewindTo(p, "maker_claiming")
       ELSE Quiet /\ Goto(p, IF p = "taker" THEN "claim" ELSE "settle")

Settle(p) ==
    /\ At(p, "settle")
    /\ IF ClaimSeen(p, "maker") /\ Mined(Claim("maker")) THEN AdvanceTo(p, "complete")
       ELSE Quiet /\ Return(p)

Claiming(p) ==
    \/ MakerClaiming(p) \/ ClaimPeerLeg(p) \/ ObserveMakerClaim(p)
    \/ MakerClaimed(p) \/ TakerClaiming(p) \/ Settle(p)

-----------------------------------------------------------------------------
(* The phases that end a swap *)

\* Mutant of Complete: a completed swap is never looked at again.
CompleteForGood(p) == InPhase(p, "complete") /\ Quiet /\ Return(p)

Complete(p) ==
    /\ InPhase(p, "complete")
    /\ IF ~ClaimSeen(p, "taker") THEN RewindAndReturn(p, "maker_claiming")
       ELSE IF ~(ClaimSeen(p, "maker") /\ Mined(Claim("maker")))
            THEN RewindAndReturn(p, "taker_claiming")
       ELSE Quiet /\ Return(p)

WaitingForRefund(p) ==
    /\ InPhase(p, "waiting_for_refund")
    /\ AdvanceTo(p, "refunding")

\* The leg whose refund ends p's swap: its own, or the peer's when p never
\* funded.
RefundedLeg(p) == IF p \in rec[p].notices THEN p ELSE Peer(p)

\* ensureLocalRefund publishes the refund until it is mined.
Refunding(p) ==
    LET t == Refund(RefundedLeg(p)) IN
    /\ InPhase(p, "refunding")
    /\ IF Mined(t) THEN AdvanceTo(p, "refunded")
       ELSE IF RefundedLeg(p) = p /\ Publishable(t)
            THEN Broadcast(p, t) /\ UNCHANGED <<rec, engineVars>> /\ Return(p)
            ELSE Quiet /\ Return(p)

Refunded(p) ==
    /\ InPhase(p, "refunded")
    /\ IF Mined(Refund(RefundedLeg(p))) THEN Quiet /\ Return(p)
       ELSE RewindAndReturn(p, "refunding")

Expired(p) ==
    /\ InPhase(p, "expired")
    /\ Quiet
    /\ Return(p)

Ending(p) ==
    \/ Complete(p) \/ WaitingForRefund(p) \/ Refunding(p) \/ Refunded(p) \/ Expired(p)

-----------------------------------------------------------------------------
(* The two engines, the relay and the networks *)

Engine(p) ==
    /\ Messaging(p) \/ RefundCheck(p) \/ Funding(p) \/ Claiming(p) \/ Ending(p)
    /\ UNCHANGED faultVars

\* A relay poll stores the peer's next message.
Deliver(p) ==
    /\ got[p] < sent[Peer(p)]
    /\ got' = [got EXCEPT ![p] = @ + 1]
    /\ poll' = Stale
    /\ UNCHANGED <<legVars, rec, funded, sent, lapsed, pc, faultVars>>

\* The application stops, or a wallet or relay call fails: what the pass had
\* not made durable is gone.
Abort(p) ==
    /\ pc[p] # "idle"
    /\ aborts < MaxAborts
    /\ aborts' = aborts + 1
    /\ pc' = [pc EXCEPT ![p] = "idle"]
    /\ poll' = [poll EXCEPT ![p] = "stale"]
    /\ UNCHANGED <<legVars, rec, engineVars, reorgs>>

Network ==
    /\ \E t \in Txs : Confirm(t) \/ \E p \in Parties : Gossip(p, t)
    /\ poll' = Stale
    /\ UNCHANGED <<rec, engineVars, pc, faultVars>>

\* Both traders' wallets republish the fundings they know from the notices.
Disturbance ==
    /\ reorgs < MaxReorgs
    /\ \E t \in Txs : Reorg(t) \/ (t[2] # "fund" /\ Evict(t))
    /\ reorgs' = reorgs + 1
    /\ poll' = Stale
    /\ UNCHANGED <<rec, engineVars, pc, aborts>>

Attentive(p) == poll[p] = "done" /\ got[p] = sent[Peer(p)]

\* Between two heights that matter there is time for whoever is present, and
\* for the miners.
Quiescent ==
    /\ \A p \in Parties : At(p, "idle")
    /\ \A p \in Prompt : Attentive(p)
    /\ PoolsDrained

Tick ==
    /\ Quiescent
    /\ NextEpoch
    /\ poll' = Stale
    /\ UNCHANGED <<rec, engineVars, pc, faultVars>>

\* The windows are two days long, a message lives thirty.
Lapse ==
    /\ Quiescent
    /\ epoch = LastEpoch
    /\ ~lapsed
    /\ lapsed' = TRUE
    /\ chain' = [t \in Txs |-> IF chain[t] = "conf" THEN "final" ELSE chain[t]]
    /\ poll' = Stale
    /\ UNCHANGED <<known, epoch, rec, funded, sent, got, pc, faultVars>>

Next ==
    \/ \E p \in Parties : Engine(p) \/ Abort(p) \/ Deliver(p)
    \/ Network
    \/ Disturbance
    \/ Tick
    \/ Lapse

Spec == Init /\ [][Next]_vars

Fairness ==
    /\ \A p \in Parties : WF_vars(Engine(p)) /\ WF_vars(Deliver(p))
    /\ WF_vars(Network)
    /\ WF_vars(Tick)

FairSpec == Spec /\ Fairness

-----------------------------------------------------------------------------
TypeOK ==
    /\ LegsTypeOK
    /\ rec \in [Parties -> Records]
    /\ funded \in [Parties -> BOOLEAN]
    /\ sent \in [Parties -> 0..Notice]
    /\ got \in [Parties -> 0..Notice]
    /\ lapsed \in BOOLEAN
    /\ pc \in [Parties -> EngineSteps]
    /\ poll \in [Parties -> {"stale", "running", "done"}]
    /\ aborts \in 0..MaxAborts
    /\ reorgs \in 0..MaxReorgs

\* A trader whose application stays open never pays without being paid: the
\* peer's claim of its leg and the peer's refund are never both on the chains.
PresentNeverLose ==
    \A p \in Prompt : ~(Mined(Claim(p)) /\ Mined(Refund(Peer(p))))

\* No money moves before both journals hold the agreement.
AgreementBeforeFunding ==
    \A p \in Parties : chain[Fund(p)] # "none" =>
        \A q \in Parties : rec[q].agreement

\* A journal that has looked and holds a terminal phase tells the truth about
\* the chains, also after a reorganisation undid what it had recorded.  (A
\* version 1 swap is complete when the taker's claim is mined; the maker's is
\* still in the trader's sight then, and looked for in every later pass.)
SettledAgrees ==
    \A p \in Parties : poll[p] = "done" /\ ~lapsed =>
        /\ rec[p].phase = "complete" => Mined(Claim("maker")) /\ Seen(p, Claim("taker"))
        /\ rec[p].phase = "refunded" =>
              Mined(Refund(p)) \/ (~Mined(Fund(p)) /\ Mined(Refund(Peer(p))))
        /\ rec[p].phase = "expired" => ~Mined(Fund(p))

\* Both traders looked after the last refund height, and what they published
\* was mined.
Settling == epoch = LastEpoch /\ PoolsDrained /\ \A p \in Parties : Attentive(p)

Unlocked(leg) == Mined(Fund(leg)) => Mined(Claim(leg)) \/ Mined(Refund(leg))

\* While the traders' messages live, no amount is left in a contract then.
NothingLocked == Settling /\ ~lapsed => \A p \in Parties : Unlocked(p)

\* A maker that stays open and funded its leg is paid in the end, with the
\* taker's leg or with its own.
FundedMakerIsPaid ==
    Mined(Fund("maker")) ~> (Mined(Claim("taker")) \/ Mined(Refund("maker")))
=============================================================================
