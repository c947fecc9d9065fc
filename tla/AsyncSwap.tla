----------------------------- MODULE AsyncSwap ------------------------------
(***************************************************************************)
(* One matched swap of protocol version 2, driven by the engines of its    *)
(* two traders (internal/app/async_engine.go with the shared helpers of    *)
(* internal/app/engine.go).  The taker owns the secret and signed its      *)
(* funding when it accepted; either trader may publish those bytes.  The   *)
(* maker sends a claim template, funds its own leg and sends a notice; the *)
(* taker claims the maker's leg, which reveals the secret, and completes   *)
(* and publishes the maker's claim of its own leg from the template.       *)
(*                                                                         *)
(* An engine runs in passes.  A pass reads the peer's messages, then loops:*)
(* it first decides whether to refund, then acts on the phase its journal  *)
(* record has.  pc says where in a pass a trader is, so that the chains    *)
(* and the other trader move between a check and the effect it allowed.    *)
(***************************************************************************)
EXTENDS SwapPhases, SwapLegs

CONSTANTS
    Prompt,         \* traders whose application runs through every epoch
    MinedInTime,    \* whether published transactions are mined within an epoch
    MaxAborts,      \* bound on passes cut short by a crash or a failed call
    MaxReorgs       \* bound on reorganisations and evictions

ASSUME ConstantsAssumption ==
    /\ MakerGives \in {"BTC", "QDAY"}
    /\ FirstFunder = "taker"
    /\ Prompt \subseteq Parties
    /\ MinedInTime \in BOOLEAN
    /\ MaxAborts \in Nat
    /\ MaxReorgs \in Nat

VARIABLES
    rec,        \* rec[p]: p's durable journal record of the swap
    funded,     \* whether the maker's wallet submitted the maker's funding
    mail,       \* protocol messages the relay holds for the taker
    inbox,      \* those the taker's journal has stored
    pc,         \* pc[p]: where p's engine is in its pass, lost in a crash
    poll,       \* poll[p]: whether p has looked since the last event
    aborts,     \* passes cut short so far
    reorgs      \* reorganisations and evictions so far

engineVars == <<funded, mail, inbox>>
faultVars == <<aborts, reorgs>>
vars == <<legVars, rec, engineVars, pc, poll, faultVars>>

\* The parts of swapstate.Swap that the asynchronous engine branches on.
Records ==
    [phase     : Phases \ LegacyPhases,
     submitted : BOOLEAN,    \* TakerFundingSubmitted
     notice    : BOOLEAN,    \* MakerFunding is set
     template  : BOOLEAN,    \* MakerClaimTemplate is set
     revealed  : BOOLEAN]    \* RevealedSecret is set

Messages == {"template", "notice"}

EngineSteps ==
    {"idle", "refund", "phase", "mark", "template", "fund", "save", "notice",
     "await", "claim", "proxy", "observe", "settle"}

Init ==
    /\ LegsInit
    /\ rec = [p \in Parties |->
                 [phase |-> "matched", submitted |-> FALSE, notice |-> FALSE,
                  template |-> FALSE, revealed |-> FALSE]]
    /\ funded = FALSE
    /\ mail = {}
    /\ inbox = {}
    /\ pc = [p \in Parties |-> "idle"]
    /\ poll = [p \in Parties |-> "stale"]
    /\ aborts = 0
    /\ reorgs = 0

-----------------------------------------------------------------------------
(* Control of a pass *)

\* What a trader's application can look at.
Observable == <<legVars, mail, inbox>>

Stale == [p \in Parties |-> "stale"]

\* The pass goes on; what it changed is news to both traders.
Goto(p, step) ==
    /\ pc' = [pc EXCEPT ![p] = step]
    /\ poll' = IF Observable' = Observable THEN poll ELSE Stale

\* The pass ends, by a return or by an error the next pass would meet again.
Return(p) ==
    /\ pc' = [pc EXCEPT ![p] = "idle"]
    /\ poll' = IF Observable' # Observable THEN Stale
               ELSE [poll EXCEPT ![p] = IF @ = "running" THEN "done" ELSE "stale"]

At(p, step) == pc[p] = step
InPhase(p, phase) == pc[p] = "phase" /\ rec[p].phase = phase

\* Journal.Advance followed by the next iteration of the engine's loop.
AdvanceTo(p, phase) ==
    /\ ValidAdvance(rec[p].phase, phase)
    /\ rec' = [rec EXCEPT ![p].phase = phase]
    /\ UNCHANGED <<legVars, engineVars>>
    /\ Goto(p, "refund")

\* Journal.RewindAfterReorg: going back to the taker's funding forgets that
\* the funding was submitted.
RewindTo(p, phase) ==
    /\ ValidRewind(rec[p].phase, phase)
    /\ rec' = [rec EXCEPT ![p].phase = phase,
                          ![p].submitted = @ /\ phase # "async_taker_funding"]
    /\ UNCHANGED <<legVars, engineVars>>
    /\ Goto(p, "refund")

\* Nothing durable changes.
Quiet == UNCHANGED <<legVars, rec, engineVars>>

\* The confirmed funding of a leg, as a record that may lack the notice sees it.
FundingConfirmed(p, leg) ==
    /\ leg = "maker" => rec[p].notice
    /\ Mined(Fund(leg))

\* observeClaim: a spend of the leg that reveals the secret is visible to p.
ClaimSeen(p, leg) ==
    /\ leg = "maker" => rec[p].notice
    /\ Seen(p, Claim(leg))

-----------------------------------------------------------------------------
(* The start of a pass: initializeAsyncSwap and processPeerMessages *)

\* Mutant of Initialized: a version 2 match enters the version 1 phases.
InitializedAsLegacy(r) == [r EXCEPT !.phase = "terms_proposed"]

Initialized(r) ==
    IF r.phase = "matched" THEN [r EXCEPT !.phase = "async_taker_funding"] ELSE r

\* Completing the template of a QDAY leg needs the funding output in view.
TemplateUsable == MakerGives = "QDAY" \/ Seen("taker", Fund("taker"))

\* The stored messages are replayed in every pass; once its template is
\* accepted, replaying the first one changes nothing.
Unread == "notice" \in inbox \/ ("template" \in inbox /\ ~rec["taker"].template)

Begin(p) ==
    /\ At(p, "idle")
    /\ poll[p] # "done"
    /\ p = "taker" => ~Unread
    /\ rec' = [rec EXCEPT ![p] = Initialized(@)]
    /\ UNCHANGED <<legVars, engineVars>>
    /\ pc' = [pc EXCEPT ![p] = "refund"]
    /\ poll' = [poll EXCEPT ![p] = "running"]

\* The taker's pass with messages to process, oldest first.  It completes the
\* maker's claim template, and relays a Bitcoin funding named by a notice.
BeginWithMessages ==
    LET p == "taker" IN
    /\ At(p, "idle")
    /\ poll[p] # "done"
    /\ Unread
    /\ "template" \in inbox => rec[p].template \/ TemplateUsable
    /\ rec' = [rec EXCEPT ![p] = [Initialized(rec[p]) EXCEPT
                    !.template = rec[p].template \/ "template" \in inbox,
                    !.notice = rec[p].notice \/ "notice" \in inbox]]
    /\ IF MakerGives = "BTC" /\ "notice" \in inbox
       THEN Broadcast(p, Fund("maker"))
       ELSE UNCHANGED legVars
    /\ UNCHANGED engineVars
    /\ pc' = [pc EXCEPT ![p] = "refund"]
    /\ poll' = IF Observable' = Observable
               THEN [poll EXCEPT ![p] = "running"] ELSE Stale

\* A template that cannot be completed yet ends the pass before anything else,
\* the refund check included.
RefuseTemplate ==
    LET p == "taker" IN
    /\ At(p, "idle")
    /\ poll[p] # "done"
    /\ "template" \in inbox
    /\ ~rec[p].template
    /\ ~TemplateUsable
    /\ rec' = [rec EXCEPT ![p] = Initialized(@)]
    /\ poll' = [poll EXCEPT ![p] = "done"]
    /\ UNCHANGED <<legVars, engineVars, pc>>

-----------------------------------------------------------------------------
(* maybeStartRefund, at the top of every iteration *)

\* Mutants of OwnFunding: only the record is asked, so a crash between the
\* maker's broadcast and its notice, or a funding that the other trader
\* published, is forgotten.
MakerFundingByRecord(p) ==
    IF p = "maker" THEN rec[p].notice ELSE rec[p].submitted \/ Seen(p, Fund(p))
TakerFundingByRecord(p) ==
    IF p = "maker" THEN rec[p].notice \/ funded ELSE rec[p].submitted

\* The record says, or the wallet still knows, that p's own leg was funded.
\* The taker's signed funding counts only once it was seen on its way.
OwnFunding(p) ==
    IF p = "maker" THEN rec[p].notice \/ funded
    ELSE rec[p].submitted \/ Seen(p, Fund(p))

\* The record with what the check recovered: the maker's lost notice or the
\* taker's lost submission mark.
Recovered(p) ==
    IF ~OwnFunding(p) THEN rec[p]
    ELSE IF p = "maker" THEN [rec[p] EXCEPT !.notice = TRUE]
    ELSE [rec[p] EXCEPT !.submitted = TRUE]

NoRefundCheck(p) ==
    /\ At(p, "refund")
    /\ rec[p].phase \in TerminalPhases \cup RefundPhases
    /\ Quiet
    /\ Goto(p, "phase")

\* A visible claim of the own leg comes before any refund of it.
ClaimBeforeRefund(p) ==
    /\ At(p, "refund")
    /\ rec[p].phase \notin TerminalPhases \cup RefundPhases
    /\ OwnFunding(p)
    /\ Seen(p, Claim(p))
    /\ rec' = [rec EXCEPT ![p] = [Recovered(p) EXCEPT !.revealed = TRUE]]
    /\ UNCHANGED <<legVars, engineVars>>
    /\ Goto(p, "phase")

NotDue(p) ==
    /\ At(p, "refund")
    /\ rec[p].phase \notin TerminalPhases \cup RefundPhases
    /\ OwnFunding(p)
    /\ ~Seen(p, Claim(p))
    /\ ~RefundDue(p)
    /\ rec' = [rec EXCEPT ![p] = Recovered(p)]
    /\ UNCHANGED <<legVars, engineVars>>
    /\ Goto(p, "phase")

StartRefund(p) ==
    /\ At(p, "refund")
    /\ rec[p].phase \notin TerminalPhases \cup RefundPhases
    /\ OwnFunding(p)
    /\ ~Seen(p, Claim(p))
    /\ RefundDue(p)
    /\ rec' = [rec EXCEPT ![p] = [Recovered(p) EXCEPT !.phase = "waiting_for_refund"]]
    /\ UNCHANGED <<legVars, engineVars>>
    /\ Goto(p, "refund")

\* Nothing was funded and the window has closed: the swap expires.
Expire(p) ==
    /\ At(p, "refund")
    /\ rec[p].phase \notin TerminalPhases \cup RefundPhases
    /\ ~OwnFunding(p)
    /\ ~FundingWindowOpen
    /\ AdvanceTo(p, "expired")

\* The journal refuses that advance from every later phase; the pass fails.
RefusedExpiry(p) ==
    /\ At(p, "refund")
    /\ rec[p].phase \notin TerminalPhases \cup RefundPhases
    /\ ~OwnFunding(p)
    /\ ~FundingWindowOpen
    /\ ~ValidAdvance(rec[p].phase, "expired")
    /\ Quiet
    /\ Return(p)

\* Inside the window an unfunded trader follows a peer that was refunded.
UnfundedInWindow(p) ==
    LET peer == Peer(p)
        peerRefunded == (peer = "maker" => rec[p].notice) /\ Mined(Refund(peer))
    IN
    /\ At(p, "refund")
    /\ rec[p].phase \notin TerminalPhases \cup RefundPhases
    /\ ~OwnFunding(p)
    /\ FundingWindowOpen
    /\ IF peerRefunded
       THEN AdvanceTo(p, "waiting_for_refund")
       ELSE Quiet /\ Goto(p, "phase")

RefundCheck(p) ==
    \/ NoRefundCheck(p)
    \/ ClaimBeforeRefund(p)
    \/ NotDue(p)
    \/ StartRefund(p)
    \/ Expire(p)
    \/ RefusedExpiry(p)
    \/ UnfundedInWindow(p)

-----------------------------------------------------------------------------
(* The funding phases *)

\* async_taker_funding: either trader publishes the taker's signed funding.
TakerFunding(p) ==
    /\ InPhase(p, "async_taker_funding")
    /\ IF Mined(Fund("taker"))
       THEN /\ rec' = [rec EXCEPT ![p].submitted = TRUE,
                                  ![p].phase = "async_taker_funded"]
            /\ UNCHANGED <<legVars, engineVars>>
            /\ Goto(p, "refund")
       ELSE /\ Broadcast(p, Fund("taker"))
            /\ UNCHANGED <<rec, engineVars>>
            /\ Goto(p, "mark")

MarkSubmitted(p) ==
    /\ At(p, "mark")
    /\ UNCHANGED <<legVars, engineVars>>
    /\ IF Mined(Fund("taker"))
       THEN /\ rec' = [rec EXCEPT ![p].submitted = TRUE,
                                  ![p].phase = "async_taker_funded"]
            /\ Goto(p, "refund")
       ELSE /\ rec' = [rec EXCEPT ![p].submitted = TRUE]
            /\ Return(p)

TakerFunded(p) ==
    /\ InPhase(p, "async_taker_funded")
    /\ IF FundingConfirmed(p, "taker")
       THEN AdvanceTo(p, "async_maker_funding")
       ELSE RewindTo(p, "async_taker_funding")

\* async_maker_funding: the maker prepares and sends its claim template
\* before it funds; the taker waits for the maker's notice.
MakerFunding(p) ==
    /\ InPhase(p, "async_maker_funding")
    /\ IF ~FundingConfirmed(p, "taker") THEN RewindTo(p, "async_taker_funding")
       ELSE /\ rec' = IF p = "maker" THEN [rec EXCEPT ![p].template = TRUE] ELSE rec
            /\ UNCHANGED <<legVars, engineVars>>
            /\ Goto(p, IF p = "maker" THEN "template" ELSE "await")

\* Mutant of SendTemplate: the template is only stored, not sent.
KeepTemplate ==
    LET p == "maker" IN
    /\ At(p, "template")
    /\ Quiet
    /\ Goto(p, IF rec[p].notice THEN "notice" ELSE "fund")

SendTemplate ==
    LET p == "maker" IN
    /\ At(p, "template")
    /\ mail' = mail \cup {"template"}
    /\ UNCHANGED <<legVars, rec, funded, inbox>>
    /\ Goto(p, IF rec[p].notice THEN "notice" ELSE "fund")

\* ensureLocalFunding, first call: the window must still be open.
FundMakerLeg ==
    LET p == "maker" IN
    /\ At(p, "fund")
    /\ IF FundingWindowOpen
       THEN /\ Broadcast(p, Fund(p))
            /\ funded' = TRUE
            /\ UNCHANGED <<rec, mail, inbox>>
            /\ Goto(p, "save")
       ELSE Quiet /\ Return(p)

SaveNotice ==
    LET p == "maker" IN
    /\ At(p, "save")
    /\ rec' = [rec EXCEPT ![p].notice = TRUE]
    /\ UNCHANGED <<legVars, engineVars>>
    /\ Goto(p, "notice")

SendNotice ==
    LET p == "maker" IN
    /\ At(p, "notice")
    /\ mail' = mail \cup {"notice"}
    /\ UNCHANGED <<legVars, rec, funded, inbox>>
    /\ Goto(p, "await")

AwaitMakerFunding(p) ==
    /\ At(p, "await")
    /\ IF FundingConfirmed(p, "maker")
       THEN AdvanceTo(p, "async_maker_funded")
       ELSE Quiet /\ Return(p)

\* A taker does not claim before it can complete the maker's claim.
LacksTemplate(p) == p = "taker" /\ ~rec[p].template

MakerFunded(p) ==
    /\ InPhase(p, "async_maker_funded")
    /\ IF ~FundingConfirmed(p, "taker") THEN RewindTo(p, "async_taker_funding")
       ELSE IF ~FundingConfirmed(p, "maker") THEN RewindTo(p, "async_maker_funding")
       ELSE IF LacksTemplate(p) THEN Quiet /\ Return(p)
       ELSE AdvanceTo(p, "async_taker_claiming")

-----------------------------------------------------------------------------
(* The claiming phases *)

\* async_taker_claiming: the taker publishes its claim and, at once, the
\* maker's; the maker waits until it sees the secret.
TakerClaiming(p) ==
    /\ InPhase(p, "async_taker_claiming")
    /\ IF ~FundingConfirmed(p, "taker") THEN RewindTo(p, "async_taker_funding")
       ELSE IF ~FundingConfirmed(p, "maker") THEN RewindTo(p, "async_maker_funding")
       ELSE IF LacksTemplate(p) THEN Quiet /\ Return(p)
       ELSE Quiet /\ Goto(p, IF p = "taker" THEN "claim" ELSE "observe")

\* A published transaction, or an error when the wallet cannot accept it.
PublishThen(p, t, step) ==
    IF Publishable(t)
    THEN /\ Broadcast(p, t)
         /\ UNCHANGED <<rec, engineVars>>
         /\ Goto(p, step)
    ELSE Quiet /\ Return(p)

ClaimMakerLeg ==
    /\ At("taker", "claim")
    /\ PublishThen("taker", Claim("maker"), "proxy")

\* broadcastProxyMakerClaim: publish the maker's claim unless it is visible.
ProxyMakerClaim ==
    /\ At("taker", "proxy")
    /\ IF ClaimSeen("taker", "taker")
       THEN Quiet /\ Goto("taker", "observe")
       ELSE PublishThen("taker", Claim("taker"), "observe")

ObserveTakerClaim(p) ==
    /\ At(p, "observe")
    /\ IF ClaimSeen(p, "maker")
       THEN /\ rec' = [rec EXCEPT ![p].revealed = TRUE,
                                  ![p].phase = "async_taker_claimed"]
            /\ UNCHANGED <<legVars, engineVars>>
            /\ Goto(p, "refund")
       ELSE Quiet /\ Return(p)

TakerClaimed(p) ==
    /\ InPhase(p, "async_taker_claimed")
    /\ IF ClaimSeen(p, "maker")
       THEN AdvanceTo(p, "async_maker_claiming")
       ELSE RewindTo(p, "async_taker_claiming")

\* Mutant of MakerClaiming: it claims without looking for the claim first.
MakerClaimingBlind(p) ==
    /\ InPhase(p, "async_maker_claiming")
    /\ IF ~ClaimSeen(p, "maker") THEN RewindTo(p, "async_taker_claiming")
       ELSE PublishThen(p, Claim("taker"), "settle")

\* async_maker_claiming: whoever runs publishes the maker's claim.  Whether
\* the taker's claim was mined is read before that, and used after it.
MakerClaiming(p) ==
    LET takerMined == Mined(Claim("maker")) IN
    /\ InPhase(p, "async_maker_claiming")
    /\ IF ~ClaimSeen(p, "maker") THEN RewindTo(p, "async_taker_claiming")
       ELSE IF ClaimSeen(p, "taker")
            THEN IF Mined(Claim("taker")) /\ takerMined
                 THEN AdvanceTo(p, "complete")
                 ELSE Quiet /\ Return(p)
       ELSE IF ~FundingConfirmed(p, "taker") THEN RewindTo(p, "async_taker_funding")
       ELSE IF takerMined THEN PublishThen(p, Claim("taker"), "settle")
       ELSE IF Publishable(Claim("taker"))
            THEN Broadcast(p, Claim("taker")) /\ UNCHANGED <<rec, engineVars>> /\ Return(p)
            ELSE Quiet /\ Return(p)

Settle(p) ==
    /\ At(p, "settle")
    /\ IF Mined(Claim("taker")) THEN AdvanceTo(p, "complete")
       ELSE Quiet /\ Return(p)

-----------------------------------------------------------------------------
(* The phases that end a swap *)

\* Mutant of Complete: a completed swap is never looked at again.
CompleteForGood(p) == InPhase(p, "complete") /\ Quiet /\ Return(p)

Complete(p) ==
    /\ InPhase(p, "complete")
    /\ IF ~(ClaimSeen(p, "maker") /\ Mined(Claim("maker")))
       THEN RewindTo(p, "async_taker_claiming")
       ELSE IF ~Mined(Claim("taker")) THEN RewindTo(p, "async_maker_claiming")
       ELSE Quiet /\ Return(p)

WaitingForRefund(p) ==
    /\ InPhase(p, "waiting_for_refund")
    /\ AdvanceTo(p, "refunding")

\* The leg whose refund ends p's swap: its own, or the peer's when p never
\* funded.  The taker's record always names its own funding.
RefundedLeg(p) == IF p = "maker" /\ ~rec[p].notice THEN "taker" ELSE p

\* ensureLocalRefund publishes the refund until it is mined.
Refunding(p) ==
    LET t == Refund(RefundedLeg(p)) IN
    /\ InPhase(p, "refunding")
    /\ IF Mined(t) THEN AdvanceTo(p, "refunded")
       ELSE IF RefundedLeg(p) = p /\ Publishable(t)
            THEN Broadcast(p, t) /\ UNCHANGED <<rec, engineVars>> /\ Return(p)
            ELSE Quiet /\ Return(p)

Refunded(p) ==
    /\ InPhase(p, "refunded")
    /\ IF Mined(Refund(RefundedLeg(p))) THEN Quiet /\ Return(p)
       ELSE RewindTo(p, "refunding")

Expired(p) ==
    /\ InPhase(p, "expired")
    /\ Quiet
    /\ Return(p)

-----------------------------------------------------------------------------
(* The two engines, the relay and the networks *)

EngineStep(p) ==
    \/ Begin(p)
    \/ p = "taker" /\ (BeginWithMessages \/ RefuseTemplate)
    \/ RefundCheck(p)
    \/ TakerFunding(p) \/ MarkSubmitted(p) \/ TakerFunded(p)
    \/ MakerFunding(p) \/ AwaitMakerFunding(p) \/ MakerFunded(p)
    \/ p = "maker" /\ (SendTemplate \/ FundMakerLeg \/ SaveNotice \/ SendNotice)
    \/ TakerClaiming(p)
    \/ p = "taker" /\ (ClaimMakerLeg \/ ProxyMakerClaim)
    \/ ObserveTakerClaim(p) \/ TakerClaimed(p) \/ MakerClaiming(p) \/ Settle(p)
    \/ Complete(p) \/ WaitingForRefund(p) \/ Refunding(p) \/ Refunded(p) \/ Expired(p)

Engine(p) == EngineStep(p) /\ UNCHANGED faultVars

\* The taker's relay poll stores the next message, in the order it was sent.
Deliver ==
    /\ inbox # mail
    /\ inbox' = inbox \cup IF "template" \in mail \ inbox THEN {"template"} ELSE {"notice"}
    /\ poll' = Stale
    /\ UNCHANGED <<legVars, rec, funded, mail, pc, faultVars>>

\* The application stops, or a wallet or relay call fails: what the pass had
\* not made durable is gone.
Abort(p) ==
    /\ pc[p] # "idle"
    /\ aborts < MaxAborts
    /\ aborts' = aborts + 1
    /\ pc' = [pc EXCEPT ![p] = "idle"]
    /\ poll' = [poll EXCEPT ![p] = "stale"]
    /\ UNCHANGED <<legVars, rec, funded, mail, inbox, reorgs>>

Network ==
    /\ \E t \in Txs : Confirm(t) \/ \E p \in Parties : Gossip(p, t)
    /\ poll' = Stale
    /\ UNCHANGED <<rec, funded, mail, inbox, pc, faultVars>>

Disturbance ==
    /\ reorgs < MaxReorgs
    /\ \E t \in Txs : Reorg(t) \/ Evict(t)
    /\ reorgs' = reorgs + 1
    /\ poll' = Stale
    /\ UNCHANGED <<rec, funded, mail, inbox, pc, aborts>>

\* A pass is short against the hundreds of blocks between two heights that
\* matter, so no pass spans an epoch; a trader that stays open has looked.
Attentive(p) ==
    /\ poll[p] = "done"
    /\ p = "taker" => inbox = mail

Tick ==
    /\ \A p \in Parties : At(p, "idle")
    /\ \A p \in Prompt : Attentive(p)
    /\ MinedInTime => PoolsDrained
    /\ NextEpoch
    /\ poll' = Stale
    /\ UNCHANGED <<rec, funded, mail, inbox, pc, faultVars>>

Next ==
    \/ \E p \in Parties : Engine(p) \/ Abort(p)
    \/ Deliver
    \/ Network
    \/ Disturbance
    \/ Tick

Spec == Init /\ [][Next]_vars

Fairness ==
    /\ \A p \in Parties : WF_vars(Engine(p))
    /\ WF_vars(Deliver)
    /\ WF_vars(Network)
    /\ WF_vars(Tick)

FairSpec == Spec /\ Fairness

-----------------------------------------------------------------------------
TypeOK ==
    /\ LegsTypeOK
    /\ rec \in [Parties -> Records]
    /\ funded \in BOOLEAN
    /\ mail \in SUBSET Messages
    /\ inbox \in SUBSET mail
    /\ pc \in [Parties -> EngineSteps]
    /\ poll \in [Parties -> {"stale", "running", "done"}]
    /\ aborts \in 0..MaxAborts
    /\ reorgs \in 0..MaxReorgs

\* The maker never pays without being paid: the taker's claim of the maker's
\* leg and the taker's refund of its own are never both on the chains, through
\* crashes, reorganisations and any interleaving of the two engines.
NoMakerLoss == ~(Mined(Claim("maker")) /\ Mined(Refund("taker")))

\* The taker never pays without being paid: the claim that the taker completes
\* for the maker and the maker's refund are never both on the chains.
NoTakerLoss == ~(Mined(Claim("taker")) /\ Mined(Refund("maker")))

Atomicity == NoMakerLoss /\ NoTakerLoss

\* When both traders have looked after the last refund height and nothing is
\* waiting to be mined, no amount is left in a contract, and the two claims
\* were mined together or not at all.
AtomicOutcome ==
    (epoch = LastEpoch /\ PoolsDrained /\ \A p \in Parties : Attentive(p)) =>
        /\ \A p \in Parties : Mined(Fund(p)) => Mined(Claim(p)) \/ Mined(Refund(p))
        /\ Mined(Claim("maker")) <=> Mined(Claim("taker"))

\* A journal that has looked and holds a terminal phase tells the truth about
\* the chains, also after a reorganisation undid what it had recorded.
SettledAgrees ==
    \A p \in Parties : poll[p] = "done" =>
        /\ rec[p].phase = "complete" => \A leg \in Parties : Mined(Claim(leg))
        /\ rec[p].phase = "refunded" =>
              Mined(Refund(p)) \/ (~Mined(Fund(p)) /\ Mined(Refund(Peer(p))))
        /\ rec[p].phase = "expired" => ~Mined(Fund(p))

\* A swap that expired locally moved no money: the trader's own funding is not
\* even waiting to be mined.
ExpiredUnfunded ==
    \A p \in Parties : rec[p].phase = "expired" => chain[Fund(p)] = "none"

\* The maker's money is on its way only once the taker can pay the maker
\* without the maker: its claim template was handed to the relay before.
TemplateBeforeFunding == chain[Fund("maker")] # "none" => "template" \in mail

\* The taker never starts to reveal the secret when the maker's refund could
\* already be mined instead of the taker's claim.
NoLateReveal ==
    [][chain[Claim("maker")] = "none" /\ chain'[Claim("maker")] # "none"
          => ~RefundDue("maker")]_vars

\* Each trader's swap reaches a terminal phase and stays there.
MakerSettles == <>[](rec["maker"].phase \in TerminalPhases)
TakerSettles == <>[](rec["taker"].phase \in TerminalPhases)
BothSettle == MakerSettles /\ TakerSettles

\* A leg is what the chains have mined for it.
LegState(p) ==
    CASE Mined(Claim(p)) -> "claimed"
      [] Mined(Refund(p)) -> "refunded"
      [] Mined(Fund(p)) /\ ~Mined(Claim(p)) /\ ~Mined(Refund(p)) -> "locked"
      [] OTHER -> "unfunded"

\* Without reorganisations the two engines implement the abstract swap, in
\* which publishing the taker's claim reveals the secret.
Abstract == INSTANCE AtomicSwap WITH
    leg <- [p \in Parties |-> LegState(p)],
    revealed <- chain[Claim("maker")] # "none"

ImplementsAtomicSwap == Abstract!Spec
ImplementsFairAtomicSwap == Abstract!FairSpec
=============================================================================
