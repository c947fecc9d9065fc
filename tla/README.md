# Verification of qday-swap

TLA+ modules for the protocol logic of qday-swap, the model-checking runs that
exercise them on small instances, and TLAPS proofs of what can be said for every
instance. `PROJECT.json` lists the runs, the mutants that show each property can
fail, the source lines each definition stands for, and the hazards the
properties were written for.

## The system

qday-swap exchanges BTC for QDAY between two people, the *maker* of a signed
order and its *taker*, with two hash-locked contracts ("legs"). The parts that
carry protocol state:

| component | source | state it keeps | operations |
|---|---|---|---|
| order relay | `internal/relay` | orders, acceptances, cancellations, matches, messages, mailboxes, in one bbolt file | publish, cancel, submit, cancel acceptance, confirm match, publish message, poll |
| negotiation | `internal/app/service.go` | pending and incoming acceptances, relay cursor, provisional swaps | accept, cancel, match, poll the relay, reconcile |
| swap journal | `internal/swapstate` | one record per swap: phase, fundings, template, secret; signed actions; messages | advance, rewind, set fields, prepare and mark actions |
| version 2 engine | `internal/app/async_engine.go`, `engine.go` | nothing but the journal | one pass over every swap each few seconds |
| version 1 engine | `internal/app/engine.go` | the same journal | the same, for the older online protocol |
| funds | `internal/app/funds.go` | none: sums the journal's tables | free and reserved amounts |
| Bitcoin wallet | `internal/bitcoinwallet` | a light client's wallet, watched contracts, locked inputs | watch, prepare, reserve, broadcast, look up |
| walletd | `internal/walletd` | the QDAY node and wallet (another process) | fund, claim, refund, portable packages |
| wallet files | `internal/app/wallets.go`, `keystore`, `walletroot` | keystore and data directories | setup, import, unlock |

Two applications never talk directly: the relay holds their signed records and
encrypted messages, the two chains hold the money. Within an application the
worker polls the relay, then drives the swaps under `engineMu`; user requests
run beside it under other locks.

What is hard here: the two engines act on the same outputs without any lock
between them; a pass reads the chains and acts on what it read; the program can
stop between any two durable steps; blocks are reorganised and unconfirmed
transactions evicted; deadlines are block heights; a trader may be away for
days; relay requests are retried, so they arrive twice, late, or after the
cancellation that was meant to replace them. What must hold in spite of that:

* swap: nobody pays without being paid; no amount stays locked; a finished
  record tells the truth about the chains; a swap that can finish does;
* journal: phases move only along the phase graph;
* terms: the refund heights of both legs are the agreed ones, in the agreed
  order, and leave time to fund; what was signed stays acceptable;
* relay: one match per order, for an acceptance that is not cancelled; a
  cancellation sticks; queues are bounded; a mailbox can be read in order;
* negotiation: both traders and the relay agree on the match; what was signed
  and can still be used stays reserved, and nothing else does; requests end;
* wallet files: what is installed is one whole wallet and is what runs; a wallet
  in use is not lost, and one with an unfinished swap is not replaced.

## Modules

| module | what it is |
|---|---|
| `SwapPhases` | the journal's phase graph: `validAdvance`, `validRewind` |
| `SwapLegs` | the two chains and the wallets' view of them (external, modelled from its use) |
| `AsyncSwap` | both version 2 engines on one swap, over the two modules above |
| `AtomicSwap` | the abstract promise of a swap, which `AsyncSwap` implements |
| `LegacySwap` | both version 1 engines on one swap, over the same two modules |
| `SwapTerms`, `MCSwapTerms` | the dates and heights of a trade, from its order to its refund heights; a small scale for the run |
| `RelayStore` | the relay's database, one action per transaction |
| `MCRelayStore` | model values and symmetry for the run of `RelayStore` |
| `Negotiation` | the makers' and takers' applications around that relay, up to the agreed match |
| `MCNegotiation` | model values and symmetry for the runs of `Negotiation` |
| `WalletFiles` | setup, import, unlock and lock on the directories of one installation |
| `SwapLegsProofs` | what the two networks guarantee, for both engines' proofs |
| `AsyncSwapProofs` | theorems about `AsyncSwap`: its types, and why it is atomic |
| `OutcomeProofs` | how such a swap ends, and that it implements `AtomicSwap` |
| `LegacySwapProofs` | theorems about `LegacySwap` |
| `SwapTermsProofs` | theorems about `SwapTerms`, with the arithmetic they need |
| `RelayStoreProofs` | theorems about `RelayStore`: its tables, then its queues and mailboxes |
| `NegotiationProofs` | theorems about `Negotiation`, over those of the relay |
| `WalletFilesProofs` | theorems about `WalletFiles` |

### AsyncSwap

A swap has one journal record per trader (`rec`), of which the model keeps what
the engine branches on: the phase, `TakerFundingSubmitted`, and whether
`MakerFunding`, `MakerClaimTemplate` and `RevealedSecret` are set. The taker's
funding is set from the start, because version 2 signs it with the acceptance.

`driveAsyncSwap` is a loop: optional initialisation, the peer's messages, then
up to sixteen turns of refund check and phase. `pc[p]` is the place of trader
`p` in that loop, and there is a place before every effect that leaves the
process or becomes durable separately. So the chains, the relay and the other
trader can act between any two of them, and `Abort` can end the pass there: that
is a crash, a lock of the wallet, or a call to a wallet, node or relay that
failed. What a pass decides from one look at its wallets and writes in one
journal transaction is one action. `FundMakerLeg`, `SaveNotice` and
`SendNotice` are the three steps of `ensureLocalFunding`; `TakerFunding` and
`MarkSubmitted` the two of the first phase; `ClaimMakerLeg`, `ProxyMakerClaim`
and `ObserveTakerClaim` those of the taker's claim. An error return whose only
effect is the end of the pass is a `Quiet /\ Return`.

`poll[p]` is "done" when a whole pass of `p` saw nothing it could act on and
nothing observable has changed since; it keeps the model finite and says when a
trader has looked.

The relay of this module is the two version 2 messages in the order the maker
sends them; `RelayStore` justifies that order (`MailboxInOrder`).

### SwapLegs

Each leg has a funding and its two spends. A transaction is unpublished, in the
pools, mined, or buried. `known[p]` holds the unconfirmed transactions `p`'s
wallets know. `MakerGives` chooses which leg is on which chain. That matters:
the Bitcoin wallet accepts known bytes again, walletd wants the output it spends
to be confirmed and unspent. Confirmation depth is folded into "mined": funding
needs the agreed depth, a claim one block, and a reorganisation in the model can
undo either until the next epoch.

Heights are folded into `epoch`, which advances where a comparison of the engine
changes its answer: 0 while funding may start, 1 when `ensureFundingWindows`
refuses, 2 when the maker's refund is due, 3 when the taker's is. That the
heights come in this order is `EpochsInOrder` of `SwapTerms`. One epoch is
hundreds of blocks, so no pass spans two (`Tick`), and no reorganisation does.
`FirstFunder` says which trader funds first, and so has the later refund: the
taker in version 2, the maker in version 1.

### LegacySwap

`driveSwap` for a version 1 swap, with the conventions of `AsyncSwap`: a place
in `pc` before each effect, `Abort` anywhere, `poll` for a trader that has
looked. The maker owns the secret and funds first. The traders exchange numbered
messages (`Hello`, `Terms`, `Notice`); because a stored message is sent again
byte for byte, what the relay has of a trader is the highest number sent
(`sent`), and what the peer has stored is `got`. `ReadMessages`,
`AcceptAgreement`, `MarkProposed`, `Acknowledge`, `Agree` and `ReadNotice` are
`processPeerMessages`, `StoreProposal` to `SendAgreement` `proposeAgreement`.
The rest is `driveExecution`, phase by phase. A message lives thirty days:
`Lapse` is the end of that. `ApproveSwap` is left out, because new swaps are
approved when they are created and `driveExecution` approves the old ones.

### SwapTerms

One trade as seen by the things that are signed: the dates and heights of the
order (`CreateOffer`), the acceptance (`AcceptOffer`), the match
(`MatchAcceptance`), and in version 1 the hellos. `DatesValid`,
`AcceptanceValid` and `MatchValid` are the verifications, taken at the clock of
whoever verifies; `SubmitAcceptance` and `ConfirmMatch` are the relay's. Amounts,
keys and funding bytes are compared for equality by the code and left out.
`RefundHeights` is the arithmetic of `AsyncRefundHeights` (and, with no span, of
the version 1 agreement), with heights that wrap around at `MaxHeight` and the
wider type that version 2 uses for Bitcoin.

Three clocks may err by `ClockError` and be set at any time; a wallet that says
it is synchronised may miss `Lag` blocks; a chain is never further than `Drift`
from its schedule. `anchor` is where the windows are counted from, `Epoch` where
the chains stand, in the terms of `SwapLegs`: the limits are asked for from the
last to the first, as a chain that is past a later one may be past an earlier
one too. When the heights are final the clocks and dates are forgotten, since no
step reads them any more.

### RelayStore

Every operation is a single bbolt transaction, hence one action. What it answers
is an operator (`SubmitReply`, `CancelAcceptanceReply`, `MatchReply`,
`PublishReply`), in the order of the code's checks. Only the answer "created"
changes the store; the others are repeated requests and errors. Signatures are
abstracted to who can make a record: a cancellation is `<<acceptance, signer>>`,
any identity can sign one for any acceptance, and only its taker's is valid.
It is dated after the acceptance or before (`Dates`); one that came first and
predates its acceptance (`predated`) does not verify when that arrives, and
`SubmitAcceptance` drops it (`mailbox.go:86-93`). The applications here never
sign such a cancellation (`journal.go:255`), but the relay takes one from anyone
who does. Deadlines pass by `ExpireOrder` and `ExpireAcceptance`, in any order
but that no acceptance outlives its order.

### Negotiation

Extends `RelayStore`. A client has two threads, `<<i, "user">>` and
`<<i, "worker">>`, and its journal tables: `pendingAcceptances` with the flags
`relaySubmitted` and `cancellation`, `incomingAcceptances`, `cursor`, and the
swaps, `takerSwaps` and `makerSwaps`, the latter with `relayMatchPending`.
`AcceptOffer` to `MatchIncoming` begin the user's requests. `StartSync` begins
the worker's pass: `reconcileNegotiations` first (`Reconciling`, `Checking`,
`ReconcileIncoming`), then the mailbox item by item (`Join`, `Settled`,
`Receive`). `Accepting`, `Cancelling`, `Releasing`, `Removing`, `Matching` and
`Confirming` are the code that both threads share. `negotiationMu` is the set of
places where a thread has it (`HoldsLock`): all of a user request, and the
reconciliation and `matchAcceptance` of the worker, not its other mailbox steps.

A step is one call of the relay with the journal update that depends on its
answer, or one durable update. `Unanswered` loses the answer and leaves the
request in `wire`, from where it may reach the relay at any later time; `Fail`
is any other error; `Restart` stops both threads. `locked` are the acceptances
whose input is not offered again. `LocksSurvive` says which wallet that is:
walletd keeps a lock on disk, for the swap it was taken for; the Bitcoin wallet
keeps them in memory and by input, so a restart loses them, the next pass takes
them again (`ReserveFunding`), and unlocking an input unlocks it for whatever
acceptance has it then (`Released`). `Matching` has
the wallets' validation fail with any outcome, up to `MaxWalletFaults`, since
`matchAcceptance` cannot tell a bad funding from an unreachable wallet.

One unit of money per trade stands for the amounts, `Coins` for a wallet's
inputs. Left out: version 1 acceptances and withdrawals; orders published by a
late request; the ten pages of a pass, which only shorten it; relayed messages,
which the mailbox loop stores and `AsyncSwap` uses.

Every client compares deadlines with its own clock. `<<i, o>>` is in `passed`
once the clock of `i` has passed the deadline of `o`: together with the relay's
clock (`Deadline`), afterwards if `i` is in `Behind`, or before it if `i` is in
`Ahead` (`ClientDeadline`); the last is also in `early` and uses up one of
`MaxFaults`. `Abandoned`, `Settled`, `Matching`, `TakerReserves` and the checks of
the user's requests read `passed`, the relay reads `late`. A pass of the worker
takes its time once; `Receive` may therefore see an order as open that has
expired since. A clock that lags so far that an order seems to come from the
future only delays its client, and is not modelled.

### WalletFiles

A directory is a set of files, each of them belonging to the wallet of the
request that wrote it: the keystore, the QDAY and the Bitcoin wallet and the
journal. `disk` holds the directories by name: the installed one, `Stage(r)` and
`Replaced(r)`. A request is at a place of `Setup` or `ImportRecovery`; every
rename, every staged file, every removal and each opening or closing of the
components is a step. `section` is the import that holds all of the service's
locks (`wallets.go:567-576`), and `drop` what its deferred calls will remove,
which runs after the locks are released (`CleanUp`). A failing call uses up one
of `MaxFaults`; a removal that fails leaves any part of the directory. `Restart`
keeps the disk and nothing else. `trades` are the wallets whose journals hold an
unfinished swap; one begins in one step while the wallet is open (`BeginTrade`), so
a `Lock` in the middle of a request that begins one only comes before or after.
The removal in `stage` that precedes a rollback is not a step,
because the stage has been renamed by then.

## Runs

`MinedInTime` says whether every published transaction is mined before the next
epoch. `Prompt` lists the traders whose application completes a pass in every
epoch; the others may stay away as long as they like. `MaxAborts` and
`MaxReorgs` bound aborted passes and reorganisations or evictions.

| run | instance | shows |
|---|---|---|
| `absent_maker` | BTC, taker prompt, 1 abort, 2 reorgs | `Atomicity`, `AtomicOutcome`, `SettledAgrees`, `ExpiredUnfunded`, `TemplateBeforeFunding`, `NoLateReveal` |
| `settles` | BTC, both prompt, 1, 1, fair | `BothSettle` |
| `implements` | BTC, taker prompt, 1, 0, fair | refinement of `AtomicSwap!FairSpec`, and `TakerSettles` |
| `legacy` | QDAY, maker prompt, 1, 1, fair | `PresentNeverLose`, `AgreementBeforeFunding`, `SettledAgrees`, `NothingLocked`, `FundedMakerIsPaid` |
| `terms` | blocks of 2 and 3 units, windows of 12 and 30, funding with 6 left, clocks and wallets that err, low heights and heights near the end of the type | `NoEarlyRefund`, `FundableUntilDeadline`, `JournaledIsAcceptable`, `EpochsInOrder` |
| `relay` | 1 order, 2 takers, 2 acceptances each, queue of 1, 2 tombstones, cancellations dated before or after, 2 messages each, 2 candidates per number | exclusion, finality, limits, `MailboxInOrder` |
| `negotiation` | 1 order, 2 takers, queue of 1, clocks that may be ahead, 1 fault | `BindingIsKept`, `OneMatch` |
| `polling` | 1 order, 1 taker, 2 possible matches, forgetful wallet, clocks that may be ahead and the maker's behind, 1 fault, 1 failed validation, fair | `CancellationSettles`, `OffersAreServed`, `MatchesArrive`, `ReservationRestored` |
| `files` | 3 requests, 2 failing calls, 1 stop | `OneWallet`, `RunsWhatIsInstalled`, `KeptUntilReplaced`, `NoBackupIsLeft`, `SwapsKeepTheirWallet` |

The bounds are where the cases are. One aborted pass can fall at every place of
every phase, which is what the recovery code distinguishes; it keeps nothing
about earlier crashes. Two disturbances are enough to take back a funding
together with its spend and then lose it from the pools, or to undo both claims;
what three or more do is said under the findings. In `relay` a queue of one for
two takers is held at its limit by the check of the limit and nothing else; that
each taker waits once follows there, and is proved for every queue. The
tombstones reach their limit too, and two message numbers with two candidates
each show a gap, a repetition and a conflict. In `negotiation` two takers are
what a maker can confuse; the second meets the full queue, so its pass fails
until the order closes. One fault can be a lost answer whose request arrives
after anything, a restart at any place, a failed call, or one clock that passes
the deadline while the relay still matches. Clocks that lag change what is still
attempted, not what is released, so they are in `polling`. In `polling` two
match numbers let a retry be a different match. In `legacy` the maker's leg is
the QDAY one, whose node refuses a second spend. In `terms` the windows keep the
proportions of the code (24 and 48 hours, 6 hours to fund), a block is coarse
enough for every rounding to matter, and the two starts put sums of heights on
both sides of the end of the type. In `files` three requests are a setup and two
imports, or a setup that loses to another; one failure can fall on any call and
the second on any call of the recovery from it, and the stop between any two.
The refinement run has no reorganisations because the abstract swap never takes
a step back; they are covered by `Atomicity` and `AtomicOutcome`.

A settled swap stops, and the relay's and the clients' inputs are finite, so
deadlock is not checked; that nothing stops too early is what the liveness runs
say.

**Fairness.** Weak fairness of each engine: the worker drives every swap again
on a timer, for a trader that keeps the application open. Weak fairness of
delivery: the worker polls the relay on a timer. Weak fairness of the networks:
what is published is mined or gossiped. Weak fairness of the clock: chains
grow. `LegacySwap` has the same; that a message lapses is not fair. Aborts and
disturbances are not fair and bounded. `MakerSettles` is not
claimed for a maker that stays away. In `Negotiation`, a request that has begun
goes on (weak fairness: every call has a timeout), and the worker's pass is
strongly fair, because it polls on a timer and Go's mutex hands the lock to a
waiter that was passed over. The user, deadlines, late requests and faults are
not fair.

### What the code does not do as documented

Three runs are expected to fail; each checks one statement of a document or a
comment.

* `refunding_maker`: in `waiting_for_refund` and `refunding` the engine no
  longer looks for the secret (`engine.go:1477`), although a comment gives the
  claim priority.
* `unfunded_maker`: `maybeStartRefund` expires an unfunded swap from any phase,
  the journal allows it from one; such a maker fails in every pass for ever.
* `stuck_selection`: a maker that withdraws its offer while its worker matches
  it keeps a provisional swap that nothing removes (`service.go:1518`), and the
  amount of the withdrawn offer stays reserved.

More were found by instances of the modules that are not among the runs; each
can be had by changing the constants of a run.

* `AsyncSwap` with `Prompt = {"maker"}`, `NoTakerLoss`: a taker that returns after
  the maker's refund height still claims (`async_engine.go:412`) and completes
  the maker's claim. If the maker's refund wins, the taker has paid and got
  nothing, where `docs/PRODUCT.md:26-28` says "When the taker next opens the
  application, it can claim its side and complete the maker claim. If progress
  stops, each funded side retains its unilateral on-chain refund."
* `AsyncSwap` with `MakerGives = "QDAY"` and the taker prompt, `NoMakerLoss`: a
  taker that stopped between the two claims claims again (`async_engine.go:412`),
  is refused because the output is spent, and never publishes the maker's claim.
  The comment at `async_engine.go:461-463` knows that for the other claim.
* `LegacySwap` with `Prompt = {"taker"}` and `NothingLocked` without its
  `~lapsed`: every version 1 pass first sends the stored hello again
  (`engine.go:768`); after thirty days the relay refuses it and the pass ends
  before the refund check, so a trader that reopens the application then does
  not get its refund, where `docs/PRODUCT.md:91-92` says that each application
  refunds its own contract "automatically when next opened".
* `LegacySwap` with `Prompt = {"taker"}`, `PresentNeverLose`: a taker that has
  begun to refund ignores a late claim by the maker, as in `refunding_maker`.
* `WalletFiles`, `KeptUntilReplaced` without its bound on the faults: when the
  imported wallets do not open and then a rename of the rollback fails, the
  deferred removal deletes the old wallet (`wallets.go:561-565, 631-634`), where
  `docs/PRODUCT.md:50-53` says it is removed "only after the new QDAY and Bitcoin
  wallets open successfully".
* `WalletFiles` with `Overlap = TRUE`: `Setup` takes no lock before its rename. A
  setup that runs between the two renames of an import takes the place of the
  imported wallet, and its late `s.root = &root` (`service.go:457`) puts its own
  recovery phrase over another wallet's components (`RunsWhatIsInstalled`).
* A stop between the two renames of an import leaves no installed directory:
  the application then offers a first setup, and the old wallet remains whole
  under a hidden name that nothing looks for, where `README.md:59-61` says that
  an import "atomically replaces both local wallets". `KeptUntilReplaced` says
  only that it remains.
* `Negotiation` with `Takers = {t}`, `Ahead = {t}`, and `BindingIsKept` without its
  `RanAhead`: a taker whose clock is ahead of the relay's releases its inputs and
  forgets the acceptance when its own clock passes the deadline
  (`service.go:1607`), while the order is open and can still be matched; the next
  offer it accepts may spend the same input. `README.md:51-53` of the repository
  says that the reservation is released only after the relay acknowledges the
  signed cancellation. The comment above the line speaks of a match before the
  deadline, not of one between two clocks' deadlines.
* `Negotiation` with `Ahead = {m, t}`, `MaxFaults = 2`, and `MatchesArrive` without
  its `RanAhead`: the answer to the maker's match is lost, and the maker's clock
  passes the deadline. It drops the incoming acceptance (`service.go:1665-1670`),
  skips the mailbox item (`service.go:1493-1495`), and when the late request is
  committed, nothing completes the provisional swap, though the taker has joined.
* `Negotiation` with the Bitcoin wallet (`LocksSurvive = FALSE`) and two orders: a
  release is repeated when the step from there to the removal of the acceptance
  fails or is stopped (`service.go:1106`). Locks are by input
  (`bitcoinwallet/swap.go:305`), so the second release unlocks an input that
  another signed acceptance may have by then, until the next pass reserves it
  again. `BindingIsKept` without its `LocksSurvive` shows it without a restart.

In version 1 a maker that stops between storing its proposal and the relay's
receipt never sends the agreement again, and a taker that stops between storing
the agreement and advancing acknowledges it but stays `matched`; in both cases
nothing is funded, which is what `AgreementBeforeFunding` and `NothingLocked` see.

`EpochsInOrder` needs the 24 hours between the two windows to be more than four
times `Drift` and the rounding to a block: on the scale of the code each chain
may be about 5.9 hours off schedule. An order may live 30 days, in which a chain
that is one per cent fast gains seven hours.

Some statements hold only as far as their runs say. `ExpiredUnfunded` needs
`MinedInTime`: a taker funding that the maker published, that was not mined
before the window closed and that the taker's wallet never heard of, counts as
not funded (`engine.go:1509`).

The bound of two disturbances in `absent_maker` matters: with three,
`ExpiredUnfunded`, `SettledAgrees` and `AtomicOutcome` fail, and with five
`Atomicity`. The taker's funding is undone by a reorganisation and then evicted
while the maker's template is unread; a taker whose passes all end in a template
they must refuse never publishes its funding again, its journal forgets that it
was submitted (`RewindAfterReorg`), the swap expires (`engine.go:1530`), and the
maker still has the signed funding and may publish it. An expired swap is final,
so that funding is never refunded. If the funding of the taker is never lost by
every node, all of these hold with three disturbances and one abort and with
five and none, and for any number of both they are then theorems.

`BothSettle` needs Bitcoin for the maker's leg when a pass may be aborted,
because of the repeated claim of the taker on QDAY described above.
`BindingIsKept` excepts an acceptance whose taker's own clock has passed the
deadline before the relay's, and no other; `OffersAreServed` and `MatchesArrive`
except an order whose maker's has (`RanAhead`). What happens then is above.
`OffersAreServed` and `MatchesArrive` also except behaviours in which the
wallets' validation failed: an error of it that would pass drops a valid
acceptance for good (`service.go:1506`), and if the user matches that acceptance
at the same moment and the answer is lost, the maker's swap stays provisional
although the relay has the match. The locks of `BindingIsKept` need a wallet
that remembers them; the Bitcoin wallet's are only taken again by the next pass
(`ReservationRestored`), so an offer accepted before it may spend the same
input. An expired acceptance that was matched is not counted as reserved until
its match arrives (`funds.go:147`), though its input is still locked.

## Proofs

Every safety property of a passing run is also a theorem, for every value of the
constants that its hypotheses allow.

| property | theorem | hypotheses |
|---|---|---|
| `TemplateBeforeFunding`, types | `AsyncSwapProofs` | none |
| `Atomicity`, `ExpiredUnfunded`, `NoLateReveal` | `AsyncSwapProofs` | `Attended`, `FundingStays` |
| `SettledAgrees`, `AtomicOutcome` | `OutcomeProofs` | `Attended`, `FundingStays` |
| refinement of `AtomicSwap!Spec` | `OutcomeProofs` | `Attended`, no reorganisation |
| `Atomic`, of the abstract swap | `OutcomeProofs` | none |
| `AgreementBeforeFunding`, `SettledAgrees`, `NothingLocked`, types | `LegacySwapProofs` | none |
| `PresentNeverLose` | `LegacySwapProofs` | a prompt taker has a prompt maker |
| `NoEarlyRefund`, `JournaledIsAcceptable`, types | `SwapTermsProofs` | none |
| `FundableUntilDeadline` | `SwapTermsProofs` | `WindowsAreWide` |
| `EpochsInOrder` | `SwapTermsProofs` | `WindowsAreSeparate` |
| `MatchXorCancel`, `NoRevival`, `OnlyTakerRevokes`, `MatchIsFinal`, `QueueBounded`, `MailboxInOrder`, types | `RelayStoreProofs` | none |
| `OneMatch`, `BindingIsKept`, types | `NegotiationProofs` | none |
| `Binding(a) => Kept(a)` | `NegotiationProofs` | `a`'s taker is not in `Ahead` |
| `OneWallet`, `SwapsKeepTheirWallet`, types | `WalletFilesProofs` | none |
| `RunsWhatIsInstalled`, `KeptUntilReplaced`, `NoBackupIsLeft` | `WalletFilesProofs` | `~Overlap` |

`Attended` is: the maker gives bitcoin, the taker's application runs in every
epoch, what is published is mined in time. `FundingStays`: no disturbance removes
the taker's funding from every node. What happens without either is under the
findings above, and so is what a setup beside an import (`Overlap`) does. Every
hypothesis on constants holds in the run that checks the property, except that
`absent_maker` bounds the disturbances where the theorems ask for
`FundingStays`.

`SwapLegsProofs` holds the lemmas about the chains: a spend excludes its rival and
is not deeper than its funding, whatever is reorganised (`ChainInv`), and what
each step of the networks and of an engine that publishes may change.

`AsyncSwapProofs` proves `TypeOK` and `TemplateBeforeFunding` for every number
of aborts and reorganisations and every choice of prompt traders. That the
template is at the relay before the maker's funding exists is not inductive
either. The taker publishes that funding too, when it reads a notice; so the
invariant adds that a notice is behind the template, and that the maker's
engine is at its funding steps only with the template sent. The lemmas are one
for each shape of step (advance, rewind, publish, quiet return), then one for
each group of actions.

It then proves `Atomicity`, `ExpiredUnfunded` and `NoLateReveal` for any number of
aborts and disturbances and a maker that runs at any time or never. None of the
three says why it holds, so the invariant adds four parts to `ChainInv`.
`MakerInv`: the maker funds once, after the taker's funding is out, and expires
only unfunded. `TakerInv`: the taker claims only with the notice read, which is
behind the template. `EpochInv`: what is decided when an epoch begins, namely
that the taker's funding is buried by the first, its claim by the second and the
maker's by the third, or else that there is no notice and never will be.
`PassInv` bridges an epoch: a pass of the taker that ends with nothing to do has
seen whatever `EpochInv` needs next.

`OutcomeProofs` adds what a pass may report: `RecordInv`, the messages a record
must hold for its phase, and `EndInv`, that a pass in which nothing happened ends
with the truth in the journal, and with the refund on its way when nobody will
ever reveal the secret. `SettledAgrees` and `AtomicOutcome` follow. For the
refinement `CalmInv` says what only a disturbance undoes, that the maker's
funding and the taker's claim are acted on when the ones before them are still
mined; then each step of the networks is shown to be the step of `AtomicSwap` that
its effect on one leg is, and every step of an engine but the taker's claim a
stutter. `Atomic` of the abstract swap follows from the invariant that the secret
decides: before it is public nothing is claimed, afterwards nothing is refunded.

`LegacySwapProofs` proves `AgreementBeforeFunding` from the order of the handshake:
the taker stores the agreement only after the maker, acknowledges it only when it
is stored, and neither engine is at a step of the execution before both have it.
`SettledAgrees` and `NothingLocked` need `SwapInv`, which says of every phase what
is on the chains and in the journal, and of every place of a pass which phases
lead there; and `PassOK`, what a pass that has come so far has seen, so that one
that ends with nothing to do has seen the claim, published the refund or holds the
truth. `PresentNeverLose` needs `PresentInv`, the version 1 form of `EpochInv`:
the taker funds only on the maker's notice, the maker's claim is buried when the
taker may refund, and, with a prompt taker, the taker's when the maker may.
It is proved for a prompt maker alone or with a prompt taker; that a taker that is
present alone may lose is a finding above.

`SwapTermsProofs` is about numbers: a refund height is a quotient rounded up, added
to a height that a wallet reported, in a type that wraps around. `Typed` says that
no sum that wraps is agreed on, since the code rejects one that it can see, and
one that an order's lifetime and a window can reach it sees (`TermsAssumption`);
`Known`, that no
announced height is ahead of its chain and the chains are on schedule; `Dated`,
what the dates are at each stage, so that an acceptance stays verifiable as it
goes from the client to the relay; `Bounded`, when the two refund heights come, as
seen from `anchor`. `WindowsAreWide` says that a window, less `Lag` and the blocks
that must remain, takes longer than twice the errors of the clocks and chains;
`WindowsAreSeparate`, that the windows differ by more than `Lag` and four drifts
and two clock errors. In the code (windows of 24 and 48 hours, 6 hours to fund)
that is, before `Lag`, errors of 9 hours together for the first, and a drift of
5.9 hours for the second.

`RelayStoreProofs` proves, for all identities, orders and limits, that a match
excludes a cancellation, that a cancelled acceptance is not revived, that only
its taker revokes it, and that a match is final. The four support each other:
the invariant is their conjunction with the types and with "no match without
the status". `MatchExcludesCancel` needs the check in both directions
(`Selected` in one operation, `Tombstoned` in two). For `QueueBounded` it adds the
finiteness of the queues, that `Cardinality` needs. For `MailboxInOrder` each item
is followed from the transaction that appends it: the record it names is in the
store, and the items it depends on are in the same mailbox before it.

`NegotiationProofs` proves `NegotiationTypeOK`, `OneMatch` and `BindingIsKept`
for every number of traders, orders and coins, whichever clocks are ahead or
behind, for both kinds of wallet and any number of lost answers, late requests,
failed calls and restarts. What a client holds is only safe because of what is
still under way, so the invariant speaks of that: an acceptance the relay has,
or may get from a thread, a worker's list or the network (`Underway`), is in its
taker's journal unless no match of it can win any more or the taker's clock ran
ahead (`Over`); in `wire` there is only a match that is journaled or whose
acceptance is cancelled; what is being released or removed is over; what is
being signed was never under way. `Places` and `Exclusive` are the control: who
can be where with which acceptance, and that `negotiationMu` excludes. Most of
the proof is that the relay never takes back what `Over` rests on (`Onward`).
`ClocksInv` keeps the account of the deadlines: one that has passed for a client
has passed for the relay, or is in `early`, which only a client in `Ahead` is.
So a taker that releases because of its own clock (`Abandoned`) does so after
the relay closed the order, or is the exception; `HeldUnlessAhead` is the
statement without exception for the takers whose clocks are not ahead.
`StoreImplemented` proves that every step of the clients and of the network is a
step of `RelayStore`, so that the theorems about the store hold in the
negotiation.

`WalletFilesProofs` proves `OneWallet` and `SwapsKeepTheirWallet` with an invariant
that says for every request that has moved a directory where the old and the new
one are at that moment, that an open wallet is an installed one, and that no trade
begins while a section has the locks. For the other three properties `Alone` keeps
setups out of an import. `Tidy` says of a request at each place which of its
directories exist, which it will still remove, and how many calls must have failed
if it has given one up; `SafeInv`, that with one failure at most every wallet in
use is whole in a directory that nobody is about to remove, except a request that
first moves it back or opens its replacement (`Deciding`). The deferred removals
run after the locks are gone, which is why the invariant speaks of `drop` and not
of who has the locks.

Assumptions on the constants: `ConstantsAssumption`, `LegacyAssumption`,
`LimitsAssumption`, `ClientAssumption` and `FilesAssumption` give them types;
`TermsAssumption` also says that a window and an order's life fit the height
types. Everything else a theorem assumes is in its statement. Only
model-checked: what needs fairness (`BothSettle`, `TakerSettles`,
`FundedMakerIsPaid`, `CancellationSettles`, `OffersAreServed`, `MatchesArrive`,
`ReservationRestored`, and the liveness of `AtomicSwap!FairSpec` in the
refinement), which is outside the prover, and the three statements that the code
does not meet.

## Plan

Done: the phase graph, both swap engines and the abstraction of the second, the
terms of a trade, the relay store, the negotiation around it, the wallet files,
and the proofs above. Left, in this order:

1. `JournalActions`: prepare, broadcast, confirm and reorganise an action of the
   journal, with `WatchContract` and the input reservations of the Bitcoin wallet.
2. A run of the negotiation on two orders, whose inputs and promises meet and of
   which one may hold up the other, and messages that expire. The proofs cover
   any number of orders already; what they do not cover is which input is free.
3. The refinement of `AtomicSwap` proved with reorganisations, for an abstract swap
   that may take steps back.
4. `Setup` and `Unlock` against `CreateOffer`, which reads the wallet under two
   holds of a lock.

### Not modelled

* Withdrawals: one call of a wallet under two locks. What could go wrong is that
  a repeated request pays twice, and the guard is a table in memory; the hazard
  is listed, and the model would restate the table.
* The relay's HTTP layer and client: a request is answered, refused, or lost,
  which is what `Negotiation` has of it. Rate limits and sizes are not protocol
  state.
* The Bitcoin light-client manager and the supervision of walletd: processes and
  sockets. `SwapLegs` has what an engine sees of them: a call fails, a wallet
  does not know of a transaction yet.
* Cryptography, encodings and contract scripts: who can make a record or a spend
  is an assumption of the modules that use them.
* The user interface, prices, logging and the commands.
