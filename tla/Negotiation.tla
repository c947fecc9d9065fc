---------------------------- MODULE Negotiation ----------------------------
(***************************************************************************)
(* How two installed applications come from an order to one agreed match   *)
(* (internal/app/service.go, funds.go, internal/swapstate/journal.go): the *)
(* maker's and the takers' clients around the relay of RelayStore.         *)
(*                                                                         *)
(* A client has two threads, the user's requests and the worker that polls *)
(* the relay.  The steps that hold negotiationMu exclude each other; the   *)
(* worker's work on its mailbox does not hold it.  A step is one call of   *)
(* the relay with the journal update that depends on its answer, or one    *)
(* durable update.  A call whose answer does not come may still reach the  *)
(* relay at any later time (wire).                                         *)
(*                                                                         *)
(* All trades are of protocol version 2, whose acceptances expire with     *)
(* their order.  A client compares that deadline with its own clock, which *)
(* may be ahead of the relay's or behind it.                               *)
(***************************************************************************)
EXTENDS RelayStore

CONSTANTS
    Coins,              \* inputs of each wallet, each good for one trade
    Ahead, Behind,      \* identities whose clock may be ahead of the relay's, or
                        \* behind it; a pass that takes long works with an old time
    LocksSurvive,       \* walletd: locks are kept on disk, by swap; else the Bitcoin
                        \* wallet's, kept in memory, by input
    MaxFaults,          \* bound on lost answers, failed calls, restarts and deadlines
                        \* that pass too early
    MaxWalletFaults     \* bound on failures of the QDAY wallet's validation

ASSUME ClientAssumption ==
    /\ Coins \in SUBSET (Nat \ {0})
    /\ Ahead \in SUBSET Identities
    /\ Behind \in SUBSET Identities
    /\ LocksSurvive \in BOOLEAN
    /\ MaxFaults \in Nat
    /\ MaxWalletFaults \in Nat

Threads == Identities \X {"user", "worker"}
Client(x) == x[1]
IsWorker(x) == x[2] = "worker"

VARIABLES
    pendingAcceptances,     \* the takers' journals: acceptances awaiting a match
    relaySubmitted,         \* of these, acknowledged by the relay
    cancellation,           \* of these, with a signed cancellation
    takerSwaps,             \* matches the takers' journals hold a swap for
    incomingAcceptances,    \* the makers' journals: acceptances received
    makerSwaps,             \* matches the makers' journals hold a swap for
    relayMatchPending,      \* of these, provisional
    cursor,                 \* cursor[i]: mailbox items i has worked through
    funding,                \* funding[a]: the input a's signed funding spends
    locked,                 \* acceptances whose input their wallet does not offer again
    pc, at,                 \* place of a thread, and the acceptance it is about
    todo,                   \* todo[i]: acceptances the worker has yet to reconcile
    wire,                   \* requests given up by their client
    faults, walletFaults,
    passed,                 \* <<i, o>>: the clock of i has passed the deadline of o
    early                   \* of these, before the relay's clock did

journalVars == <<pendingAcceptances, relaySubmitted, cancellation, takerSwaps,
                 incomingAcceptances, makerSwaps, relayMatchPending, cursor>>
walletVars == <<funding, locked>>
faultVars == <<wire, faults, walletFaults, passed, early>>
vars == <<storeVars, journalVars, walletVars, pc, at, todo, faultVars>>

NegotiationInit ==
    /\ Init
    /\ pendingAcceptances = {}
    /\ relaySubmitted = {}
    /\ cancellation = {}
    /\ takerSwaps = {}
    /\ incomingAcceptances = {}
    /\ makerSwaps = {}
    /\ relayMatchPending = {}
    /\ cursor = [i \in Identities |-> 0]
    /\ funding = [a \in Acceptances |-> 0]
    /\ locked = {}
    /\ pc = [x \in Threads |-> "idle"]
    /\ at = [x \in Threads |-> <<>>]
    /\ todo = [i \in Identities |-> {}]
    /\ wire = {}
    /\ faults = 0
    /\ walletFaults = 0
    /\ passed = {}
    /\ early = {}

-----------------------------------------------------------------------------
(* Threads and the lock of the negotiation *)

MailboxSteps == {"polling", "joined", "received", "handled", "advancing"}
Steps == MailboxSteps \cup
    {"idle", "prepared", "accepting", "cancelling", "releasing", "removing",
     "reconciling", "checking", "matching", "confirming"}

HoldsLock(x) == pc[x] # "idle" /\ ~(IsWorker(x) /\ pc[x] \in MailboxSteps)

LockFree(i) == ~ \E x \in Threads : Client(x) = i /\ HoldsLock(x)

Goto(x, step, a) ==
    /\ pc' = [pc EXCEPT ![x] = step]
    /\ at' = [at EXCEPT ![x] = a]

\* The request or the pass of the worker ends.
Stop(x) ==
    /\ Goto(x, "idle", <<>>)
    /\ todo' = IF IsWorker(x) THEN [todo EXCEPT ![Client(x)] = {}] ELSE todo

\* Done with one acceptance: the worker goes on with the others.
Done(x) ==
    IF IsWorker(x) THEN Goto(x, "reconciling", <<>>) /\ UNCHANGED todo ELSE Stop(x)

-----------------------------------------------------------------------------
(* The journals *)

\* The deadline of o has passed on the clock of i.
Passed(i, o) == <<i, o>> \in passed

SwapOf(swaps, a) == {m \in swaps : m[1] = a}

\* Mutant of RemovePending: the acceptance leaves the journal's table only.
HidePending(a) ==
    /\ pendingAcceptances' = pendingAcceptances \ {a}
    /\ UNCHANGED <<relaySubmitted, cancellation>>

RemovePending(a) ==
    /\ pendingAcceptances' = pendingAcceptances \ {a}
    /\ relaySubmitted' = relaySubmitted \ {a}
    /\ cancellation' = cancellation \ {a}

\* Another match of the same acceptance is journaled already.
Conflicts(swaps, m) == SwapOf(swaps, m[1]) \ {m} # {}

\* The amounts the client does not offer again: its open orders and its
\* unfunded swaps, its acceptances that have not expired.
MakerReserves(i) ==
    {o \in Orders : MakerOf(o) = i /\ (IsOpen(o) \/ \E m \in makerSwaps : OrderOf(m[1]) = o)}
TakerReserves(i) ==
    {a \in Acceptances : TakerOf(a) = i /\
        (\/ a \in pendingAcceptances /\ ~Passed(i, OrderOf(a))
         \/ SwapOf(takerSwaps, a) # {})}

\* An offer that the relay lists and the own clock holds expired is an error.
CanPromise(i) ==
    /\ ~ \E o \in Orders : MakerOf(o) = i /\ IsOpen(o) /\ Passed(i, o)
    /\ Cardinality(MakerReserves(i)) + Cardinality(TakerReserves(i)) < Cardinality(Coins)

-----------------------------------------------------------------------------
(* Calls of the relay that change it *)

Requests == [op : {"accept", "cancel"}, of : Acceptances] \cup [op : {"match"}, of : Matches]

\* The request a waiting thread sends.
RequestOf(x) ==
    CASE pc[x] = "accepting"  -> [op |-> "accept", of |-> at[x]]
      [] pc[x] = "cancelling" -> [op |-> "cancel", of |-> at[x]]
      [] pc[x] = "confirming" ->
            [op |-> "match", of |-> CHOOSE m \in SwapOf(makerSwaps, at[x]) : TRUE]

Reply(r) ==
    CASE r.op = "accept" -> SubmitReply(r.of)
      [] r.op = "cancel" -> CancelAcceptanceReply(r.of, TakerOf(r.of), "after")
      [] r.op = "match"  -> MatchReply(r.of)

Serve(r) ==
    \/ r.op = "accept" /\ SubmitAcceptance(r.of)
    \/ r.op = "cancel" /\ CancelAcceptance(r.of, TakerOf(r.of), "after")
    \/ r.op = "match" /\ ConfirmMatch(r.of)
    \/ Reply(r) # "created" /\ UNCHANGED storeVars

\* Mutant of Acknowledged: a conflict counts as an acknowledgement.
AnsweredAtAll(r) == Reply(r) # "limit"

Acknowledged(r) == Reply(r) \in {"created", "known"}

-----------------------------------------------------------------------------
(* The user *)

CreateOffer(o) ==
    /\ CanPromise(MakerOf(o))
    /\ ~Passed(MakerOf(o), o)
    /\ Publish(o)
    /\ UNCHANGED <<journalVars, walletVars, pc, at, todo, faultVars>>

CancelOffer(o) ==
    /\ ~Passed(MakerOf(o), o)
    /\ Cancel(o)
    /\ UNCHANGED <<journalVars, walletVars, pc, at, todo, faultVars>>

Begins(x) == pc[x] = "idle" /\ LockFree(Client(x))

\* A second click sends the journaled acceptance again.
ResendAcceptance(t, a) ==
    /\ a \in pendingAcceptances
    /\ TakerOf(a) = t
    /\ IsOpen(OrderOf(a))
    /\ ~Passed(t, OrderOf(a))
    /\ Begins(<<t, "user">>)
    /\ Goto(<<t, "user">>, "accepting", a)
    /\ UNCHANGED <<storeVars, journalVars, walletVars, todo, faultVars>>

\* A new acceptance, its funding signed and the inputs locked.
AcceptOffer(t, a, input) ==
    /\ TakerOf(a) = t
    /\ IsOpen(OrderOf(a))
    /\ ~Passed(t, OrderOf(a))
    /\ Begins(<<t, "user">>)
    /\ ~ \E b \in pendingAcceptances : TakerOf(b) = t /\ OrderOf(b) = OrderOf(a)
    /\ CanPromise(t)
    /\ funding[a] = 0
    /\ ~ \E b \in locked : TakerOf(b) = t /\ funding[b] = input
    /\ funding' = [funding EXCEPT ![a] = input]
    /\ locked' = locked \cup {a}
    /\ Goto(<<t, "user">>, "prepared", a)
    /\ UNCHANGED <<storeVars, journalVars, todo, faultVars>>

\* The signed acceptance is durable before the relay hears of it.
SavePending(x) ==
    /\ pc[x] = "prepared"
    /\ pendingAcceptances' = pendingAcceptances \cup {at[x]}
    /\ Goto(x, "accepting", at[x])
    /\ UNCHANGED <<storeVars, relaySubmitted, cancellation, takerSwaps,
                   incomingAcceptances, makerSwaps, relayMatchPending, cursor,
                   walletVars, todo, faultVars>>

\* The signed cancellation is durable before the relay hears of it.
CancelPending(t, a) ==
    /\ a \in pendingAcceptances
    /\ TakerOf(a) = t
    /\ Begins(<<t, "user">>)
    /\ cancellation' = cancellation \cup {a}
    /\ Goto(<<t, "user">>, "cancelling", a)
    /\ UNCHANGED <<storeVars, pendingAcceptances, relaySubmitted, takerSwaps,
                   incomingAcceptances, makerSwaps, relayMatchPending, cursor,
                   walletVars, todo, faultVars>>

\* The maker asks to match an acceptance it received.
MatchIncoming(i, a) ==
    /\ a \in incomingAcceptances
    /\ MakerOf(OrderOf(a)) = i
    /\ Begins(<<i, "user">>)
    /\ Goto(<<i, "user">>, "matching", a)
    /\ UNCHANGED <<storeVars, journalVars, walletVars, todo, faultVars>>

UserRequest ==
    \/ \E o \in Orders : CreateOffer(o) \/ CancelOffer(o)
    \/ \E t \in Takers, a \in Acceptances :
          \/ ResendAcceptance(t, a)
          \/ CancelPending(t, a)
          \/ \E input \in Coins : AcceptOffer(t, a, input)
    \/ \E i \in Makers, a \in Acceptances : MatchIncoming(i, a)

-----------------------------------------------------------------------------
(* Steps of a request or of the worker's pass *)

\* Mutant of ReserveFunding: nothing restores the locks a restart has lost.
ReserveNothing(a) == UNCHANGED locked

\* Only the Bitcoin wallet needs, and gets, its locks again.
ReserveFunding(a) == locked' = IF LocksSurvive THEN locked ELSE locked \cup {a}

\* What is unlocked with a: the Bitcoin wallet does not know whose lock it is.
Released(a) ==
    IF LocksSurvive
    THEN {a}
    ELSE {b \in Acceptances : TakerOf(b) = TakerOf(a) /\ funding[b] = funding[a]}

\* Where an answered submission leads: acknowledged, or revoked meanwhile.
Accepting(x) ==
    LET a == at[x] IN
    /\ pc[x] = "accepting"
    /\ Serve(RequestOf(x))
    /\ IF Acknowledged(RequestOf(x))
       THEN /\ relaySubmitted' = relaySubmitted \cup ({a} \cap pendingAcceptances)
            /\ IF IsWorker(x) THEN ReserveFunding(a) ELSE UNCHANGED locked
            /\ Done(x)
       ELSE /\ IF Reply(RequestOf(x)) = "cancelled" /\ IsWorker(x)
               THEN Goto(x, "releasing", a) /\ UNCHANGED todo
               ELSE Stop(x)
            /\ UNCHANGED <<relaySubmitted, locked>>
    /\ UNCHANGED <<pendingAcceptances, cancellation, takerSwaps, incomingAcceptances,
                   makerSwaps, relayMatchPending, cursor, funding, faultVars>>

\* A match that won cannot be cancelled: the worker keeps the acceptance.
Cancelling(x) ==
    /\ pc[x] = "cancelling"
    /\ Serve(RequestOf(x))
    /\ IF Acknowledged(RequestOf(x)) THEN Goto(x, "releasing", at[x]) /\ UNCHANGED todo
       ELSE IF Reply(RequestOf(x)) = "matched" /\ IsWorker(x)
            THEN Goto(x, "checking", at[x]) /\ UNCHANGED todo
            ELSE Stop(x)
    /\ UNCHANGED <<journalVars, walletVars, faultVars>>

Releasing(x) ==
    /\ pc[x] = "releasing"
    /\ locked' = locked \ Released(at[x])
    /\ Goto(x, "removing", at[x])
    /\ UNCHANGED <<storeVars, journalVars, funding, todo, faultVars>>

Removing(x) ==
    /\ pc[x] = "removing"
    /\ RemovePending(at[x])
    /\ Done(x)
    /\ UNCHANGED <<storeVars, takerSwaps, incomingAcceptances, makerSwaps,
                   relayMatchPending, cursor, walletVars, faultVars>>

-----------------------------------------------------------------------------
(* The worker reconciles its journal with the relay *)

PendingOf(i) == {a \in pendingAcceptances : TakerOf(a) = i}
IncomingOf(i) == {a \in incomingAcceptances : MakerOf(OrderOf(a)) = i}
HasMail(i) == cursor[i] < Len(mailbox[i])

\* A pass with nothing to look at would change nothing, and is left out.
StartSync(x) ==
    /\ IsWorker(x)
    /\ Begins(x)
    /\ PendingOf(Client(x)) # {} \/ IncomingOf(Client(x)) # {} \/ HasMail(Client(x))
    /\ Goto(x, "reconciling", <<>>)
    /\ todo' = [todo EXCEPT ![Client(x)] = PendingOf(Client(x))]
    /\ UNCHANGED <<storeVars, journalVars, walletVars, faultVars>>

\* Mutant of CancelsFirst: a cancellation is only sent once, by the user.
NeverSentAgain(a) == FALSE

CancelsFirst(a) == a \in cancellation

Reconciling(x) ==
    /\ pc[x] = "reconciling"
    /\ \E a \in todo[Client(x)] :
          /\ todo' = [todo EXCEPT ![Client(x)] = @ \ {a}]
          /\ Goto(x, IF CancelsFirst(a) THEN "cancelling" ELSE "checking", a)
    /\ UNCHANGED <<storeVars, journalVars, walletVars, faultVars>>

\* Mutant of Abandoned: a match committed before the deadline is not looked for.
AbandonedUnseen(i, a) == ~IsOpen(OrderOf(a)) \/ Passed(i, OrderOf(a))

\* For client i: the order closed, or expired on either clock, without
\* selecting a.
Abandoned(i, a) == ~Selected(a) /\ (~IsOpen(OrderOf(a)) \/ Passed(i, OrderOf(a)))

Checking(x) ==
    LET a == at[x] IN
    /\ pc[x] = "checking"
    /\ IF Abandoned(Client(x), a)
       THEN Goto(x, "releasing", a) /\ UNCHANGED <<todo, locked>>
       ELSE IF IsOpen(OrderOf(a)) /\ a \notin relaySubmitted
       THEN Goto(x, "accepting", a) /\ UNCHANGED <<todo, locked>>
       ELSE ReserveFunding(a) /\ Done(x)
    /\ UNCHANGED <<storeVars, journalVars, funding, faultVars>>

ReconcileIncoming(x) ==
    /\ pc[x] = "reconciling"
    /\ todo[Client(x)] = {}
    /\ incomingAcceptances' =
          incomingAcceptances \ {a \in IncomingOf(Client(x)) : Abandoned(Client(x), a)}
    /\ Goto(x, "polling", <<>>)
    /\ UNCHANGED <<storeVars, pendingAcceptances, relaySubmitted, cancellation,
                   takerSwaps, makerSwaps, relayMatchPending, cursor, walletVars,
                   todo, faultVars>>

-----------------------------------------------------------------------------
(* The worker works through its mailbox *)

Item(i) == mailbox[i][cursor[i] + 1]

MailboxEmpty(x) ==
    /\ pc[x] = "polling"
    /\ ~HasMail(Client(x))
    /\ Stop(x)
    /\ UNCHANGED <<storeVars, journalVars, walletVars, faultVars>>

\* A match for this taker: its swap is journaled.
Join(x) ==
    LET chosen == Item(Client(x)).item IN
    /\ pc[x] = "polling"
    /\ HasMail(Client(x))
    /\ Item(Client(x)).kind = "match"
    /\ IF Conflicts(takerSwaps, chosen)
       THEN Stop(x) /\ UNCHANGED takerSwaps
       ELSE /\ takerSwaps' = takerSwaps \cup {chosen}
            /\ Goto(x, "joined", chosen[1])
            /\ UNCHANGED todo
    /\ UNCHANGED <<storeVars, pendingAcceptances, relaySubmitted, cancellation,
                   incomingAcceptances, makerSwaps, relayMatchPending, cursor,
                   walletVars, faultVars>>

Joined(x) ==
    /\ pc[x] = "joined"
    /\ RemovePending(at[x])
    /\ Goto(x, "advancing", <<>>)
    /\ UNCHANGED <<storeVars, takerSwaps, incomingAcceptances, makerSwaps,
                   relayMatchPending, cursor, walletVars, todo, faultVars>>

\* An acceptance whose order the relay no longer offers, or whose deadline has
\* passed here.
Settled(x) ==
    LET a == Item(Client(x)).item
        o == OrderOf(a)
        chosen == match[o]
    IN
    /\ pc[x] = "polling"
    /\ HasMail(Client(x))
    /\ Item(Client(x)).kind = "acceptance"
    /\ ~IsOpen(o) \/ Passed(Client(x), o)
    /\ \/ /\ Selected(a)
          /\ IF Conflicts(makerSwaps, chosen)
             THEN Stop(x) /\ UNCHANGED <<makerSwaps, relayMatchPending>>
             ELSE /\ makerSwaps' = makerSwaps \cup {chosen}
                  /\ relayMatchPending' = relayMatchPending \ {chosen}
                  /\ Goto(x, "handled", a)
                  /\ UNCHANGED todo
       \/ /\ ~Selected(a)
          /\ Goto(x, IF status[o] = "matched" THEN "handled" ELSE "advancing", a)
          /\ UNCHANGED <<makerSwaps, relayMatchPending, todo>>
    /\ UNCHANGED <<storeVars, pendingAcceptances, relaySubmitted, cancellation,
                   takerSwaps, incomingAcceptances, cursor, walletVars, faultVars>>

\* Mutant of Receive: the cursor is saved before the acceptance is dealt with.
ReceiveAndAdvance(x) ==
    LET a == Item(Client(x)).item IN
    /\ pc[x] = "polling"
    /\ HasMail(Client(x))
    /\ Item(Client(x)).kind = "acceptance"
    /\ IsOpen(OrderOf(a))
    /\ incomingAcceptances' = incomingAcceptances \cup {a}
    /\ cursor' = [cursor EXCEPT ![Client(x)] = @ + 1]
    /\ Goto(x, "received", a)
    /\ UNCHANGED <<storeVars, pendingAcceptances, relaySubmitted, cancellation,
                   takerSwaps, makerSwaps, relayMatchPending, walletVars, todo,
                   faultVars>>

\* An acceptance of an open order is journaled, then matched under the lock.
\* The order was read before, and so was the time: either may be out of date.
\* The user may have the lock, and match the acceptance, in between.
Receive(x) ==
    LET a == Item(Client(x)).item IN
    /\ pc[x] = "polling"
    /\ HasMail(Client(x))
    /\ Item(Client(x)).kind = "acceptance"
    /\ incomingAcceptances' = incomingAcceptances \cup {a}
    /\ Goto(x, "received", a)
    /\ UNCHANGED <<storeVars, pendingAcceptances, relaySubmitted, cancellation,
                   takerSwaps, makerSwaps, relayMatchPending, cursor, walletVars,
                   todo, faultVars>>

Received(x) ==
    /\ pc[x] = "received"
    /\ LockFree(Client(x))
    /\ Goto(x, "matching", at[x])
    /\ UNCHANGED <<storeVars, journalVars, walletVars, todo, faultVars>>

\* The acceptance is dealt with.
Handled(x) ==
    /\ pc[x] = "handled"
    /\ incomingAcceptances' = incomingAcceptances \ {at[x]}
    /\ IF IsWorker(x) THEN Goto(x, "advancing", <<>>) /\ UNCHANGED todo ELSE Stop(x)
    /\ UNCHANGED <<storeVars, pendingAcceptances, relaySubmitted, cancellation,
                   takerSwaps, makerSwaps, relayMatchPending, cursor, walletVars,
                   faultVars>>

\* The item at the cursor is dealt with.
Advancing(x) ==
    /\ pc[x] = "advancing"
    /\ cursor' = [cursor EXCEPT ![Client(x)] = @ + 1]
    /\ Goto(x, "polling", <<>>)
    /\ UNCHANGED <<storeVars, pendingAcceptances, relaySubmitted, cancellation,
                   takerSwaps, incomingAcceptances, makerSwaps, relayMatchPending,
                   walletVars, todo, faultVars>>

-----------------------------------------------------------------------------
(* Matching, for the worker and for the user *)

\* Mutant of Journaled: a retry signs its match anew.
JournaledNever(a) == FALSE

\* A match of a was signed before and is sent again.
Journaled(a) == SwapOf(makerSwaps, a) # {}

\* The signed match is durable, as a provisional swap, before the relay hears
\* of it.
Matching(x) ==
    LET a == at[x] IN
    /\ pc[x] = "matching"
    /\ IF a \notin incomingAcceptances THEN Stop(x) /\ UNCHANGED <<makerSwaps, relayMatchPending, walletFaults>>
       ELSE IF Journaled(a)
       THEN Goto(x, "confirming", a) /\ UNCHANGED <<makerSwaps, relayMatchPending, todo, walletFaults>>
       ELSE \/ /\ ~Passed(Client(x), OrderOf(a))
               /\ \E n \in MatchNumbers :
                     /\ makerSwaps' = makerSwaps \cup {<<a, n>>}
                     /\ relayMatchPending' = relayMatchPending \cup {<<a, n>>}
               /\ Goto(x, "confirming", a)
               /\ UNCHANGED <<todo, walletFaults>>
            \/ /\ Passed(Client(x), OrderOf(a))
               /\ Stop(x)
               /\ UNCHANGED <<makerSwaps, relayMatchPending, walletFaults>>
            \* Any error of the wallet's validation counts as a bad funding.
            \/ /\ walletFaults < MaxWalletFaults
               /\ walletFaults' = walletFaults + 1
               /\ IF IsWorker(x) THEN Goto(x, "handled", a) /\ UNCHANGED todo ELSE Stop(x)
               /\ UNCHANGED <<makerSwaps, relayMatchPending>>
    /\ UNCHANGED <<storeVars, pendingAcceptances, relaySubmitted, cancellation,
                   takerSwaps, incomingAcceptances, cursor, walletVars, wire, faults,
                   passed, early>>

Confirming(x) ==
    LET a == at[x]
        chosen == RequestOf(x).of
    IN
    /\ pc[x] = "confirming"
    /\ Serve(RequestOf(x))
    /\ IF Acknowledged(RequestOf(x))
       THEN /\ relayMatchPending' = relayMatchPending \ {chosen}
            /\ Goto(x, "handled", a)
            /\ UNCHANGED <<makerSwaps, todo>>
       ELSE IF Reply(RequestOf(x)) = "cancelled" /\ IsWorker(x) /\ chosen \in relayMatchPending
       THEN /\ makerSwaps' = makerSwaps \ {chosen}
            /\ relayMatchPending' = relayMatchPending \ {chosen}
            /\ Goto(x, "handled", a)
            /\ UNCHANGED todo
       ELSE Stop(x) /\ UNCHANGED <<makerSwaps, relayMatchPending>>
    /\ UNCHANGED <<pendingAcceptances, relaySubmitted, cancellation, takerSwaps,
                   incomingAcceptances, cursor, walletVars, faultVars>>

-----------------------------------------------------------------------------
(* What goes wrong *)

\* No answer came; the request may have been, or may yet be, served.
Unanswered(x) ==
    /\ pc[x] \in {"accepting", "cancelling", "confirming"}
    /\ faults < MaxFaults
    /\ faults' = faults + 1
    /\ wire' = wire \cup {RequestOf(x)}
    /\ Stop(x)
    /\ UNCHANGED <<storeVars, journalVars, walletVars, walletFaults, passed, early>>

\* A late request reaches the relay; nobody hears the answer.
Deliver(r) ==
    /\ r \in wire
    /\ wire' = wire \ {r}
    /\ Serve(r)
    /\ UNCHANGED <<journalVars, walletVars, pc, at, todo, faults, walletFaults,
                   passed, early>>

\* Another call fails.  A new acceptance that was not saved unlocks its inputs.
Fail(x) ==
    /\ pc[x] # "idle"
    /\ faults < MaxFaults
    /\ faults' = faults + 1
    /\ locked' = IF pc[x] = "prepared" THEN locked \ Released(at[x]) ELSE locked
    /\ Stop(x)
    /\ UNCHANGED <<storeVars, journalVars, funding, wire, walletFaults, passed,
                   early>>

\* The application of i stops and starts again.
Restart(i) ==
    /\ faults < MaxFaults
    /\ faults' = faults + 1
    /\ pc' = [x \in Threads |-> IF Client(x) = i THEN "idle" ELSE pc[x]]
    /\ at' = [x \in Threads |-> IF Client(x) = i THEN <<>> ELSE at[x]]
    /\ todo' = [todo EXCEPT ![i] = {}]
    /\ locked' = IF LocksSurvive THEN locked ELSE {a \in locked : TakerOf(a) # i}
    /\ UNCHANGED <<storeVars, journalVars, funding, wire, walletFaults, passed,
                   early>>

\* The deadline of o on the relay's clock, and on those that agree with it.
Deadline(o) ==
    /\ ExpireOrder(o)
    /\ passed' = passed \cup ((Identities \ Behind) \X {o})
    /\ UNCHANGED <<journalVars, walletVars, pc, at, todo, wire, faults, walletFaults, early>>

\* The clock of i passes the deadline of o after the relay's, or before it.
ClientDeadline(i, o) ==
    /\ status[o] # "none"
    /\ ~Passed(i, o)
    /\ passed' = passed \cup {<<i, o>>}
    /\ \/ /\ o \in late
          /\ UNCHANGED <<faults, early>>
       \/ /\ o \notin late
          /\ i \in Ahead
          /\ faults < MaxFaults
          /\ faults' = faults + 1
          /\ early' = early \cup {<<i, o>>}
    /\ UNCHANGED <<storeVars, journalVars, walletVars, pc, at, todo, wire, walletFaults>>

-----------------------------------------------------------------------------
RequestStep(x) ==
    \/ SavePending(x) \/ Accepting(x) \/ Cancelling(x) \/ Releasing(x) \/ Removing(x)
    \/ Matching(x) \/ Confirming(x) \/ Handled(x)

MailboxStep(x) ==
    \/ MailboxEmpty(x) \/ Join(x) \/ Joined(x) \/ Settled(x)
    \/ Receive(x) \/ Received(x) \/ Advancing(x)

SyncStep(x) ==
    \/ StartSync(x) \/ Reconciling(x) \/ Checking(x) \/ ReconcileIncoming(x)
    \/ MailboxStep(x)

NegotiationNext ==
    \/ UserRequest
    \/ \E x \in Threads : RequestStep(x)
    \/ \E x \in Threads : SyncStep(x)
    \/ \E x \in Threads : Unanswered(x) \/ Fail(x)
    \/ \E r \in wire : Deliver(r)
    \/ \E i \in Identities : Restart(i)
    \/ \E o \in Orders : Deadline(o)
    \/ \E i \in Identities, o \in Orders : ClientDeadline(i, o)

NegotiationSpec == NegotiationInit /\ [][NegotiationNext]_vars

\* Requests run to their end, and the worker polls on a timer; what waits for
\* the lock gets it.
NegotiationFairness ==
    /\ \A x \in Threads : WF_vars(RequestStep(x))
    /\ \A x \in Identities \X {"worker"} : SF_vars(SyncStep(x))

NegotiationFairSpec == NegotiationSpec /\ NegotiationFairness

-----------------------------------------------------------------------------
NegotiationTypeOK ==
    /\ TypeOK
    /\ pendingAcceptances \in SUBSET Acceptances
    /\ relaySubmitted \in SUBSET pendingAcceptances
    /\ cancellation \in SUBSET pendingAcceptances
    /\ takerSwaps \in SUBSET Matches
    /\ incomingAcceptances \in SUBSET Acceptances
    /\ makerSwaps \in SUBSET Matches
    /\ relayMatchPending \in SUBSET makerSwaps
    /\ cursor \in [Identities -> Nat]
    /\ \A i \in Identities : cursor[i] <= Len(mailbox[i])
    /\ funding \in [Acceptances -> Coins \cup {0}]
    /\ locked \in SUBSET Acceptances
    /\ pc \in [Threads -> Steps]
    /\ at \in [Threads -> Acceptances \cup {<<>>}]
    /\ todo \in [Identities -> SUBSET Acceptances]
    /\ wire \in SUBSET Requests
    /\ faults \in 0..MaxFaults
    /\ walletFaults \in 0..MaxWalletFaults
    /\ passed \in SUBSET (Identities \X Orders)
    /\ early \in SUBSET passed

\* The maker can still publish the funding of a: the relay matched it, or may
\* do so once a, which may be under way, is there.
Binding(a) ==
    \/ Selected(a)
    \/ /\ IsOpen(OrderOf(a))
       /\ ~Tombstoned(a)
       /\ a \in stored \/ [op |-> "accept", of |-> a] \in wire

\* The taker keeps a in its journal, with its input locked.  (A Bitcoin wallet
\* that forgets its locks restores them: ReservationRestored.)
Kept(a) ==
    /\ a \in pendingAcceptances \/ SwapOf(takerSwaps, a) # {}
    /\ LocksSurvive => a \in locked

\* The clock of i passed the deadline of o before the relay's did.
RanAhead(i, o) == <<i, o>> \in early

\* What the maker can still publish stays reserved: a reservation is released
\* after the relay has acknowledged the cancellation or closed the order to it,
\* never after a match.  A taker whose clock is ahead of the relay's keeps it
\* until that clock has passed the deadline, and no longer.
BindingIsKept ==
    \A a \in Acceptances : Binding(a) => Kept(a) \/ RanAhead(TakerOf(a), OrderOf(a))

\* Both traders and the relay agree on the one match of an order, whatever
\* answers were lost, and no swap is executed on a match the relay refused.
OneMatch ==
    /\ \A m \in takerSwaps \cup (makerSwaps \ relayMatchPending) : match[OrderOf(m[1])] = m
    /\ \A o \in Orders : status[o] = "matched" => match[o] \in makerSwaps

\* A cancellation the user asked for is carried out, or the match it lost to
\* arrives.
CancellationSettles ==
    \A a \in Acceptances : a \in cancellation ~> a \notin pendingAcceptances

\* The first valid acceptance is matched: an offer with an acceptance waiting
\* does not stay open, unless the wallet's validation failed once or the maker's
\* clock held the offer expired too early.
OffersAreServed ==
    \A a \in Acceptances :
        a \in stored \ revoked ~>
            \/ a \in revoked
            \/ ~IsOpen(OrderOf(a))
            \/ walletFaults > 0
            \/ RanAhead(MakerOf(OrderOf(a)), OrderOf(a))

\* Locks that a restart has lost are taken again while the acceptance waits.
ReservationRestored ==
    \A a \in Acceptances :
        a \in pendingAcceptances ~>
            (a \notin pendingAcceptances \/ a \in locked)

\* Both traders learn of every match, under the same conditions.
MatchesArrive ==
    \A o \in Orders :
        status[o] = "matched" ~>
            \/ match[o] \in takerSwaps /\ match[o] \in makerSwaps \ relayMatchPending
            \/ walletFaults > 0
            \/ RanAhead(MakerOf(o), o)

\* An offer that was withdrawn or has expired without a match gives its amount
\* back: only open offers and agreed swaps reserve one.
WithdrawnOffersAreFree ==
    \A o \in Orders :
        EffectiveStatus(o) \in {"cancelled", "expired"} ~> o \notin MakerReserves(MakerOf(o))
=============================================================================
