----------------------------- MODULE RelayStore -----------------------------
(***************************************************************************)
(* The public order relay (internal/relay/store.go, mailbox.go): signed    *)
(* orders, queued acceptances, cancellation tombstones, matches, encrypted *)
(* messages and one mailbox per identity, in one bbolt database.  Every    *)
(* operation is one serialised read-write transaction, so it is one action *)
(* here; a crash of the relay loses nothing that was committed.            *)
(*                                                                         *)
(* Signatures and canonical encodings are abstracted: a signed record is   *)
(* the tuple of what it binds, and only its signer makes it.  What an      *)
(* operation answers is an operator of its own (...Reply), a cascade in    *)
(* the order of the code's checks; the operation changes the store only    *)
(* when that answer is "created".                                          *)
(***************************************************************************)
EXTENDS Naturals, Sequences, FiniteSets

CONSTANTS
    Makers, Takers,         \* identities; one may be both
    OrderNumbers,           \* orders one maker signs
    AcceptanceNumbers,      \* acceptances one taker signs for one order
    MatchNumbers,           \* matches a maker signs for one acceptance
    Envelopes,              \* distinct ciphertexts for one message sequence
    MaxOpenOrders,          \* MaxOpenOrdersPerMaker, 100 in the code
    MaxPending,             \* MaxPendingAcceptancesPerOrder, 100 in the code
    MaxTombstones,          \* MaxAcceptanceCancellationsPerOrder, 1000
    MaxSequence             \* bound on the messages of one sender

ASSUME LimitsAssumption ==
    /\ MaxOpenOrders \in Nat
    /\ MaxPending \in Nat
    /\ MaxTombstones \in Nat
    /\ MaxSequence \in Nat

Identities == Makers \cup Takers

Orders == Makers \X OrderNumbers
MakerOf(o) == o[1]

Acceptances == {a \in Orders \X Takers \X AcceptanceNumbers : a[2] # a[1][1]}
OrderOf(a) == a[1]
TakerOf(a) == a[2]

Matches == Acceptances \X MatchNumbers
Messages == Orders \X Identities \X (1..MaxSequence) \X Envelopes

VARIABLES
    status,         \* status[o]: "none", "open", "cancelled" or "matched"
    match,          \* match[o]: the one match of a matched order, or <<>>
    late,           \* orders and acceptances whose deadline has passed
    stored,         \* acceptances the relay holds
    revoked,        \* stored acceptances with CancelledAt
    tombstones,     \* <<acceptance, signer>> cancellations the relay holds
    predated,       \* such cancellations dated before the acceptance they name
    messages,       \* messages the relay holds
    heads,          \* heads[<<o, i>>]: the last sequence number taken from i
    mailbox         \* mailbox[i]: the items of identity i, by cursor

storeVars == <<status, match, late, stored, revoked, tombstones, predated,
               messages, heads, mailbox>>

Init ==
    /\ status = [o \in Orders |-> "none"]
    /\ match = [o \in Orders |-> <<>>]
    /\ late = {}
    /\ stored = {}
    /\ revoked = {}
    /\ tombstones = {}
    /\ predated = {}
    /\ messages = {}
    /\ heads = [h \in Orders \X Identities |-> 0]
    /\ mailbox = [i \in Identities |-> <<>>]

\* Status as the relay's clock sees it.
EffectiveStatus(o) == IF status[o] = "open" /\ o \in late THEN "expired" ELSE status[o]

appendMailbox(i, kind, item) ==
    mailbox' = [mailbox EXCEPT ![i] = Append(@, [kind |-> kind, item |-> item])]

\* Mutant of IsOpen: every order that was not withdrawn counts as open.
NotWithdrawn(o) == status[o] \in {"open", "matched"}

IsOpen(o) == EffectiveStatus(o) = "open"

-----------------------------------------------------------------------------
(* Orders *)

OpenOrders(m) == {o \in Orders : MakerOf(o) = m /\ IsOpen(o)}

Publish(o) ==
    /\ status[o] = "none"
    /\ o \notin late
    /\ Cardinality(OpenOrders(MakerOf(o))) < MaxOpenOrders
    /\ status' = [status EXCEPT ![o] = "open"]
    /\ UNCHANGED <<match, late, stored, revoked, tombstones, predated,
                   messages, heads, mailbox>>

CancelReply(o) ==
    CASE status[o] = "none" -> "not found"
      [] status[o] = "cancelled" -> "known"
      [] OTHER -> IF IsOpen(o) THEN "created" ELSE "not open"

Cancel(o) ==
    /\ CancelReply(o) = "created"
    /\ status' = [status EXCEPT ![o] = "cancelled"]
    /\ UNCHANGED <<match, late, stored, revoked, tombstones, predated,
                   messages, heads, mailbox>>

-----------------------------------------------------------------------------
(* Acceptances and matches *)

\* The queued acceptances of an order: neither cancelled nor past the deadline.
Pending(o) == {a \in stored : OrderOf(a) = o /\ a \notin late /\ a \notin revoked}

TakerWaits(a) == \E b \in Pending(OrderOf(a)) : TakerOf(b) = TakerOf(a)

\* Mutant of QueueFull: off by one.
QueueOverfull(o) == Cardinality(Pending(o)) > MaxPending

QueueFull(o) == Cardinality(Pending(o)) >= MaxPending

\* Mutant of Tombstoned: a cancellation that came before its acceptance is
\* not remembered.
KnownRevoked(a) == a \in revoked

\* The taker of a signed a cancellation of it, not dated before it, that the
\* relay holds.
Tombstoned(a) == <<a, TakerOf(a)>> \in tombstones

SubmitReply(a) ==
    LET o == OrderOf(a) IN
    IF status[o] = "none" THEN "not found"
    ELSE IF ~IsOpen(o) THEN "not open"
    ELSE IF a \in late THEN "invalid"
    ELSE IF a \in stored THEN IF a \in revoked THEN "cancelled" ELSE "known"
    ELSE IF Tombstoned(a) THEN "cancelled"
    ELSE IF TakerWaits(a) THEN "already accepted"
    ELSE IF QueueFull(o) THEN "limit"
    ELSE "created"

\* A cancellation that does not verify against the acceptance is dropped.
SubmitAcceptance(a) ==
    /\ SubmitReply(a) = "created"
    /\ stored' = stored \cup {a}
    /\ predated' = predated \ {<<a, TakerOf(a)>>}
    /\ appendMailbox(MakerOf(OrderOf(a)), "acceptance", a)
    /\ UNCHANGED <<status, match, late, revoked, tombstones, messages, heads>>

\* Mutant of Selected: a match does not protect its acceptance.
NeverSelected(a) == FALSE

\* The relay committed a to a match.
Selected(a) == status[OrderOf(a)] = "matched" /\ match[OrderOf(a)][1] = a

OrderTombstones(o) == {c \in tombstones \cup predated : OrderOf(c[1]) = o}

\* A cancellation of an acceptance is dated after it, or before.
Dates == {"after", "before"}

\* Mutant of Verifies: a cancellation is not compared with its acceptance.
AnySignature(a, i, date) == TRUE

\* Against an acceptance the relay holds, only its own taker's cancellation
\* verifies, and only when it does not predate it.
Verifies(a, i, date) == a \in stored => i = TakerOf(a) /\ date = "after"

\* i signs a cancellation of a.
CancelAcceptanceReply(a, i, date) ==
    LET o == OrderOf(a) IN
    IF status[o] = "none" THEN "not found"
    ELSE IF i = MakerOf(o) THEN "invalid"
    ELSE IF Selected(a) THEN "matched"
    ELSE IF <<a, i>> \in tombstones \cup predated THEN "known"
    ELSE IF Cardinality(OrderTombstones(o)) >= MaxTombstones THEN "limit"
    ELSE IF ~Verifies(a, i, date) THEN "invalid"
    ELSE "created"

\* Mutant of CancelAcceptance: it marks an acceptance the relay lacks.
CancelUnknown(a, i, date) ==
    /\ CancelAcceptanceReply(a, i, date) = "created"
    /\ tombstones' = IF date = "after" THEN tombstones \cup {<<a, i>>} ELSE tombstones
    /\ predated' = IF date = "before" THEN predated \cup {<<a, i>>} ELSE predated
    /\ revoked' = revoked \cup {a}
    /\ UNCHANGED <<status, match, late, stored, messages, heads, mailbox>>

CancelAcceptance(a, i, date) ==
    /\ CancelAcceptanceReply(a, i, date) = "created"
    /\ tombstones' = IF date = "after" THEN tombstones \cup {<<a, i>>} ELSE tombstones
    /\ predated' = IF date = "before" THEN predated \cup {<<a, i>>} ELSE predated
    /\ revoked' = IF a \in stored THEN revoked \cup {a} ELSE revoked
    /\ UNCHANGED <<status, match, late, stored, messages, heads, mailbox>>

MatchReply(m) ==
    LET a == m[1]
        o == OrderOf(a)
    IN
    IF status[o] = "none" THEN "not found"
    ELSE IF match[o] = m THEN "known"
    ELSE IF ~IsOpen(o) THEN "not open"
    ELSE IF a \notin stored THEN "not found"
    ELSE IF a \in revoked \/ <<a, TakerOf(a)>> \in tombstones \cup predated THEN "cancelled"
    ELSE IF a \in late THEN "invalid"
    ELSE "created"

ConfirmMatch(m) ==
    LET a == m[1]
        o == OrderOf(a)
    IN
    /\ MatchReply(m) = "created"
    /\ status' = [status EXCEPT ![o] = "matched"]
    /\ match' = [match EXCEPT ![o] = m]
    /\ appendMailbox(TakerOf(a), "match", m)
    /\ UNCHANGED <<late, stored, revoked, tombstones, predated, messages, heads>>

-----------------------------------------------------------------------------
(* Messages between the two traders of a match *)

Participants(o) == {MakerOf(o), TakerOf(match[o][1])}

\* Mutant of IsNext: a sequence number may be skipped.
IsLater(x) == x[3] > heads[<<x[1], x[2]>>]

\* x carries the next sequence number of its sender.
IsNext(x) == x[3] = heads[<<x[1], x[2]>>] + 1

PublishReply(x) ==
    LET o == x[1]
        i == x[2]
    IN
    IF status[o] # "matched" \/ i \notin Participants(o) THEN "invalid"
    ELSE IF x \in messages THEN "known"
    ELSE IF ~IsNext(x) THEN "sequence"
    ELSE "created"

PublishMessage(x) ==
    LET o == x[1]
        i == x[2]
    IN
    /\ PublishReply(x) = "created"
    /\ messages' = messages \cup {x}
    /\ heads' = [heads EXCEPT ![<<o, i>>] = x[3]]
    /\ appendMailbox(CHOOSE j \in Participants(o) : j # i, "message", x)
    /\ UNCHANGED <<status, match, late, stored, revoked, tombstones, predated>>

\* PollMailbox: at most limit items after a cursor, oldest first.
Page(i, after, limit) ==
    SubSeq(mailbox[i], after + 1,
           IF after + limit < Len(mailbox[i]) THEN after + limit ELSE Len(mailbox[i]))

-----------------------------------------------------------------------------
(* The relay's clock passes a deadline; no acceptance outlives its order.  *)

ExpireAcceptance(a) ==
    /\ a \notin late
    /\ late' = late \cup {a}
    /\ UNCHANGED <<status, match, stored, revoked, tombstones, predated,
                   messages, heads, mailbox>>

ExpireOrder(o) ==
    /\ o \notin late
    /\ late' = late \cup {o} \cup {a \in Acceptances : OrderOf(a) = o}
    /\ UNCHANGED <<status, match, stored, revoked, tombstones, predated,
                   messages, heads, mailbox>>

Next ==
    \/ \E o \in Orders : Publish(o) \/ Cancel(o) \/ ExpireOrder(o)
    \/ \E a \in Acceptances : SubmitAcceptance(a) \/ ExpireAcceptance(a)
    \/ \E a \in Acceptances, i \in Takers, date \in Dates : CancelAcceptance(a, i, date)
    \/ \E m \in Matches : ConfirmMatch(m)
    \/ \E x \in Messages : PublishMessage(x)

Spec == Init /\ [][Next]_storeVars

-----------------------------------------------------------------------------
Items == [kind : {"acceptance"}, item : Acceptances]
            \cup [kind : {"match"}, item : Matches]
            \cup [kind : {"message"}, item : Messages]

TypeOK ==
    /\ status \in [Orders -> {"none", "open", "cancelled", "matched"}]
    /\ match \in [Orders -> Matches \cup {<<>>}]
    /\ late \in SUBSET (Orders \cup Acceptances)
    /\ stored \in SUBSET Acceptances
    /\ revoked \in SUBSET stored
    /\ tombstones \in SUBSET (Acceptances \X Takers)
    /\ predated \in SUBSET (Acceptances \X Takers)
    /\ messages \in SUBSET Messages
    /\ heads \in [Orders \X Identities -> 0..MaxSequence]
    /\ mailbox \in [Identities -> Seq(Items)]

\* Exactly one of a cancellation and a match wins: the acceptance of a matched
\* order is held, was never revoked, and its taker's cancellation is not held.
MatchXorCancel ==
    \A o \in Orders : status[o] = "matched" =>
        /\ match[o] # <<>>
        /\ OrderOf(match[o][1]) = o
        /\ match[o][1] \in stored \ revoked
        /\ ~ \E c \in tombstones : c = <<match[o][1], TakerOf(match[o][1])>>

\* A delayed submission cannot revive a cancelled acceptance, whichever of the
\* two reached the relay first.
NoRevival ==
    \A c \in tombstones : c[2] = TakerOf(c[1]) => c[1] \notin stored \ revoked

\* A cancellation that another identity signed for an acceptance, or that is
\* dated before it, does not stop it, whichever of the two came first.
OnlyTakerRevokes ==
    /\ \A a \in revoked : <<a, TakerOf(a)>> \in tombstones
    /\ \A a \in stored : <<a, TakerOf(a)>> \notin predated

\* Two takers never both acquire an order, and a match outlives every later
\* cancellation, submission and deadline.
MatchIsFinal ==
    [][\A o \in Orders : match[o] # <<>> =>
          match'[o] = match[o] /\ status'[o] = "matched"]_storeVars

\* The queue of an order is bounded and holds one acceptance of each taker.
QueueBounded ==
    \A o \in Orders :
        /\ Cardinality(Pending(o)) <= MaxPending
        /\ \A a, b \in Pending(o) : TakerOf(a) = TakerOf(b) => a = b

\* What the recipient of a mailbox relies on when it works through it in order:
\* no item twice, the messages of a sender without a gap, and none before the
\* item that lets the recipient create the trade they belong to.
MailboxInOrder ==
    \A i \in Identities :
        LET box == mailbox[i] IN
        \A n \in DOMAIN box :
            /\ \A k \in 1..(n - 1) : box[k] # box[n]
            /\ box[n].kind = "message" =>
                 LET x == box[n].item IN
                 /\ x[3] > 1 => \E k \in 1..(n - 1) :
                        /\ box[k].kind = "message"
                        /\ box[k].item[1] = x[1]
                        /\ box[k].item[2] = x[2]
                        /\ box[k].item[3] = x[3] - 1
                 /\ \E k \in 1..(n - 1) :
                        IF i = MakerOf(x[1])
                        THEN box[k] = [kind |-> "acceptance", item |-> match[x[1]][1]]
                        ELSE box[k] = [kind |-> "match", item |-> match[x[1]]]
=============================================================================
