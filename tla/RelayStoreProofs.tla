-------------------------- MODULE RelayStoreProofs --------------------------
(***************************************************************************)
(* Proofs about the relay's store for every set of identities, orders and  *)
(* acceptances, and for every limit: types, the exclusion of a match and a *)
(* cancellation, the finality of a match, the bound on the queue of an     *)
(* order, and mailboxes that can be worked through in order.               *)
(***************************************************************************)
EXTENDS RelayStore, TLAPS, FiniteSetTheorems

\* A match is recorded with the status, never without it.
MatchRecorded == \A o \in Orders : status[o] # "matched" => match[o] = <<>>

\* The inductive invariant of the store.
Inv ==
    /\ TypeOK
    /\ MatchXorCancel
    /\ NoRevival
    /\ OnlyTakerRevokes
    /\ MatchRecorded

-----------------------------------------------------------------------------
\* What the signed records bind: an acceptance belongs to an order and to a
\* taker, who is not the order's maker.
LEMMA AcceptanceParts ==
    ASSUME NEW a \in Acceptances
    PROVE  OrderOf(a) \in Orders /\ TakerOf(a) \in Takers /\ TakerOf(a) # MakerOf(OrderOf(a))
  BY DEF Acceptances, OrderOf, TakerOf, MakerOf

\* What a match is made of.
LEMMA MatchParts ==
    ASSUME NEW m \in Matches
    PROVE  m[1] \in Acceptances /\ m # <<>>
  BY DEF Matches

\* What a message is made of.
LEMMA MessageParts ==
    ASSUME NEW x \in Messages
    PROVE  /\ x[1] \in Orders
           /\ x[2] \in Identities
           /\ x[3] \in 0..MaxSequence
  BY LimitsAssumption DEF Messages

\* The maker of an order is an identity.
LEMMA MakerIsIdentity ==
    ASSUME NEW o \in Orders
    PROVE  MakerOf(o) \in Identities
  BY DEF Orders, MakerOf, Identities

\* An operation that answers "created" for an acceptance or a match found its
\* order open.
LEMMA OpenStatus ==
    ASSUME NEW o \in Orders, IsOpen(o), TypeOK
    PROVE  status[o] = "open"
  BY DEF IsOpen, EffectiveStatus, TypeOK

\* A mailbox with one more item is a mailbox.
LEMMA AppendTyped ==
    ASSUME TypeOK,
           NEW i \in Identities, NEW kind, NEW item,
           [kind |-> kind, item |-> item] \in Items,
           appendMailbox(i, kind, item)
    PROVE  mailbox' \in [Identities -> Seq(Items)]
  <1>1. Append(mailbox[i], [kind |-> kind, item |-> item]) \in Seq(Items)
    BY DEF TypeOK
  <1> QED  BY <1>1 DEF TypeOK, appendMailbox

-----------------------------------------------------------------------------
\* The empty store satisfies the invariant.
LEMMA InitInv == Init => Inv
  <1> SUFFICES ASSUME Init PROVE Inv
    OBVIOUS
  <1>1. TypeOK
    <2>1. <<>> \in Seq(Items)
      OBVIOUS
    <2>2. 0 \in 0..MaxSequence
      BY LimitsAssumption
    <2> QED  BY <2>1, <2>2 DEF Init, TypeOK
  <1>2. MatchXorCancel /\ NoRevival /\ OnlyTakerRevokes /\ MatchRecorded
    BY DEF Init, MatchXorCancel, NoRevival, OnlyTakerRevokes, MatchRecorded
  <1> QED  BY <1>1, <1>2 DEF Inv

\* Publishing an order keeps the invariant.
LEMMA PublishInv ==
    ASSUME Inv, NEW o \in Orders, Publish(o)
    PROVE  Inv'
  <1>1. TypeOK'
    BY DEF Inv, TypeOK, Publish
  <1>2. MatchXorCancel' /\ NoRevival' /\ OnlyTakerRevokes'
    BY DEF Inv, TypeOK, Publish, MatchXorCancel, NoRevival, OnlyTakerRevokes
  <1>3. MatchRecorded'
    BY DEF Inv, TypeOK, Publish, MatchRecorded
  <1> QED  BY <1>1, <1>2, <1>3 DEF Inv

\* Withdrawing an order keeps the invariant: only an open order is withdrawn.
LEMMA CancelInv ==
    ASSUME Inv, NEW o \in Orders, Cancel(o)
    PROVE  Inv'
  <1>1. status[o] = "open"
    <2>1. IsOpen(o)
      BY DEF Cancel, CancelReply
    <2> QED  BY <2>1, OpenStatus DEF Inv
  <1>2. TypeOK'
    BY DEF Inv, TypeOK, Cancel
  <1>3. MatchXorCancel' /\ NoRevival' /\ OnlyTakerRevokes'
    BY <1>1 DEF Inv, TypeOK, Cancel, MatchXorCancel, NoRevival, OnlyTakerRevokes
  <1>4. MatchRecorded'
    BY <1>1 DEF Inv, TypeOK, Cancel, MatchRecorded
  <1> QED  BY <1>2, <1>3, <1>4 DEF Inv

\* Queueing an acceptance keeps the invariant: none is queued that its taker
\* has cancelled, so none is revived.
LEMMA SubmitInv ==
    ASSUME Inv, NEW a \in Acceptances, SubmitAcceptance(a)
    PROVE  Inv'
  <1>1. a \notin stored /\ ~Tombstoned(a)
    BY DEF SubmitAcceptance, SubmitReply
  <1>2. TypeOK'
    <2>1. MakerOf(OrderOf(a)) \in Identities
      BY AcceptanceParts, MakerIsIdentity
    <2>2. [kind |-> "acceptance", item |-> a] \in Items
      BY DEF Items
    <2>3. mailbox' \in [Identities -> Seq(Items)]
      BY <2>1, <2>2, AppendTyped DEF SubmitAcceptance, Inv
    <2> QED  BY <2>3 DEF Inv, TypeOK, SubmitAcceptance
  <1>3. MatchXorCancel'
    BY DEF Inv, SubmitAcceptance, MatchXorCancel
  <1>4. NoRevival'
    <2> SUFFICES ASSUME NEW c \in tombstones', c[2] = TakerOf(c[1])
                 PROVE  c[1] \notin stored' \ revoked'
      BY DEF NoRevival
    <2>1. c \in tombstones /\ c = <<c[1], c[2]>>
      BY DEF SubmitAcceptance, Inv, TypeOK
    <2>2. c[1] # a
      BY <1>1, <2>1 DEF Tombstoned
    <2> QED  BY <2>1, <2>2 DEF Inv, NoRevival, SubmitAcceptance
  <1>5. OnlyTakerRevokes' /\ MatchRecorded'
    BY DEF Inv, SubmitAcceptance, OnlyTakerRevokes, MatchRecorded
  <1> QED  BY <1>2, <1>3, <1>4, <1>5 DEF Inv

\* Cancelling an acceptance keeps the invariant: a selected acceptance is not
\* cancelled, and only its own taker revokes one that is queued.
LEMMA CancelAcceptanceInv ==
    ASSUME Inv, NEW a \in Acceptances, NEW i \in Takers, NEW date \in Dates,
           CancelAcceptance(a, i, date)
    PROVE  Inv'
  <1>1. ~Selected(a) /\ Verifies(a, i, date)
    BY DEF CancelAcceptance, CancelAcceptanceReply
  <1>2. TypeOK'
    BY DEF Inv, TypeOK, CancelAcceptance
  <1>3. MatchXorCancel'
    <2> SUFFICES ASSUME NEW o \in Orders, status[o] = "matched"
                 PROVE  /\ match[o] # <<>>
                        /\ OrderOf(match[o][1]) = o
                        /\ match[o][1] \in stored \ revoked'
                        /\ ~ \E c \in tombstones' : c = <<match[o][1], TakerOf(match[o][1])>>
      BY DEF MatchXorCancel, CancelAcceptance
    <2>1. /\ match[o] # <<>>
          /\ OrderOf(match[o][1]) = o
          /\ match[o][1] \in stored \ revoked
          /\ ~ \E c \in tombstones : c = <<match[o][1], TakerOf(match[o][1])>>
      BY DEF Inv, MatchXorCancel
    <2>2. match[o][1] # a
      BY <1>1, <2>1 DEF Selected
    <2> QED  BY <2>1, <2>2 DEF CancelAcceptance
  <1>4. NoRevival'
    <2> SUFFICES ASSUME NEW c \in tombstones', c[2] = TakerOf(c[1])
                 PROVE  c[1] \notin stored' \ revoked'
      BY DEF NoRevival
    <2>1. CASE c \in tombstones
      BY <2>1 DEF Inv, NoRevival, CancelAcceptance
    <2>2. CASE c = <<a, i>>
      BY <2>2 DEF CancelAcceptance
    <2> QED  BY <2>1, <2>2 DEF CancelAcceptance
  <1>5. OnlyTakerRevokes'
    <2>0. ASSUME NEW b \in stored' PROVE <<b, TakerOf(b)>> \notin predated'
      <3>1. <<b, TakerOf(b)>> = <<a, i>> => b = a
        OBVIOUS
      <3> QED  BY <1>1, <2>0, <3>1 DEF Inv, OnlyTakerRevokes, CancelAcceptance, Verifies
    <2> SUFFICES ASSUME NEW b \in revoked'
                 PROVE  <<b, TakerOf(b)>> \in tombstones'
      BY <2>0 DEF OnlyTakerRevokes
    <2>1. CASE b \in revoked
      BY <2>1 DEF Inv, OnlyTakerRevokes, CancelAcceptance
    <2>2. CASE b \notin revoked
      <3>1. b = a /\ a \in stored
        BY <2>2 DEF CancelAcceptance
      <3>2. i = TakerOf(a) /\ date = "after"
        BY <1>1, <3>1 DEF Verifies
      <3> QED  BY <3>1, <3>2 DEF CancelAcceptance
    <2> QED  BY <2>1, <2>2
  <1>6. MatchRecorded'
    BY DEF Inv, MatchRecorded, CancelAcceptance
  <1> QED  BY <1>2, <1>3, <1>4, <1>5, <1>6 DEF Inv

\* Confirming a match keeps the invariant: the order was open and the selected
\* acceptance is queued and not cancelled.
LEMMA ConfirmMatchInv ==
    ASSUME Inv, NEW m \in Matches, ConfirmMatch(m)
    PROVE  Inv'
  <1> DEFINE a == m[1]
             o == OrderOf(a)
  <1>1. a \in Acceptances /\ o \in Orders /\ TakerOf(a) \in Takers
    BY MatchParts, AcceptanceParts
  <1>2. a \in stored \ revoked /\ ~Tombstoned(a)
    BY DEF ConfirmMatch, MatchReply, Tombstoned
  <1>3. /\ status' = [status EXCEPT ![o] = "matched"]
        /\ match' = [match EXCEPT ![o] = m]
        /\ UNCHANGED <<late, stored, revoked, tombstones, predated, messages, heads>>
    BY DEF ConfirmMatch
  <1>4. TypeOK'
    <2>1. TakerOf(a) \in Identities
      BY <1>1 DEF Identities
    <2>2. [kind |-> "match", item |-> m] \in Items
      BY DEF Items
    <2>3. mailbox' \in [Identities -> Seq(Items)]
      BY <2>1, <2>2, AppendTyped DEF ConfirmMatch, Inv
    <2> QED  BY <1>3, <2>3 DEF Inv, TypeOK
  <1>5. MatchXorCancel'
    <2> SUFFICES ASSUME NEW q \in Orders, status'[q] = "matched"
                 PROVE  /\ match'[q] # <<>>
                        /\ OrderOf(match'[q][1]) = q
                        /\ match'[q][1] \in stored \ revoked
                        /\ ~ \E c \in tombstones :
                               c = <<match'[q][1], TakerOf(match'[q][1])>>
      BY <1>3 DEF MatchXorCancel
    <2>1. CASE q = o
      <3>1. match'[q] = m
        BY <1>1, <1>3, <2>1 DEF Inv, TypeOK
      <3> QED  BY <1>2, <2>1, <3>1, MatchParts DEF Tombstoned
    <2>2. CASE q # o
      <3>1. match'[q] = match[q] /\ status[q] = "matched"
        BY <1>3, <2>2 DEF Inv, TypeOK
      <3> QED  BY <3>1 DEF Inv, MatchXorCancel
    <2> QED  BY <2>1, <2>2
  <1>6. NoRevival' /\ OnlyTakerRevokes'
    BY <1>3 DEF Inv, NoRevival, OnlyTakerRevokes
  <1>7. MatchRecorded'
    BY <1>1, <1>3 DEF Inv, TypeOK, MatchRecorded
  <1> QED  BY <1>4, <1>5, <1>6, <1>7 DEF Inv

\* The two traders of a match are the maker of its order and another identity.
LEMMA OtherParticipant ==
    ASSUME Inv, NEW o \in Orders, status[o] = "matched", NEW i \in Participants(o)
    PROVE  (CHOOSE j \in Participants(o) : j # i) \in Identities
  <1>1. match[o][1] \in Acceptances /\ OrderOf(match[o][1]) = o
    BY DEF Inv, TypeOK, MatchXorCancel
  <1>2. TakerOf(match[o][1]) \in Takers /\ TakerOf(match[o][1]) # MakerOf(o)
    BY <1>1, AcceptanceParts
  <1>3. \E j \in Participants(o) : j # i
    BY <1>2 DEF Participants
  <1>4. (CHOOSE j \in Participants(o) : j # i) \in Participants(o)
    BY <1>3
  <1>5. Participants(o) \subseteq Identities
    BY <1>2, MakerIsIdentity DEF Participants, Identities
  <1> QED  BY <1>4, <1>5

\* A message between matched traders keeps the invariant.
LEMMA PublishMessageInv ==
    ASSUME Inv, NEW x \in Messages, PublishMessage(x)
    PROVE  Inv'
  <1>1. status[x[1]] = "matched" /\ x[2] \in Participants(x[1])
    BY DEF PublishMessage, PublishReply
  <1>2. TypeOK'
    <2>1. (CHOOSE j \in Participants(x[1]) : j # x[2]) \in Identities
      BY <1>1, MessageParts, OtherParticipant
    <2>2. [kind |-> "message", item |-> x] \in Items
      BY DEF Items
    <2>3. mailbox' \in [Identities -> Seq(Items)]
      BY <2>1, <2>2, AppendTyped DEF PublishMessage, Inv
    <2>4. heads' \in [Orders \X Identities -> 0..MaxSequence]
      BY MessageParts DEF Inv, TypeOK, PublishMessage
    <2> QED  BY <2>3, <2>4 DEF Inv, TypeOK, PublishMessage
  <1>3. MatchXorCancel' /\ NoRevival' /\ OnlyTakerRevokes' /\ MatchRecorded'
    BY DEF Inv, MatchXorCancel, NoRevival, OnlyTakerRevokes, MatchRecorded, PublishMessage
  <1> QED  BY <1>2, <1>3 DEF Inv

\* A deadline that passes changes nothing the invariant speaks of.
LEMMA DeadlineInv ==
    ASSUME Inv, late' \in SUBSET (Orders \cup Acceptances),
           UNCHANGED <<status, match, stored, revoked, tombstones, predated,
                       messages, heads, mailbox>>
    PROVE  Inv'
  <1>1. TypeOK'
    BY DEF Inv, TypeOK
  <1>2. MatchXorCancel' /\ NoRevival' /\ OnlyTakerRevokes' /\ MatchRecorded'
    BY DEF Inv, MatchXorCancel, NoRevival, OnlyTakerRevokes, MatchRecorded
  <1> QED  BY <1>1, <1>2 DEF Inv

\* Every operation of the relay keeps the invariant.
LEMMA NextInv == Inv /\ [Next]_storeVars => Inv'
  <1> SUFFICES ASSUME Inv, [Next]_storeVars PROVE Inv'
    OBVIOUS
  <1>1. CASE \E o \in Orders : Publish(o)
    BY <1>1, PublishInv
  <1>2. CASE \E o \in Orders : Cancel(o)
    BY <1>2, CancelInv
  <1>3. CASE \E o \in Orders : ExpireOrder(o)
    <2>1. late' \in SUBSET (Orders \cup Acceptances)
      BY <1>3 DEF ExpireOrder, Inv, TypeOK
    <2> QED  BY <1>3, <2>1, DeadlineInv DEF ExpireOrder
  <1>4. CASE \E a \in Acceptances : SubmitAcceptance(a)
    BY <1>4, SubmitInv
  <1>5. CASE \E a \in Acceptances : ExpireAcceptance(a)
    <2>1. late' \in SUBSET (Orders \cup Acceptances)
      BY <1>5 DEF ExpireAcceptance, Inv, TypeOK
    <2> QED  BY <1>5, <2>1, DeadlineInv DEF ExpireAcceptance
  <1>6. CASE \E a \in Acceptances, i \in Takers, date \in Dates : CancelAcceptance(a, i, date)
    BY <1>6, CancelAcceptanceInv
  <1>7. CASE \E m \in Matches : ConfirmMatch(m)
    BY <1>7, ConfirmMatchInv
  <1>8. CASE \E x \in Messages : PublishMessage(x)
    BY <1>8, PublishMessageInv
  <1>9. CASE UNCHANGED storeVars
    BY <1>9 DEF storeVars, Inv, TypeOK, MatchXorCancel, NoRevival, OnlyTakerRevokes,
                MatchRecorded
  <1> QED  BY <1>1, <1>2, <1>3, <1>4, <1>5, <1>6, <1>7, <1>8, <1>9 DEF Next

\* The invariant holds in every reachable state of the store.
LEMMA Invariance == Spec => []Inv
  BY InitInv, NextInv, PTL DEF Spec

-----------------------------------------------------------------------------
\* The store's tables keep their types, and only a stored acceptance is ever
\* marked as cancelled (relay/mailbox.go).
THEOREM Typing == Spec => []TypeOK
  BY Invariance, PTL DEF Inv

\* Whatever the requests and their order, an acceptance is never both selected
\* by a match and cancelled by its taker (CancelAcceptance, ConfirmMatch).
THEOREM MatchExcludesCancel == Spec => []MatchXorCancel
  BY Invariance, PTL DEF Inv

\* An acceptance whose taker cancelled it is never waiting in a queue, whichever
\* of the two requests reached the relay first (SubmitAcceptance).
THEOREM CancelledStaysCancelled == Spec => []NoRevival
  BY Invariance, PTL DEF Inv

\* No identity but the taker of an acceptance revokes it (CancelAcceptance).
THEOREM RevokedByItsTaker == Spec => []OnlyTakerRevokes
  BY Invariance, PTL DEF Inv

\* Once an order has a match, every later step keeps that match and its status
\* (ConfirmMatch, Cancel).
THEOREM MatchKept == Spec => MatchIsFinal
  <1> DEFINE Kept == \A o \in Orders : match[o] # <<>> =>
                         match'[o] = match[o] /\ status'[o] = "matched"
  <1>1. Inv /\ [Next]_storeVars => [Kept]_storeVars
    <2> SUFFICES ASSUME Inv, Next, NEW o \in Orders, match[o] # <<>>
                 PROVE  match'[o] = match[o] /\ status'[o] = "matched"
      OBVIOUS
    <2>1. status[o] = "matched"
      BY DEF Inv, MatchRecorded
    <2>2. CASE \E q \in Orders : Publish(q)
      BY <2>1, <2>2 DEF Publish, Inv, TypeOK
    <2>3. CASE \E q \in Orders : Cancel(q)
      <3>1. PICK q \in Orders : Cancel(q)
        BY <2>3
      <3>2. IsOpen(q)
        BY <3>1 DEF Cancel, CancelReply
      <3>3. q # o
        BY <2>1, <3>2, OpenStatus DEF Inv
      <3> QED  BY <2>1, <3>1, <3>3 DEF Cancel, Inv, TypeOK
    <2>4. CASE \E m \in Matches : ConfirmMatch(m)
      <3>1. PICK m \in Matches : ConfirmMatch(m)
        BY <2>4
      <3>2. CASE OrderOf(m[1]) = o /\ match[o] = m
        BY <3>1, <3>2 DEF ConfirmMatch, MatchReply
      <3>3. CASE OrderOf(m[1]) = o /\ match[o] # m
        <4>1. IsOpen(o)
          BY <3>1, <3>3 DEF ConfirmMatch, MatchReply
        <4> QED  BY <2>1, <4>1, OpenStatus DEF Inv
      <3>4. CASE OrderOf(m[1]) # o
        BY <2>1, <3>1, <3>4 DEF ConfirmMatch, Inv, TypeOK
      <3> QED  BY <3>2, <3>3, <3>4
    <2>5. CASE UNCHANGED <<status, match>>
      BY <2>1, <2>5
    <2> QED  BY <2>2, <2>3, <2>4, <2>5
             DEF Next, ExpireOrder, ExpireAcceptance, SubmitAcceptance,
                 CancelAcceptance, PublishMessage
  <1> QED  BY <1>1, Invariance, PTL DEF Spec, MatchIsFinal

-----------------------------------------------------------------------------
(* The queue of an order *)

\* The relay holds finitely many acceptances, so that they can be counted.
QueueInv == IsFiniteSet(stored) /\ QueueBounded

\* A step that queues nothing keeps the bound.
LEMMA NothingQueued ==
    ASSUME QueueInv, stored' = stored, late \subseteq late', revoked \subseteq revoked'
    PROVE  QueueInv'
  <1> SUFFICES ASSUME NEW o \in Orders
               PROVE  /\ Cardinality(Pending(o)') <= MaxPending
                      /\ \A a, b \in Pending(o)' : TakerOf(a) = TakerOf(b) => a = b
    BY DEF QueueInv, QueueBounded
  <1>1. Pending(o)' \subseteq Pending(o) /\ Pending(o) \subseteq stored
    BY DEF Pending
  <1>2. IsFiniteSet(Pending(o))
    BY <1>1, FS_Subset DEF QueueInv
  <1>3. IsFiniteSet(Pending(o)') /\ Cardinality(Pending(o)') <= Cardinality(Pending(o))
    BY <1>1, <1>2, FS_Subset
  <1>4. Cardinality(Pending(o)) \in Nat /\ Cardinality(Pending(o)') \in Nat
    BY <1>2, <1>3, FS_CardinalityType
  <1>5. Cardinality(Pending(o)') <= MaxPending
    BY <1>3, <1>4, LimitsAssumption DEF QueueInv, QueueBounded
  <1> QED  BY <1>1, <1>5 DEF QueueInv, QueueBounded

\* An acceptance enters a queue only below its limit (SubmitAcceptance).
LEMMA SubmitQueued ==
    ASSUME QueueInv, NEW a \in Acceptances, SubmitAcceptance(a)
    PROVE  QueueInv'
  <1> DEFINE q == OrderOf(a)
  <1>1. /\ ~TakerWaits(a)
        /\ ~(Cardinality(Pending(q)) >= MaxPending)
        /\ stored' = stored \cup {a}
        /\ UNCHANGED <<late, revoked>>
    BY DEF SubmitAcceptance, SubmitReply, QueueFull
  <1>2. IsFiniteSet(stored')
    BY <1>1, FS_AddElement DEF QueueInv
  <1> SUFFICES ASSUME NEW o \in Orders
               PROVE  /\ Cardinality(Pending(o)') <= MaxPending
                      /\ \A b, c \in Pending(o)' : TakerOf(b) = TakerOf(c) => b = c
    BY <1>2 DEF QueueInv, QueueBounded
  <1>3. CASE o # q
    <2>1. Pending(o)' = Pending(o)
      BY <1>1, <1>3 DEF Pending
    <2> QED  BY <2>1 DEF QueueInv, QueueBounded
  <1>4. CASE o = q
    <2>1. Pending(o)' \subseteq Pending(o) \cup {a}
      BY <1>1 DEF Pending
    <2>2. IsFiniteSet(Pending(o))
      <3>1. Pending(o) \subseteq stored
        BY DEF Pending
      <3> QED  BY <3>1, FS_Subset DEF QueueInv
    <2>3. /\ IsFiniteSet(Pending(o) \cup {a})
          /\ Cardinality(Pending(o) \cup {a}) <= Cardinality(Pending(o)) + 1
      <3>1. Cardinality(Pending(o)) \in Nat
        BY <2>2, FS_CardinalityType
      <3>2. /\ IsFiniteSet(Pending(o) \cup {a})
            /\ Cardinality(Pending(o) \cup {a}) =
                  IF a \in Pending(o) THEN Cardinality(Pending(o)) ELSE Cardinality(Pending(o)) + 1
        BY <2>2, FS_AddElement
      <3> QED  BY <3>1, <3>2
    <2>4. IsFiniteSet(Pending(o)') /\ Cardinality(Pending(o)') <= Cardinality(Pending(o) \cup {a})
      BY <2>1, <2>3, FS_Subset
    <2>5. /\ Cardinality(Pending(o)) \in Nat
          /\ Cardinality(Pending(o)') \in Nat
          /\ Cardinality(Pending(o) \cup {a}) \in Nat
      BY <2>2, <2>3, <2>4, FS_CardinalityType
    <2>6. Cardinality(Pending(o)') <= MaxPending
      BY <1>1, <1>4, <2>3, <2>4, <2>5, LimitsAssumption
    <2>7. \A b \in Pending(o) : TakerOf(b) # TakerOf(a)
      BY <1>1, <1>4 DEF TakerWaits
    <2>8. \A b, c \in Pending(o)' : TakerOf(b) = TakerOf(c) => b = c
      BY <2>1, <2>7 DEF QueueInv, QueueBounded
    <2> QED  BY <2>6, <2>8
  <1> QED  BY <1>3, <1>4

\* No acceptance waits at the start.
LEMMA QueueInitially == Init => QueueInv
  <1> SUFFICES ASSUME Init PROVE QueueInv
    OBVIOUS
  <1>1. stored = {} /\ \A o \in Orders : Pending(o) = {}
    BY DEF Init, Pending
  <1>2. IsFiniteSet({}) /\ Cardinality({}) = 0
    BY FS_EmptySet
  <1> QED  BY <1>1, <1>2, LimitsAssumption DEF QueueInv, QueueBounded

\* Every request keeps the queues finite and within their limit.
LEMMA QueueStep == QueueInv /\ [Next]_storeVars => QueueInv'
  <1> SUFFICES ASSUME QueueInv, [Next]_storeVars PROVE QueueInv'
    OBVIOUS
  <1>1. CASE \E a \in Acceptances : SubmitAcceptance(a)
    BY <1>1, SubmitQueued
  <1>2. CASE /\ stored' = stored
             /\ late \subseteq late'
             /\ revoked \subseteq revoked'
    BY <1>2, NothingQueued
  <1> QED  BY <1>1, <1>2
           DEF Next, storeVars, Publish, Cancel, ExpireOrder, ExpireAcceptance,
               CancelAcceptance, ConfirmMatch, PublishMessage

\* No sequence of requests and deadlines fills the queue of an order beyond
\* its limit, and a taker waits in it at most once (SubmitAcceptance).
THEOREM QueueLimited == Spec => []QueueBounded
  <1>1. QueueInv => QueueBounded
    BY DEF QueueInv
  <1> QED  BY <1>1, QueueInitially, QueueStep, PTL DEF Spec

-----------------------------------------------------------------------------
(* The mailboxes *)

Entry(kind, item) == [kind |-> kind, item |-> item]

Holds(box, x) == \E k \in DOMAIN box : box[k] = x

\* A mailbox item is in the store's tables too.
Recorded(x) ==
    /\ x.kind = "acceptance" => x.item \in stored
    /\ x.kind = "match" => LET o == OrderOf(x.item[1]) IN
                              status[o] = "matched" /\ match[o] = x.item
    /\ x.kind = "message" => x.item \in messages

\* A mailbox that was sent message n of i for order o.
WasSent(box, o, i, n) ==
    \E k \in DOMAIN box :
        /\ box[k].kind = "message"
        /\ box[k].item[1] = o
        /\ box[k].item[2] = i
        /\ box[k].item[3] = n

\* What MailboxInOrder says of item n in the mailbox of i.
InPlace(i, n) ==
    LET box == mailbox[i] IN
    /\ \A k \in 1..(n - 1) : box[k] # box[n]
    /\ box[n].kind = "message" =>
         LET x == box[n].item IN
         /\ x[3] > 1 => \E k \in 1..(n - 1) :
                /\ box[k].kind = "message"
                /\ box[k].item[1] = x[1]
                /\ box[k].item[2] = x[2]
                /\ box[k].item[3] = x[3] - 1
         /\ \E k \in 1..(n - 1) :
                IF i = MakerOf(x[1])
                THEN box[k] = [kind |-> "acceptance", item |-> match[x[1]][1]]
                ELSE box[k] = [kind |-> "match", item |-> match[x[1]]]

\* Why a mailbox is in order: what the tables hold was delivered, and a head
\* says which message was delivered last.
MailInv ==
    /\ \A i \in Identities : \A n \in DOMAIN mailbox[i] :
           Recorded(mailbox[i][n]) /\ InPlace(i, n)
    /\ \A a \in stored : Holds(mailbox[MakerOf(OrderOf(a))], Entry("acceptance", a))
    /\ \A o \in Orders : status[o] = "matched" =>
           Holds(mailbox[TakerOf(match[o][1])], Entry("match", match[o]))
    /\ \A x \in messages : status[x[1]] = "matched"
    /\ \A o \in Orders, i \in Identities : heads[<<o, i>>] > 0 =>
           /\ status[o] = "matched"
           /\ \A j \in Participants(o) \ {i} : WasSent(mailbox[j], o, i, heads[<<o, i>>])

\* What no step of the relay takes away.
Grows ==
    /\ stored \subseteq stored'
    /\ messages \subseteq messages'
    /\ \A o \in Orders : status[o] = "matched" =>
           status'[o] = "matched" /\ match'[o] = match[o]
    /\ \A j \in Identities :
           /\ DOMAIN mailbox[j] \subseteq DOMAIN mailbox'[j]
           /\ \A k \in DOMAIN mailbox[j] : mailbox'[j][k] = mailbox[j][k]

\* A mailbox in order has each number at its place.
LEMMA InOrderIsInPlace ==
    MailboxInOrder <=> \A i \in Identities : \A n \in DOMAIN mailbox[i] : InPlace(i, n)
  BY DEF MailboxInOrder, InPlace

\* A mailbox is a sequence of items.
LEMMA BoxTyped ==
    ASSUME TypeOK, NEW i \in Identities
    PROVE  /\ mailbox[i] \in Seq(Items)
           /\ Len(mailbox[i]) \in Nat
           /\ DOMAIN mailbox[i] = 1..Len(mailbox[i])
           /\ \A n \in DOMAIN mailbox[i] :
                  /\ n \in Nat
                  /\ 1..(n - 1) \subseteq DOMAIN mailbox[i]
                  /\ mailbox[i][n] \in Items
  BY DEF TypeOK

\* Appending an item moves no other and puts the new one last.
LEMMA Appended ==
    ASSUME TypeOK, NEW i \in Identities, NEW kind, NEW item,
           Entry(kind, item) \in Items, appendMailbox(i, kind, item)
    PROVE  LET last == Len(mailbox[i]) + 1 IN
           /\ \A j \in Identities :
                  /\ DOMAIN mailbox[j] \subseteq DOMAIN mailbox'[j]
                  /\ \A k \in DOMAIN mailbox[j] : mailbox'[j][k] = mailbox[j][k]
                  /\ \A n \in DOMAIN mailbox'[j] :
                         n \in DOMAIN mailbox[j] \/ (j = i /\ n = last)
           /\ last \in DOMAIN mailbox'[i]
           /\ 1..(last - 1) = DOMAIN mailbox[i]
           /\ mailbox'[i][last] = Entry(kind, item)
  <1>1. mailbox'[i] = Append(mailbox[i], Entry(kind, item))
    BY DEF appendMailbox, TypeOK, Entry
  <1>2. \A j \in Identities : j # i => mailbox'[j] = mailbox[j]
    BY DEF appendMailbox, TypeOK
  <1>3. mailbox[i] \in Seq(Items)
    BY DEF TypeOK
  <1>4. /\ Len(mailbox'[i]) = Len(mailbox[i]) + 1
        /\ mailbox'[i][Len(mailbox[i]) + 1] = Entry(kind, item)
        /\ \A k \in 1..Len(mailbox[i]) : mailbox'[i][k] = mailbox[i][k]
        /\ DOMAIN mailbox[i] = 1..Len(mailbox[i])
        /\ DOMAIN mailbox'[i] = 1..(Len(mailbox[i]) + 1)
        /\ Len(mailbox[i]) \in Nat
    BY <1>1, <1>3
  <1> QED  BY <1>2, <1>4

\* What was delivered stays where it is.
LEMMA HoldsStays ==
    ASSUME Grows, NEW i \in Identities
    PROVE  /\ \A x : Holds(mailbox[i], x) => Holds(mailbox'[i], x)
           /\ \A o, j, n : WasSent(mailbox[i], o, j, n) => WasSent(mailbox'[i], o, j, n)
  BY DEF Grows, Holds, WasSent

\* An item keeps its record.
LEMMA RecordedStays ==
    ASSUME Grows, NEW x \in Items, Recorded(x)
    PROVE  Recorded(x)'
  <1>1. x.kind = "match" => x.item \in Matches
    BY DEF Items
  <1>2. x.kind = "match" => OrderOf(x.item[1]) \in Orders
    BY <1>1, MatchParts, AcceptanceParts
  <1> QED  BY <1>2 DEF Grows, Recorded

\* An item that was in order remains so: a message's match is final.
LEMMA InPlaceStays ==
    ASSUME Inv, MailInv, Grows, NEW i \in Identities, NEW n \in DOMAIN mailbox[i]
    PROVE  InPlace(i, n)'
  <1>1. /\ n \in Nat /\ 1..(n - 1) \subseteq DOMAIN mailbox[i]
        /\ mailbox[i][n] \in Items
    BY BoxTyped DEF Inv
  <1>2. /\ mailbox'[i][n] = mailbox[i][n]
        /\ \A k \in 1..(n - 1) : mailbox'[i][k] = mailbox[i][k]
    BY <1>1 DEF Grows
  <1>3. InPlace(i, n) /\ Recorded(mailbox[i][n])
    BY DEF MailInv
  <1>4. ASSUME mailbox[i][n].kind = "message"
        PROVE  match'[mailbox[i][n].item[1]] = match[mailbox[i][n].item[1]]
    <2>1. mailbox[i][n].item \in messages
      BY <1>3, <1>4 DEF Recorded
    <2>2. status[mailbox[i][n].item[1]] = "matched"
      BY <2>1 DEF MailInv
    <2>3. mailbox[i][n].item[1] \in Orders
      BY <2>1, MessageParts DEF Inv, TypeOK
    <2> QED  BY <2>2, <2>3 DEF Grows
  <1> HIDE DEF Grows
  <1> QED  BY <1>2, <1>3, <1>4 DEF InPlace

\* Every item that was there before a step is recorded and in order after it.
LEMMA OldItems ==
    ASSUME Inv, MailInv, Grows, NEW i \in Identities, NEW n \in DOMAIN mailbox[i]
    PROVE  InPlace(i, n)' /\ \A x : x = mailbox'[i][n] => Recorded(x)'
  <1>1. mailbox'[i][n] = mailbox[i][n] /\ mailbox[i][n] \in Items
    BY BoxTyped DEF Inv, Grows
  <1>2. Recorded(mailbox[i][n])
    BY DEF MailInv
  <1> QED  BY <1>1, <1>2, RecordedStays, InPlaceStays

\* The two traders of a matched order are different identities.
LEMMA Traders ==
    ASSUME Inv, NEW o \in Orders, status[o] = "matched"
    PROVE  /\ match[o] \in Matches
           /\ match[o][1] \in stored /\ match[o][1] \in Acceptances
           /\ OrderOf(match[o][1]) = o
           /\ MakerOf(o) \in Identities /\ TakerOf(match[o][1]) \in Identities
           /\ TakerOf(match[o][1]) # MakerOf(o)
           /\ Participants(o) \subseteq Identities
  <1>1. /\ match[o] # <<>> /\ OrderOf(match[o][1]) = o /\ match[o][1] \in stored
    BY DEF Inv, MatchXorCancel
  <1>2. match[o] \in Matches
    BY <1>1 DEF Inv, TypeOK
  <1>3. match[o][1] \in Acceptances
    BY <1>2, MatchParts
  <1>4. TakerOf(match[o][1]) \in Identities /\ TakerOf(match[o][1]) # MakerOf(o)
    BY <1>1, <1>3, AcceptanceParts DEF Identities
  <1> QED  BY <1>1, <1>2, <1>3, <1>4, MakerIsIdentity DEF Participants

\* The tables that a step without a delivery leaves alone stay delivered.
LEMMA TablesStay ==
    ASSUME Inv, MailInv, Grows
    PROVE  /\ \A a \in stored : Holds(mailbox'[MakerOf(OrderOf(a))], Entry("acceptance", a))
           /\ \A o \in Orders : status[o] = "matched" =>
                  Holds(mailbox'[TakerOf(match[o][1])], Entry("match", match[o]))
           /\ \A x \in messages : status'[x[1]] = "matched"
           /\ \A o \in Orders, i \in Identities : heads[<<o, i>>] > 0 =>
                  /\ status'[o] = "matched"
                  /\ Participants(o)' = Participants(o)
                  /\ \A j \in Participants(o) \ {i} :
                         WasSent(mailbox'[j], o, i, heads[<<o, i>>])
  <1>1. ASSUME NEW a \in stored
        PROVE  Holds(mailbox'[MakerOf(OrderOf(a))], Entry("acceptance", a))
    <2>1. MakerOf(OrderOf(a)) \in Identities
      BY AcceptanceParts, MakerIsIdentity DEF Inv, TypeOK
    <2>2. Holds(mailbox[MakerOf(OrderOf(a))], Entry("acceptance", a))
      BY DEF MailInv
    <2> QED  BY <2>1, <2>2, HoldsStays
  <1>2. ASSUME NEW o \in Orders, status[o] = "matched"
        PROVE  Holds(mailbox'[TakerOf(match[o][1])], Entry("match", match[o]))
    <2>1. Holds(mailbox[TakerOf(match[o][1])], Entry("match", match[o]))
      BY <1>2 DEF MailInv
    <2> QED  BY <1>2, <2>1, Traders, HoldsStays
  <1>3. ASSUME NEW x \in messages PROVE status'[x[1]] = "matched"
    <2>1. x[1] \in Orders
      BY MessageParts DEF Inv, TypeOK
    <2> QED  BY <2>1 DEF MailInv, Grows
  <1>4. ASSUME NEW o \in Orders, NEW i \in Identities, heads[<<o, i>>] > 0
        PROVE  /\ status'[o] = "matched"
               /\ Participants(o)' = Participants(o)
               /\ \A j \in Participants(o) \ {i} :
                      WasSent(mailbox'[j], o, i, heads[<<o, i>>])
    <2>1. status[o] = "matched"
      BY <1>4 DEF MailInv
    <2>2. Participants(o)' = Participants(o) /\ Participants(o) \subseteq Identities
      BY <2>1, Traders DEF Participants, Grows
    <2>3. \A j \in Participants(o) \ {i} : WasSent(mailbox[j], o, i, heads[<<o, i>>])
      BY <1>4 DEF MailInv
    <2> QED  BY <2>1, <2>2, <2>3, HoldsStays DEF Grows
  <1> QED  BY <1>1, <1>2, <1>3, <1>4

\* A step that delivers nothing.
LEMMA NothingDelivered ==
    ASSUME Inv, MailInv,
           UNCHANGED <<stored, messages, heads, mailbox>>,
           \A o \in Orders : status[o] = "matched" =>
               status'[o] = "matched" /\ match'[o] = match[o],
           \A o \in Orders : status'[o] = "matched" => status[o] = "matched"
    PROVE  MailInv'
  <1>1. Grows
    BY DEF Grows
  <1>2. ASSUME NEW i \in Identities, NEW n \in DOMAIN mailbox'[i]
        PROVE  (Recorded(mailbox[i][n]) /\ InPlace(i, n))'
    BY <1>1, OldItems
  <1>3. \A o \in Orders : status'[o] = "matched" =>
            Holds(mailbox'[TakerOf(match'[o][1])], Entry("match", match'[o]))
    BY <1>1, TablesStay
  <1> QED  BY <1>1, <1>2, <1>3, TablesStay DEF MailInv

\* A new item that is not a message is in order when it is new to the mailbox.
LEMMA NewItem ==
    ASSUME TypeOK, NEW i \in Identities, NEW kind \in {"acceptance", "match"}, NEW item,
           Entry(kind, item) \in Items, appendMailbox(i, kind, item),
           ~Holds(mailbox[i], Entry(kind, item))
    PROVE  \A n : n = Len(mailbox[i]) + 1 => InPlace(i, n)'
  <1> DEFINE last == Len(mailbox[i]) + 1
  <1>1. /\ last \in DOMAIN mailbox'[i]
        /\ 1..(last - 1) = DOMAIN mailbox[i]
        /\ mailbox'[i][last] = Entry(kind, item)
        /\ \A k \in DOMAIN mailbox[i] : mailbox'[i][k] = mailbox[i][k]
    BY Appended
  <1>2. \A k \in 1..(last - 1) : mailbox'[i][k] # mailbox'[i][last]
    BY <1>1 DEF Holds
  <1>3. mailbox'[i][last].kind # "message"
    BY <1>1 DEF Entry
  <1> HIDE DEF last
  <1>4. \A n : n = last => InPlace(i, n)'
    BY <1>2, <1>3 DEF InPlace
  <1> QED  BY <1>4 DEF last

\* A stored acceptance is put at the end of the maker's mailbox.
LEMMA SubmitDelivered ==
    ASSUME Inv, MailInv, NEW a \in Acceptances, SubmitAcceptance(a)
    PROVE  MailInv'
  <1> DEFINE i == MakerOf(OrderOf(a))
             last == Len(mailbox[i]) + 1
  <1>1. /\ a \notin stored
        /\ stored' = stored \cup {a}
        /\ appendMailbox(i, "acceptance", a)
        /\ UNCHANGED <<status, match, messages, heads>>
    BY DEF SubmitAcceptance, SubmitReply
  <1>2. i \in Identities /\ Entry("acceptance", a) \in Items
    BY AcceptanceParts, MakerIsIdentity DEF Items, Entry
  <1>3. TypeOK
    BY DEF Inv
  <1>4. /\ \A j \in Identities :
               /\ DOMAIN mailbox[j] \subseteq DOMAIN mailbox'[j]
               /\ \A k \in DOMAIN mailbox[j] : mailbox'[j][k] = mailbox[j][k]
               /\ \A n \in DOMAIN mailbox'[j] :
                      n \in DOMAIN mailbox[j] \/ (j = i /\ n = last)
        /\ last \in DOMAIN mailbox'[i]
        /\ mailbox'[i][last] = Entry("acceptance", a)
    BY <1>1, <1>2, <1>3, Appended
  <1>5. Grows
    BY <1>1, <1>4 DEF Grows
  <1>6. ~Holds(mailbox[i], Entry("acceptance", a))
    <2> SUFFICES ASSUME NEW k \in DOMAIN mailbox[i], mailbox[i][k] = Entry("acceptance", a)
                 PROVE  FALSE
      BY DEF Holds
    <2>1. Recorded(mailbox[i][k])
      BY <1>2 DEF MailInv
    <2> QED  BY <1>1, <2>1 DEF Recorded, Entry
  <1> HIDE DEF last, i
  <1>7. \A n : n = last => InPlace(i, n)'
    BY <1>1, <1>2, <1>3, <1>6, NewItem DEF last
  <1>8. \A x : x = mailbox'[i][last] => Recorded(x)'
    BY <1>1, <1>4 DEF Recorded, Entry
  <1>9. ASSUME NEW j \in Identities, NEW n \in DOMAIN mailbox'[j]
        PROVE  (Recorded(mailbox[j][n]) /\ InPlace(j, n))'
    BY <1>4, <1>5, <1>7, <1>8, OldItems
  <1>10. \A b \in stored' : Holds(mailbox'[MakerOf(OrderOf(b))], Entry("acceptance", b))
    <2>1. Holds(mailbox'[i], Entry("acceptance", a))
      BY <1>4 DEF Holds
    <2> QED  BY <1>1, <1>5, <2>1, TablesStay DEF i
  <1>11. UNCHANGED <<status, match, messages, heads>>
    BY <1>1
  <1> QED  BY <1>5, <1>9, <1>10, <1>11, TablesStay DEF MailInv

\* A stored match is put at the end of the taker's mailbox.
LEMMA MatchDelivered ==
    ASSUME Inv, MailInv, NEW m \in Matches, ConfirmMatch(m)
    PROVE  MailInv'
  <1> DEFINE a == m[1]
             o == OrderOf(a)
             i == TakerOf(a)
             last == Len(mailbox[i]) + 1
  <1>1. /\ IsOpen(o)
        /\ status' = [status EXCEPT ![o] = "matched"]
        /\ match' = [match EXCEPT ![o] = m]
        /\ appendMailbox(i, "match", m)
        /\ UNCHANGED <<stored, messages, heads>>
    <2>1. match[o] # m
      BY DEF ConfirmMatch, MatchReply
    <2> QED  BY <2>1 DEF ConfirmMatch, MatchReply
  <1>2. /\ o \in Orders /\ i \in Identities
        /\ Entry("match", m) \in Items
    BY MatchParts, AcceptanceParts DEF Items, Entry, Identities
  <1>3. TypeOK /\ status[o] = "open"
    BY <1>1, <1>2, OpenStatus DEF Inv
  <1>4. /\ \A j \in Identities :
               /\ DOMAIN mailbox[j] \subseteq DOMAIN mailbox'[j]
               /\ \A k \in DOMAIN mailbox[j] : mailbox'[j][k] = mailbox[j][k]
               /\ \A n \in DOMAIN mailbox'[j] :
                      n \in DOMAIN mailbox[j] \/ (j = i /\ n = last)
        /\ last \in DOMAIN mailbox'[i]
        /\ mailbox'[i][last] = Entry("match", m)
    BY <1>1, <1>2, <1>3, Appended
  <1>5. /\ status'[o] = "matched" /\ match'[o] = m
        /\ \A q \in Orders : q # o => status'[q] = status[q] /\ match'[q] = match[q]
    BY <1>1, <1>2, <1>3 DEF TypeOK
  <1>6. Grows
    BY <1>1, <1>3, <1>4, <1>5 DEF Grows
  <1>7. ~Holds(mailbox[i], Entry("match", m))
    <2> SUFFICES ASSUME NEW k \in DOMAIN mailbox[i], mailbox[i][k] = Entry("match", m)
                 PROVE  FALSE
      BY DEF Holds
    <2>1. Recorded(mailbox[i][k])
      BY <1>2 DEF MailInv
    <2> QED  BY <1>3, <2>1 DEF Recorded, Entry
  <1>8. \A n : n = last => InPlace(i, n)'
    <2> HIDE DEF i
    <2> QED  BY <1>1, <1>2, <1>3, <1>7, NewItem
  <1>9. \A x : x = mailbox'[i][last] => Recorded(x)'
    BY <1>4, <1>5 DEF Recorded, Entry
  <1>10. Holds(mailbox'[i], Entry("match", m))
    BY <1>4 DEF Holds
  <1> HIDE DEF last
  <1>11. ASSUME NEW j \in Identities, NEW n \in DOMAIN mailbox'[j]
        PROVE  (Recorded(mailbox[j][n]) /\ InPlace(j, n))'
    BY <1>4, <1>6, <1>8, <1>9, OldItems
  <1>12. ASSUME NEW q \in Orders, status'[q] = "matched"
         PROVE  Holds(mailbox'[TakerOf(match'[q][1])], Entry("match", match'[q]))
    <2>1. CASE q = o
      BY <1>5, <1>10, <2>1
    <2>2. CASE q # o
      BY <1>5, <1>6, <1>12, <2>2, TablesStay
    <2> QED  BY <2>1, <2>2
  <1>13. UNCHANGED <<stored, messages, heads>>
    BY <1>1
  <1> QED  BY <1>6, <1>11, <1>12, <1>13, TablesStay DEF MailInv

\* A message follows its sender's previous one, and comes after the item that
\* told the recipient of the match.
LEMMA MessageDelivered ==
    ASSUME Inv, MailInv, NEW x \in Messages, PublishMessage(x)
    PROVE  MailInv'
  <1> DEFINE o == x[1]
             s == x[2]
  <1>0. PICK i : i = CHOOSE j \in Participants(o) : j # s
    OBVIOUS
  <1> DEFINE last == Len(mailbox[i]) + 1
  <1>1. /\ status[o] = "matched" /\ s \in Participants(o)
        /\ x \notin messages
        /\ IsNext(x)
        /\ messages' = messages \cup {x}
        /\ heads' = [heads EXCEPT ![<<o, s>>] = x[3]]
        /\ appendMailbox(i, "message", x)
        /\ UNCHANGED <<status, match, stored>>
    BY <1>0 DEF PublishMessage, PublishReply
  <1>2. /\ o \in Orders /\ s \in Identities /\ x[3] \in Nat
        /\ x[3] = heads[<<o, s>>] + 1
        /\ heads[<<o, s>>] \in Nat
        /\ heads \in [Orders \X Identities -> 0..MaxSequence]
    BY <1>1, MessageParts, LimitsAssumption DEF IsNext, Inv, TypeOK
  <1>3. TypeOK /\ Entry("message", x) \in Items
    BY DEF Inv, Items, Entry
  <1>4. /\ i \in Participants(o) /\ i # s /\ i \in Identities
        /\ \A j \in Participants(o) \ {s} : j = i
    <2>1. Participants(o) = {MakerOf(o), TakerOf(match[o][1])}
      BY DEF Participants
    <2>2. TakerOf(match[o][1]) # MakerOf(o) /\ Participants(o) \subseteq Identities
      BY <1>1, <1>2, Traders
    <2>3. \E j \in Participants(o) : j # s
      BY <2>1, <2>2
    <2>4. i \in Participants(o) /\ i # s
      BY <1>0, <2>3
    <2> QED  BY <1>1, <2>1, <2>2, <2>4
  <1>5. /\ \A j \in Identities :
               /\ DOMAIN mailbox[j] \subseteq DOMAIN mailbox'[j]
               /\ \A k \in DOMAIN mailbox[j] : mailbox'[j][k] = mailbox[j][k]
               /\ \A n \in DOMAIN mailbox'[j] :
                      n \in DOMAIN mailbox[j] \/ (j = i /\ n = last)
        /\ last \in DOMAIN mailbox'[i]
        /\ 1..(last - 1) = DOMAIN mailbox[i]
        /\ mailbox'[i][last] = Entry("message", x)
    BY <1>1, <1>3, <1>4, Appended
  <1>6. Grows
    BY <1>1, <1>5 DEF Grows
  <1> HIDE DEF last
  <1>7. \A k \in DOMAIN mailbox[i] : mailbox[i][k] # Entry("message", x)
    <2> SUFFICES ASSUME NEW k \in DOMAIN mailbox[i], mailbox[i][k] = Entry("message", x)
                 PROVE  FALSE
      OBVIOUS
    <2>1. Recorded(mailbox[i][k])
      BY <1>4 DEF MailInv
    <2> QED  BY <1>1, <2>1 DEF Recorded, Entry
  <1>8. x[3] > 1 => WasSent(mailbox[i], o, s, x[3] - 1)
    <2> SUFFICES ASSUME x[3] > 1 PROVE WasSent(mailbox[i], o, s, heads[<<o, s>>])
      BY <1>2
    <2>1. heads[<<o, s>>] > 0
      BY <1>2
    <2> QED  BY <1>2, <1>4, <2>1 DEF MailInv
  <1>9. \E k \in DOMAIN mailbox[i] :
            IF i = MakerOf(o)
            THEN mailbox[i][k] = Entry("acceptance", match[o][1])
            ELSE mailbox[i][k] = Entry("match", match[o])
    <2>1. CASE i = MakerOf(o)
      <3>1. match[o][1] \in stored /\ OrderOf(match[o][1]) = o
        BY <1>1, <1>2, Traders
      <3>2. Holds(mailbox[i], Entry("acceptance", match[o][1]))
        BY <2>1, <3>1 DEF MailInv
      <3> QED  BY <2>1, <3>2 DEF Holds
    <2>2. CASE i # MakerOf(o)
      <3>1. i = TakerOf(match[o][1])
        BY <1>4, <2>2 DEF Participants
      <3>2. Holds(mailbox[i], Entry("match", match[o]))
        BY <1>1, <1>2, <3>1 DEF MailInv
      <3> QED  BY <2>2, <3>2 DEF Holds
    <2> QED  BY <2>1, <2>2
  <1>10. \A n : n = last => InPlace(i, n)'
    <2> SUFFICES ASSUME NEW n, n = last PROVE InPlace(i, n)'
      OBVIOUS
    <2>1. /\ mailbox'[i][n] = Entry("message", x)
          /\ 1..(n - 1) = DOMAIN mailbox[i]
          /\ \A k \in 1..(n - 1) : mailbox'[i][k] = mailbox[i][k]
          /\ match' = match
      BY <1>1, <1>4, <1>5
    <2>2. /\ mailbox'[i][n].kind = "message" /\ mailbox'[i][n].item = x
          /\ \A k \in 1..(n - 1) : mailbox'[i][k] # mailbox'[i][n]
      <3>1. \A k \in 1..(n - 1) : mailbox'[i][k] # mailbox'[i][n]
        BY <1>7, <2>1
      <3> QED  BY <2>1, <3>1 DEF Entry
    <2>3. x[3] > 1 => \E k \in 1..(n - 1) :
                          /\ mailbox'[i][k].kind = "message"
                          /\ mailbox'[i][k].item[1] = x[1]
                          /\ mailbox'[i][k].item[2] = x[2]
                          /\ mailbox'[i][k].item[3] = x[3] - 1
      BY <1>8, <2>1 DEF WasSent
    <2>4. \E k \in 1..(n - 1) :
              IF i = MakerOf(x[1])
              THEN mailbox'[i][k] = [kind |-> "acceptance", item |-> match'[x[1]][1]]
              ELSE mailbox'[i][k] = [kind |-> "match", item |-> match'[x[1]]]
      BY <1>9, <2>1 DEF Entry
    <2> QED  BY <2>2, <2>3, <2>4 DEF InPlace
  <1>11. \A y : y = mailbox'[i][last] => Recorded(y)'
    BY <1>1, <1>5 DEF Recorded, Entry
  <1>12. ASSUME NEW j \in Identities, NEW n \in DOMAIN mailbox'[j]
         PROVE  (Recorded(mailbox[j][n]) /\ InPlace(j, n))'
    BY <1>5, <1>6, <1>10, <1>11, OldItems
  <1>13. WasSent(mailbox'[i], o, s, x[3])
    BY <1>5 DEF WasSent, Entry
  <1>14. ASSUME NEW q \in Orders, NEW j \in Identities, heads'[<<q, j>>] > 0
         PROVE  /\ status'[q] = "matched"
                /\ \A p \in Participants(q)' \ {j} :
                       WasSent(mailbox'[p], q, j, heads'[<<q, j>>])
    <2>1. CASE q = o /\ j = s
      <3>1. Participants(q)' = Participants(q)
        BY <1>1 DEF Participants
      <3>2. heads'[<<q, j>>] = x[3]
        BY <1>1, <1>2, <2>1
      <3> QED  BY <1>1, <1>4, <1>13, <2>1, <3>1, <3>2
    <2>2. CASE ~(q = o /\ j = s)
      <3>1. heads'[<<q, j>>] = heads[<<q, j>>]
        BY <1>1, <1>2, <2>2
      <3>2. /\ status'[q] = "matched"
            /\ Participants(q)' = Participants(q)
            /\ \A p \in Participants(q) \ {j} :
                   WasSent(mailbox'[p], q, j, heads[<<q, j>>])
        BY <1>6, <1>14, <3>1, TablesStay
      <3> QED  BY <3>1, <3>2
    <2> QED  BY <2>1, <2>2
  <1>15. \A y \in messages' : status'[y[1]] = "matched"
    BY <1>1, <1>6, TablesStay
  <1>16. UNCHANGED <<status, match, stored>>
    BY <1>1
  <1> QED  BY <1>6, <1>12, <1>14, <1>15, <1>16, TablesStay DEF MailInv

\* Empty mailboxes are in order.
LEMMA MailInitially == Init => MailInv
  <1> SUFFICES ASSUME Init PROVE MailInv
    OBVIOUS
  <1>1. \A i \in Identities : DOMAIN mailbox[i] = {}
    BY DEF Init
  <1>2. \A o \in Orders, i \in Identities : ~(heads[<<o, i>>] > 0)
    BY DEF Init
  <1> QED  BY <1>1, <1>2 DEF Init, MailInv

\* Every request keeps every mailbox in order.
LEMMA MailStep == Inv /\ MailInv /\ [Next]_storeVars => MailInv'
  <1> SUFFICES ASSUME Inv, MailInv, [Next]_storeVars PROVE MailInv'
    OBVIOUS
  <1>1. CASE \E a \in Acceptances : SubmitAcceptance(a)
    BY <1>1, SubmitDelivered
  <1>2. CASE \E m \in Matches : ConfirmMatch(m)
    BY <1>2, MatchDelivered
  <1>3. CASE \E x \in Messages : PublishMessage(x)
    BY <1>3, MessageDelivered
  <1>4. CASE \E o \in Orders : Publish(o)
    <2>1. PICK o \in Orders : Publish(o)
      BY <1>4
    <2>2. /\ \A q \in Orders : status[q] = "matched" => status'[q] = "matched"
          /\ \A q \in Orders : status'[q] = "matched" => status[q] = "matched"
      BY <2>1 DEF Publish, Inv, TypeOK
    <2> QED  BY <2>1, <2>2, NothingDelivered DEF Publish
  <1>5. CASE \E o \in Orders : Cancel(o)
    <2>1. PICK o \in Orders : Cancel(o)
      BY <1>5
    <2>2. status[o] = "open"
      <3>1. IsOpen(o)
        BY <2>1 DEF Cancel, CancelReply
      <3> QED  BY <3>1, OpenStatus DEF Inv
    <2>3. /\ \A q \in Orders : status[q] = "matched" => status'[q] = "matched"
          /\ \A q \in Orders : status'[q] = "matched" => status[q] = "matched"
      BY <2>1, <2>2 DEF Cancel, Inv, TypeOK
    <2> QED  BY <2>1, <2>3, NothingDelivered DEF Cancel
  <1>6. CASE UNCHANGED <<status, match, stored, messages, heads, mailbox>>
    BY <1>6, NothingDelivered
  <1> QED  BY <1>1, <1>2, <1>3, <1>4, <1>5, <1>6
           DEF Next, storeVars, ExpireOrder, ExpireAcceptance, CancelAcceptance

\* A trader that works through its mailbox meets no item twice, no message
\* before the one its sender numbered before it, and none before the item that
\* lets it create the trade (appendMailbox, PublishMessage).
THEOREM MailReadInOrder == Spec => []MailboxInOrder
  <1>1. MailInv => MailboxInOrder
    BY InOrderIsInPlace DEF MailInv
  <1> QED  BY <1>1, MailInitially, MailStep, Invariance, PTL DEF Spec
=============================================================================
