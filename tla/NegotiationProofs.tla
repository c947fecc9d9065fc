-------------------------- MODULE NegotiationProofs --------------------------
(***************************************************************************)
(* Proofs about the negotiation for every set of traders, orders and       *)
(* coins, every limit and any number of faults: each of its steps is a     *)
(* step of the relay's store, both traders and the relay agree on one      *)
(* match, and what can still be matched stays reserved.                    *)
(***************************************************************************)
EXTENDS Negotiation, RelayStoreProofs

-----------------------------------------------------------------------------
(* The invariant *)

\* Who is where: the user's thread does not work on the mailbox, the worker
\* does not sign acceptances.
UserSteps ==
    {"idle", "prepared", "accepting", "cancelling", "releasing", "removing",
     "matching", "confirming", "handled"}
MakerSteps == {"received", "matching", "confirming", "handled"}
TakerSteps == {"prepared", "accepting", "cancelling", "releasing", "removing", "checking"}
ItemSteps == {"joined", "received", "matching", "confirming", "handled", "advancing"}

\* Thread x may be at step s with acceptance a.
Stands(x, s, a) ==
    /\ a \in Acceptances \cup {<<>>}
    /\ s \in (IF IsWorker(x) THEN Steps \ {"prepared"} ELSE UserSteps)
    /\ s \in MakerSteps => a \in Acceptances /\ MakerOf(OrderOf(a)) = Client(x)
    /\ s \in TakerSteps => a \in Acceptances /\ TakerOf(a) = Client(x)

Places ==
    /\ \A x \in Threads : Stands(x, pc[x], at[x])
    /\ \A x \in Threads : pc[x] = "joined" => SwapOf(takerSwaps, at[x]) # {}
    /\ \A x \in Threads : pc[x] = "confirming" => SwapOf(makerSwaps, at[x]) # {}
    /\ \A x \in Threads : IsWorker(x) /\ pc[x] \in ItemSteps => HasMail(Client(x))
    /\ \A i \in Identities : \A a \in todo[i] : TakerOf(a) = i

\* negotiationMu excludes.
Exclusive ==
    \A x, y \in Threads :
        Client(x) = Client(y) /\ HoldsLock(x) /\ HoldsLock(y) => x = y

\* A maker's mailbox has the acceptances of its own orders.
Addressed ==
    \A i \in Identities : \A n \in DOMAIN mailbox[i] :
        mailbox[i][n].kind = "acceptance" => MakerOf(OrderOf(mailbox[i][n].item)) = i

\* A match on its way is journaled, or was refused for good.
WireJournaled ==
    \A r \in wire : r.op = "match" => r.of \in makerSwaps \/ Tombstoned(r.of[1])

\* a is in its taker's journal, as an acceptance or as a swap.
Held(a) == a \in pendingAcceptances \/ SwapOf(takerSwaps, a) # {}

\* The relay has a, or may get it from a thread or from the network.
HandSteps == {"accepting", "cancelling", "checking"}
InHand(a) == \E x \in Threads : at[x] = a /\ pc[x] \in HandSteps
Underway(a) ==
    \/ a \in stored
    \/ [op |-> "accept", of |-> a] \in wire
    \/ InHand(a)
    \/ \E i \in Identities : a \in todo[i]

\* No match of a can win any more, or its taker's early clock holds that none can.
Over(a) ==
    \/ Tombstoned(a)
    \/ status[OrderOf(a)] # "none" /\ ~IsOpen(OrderOf(a)) /\ ~Selected(a)
    \/ RanAhead(TakerOf(a), OrderOf(a))

\* What is under way and can still be matched is in the journal, and locked.
Reserved ==
    /\ \A a \in Acceptances : Underway(a) => Held(a) \/ Over(a)
    /\ LocksSurvive => \A a \in Acceptances : Held(a) => a \in locked \/ Over(a)

\* What is unlocked and removed is over.
ReleasedIsOver == \A x \in Threads : pc[x] \in {"releasing", "removing"} => Over(at[x])

\* What is being signed is new.
PreparedIsNew ==
    /\ \A x \in Threads : pc[x] = "prepared" =>
           /\ ~Underway(at[x]) /\ ~Held(at[x])
           /\ funding[at[x]] # 0
           /\ LocksSurvive => at[x] \in locked
    /\ \A a \in Acceptances : Underway(a) \/ Held(a) => funding[a] # 0
    /\ \A a \in Acceptances : funding[a] # 0 => status[OrderOf(a)] # "none"

NegotiationInv ==
    /\ NegotiationTypeOK /\ Inv /\ MailInv /\ Addressed
    /\ Places /\ Exclusive
    /\ OneMatch /\ WireJournaled
    /\ Reserved /\ ReleasedIsOver /\ PreparedIsNew

\* Only a clock that is ahead of the relay's passes a deadline before it does,
\* and a client dates its cancellation after the acceptance.
ClocksInv ==
    /\ predated = {}
    /\ passed \in SUBSET (Identities \X Orders)
    /\ early \in SUBSET passed
    /\ \A p \in passed : p \in early \/ p[2] \in late
    /\ \A p \in early : p[1] \in Ahead

\* What every step has for granted about the clocks: none goes back.
Steady ==
    /\ ClocksInv
    /\ early \subseteq early'
    /\ early' \in SUBSET passed'
    /\ passed' \in SUBSET (Identities \X Orders)

-----------------------------------------------------------------------------
(* Threads, requests and the relay *)

\* A client has two threads, and they differ in kind.
LEMMA ThreadParts ==
    /\ \A x \in Threads : Client(x) \in Identities
    /\ \A x, y \in Threads : Client(x) = Client(y) /\ (IsWorker(x) <=> IsWorker(y)) => x = y
    /\ \A i \in Identities : /\ <<i, "user">> \in Threads
                             /\ Client(<<i, "user">>) = i
                             /\ ~IsWorker(<<i, "user">>)
  BY DEF Threads, Client, IsWorker

\* What a request is about.
LEMMA RequestParts ==
    ASSUME NEW r \in Requests
    PROVE  /\ r.op \in {"accept", "cancel", "match"}
           /\ r.op \in {"accept", "cancel"} => r.of \in Acceptances /\ TakerOf(r.of) \in Takers
           /\ r.op = "match" => r.of \in Matches
  BY AcceptanceParts DEF Requests

\* A request that the relay serves is one of its operations.
LEMMA ServedByRelay ==
    ASSUME NEW r \in Requests, Serve(r)
    PROVE  [Next]_storeVars
  <1>1. CASE r.op = "accept" /\ SubmitAcceptance(r.of)
    BY <1>1, RequestParts DEF Next
  <1>2. CASE r.op = "cancel" /\ CancelAcceptance(r.of, TakerOf(r.of), "after")
    BY <1>2, RequestParts DEF Next, Dates
  <1>3. CASE r.op = "match" /\ ConfirmMatch(r.of)
    BY <1>3, RequestParts DEF Next
  <1>4. CASE UNCHANGED storeVars
    BY <1>4
  <1> QED  BY <1>1, <1>2, <1>3, <1>4 DEF Serve

\* A mailbox item that waits is recorded in the store.
LEMMA ItemParts ==
    ASSUME TypeOK, MailInv, Addressed, cursor \in [Identities -> Nat],
           NEW i \in Identities, HasMail(i)
    PROVE  /\ Item(i) \in Items
           /\ Item(i).kind = "acceptance" =>
                  /\ Item(i).item \in Acceptances /\ Item(i).item \in stored
                  /\ MakerOf(OrderOf(Item(i).item)) = i
           /\ Item(i).kind = "match" =>
                  /\ Item(i).item \in Matches /\ Item(i).item[1] \in Acceptances
                  /\ OrderOf(Item(i).item[1]) \in Orders
                  /\ Selected(Item(i).item[1])
                  /\ match[OrderOf(Item(i).item[1])] = Item(i).item
  <1> DEFINE n == cursor[i] + 1
  <1>1. n \in DOMAIN mailbox[i] /\ mailbox[i][n] \in Items
    BY BoxTyped DEF HasMail
  <1>2. Recorded(mailbox[i][n])
    BY <1>1 DEF MailInv
  <1>3. mailbox[i][n].kind = "acceptance" => MakerOf(OrderOf(mailbox[i][n].item)) = i
    BY <1>1 DEF Addressed
  <1>4. /\ mailbox[i][n].kind = "acceptance" => mailbox[i][n].item \in Acceptances
        /\ mailbox[i][n].kind = "match" => mailbox[i][n].item \in Matches
    BY <1>1 DEF Items
  <1>5. Item(i) = mailbox[i][n]
    BY DEF Item
  <1> HIDE DEF n
  <1>6. ASSUME Item(i).kind = "match"
        PROVE  /\ Item(i).item \in Matches /\ Item(i).item[1] \in Acceptances
               /\ OrderOf(Item(i).item[1]) \in Orders
               /\ Selected(Item(i).item[1])
               /\ match[OrderOf(Item(i).item[1])] = Item(i).item
    <2>1. Item(i).item \in Matches /\ Item(i).item[1] \in Acceptances
      BY <1>4, <1>5, <1>6, MatchParts
    <2>2. OrderOf(Item(i).item[1]) \in Orders
      BY <2>1, AcceptanceParts
    <2> QED  BY <1>2, <1>5, <1>6, <2>1, <2>2 DEF Recorded, Selected
  <1> QED  BY <1>1, <1>2, <1>3, <1>4, <1>5, <1>6 DEF Recorded

-----------------------------------------------------------------------------
(* What the relay does not take back *)

\* A step of the store takes nothing back: not a match, a cancellation, a
\* mailbox item or a closed order.
Onward ==
    /\ stored \subseteq stored'
    /\ \A o \in Orders : /\ status[o] = "matched" => status'[o] = "matched" /\ match'[o] = match[o]
                         /\ status[o] # "none" => status'[o] # "none"
    /\ \A a \in Acceptances : /\ Tombstoned(a) => Tombstoned(a)'
                              /\ Selected(a) => Selected(a)'
                              /\ Over(a) => Over(a)'
    /\ \A i \in Identities : Len(mailbox[i]) <= Len(mailbox'[i])
    /\ Addressed => Addressed'

\* Mailboxes that stay as they are.
LEMMA MailSame ==
    ASSUME TypeOK, mailbox' = mailbox
    PROVE  /\ \A i \in Identities : Len(mailbox[i]) <= Len(mailbox'[i])
           /\ Addressed => Addressed'
  BY BoxTyped DEF Addressed

\* An item at the end of a mailbox leaves the others in place.
LEMMA MailMore ==
    ASSUME TypeOK,
           NEW j \in Identities, NEW kind, NEW item,
           Entry(kind, item) \in Items, appendMailbox(j, kind, item),
           kind = "acceptance" => MakerOf(OrderOf(item)) = j
    PROVE  /\ \A i \in Identities : Len(mailbox[i]) <= Len(mailbox'[i])
           /\ Addressed => Addressed'
  <1> DEFINE last == Len(mailbox[j]) + 1
  <1>1. /\ \A i \in Identities :
               /\ DOMAIN mailbox[i] \subseteq DOMAIN mailbox'[i]
               /\ \A k \in DOMAIN mailbox[i] : mailbox'[i][k] = mailbox[i][k]
               /\ \A n \in DOMAIN mailbox'[i] :
                      n \in DOMAIN mailbox[i] \/ (i = j /\ n = last)
        /\ mailbox'[j][last] = Entry(kind, item)
    BY Appended
  <1>2. \A i \in Identities : Len(mailbox'[i]) \in {Len(mailbox[i]), Len(mailbox[i]) + 1}
    <2>1. mailbox'[j] = Append(mailbox[j], Entry(kind, item)) /\ mailbox[j] \in Seq(Items)
      BY DEF appendMailbox, TypeOK, Entry
    <2>2. Len(mailbox'[j]) = Len(mailbox[j]) + 1
      BY <2>1
    <2>3. \A i \in Identities : i # j => mailbox'[i] = mailbox[i]
      BY DEF appendMailbox, TypeOK
    <2> QED  BY <2>2, <2>3
  <1>3. \A i \in Identities : Len(mailbox[i]) \in Nat
    BY BoxTyped
  <1>4. \A i \in Identities : Len(mailbox[i]) <= Len(mailbox'[i])
    BY <1>2, <1>3
  <1>5. Addressed => Addressed'
    <2> HIDE DEF last
    <2> QED  BY <1>1 DEF Addressed, Entry
  <1> QED  BY <1>4, <1>5

\* The parts of an acceptance that is over.
LEMMA OverStays ==
    ASSUME NEW a \in Acceptances, Over(a),
           tombstones \subseteq tombstones', late \subseteq late', early \subseteq early',
           status'[OrderOf(a)] = status[OrderOf(a)]
             \/ (status[OrderOf(a)] \in {"none", "open"} /\ IsOpen(OrderOf(a)))
             \/ status[OrderOf(a)] = "none",
           match'[OrderOf(a)] = match[OrderOf(a)]
             \/ IsOpen(OrderOf(a))
    PROVE  Over(a)'
  BY DEF Over, Tombstoned, IsOpen, EffectiveStatus, Selected, RanAhead

\* No operation of the relay goes back.
LEMMA RelayOnward ==
    ASSUME Inv, Steady, [Next]_storeVars
    PROVE  Onward
  <1>0. /\ TypeOK /\ \A a \in Acceptances : OrderOf(a) \in Orders
        /\ early \subseteq early'
    BY AcceptanceParts DEF Inv, Steady
  <1>1. CASE \E o \in Orders : Publish(o)
    <2>1. PICK o \in Orders : Publish(o)
      BY <1>1
    <2>2. /\ mailbox' = mailbox
          /\ UNCHANGED <<match, late, stored, tombstones>>
          /\ status[o] = "none"
          /\ status' = [status EXCEPT ![o] = "open"]
      BY <2>1 DEF Publish
    <2>3. \A q \in Orders : status'[q] = status[q] \/ status[q] = "none"
      BY <1>0, <2>2 DEF TypeOK
    <2>4. \A q \in Orders : status'[q] = "none" => status[q] = "none"
      BY <1>0, <2>2 DEF TypeOK
    <2>5. \A a \in Acceptances : Over(a) => Over(a)'
      BY <1>0, <2>2, <2>3, OverStays
    <2> QED  BY <1>0, <2>2, <2>3, <2>4, <2>5, MailSame DEF Onward, Tombstoned, Selected
  <1>2. CASE \E o \in Orders : Cancel(o)
    <2>1. PICK o \in Orders : Cancel(o)
      BY <1>2
    <2>2. IsOpen(o)
      BY <2>1 DEF Cancel, CancelReply
    <2>3. /\ mailbox' = mailbox
          /\ UNCHANGED <<match, late, stored, tombstones>>
          /\ status[o] = "open"
          /\ status' = [status EXCEPT ![o] = "cancelled"]
      BY <1>0, <2>1, <2>2, OpenStatus DEF Cancel
    <2>4. \A q \in Orders : status'[q] = status[q] \/ (status[q] = "open" /\ IsOpen(q))
      BY <1>0, <2>2, <2>3 DEF TypeOK
    <2>5. \A q \in Orders : status'[q] = "none" => status[q] = "none"
      BY <1>0, <2>3 DEF TypeOK
    <2>6. \A a \in Acceptances : Over(a) => Over(a)'
      BY <1>0, <2>3, <2>4, OverStays
    <2> QED  BY <1>0, <2>3, <2>4, <2>5, <2>6, MailSame DEF Onward, Tombstoned, Selected
  <1>3. CASE late \subseteq late' /\ tombstones \subseteq tombstones' /\ stored' = stored
             /\ UNCHANGED <<status, match, mailbox>>
    <2>1. \A a \in Acceptances : Over(a) => Over(a)'
      BY <1>0, <1>3, OverStays
    <2> QED  BY <1>0, <1>3, <2>1, MailSame DEF Onward, Tombstoned, Selected
  <1>4. CASE \E a \in Acceptances : SubmitAcceptance(a)
    <2>1. PICK a \in Acceptances : SubmitAcceptance(a)
      BY <1>4
    <2>2. /\ UNCHANGED <<status, match, late, tombstones>>
          /\ stored \subseteq stored'
          /\ appendMailbox(MakerOf(OrderOf(a)), "acceptance", a)
      BY <2>1 DEF SubmitAcceptance
    <2>3. MakerOf(OrderOf(a)) \in Identities /\ Entry("acceptance", a) \in Items
      BY AcceptanceParts, MakerIsIdentity DEF Items, Entry
    <2>4. \A b \in Acceptances : Over(b) => Over(b)'
      BY <1>0, <2>2, OverStays
    <2> QED  BY <1>0, <2>2, <2>3, <2>4, MailMore DEF Onward, Tombstoned, Selected
  <1>5. CASE \E m \in Matches : ConfirmMatch(m)
    <2>1. PICK m \in Matches : ConfirmMatch(m)
      BY <1>5
    <2> DEFINE o == OrderOf(m[1])
    <2>2. o \in Orders /\ TakerOf(m[1]) \in Identities /\ Entry("match", m) \in Items
      BY MatchParts, AcceptanceParts DEF Items, Entry, Identities
    <2>3. /\ IsOpen(o)
          /\ status' = [status EXCEPT ![o] = "matched"]
          /\ match' = [match EXCEPT ![o] = m]
          /\ appendMailbox(TakerOf(m[1]), "match", m)
          /\ UNCHANGED <<late, stored, tombstones>>
      BY <2>1 DEF ConfirmMatch, MatchReply
    <2>4. status[o] = "open"
      BY <1>0, <2>2, <2>3, OpenStatus
    <2>5. \A q \in Orders : /\ status'[q] = status[q] \/ (status[q] = "open" /\ IsOpen(q))
                            /\ match'[q] = match[q] \/ IsOpen(q)
                            /\ status[q] = "matched" => status'[q] = "matched" /\ match'[q] = match[q]
                            /\ status'[q] = "none" => status[q] = "none"
      BY <1>0, <2>2, <2>3, <2>4 DEF TypeOK
    <2>6. \A b \in Acceptances : Over(b) => Over(b)'
      BY <1>0, <2>3, <2>5, OverStays
    <2>7. /\ \A i \in Identities : Len(mailbox[i]) <= Len(mailbox'[i])
          /\ Addressed => Addressed'
      BY <1>0, <2>2, <2>3, MailMore
    <2> HIDE DEF o
    <2> QED  BY <1>0, <2>3, <2>5, <2>6, <2>7 DEF Onward, Tombstoned, Selected
  <1>6. CASE \E x \in Messages : PublishMessage(x)
    <2>1. PICK x \in Messages : PublishMessage(x)
      BY <1>6
    <2>2. PICK j : j = CHOOSE k \in Participants(x[1]) : k # x[2]
      OBVIOUS
    <2>3. /\ UNCHANGED <<status, match, late, stored, tombstones>>
          /\ appendMailbox(j, "message", x)
          /\ status[x[1]] = "matched" /\ x[2] \in Participants(x[1])
      BY <2>1, <2>2 DEF PublishMessage, PublishReply
    <2>4. j \in Identities /\ Entry("message", x) \in Items
      BY <2>2, <2>3, MessageParts, OtherParticipant DEF Items, Entry
    <2>5. \A b \in Acceptances : Over(b) => Over(b)'
      BY <1>0, <2>3, OverStays
    <2>6. /\ \A i \in Identities : Len(mailbox[i]) <= Len(mailbox'[i])
          /\ Addressed => Addressed'
      BY <1>0, <2>3, <2>4, MailMore
    <2> QED  BY <1>0, <2>3, <2>5, <2>6 DEF Onward, Tombstoned, Selected
  <1> QED  BY <1>1, <1>2, <1>3, <1>4, <1>5, <1>6
           DEF Next, storeVars, ExpireOrder, ExpireAcceptance, CancelAcceptance

-----------------------------------------------------------------------------
(* What a step has to show *)

\* The store's part of the invariant is kept by the relay alone.
LEMMA StoreKept ==
    ASSUME NegotiationInv, Steady, [Next]_storeVars
    PROVE  Inv' /\ MailInv' /\ Addressed' /\ Onward
  BY NextInv, MailStep, RelayOnward DEF NegotiationInv, Onward

\* A thread that moves leaves the other where it is.
LEMMA Moved ==
    ASSUME NegotiationTypeOK, NEW x \in Threads, NEW s, NEW a, Goto(x, s, a)
    PROVE  /\ pc'[x] = s /\ at'[x] = a
           /\ \A y \in Threads : y # x => pc'[y] = pc[y] /\ at'[y] = at[y]
           /\ s \in Steps => pc' \in [Threads -> Steps]
           /\ a \in Acceptances \cup {<<>>} => at' \in [Threads -> Acceptances \cup {<<>>}]
  BY DEF NegotiationTypeOK, Goto

\* Where the worker is done with its list.
LEMMA StopParts ==
    ASSUME NegotiationTypeOK, NEW x \in Threads, Stop(x)
    PROVE  /\ Goto(x, "idle", <<>>)
           /\ \A i \in Identities : todo'[i] \subseteq todo[i]
           /\ todo' \in [Identities -> SUBSET Acceptances]
  BY ThreadParts DEF Stop, NegotiationTypeOK

\* Where a thread goes that is done with one acceptance.
LEMMA DoneParts ==
    ASSUME NegotiationTypeOK, NEW x \in Threads, Done(x)
    PROVE  /\ \E s \in {"idle", "reconciling"} :
                  Goto(x, s, <<>>) /\ (s = "reconciling" => IsWorker(x))
           /\ \A i \in Identities : todo'[i] \subseteq todo[i]
           /\ todo' \in [Identities -> SUBSET Acceptances]
  BY StopParts DEF Done, NegotiationTypeOK

\* An item that waits still waits while its cursor stays.
LEMMA MailWaits ==
    ASSUME NegotiationTypeOK, TypeOK', Onward, NEW i \in Identities, cursor'[i] = cursor[i]
    PROVE  /\ HasMail(i) => HasMail(i)'
           /\ cursor'[i] <= Len(mailbox'[i])
  <1>1. Len(mailbox[i]) \in Nat /\ Len(mailbox'[i]) \in Nat
    BY BoxTyped DEF NegotiationTypeOK, TypeOK
  <1> QED  BY <1>1 DEF HasMail, Onward, NegotiationTypeOK

\* One thread moves to a place where it may be.
LEMMA PlacesKept ==
    ASSUME NegotiationInv, NEW x \in Threads, NEW s, NEW a, Goto(x, s, a), Stands(x, s, a),
           s = "joined" => SwapOf(takerSwaps', a) # {},
           s = "confirming" => SwapOf(makerSwaps', a) # {},
           IsWorker(x) /\ s \in ItemSteps => HasMail(Client(x))',
           takerSwaps \subseteq takerSwaps',
           \A y \in Threads : y # x /\ pc[y] = "confirming" => SwapOf(makerSwaps', at[y]) # {},
           \A y \in Threads : y # x /\ IsWorker(y) /\ HasMail(Client(y)) => HasMail(Client(y))',
           \A i \in Identities : \A b \in todo'[i] : TakerOf(b) = i
    PROVE  Places'
  <1>1. /\ pc'[x] = s /\ at'[x] = a
        /\ \A y \in Threads : y # x => pc'[y] = pc[y] /\ at'[y] = at[y]
    BY Moved DEF NegotiationInv
  <1>2. \A y \in Threads : Stands(y, pc'[y], at'[y])
    BY <1>1 DEF NegotiationInv, Places
  <1>3. \A y \in Threads : pc'[y] = "joined" => SwapOf(takerSwaps', at'[y]) # {}
    BY <1>1 DEF NegotiationInv, Places, SwapOf
  <1>4. \A y \in Threads : pc'[y] = "confirming" => SwapOf(makerSwaps', at'[y]) # {}
    BY <1>1
  <1>5. \A y \in Threads : IsWorker(y) /\ pc'[y] \in ItemSteps => HasMail(Client(y))'
    BY <1>1 DEF NegotiationInv, Places
  <1> QED  BY <1>2, <1>3, <1>4, <1>5 DEF Places, Stands, SwapOf

\* Only a thread that finds the lock free, or has it, comes to hold it.
LEMMA ExclusiveKept ==
    ASSUME NegotiationInv, NEW x \in Threads, NEW s, NEW a, Goto(x, s, a),
           \/ HoldsLock(x)
           \/ LockFree(Client(x))
           \/ s = "idle"
           \/ IsWorker(x) /\ s \in MailboxSteps
    PROVE  Exclusive'
  <1>1. /\ pc'[x] = s
        /\ \A y \in Threads : y # x => pc'[y] = pc[y]
    BY Moved DEF NegotiationInv
  <1>2. \A y \in Threads : y # x /\ HoldsLock(y)' => HoldsLock(y)
    BY <1>1 DEF HoldsLock
  <1>3. HoldsLock(x)' => HoldsLock(x) \/ LockFree(Client(x))
    BY <1>1 DEF HoldsLock
  <1>4. \A y, z \in Threads : Client(y) = Client(z) /\ HoldsLock(y) /\ HoldsLock(z) => y = z
    BY DEF NegotiationInv, Exclusive
  <1>5. LockFree(Client(x)) => \A y \in Threads : Client(y) = Client(x) => ~HoldsLock(y)
    BY DEF LockFree
  <1> QED  BY <1>2, <1>3, <1>4, <1>5 DEF Exclusive

\* The journals' swaps and the relay's matches go on agreeing.
LEMMA MatchesKept ==
    ASSUME NegotiationInv, Inv', Onward,
           \A m \in takerSwaps' : m \in takerSwaps \/ match'[OrderOf(m[1])] = m,
           \A m \in makerSwaps' \ relayMatchPending' :
               m \in makerSwaps \ relayMatchPending \/ match'[OrderOf(m[1])] = m,
           \A o \in Orders : status'[o] = "matched" =>
               \/ status[o] = "matched" /\ (match[o] \in makerSwaps => match[o] \in makerSwaps')
               \/ match'[o] \in makerSwaps',
           \A r \in wire' : r.op = "match" =>
               \/ r \in wire /\ (r.of \in makerSwaps => r.of \in makerSwaps' \/ Tombstoned(r.of[1])')
               \/ r.of \in makerSwaps'
    PROVE  OneMatch' /\ WireJournaled'
  <1>1. ASSUME NEW m \in Matches, match[OrderOf(m[1])] = m
        PROVE  match'[OrderOf(m[1])] = m
    <2>1. OrderOf(m[1]) \in Orders /\ m # <<>>
      BY MatchParts, AcceptanceParts
    <2>2. status[OrderOf(m[1])] = "matched"
      BY <1>1, <2>1 DEF NegotiationInv, Inv, MatchRecorded
    <2> QED  BY <1>1, <2>1, <2>2 DEF Onward
  <1>2. takerSwaps \subseteq Matches /\ makerSwaps \subseteq Matches
    BY DEF NegotiationInv, NegotiationTypeOK
  <1>3. \A m \in takerSwaps' \cup (makerSwaps' \ relayMatchPending') : match'[OrderOf(m[1])] = m
    BY <1>1, <1>2 DEF NegotiationInv, OneMatch
  <1>4. \A o \in Orders : status'[o] = "matched" => match'[o] \in makerSwaps'
    BY DEF NegotiationInv, OneMatch, Onward
  <1>5. \A r \in wire' : r.op = "match" => r.of \in makerSwaps' \/ Tombstoned(r.of[1])'
    <2> SUFFICES ASSUME NEW r \in wire, r.op = "match", Tombstoned(r.of[1])
                 PROVE  Tombstoned(r.of[1])'
      BY DEF NegotiationInv, WireJournaled
    <2>1. r.of[1] \in Acceptances
      BY RequestParts, MatchParts DEF NegotiationInv, NegotiationTypeOK
    <2> QED  BY <2>1 DEF Onward
  <1> QED  BY <1>3, <1>4, <1>5 DEF OneMatch, WireJournaled

\* One thread moves, and nothing that can still be matched is let go.
LEMMA BindingKept ==
    ASSUME NegotiationInv, Onward, NEW x \in Threads, NEW s, NEW a, Goto(x, s, a),
           s # "prepared",
           s \in HandSteps => Underway(a) \/ Held(a),
           s \in {"releasing", "removing"} => Over(a)',
           \A b \in stored' : Underway(b),
           \A b \in Acceptances : [op |-> "accept", of |-> b] \in wire' => Underway(b),
           \A i \in Identities : \A b \in todo'[i] : b \in todo[i] \/ Held(b),
           \A b \in Acceptances : /\ Held(b) => Held(b)' \/ Over(b)
                                  /\ Held(b)' => Held(b) \/ Underway(b)
                                  /\ LocksSurvive /\ b \in locked /\ Held(b)'
                                     => b \in locked' \/ Over(b),
           \A y \in Threads : y # x /\ pc[y] = "prepared" /\ LocksSurvive /\ at[y] \in locked
                              => at[y] \in locked',
           funding' = funding
    PROVE  Reserved' /\ ReleasedIsOver' /\ PreparedIsNew'
  <1>1. /\ pc'[x] = s /\ at'[x] = a
        /\ \A y \in Threads : y # x => pc'[y] = pc[y] /\ at'[y] = at[y]
    BY Moved DEF NegotiationInv
  <1>2. \A b \in Acceptances : InHand(b)' => Underway(b) \/ Held(b)
    BY <1>1 DEF InHand, Underway
  <1>3. \A b \in Acceptances : Underway(b)' => Underway(b) \/ Held(b)
    BY <1>2 DEF Underway
  <1>4. \A b \in Acceptances : Over(b) => Over(b)'
    BY DEF Onward
  <1>5. Reserved'
    <2>1. \A b \in Acceptances : Underway(b)' => Held(b)' \/ Over(b)'
      BY <1>3, <1>4 DEF NegotiationInv, Reserved
    <2>2. LocksSurvive => \A b \in Acceptances : Held(b)' => b \in locked' \/ Over(b)'
      BY <1>4 DEF NegotiationInv, Reserved
    <2> QED  BY <2>1, <2>2 DEF Reserved
  <1>6. ReleasedIsOver'
    <2> SUFFICES ASSUME NEW y \in Threads, pc'[y] \in {"releasing", "removing"}
                 PROVE  \A b : b = at'[y] => Over(b)'
      BY DEF ReleasedIsOver
    <2>1. CASE y = x
      BY <1>1, <2>1
    <2>2. CASE y # x
      <3>1. at'[y] = at[y] /\ Over(at[y])
        BY <1>1, <2>2 DEF NegotiationInv, ReleasedIsOver
      <3>2. at[y] \in Acceptances
        BY <1>1, <2>2 DEF NegotiationInv, Places, Stands, TakerSteps
      <3> QED  BY <1>4, <3>1, <3>2
    <2> QED  BY <2>1, <2>2
  <1>7. PreparedIsNew'
    <2>1. ASSUME NEW y \in Threads, pc'[y] = "prepared"
          PROVE  \A b : b = at'[y] => /\ ~Underway(b)' /\ ~Held(b)'
                                      /\ funding'[b] # 0
                                      /\ LocksSurvive => b \in locked'
      <3>1. /\ y # x /\ at'[y] = at[y] /\ pc[y] = "prepared"
            /\ ~Underway(at[y]) /\ ~Held(at[y])
            /\ funding[at[y]] # 0
            /\ LocksSurvive => at[y] \in locked
        BY <1>1, <2>1 DEF NegotiationInv, PreparedIsNew
      <3>2. at[y] \in Acceptances
        BY <3>1 DEF NegotiationInv, Places, Stands, TakerSteps
      <3> QED  BY <1>3, <3>1, <3>2
    <2>2. \A b \in Acceptances : Underway(b)' \/ Held(b)' => funding'[b] # 0
      BY <1>3 DEF NegotiationInv, PreparedIsNew
    <2>3. \A b \in Acceptances : funding'[b] # 0 => status'[OrderOf(b)] # "none"
      BY AcceptanceParts DEF NegotiationInv, PreparedIsNew, Onward
    <2> QED  BY <2>1, <2>2, <2>3 DEF PreparedIsNew
  <1> QED  BY <1>5, <1>6, <1>7

\* Two threads of one taker are not both at work on an acceptance.
LEMMA TakerStepsApart ==
    ASSUME NegotiationInv, NEW x \in Threads, NEW y \in Threads,
           pc[x] \in TakerSteps, pc[y] \in TakerSteps, at[x] = at[y]
    PROVE  x = y
  <1>1. Client(x) = Client(y)
    BY DEF NegotiationInv, Places, Stands
  <1>2. HoldsLock(x) /\ HoldsLock(y)
    BY DEF HoldsLock, TakerSteps, MailboxSteps
  <1> QED  BY <1>1, <1>2 DEF NegotiationInv, Exclusive

\* What the relay holds for a match was under way.
LEMMA SelectedUnderway ==
    ASSUME Inv, NEW a \in Acceptances, Selected(a)
    PROVE  Underway(a)
  BY AcceptanceParts DEF Inv, MatchXorCancel, Selected, Underway

\* A thread's step keeps the types if it keeps those of the tables it writes.
LEMMA TypesKept ==
    ASSUME NegotiationTypeOK, TypeOK', Onward, Steady,
           NEW x \in Threads, NEW s, NEW a, Goto(x, s, a), Stands(x, s, a),
           todo' \in [Identities -> SUBSET Acceptances],
           pendingAcceptances' \subseteq Acceptances,
           relaySubmitted' \subseteq pendingAcceptances',
           cancellation' \subseteq pendingAcceptances',
           takerSwaps' \subseteq Matches,
           incomingAcceptances' \subseteq Acceptances,
           makerSwaps' \subseteq Matches,
           relayMatchPending' \subseteq makerSwaps',
           locked' \subseteq Acceptances,
           funding' = funding, cursor' = cursor,
           wire' \subseteq Requests,
           faults' = faults \/ (faults < MaxFaults /\ faults' = faults + 1),
           walletFaults' = walletFaults
             \/ (walletFaults < MaxWalletFaults /\ walletFaults' = walletFaults + 1)
    PROVE  NegotiationTypeOK'
  <1>1. pc' \in [Threads -> Steps] /\ at' \in [Threads -> Acceptances \cup {<<>>}]
    BY Moved DEF Stands, UserSteps, Steps, MailboxSteps
  <1>2. faults' \in 0..MaxFaults /\ walletFaults' \in 0..MaxWalletFaults
    BY ClientAssumption DEF NegotiationTypeOK
  <1>3. cursor' \in [Identities -> Nat] /\ \A i \in Identities : cursor'[i] <= Len(mailbox'[i])
    BY MailWaits DEF NegotiationTypeOK
  <1>4. funding' \in [Acceptances -> Coins \cup {0}]
    BY DEF NegotiationTypeOK
  <1>5. passed' \in SUBSET (Identities \X Orders) /\ early' \in SUBSET passed'
    BY DEF Steady
  <1> QED  BY <1>1, <1>2, <1>3, <1>4, <1>5 DEF NegotiationTypeOK

\* A step of a thread that leaves the swaps and what the network carries alone,
\* adds nothing to the worker's list and signs nothing, and its premises.
LEMMA PlainStepKept ==
    ASSUME NegotiationInv, Steady, NegotiationTypeOK', [Next]_storeVars,
           NEW x \in Threads, NEW s, NEW a, Goto(x, s, a), Stands(x, s, a),
           s \notin {"prepared", "joined", "confirming"},
           IsWorker(x) /\ s \in ItemSteps => HasMail(Client(x))',
           HoldsLock(x) \/ LockFree(Client(x)) \/ s = "idle" \/ (IsWorker(x) /\ s \in MailboxSteps),
           \A i \in Identities : cursor'[i] = cursor[i] \/ (IsWorker(x) /\ Client(x) = i),
           \A i \in Identities : \A b \in todo'[i] :
               b \in todo[i] \/ (Held(b) /\ TakerOf(b) = i),
           s \in HandSteps => Underway(a) \/ Held(a),
           s \in {"releasing", "removing"} => Over(a)',
           \A b \in stored' : Underway(b),
           \A r \in wire' : /\ r.op = "match" => r \in wire \/ r.of \in makerSwaps
                            /\ r.op = "accept" => Underway(r.of),
           \A o \in Orders : status'[o] = "matched" => status[o] = "matched",
           UNCHANGED <<takerSwaps, makerSwaps, relayMatchPending, funding>>,
           \A b \in Acceptances : /\ Held(b) => Held(b)' \/ Over(b)
                                  /\ Held(b)' => Held(b)
                                  /\ LocksSurvive /\ b \in locked /\ Held(b)'
                                     => b \in locked' \/ Over(b),
           \A y \in Threads : y # x /\ pc[y] = "prepared" /\ LocksSurvive /\ at[y] \in locked
                              => at[y] \in locked'
    PROVE  NegotiationInv'
  <1>1. Inv' /\ MailInv' /\ Addressed' /\ Onward
    BY StoreKept
  <1>2. \A y \in Threads : y # x /\ IsWorker(y) /\ HasMail(Client(y)) => HasMail(Client(y))'
    BY <1>1, ThreadParts, MailWaits DEF NegotiationInv, Inv
  <1>3. Places'
    <2>1. \A y \in Threads : y # x /\ pc[y] = "confirming" => SwapOf(makerSwaps', at[y]) # {}
      BY DEF NegotiationInv, Places
    <2>2. \A i \in Identities : \A b \in todo'[i] : TakerOf(b) = i
      BY DEF NegotiationInv, Places
    <2> QED  BY <1>2, <2>1, <2>2, PlacesKept
  <1>4. Exclusive'
    BY ExclusiveKept
  <1>5. OneMatch' /\ WireJournaled'
    BY <1>1, MatchesKept DEF NegotiationInv, WireJournaled
  <1>6. Reserved' /\ ReleasedIsOver' /\ PreparedIsNew'
    BY <1>1, BindingKept
  <1> QED  BY <1>1, <1>3, <1>4, <1>5, <1>6 DEF NegotiationInv

\* A request is what it says.
LEMMA RequestShape ==
    ASSUME NEW r \in Requests
    PROVE  r.op = "accept" => r = [op |-> "accept", of |-> r.of]
  BY DEF Requests

\* The requests threads send: of acceptances that are under way, and of matches
\* that are journaled.
LEMMA RequestMade ==
    ASSUME NegotiationInv, NEW x \in Threads,
           pc[x] \in {"accepting", "cancelling", "confirming"}
    PROVE  /\ RequestOf(x) \in Requests
           /\ RequestOf(x).op = "match" => RequestOf(x).of \in makerSwaps
           /\ RequestOf(x).op = "accept" => Underway(RequestOf(x).of)
           /\ pc[x] = "accepting" => RequestOf(x).op = "accept" /\ RequestOf(x).of = at[x]
           /\ pc[x] = "cancelling" => RequestOf(x).op = "cancel" /\ RequestOf(x).of = at[x]
           /\ pc[x] = "confirming" => /\ RequestOf(x).op = "match"
                                      /\ RequestOf(x).of \in SwapOf(makerSwaps, at[x])
  <1>1. at[x] \in Acceptances
    BY DEF NegotiationInv, Places, Stands, TakerSteps, MakerSteps
  <1>2. CASE pc[x] = "accepting"
    <2>1. RequestOf(x) = [op |-> "accept", of |-> at[x]]
      BY <1>2 DEF RequestOf
    <2>2. Underway(at[x])
      BY <1>2 DEF Underway, InHand, HandSteps
    <2> QED  BY <1>1, <1>2, <2>1, <2>2 DEF Requests
  <1>3. CASE pc[x] = "cancelling"
    <2>1. RequestOf(x) = [op |-> "cancel", of |-> at[x]]
      BY <1>3 DEF RequestOf
    <2> QED  BY <1>1, <1>3, <2>1 DEF Requests
  <1>4. CASE pc[x] = "confirming"
    <2>1. RequestOf(x) = [op |-> "match", of |-> CHOOSE m \in SwapOf(makerSwaps, at[x]) : TRUE]
      BY <1>4 DEF RequestOf
    <2>2. SwapOf(makerSwaps, at[x]) # {} /\ SwapOf(makerSwaps, at[x]) \subseteq makerSwaps
      BY <1>4 DEF NegotiationInv, Places, SwapOf
    <2>3. (CHOOSE m \in SwapOf(makerSwaps, at[x]) : TRUE) \in SwapOf(makerSwaps, at[x])
      BY <2>2
    <2>4. makerSwaps \subseteq Matches
      BY DEF NegotiationInv, NegotiationTypeOK
    <2> QED  BY <1>4, <2>1, <2>2, <2>3, <2>4 DEF Requests
  <1> QED  BY <1>2, <1>3, <1>4

-----------------------------------------------------------------------------
(* The steps of the two threads *)

\* The sets of places, so that the provers need not expand them.
LEMMA StepsReached ==
    /\ {"idle", "reconciling", "polling", "advancing", "checking", "cancelling", "releasing",
        "accepting", "removing", "matching", "confirming", "handled", "received", "joined"}
         \subseteq Steps \ {"prepared"}
    /\ {"idle", "prepared", "accepting", "cancelling", "releasing", "removing", "matching",
        "confirming", "handled"} \subseteq UserSteps
    /\ UserSteps \subseteq Steps
    /\ \A s \in {"idle", "reconciling", "polling", "advancing", "joined"} :
           s \notin MakerSteps \cup TakerSteps \cup HandSteps
    /\ \A s \in {"idle", "reconciling", "polling"} : s \notin ItemSteps
    /\ HandSteps \subseteq TakerSteps
    /\ \A s \in TakerSteps : s \notin MakerSteps \cup ItemSteps \cup MailboxSteps
    /\ \A s \in MakerSteps : s \notin HandSteps
  BY DEF Steps, MailboxSteps, UserSteps, MakerSteps, TakerSteps, HandSteps, ItemSteps

\* A thread at a taker's step works for the taker of its acceptance, and holds
\* the lock.
LEMMA AtTakerStep ==
    ASSUME NegotiationInv, NEW x \in Threads, pc[x] \in TakerSteps
    PROVE  at[x] \in Acceptances /\ TakerOf(at[x]) = Client(x) /\ HoldsLock(x)
  BY DEF NegotiationInv, Places, Stands, HoldsLock, TakerSteps, MailboxSteps

\* A thread that is done, or gives up, and leaves the journal's acceptances and
\* swaps as they are.
LEMMA LeavesKept ==
    ASSUME NegotiationInv, Steady, [Next]_storeVars, NEW x \in Threads,
           NEW s \in {"idle", "reconciling"}, Goto(x, s, <<>>),
           s = "reconciling" => IsWorker(x) /\ HoldsLock(x),
           \A i \in Identities : todo'[i] \subseteq todo[i],
           todo' \in [Identities -> SUBSET Acceptances],
           \A b \in stored' : Underway(b),
           wire' \subseteq Requests,
           \A r \in wire' : /\ r.op = "match" => r \in wire \/ r.of \in makerSwaps
                            /\ r.op = "accept" => Underway(r.of),
           \A o \in Orders : status'[o] = "matched" => status[o] = "matched",
           UNCHANGED <<pendingAcceptances, cancellation, takerSwaps, makerSwaps,
                       relayMatchPending, cursor, funding>>,
           relaySubmitted' \subseteq pendingAcceptances,
           incomingAcceptances' \subseteq Acceptances,
           locked' \subseteq Acceptances,
           \A b \in Acceptances : LocksSurvive /\ b \in locked /\ Held(b)' => b \in locked',
           \A y \in Threads : y # x /\ pc[y] = "prepared" /\ LocksSurvive /\ at[y] \in locked
                              => at[y] \in locked',
           faults' = faults \/ (faults < MaxFaults /\ faults' = faults + 1),
           walletFaults' = walletFaults
             \/ (walletFaults < MaxWalletFaults /\ walletFaults' = walletFaults + 1)
    PROVE  NegotiationInv'
  <1>1. Stands(x, s, <<>>)
    BY StepsReached DEF Stands
  <1>2. \A b \in Acceptances : Held(b)' = Held(b)
    BY DEF Held
  <1>3. \A i \in Identities : cursor'[i] = cursor[i]
    OBVIOUS
  <1>4. s \notin ItemSteps \cup HandSteps
    BY StepsReached
  <1>5. TypeOK' /\ Onward
    BY StoreKept DEF Inv
  <1>6. NegotiationTypeOK'
    BY <1>1, <1>5, TypesKept DEF NegotiationInv, NegotiationTypeOK
  <1>7. s = "idle" \/ HoldsLock(x)
    OBVIOUS
  <1> QED  BY <1>1, <1>2, <1>3, <1>4, <1>6, <1>7, PlainStepKept

\* The network's requests of acceptances are under way.
LEMMA WireUnderway ==
    ASSUME NegotiationInv, NEW r \in wire, r.op = "accept"
    PROVE  Underway(r.of)
  BY RequestShape DEF NegotiationInv, NegotiationTypeOK, Underway

\* A lost answer leaves its request to the network (isTransientRelayError).
LEMMA UnansweredKept ==
    ASSUME NegotiationInv, Steady, NEW x \in Threads, Unanswered(x)
    PROVE  NegotiationInv'
  <1>1. /\ pc[x] \in {"accepting", "cancelling", "confirming"}
        /\ wire' = wire \cup {RequestOf(x)}
        /\ Stop(x)
        /\ UNCHANGED <<storeVars, journalVars, walletVars, walletFaults>>
        /\ faults < MaxFaults /\ faults' = faults + 1
    BY DEF Unanswered
  <1>2. /\ RequestOf(x) \in Requests
        /\ RequestOf(x).op = "match" => RequestOf(x).of \in makerSwaps
        /\ RequestOf(x).op = "accept" => Underway(RequestOf(x).of)
    BY <1>1, RequestMade
  <1>3. \A b \in stored' : Underway(b)
    BY <1>1 DEF Underway, storeVars
  <1>4. NegotiationTypeOK
    BY DEF NegotiationInv
  <1> QED  BY <1>1, <1>2, <1>3, <1>4, WireUnderway, StopParts, LeavesKept
           DEF journalVars, walletVars, storeVars, NegotiationTypeOK

\* A failed call ends the request; an acceptance that was not saved is unlocked
\* (AcceptOffer's deferred release).
LEMMA FailKept ==
    ASSUME NegotiationInv, Steady, NEW x \in Threads, Fail(x)
    PROVE  NegotiationInv'
  <1>1. /\ locked' = IF pc[x] = "prepared" THEN locked \ Released(at[x]) ELSE locked
        /\ Stop(x)
        /\ UNCHANGED <<storeVars, journalVars, funding, wire, walletFaults>>
        /\ faults < MaxFaults /\ faults' = faults + 1
    BY DEF Fail
  <1>2. \A b \in stored' : Underway(b)
    BY <1>1 DEF Underway, storeVars
  <1>3. NegotiationTypeOK
    BY DEF NegotiationInv
  <1>4. ASSUME NEW b \in Acceptances, LocksSurvive, b \in locked, Held(b)'
        PROVE  b \in locked'
    <2>1. Held(b)
      BY <1>1, <1>4 DEF Held, journalVars
    <2>2. CASE pc[x] = "prepared"
      <3>1. b # at[x]
        BY <2>1, <2>2 DEF NegotiationInv, PreparedIsNew
      <3> QED  BY <1>1, <1>4, <2>2, <3>1 DEF Released
    <2> QED  BY <1>1, <1>4, <2>2
  <1>5. ASSUME NEW y \in Threads, y # x, pc[y] = "prepared", LocksSurvive, at[y] \in locked
        PROVE  at[y] \in locked'
    <2>1. CASE pc[x] = "prepared"
      <3>1. at[y] # at[x]
        BY <1>5, <2>1, TakerStepsApart DEF TakerSteps
      <3> QED  BY <1>1, <1>5, <2>1, <3>1 DEF Released
    <2> QED  BY <1>1, <1>5, <2>1
  <1> QED  BY <1>1, <1>2, <1>3, <1>4, <1>5, WireUnderway, StopParts, LeavesKept
           DEF journalVars, storeVars, NegotiationTypeOK

\* What a served request leaves in the store, and what its answer says.
LEMMA ServedParts ==
    ASSUME Inv, Steady, NEW r \in Requests, Serve(r), r.op \in {"accept", "cancel"}
    PROVE  /\ \A b \in stored' : b \in stored \/ (r.op = "accept" /\ b = r.of)
           /\ \A o \in Orders : status'[o] = "matched" => status[o] = "matched"
           /\ Acknowledged(r) /\ r.op = "cancel" => Tombstoned(r.of)'
           /\ Reply(r) = "cancelled" /\ r.op = "accept" => Tombstoned(r.of)'
  <1>1. CASE r.op = "accept"
    <2>1. Reply(r) = SubmitReply(r.of) /\ r.of \in Acceptances
      BY <1>1, RequestParts DEF Reply
    <2>2. SubmitAcceptance(r.of) \/ (SubmitReply(r.of) # "created" /\ UNCHANGED storeVars)
      BY <1>1, <2>1 DEF Serve
    <2>3. SubmitReply(r.of) = "cancelled" => Tombstoned(r.of)
      BY DEF SubmitReply, Inv, OnlyTakerRevokes, Tombstoned
    <2>4. SubmitReply(r.of) = "cancelled" => UNCHANGED storeVars
      BY <2>2 DEF SubmitAcceptance
    <2> QED  BY <1>1, <2>1, <2>2, <2>3, <2>4 DEF SubmitAcceptance, storeVars, Tombstoned
  <1>2. CASE r.op = "cancel"
    <2>1. /\ Reply(r) = CancelAcceptanceReply(r.of, TakerOf(r.of), "after")
          /\ r.of \in Acceptances
      BY <1>2, RequestParts DEF Reply
    <2>2. \/ CancelAcceptance(r.of, TakerOf(r.of), "after")
          \/ Reply(r) # "created" /\ UNCHANGED storeVars
      BY <1>2, <2>1 DEF Serve
    <2>3. CancelAcceptanceReply(r.of, TakerOf(r.of), "after") = "known" => Tombstoned(r.of)
      BY DEF CancelAcceptanceReply, Tombstoned, Steady, ClocksInv
    <2> QED  BY <1>2, <2>1, <2>2, <2>3
             DEF CancelAcceptance, storeVars, Tombstoned, Acknowledged
  <1> QED  BY <1>1, <1>2

\* The relay's answer to an acceptance keeps the invariant: what it refuses as
\* cancelled is over (AcceptOffer, reconcileNegotiations).
LEMMA AcceptingKept ==
    ASSUME NegotiationInv, Steady, NEW x \in Threads, NEW a, a = at[x], Accepting(x)
    PROVE  NegotiationInv'
  <1> DEFINE r == RequestOf(x)
  <1>1. /\ pc[x] = "accepting"
        /\ Serve(r)
        /\ UNCHANGED <<pendingAcceptances, cancellation, takerSwaps, incomingAcceptances,
                       makerSwaps, relayMatchPending, cursor, funding, faultVars>>
    BY DEF Accepting
  <1>2. /\ r \in Requests /\ r.op = "accept" /\ r.of = a /\ Underway(a)
        /\ a \in Acceptances /\ TakerOf(a) = Client(x) /\ HoldsLock(x)
    BY <1>1, RequestMade, AtTakerStep DEF TakerSteps
  <1> HIDE DEF r
  <1>3. /\ [Next]_storeVars
        /\ \A b \in stored' : Underway(b)
        /\ \A o \in Orders : status'[o] = "matched" => status[o] = "matched"
        /\ Reply(r) = "cancelled" => Over(a)'
    BY <1>1, <1>2, ServedByRelay, ServedParts DEF NegotiationInv, Underway, Over
  <1>4. NegotiationTypeOK /\ TypeOK' /\ Onward
    BY <1>3, StoreKept DEF NegotiationInv, Inv
  <1>5. /\ wire' \subseteq Requests
        /\ \A q \in wire' : q.op = "accept" => Underway(q.of)
        /\ UNCHANGED <<wire, faults, walletFaults>>
    BY <1>1, <1>4, WireUnderway DEF faultVars, NegotiationTypeOK
  <1>6. \/ /\ relaySubmitted' \subseteq pendingAcceptances
           /\ locked \subseteq locked' /\ locked' \subseteq Acceptances
           /\ Done(x) \/ Stop(x)
        \/ /\ UNCHANGED <<relaySubmitted, locked, todo>>
           /\ Reply(r) = "cancelled" /\ IsWorker(x)
           /\ Goto(x, "releasing", a)
    BY <1>2, <1>4 DEF Accepting, ReserveFunding, NegotiationTypeOK, r
  <1>7. CASE /\ relaySubmitted' \subseteq pendingAcceptances
             /\ locked \subseteq locked' /\ locked' \subseteq Acceptances
             /\ Done(x) \/ Stop(x)
    <2>1. /\ \E s \in {"idle", "reconciling"} :
                  Goto(x, s, <<>>) /\ (s = "reconciling" => IsWorker(x))
          /\ \A i \in Identities : todo'[i] \subseteq todo[i]
          /\ todo' \in [Identities -> SUBSET Acceptances]
      BY <1>4, <1>7, DoneParts, StopParts
    <2>2. incomingAcceptances' \subseteq Acceptances
      BY <1>1, <1>4 DEF NegotiationTypeOK
    <2> QED  BY <1>1, <1>2, <1>3, <1>5, <1>7, <2>1, <2>2, LeavesKept
  <1>8. CASE /\ UNCHANGED <<relaySubmitted, locked, todo>>
             /\ Reply(r) = "cancelled" /\ IsWorker(x)
             /\ Goto(x, "releasing", a)
    <2>1. Stands(x, "releasing", a)
      BY <1>2, <1>8, StepsReached DEF Stands, TakerSteps
    <2>2. NegotiationTypeOK'
      BY <1>1, <1>4, <1>5, <1>8, <2>1, TypesKept DEF NegotiationTypeOK
    <2>3. \A b \in Acceptances : Held(b)' = Held(b)
      BY <1>1 DEF Held
    <2>4. "releasing" \notin ItemSteps \cup HandSteps
      BY DEF ItemSteps, HandSteps
    <2> QED  BY <1>1, <1>2, <1>3, <1>5, <1>8, <2>1, <2>2, <2>3, <2>4, PlainStepKept
  <1> QED  BY <1>6, <1>7, <1>8

\* The relay's answer to a cancellation keeps the invariant: what is acknowledged
\* is over (submitAcceptanceCancellation).
LEMMA CancellingKept ==
    ASSUME NegotiationInv, Steady, NEW x \in Threads, NEW a, a = at[x], Cancelling(x)
    PROVE  NegotiationInv'
  <1> DEFINE r == RequestOf(x)
  <1>1. /\ pc[x] = "cancelling"
        /\ Serve(r)
        /\ UNCHANGED <<journalVars, walletVars, faultVars>>
    BY DEF Cancelling
  <1>2. /\ r \in Requests /\ r.op = "cancel" /\ r.of = a
        /\ a \in Acceptances /\ TakerOf(a) = Client(x) /\ HoldsLock(x)
        /\ Underway(a)
    BY <1>1, RequestMade, AtTakerStep DEF TakerSteps, Underway, InHand, HandSteps
  <1> HIDE DEF r
  <1>3. /\ [Next]_storeVars
        /\ \A b \in stored' : Underway(b)
        /\ \A o \in Orders : status'[o] = "matched" => status[o] = "matched"
        /\ Acknowledged(r) => Over(a)'
    BY <1>1, <1>2, ServedByRelay, ServedParts DEF NegotiationInv, Underway, Over
  <1>4. NegotiationTypeOK /\ TypeOK' /\ Onward
    BY <1>3, StoreKept DEF NegotiationInv, Inv
  <1>5. /\ wire' \subseteq Requests
        /\ \A q \in wire' : q.op = "accept" => Underway(q.of)
        /\ UNCHANGED <<wire, faults, walletFaults>>
        /\ UNCHANGED <<pendingAcceptances, relaySubmitted, cancellation, takerSwaps,
                       incomingAcceptances, makerSwaps, relayMatchPending, cursor,
                       funding, locked>>
    BY <1>1, <1>4, WireUnderway DEF faultVars, journalVars, walletVars, NegotiationTypeOK
  <1>6. \/ Stop(x)
        \/ \E s \in {"releasing", "checking"} :
              /\ Goto(x, s, a) /\ todo' = todo
              /\ s = "releasing" => Acknowledged(r)
              /\ s = "checking" => IsWorker(x)
    BY DEF Cancelling, r
  <1>7. CASE Stop(x)
    BY <1>1, <1>2, <1>3, <1>4, <1>5, <1>7, StopParts, LeavesKept DEF NegotiationTypeOK
  <1>8. ASSUME NEW s \in {"releasing", "checking"},
               Goto(x, s, a), todo' = todo,
               s = "releasing" => Acknowledged(r),
               s = "checking" => IsWorker(x)
        PROVE  NegotiationInv'
    <2>1. Stands(x, s, a)
      BY <1>2, <1>8, StepsReached DEF Stands, TakerSteps
    <2>2. NegotiationTypeOK'
      BY <1>1, <1>4, <1>5, <1>8, <2>1, TypesKept DEF NegotiationTypeOK
    <2>3. \A b \in Acceptances : Held(b)' = Held(b)
      BY <1>5 DEF Held
    <2>4. s \notin ItemSteps
      BY DEF ItemSteps
    <2> QED  BY <1>1, <1>2, <1>3, <1>5, <1>8, <2>1, <2>2, <2>3, <2>4, PlainStepKept
  <1> QED  BY <1>6, <1>7, <1>8

\* Steps that leave the relay, the swaps and the locks alone, and only move x,
\* are plain.
LEMMA QuietKept ==
    ASSUME NegotiationInv, Steady, NEW x \in Threads, NEW s, NEW a, Goto(x, s, a), Stands(x, s, a),
           s \notin {"prepared", "joined", "confirming", "releasing", "removing"},
           IsWorker(x) /\ s \in ItemSteps => HasMail(Client(x)),
           HoldsLock(x) \/ LockFree(Client(x)) \/ s = "idle" \/ (IsWorker(x) /\ s \in MailboxSteps),
           \A i \in Identities : \A b \in todo'[i] :
               b \in todo[i] \/ (Held(b) /\ TakerOf(b) = i),
           todo' \in [Identities -> SUBSET Acceptances],
           s \in HandSteps => Underway(a) \/ Held(a),
           cancellation' \subseteq pendingAcceptances,
           incomingAcceptances' \subseteq Acceptances,
           UNCHANGED <<storeVars, pendingAcceptances, relaySubmitted, takerSwaps, makerSwaps,
                       relayMatchPending, cursor, funding, locked, faultVars>>
    PROVE  NegotiationInv'
  <1>1. NegotiationTypeOK /\ TypeOK' /\ Onward /\ [Next]_storeVars
    BY StoreKept DEF NegotiationInv, Inv
  <1>2. wire' = wire /\ faults' = faults /\ walletFaults' = walletFaults
    BY DEF faultVars
  <1>3. NegotiationTypeOK'
    BY <1>1, <1>2, TypesKept DEF NegotiationTypeOK
  <1>4. IsWorker(x) /\ s \in ItemSteps => HasMail(Client(x))'
    BY <1>1, ThreadParts, MailWaits
  <1>5. /\ \A b \in stored' : Underway(b)
        /\ \A r \in wire' : r.op = "accept" => Underway(r.of)
        /\ \A o \in Orders : status'[o] = "matched" => status[o] = "matched"
    BY <1>2, WireUnderway DEF storeVars, Underway
  <1>6. \A b \in Acceptances : Held(b)' = Held(b)
    BY DEF Held
  <1> QED  BY <1>1, <1>2, <1>3, <1>4, <1>5, <1>6, PlainStepKept

\* Sending a journaled acceptance again (AcceptOffer's second click).
LEMMA ResendKept ==
    ASSUME NegotiationInv, Steady, NEW t \in Takers, NEW a \in Acceptances, ResendAcceptance(t, a)
    PROVE  NegotiationInv'
  <1>1. /\ a \in pendingAcceptances /\ TakerOf(a) = t
        /\ LockFree(t)
        /\ Goto(<<t, "user">>, "accepting", a)
        /\ UNCHANGED <<storeVars, journalVars, walletVars, todo, faultVars>>
    BY DEF ResendAcceptance, Begins, Client
  <1>2. /\ <<t, "user">> \in Threads /\ Client(<<t, "user">>) = t /\ ~IsWorker(<<t, "user">>)
    BY ThreadParts DEF Identities
  <1>3. Stands(<<t, "user">>, "accepting", a)
    BY <1>1, <1>2, StepsReached DEF Stands, TakerSteps
  <1>4. Held(a)
    BY <1>1 DEF Held
  <1>5. NegotiationTypeOK
    BY DEF NegotiationInv
  <1> QED  BY <1>1, <1>2, <1>3, <1>4, <1>5, QuietKept
           DEF journalVars, walletVars, NegotiationTypeOK

\* A cancellation is signed for an acceptance of the journal (CancelAcceptance).
LEMMA CancelPendingKept ==
    ASSUME NegotiationInv, Steady, NEW t \in Takers, NEW a \in Acceptances, CancelPending(t, a)
    PROVE  NegotiationInv'
  <1>1. /\ a \in pendingAcceptances /\ TakerOf(a) = t
        /\ LockFree(t)
        /\ Goto(<<t, "user">>, "cancelling", a)
        /\ cancellation' = cancellation \cup {a}
        /\ UNCHANGED <<storeVars, pendingAcceptances, relaySubmitted, takerSwaps,
                       incomingAcceptances, makerSwaps, relayMatchPending, cursor,
                       walletVars, todo, faultVars>>
    BY DEF CancelPending, Begins, Client
  <1>2. /\ <<t, "user">> \in Threads /\ Client(<<t, "user">>) = t /\ ~IsWorker(<<t, "user">>)
    BY ThreadParts DEF Identities
  <1>3. Stands(<<t, "user">>, "cancelling", a)
    BY <1>1, <1>2, StepsReached DEF Stands, TakerSteps
  <1>4. Held(a)
    BY <1>1 DEF Held
  <1>5. NegotiationTypeOK
    BY DEF NegotiationInv
  <1> QED  BY <1>1, <1>2, <1>3, <1>4, <1>5, QuietKept DEF walletVars, NegotiationTypeOK

\* The maker takes up an acceptance (MatchAcceptance).
LEMMA MatchIncomingKept ==
    ASSUME NegotiationInv, Steady, NEW i \in Makers, NEW a \in Acceptances, MatchIncoming(i, a)
    PROVE  NegotiationInv'
  <1>1. /\ MakerOf(OrderOf(a)) = i
        /\ LockFree(i)
        /\ Goto(<<i, "user">>, "matching", a)
        /\ UNCHANGED <<storeVars, journalVars, walletVars, todo, faultVars>>
    BY DEF MatchIncoming, Begins, Client
  <1>2. /\ <<i, "user">> \in Threads /\ Client(<<i, "user">>) = i /\ ~IsWorker(<<i, "user">>)
    BY ThreadParts DEF Identities
  <1>3. Stands(<<i, "user">>, "matching", a)
    BY <1>1, <1>2, StepsReached DEF Stands, TakerSteps
  <1>4. "matching" \notin HandSteps
    BY DEF HandSteps
  <1>5. NegotiationTypeOK
    BY DEF NegotiationInv
  <1> QED  BY <1>1, <1>2, <1>3, <1>4, <1>5, QuietKept
           DEF journalVars, walletVars, NegotiationTypeOK

\* The worker's pass begins with the acceptances of its journal.
LEMMA StartSyncKept ==
    ASSUME NegotiationInv, Steady, NEW x \in Threads, StartSync(x)
    PROVE  NegotiationInv'
  <1>1. /\ IsWorker(x) /\ LockFree(Client(x))
        /\ Goto(x, "reconciling", <<>>)
        /\ todo' = [todo EXCEPT ![Client(x)] = PendingOf(Client(x))]
        /\ UNCHANGED <<storeVars, journalVars, walletVars, faultVars>>
    BY DEF StartSync, Begins
  <1>2. Stands(x, "reconciling", <<>>)
    BY <1>1, StepsReached DEF Stands
  <1>3. NegotiationTypeOK
    BY DEF NegotiationInv
  <1>4. /\ todo' \in [Identities -> SUBSET Acceptances]
        /\ \A i \in Identities : \A b \in todo'[i] :
               b \in todo[i] \/ (Held(b) /\ TakerOf(b) = i)
    BY <1>1, <1>3, ThreadParts DEF NegotiationTypeOK, PendingOf, Held
  <1>5. "reconciling" \notin ItemSteps \cup HandSteps
    BY StepsReached
  <1> QED  BY <1>1, <1>2, <1>3, <1>4, <1>5, QuietKept
           DEF journalVars, walletVars, NegotiationTypeOK

\* The worker takes one acceptance from its list.
LEMMA ReconcilingKept ==
    ASSUME NegotiationInv, Steady, NEW x \in Threads, Reconciling(x)
    PROVE  NegotiationInv'
  <1>1. pc[x] = "reconciling" /\ UNCHANGED <<storeVars, journalVars, walletVars, faultVars>>
    BY DEF Reconciling
  <1>2. PICK a \in todo[Client(x)], s \in {"cancelling", "checking"} :
            /\ todo' = [todo EXCEPT ![Client(x)] = @ \ {a}]
            /\ Goto(x, s, a)
    BY DEF Reconciling
  <1>3. NegotiationTypeOK
    BY DEF NegotiationInv
  <1>4. /\ Client(x) \in Identities /\ a \in Acceptances
        /\ TakerOf(a) = Client(x) /\ Underway(a)
    BY <1>2, <1>3, ThreadParts DEF NegotiationTypeOK, NegotiationInv, Places, Underway
  <1>5. IsWorker(x) /\ HoldsLock(x)
    <2>1. "reconciling" \notin UserSteps /\ "reconciling" \notin MailboxSteps
      BY DEF UserSteps, MailboxSteps
    <2> QED  BY <1>1, <2>1 DEF NegotiationInv, Places, Stands, HoldsLock
  <1>6. Stands(x, s, a)
    BY <1>4, <1>5, StepsReached DEF Stands, TakerSteps
  <1>7. /\ todo' \in [Identities -> SUBSET Acceptances]
        /\ \A i \in Identities : todo'[i] \subseteq todo[i]
    BY <1>2, <1>3, <1>4 DEF NegotiationTypeOK
  <1>8. s \notin ItemSteps
    BY DEF ItemSteps
  <1> QED  BY <1>1, <1>2, <1>3, <1>4, <1>5, <1>6, <1>7, <1>8, QuietKept
           DEF journalVars, walletVars, NegotiationTypeOK

\* A thread at a step only the worker reaches is a worker, and its item waits.
LEMMA AtWorkerStep ==
    ASSUME NegotiationInv, NEW x \in Threads,
           pc[x] \in {"reconciling", "checking", "polling", "joined", "received", "advancing"}
    PROVE  /\ IsWorker(x)
           /\ pc[x] \in ItemSteps => HasMail(Client(x))
           /\ pc[x] \in {"reconciling", "checking"} => HoldsLock(x)
  BY DEF NegotiationInv, Places, Stands, UserSteps, HoldsLock, MailboxSteps

\* The maker's journal drops acceptances the relay has closed.
LEMMA ReconcileIncomingKept ==
    ASSUME NegotiationInv, Steady, NEW x \in Threads, ReconcileIncoming(x)
    PROVE  NegotiationInv'
  <1>1. /\ pc[x] = "reconciling"
        /\ Goto(x, "polling", <<>>)
        /\ incomingAcceptances' \subseteq incomingAcceptances
        /\ UNCHANGED <<storeVars, pendingAcceptances, relaySubmitted, cancellation,
                       takerSwaps, makerSwaps, relayMatchPending, cursor, walletVars,
                       todo, faultVars>>
    BY DEF ReconcileIncoming
  <1>2. IsWorker(x) /\ HoldsLock(x)
    BY <1>1, AtWorkerStep
  <1>3. Stands(x, "polling", <<>>)
    BY <1>2, StepsReached DEF Stands
  <1>4. "polling" \notin ItemSteps \cup HandSteps
    BY StepsReached
  <1>5. NegotiationTypeOK
    BY DEF NegotiationInv
  <1> QED  BY <1>1, <1>2, <1>3, <1>4, <1>5, QuietKept DEF walletVars, NegotiationTypeOK

\* The pass ends with an empty mailbox.
LEMMA MailboxEmptyKept ==
    ASSUME NegotiationInv, Steady, NEW x \in Threads, MailboxEmpty(x)
    PROVE  NegotiationInv'
  <1>1. Stop(x) /\ UNCHANGED <<storeVars, journalVars, walletVars, faultVars>>
    BY DEF MailboxEmpty
  <1>2. NegotiationTypeOK
    BY DEF NegotiationInv
  <1>3. Goto(x, "idle", <<>>) /\ Stands(x, "idle", <<>>)
    BY <1>1, <1>2, StopParts, StepsReached DEF Stands
  <1>4. "idle" \notin ItemSteps \cup HandSteps
    BY StepsReached
  <1> QED  BY <1>1, <1>2, <1>3, <1>4, StopParts, QuietKept
           DEF journalVars, walletVars, NegotiationTypeOK

\* An acceptance arrives at the maker.
LEMMA ReceiveKept ==
    ASSUME NegotiationInv, Steady, NEW x \in Threads, NEW a, a = Item(Client(x)).item, Receive(x)
    PROVE  NegotiationInv'
  <1>1. /\ pc[x] = "polling" /\ HasMail(Client(x))
        /\ Item(Client(x)).kind = "acceptance"
        /\ incomingAcceptances' = incomingAcceptances \cup {a}
        /\ Goto(x, "received", a)
        /\ UNCHANGED <<storeVars, pendingAcceptances, relaySubmitted, cancellation,
                       takerSwaps, makerSwaps, relayMatchPending, cursor, walletVars,
                       todo, faultVars>>
    BY DEF Receive
  <1>2. IsWorker(x)
    BY <1>1, AtWorkerStep
  <1>3. NegotiationTypeOK
    BY DEF NegotiationInv
  <1>4. a \in Acceptances /\ MakerOf(OrderOf(a)) = Client(x)
    BY <1>1, <1>3, ThreadParts, ItemParts DEF NegotiationInv, NegotiationTypeOK
  <1>5. Stands(x, "received", a)
    BY <1>2, <1>4, StepsReached DEF Stands, TakerSteps
  <1>6. "received" \in MailboxSteps /\ "received" \notin HandSteps
    BY DEF MailboxSteps, HandSteps
  <1> QED  BY <1>1, <1>2, <1>3, <1>4, <1>5, <1>6, QuietKept DEF walletVars, NegotiationTypeOK

\* The worker takes the lock to match what arrived.
LEMMA ReceivedKept ==
    ASSUME NegotiationInv, Steady, NEW x \in Threads, NEW a, a = at[x], Received(x)
    PROVE  NegotiationInv'
  <1>1. /\ pc[x] = "received" /\ LockFree(Client(x))
        /\ Goto(x, "matching", a)
        /\ UNCHANGED <<storeVars, journalVars, walletVars, todo, faultVars>>
    BY DEF Received
  <1>2. IsWorker(x) /\ HasMail(Client(x))
    BY <1>1, AtWorkerStep DEF ItemSteps
  <1>3. a \in Acceptances /\ MakerOf(OrderOf(a)) = Client(x)
    BY <1>1 DEF NegotiationInv, Places, Stands, MakerSteps
  <1>4. Stands(x, "matching", a)
    BY <1>2, <1>3, StepsReached DEF Stands, TakerSteps
  <1>5. "matching" \notin HandSteps
    BY DEF HandSteps
  <1>6. NegotiationTypeOK
    BY DEF NegotiationInv
  <1> QED  BY <1>1, <1>2, <1>3, <1>4, <1>5, <1>6, QuietKept
           DEF journalVars, walletVars, NegotiationTypeOK

\* The acceptance is dealt with, for the worker or for the user.
LEMMA HandledKept ==
    ASSUME NegotiationInv, Steady, NEW x \in Threads, Handled(x)
    PROVE  NegotiationInv'
  <1>1. /\ pc[x] = "handled"
        /\ incomingAcceptances' \subseteq incomingAcceptances
        /\ UNCHANGED <<storeVars, pendingAcceptances, relaySubmitted, cancellation,
                       takerSwaps, makerSwaps, relayMatchPending, cursor, walletVars,
                       faultVars>>
    BY DEF Handled
  <1>2. NegotiationTypeOK
    BY DEF NegotiationInv
  <1>3. CASE IsWorker(x) /\ Goto(x, "advancing", <<>>) /\ UNCHANGED todo
    <2>1. HasMail(Client(x))
      BY <1>1, <1>3 DEF NegotiationInv, Places, ItemSteps
    <2>2. Stands(x, "advancing", <<>>)
      BY <1>3, StepsReached DEF Stands
    <2>3. "advancing" \in MailboxSteps /\ "advancing" \notin HandSteps
      BY DEF MailboxSteps, HandSteps
    <2> QED  BY <1>1, <1>2, <1>3, <2>1, <2>2, <2>3, QuietKept DEF walletVars, NegotiationTypeOK
  <1>4. CASE Stop(x)
    <2>1. Goto(x, "idle", <<>>) /\ Stands(x, "idle", <<>>)
      BY <1>2, <1>4, StopParts, StepsReached DEF Stands
    <2>2. "idle" \notin ItemSteps \cup HandSteps
      BY StepsReached
    <2> QED  BY <1>1, <1>2, <1>4, <2>1, <2>2, StopParts, QuietKept
             DEF walletVars, NegotiationTypeOK
  <1> QED  BY <1>3, <1>4 DEF Handled

\* Funds are released for what is over only (releasePendingFunding).
LEMMA ReleasingKept ==
    ASSUME NegotiationInv, Steady, NEW x \in Threads, NEW a, a = at[x], Releasing(x)
    PROVE  NegotiationInv'
  <1>1. /\ pc[x] = "releasing"
        /\ locked' = locked \ Released(a)
        /\ Goto(x, "removing", a)
        /\ UNCHANGED <<storeVars, journalVars, funding, todo, faultVars>>
    BY DEF Releasing
  <1>2. a \in Acceptances /\ TakerOf(a) = Client(x) /\ HoldsLock(x)
    BY <1>1, AtTakerStep DEF TakerSteps
  <1>3. Over(a)
    BY <1>1 DEF NegotiationInv, ReleasedIsOver
  <1>4. NegotiationTypeOK /\ TypeOK' /\ Onward /\ [Next]_storeVars
    BY <1>1, StoreKept DEF NegotiationInv, Inv
  <1>5. Over(a)'
    BY <1>2, <1>3, <1>4 DEF Onward
  <1>6. Stands(x, "removing", a)
    BY <1>1, <1>2, StepsReached DEF Stands, TakerSteps
  <1>7. UNCHANGED <<pendingAcceptances, relaySubmitted, cancellation, takerSwaps,
                    incomingAcceptances, makerSwaps, relayMatchPending, cursor,
                    wire, faults, walletFaults>>
    BY <1>1 DEF journalVars, faultVars
  <1>8. NegotiationTypeOK'
    BY <1>1, <1>4, <1>6, <1>7, TypesKept DEF NegotiationTypeOK
  <1>9. \A b \in Acceptances : Held(b)' = Held(b)
    BY <1>7 DEF Held
  <1>10. LocksSurvive => \A b \in locked : b \in locked' \/ b = a
    BY <1>1 DEF Released
  <1>11. \A y \in Threads : y # x /\ pc[y] = "prepared" => at[y] # a
    BY <1>1, TakerStepsApart DEF TakerSteps
  <1>12. /\ \A b \in stored' : Underway(b)
         /\ \A r \in wire' : r.op = "accept" => Underway(r.of)
         /\ \A o \in Orders : status'[o] = "matched" => status[o] = "matched"
    BY <1>1, <1>7, WireUnderway DEF storeVars, Underway
  <1>13. "removing" \notin ItemSteps \cup HandSteps
    BY DEF ItemSteps, HandSteps
  <1> QED  BY <1>1, <1>2, <1>3, <1>4, <1>5, <1>6, <1>7, <1>8, <1>9, <1>10, <1>11, <1>12,
              <1>13, PlainStepKept

\* An acceptance leaves the journal when it is over, or when its swap is there.
LEMMA RemovedKept ==
    ASSUME NegotiationInv, Steady, NEW x \in Threads, NEW a \in Acceptances, RemovePending(a),
           Over(a) \/ SwapOf(takerSwaps, a) # {},
           NEW s \in {"idle", "reconciling", "advancing"}, Goto(x, s, <<>>),
           s # "idle" => IsWorker(x),
           s = "advancing" => HasMail(Client(x)),
           HoldsLock(x) \/ s = "advancing",
           \A i \in Identities : todo'[i] \subseteq todo[i],
           todo' \in [Identities -> SUBSET Acceptances],
           UNCHANGED <<storeVars, takerSwaps, incomingAcceptances, makerSwaps,
                       relayMatchPending, cursor, walletVars, faultVars>>
    PROVE  NegotiationInv'
  <1>1. NegotiationTypeOK /\ TypeOK' /\ Onward /\ [Next]_storeVars
    BY StoreKept DEF NegotiationInv, Inv
  <1>2. Stands(x, s, <<>>)
    BY StepsReached DEF Stands
  <1>3. UNCHANGED <<wire, faults, walletFaults, funding, locked>>
    BY DEF walletVars, faultVars
  <1>4. NegotiationTypeOK'
    BY <1>1, <1>2, <1>3, TypesKept DEF NegotiationTypeOK, RemovePending
  <1>5. \A b \in Acceptances : /\ Held(b) => Held(b)' \/ Over(b)
                               /\ Held(b)' => Held(b)
    BY DEF Held, RemovePending
  <1>6. /\ \A b \in stored' : Underway(b)
        /\ \A r \in wire' : r.op = "accept" => Underway(r.of)
        /\ \A o \in Orders : status'[o] = "matched" => status[o] = "matched"
    BY <1>3, WireUnderway DEF storeVars, Underway
  <1>7. /\ IsWorker(x) /\ s \in ItemSteps => HasMail(Client(x))'
        /\ s \notin HandSteps
        /\ s = "advancing" => s \in MailboxSteps
    BY <1>1, ThreadParts, MailWaits DEF ItemSteps, HandSteps, MailboxSteps
  <1> QED  BY <1>1, <1>2, <1>3, <1>4, <1>5, <1>6, <1>7, PlainStepKept

\* The acceptance that was released is removed (RemovePendingAcceptance).
LEMMA RemovingKept ==
    ASSUME NegotiationInv, Steady, NEW x \in Threads, NEW a, a = at[x], Removing(x)
    PROVE  NegotiationInv'
  <1>1. /\ pc[x] = "removing"
        /\ RemovePending(a) /\ Done(x)
        /\ UNCHANGED <<storeVars, takerSwaps, incomingAcceptances, makerSwaps,
                       relayMatchPending, cursor, walletVars, faultVars>>
    BY DEF Removing
  <1>2. a \in Acceptances /\ HoldsLock(x) /\ Over(a)
    BY <1>1, AtTakerStep DEF TakerSteps, NegotiationInv, ReleasedIsOver
  <1>3. NegotiationTypeOK
    BY DEF NegotiationInv
  <1>4. /\ \E s \in {"idle", "reconciling"} :
               Goto(x, s, <<>>) /\ (s = "reconciling" => IsWorker(x))
        /\ \A i \in Identities : todo'[i] \subseteq todo[i]
        /\ todo' \in [Identities -> SUBSET Acceptances]
    BY <1>1, <1>3, DoneParts
  <1> QED  BY <1>1, <1>2, <1>4, RemovedKept

\* The acceptance whose swap is journaled is removed (joinAcceptedMatch).
LEMMA JoinedKept ==
    ASSUME NegotiationInv, Steady, NEW x \in Threads, NEW a, a = at[x], Joined(x)
    PROVE  NegotiationInv'
  <1>1. /\ pc[x] = "joined"
        /\ RemovePending(a) /\ Goto(x, "advancing", <<>>)
        /\ UNCHANGED <<storeVars, takerSwaps, incomingAcceptances, makerSwaps,
                       relayMatchPending, cursor, walletVars, todo, faultVars>>
    BY DEF Joined
  <1>2. NegotiationTypeOK
    BY DEF NegotiationInv
  <1>3. SwapOf(takerSwaps, a) # {} /\ a \in Acceptances
    <2>1. SwapOf(takerSwaps, a) # {}
      BY <1>1 DEF NegotiationInv, Places
    <2> QED  BY <1>2, <2>1, MatchParts DEF SwapOf, NegotiationTypeOK
  <1>4. IsWorker(x) /\ HasMail(Client(x))
    BY <1>1, AtWorkerStep DEF ItemSteps
  <1> QED  BY <1>1, <1>2, <1>3, <1>4, RemovedKept DEF NegotiationTypeOK

\* The worker decides what to do with a pending acceptance: one whose order has
\* closed without it is over (reconcileNegotiations).
LEMMA CheckingKept ==
    ASSUME NegotiationInv, Steady, NEW x \in Threads, NEW a, a = at[x], Checking(x)
    PROVE  NegotiationInv'
  <1>1. /\ pc[x] = "checking"
        /\ UNCHANGED <<storeVars, journalVars, funding, faultVars>>
    BY DEF Checking
  <1>2. a \in Acceptances /\ TakerOf(a) = Client(x) /\ HoldsLock(x)
    BY <1>1, AtTakerStep DEF TakerSteps
  <1>3. IsWorker(x) /\ Underway(a)
    BY <1>1, AtWorkerStep DEF Underway, InHand, HandSteps
  <1>4. NegotiationTypeOK /\ TypeOK' /\ Onward /\ [Next]_storeVars
    BY <1>1, StoreKept DEF NegotiationInv, Inv
  <1>5. UNCHANGED <<pendingAcceptances, relaySubmitted, cancellation, takerSwaps,
                    incomingAcceptances, makerSwaps, relayMatchPending, cursor,
                    wire, faults, walletFaults, funding>>
    BY <1>1 DEF journalVars, faultVars
  <1>6. /\ \A b \in stored' : Underway(b)
        /\ \A r \in wire' : r.op = "accept" => Underway(r.of)
        /\ \A o \in Orders : status'[o] = "matched" => status[o] = "matched"
        /\ wire' \subseteq Requests
    BY <1>1, <1>4, <1>5, WireUnderway DEF storeVars, Underway, NegotiationTypeOK
  <1>7. \/ /\ \E s \in {"releasing", "accepting"} :
                  Goto(x, s, a) /\ (s = "releasing" => Abandoned(Client(x), a))
           /\ UNCHANGED <<todo, locked>>
        \/ ReserveFunding(a) /\ Done(x)
    BY DEF Checking
  <1>8. ASSUME NEW s \in {"releasing", "accepting"}, Goto(x, s, a),
               s = "releasing" => Abandoned(Client(x), a), UNCHANGED <<todo, locked>>
        PROVE  NegotiationInv'
    <2>1. Stands(x, s, a)
      BY <1>2, <1>8, StepsReached DEF Stands, TakerSteps
    <2>2. NegotiationTypeOK'
      BY <1>4, <1>5, <1>8, <2>1, TypesKept DEF NegotiationTypeOK
    <2>3. s = "releasing" => Over(a)'
      <3>1. status[OrderOf(a)] # "none"
        BY <1>2, <1>3 DEF NegotiationInv, PreparedIsNew
      <3>2. CASE ~IsOpen(OrderOf(a))
        <4>1. Abandoned(Client(x), a) => Over(a)
          BY <3>1, <3>2 DEF Abandoned, Over
        <4> QED  BY <1>2, <1>4, <1>8, <4>1 DEF Onward
      <3>3. CASE IsOpen(OrderOf(a))
        <4>1. OrderOf(a) \notin late
          BY <3>3 DEF IsOpen, EffectiveStatus
        <4>2. Passed(Client(x), OrderOf(a)) => RanAhead(Client(x), OrderOf(a))
          BY <4>1 DEF Passed, RanAhead, Steady, ClocksInv
        <4>3. Abandoned(Client(x), a) => Over(a)
          BY <1>2, <3>3, <4>2 DEF Abandoned, Over
        <4> QED  BY <1>2, <1>4, <1>8, <4>3 DEF Onward
      <3> QED  BY <3>2, <3>3
    <2>4. \A b \in Acceptances : Held(b)' = Held(b)
      BY <1>5 DEF Held
    <2>5. s \notin ItemSteps
      BY DEF ItemSteps
    <2> QED  BY <1>2, <1>3, <1>4, <1>5, <1>6, <1>8, <2>1, <2>2, <2>3, <2>4, <2>5, PlainStepKept
  <1>9. CASE ReserveFunding(a) /\ Done(x)
    <2>1. locked \subseteq locked' /\ locked' \subseteq Acceptances
      BY <1>2, <1>4, <1>9 DEF ReserveFunding, NegotiationTypeOK
    <2>2. /\ \E s \in {"idle", "reconciling"} :
                  Goto(x, s, <<>>) /\ (s = "reconciling" => IsWorker(x))
          /\ \A i \in Identities : todo'[i] \subseteq todo[i]
          /\ todo' \in [Identities -> SUBSET Acceptances]
      BY <1>4, <1>9, DoneParts
    <2> QED  BY <1>2, <1>4, <1>5, <1>6, <2>1, <2>2, LeavesKept DEF NegotiationTypeOK
  <1> QED  BY <1>7, <1>8, <1>9

\* The cursor moves over an item that was there (SetRelayCursor).
LEMMA AdvancingKept ==
    ASSUME NegotiationInv, Steady, NEW x \in Threads, Advancing(x)
    PROVE  NegotiationInv'
  <1>1. /\ pc[x] = "advancing"
        /\ cursor' = [cursor EXCEPT ![Client(x)] = @ + 1]
        /\ Goto(x, "polling", <<>>)
        /\ UNCHANGED <<storeVars, pendingAcceptances, relaySubmitted, cancellation,
                       takerSwaps, incomingAcceptances, makerSwaps, relayMatchPending,
                       walletVars, todo, faultVars>>
    BY DEF Advancing
  <1>2. IsWorker(x) /\ HasMail(Client(x)) /\ Client(x) \in Identities
    BY <1>1, AtWorkerStep, ThreadParts DEF ItemSteps
  <1>3. NegotiationTypeOK /\ TypeOK' /\ Onward /\ [Next]_storeVars
    BY <1>1, StoreKept DEF NegotiationInv, Inv
  <1>4. Stands(x, "polling", <<>>)
    BY <1>2, StepsReached DEF Stands
  <1>5. UNCHANGED <<mailbox, wire, faults, walletFaults, funding, locked>>
    BY <1>1 DEF storeVars, walletVars, faultVars
  <1>6. NegotiationTypeOK'
    <2>1. pc' \in [Threads -> Steps] /\ at' \in [Threads -> Acceptances \cup {<<>>}]
      BY <1>1, <1>3, <1>4, Moved, StepsReached
    <2>2. /\ cursor' \in [Identities -> Nat]
          /\ \A i \in Identities : cursor'[i] <= Len(mailbox'[i])
      <3>1. \A i \in Identities : Len(mailbox[i]) \in Nat
        BY <1>3, BoxTyped DEF NegotiationTypeOK
      <3> QED  BY <1>1, <1>2, <1>3, <1>5, <3>1 DEF NegotiationTypeOK, HasMail
    <2> QED  BY <1>1, <1>3, <1>5, <2>1, <2>2 DEF NegotiationTypeOK, Steady
  <1>7. /\ \A b \in stored' : Underway(b)
        /\ \A r \in wire' : r.op = "accept" => Underway(r.of)
        /\ \A o \in Orders : status'[o] = "matched" => status[o] = "matched"
    BY <1>1, <1>5, WireUnderway DEF storeVars, Underway
  <1>8. \A b \in Acceptances : Held(b)' = Held(b)
    BY <1>1 DEF Held
  <1>9. \A i \in Identities : cursor'[i] = cursor[i] \/ Client(x) = i
    BY <1>1, <1>3 DEF NegotiationTypeOK
  <1>10. "polling" \notin ItemSteps \cup HandSteps /\ "polling" \in MailboxSteps
    BY StepsReached DEF MailboxSteps
  <1> QED  BY <1>1, <1>2, <1>3, <1>4, <1>5, <1>6, <1>7, <1>8, <1>9, <1>10, PlainStepKept

-----------------------------------------------------------------------------
(* The swaps of the two journals *)

\* A step of a thread that journals swaps, or drops one the relay refused, and
\* its premises.
LEMMA SwapStepKept ==
    ASSUME NegotiationInv, Steady, [Next]_storeVars,
           NEW x \in Threads, NEW s, NEW a, Goto(x, s, a), Stands(x, s, a),
           s \notin {"prepared", "releasing", "removing"} \cup HandSteps,
           s = "joined" => SwapOf(takerSwaps', a) # {},
           s = "confirming" => SwapOf(makerSwaps', a) # {},
           IsWorker(x) /\ s \in ItemSteps => HasMail(Client(x)),
           HoldsLock(x) \/ s = "idle" \/ (IsWorker(x) /\ s \in MailboxSteps),
           \A i \in Identities : todo'[i] \subseteq todo[i],
           todo' \in [Identities -> SUBSET Acceptances],
           stored' \subseteq stored,
           takerSwaps \subseteq takerSwaps', takerSwaps' \subseteq Matches,
           \A m \in takerSwaps' : m \in takerSwaps
               \/ (Selected(m[1]) /\ match[OrderOf(m[1])] = m),
           makerSwaps' \subseteq Matches, relayMatchPending' \subseteq makerSwaps',
           \A y \in Threads : y # x /\ pc[y] = "confirming" => SwapOf(makerSwaps', at[y]) # {},
           \A m \in makerSwaps' \ relayMatchPending' :
               m \in makerSwaps \ relayMatchPending \/ match'[OrderOf(m[1])] = m,
           \A o \in Orders : status'[o] = "matched" =>
               \/ status[o] = "matched" /\ (match[o] \in makerSwaps => match[o] \in makerSwaps')
               \/ match'[o] \in makerSwaps',
           \A m \in makerSwaps : m \in makerSwaps' \/ Tombstoned(m[1])',
           UNCHANGED <<pendingAcceptances, relaySubmitted, cancellation, incomingAcceptances,
                       cursor, funding, locked, wire, faults>>,
           walletFaults' = walletFaults
             \/ (walletFaults < MaxWalletFaults /\ walletFaults' = walletFaults + 1)
    PROVE  NegotiationInv'
  <1>1. NegotiationTypeOK /\ TypeOK' /\ Inv' /\ MailInv' /\ Addressed' /\ Onward
    BY StoreKept DEF NegotiationInv, Inv
  <1>2. NegotiationTypeOK'
    BY <1>1, TypesKept DEF NegotiationTypeOK
  <1>3. \A y \in Threads : HasMail(Client(y)) => HasMail(Client(y))'
    BY <1>1, ThreadParts, MailWaits
  <1>4. Places'
    <2>1. \A i \in Identities : \A b \in todo'[i] : TakerOf(b) = i
      BY DEF NegotiationInv, Places
    <2> QED  BY <1>3, <2>1, PlacesKept
  <1>5. Exclusive'
    BY ExclusiveKept
  <1>6. \A m \in takerSwaps' : m \in takerSwaps \/ match'[OrderOf(m[1])] = m
    <2> SUFFICES ASSUME NEW m \in takerSwaps', Selected(m[1]), match[OrderOf(m[1])] = m
                 PROVE  match'[OrderOf(m[1])] = m
      OBVIOUS
    <2>1. OrderOf(m[1]) \in Orders
      BY MatchParts, AcceptanceParts
    <2> QED  BY <1>1, <2>1 DEF Onward, Selected
  <1>7. OneMatch' /\ WireJournaled'
    BY <1>1, <1>6, MatchesKept
  <1>8. \A b \in Acceptances : /\ Held(b) => Held(b)'
                               /\ Held(b)' => Held(b) \/ Underway(b)
    <2> SUFFICES ASSUME NEW b \in Acceptances
                 PROVE  /\ Held(b) => Held(b)'
                        /\ Held(b)' => Held(b) \/ Underway(b)
      OBVIOUS
    <2>1. Held(b) => Held(b)'
      BY DEF Held, SwapOf
    <2>2. \A m \in takerSwaps' : m[1] = b => Held(b) \/ Selected(b)
      BY DEF Held, SwapOf
    <2>3. Held(b)' => Held(b) \/ Selected(b)
      BY <2>2 DEF Held, SwapOf
    <2> QED  BY <2>1, <2>3, SelectedUnderway DEF NegotiationInv
  <1>9. /\ \A b \in stored' : Underway(b)
        /\ \A b \in Acceptances : [op |-> "accept", of |-> b] \in wire' => Underway(b)
    BY DEF Underway
  <1>10. Reserved' /\ ReleasedIsOver' /\ PreparedIsNew'
    BY <1>1, <1>8, <1>9, BindingKept
  <1> QED  BY <1>1, <1>2, <1>4, <1>5, <1>7, <1>10 DEF NegotiationInv

\* The taker journals the swap of a match the relay committed
\* (joinAcceptedMatch).
LEMMA JoinKept ==
    ASSUME NegotiationInv, Steady, NEW x \in Threads, NEW chosen, chosen = Item(Client(x)).item,
           Join(x)
    PROVE  NegotiationInv'
  <1>1. /\ pc[x] = "polling" /\ HasMail(Client(x))
        /\ Item(Client(x)).kind = "match"
        /\ UNCHANGED <<storeVars, pendingAcceptances, relaySubmitted, cancellation,
                       incomingAcceptances, makerSwaps, relayMatchPending, cursor,
                       walletVars, faultVars>>
        /\ \/ Stop(x) /\ UNCHANGED takerSwaps
           \/ /\ takerSwaps' = takerSwaps \cup {chosen}
              /\ Goto(x, "joined", chosen[1])
              /\ UNCHANGED todo
    BY DEF Join
  <1>2. IsWorker(x) /\ Client(x) \in Identities
    BY <1>1, AtWorkerStep, ThreadParts
  <1>3. NegotiationTypeOK
    BY DEF NegotiationInv
  <1>4. /\ chosen \in Matches /\ chosen[1] \in Acceptances
        /\ Selected(chosen[1])
        /\ match[OrderOf(chosen[1])] = chosen
    BY <1>1, <1>2, <1>3, ItemParts DEF NegotiationInv, NegotiationTypeOK
  <1>5. UNCHANGED <<status, match, stored, funding, locked, wire, faults, walletFaults>>
    BY <1>1 DEF storeVars, walletVars, faultVars
  <1>6. \A y \in Threads : pc[y] = "confirming" => SwapOf(makerSwaps', at[y]) # {}
    BY <1>1 DEF NegotiationInv, Places
  <1>7. "joined" \notin HandSteps /\ "joined" \in MailboxSteps
        /\ "idle" \notin HandSteps \cup ItemSteps
    BY StepsReached DEF MailboxSteps
  <1>8. CASE Stop(x) /\ UNCHANGED takerSwaps
    <2>1. Goto(x, "idle", <<>>) /\ Stands(x, "idle", <<>>)
      BY <1>3, <1>8, StopParts, StepsReached DEF Stands
    <2> QED  BY <1>1, <1>3, <1>5, <1>6, <1>7, <1>8, <2>1, StopParts, SwapStepKept
             DEF NegotiationTypeOK
  <1>9. CASE /\ takerSwaps' = takerSwaps \cup {chosen}
             /\ Goto(x, "joined", chosen[1])
             /\ UNCHANGED todo
    <2>1. Stands(x, "joined", chosen[1])
      BY <1>2, <1>4, StepsReached DEF Stands
    <2>2. SwapOf(takerSwaps', chosen[1]) # {}
      BY <1>9 DEF SwapOf
    <2> QED  BY <1>1, <1>2, <1>3, <1>4, <1>5, <1>6, <1>7, <1>9, <2>1, <2>2, SwapStepKept
             DEF NegotiationTypeOK
  <1> QED  BY <1>1, <1>8, <1>9

\* The maker journals the match the relay committed for it (reconcileAcceptance).
LEMMA SettledKept ==
    ASSUME NegotiationInv, Steady, NEW x \in Threads, NEW a, a = Item(Client(x)).item,
           NEW chosen, chosen = match[OrderOf(a)], Settled(x)
    PROVE  NegotiationInv'
  <1>1. /\ pc[x] = "polling" /\ HasMail(Client(x))
        /\ Item(Client(x)).kind = "acceptance"
        /\ UNCHANGED <<storeVars, pendingAcceptances, relaySubmitted, cancellation,
                       takerSwaps, incomingAcceptances, cursor, walletVars, faultVars>>
        /\ \/ Stop(x) /\ UNCHANGED <<makerSwaps, relayMatchPending>>
           \/ \E s \in {"handled", "advancing"} :
                 /\ Goto(x, s, a) /\ UNCHANGED todo
                 /\ \/ /\ Selected(a)
                       /\ makerSwaps' = makerSwaps \cup {chosen}
                       /\ relayMatchPending' = relayMatchPending \ {chosen}
                    \/ UNCHANGED <<makerSwaps, relayMatchPending>>
    BY DEF Settled
  <1>2. IsWorker(x) /\ Client(x) \in Identities
    BY <1>1, AtWorkerStep, ThreadParts
  <1>3. NegotiationTypeOK
    BY DEF NegotiationInv
  <1>4. /\ a \in Acceptances /\ MakerOf(OrderOf(a)) = Client(x) /\ OrderOf(a) \in Orders
    BY <1>1, <1>2, <1>3, ItemParts, AcceptanceParts DEF NegotiationInv, NegotiationTypeOK
  <1>5. Selected(a) => chosen \in Matches /\ chosen[1] = a
    BY <1>4 DEF Selected, NegotiationInv, Inv, TypeOK, MatchXorCancel
  <1>6. UNCHANGED <<status, match, stored, funding, locked, wire, faults, walletFaults>>
    BY <1>1 DEF storeVars, walletVars, faultVars
  <1>7. {"handled", "advancing"} \subseteq MailboxSteps
        /\ \A s \in {"handled", "advancing", "idle"} : s \notin HandSteps
        /\ "idle" \notin ItemSteps
    BY StepsReached DEF MailboxSteps, HandSteps
  <1>8. makerSwaps \subseteq makerSwaps'
    BY <1>1
  <1>9. \A y \in Threads : pc[y] = "confirming" => SwapOf(makerSwaps', at[y]) # {}
    BY <1>8 DEF NegotiationInv, Places, SwapOf
  <1>10. /\ makerSwaps' \subseteq Matches /\ relayMatchPending' \subseteq makerSwaps'
         /\ \A m \in makerSwaps' \ relayMatchPending' :
                m \in makerSwaps \ relayMatchPending \/ match[OrderOf(m[1])] = m
    BY <1>1, <1>3, <1>5 DEF NegotiationTypeOK
  <1>11. CASE Stop(x)
    <2>1. Goto(x, "idle", <<>>) /\ Stands(x, "idle", <<>>)
      BY <1>3, <1>11, StopParts, StepsReached DEF Stands
    <2> QED  BY <1>1, <1>3, <1>6, <1>7, <1>8, <1>9, <1>10, <1>11, <2>1, StopParts, SwapStepKept
             DEF NegotiationTypeOK
  <1>12. ASSUME NEW s \in {"handled", "advancing"}, Goto(x, s, a), UNCHANGED todo
         PROVE  NegotiationInv'
    <2>1. Stands(x, s, a)
      BY <1>2, <1>4, StepsReached DEF Stands, TakerSteps
    <2> QED  BY <1>1, <1>2, <1>3, <1>6, <1>7, <1>8, <1>9, <1>10, <1>12, <2>1, SwapStepKept
             DEF NegotiationTypeOK
  <1> QED  BY <1>1, <1>11, <1>12

\* A match is journaled before the relay hears of it (MatchAcceptance).
LEMMA MatchingKept ==
    ASSUME NegotiationInv, Steady, NEW x \in Threads, NEW a, a = at[x], Matching(x)
    PROVE  NegotiationInv'
  <1>1. /\ pc[x] = "matching"
        /\ UNCHANGED <<storeVars, pendingAcceptances, relaySubmitted, cancellation,
                       takerSwaps, incomingAcceptances, cursor, walletVars, wire, faults>>
        /\ walletFaults' = walletFaults
             \/ (walletFaults < MaxWalletFaults /\ walletFaults' = walletFaults + 1)
        /\ \/ Stop(x) /\ UNCHANGED <<makerSwaps, relayMatchPending>>
           \/ /\ Goto(x, "confirming", a) /\ UNCHANGED todo
              /\ \/ UNCHANGED <<makerSwaps, relayMatchPending>> /\ Journaled(a)
                 \/ \E n \in MatchNumbers :
                       /\ makerSwaps' = makerSwaps \cup {<<a, n>>}
                       /\ relayMatchPending' = relayMatchPending \cup {<<a, n>>}
           \/ /\ Goto(x, "handled", a) /\ UNCHANGED <<todo, makerSwaps, relayMatchPending>>
              /\ IsWorker(x)
    BY DEF Matching
  <1>2. /\ a \in Acceptances /\ MakerOf(OrderOf(a)) = Client(x)
        /\ HoldsLock(x)
        /\ IsWorker(x) => HasMail(Client(x))
    BY <1>1 DEF NegotiationInv, Places, Stands, MakerSteps, HoldsLock, MailboxSteps, ItemSteps
  <1>3. NegotiationTypeOK
    BY DEF NegotiationInv
  <1>4. UNCHANGED <<status, match, stored, funding, locked>>
    BY <1>1 DEF storeVars, walletVars
  <1>5. /\ makerSwaps \subseteq makerSwaps' /\ makerSwaps' \subseteq Matches
        /\ relayMatchPending' \subseteq makerSwaps'
        /\ makerSwaps' \ relayMatchPending' \subseteq makerSwaps \ relayMatchPending
    BY <1>1, <1>2, <1>3 DEF NegotiationTypeOK, Matches
  <1>6. \A y \in Threads : pc[y] = "confirming" => SwapOf(makerSwaps', at[y]) # {}
    BY <1>5 DEF NegotiationInv, Places, SwapOf
  <1>7. /\ \A s \in {"handled", "confirming", "idle"} : s \notin HandSteps
        /\ "idle" \notin ItemSteps
    BY StepsReached DEF HandSteps
  <1>8. CASE Stop(x)
    <2>1. Goto(x, "idle", <<>>) /\ Stands(x, "idle", <<>>)
      BY <1>3, <1>8, StopParts, StepsReached DEF Stands
    <2> QED  BY <1>1, <1>3, <1>4, <1>5, <1>6, <1>7, <1>8, <2>1, StopParts, SwapStepKept
             DEF NegotiationTypeOK
  <1>9. ASSUME NEW s \in {"confirming", "handled"}, Goto(x, s, a), UNCHANGED todo,
               s = "confirming" => SwapOf(makerSwaps', a) # {}
        PROVE  NegotiationInv'
    <2>1. Stands(x, s, a)
      BY <1>2, StepsReached, <1>9 DEF Stands, TakerSteps
    <2> QED  BY <1>1, <1>2, <1>3, <1>4, <1>5, <1>6, <1>7, <1>9, <2>1, SwapStepKept
             DEF NegotiationTypeOK
  <1>10. ASSUME NEW n \in MatchNumbers, makerSwaps' = makerSwaps \cup {<<a, n>>}
         PROVE  SwapOf(makerSwaps', a) # {}
    <2>1. <<a, n>> \in makerSwaps' /\ <<a, n>>[1] = a
      BY <1>10
    <2>2. <<a, n>> \in SwapOf(makerSwaps', a)
      BY <2>1 DEF SwapOf
    <2> QED  BY <2>2
  <1>11. UNCHANGED makerSwaps /\ Journaled(a) => SwapOf(makerSwaps', a) # {}
    BY DEF Journaled
  <1> QED  BY <1>1, <1>8, <1>9, <1>10, <1>11

\* What a served match leaves in the store, and what its answer says.
LEMMA ServedMatch ==
    ASSUME Inv, NEW r \in Requests, Serve(r), r.op = "match", NEW m, m = r.of
    PROVE  /\ stored' = stored
           /\ \A q \in Orders : status'[q] = "matched" =>
                  (status[q] = "matched" \/ (match'[q] = m /\ ~Tombstoned(m[1])))
           /\ Acknowledged(r) => match'[OrderOf(m[1])] = m
           /\ Reply(r) = "cancelled" =>
                  /\ Tombstoned(m[1])'
                  /\ \A q \in Orders : status'[q] = "matched" =>
                         status[q] = "matched" /\ match[q] # m
  <1>1. Reply(r) = MatchReply(m) /\ m \in Matches
    BY RequestParts DEF Reply
  <1>2. ConfirmMatch(m) \/ (MatchReply(m) # "created" /\ UNCHANGED storeVars)
    BY <1>1 DEF Serve
  <1>3. m[1] \in Acceptances /\ OrderOf(m[1]) \in Orders
    BY <1>1, MatchParts, AcceptanceParts
  <1>4. CASE ConfirmMatch(m)
    <2>1. /\ MatchReply(m) = "created"
          /\ stored' = stored
          /\ match' = [match EXCEPT ![OrderOf(m[1])] = m]
          /\ status' = [status EXCEPT ![OrderOf(m[1])] = "matched"]
      BY <1>4 DEF ConfirmMatch
    <2>2. ~Tombstoned(m[1])
      BY <2>1 DEF MatchReply, Tombstoned
    <2> QED  BY <1>1, <1>3, <2>1, <2>2 DEF Inv, TypeOK
  <1>5. CASE MatchReply(m) # "created" /\ UNCHANGED storeVars
    <2>1. /\ MatchReply(m) = "known" => match[OrderOf(m[1])] = m
          /\ MatchReply(m) = "cancelled" =>
                 /\ match[OrderOf(m[1])] # m
                 /\ m[1] \in revoked \/ Tombstoned(m[1])
      BY DEF MatchReply, Tombstoned, Inv, OnlyTakerRevokes
    <2>2. MatchReply(m) = "cancelled" => Tombstoned(m[1])
      BY <2>1 DEF Inv, OnlyTakerRevokes, Tombstoned
    <2>3. \A q \in Orders : status[q] = "matched" /\ match[q] = m => q = OrderOf(m[1])
      BY DEF Inv, MatchXorCancel
    <2> QED  BY <1>1, <1>5, <2>1, <2>2, <2>3 DEF storeVars, Tombstoned, Acknowledged
  <1> QED  BY <1>2, <1>4, <1>5

\* The relay's answer to a match keeps the invariant: a swap is dropped only
\* when its match can no longer win (confirmMatch).
LEMMA ConfirmingKept ==
    ASSUME NegotiationInv, Steady, NEW x \in Threads, NEW a, a = at[x],
           NEW chosen, chosen = RequestOf(x).of, Confirming(x)
    PROVE  NegotiationInv'
  <1> DEFINE r == RequestOf(x)
  <1>1. /\ pc[x] = "confirming"
        /\ Serve(r)
        /\ UNCHANGED <<pendingAcceptances, relaySubmitted, cancellation, takerSwaps,
                       incomingAcceptances, cursor, walletVars, faultVars>>
    BY DEF Confirming
  <1>2. /\ r \in Requests /\ r.op = "match" /\ chosen = r.of
        /\ chosen \in makerSwaps /\ chosen[1] = a
    BY <1>1, RequestMade DEF SwapOf
  <1> HIDE DEF r
  <1>3. /\ \/ /\ Acknowledged(r)
              /\ makerSwaps' = makerSwaps
              /\ relayMatchPending' = relayMatchPending \ {chosen}
              /\ Goto(x, "handled", a) /\ UNCHANGED todo
           \/ /\ Reply(r) = "cancelled"
              /\ makerSwaps' = makerSwaps \ {chosen}
              /\ relayMatchPending' = relayMatchPending \ {chosen}
              /\ Goto(x, "handled", a) /\ UNCHANGED todo
           \/ Stop(x) /\ UNCHANGED <<makerSwaps, relayMatchPending>>
    BY <1>2 DEF Confirming, r
  <1>4. /\ a \in Acceptances /\ MakerOf(OrderOf(a)) = Client(x)
        /\ HoldsLock(x)
        /\ IsWorker(x) => HasMail(Client(x))
    BY <1>1 DEF NegotiationInv, Places, Stands, MakerSteps, HoldsLock, MailboxSteps, ItemSteps
  <1>5. NegotiationTypeOK /\ [Next]_storeVars
    BY <1>1, <1>2, ServedByRelay DEF NegotiationInv
  <1>6. /\ stored' = stored
        /\ \A q \in Orders : status'[q] = "matched" => status[q] = "matched" \/ match'[q] = chosen
        /\ Acknowledged(r) => match'[OrderOf(a)] = chosen
        /\ Reply(r) = "cancelled" =>
               /\ Tombstoned(a)'
               /\ \A q \in Orders : status'[q] = "matched" =>
                      status[q] = "matched" /\ match[q] # chosen
    BY <1>1, <1>2, ServedMatch DEF NegotiationInv
  <1>7. \A y \in Threads : y # x /\ pc[y] = "confirming" => SwapOf(makerSwaps', at[y]) # {}
    <2> SUFFICES ASSUME NEW y \in Threads, y # x, pc[y] = "confirming"
                 PROVE  SwapOf(makerSwaps', at[y]) # {}
      OBVIOUS
    <2>1. at[y] # a
      <3>1. MakerOf(OrderOf(at[y])) = Client(y) /\ HoldsLock(y)
        BY DEF NegotiationInv, Places, Stands, MakerSteps, HoldsLock, MailboxSteps
      <3> QED  BY <1>4, <3>1 DEF NegotiationInv, Exclusive
    <2>2. SwapOf(makerSwaps, at[y]) # {}
      BY DEF NegotiationInv, Places
    <2>3. makerSwaps \ {chosen} \subseteq makerSwaps'
      BY <1>3
    <2> QED  BY <1>2, <2>1, <2>2, <2>3 DEF SwapOf
  <1>8. /\ makerSwaps' \subseteq Matches /\ relayMatchPending' \subseteq makerSwaps'
        /\ \A m \in makerSwaps' \ relayMatchPending' :
               m \in makerSwaps \ relayMatchPending \/ match'[OrderOf(m[1])] = m
        /\ \A o \in Orders : status'[o] = "matched" =>
               \/ status[o] = "matched" /\ (match[o] \in makerSwaps => match[o] \in makerSwaps')
               \/ match'[o] \in makerSwaps'
        /\ \A m \in makerSwaps : m \in makerSwaps' \/ Tombstoned(m[1])'
    <2>1. makerSwaps \subseteq Matches /\ relayMatchPending \subseteq makerSwaps
      BY <1>5 DEF NegotiationTypeOK
    <2>2. CASE Acknowledged(r) /\ makerSwaps' = makerSwaps
               /\ relayMatchPending' = relayMatchPending \ {chosen}
      BY <1>2, <1>6, <2>1, <2>2
    <2>3. CASE Reply(r) = "cancelled" /\ makerSwaps' = makerSwaps \ {chosen}
               /\ relayMatchPending' = relayMatchPending \ {chosen}
      BY <1>2, <1>6, <2>1, <2>3
    <2>4. CASE UNCHANGED <<makerSwaps, relayMatchPending>>
      BY <1>2, <1>6, <2>1, <2>4
    <2> QED  BY <1>3, <2>2, <2>3, <2>4
  <1>9. UNCHANGED <<funding, locked, wire, faults, walletFaults>>
    BY <1>1 DEF walletVars, faultVars
  <1>10. /\ "handled" \notin HandSteps
         /\ "idle" \notin HandSteps \cup ItemSteps
    BY StepsReached DEF HandSteps
  <1>11. CASE Stop(x)
    <2>1. Goto(x, "idle", <<>>) /\ Stands(x, "idle", <<>>)
      BY <1>5, <1>11, StopParts, StepsReached DEF Stands
    <2> QED  BY <1>1, <1>5, <1>6, <1>7, <1>8, <1>9, <1>10, <1>11, <2>1, StopParts, SwapStepKept
             DEF NegotiationTypeOK
  <1>12. CASE Goto(x, "handled", a) /\ UNCHANGED todo
    <2>1. Stands(x, "handled", a)
      BY <1>4, StepsReached DEF Stands, TakerSteps
    <2> QED  BY <1>1, <1>4, <1>5, <1>6, <1>7, <1>8, <1>9, <1>10, <1>12, <2>1, SwapStepKept
             DEF NegotiationTypeOK
  <1> QED  BY <1>3, <1>11, <1>12

-----------------------------------------------------------------------------
(* A new acceptance *)

\* An acceptance is signed with an input that no other of its taker's has
\* (AcceptOffer, PrepareSwapFunding).
LEMMA AcceptOfferKept ==
    ASSUME NegotiationInv, Steady, NEW t \in Takers, NEW a \in Acceptances, NEW input \in Coins,
           NEW x, x = <<t, "user">>, AcceptOffer(t, a, input)
    PROVE  NegotiationInv'
  <1>1. /\ TakerOf(a) = t /\ IsOpen(OrderOf(a))
        /\ pc[x] = "idle" /\ LockFree(t)
        /\ funding[a] = 0
        /\ funding' = [funding EXCEPT ![a] = input]
        /\ locked' = locked \cup {a}
        /\ Goto(x, "prepared", a)
        /\ UNCHANGED <<storeVars, journalVars, todo, faultVars>>
    BY DEF AcceptOffer, Begins, Client
  <1>2. x \in Threads /\ Client(x) = t /\ ~IsWorker(x)
    BY ThreadParts DEF Identities
  <1>3. /\ NegotiationTypeOK /\ TypeOK' /\ [Next]_storeVars
        /\ Inv' /\ MailInv' /\ Addressed' /\ Onward
    BY <1>1, StoreKept DEF NegotiationInv, Inv
  <1>4. UNCHANGED <<stored, status, mailbox, pendingAcceptances, relaySubmitted, cancellation,
                    takerSwaps, incomingAcceptances, makerSwaps, relayMatchPending, cursor,
                    wire, faults, walletFaults>>
    BY <1>1 DEF storeVars, journalVars, faultVars
  <1>5. /\ pc'[x] = "prepared" /\ at'[x] = a
        /\ \A y \in Threads : y # x => pc'[y] = pc[y] /\ at'[y] = at[y]
        /\ pc' \in [Threads -> Steps] /\ at' \in [Threads -> Acceptances \cup {<<>>}]
    BY <1>1, <1>2, <1>3, Moved DEF Steps
  <1>6. /\ input \in Nat \ {0}
        /\ \A b \in Acceptances : funding'[b] = IF b = a THEN input ELSE funding[b]
        /\ funding' \in [Acceptances -> Coins \cup {0}]
    BY <1>1, <1>3, ClientAssumption DEF NegotiationTypeOK
  <1>7. NegotiationTypeOK'
    BY <1>1, <1>3, <1>4, <1>5, <1>6 DEF NegotiationTypeOK, Steady
  <1>8. Stands(x, "prepared", a)
    BY <1>1, <1>2, StepsReached DEF Stands, TakerSteps
  <1>9. Places'
    <2>1. \A y \in Threads : HasMail(Client(y)) => HasMail(Client(y))'
      BY <1>4 DEF HasMail
    <2>2. \A i \in Identities : \A b \in todo'[i] : TakerOf(b) = i
      BY <1>1 DEF NegotiationInv, Places
    <2>3. \A y \in Threads : pc[y] = "confirming" => SwapOf(makerSwaps', at[y]) # {}
      BY <1>4 DEF NegotiationInv, Places
    <2>4. "prepared" \notin ItemSteps
      BY DEF ItemSteps
    <2> QED  BY <1>1, <1>2, <1>4, <1>8, <2>1, <2>2, <2>3, <2>4, PlacesKept
  <1>10. Exclusive'
    BY <1>1, <1>2, ExclusiveKept
  <1>11. OneMatch' /\ WireJournaled'
    BY <1>3, <1>4, MatchesKept DEF NegotiationInv, WireJournaled
  <1>12. /\ \A b \in Acceptances : Held(b)' = Held(b)
         /\ \A b \in Acceptances : Underway(b)' => Underway(b)
    <2>1. \A b \in Acceptances : InHand(b)' => InHand(b)
      BY <1>5 DEF InHand, HandSteps
    <2> QED  BY <1>1, <1>4, <2>1 DEF Held, Underway
  <1>13. ~Underway(a) /\ ~Held(a)
    BY <1>1 DEF NegotiationInv, PreparedIsNew
  <1>14. \A b \in Acceptances : Over(b) => Over(b)'
    BY <1>3 DEF Onward
  <1>15. Reserved'
    BY <1>1, <1>12, <1>14 DEF NegotiationInv, Reserved
  <1>16. ReleasedIsOver'
    <2> SUFFICES ASSUME NEW y \in Threads, pc'[y] \in {"releasing", "removing"}
                 PROVE  \A b : b = at'[y] => Over(b)'
      BY DEF ReleasedIsOver
    <2>1. y # x /\ at'[y] = at[y] /\ pc[y] \in {"releasing", "removing"}
      BY <1>5
    <2>2. Over(at[y]) /\ at[y] \in Acceptances
      BY <2>1, AtTakerStep DEF NegotiationInv, ReleasedIsOver, TakerSteps
    <2> QED  BY <1>14, <2>1, <2>2
  <1>17. PreparedIsNew'
    <2>1. ASSUME NEW y \in Threads, pc'[y] = "prepared"
          PROVE  \A b : b = at'[y] => /\ ~Underway(b)' /\ ~Held(b)'
                                      /\ funding'[b] # 0
                                      /\ LocksSurvive => b \in locked'
      <3>1. CASE y = x
        BY <1>1, <1>5, <1>6, <1>12, <1>13, <3>1
      <3>2. CASE y # x
        <4>1. /\ at'[y] = at[y] /\ pc[y] = "prepared"
              /\ ~Underway(at[y]) /\ ~Held(at[y])
              /\ funding[at[y]] # 0
              /\ LocksSurvive => at[y] \in locked
          BY <1>5, <2>1, <3>2 DEF NegotiationInv, PreparedIsNew
        <4>2. at[y] \in Acceptances
          BY <4>1, AtTakerStep DEF TakerSteps
        <4> QED  BY <1>1, <1>6, <1>12, <4>1, <4>2
      <3> QED  BY <3>1, <3>2
    <2>2. \A b \in Acceptances : Underway(b)' \/ Held(b)' => funding'[b] # 0
      BY <1>6, <1>12 DEF NegotiationInv, PreparedIsNew
    <2>3. \A b \in Acceptances : funding'[b] # 0 => status'[OrderOf(b)] # "none"
      BY <1>1, <1>4, <1>6 DEF NegotiationInv, PreparedIsNew, IsOpen, EffectiveStatus
    <2> QED  BY <2>1, <2>2, <2>3 DEF PreparedIsNew
  <1> QED  BY <1>3, <1>7, <1>9, <1>10, <1>11, <1>15, <1>16, <1>17 DEF NegotiationInv

\* The signed acceptance becomes durable, its input locked already
\* (SavePendingAcceptance).
LEMMA SavePendingKept ==
    ASSUME NegotiationInv, Steady, NEW x \in Threads, NEW a, a = at[x], SavePending(x)
    PROVE  NegotiationInv'
  <1>1. /\ pc[x] = "prepared"
        /\ pendingAcceptances' = pendingAcceptances \cup {a}
        /\ Goto(x, "accepting", a)
        /\ UNCHANGED <<storeVars, relaySubmitted, cancellation, takerSwaps,
                       incomingAcceptances, makerSwaps, relayMatchPending, cursor,
                       walletVars, todo, faultVars>>
    BY DEF SavePending
  <1>2. a \in Acceptances /\ TakerOf(a) = Client(x) /\ HoldsLock(x)
    BY <1>1, AtTakerStep DEF TakerSteps
  <1>3. /\ funding[a] # 0
        /\ LocksSurvive => a \in locked
    BY <1>1 DEF NegotiationInv, PreparedIsNew
  <1>4. /\ NegotiationTypeOK /\ TypeOK' /\ [Next]_storeVars
        /\ Inv' /\ MailInv' /\ Addressed' /\ Onward
    BY <1>1, StoreKept DEF NegotiationInv, Inv
  <1>5. UNCHANGED <<stored, status, mailbox, funding, locked, wire, faults, walletFaults>>
    BY <1>1 DEF storeVars, walletVars, faultVars
  <1>6. Stands(x, "accepting", a)
    <2>1. IsWorker(x) \/ ~IsWorker(x)
      OBVIOUS
    <2> QED  BY <1>2, <2>1, StepsReached DEF Stands, TakerSteps
  <1>7. NegotiationTypeOK'
    BY <1>1, <1>2, <1>4, <1>5, <1>6, TypesKept DEF NegotiationTypeOK
  <1>8. Places'
    <2>1. \A y \in Threads : HasMail(Client(y)) => HasMail(Client(y))'
      BY <1>1, <1>5 DEF HasMail
    <2>2. \A i \in Identities : \A b \in todo'[i] : TakerOf(b) = i
      BY <1>1 DEF NegotiationInv, Places
    <2>3. \A y \in Threads : pc[y] = "confirming" => SwapOf(makerSwaps', at[y]) # {}
      BY <1>1 DEF NegotiationInv, Places
    <2>4. "accepting" \notin ItemSteps
      BY DEF ItemSteps
    <2> QED  BY <1>1, <1>6, <2>1, <2>2, <2>3, <2>4, PlacesKept
  <1>9. Exclusive'
    BY <1>1, <1>2, ExclusiveKept
  <1>10. OneMatch' /\ WireJournaled'
    BY <1>1, <1>4, <1>5, MatchesKept DEF NegotiationInv, WireJournaled
  <1>11. /\ pc'[x] = "accepting" /\ at'[x] = a
         /\ \A y \in Threads : y # x => pc'[y] = pc[y] /\ at'[y] = at[y]
    BY <1>1, <1>4, Moved
  <1>12. /\ \A b \in Acceptances : Held(b)' = (Held(b) \/ b = a)
         /\ \A b \in Acceptances : Underway(b)' => Underway(b) \/ b = a
    <2>1. \A b \in Acceptances : InHand(b)' => InHand(b) \/ b = a
      BY <1>11 DEF InHand
    <2> QED  BY <1>1, <1>5, <2>1 DEF Held, Underway
  <1>13. \A b \in Acceptances : Over(b) => Over(b)'
    BY <1>4 DEF Onward
  <1>14. Reserved'
    BY <1>3, <1>5, <1>12, <1>13 DEF NegotiationInv, Reserved
  <1>15. ReleasedIsOver'
    <2> SUFFICES ASSUME NEW y \in Threads, pc'[y] \in {"releasing", "removing"}
                 PROVE  \A b : b = at'[y] => Over(b)'
      BY DEF ReleasedIsOver
    <2>1. y # x /\ at'[y] = at[y] /\ pc[y] \in {"releasing", "removing"}
      BY <1>11
    <2>2. Over(at[y]) /\ at[y] \in Acceptances
      BY <2>1, AtTakerStep DEF NegotiationInv, ReleasedIsOver, TakerSteps
    <2> QED  BY <1>13, <2>1, <2>2
  <1>16. PreparedIsNew'
    <2>1. ASSUME NEW y \in Threads, pc'[y] = "prepared"
          PROVE  \A b : b = at'[y] => /\ ~Underway(b)' /\ ~Held(b)'
                                      /\ funding'[b] # 0
                                      /\ LocksSurvive => b \in locked'
      <3>1. /\ y # x /\ at'[y] = at[y] /\ pc[y] = "prepared"
            /\ ~Underway(at[y]) /\ ~Held(at[y])
            /\ funding[at[y]] # 0
            /\ LocksSurvive => at[y] \in locked
        BY <1>11, <2>1 DEF NegotiationInv, PreparedIsNew
      <3>2. at[y] \in Acceptances /\ at[y] # a
        BY <1>1, <3>1, AtTakerStep, TakerStepsApart DEF TakerSteps
      <3> QED  BY <1>5, <1>12, <3>1, <3>2
    <2>2. \A b \in Acceptances : Underway(b)' \/ Held(b)' => funding'[b] # 0
      BY <1>3, <1>5, <1>12 DEF NegotiationInv, PreparedIsNew
    <2>3. \A b \in Acceptances : funding'[b] # 0 => status'[OrderOf(b)] # "none"
      BY <1>5 DEF NegotiationInv, PreparedIsNew
    <2> QED  BY <2>1, <2>2, <2>3 DEF PreparedIsNew
  <1> QED  BY <1>4, <1>7, <1>8, <1>9, <1>10, <1>14, <1>15, <1>16 DEF NegotiationInv

-----------------------------------------------------------------------------
(* Steps of the relay and of the fault model *)

\* Threads that stay where they are, or stop at once, leave what is reserved
\* reserved.
LEMMA RestKept ==
    ASSUME NegotiationInv, Steady, [Next]_storeVars,
           \A y \in Threads : \/ pc'[y] = pc[y] /\ at'[y] = at[y]
                              \/ pc'[y] = "idle" /\ at'[y] = <<>>,
           pc' \in [Threads -> Steps], at' \in [Threads -> Acceptances \cup {<<>>}],
           \A i \in Identities : todo'[i] \subseteq todo[i],
           todo' \in [Identities -> SUBSET Acceptances],
           \A b \in stored' : Underway(b),
           \A o \in Orders : status'[o] = "matched" =>
               status[o] = "matched" \/ match'[o] \in makerSwaps,
           wire' \subseteq wire,
           locked' \subseteq locked, LocksSurvive => locked' = locked,
           UNCHANGED <<journalVars, funding, walletFaults>>,
           faults' = faults \/ (faults < MaxFaults /\ faults' = faults + 1)
    PROVE  NegotiationInv'
  <1>1. NegotiationTypeOK /\ TypeOK' /\ Inv' /\ MailInv' /\ Addressed' /\ Onward
    BY StoreKept DEF NegotiationInv, Inv
  <1>2. UNCHANGED <<pendingAcceptances, relaySubmitted, cancellation, takerSwaps,
                    incomingAcceptances, makerSwaps, relayMatchPending, cursor>>
    BY DEF journalVars
  <1>3. NegotiationTypeOK'
    <2>1. faults' \in 0..MaxFaults
      BY <1>1, ClientAssumption DEF NegotiationTypeOK
    <2>2. cursor' \in [Identities -> Nat] /\ \A i \in Identities : cursor'[i] <= Len(mailbox'[i])
      BY <1>1, <1>2, MailWaits DEF NegotiationTypeOK
    <2> QED  BY <1>1, <1>2, <2>1, <2>2 DEF NegotiationTypeOK, Steady
  <1>4. Places'
    <2>1. \A y \in Threads : HasMail(Client(y)) => HasMail(Client(y))'
      BY <1>1, <1>2, ThreadParts, MailWaits
    <2>2. \A y \in Threads : Stands(y, "idle", <<>>)
      BY StepsReached DEF Stands
    <2>3. /\ \A y \in Threads : Stands(y, pc'[y], at'[y])
          /\ \A y \in Threads : IsWorker(y) /\ pc'[y] \in ItemSteps => HasMail(Client(y))'
      BY <2>1, <2>2 DEF NegotiationInv, Places, ItemSteps
    <2>4. /\ \A y \in Threads : pc'[y] = "joined" => SwapOf(takerSwaps, at'[y]) # {}
          /\ \A y \in Threads : pc'[y] = "confirming" => SwapOf(makerSwaps, at'[y]) # {}
      BY DEF NegotiationInv, Places
    <2>5. \A i \in Identities : \A b \in todo'[i] : TakerOf(b) = i
      BY DEF NegotiationInv, Places
    <2> QED  BY <1>2, <2>3, <2>4, <2>5 DEF Places, Stands, SwapOf
  <1>5. Exclusive'
    <2>1. \A y \in Threads : HoldsLock(y)' => HoldsLock(y)
      BY DEF HoldsLock
    <2> QED  BY <2>1 DEF NegotiationInv, Exclusive
  <1>6. OneMatch' /\ WireJournaled'
    BY <1>1, <1>2, MatchesKept DEF NegotiationInv, WireJournaled
  <1>7. /\ \A b \in Acceptances : Held(b)' = Held(b)
        /\ \A b \in Acceptances : Underway(b)' => Underway(b)
    <2>1. \A b \in Acceptances : InHand(b)' => InHand(b)
      BY DEF InHand, HandSteps
    <2> QED  BY <1>2, <2>1 DEF Held, Underway
  <1>8. \A b \in Acceptances : Over(b) => Over(b)'
    BY <1>1 DEF Onward
  <1>9. Reserved'
    BY <1>7, <1>8 DEF NegotiationInv, Reserved
  <1>10. ReleasedIsOver'
    <2> SUFFICES ASSUME NEW y \in Threads, pc'[y] \in {"releasing", "removing"}
                 PROVE  \A b : b = at'[y] => Over(b)'
      BY DEF ReleasedIsOver
    <2>1. at'[y] = at[y] /\ pc[y] \in {"releasing", "removing"}
      OBVIOUS
    <2>2. Over(at[y]) /\ at[y] \in Acceptances
      BY <2>1, AtTakerStep DEF NegotiationInv, ReleasedIsOver, TakerSteps
    <2> QED  BY <1>8, <2>1, <2>2
  <1>11. PreparedIsNew'
    <2>1. ASSUME NEW y \in Threads, pc'[y] = "prepared"
          PROVE  \A b : b = at'[y] => /\ ~Underway(b)' /\ ~Held(b)'
                                      /\ funding'[b] # 0
                                      /\ LocksSurvive => b \in locked'
      <3>1. /\ at'[y] = at[y] /\ pc[y] = "prepared"
            /\ ~Underway(at[y]) /\ ~Held(at[y])
            /\ funding[at[y]] # 0
            /\ LocksSurvive => at[y] \in locked
        BY <2>1 DEF NegotiationInv, PreparedIsNew
      <3>2. at[y] \in Acceptances
        BY <3>1, AtTakerStep DEF TakerSteps
      <3> QED  BY <1>7, <3>1, <3>2
    <2>2. \A b \in Acceptances : Underway(b)' \/ Held(b)' => funding'[b] # 0
      BY <1>7 DEF NegotiationInv, PreparedIsNew
    <2>3. \A b \in Acceptances : funding'[b] # 0 => status'[OrderOf(b)] # "none"
      BY <1>1, AcceptanceParts DEF NegotiationInv, PreparedIsNew, Onward
    <2> QED  BY <2>1, <2>2, <2>3 DEF PreparedIsNew
  <1> QED  BY <1>1, <1>3, <1>4, <1>5, <1>6, <1>9, <1>10, <1>11 DEF NegotiationInv

\* A late request reaches the relay: the maker's journal knows the match it may
\* bring about.
LEMMA DeliverKept ==
    ASSUME NegotiationInv, Steady, NEW r \in wire, Deliver(r)
    PROVE  NegotiationInv'
  <1>1. /\ wire' = wire \ {r} /\ Serve(r)
        /\ UNCHANGED <<journalVars, walletVars, pc, at, todo, faults, walletFaults>>
    BY DEF Deliver
  <1>2. NegotiationTypeOK /\ Inv /\ r \in Requests
    BY DEF NegotiationInv, NegotiationTypeOK
  <1>3. [Next]_storeVars
    BY <1>1, <1>2, ServedByRelay
  <1>4. r.op \in {"accept", "cancel"} \/ r.op = "match"
    BY <1>2, RequestParts
  <1>5. \A b \in stored' : Underway(b)
    <2>1. stored' = stored \/ \A b \in stored' : b \in stored \/ (r.op = "accept" /\ b = r.of)
      BY <1>1, <1>2, <1>4, ServedParts, ServedMatch
    <2> QED  BY <2>1, WireUnderway DEF Underway
  <1>6. \A o \in Orders : status'[o] = "matched" =>
            status[o] = "matched" \/ match'[o] \in makerSwaps
    <2>1. r.op = "match" => r.of \in makerSwaps \/ Tombstoned(r.of[1])
      BY DEF NegotiationInv, WireJournaled
    <2>2. CASE r.op = "match"
      BY <1>1, <1>2, <2>1, <2>2, ServedMatch
    <2>3. CASE r.op \in {"accept", "cancel"}
      BY <1>1, <1>2, <2>3, ServedParts
    <2> QED  BY <1>4, <2>2, <2>3
  <1> QED  BY <1>1, <1>2, <1>3, <1>5, <1>6, RestKept DEF walletVars, NegotiationTypeOK

\* A step of the relay that stores no acceptance and commits no match.
LEMMA StoreStepKept ==
    ASSUME NegotiationInv, Steady, Next, stored' = stored,
           \A o \in Orders : status'[o] = "matched" => status[o] = "matched",
           UNCHANGED <<journalVars, walletVars, pc, at, todo, wire, faults, walletFaults>>
    PROVE  NegotiationInv'
  <1>1. \A b \in stored' : Underway(b)
    BY DEF Underway
  <1>2. NegotiationTypeOK
    BY DEF NegotiationInv
  <1> QED  BY <1>1, <1>2, RestKept DEF walletVars, NegotiationTypeOK

\* Orders are published and withdrawn, and deadlines pass.
LEMMA OrderStepKept ==
    ASSUME NegotiationInv, Steady, NEW o \in Orders, CreateOffer(o) \/ CancelOffer(o) \/ Deadline(o)
    PROVE  NegotiationInv'
  <1>1. /\ Publish(o) \/ Cancel(o) \/ ExpireOrder(o)
        /\ UNCHANGED <<journalVars, walletVars, pc, at, todo, wire, faults, walletFaults>>
    BY DEF CreateOffer, CancelOffer, Deadline, faultVars
  <1>2. TypeOK
    BY DEF NegotiationInv, Inv
  <1>3. /\ stored' = stored
        /\ \A q \in Orders : status'[q] = "matched" => status[q] = "matched"
    BY <1>1, <1>2 DEF Publish, Cancel, ExpireOrder, TypeOK
  <1>4. Next
    BY <1>1 DEF Next
  <1> QED  BY <1>1, <1>3, <1>4, StoreStepKept

\* The deadline of an order passes on the clock of one client, which may be the
\* first to see it.
LEMMA ClientDeadlineKept ==
    ASSUME NegotiationInv, Steady, NEW i \in Identities, NEW o \in Orders, ClientDeadline(i, o)
    PROVE  NegotiationInv'
  <1>1. /\ UNCHANGED <<storeVars, journalVars, walletVars, pc, at, todo, wire, walletFaults>>
        /\ faults' = faults \/ (faults < MaxFaults /\ faults' = faults + 1)
    BY DEF ClientDeadline
  <1>2. NegotiationTypeOK
    BY DEF NegotiationInv
  <1>3. /\ \A b \in stored' : Underway(b)
        /\ \A q \in Orders : status'[q] = "matched" => status[q] = "matched"
        /\ [Next]_storeVars
    BY <1>1 DEF storeVars, Underway
  <1> QED  BY <1>1, <1>2, <1>3, RestKept DEF walletVars, NegotiationTypeOK

\* A client that stops loses its threads, and a Bitcoin wallet its locks.
LEMMA RestartKept ==
    ASSUME NegotiationInv, Steady, NEW i \in Identities, Restart(i)
    PROVE  NegotiationInv'
  <1>1. NegotiationTypeOK
    BY DEF NegotiationInv
  <1>2. /\ faults < MaxFaults /\ faults' = faults + 1
        /\ pc' = [x \in Threads |-> IF Client(x) = i THEN "idle" ELSE pc[x]]
        /\ at' = [x \in Threads |-> IF Client(x) = i THEN <<>> ELSE at[x]]
        /\ todo' = [todo EXCEPT ![i] = {}]
        /\ locked' = IF LocksSurvive THEN locked ELSE {a \in locked : TakerOf(a) # i}
        /\ UNCHANGED <<storeVars, journalVars, funding, wire, walletFaults>>
    BY DEF Restart
  <1>3. /\ pc' \in [Threads -> Steps] /\ at' \in [Threads -> Acceptances \cup {<<>>}]
        /\ \A y \in Threads : \/ pc'[y] = pc[y] /\ at'[y] = at[y]
                              \/ pc'[y] = "idle" /\ at'[y] = <<>>
    BY <1>1, <1>2 DEF NegotiationTypeOK, Steps
  <1>4. /\ todo' \in [Identities -> SUBSET Acceptances]
        /\ \A j \in Identities : todo'[j] \subseteq todo[j]
    BY <1>1, <1>2 DEF NegotiationTypeOK
  <1>5. /\ \A b \in stored' : Underway(b)
        /\ \A o \in Orders : status'[o] = "matched" => status[o] = "matched"
        /\ [Next]_storeVars
    BY <1>2 DEF storeVars, Underway
  <1> QED  BY <1>2, <1>3, <1>4, <1>5, RestKept

-----------------------------------------------------------------------------
(* The theorems *)

\* Nothing is under way at first.
LEMMA NegotiationInitInv == NegotiationInit => NegotiationInv
  <1> SUFFICES ASSUME NegotiationInit PROVE NegotiationInv
    OBVIOUS
  <1>1. Inv /\ MailInv
    BY InitInv, MailInitially DEF NegotiationInit
  <1>2. NegotiationTypeOK
    <2>1. \A i \in Identities : mailbox[i] = <<>> /\ Len(mailbox[i]) = 0
      BY DEF NegotiationInit, Init
    <2> QED  BY <1>1, <2>1, ClientAssumption DEF NegotiationInit, NegotiationTypeOK, Inv, Steps
  <1>3. Addressed
    BY DEF Addressed, NegotiationInit, Init
  <1>4. Places
    <2>1. \A x \in Threads : Stands(x, "idle", <<>>)
      BY StepsReached DEF Stands
    <2> QED  BY <2>1 DEF Places, NegotiationInit, ItemSteps
  <1>5. Exclusive
    BY DEF Exclusive, HoldsLock, NegotiationInit
  <1>6. OneMatch /\ WireJournaled
    BY DEF OneMatch, WireJournaled, NegotiationInit, Init
  <1>7. \A a \in Acceptances : ~Underway(a) /\ ~Held(a)
    BY DEF Underway, Held, InHand, HandSteps, SwapOf, NegotiationInit, Init
  <1>8. Reserved /\ ReleasedIsOver /\ PreparedIsNew
    BY <1>7 DEF Reserved, ReleasedIsOver, PreparedIsNew, NegotiationInit
  <1> QED  BY <1>1, <1>2, <1>3, <1>4, <1>5, <1>6, <1>8 DEF NegotiationInv

\* A served request leaves the relay's clock where it is, and adds no
\* cancellation dated before its acceptance.
LEMMA ServedDates ==
    ASSUME NEW r \in Requests, Serve(r)
    PROVE  late' = late /\ predated' \subseteq predated
  <1>1. CASE r.op = "accept" /\ SubmitAcceptance(r.of)
    BY <1>1 DEF SubmitAcceptance
  <1>2. CASE r.op = "cancel" /\ CancelAcceptance(r.of, TakerOf(r.of), "after")
    BY <1>2 DEF CancelAcceptance
  <1>3. CASE r.op = "match" /\ ConfirmMatch(r.of)
    BY <1>3 DEF ConfirmMatch
  <1>4. CASE UNCHANGED storeVars
    BY <1>4 DEF storeVars
  <1> QED  BY <1>1, <1>2, <1>3, <1>4 DEF Serve

\* What a step does to the clocks.
LEMMA ClocksStep ==
    ASSUME NegotiationInv, ClocksInv, [NegotiationNext]_vars
    PROVE  Steady /\ ClocksInv'
  <1>1. CASE late \subseteq late' /\ predated' \subseteq predated /\ UNCHANGED <<passed, early>>
    BY <1>1 DEF ClocksInv, Steady
  <1>2. CASE \E x \in Threads : Accepting(x) \/ Cancelling(x) \/ Confirming(x)
    <2>1. PICK x \in Threads : Accepting(x) \/ Cancelling(x) \/ Confirming(x)
      BY <1>2
    <2>2. /\ Serve(RequestOf(x)) /\ pc[x] \in {"accepting", "cancelling", "confirming"}
          /\ UNCHANGED <<passed, early>>
      BY <2>1 DEF Accepting, Cancelling, Confirming, faultVars
    <2> QED  BY <1>1, <2>2, RequestMade, ServedDates
  <1>3. CASE \E r \in wire : Deliver(r)
    <2>1. wire \subseteq Requests
      BY DEF NegotiationInv, NegotiationTypeOK
    <2> QED  BY <1>1, <1>3, <2>1, ServedDates DEF Deliver
  <1>4. CASE UNCHANGED <<storeVars, passed, early>>
    BY <1>1, <1>4 DEF storeVars
  <1>5. CASE \E o \in Orders : CreateOffer(o) \/ CancelOffer(o)
    BY <1>1, <1>5 DEF CreateOffer, CancelOffer, Publish, Cancel, faultVars
  <1>6. CASE \E o \in Orders : Deadline(o)
    <2>1. PICK o \in Orders : Deadline(o)
      BY <1>6
    <2>2. /\ late \subseteq late' /\ o \in late' /\ predated' = predated
          /\ passed' = passed \cup ((Identities \ Behind) \X {o}) /\ early' = early
      BY <2>1 DEF Deadline, ExpireOrder
    <2>3. \A p \in passed' : p \in passed \/ p[2] = o
      BY <2>2
    <2> QED  BY <2>2, <2>3 DEF ClocksInv, Steady
  <1>7. CASE \E i \in Identities, o \in Orders : ClientDeadline(i, o)
    <2>1. PICK i \in Identities, o \in Orders : ClientDeadline(i, o)
      BY <1>7
    <2>2. /\ UNCHANGED <<late, predated>>
          /\ passed' = passed \cup {<<i, o>>}
          /\ \/ o \in late /\ early' = early
             \/ i \in Ahead /\ early' = early \cup {<<i, o>>}
      BY <2>1 DEF ClientDeadline, storeVars
    <2>3. \A p \in passed' : p \in passed \/ (p = <<i, o>> /\ p[1] = i /\ p[2] = o)
      BY <2>2
    <2> QED  BY <2>2, <2>3 DEF ClocksInv, Steady
  <1>8. CASE \E t \in Takers, a \in Acceptances :
                 ResendAcceptance(t, a) \/ CancelPending(t, a)
                   \/ \E input \in Coins : AcceptOffer(t, a, input)
    BY <1>4, <1>8 DEF ResendAcceptance, CancelPending, AcceptOffer, faultVars
  <1>9. CASE \E i \in Makers, a \in Acceptances : MatchIncoming(i, a)
    BY <1>4, <1>9 DEF MatchIncoming, faultVars
  <1>10. CASE \E x \in Threads : SavePending(x) \/ Releasing(x) \/ Removing(x) \/ Matching(x)
                                   \/ Handled(x) \/ Unanswered(x) \/ Fail(x)
    BY <1>4, <1>10
       DEF SavePending, Releasing, Removing, Matching, Handled, Unanswered, Fail, faultVars
  <1>11. CASE \E x \in Threads : SyncStep(x)
    BY <1>4, <1>11 DEF SyncStep, MailboxStep, StartSync, Reconciling, Checking,
       ReconcileIncoming, MailboxEmpty, Join, Joined, Settled, Receive, Received, Advancing,
       faultVars
  <1>12. CASE \E i \in Identities : Restart(i)
    BY <1>4, <1>12 DEF Restart
  <1>13. UNCHANGED vars => UNCHANGED <<storeVars, passed, early>>
    BY DEF vars, faultVars
  <1> QED  BY <1>2, <1>3, <1>4, <1>5, <1>6, <1>7, <1>8, <1>9, <1>10, <1>11, <1>12, <1>13
           DEF NegotiationNext, UserRequest, RequestStep

\* Every step keeps the invariant.
LEMMA NegotiationNextInv ==
    ASSUME NegotiationInv, Steady, [NegotiationNext]_vars
    PROVE  NegotiationInv'
  <1>1. CASE UserRequest
    <2>1. ASSUME NEW o \in Orders, CreateOffer(o) \/ CancelOffer(o) PROVE NegotiationInv'
      BY <2>1, OrderStepKept
    <2>2. ASSUME NEW t \in Takers, NEW a \in Acceptances,
                 ResendAcceptance(t, a) \/ CancelPending(t, a)
                   \/ \E input \in Coins : AcceptOffer(t, a, input)
          PROVE  NegotiationInv'
      BY <2>2, ResendKept, CancelPendingKept, AcceptOfferKept
    <2>3. ASSUME NEW i \in Makers, NEW a \in Acceptances, MatchIncoming(i, a)
          PROVE  NegotiationInv'
      BY <2>3, MatchIncomingKept
    <2> QED  BY <1>1, <2>1, <2>2, <2>3 DEF UserRequest
  <1>2. CASE \E x \in Threads : RequestStep(x)
    <2>1. PICK x \in Threads : RequestStep(x)
      BY <1>2
    <2> QED  BY <2>1, SavePendingKept, AcceptingKept, CancellingKept, ReleasingKept,
                RemovingKept, MatchingKept, ConfirmingKept, HandledKept DEF RequestStep
  <1>3. CASE \E x \in Threads : SyncStep(x)
    <2>1. PICK x \in Threads : SyncStep(x)
      BY <1>3
    <2>2. CASE StartSync(x) \/ Reconciling(x) \/ Checking(x) \/ ReconcileIncoming(x)
      BY <2>2, StartSyncKept, ReconcilingKept, CheckingKept, ReconcileIncomingKept
    <2>3. CASE MailboxStep(x)
      BY <2>3, MailboxEmptyKept, JoinKept, JoinedKept, SettledKept, ReceiveKept,
         ReceivedKept, AdvancingKept DEF MailboxStep
    <2> QED  BY <2>1, <2>2, <2>3 DEF SyncStep
  <1>4. CASE \E x \in Threads : Unanswered(x) \/ Fail(x)
    BY <1>4, UnansweredKept, FailKept
  <1>5. CASE \E r \in wire : Deliver(r)
    BY <1>5, DeliverKept
  <1>6. CASE \E i \in Identities : Restart(i)
    BY <1>6, RestartKept
  <1>7. CASE \E o \in Orders : Deadline(o)
    BY <1>7, OrderStepKept
  <1>8. CASE \E i \in Identities, o \in Orders : ClientDeadline(i, o)
    BY <1>8, ClientDeadlineKept
  <1>9. CASE UNCHANGED vars
    <2>1. NegotiationTypeOK /\ [Next]_storeVars /\ \A b \in stored' : Underway(b)
      BY <1>9 DEF NegotiationInv, vars, storeVars, Underway
    <2>2. UNCHANGED <<status, journalVars, funding, locked, pc, at, todo, wire,
                      faults, walletFaults>>
      BY <1>9 DEF vars, storeVars, walletVars, faultVars
    <2> QED  BY <2>1, <2>2, RestKept DEF NegotiationTypeOK
  <1> QED  BY <1>1, <1>2, <1>3, <1>4, <1>5, <1>6, <1>7, <1>8, <1>9 DEF NegotiationNext

\* The invariant holds throughout, with that of the clocks.
LEMMA NegotiationInvariance == NegotiationSpec => [](NegotiationInv /\ ClocksInv)
  <1>1. NegotiationInit => NegotiationInv /\ ClocksInv
    BY NegotiationInitInv DEF NegotiationInit, Init, ClocksInv
  <1>2. NegotiationInv /\ ClocksInv /\ [NegotiationNext]_vars => NegotiationInv' /\ ClocksInv'
    BY ClocksStep, NegotiationNextInv
  <1> QED  BY <1>1, <1>2, PTL DEF NegotiationSpec

\* The journals, the wallets' locks and the places of the threads keep their
\* types; what is acknowledged or cancelled is pending, and no cursor runs ahead
\* of its mailbox (internal/app/service.go, swapstate/journal.go).
THEOREM NegotiationTyping == NegotiationSpec => []NegotiationTypeOK
  BY NegotiationInvariance, PTL DEF NegotiationInv

\* Whatever answers are lost, requests delayed and clients restarted, both
\* traders' journals and the relay agree on the one match of an order, and a
\* swap the relay refused stays provisional (MatchAcceptance, confirmMatch,
\* joinAcceptedMatch).
THEOREM OneMatchOnly == NegotiationSpec => []OneMatch
  BY NegotiationInvariance, PTL DEF NegotiationInv

\* Whichever clocks are ahead of the relay's or behind it: an acceptance the
\* maker can still publish a funding for is in its taker's journal, and where
\* locks are kept on disk its input is locked, unless the taker's own clock was
\* ahead and has passed the deadline.  No other way leads to a release: neither a
\* cancellation without its acknowledgement, nor an order that closed for it with
\* a match (releasePendingFunding, RemovePendingAcceptance, service.go:1607).
THEOREM BindingReserved == NegotiationSpec => []BindingIsKept
  <1>1. NegotiationInv => BindingIsKept
    <2> SUFFICES ASSUME NegotiationInv, NEW a \in Acceptances, Binding(a),
                        ~RanAhead(TakerOf(a), OrderOf(a))
                 PROVE  Held(a) /\ (LocksSurvive => a \in locked)
      BY DEF BindingIsKept, Kept, Held
    <2>1. Underway(a)
      <3>1. Selected(a) => Underway(a)
        BY SelectedUnderway DEF NegotiationInv
      <3> QED  BY <3>1 DEF Binding, Underway
    <2>2. ~Over(a)
      <3>1. Selected(a) => ~Tombstoned(a)
        BY AcceptanceParts
           DEF NegotiationInv, Inv, MatchXorCancel, Selected, Tombstoned
      <3>2. Selected(a) \/ IsOpen(OrderOf(a))
        BY DEF Binding
      <3> QED  BY <3>1, <3>2 DEF Binding, Over
    <2> QED  BY <2>1, <2>2 DEF NegotiationInv, Reserved
  <1> QED  BY <1>1, NegotiationInvariance, PTL

\* A taker whose clock is not ahead of the relay's keeps its journal entry and
\* its lock for as long as the maker can publish, whatever the maker's clock does
\* and whatever answers are lost (README.md:51-53).
THEOREM HeldUnlessAhead ==
    ASSUME NEW a \in Acceptances, TakerOf(a) \notin Ahead
    PROVE  NegotiationSpec => [](Binding(a) => Kept(a))
  <1>1. ClocksInv /\ BindingIsKept => (Binding(a) => Kept(a))
    BY DEF ClocksInv, BindingIsKept, RanAhead
  <1> QED  BY <1>1, BindingReserved, NegotiationInvariance, PTL

\* Every step of the clients and of the network is a step of the relay's store,
\* or leaves the store alone.
LEMMA StoreSteps ==
    NegotiationInv /\ [NegotiationNext]_vars => [Next]_storeVars
  <1> SUFFICES ASSUME NegotiationInv, [NegotiationNext]_vars PROVE [Next]_storeVars
    OBVIOUS
  <1>1. CASE \E o \in Orders : CreateOffer(o) \/ CancelOffer(o) \/ Deadline(o)
    BY <1>1 DEF CreateOffer, CancelOffer, Deadline, Next
  <1>2. CASE \E x \in Threads : Accepting(x) \/ Cancelling(x) \/ Confirming(x)
    <2>1. PICK x \in Threads : Accepting(x) \/ Cancelling(x) \/ Confirming(x)
      BY <1>2
    <2>2. Serve(RequestOf(x)) /\ pc[x] \in {"accepting", "cancelling", "confirming"}
      BY <2>1 DEF Accepting, Cancelling, Confirming
    <2> QED  BY <2>2, RequestMade, ServedByRelay
  <1>3. CASE \E r \in wire : Deliver(r)
    <2>1. wire \subseteq Requests
      BY DEF NegotiationInv, NegotiationTypeOK
    <2> QED  BY <1>3, <2>1, ServedByRelay DEF Deliver
  <1>4. CASE UNCHANGED storeVars
    BY <1>4
  <1>5. CASE \E t \in Takers, a \in Acceptances :
                 ResendAcceptance(t, a) \/ CancelPending(t, a)
                   \/ \E input \in Coins : AcceptOffer(t, a, input)
    BY <1>5, <1>4 DEF ResendAcceptance, CancelPending, AcceptOffer
  <1>6. CASE \E i \in Makers, a \in Acceptances : MatchIncoming(i, a)
    BY <1>6, <1>4 DEF MatchIncoming
  <1>7. CASE \E x \in Threads : SavePending(x) \/ Releasing(x) \/ Removing(x) \/ Matching(x)
                                  \/ Handled(x) \/ Unanswered(x) \/ Fail(x)
    BY <1>7, <1>4 DEF SavePending, Releasing, Removing, Matching, Handled, Unanswered, Fail
  <1>8. CASE \E x \in Threads : SyncStep(x)
    BY <1>8, <1>4 DEF SyncStep, MailboxStep, StartSync, Reconciling, Checking, ReconcileIncoming,
       MailboxEmpty, Join, Joined, Settled, Receive, Received, Advancing
  <1>9. CASE \E i \in Identities : Restart(i)
    BY <1>9, <1>4 DEF Restart
  <1>10. CASE \E i \in Identities, o \in Orders : ClientDeadline(i, o)
    BY <1>10, <1>4 DEF ClientDeadline
  <1>11. UNCHANGED vars => UNCHANGED storeVars
    BY DEF vars
  <1> QED  BY <1>1, <1>2, <1>3, <1>4, <1>5, <1>6, <1>7, <1>8, <1>9, <1>10, <1>11
           DEF NegotiationNext, UserRequest, RequestStep

\* What the clients do to the relay, with requests lost and late, is what its
\* store promises: the negotiation is a run of the relay's store, so that the
\* theorems about the store hold in it (internal/relay/store.go, mailbox.go).
THEOREM StoreImplemented == NegotiationSpec => Spec
  <1>1. NegotiationInit => Init
    BY DEF NegotiationInit
  <1> QED  BY <1>1, StoreSteps, NegotiationInvariance, PTL DEF NegotiationSpec, Spec
=============================================================================
