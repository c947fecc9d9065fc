----------------------------- MODULE SwapPhases -----------------------------
(***************************************************************************)
(* The phase graph of the swap journal (internal/swapstate/journal.go).    *)
(* A swap record moves only along ValidAdvance, or backwards along         *)
(* ValidRewind when a block reorganisation takes confirmations away.  The  *)
(* journal refuses every other change with ErrInvalidAdvance, and the      *)
(* engine then abandons its pass with that error.                          *)
(***************************************************************************)
EXTENDS FiniteSets

LegacyPhases ==
    {"terms_proposed", "terms_agreed", "maker_funding", "maker_funded",
     "taker_funding", "taker_funded", "maker_claiming", "maker_claimed",
     "taker_claiming"}

AsyncPhases ==
    {"async_taker_funding", "async_taker_funded", "async_maker_funding",
     "async_maker_funded", "async_taker_claiming", "async_taker_claimed",
     "async_maker_claiming"}

RefundPhases == {"waiting_for_refund", "refunding"}

TerminalPhases == {"complete", "refunded", "expired"}

Phases == {"matched"} \cup LegacyPhases \cup AsyncPhases
            \cup RefundPhases \cup TerminalPhases

\* The phases each phase may advance to.
Advances ==
    [matched              |-> {"terms_proposed", "async_taker_funding", "waiting_for_refund"},
     terms_proposed       |-> {"terms_agreed", "waiting_for_refund", "expired"},
     terms_agreed         |-> {"maker_funding", "waiting_for_refund", "expired"},
     maker_funding        |-> {"maker_funded", "waiting_for_refund", "expired"},
     maker_funded         |-> {"taker_funding", "waiting_for_refund", "expired"},
     taker_funding        |-> {"taker_funded", "waiting_for_refund", "expired"},
     taker_funded         |-> {"maker_claiming", "waiting_for_refund"},
     maker_claiming       |-> {"maker_claimed", "waiting_for_refund"},
     maker_claimed        |-> {"taker_claiming", "waiting_for_refund"},
     taker_claiming       |-> {"complete", "waiting_for_refund"},
     async_taker_funding  |-> {"async_taker_funded", "waiting_for_refund", "expired"},
     async_taker_funded   |-> {"async_maker_funding", "waiting_for_refund"},
     async_maker_funding  |-> {"async_maker_funded", "waiting_for_refund"},
     async_maker_funded   |-> {"async_taker_claiming", "waiting_for_refund"},
     async_taker_claiming |-> {"async_taker_claimed", "waiting_for_refund"},
     async_taker_claimed  |-> {"async_maker_claiming", "waiting_for_refund"},
     async_maker_claiming |-> {"complete", "waiting_for_refund"},
     waiting_for_refund   |-> {"refunding"},
     refunding            |-> {"refunded"}]

ValidAdvance(from, to) == from \in DOMAIN Advances /\ to \in Advances[from]

\* The phases a reorganisation may send each phase back to.
Rewinds ==
    [maker_funded         |-> {"maker_funding"},
     taker_funding        |-> {"maker_funding"},
     taker_funded         |-> {"maker_funding", "taker_funding"},
     maker_claiming       |-> {"maker_funding", "taker_funding"},
     maker_claimed        |-> {"maker_claiming"},
     taker_claiming       |-> {"maker_claiming"},
     complete             |-> {"maker_claiming", "taker_claiming",
                               "async_taker_claiming", "async_maker_claiming"},
     async_taker_funded   |-> {"async_taker_funding"},
     async_maker_funding  |-> {"async_taker_funding"},
     async_maker_funded   |-> {"async_taker_funding", "async_maker_funding"},
     async_taker_claiming |-> {"async_taker_funding", "async_maker_funding"},
     async_taker_claimed  |-> {"async_taker_claiming"},
     async_maker_claiming |-> {"async_taker_claiming", "async_taker_funding"},
     refunded             |-> {"refunding"}]

ValidRewind(from, to) == from \in DOMAIN Rewinds /\ to \in Rewinds[from]
=============================================================================
