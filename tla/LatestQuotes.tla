---------------------------- MODULE LatestQuotes ----------------------------
(***************************************************************************)
(* What the market-data cache promises its readers ("latest internal       *)
(* market data updates", src/app/monitoring/market_updates.py:22): a board *)
(* with one entry per name, the quote that arrived last under it.  A quote *)
(* comes with names of its own and with an alias; an alias that turns out  *)
(* to stand for several listings is withdrawn for good.                    *)
(***************************************************************************)
CONSTANTS
  Keys,          (* names                                                  *)
  Quotes, NoQuote,
  Publications   (* [own: SUBSET Keys, alias: Keys]                        *)

VARIABLES board, withdrawn

vars == <<board, withdrawn>>

Init ==
  /\ board = [k \in Keys |-> NoQuote]
  /\ withdrawn = {}

Put(p, q) ==
  /\ withdrawn' \in {withdrawn, withdrawn \cup {p.alias}}
  /\ board' = [k \in Keys |-> IF k \in p.own THEN q
                              ELSE IF k # p.alias THEN board[k]
                              ELSE IF k \in withdrawn' THEN NoQuote ELSE q]

Next == \E p \in Publications, q \in Quotes : Put(p, q)

Spec == Init /\ [][Next]_vars
=============================================================================
