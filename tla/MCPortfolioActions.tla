------------------------- MODULE MCPortfolioActions -------------------------
(***************************************************************************)
(* A small instance of PortfolioActions: a share, a bond and an option,    *)
(* prices that fall, a halt, quotes of poor quality.  Ten units to a cent. *)
(***************************************************************************)
EXTENDS PortfolioActions, TLC

MCTerms ==
  ("equity" :> [base |-> 70, cap |-> 65, tolerance |-> 35, slope |-> 70]) @@
  ("bond"   :> [base |-> 90, cap |-> 85, tolerance |-> 65, slope |-> 70]) @@
  ("option" :> [base |-> 40, cap |-> 30, tolerance |-> 10, slope |-> 120]) @@
  ("cash"   :> [base |-> 98, cap |-> 98, tolerance |-> 90, slope |-> 70])

Traded(price, spread) ==
  [price |-> price, bid |-> price - spread, ask |-> price + spread, halted |-> FALSE,
   quality |-> 100, kept |-> 90, recovered |-> 80, slippage |-> 10]

Calm ==
  ("share" :> Traded(100, 10)) @@ ("note" :> [Traded(50, 0) EXCEPT !.ask = 0, !.bid = 0,
                                                                !.kept = 95, !.recovered = 90])
  @@ ("call" :> [Traded(40, 10) EXCEPT !.kept = 50, !.recovered = 40])
Fallen == [Calm EXCEPT !["share"] = Traded(60, 10)]
Doubtful == [Calm EXCEPT !["share"].halted = TRUE, !["note"].quality = 30]

MCMarkets == {Calm, Fallen, Doubtful}

Share == [asset |-> "share", type |-> "equity", venue |-> "nyse"]
Note == [asset |-> "note", type |-> "bond", venue |-> "unknown"]

MCAccounts ==
  {[holdings |-> (Share :> 3) @@ (Note :> 3), cash |-> 0,
    loan |-> [principal |-> 100, interest |-> 10, fees |-> 10]],
   [holdings |-> (Share :> 2) @@ (Note :> 0), cash |-> 100,
    loan |-> [principal |-> 0, interest |-> 0, fees |-> 0]]}

Of(kind, asset) == [NoAction EXCEPT !.kind = kind, !.asset = asset]
Lots1(action) == [action EXCEPT !.quantity = 1]
Worth100(action) == [action EXCEPT !.amount = 100]

MCActions ==
  {[NoAction EXCEPT !.kind = k, !.amount = a] :
     k \in {"draw", "repay", "withdraw_cash"}, a \in {50, 120}}
  \cup {[NoAction EXCEPT !.kind = k, !.amount = a] : k \in {"draw", "repay"}, a \in {4, 56}}
  \cup {Lots1(Of("sell", a)) : a \in {"share", "note"}}
  \cup {[Worth100(Of("sell", "share")) EXCEPT !.withdraw = TRUE],
        [Lots1(Of("sell", "share")) EXCEPT !.withdraw = TRUE],
        [Lots1(Of("sell", "note")) EXCEPT !.type = "equity"]}
  \cup {[Lots1(Of("buy", "share")) EXCEPT !.type = "equity", !.funding = f] :
          f \in {"none", "draw", "external_cash"}}
  \cup {[Worth100(Of("buy", "call")) EXCEPT !.type = "option", !.funding = "draw"],
        [Worth100(Of("buy", "note")) EXCEPT !.quantity = 1]}
  \cup {[Lots1(Of("withdraw_security", "share")) EXCEPT !.quantity = q] : q \in {1, 2}}
  \cup {[Lots1(Of("withdraw_security", "note")) EXCEPT !.inward = TRUE],
        [Lots1(Of("transfer_security", "note")) EXCEPT !.inward = TRUE],
        [Lots1(Of("transfer_security", "share")) EXCEPT !.type = "equity"]}
  \cup {[Lots1(Of("rebalance", "share")) EXCEPT !.to = "note", !.toType = "bond",
                                               !.toQuantity = n, !.toAmount = m] :
          n \in {0, 3}, m \in {0, 60}}

ASSUME ReportsAssumption == WholeCents /\ NeverCrossed
=============================================================================
