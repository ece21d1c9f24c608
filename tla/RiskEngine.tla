----------------------------- MODULE RiskEngine -----------------------------
(***************************************************************************)
(* RiskEngine.evaluate_with_report over a portfolio snapshot.  Money,      *)
(* prices and quantities are integers in one unit, a confidence is in      *)
(* percent; a division is carried to the other side of its comparison.     *)
(***************************************************************************)
EXTENDS Integers, FiniteSetsExt, Ladder

CONSTANTS
    MaxTotalNotional,   \* settings.risk.max_total_notional_usdt
    MaxLeverage,        \* settings.risk.max_leverage
    DailyLossLimit,     \* settings.risk.daily_loss_limit_usdt
    LiquidationBuffer,  \* settings.risk.liquidation_buffer_bps
    PerSymbol,          \* settings.risk.per_symbol: symbol to [notional, qty], partial
    NoPrice             \* a liquidation price the exchange does not give

ASSUME LimitsAssumption ==
    /\ MaxTotalNotional \in Nat /\ MaxLeverage \in Nat
    /\ DailyLossLimit \in Nat /\ LiquidationBuffer \in Nat
    /\ \A s \in DOMAIN PerSymbol : PerSymbol[s].notional \in Int /\ PerSymbol[s].qty \in Int

MinConfidence == 15

\* PositionRiskView.notional, of a position [side, qty, mark, liq].
Notional(position) == position.qty * position.mark

\* portfolio: [equity, positions, realized, safe_mode], where positions maps
\* the symbols that have one to their positions.
TotalNotional(portfolio) ==
    SumFunction([s \in DOMAIN portfolio.positions |-> Notional(portfolio.positions[s])])

\* With no equity the code calls the leverage zero.
OverLeveraged(notional, portfolio) ==
    portfolio.equity > 0 /\ notional > MaxLeverage * portfolio.equity

Signed(side, qty) == IF side \in {"Buy", "Long"} THEN qty ELSE -qty

Magnitude(n) == IF n < 0 THEN -n ELSE n

NearLiquidation(position) ==
    /\ position.liq # NoPrice
    /\ position.mark > 0
    /\ Signed(position.side, position.mark - position.liq) * 10000
         < LiquidationBuffer * position.mark

\* order: [symbol, side, qty, price, confidence].
OrderNotional(order) == order.qty * order.price

Held(portfolio, symbol) == symbol \in DOMAIN portfolio.positions

HeldNotional(portfolio, symbol) ==
    IF Held(portfolio, symbol) THEN Notional(portfolio.positions[symbol]) ELSE 0

HeldSigned(portfolio, symbol) ==
    IF Held(portfolio, symbol)
    THEN Signed(portfolio.positions[symbol].side, portfolio.positions[symbol].qty)
    ELSE 0

\* Mutant of Projected: what is held already, as for the leverage.
ProjectedHeld(portfolio, order) == TotalNotional(portfolio)

Projected(portfolio, order) == TotalNotional(portfolio) + OrderNotional(order)

\* In hundredths of a percent, cut by a quarter above 85% of the cap.
ScaledConfidence(portfolio, order) ==
    LET clipped == Max({0, Min({100, order.confidence})})
    IN  clipped * (IF 100 * Projected(portfolio, order) > 85 * MaxTotalNotional
                   THEN 75 ELSE 100)

Evaluate(tripped, portfolio, order) ==
    LET s == order.symbol
        limited == s \in DOMAIN PerSymbol
    IN FirstFailing(
        << Check("circuit_breaker_tripped", tripped),
           Check("safe_mode_enabled", portfolio.safe_mode),
           Check("daily_loss_limit_reached", portfolio.realized <= -DailyLossLimit),
           Check("max_total_notional_exceeded",
                 Projected(portfolio, order) > MaxTotalNotional),
           Check("portfolio_max_leverage_exceeded",
                 OverLeveraged(TotalNotional(portfolio), portfolio)),
           Check("position_max_leverage_exceeded",
                 OverLeveraged(HeldNotional(portfolio, s), portfolio)),
           Check("liquidation_buffer_violation",
                 Held(portfolio, s) /\ NearLiquidation(portfolio.positions[s])),
           Check("per_symbol_max_notional_exceeded",
                 limited /\ HeldNotional(portfolio, s) + OrderNotional(order)
                              > PerSymbol[s].notional),
           Check("per_symbol_max_position_exceeded",
                 limited /\ Magnitude(HeldSigned(portfolio, s) + Signed(order.side, order.qty))
                              > PerSymbol[s].qty),
           Check("confidence_below_threshold",
                 ScaledConfidence(portfolio, order) < 100 * MinConfidence) >>,
        "approved")

=============================================================================
