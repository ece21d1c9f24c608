------------------------------- MODULE Sizing -------------------------------
(***************************************************************************)
(* The position sizer: the quantity of an entry from equity, confidence    *)
(* and volatility, in whole steps of the symbol.  Money, prices and        *)
(* quantities are integers, rounded down; a confidence is in 1/10000 and a *)
(* volatility in hundredths of a basis point.                              *)
(***************************************************************************)
EXTENDS Integers, FiniteSetsExt, Ladder

\* input: [equity, confidence, volatility, price, leverage]; symbol:
\* [min_qty, step, leverage]; floor: demo_min_notional_floor_usdt, 0 for none.

MinSizing == 2000

\* base_risk_fraction 0.01, times the smaller leverage, times the confidence
\* between 0.1 and 1, over the volatility from 100 bps on.
NotionalBudget(input, symbol) ==
    LET stake == (input.equity * Min({input.leverage, symbol.leverage})) \div 100
        confidence == Max({1000, Min({10000, input.confidence})})
    IN  (stake * confidence) \div Max({10000, input.volatility})

RoundDownToStep(qty, step) == IF step <= 0 THEN qty ELSE (qty \div step) * step

SteppedQty(notional, input, symbol) == RoundDownToStep(notional \div input.price, symbol.step)

EquityCap(input) == input.equity \div 10

\* Mutant of FloorNotional: the floor is applied after the cap.
FloorNotionalUncapped(input, symbol, floor) ==
    Max({floor, Min({NotionalBudget(input, symbol), EquityCap(input)})})

\* A tenth of the equity caps the floor.
FloorNotional(input, symbol, floor) ==
    Min({Max({floor, NotionalBudget(input, symbol)}), EquityCap(input)})

NoSize(input) ==
    input.price <= 0 \/ input.equity <= 0 \/ input.confidence < MinSizing

SizeQty(input, symbol, floor) ==
    LET qty == SteppedQty(NotionalBudget(input, symbol), input, symbol)
        floored == SteppedQty(FloorNotional(input, symbol, floor), input, symbol)
    IN  IF NoSize(input) THEN 0
        ELSE IF qty >= symbol.min_qty THEN qty
        ELSE IF floor > 0 /\ floored >= symbol.min_qty THEN floored
        ELSE 0

RejectReason(input, symbol) ==
    FirstFailing(
        << Check("reference_price_or_equity_zero", input.price <= 0 \/ input.equity <= 0),
           Check("confidence_below_min", input.confidence < MinSizing),
           Check("qty_below_min_after_rounding",
                 SteppedQty(NotionalBudget(input, symbol), input, symbol) < symbol.min_qty) >>,
        "none")

=============================================================================
