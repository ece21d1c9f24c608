----------------------------- MODULE MCSignals ------------------------------
(***************************************************************************)
(* Signals for TLC.  One unit of a price of 2000 is 5 bps, below the       *)
(* threshold of a trend and a hair below that of a breakout.               *)
(***************************************************************************)
EXTENDS Signals
LOCAL INSTANCE TLC

Bar(close, swing, volume, confirmed) ==
    [high |-> close + swing, low |-> close - swing, close |-> close, volume |-> volume,
     confirmed |-> confirmed]

SomeCandles ==
    {Bar(c, s, v, TRUE) : c \in {2000, 2001, 2003}, s \in {0, 1}, v \in {10, 20}}
        \union {Bar(2000, 0, 10, FALSE)}

SomeHours ==
    {Bar(c, 0, 10, TRUE) : c \in {2000, 2001, 2008, 2060}} \union {Bar(2000, 0, 10, FALSE)}

Flat(equity) == [equity |-> equity, realized |-> 0, safe_mode |-> FALSE, positions |-> <<>>]

Holding(equity, side) ==
    [Flat(equity) EXCEPT !.positions =
        (Symbol :> [side |-> side, qty |-> 4, mark |-> 2000, liq |-> NoPrice])]

SomeAccounts ==
    {[portfolio |-> p, leverage |-> 2, floor |-> f,
      symbol |-> [min_qty |-> m, step |-> 2, leverage |-> 5]] :
        p \in {Flat(0), Flat(200000), Flat(1000000), Holding(1000000, "Long"),
               Holding(1000000, "Short")},
        f \in {0, 24000}, m \in {1, 10}}

Limits == Symbol :> [notional |-> 30000, qty |-> 11]

=============================================================================
