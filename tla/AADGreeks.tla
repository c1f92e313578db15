------------------------------ MODULE AADGreeks ------------------------------
(***************************************************************************)
(* pricing/aad_greeks.hpp: an option's price in the field of liquidity and *)
(* the derivatives of it written out by hand, and the forecasts that       *)
(* analytics/asymmetric_engine.hpp makes of them.                          *)
(*                                                                         *)
(* All results are exact, in units of one over Precision.  Epsilon, 1e-4,  *)
(* and the weight of the field, 0.001, are scaled to 1 and 0.1.  Greeks of *)
(* lines 46-89, which nothing calls, are transcendental and left out.      *)
(***************************************************************************)
EXTENDS Integers

CONSTANTS
    Prices,     \* spots and strikes
    Vols,       \* implied volatilities, 0 among them
    Roots,      \* square roots of the times to expiry, 0 among them
    Liquidity,  \* volume times open interest
    Unit        \* a multiple of every distance and of every root

Abs(n) == IF n < 0 THEN -n ELSE n
Square(n) == n * n
Cube(n)   == n * n * n

GreeksAssumption ==
    /\ Prices \subseteq Nat /\ Vols \subseteq Nat /\ Roots \subseteq Nat
    /\ Liquidity \in Nat /\ Unit \in Nat \ {0}
    /\ \A a, b \in Prices : \E c \in 1..Unit : Unit = c * (Abs(a - b) + 1)
    /\ \A r \in Roots \ {0} : \E c \in 1..Unit : Unit = c * r

VARIABLES
    option,     \* the inputs priced: [s, k, v, root, call]
    greeks,     \* their AADResult
    before      \* the option and the greeks before (history)

vars == <<option, greeks, before>>

Options == [s : Prices, k : Prices, v : Vols, root : Roots, call : BOOLEAN]

Field  == Cube(Unit)
Precision  == 100 * Field

Distance(o) == Abs(o.s - o.k) + 1
Mass(o)     == Liquidity * o.v
Sign(o)     == IF o.s >= o.k THEN 1 ELSE -1

Intrinsic(o) ==
    LET gain == IF o.call THEN o.s - o.k ELSE o.k - o.s IN IF gain > 0 THEN gain ELSE 0

\* The slope of the intrinsic value.
Slope(o) == IF Intrinsic(o) = 0 THEN 0 ELSE IF o.call THEN 1 ELSE -1

\* A term of the field and its derivatives: n / d, weighted.
Pull(n, d) == (10 * Field * n) \div d

Price(o) ==
    Precision * Intrinsic(o) + 40 * Field * o.v * o.root * o.k
      + Pull(Mass(o), Distance(o))

\* Operators named Mutant_... are plausible bugs, which the properties must
\* refute when they take the place of the definition they precede.
Mutant_Delta(o) == Precision * Slope(o) - Pull(Mass(o), Square(Distance(o)))

Delta(o) == Precision * Slope(o) - Sign(o) * Pull(Mass(o), Square(Distance(o)))

Gamma(o) == 2 * Pull(Mass(o), Cube(Distance(o)))

Vega(o) == 40 * Field * o.root * o.k + Pull(Liquidity, Distance(o))

Mutant_Vanna(o) == -Pull(Liquidity, Square(Distance(o)))

Vanna(o) == -Sign(o) * Pull(Liquidity, Square(Distance(o)))

\* Theta in a year; the code gives a day's, one in 365 of it.
YearlyTheta(o) == -((20 * Field * o.v * o.k) \div o.root)

\* compute_hamiltonian: nothing, not even the intrinsic value, once expired.
Live(o) == o.root > 0 /\ o.v > 0
Hamiltonian(o) ==
    IF Live(o)
    THEN [price |-> Price(o), delta |-> Delta(o), gamma |-> Gamma(o), vega |-> Vega(o),
          theta |-> YearlyTheta(o), vanna |-> Vanna(o), vomma |-> 0, charm |-> 0]
    ELSE [price |-> 0, delta |-> 0, gamma |-> 0, vega |-> 0,
          theta |-> 0, vanna |-> 0, vomma |-> 0, charm |-> 0]

Init ==
    /\ option \in Options
    /\ greeks = Hamiltonian(option) /\ before = [option |-> option, greeks |-> greeks]

\* One input changes and the option is priced again.
Reprice(o) ==
    /\ o # option
    /\ option' = o /\ greeks' = Hamiltonian(o)
    /\ before' = [option |-> option, greeks |-> greeks]

Next ==
    \/ \E s \in Prices : Reprice([option EXCEPT !.s = s])
    \/ \E k \in Prices : Reprice([option EXCEPT !.k = k])
    \/ \E v \in Vols   : Reprice([option EXCEPT !.v = v])
    \/ \E r \in Roots  : Reprice([option EXCEPT !.root = r])

Spec == Init /\ [][Next]_vars
-----------------------------------------------------------------------------
(* asymmetric_engine.hpp *)

\* analyze_gamma_scalping: net_edge of a day, times 730.
NetEdge(realized) ==
    greeks.gamma * Square(option.s) * (Square(realized) - Square(option.v)) + 2 * greeks.theta

\* analyze_volatility_convexity: vega_after_shock.
VegaAfter(g, shock) == g.vega + g.vomma * shock

\* analyze_charm_unwind: delta_change_xd, times 365.
DeltaChange(g, days) == g.charm * days
-----------------------------------------------------------------------------
(* Properties. *)

TypeOK ==
    /\ option \in Options /\ before.option \in Options
    /\ \A g \in {greeks, before.greeks} : g.gamma >= 0 /\ g.vega >= 0 /\ g.theta <= 0

Between(n, a, b) == (a <= n /\ n <= b) \/ (b <= n /\ n <= a)

\* The greeks are the slopes of the price, as it is repriced: over a move of the
\* spot that does not cross the strike, price and delta change by no less and no
\* more than delta and gamma at its ends say, and likewise over time; vega and
\* vanna are exact.
SlopesOfPrice ==
    LET o == before.option   g == before.greeks
        change(f) == greeks[f] - g[f]
        ds == option.s - o.s   dv == option.v - o.v
        years == Square(option.root) - Square(o.root)
    IN /\ ds # 0 /\ (option.s - option.k) * (o.s - o.k) > 0 =>
            /\ Between(change("price"), g.delta * ds, greeks.delta * ds)
            /\ Between(change("delta"), g.gamma * ds, greeks.gamma * ds)
       /\ dv # 0 => /\ change("price") = g.vega * dv
                    /\ change("delta") = g.vanna * dv
       /\ years # 0 => Between(change("price"), -g.theta * years, -greeks.theta * years)

\* The engine's forecasts are what repricing gives, and it sees an edge in
\* scalping only where more volatility is realized than was paid for.
ForecastsHold ==
    /\ option.v # before.option.v =>
         greeks.vega = VegaAfter(before.greeks, option.v - before.option.v)
    /\ option.root # before.option.root =>
         greeks.delta = before.greeks.delta
                          + DeltaChange(before.greeks, Square(before.option.root) - Square(option.root))
    /\ \A realized \in Vols : NetEdge(realized) > 0 => realized > option.v

\* A put out of the money is dearer the higher its strike, which the halving in
\* mark_cuban_collar.hpp:83 relies on.
PutsDearerHigher ==
    LET o == before.option IN
    ~option.call /\ o.k < option.k /\ option.k < option.s /\ option.s = o.s
      => before.greeks.price <= greeks.price

\* The hand-written derivatives of lines 133-163 are those of the price of lines
\* 110-126, and what is built on them holds.
GreeksRight ==
    Live(option) /\ Live(before.option) => SlopesOfPrice /\ ForecastsHold /\ PutsDearerHigher
=============================================================================
