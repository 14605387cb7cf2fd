----------------------------- MODULE ArrivalRates -----------------------------
(***************************************************************************)
(* control/estimator.py: ArrivalRateEstimator, the EWMA of each adapter's  *)
(* arrival rate.  A rate is a natural number of a small unit; an estimator *)
(* is a record of two partial functions, as its two dictionaries are.  The *)
(* arrival counts, which only summary() reads, are left out.               *)
(***************************************************************************)
EXTENDS Integers

CONSTANTS
    OneOverAlpha, \* 1 / alpha, the weight of an arrival
    DefaultRate,  \* the estimate before the second arrival
    PerTick,      \* the rate of one arrival in every unit of time
    Instant       \* the rate of two arrivals at once, 1 / 1e-9 in the code

ASSUME RatesAssumption ==
    /\ OneOverAlpha \in Nat \ {0, 1}
    /\ DefaultRate \in Nat /\ PerTick \in Nat
    /\ Instant \in Nat /\ Instant > PerTick

\* A dictionary with no key.
NoKeys == [a \in {} |-> 0]

NewEstimator == [rate |-> NoKeys, last |-> NoKeys]

\* Adapters with an estimate (get_all_rates).
Known(est) == DOMAIN est.rate

Sample(gap) == IF gap <= 0 THEN Instant ELSE PerTick \div gap

EstimateAfter(est, a, t) ==
    LET old == IF a \in Known(est) THEN est.rate[a] ELSE DefaultRate
    IN  IF a \in DOMAIN est.last
        THEN ((OneOverAlpha - 1) * old + Sample(t - est.last[a])) \div OneOverAlpha
        ELSE old

\* The dictionary f with the keys of a set, each at its new value.
With(f, keys, New(_)) == [a \in DOMAIN f \cup keys |-> IF a \in keys THEN New(a) ELSE f[a]]

\* update: one arrival, at time t, of each adapter of a set.
update(est, arrived, t) ==
    [rate |-> With(est.rate, arrived, LAMBDA a : EstimateAfter(est, a, t)),
     last |-> With(est.last, arrived, LAMBDA a : t)]

=============================================================================
