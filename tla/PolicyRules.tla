----------------------------- MODULE PolicyRules -----------------------------
(***************************************************************************)
(* The deterministic part of backend/policy: the checks of Engine.Evaluate *)
(* on one proposal, the risk score, and the routing to an authorization    *)
(* level.  No state: the proposal, the mandate, the configuration and what *)
(* the clock and the catalog say are arguments.                            *)
(***************************************************************************)
EXTENDS Integers

CONSTANTS
  Carts,
  Merchants,
  TrustedMerchant,   \* merchant_001
  Currencies,
  Baskets,           \* lists of items
  None               \* no cart

ASSUME RulesAssumption ==
  /\ TrustedMerchant \in Merchants
  /\ None \notin Carts

\* What is proposed.  The cart is not part of it: some lookups compare it and
\* some do not.
Proposal ==
  [amount : Nat \ {0}, merchant : Merchants, currency : Currencies, items : Baskets]

\* A mandate never changes once it is saved, its status is always ACTIVE; "live"
\* is the clock's verdict on expires_at.
Mandate ==
  [maximum : Nat \ {0}, merchant : Merchants, currency : Currencies,
   cart : Carts \cup {None}, live : BOOLEAN]

\* tolerance is in percent of the mandate's maximum.
PolicyConfig ==
  [ceiling : Nat, tolerance : Nat, merchants : SUBSET Merchants,
   currencies : SUBSET Currencies]

------------------------------------------------------------------------------
\* RiskEngine.Score, with 1.0 written as 30 000 000: 0.4 of amount / 3 000 000,
\* 0.5 for an unknown merchant, 0.1 when more than 0.9 of the mandate is asked.
RiskUnit == 30000000

RawScore(p, maximum) ==
  4 * p.amount
    + (IF p.merchant = TrustedMerchant THEN 0 ELSE 15000000)
    + (IF 10 * p.amount > 9 * maximum THEN 3000000 ELSE 0)

Score(p, maximum) ==
  IF RawScore(p, maximum) > RiskUnit THEN RiskUnit ELSE RawScore(p, maximum)

\* routeLevel: 1 needs nobody's approval, 2 and 3 do.
RouteLevel(p, merchant, risk) ==
  IF merchant # TrustedMerchant \/ 10 * risk >= 7 * RiskUnit
  THEN 3
  ELSE IF p.amount <= 100000 /\ 10 * risk < 3 * RiskUnit
       THEN 1
       ELSE IF p.amount <= 1000000 THEN 2 ELSE 3

------------------------------------------------------------------------------
\* The checks.

WithinConfig(p, cfg) ==
  /\ p.merchant \in cfg.merchants
  /\ p.currency \in cfg.currencies
  /\ p.amount <= cfg.ceiling

WithinBudget(p, m, cfg) ==
  p.amount <= m.maximum + (m.maximum * cfg.tolerance) \div 100

BoundToMandate(p, cart, m) ==
  /\ m.merchant = p.merchant
  /\ m.currency = p.currency
  /\ m.cart \in {None, cart}

\* Mutant: the binding to the mandate is not checked.
Evaluate_Unbound(p, cart, m, cfg, risk, sellable) ==
  IF WithinConfig(p, cfg) /\ sellable /\ WithinBudget(p, m, cfg) /\ m.live
  THEN RouteLevel(p, m.merchant, risk)
  ELSE 0

\* Evaluate: 0 when a check fails, the level otherwise.  sellable is what the
\* catalog answers about the items; an error counts as no.
Evaluate(p, cart, m, cfg, risk, sellable) ==
  IF /\ WithinConfig(p, cfg)
     /\ sellable
     /\ WithinBudget(p, m, cfg)
     /\ m.live
     /\ BoundToMandate(p, cart, m)
  THEN RouteLevel(p, m.merchant, risk)
  ELSE 0
==============================================================================
