---------------------------- MODULE MCPaymentFlow ----------------------------
\* Small instances of PaymentFlow for TLC.
EXTENDS PaymentFlow, TLC

CONSTANTS o1, o2, k1, k2, inr

MCOrderTerms == [o \in Orders |-> inr]
MCSubtotal == [o \in Orders |-> 1]

\* One order costs 2, which an authorization over 1 does not cover; the other is
\* free of charge: a campaign took its whole price off.
MCSubtotalFree == [o \in Orders |-> IF o = o1 THEN 2 ELSE 0]

MCKeysOf == [o \in Orders |-> IF o = o1 THEN {k1} ELSE {k2}]

\* The storefront sends one key per order; some clients send no key.
MCKeysOrNone == [o \in Orders |-> IF o = o1 THEN {k1, EmptyKey} ELSE {EmptyKey}]

MCSymmetry ==
  Permutations(Auths) \cup Permutations(Creators) \cup Permutations(RzpOrders)
    \cup Permutations(Hooks) \cup Permutations(Verifiers)
==============================================================================
