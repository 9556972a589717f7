-------------------------- MODULE MCPaymentCreation --------------------------
\* Small instances of PaymentCreation for TLC.
EXTENDS PaymentCreation, TLC

CONSTANTS o1, o2, k1, k2, inr, usd

MCOrderTerms == [o \in Orders |-> inr]

\* Both orders cost 2.
MCSubtotal == [o \in Orders |-> 2]

\* A storefront sends one key per order.
MCOneKey == [o \in Orders |-> IF o = o1 THEN {k1} ELSE {k2}]
==============================================================================
