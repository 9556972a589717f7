\* One order: creation, two webhook deliveries and two browser confirmations
\* race, a payment may be declined first, everything may fail half-way.
SPECIFICATION Spec
CONSTANTS
  o1 = o1
  o2 = o2
  k1 = k1
  k2 = k2
  inr = inr
  None = None
  EmptyKey = EmptyKey
  Orders = {o1}
  Auths = {a1}
  Keys = {k1, EmptyKey}
  RzpOrders = {r1}
  Terms = {inr}
  Amounts = {1}
  Creators = {c1}
  Verifiers = {v1, v2}
  Hooks = {w1, w2}
  MayFail = TRUE
  MayDecline = TRUE
  Reports = {TRUE, FALSE}
  OrderTerms <- MCOrderTerms
  Subtotal <- MCSubtotal
  KeysOf <- MCKeysOf
SYMMETRY MCSymmetry
INVARIANTS
  TypeInvariant
  PaidMeansCaptured
  AttemptAgrees
  AnnouncedOnce
  AnnouncementsAreTrue
PROPERTY PromiseKept
