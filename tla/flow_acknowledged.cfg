\* A webhook delivery breaks after the event id is stored; the retry is taken
\* for a duplicate and acknowledged.
SPECIFICATION Spec
CONSTANTS
  o1 = o1
  o2 = o2
  k1 = k1
  k2 = k2
  inr = inr
  None = None
  EmptyKey = EmptyKey
  Orders = {o1}
  Auths = {a1}
  Keys = {k1, EmptyKey}
  RzpOrders = {r1}
  Terms = {inr}
  Amounts = {1}
  Creators = {c1}
  Verifiers = {v1}
  Hooks = {w1}
  MayFail = TRUE
  MayDecline = FALSE
  Reports = {TRUE}
  OrderTerms <- MCOrderTerms
  Subtotal <- MCSubtotal
  KeysOf <- MCKeysOf
INVARIANT AcknowledgedMeansApplied
