\* No failures and no declined payments: the webhook and the browser race, and
\* a captured payment always ends in a paid order.
SPECIFICATION FairSpec
CONSTANTS
  o1 = o1
  o2 = o2
  k1 = k1
  k2 = k2
  inr = inr
  None = None
  EmptyKey = EmptyKey
  Orders = {o1}
  Auths = {a1}
  Keys = {k1, EmptyKey}
  RzpOrders = {r1}
  Terms = {inr}
  Amounts = {1}
  Creators = {c1}
  Verifiers = {v1, v2}
  Hooks = {w1, w2}
  MayFail = FALSE
  MayDecline = FALSE
  Reports = {TRUE}
  OrderTerms <- MCOrderTerms
  Subtotal <- MCSubtotal
  KeysOf <- MCKeysOf
PROPERTY CapturedOrderIsPaid
