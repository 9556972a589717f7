\* No failures, but the first payment on the Razorpay order may be declined.
SPECIFICATION FairSpec
CONSTANTS
  o1 = o1
  o2 = o2
  k1 = k1
  k2 = k2
  inr = inr
  None = None
  EmptyKey = EmptyKey
  Orders = {o1}
  Auths = {a1}
  Keys = {k1, EmptyKey}
  RzpOrders = {r1}
  Terms = {inr}
  Amounts = {1}
  Creators = {c1}
  Verifiers = {v1}
  Hooks = {w1}
  MayFail = FALSE
  MayDecline = TRUE
  Reports = {TRUE}
  OrderTerms <- MCOrderTerms
  Subtotal <- MCSubtotal
  KeysOf <- MCKeysOf
PROPERTY CapturedOrderIsPaid
