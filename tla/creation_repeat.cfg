\* The same command repeated with the same key and the same authorization.
SPECIFICATION CreationSpec
CONSTANTS
  o1 = o1
  o2 = o2
  k1 = k1
  k2 = k2
  inr = inr
  usd = usd
  None = None
  EmptyKey = EmptyKey
  Orders = {o1, o2}
  Auths = {a1, a2}
  Keys = {k1, k2, EmptyKey}
  RzpOrders = {r1, r2}
  Terms = {inr}
  Amounts = {2}
  Creators = {c1, c2}
  MayFail = FALSE
  OrderTerms <- MCOrderTerms
  Subtotal <- MCSubtotal
  KeysOf <- MCOneKey
PROPERTY RepeatReturnsExisting
