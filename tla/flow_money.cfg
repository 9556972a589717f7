\* Two orders (one free of charge), two authorizations and two creation handlers,
\* with keys and without, every statement may fail: losers of a race leave
\* Razorpay orders behind, and no buyer pays on those.
SPECIFICATION Spec
CONSTANTS
  o1 = o1
  o2 = o2
  k1 = k1
  k2 = k2
  inr = inr
  None = None
  EmptyKey = EmptyKey
  Orders = {o1, o2}
  Auths = {a1, a2}
  Keys = {k1, EmptyKey}
  RzpOrders = {r1, r2}
  Terms = {inr}
  Amounts = {1, 2}
  Creators = {c1, c2}
  Verifiers = {}
  Hooks = {w1}
  MayFail = TRUE
  MayDecline = FALSE
  Reports = {TRUE}
  OrderTerms <- MCOrderTerms
  Subtotal <- MCSubtotalFree
  KeysOf <- MCKeysOrNone
SYMMETRY MCSymmetry
INVARIANTS
  OneAuthorizationOneRzpOrder
  BrowserPaysTrackedOrder
  RunNamesFundingAuthorization
  FundedAsAuthorized
  MoneyIsTracked
  NeverDoubleCharged
