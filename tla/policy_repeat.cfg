\* The same proposal again while its request is pending.
\* Nothing fails and row ids run out, so the instance comes to a stop.
SPECIFICATION Spec
CONSTANTS
  c1 = c1
  inr = inr
  goods = goods
  shop = shop
  stranger = stranger
  None = None
  Operator = Operator
  TrustedMerchant = shop
  Carts = {c1}
  Merchants = {shop, stranger}
  Currencies = {inr}
  Baskets = {goods}
  Mandates = {m1}
  Actions = {x1, x2}
  Auths = {a1, a2}
  Requests = {q1}
  Proposers = {h1}
  Answerers = {g1}
  Updaters = {}
  MayFail = FALSE
  Proposals <- MCOnlyMedium
  MandateTerms <- MCOneMandate
  Configs <- MCOneConfig
  Default <- MCDefault
PROPERTY RepeatedProposalIsAnswered
CHECK_DEADLOCK FALSE
