\* Proposals of every level under every mandate, settings changed and the process
\* restarted at any time, statements that fail; two actions, authorizations and
\* answers at once only while the settings are as they were at the start, and two
\* busy answerers only beside one action.
SPECIFICATION Spec
CONSTANTS
  c1 = c1
  inr = inr
  goods = goods
  shop = shop
  stranger = stranger
  None = None
  Operator = Operator
  TrustedMerchant = shop
  Carts = {c1}
  Merchants = {shop, stranger}
  Currencies = {inr}
  Baskets = {goods}
  Mandates = {m1}
  Actions = {x1, x2}
  Auths = {a1, a2}
  Requests = {q1}
  Proposers = {h1}
  Answerers = {g1, g2}
  Updaters = {u1}
  MayFail = TRUE
  Proposals <- MCAllLevels
  MandateTerms <- MCAnyMandates
  Configs <- MCConfigs
  Default <- MCDefault
SYMMETRY MCSymmetry
INVARIANTS
  TypeInvariant
  EveryAuthorizationIsWarranted
  ConsentAboveLevelOne
  EnforcedWasDurable
  RequestsNameTheirOwn
  AnswersFit
CONSTRAINT MCBound
