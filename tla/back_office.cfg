\* One instance per service; they share no state.
SPECIFICATION OfficeSpec
CONSTANTS
  None = None
  MayFail = TRUE
  Rows <- MCRows
  CartEvents = {cart1}
  Batch = 2
  MaxFaults = 1
  Writers = {w1, w2, w3}
  Entries = {e1}
  Legacy = 1
  AuditIds <- MCAuditIds
  Operators = {op1, op2, op3}
  Founder = op1
  Addresses = {a1, a2}
  Home = a1
  Invites = {i1, i2}
  Callers = {k1, k2}
  Emails = {a1, a2}
  Logins = {l1, l2}
  MaxLoginAttempts = 2
  Peers = {p1, p2}
  Forwarded = {f1}
  TrustForwarded = FALSE
  Burst = 2
  Unit = 2
  Rate = 1
  IdleFor = 4
  MaxTime = 5
  Prompts = {q1, q2}
  Calls = {g1, g2, g3}
  DailyBudget = 3
  MaxCost = 2
  Days = 1
  Products <- MCProducts
  Tags <- MCTags
  Weight <- MCWeight
  Price <- MCPrice
  MaxAllowed = 3
  Handlers = {h1, h2}
  Consumer = h0
  CapCount = 1
  FirstItem <- MCFirst
  CampaignIds = {c1, c2}
  ListPrice <- MCListPrice
  Demands = {0, 2}
  Percents = {10, 20}
  Durations = {1, 3}
  OpenOffers <- MCOpenOffers
  Desks = {d1, d2}
  MaxCap = 2
  MaxTotal = 3
  MaxPercent = 10
  MaxDays = 2
  MinDemand = 2
  ProductIds <- MCCatalog
  VariantIds <- MCVariants
  DefaultVariant <- MCDefault
  Contents = {1, 2}
  Editors = {ed1, ed2}
  Readers = {r1}
  Orders = {o1, o2}
  Goods = {b1}
  Bought <- MCBought
  Shoppers = {s1, s2}
  Turns = {t1, t2}
  Budgets = {1}
  Categories = {cat1}
  Others = {brother}
  Words = {strap}
  MaxSnapshots = 2
INVARIANTS
  OfficeTypeOK
  ChainVerifies
  GuessesAreBounded
  TokensMeanOneOperator
  AdmittedWithinRate
  SpendIsBounded
  SuggestionsAreCapped
  StaleOnlyWhenRaced
  VerifiedPurchase
PROPERTIES
  LoggedOrPending
  DeliveredAsPromised
  EveryRowIsPublished
  AcceptanceIsKept
  DecisionStands
  ExclusionsStay
CHECK_DEADLOCK FALSE
