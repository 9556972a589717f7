\* Two carts over the same variants in opposite orders, one campaign, two
\* checkouts, two edits and a recovery at once; every statement may fail.
SPECIFICATION FairSpec
CONSTANTS
  c1 = c1
  c2 = c2
  red = red
  blue = blue
  shirt = shirt
  mug = mug
  sale = sale
  None = None
  Carts = {c1, c2}
  Variants = {red, blue}
  Products = {shirt, mug}
  Campaigns = {sale}
  Checkouts = {t1, t2}
  Editors = {e1, e2}
  Recoveries = {r1}
  MaxRetries = 2
  MayFail = TRUE
  Edits <- MCEdits
  Substitutes = {red}
  Price <- MCPrice
  ProductOf <- MCProductOf
  Offer <- MCOffer
  Stock <- MCStock
  Filled <- MCFilled
INVARIANTS
  TypeInvariant
  StockIsKept
  BudgetIsKept
PROPERTIES
  NoEditIsLost
  SoldAtOnce
  RequestsEnd
