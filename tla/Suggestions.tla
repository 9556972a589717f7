----------------------------- MODULE Suggestions -----------------------------
(***************************************************************************)
(* Cross-selling to one shopping session (backend/growth).  The three      *)
(* routes under /growth/suggest and the consumer of cart.item_added events *)
(* choose a product, evaluate it and store it under one key; a buyer       *)
(* accepts, or says "no thanks".  Every handler is a sequence of single    *)
(* statements of the database, and runs beside the others.                 *)
(***************************************************************************)
EXTENDS Faults, Integers, FiniteSets, FiniteSetsExt

CONSTANTS
  Products, Tags,      \* products of the merchant, and the tags of each
  Weight,              \* what a matching tag counts
  Price,               \* of each product
  MaxAllowed,          \* DemoBudgetCeiling with its tolerance
  Handlers, Consumer,  \* requests that may run at once; the stream's consumer
  CapCount,            \* SuggestionFrequencyCapCount, 2 in the code
  FirstItem            \* what the cart starts with

ASSUME SuggestionAssumption ==
  /\ Price \in [Products -> Nat] /\ FirstItem \in Products
  /\ CapCount \in Nat \ {0} /\ IsFiniteSet(Handlers)
  /\ Consumer \notin Handlers /\ None \notin Products

VARIABLES
  items,      \* products in the session's cart
  dismissed,  \* suggestion_dismissals
  recent,     \* suggestion_impressions younger than the window
  recs,       \* recommendations: one row per product; what it decided is only reported
  handler     \* each handler: the product chosen, and whether it is too much for the cart

growthVars == <<items, dismissed, recent, recs, handler>>

Running == Handlers \cup {Consumer}
NoHandler == [pc |-> "idle", best |-> None, over |-> FALSE]

GrowthTypeOK ==
  /\ items \subseteq Products /\ dismissed \subseteq Products
  /\ recent \in Nat
  /\ recs \in [Products -> {None, "stored", "accepted"}]
  /\ handler \in [Running -> [pc : {"idle", "cap", "evaluate", "impression"},
                              best : Products \cup {None}, over : BOOLEAN]]

GrowthInit ==
  /\ items = {FirstItem}
  /\ dismissed = {}
  /\ recent = 0
  /\ recs = [p \in Products |-> None]
  /\ handler = [h \in Running |-> NoHandler]

TotalOf(set) == MapThenSumSet(LAMBDA p : Price[p], set)
HandlerAt(h, pc) == handler[h].pc = pc
HandlerGoto(h, pc, best, over) ==
  handler' = [handler EXCEPT ![h] = [pc |-> pc, best |-> best, over |-> over]]
FinishHandler(h) == handler' = [handler EXCEPT ![h] = NoHandler]

------------------------------------------------------------------------------
\* Choosing a product.  The statements that read the cart, the dismissals and the
\* catalog are one step: nothing that follows depends on their order.

BuildSignals(set) == UNION {Tags[p] : p \in set}
Score(p, signals) == MapThenSumSet(LAMBDA t : Weight[t], Tags[p] \cap signals)

\* The best score of what matches at all, ties to the cheaper product.
BestCandidates(listed, signals) ==
  LET matching == {p \in listed : Score(p, signals) > 0}
      Beats(p, q) == \/ Score(p, signals) > Score(q, signals)
                     \/ Score(p, signals) = Score(q, signals) /\ Price[p] < Price[q]
  IN  {p \in matching : \A q \in matching : ~Beats(q, p)}

\* What is in stock changes all the time: ListProducts finds any of the products.
\* Where nothing matches the handler is done.  The cart's total is read now and
\* weighed later; prices do not change here.
Choose(h, pc, total, from, without) ==
  /\ HandlerAt(h, "idle")
  /\ \E stocked \in SUBSET (Products \ (without \cup dismissed)) :
       \E p \in BestCandidates(stocked, BuildSignals(from)) :
         HandlerGoto(h, pc, p, total + Price[p] > MaxAllowed)
  /\ UNCHANGED <<items, dismissed, recent, recs>>

\* POST /growth/suggest: nothing for an empty cart, which gives no signals.
Suggest(h) == Choose(h, "cap", TotalOf(items), items, items)

\* POST /growth/suggest/product: a cart that cannot be read counts as none.
SuggestForProduct(h, viewed) ==
  \/ Choose(h, "cap", TotalOf(items), {viewed}, items \cup {viewed})
  \/ MayFail /\ Choose(h, "cap", 0, {viewed}, {viewed})

\* POST /growth/suggest/order: the session's order of the first item.
SuggestForOrder(h) == Choose(h, "cap", Price[FirstItem], {FirstItem}, {FirstItem})

\* CartEventConsumer, on an event of any of the additions to the cart; it is
\* acknowledged whatever comes of it.
PrecomputeSuggestion == Choose(Consumer, "evaluate", TotalOf(items), items, items)

------------------------------------------------------------------------------
\* Evaluating it.

\* Mutant: one more than the cap is let through.
CheckCap_Late(h) ==
  /\ HandlerAt(h, "cap")
  /\ IF recent > CapCount THEN FinishHandler(h)
     ELSE HandlerGoto(h, "evaluate", handler[h].best, handler[h].over)
  /\ UNCHANGED <<items, dismissed, recent, recs>>

CheckCap(h) ==
  /\ HandlerAt(h, "cap")
  /\ IF recent >= CapCount THEN FinishHandler(h)
     ELSE HandlerGoto(h, "evaluate", handler[h].best, handler[h].over)
  /\ UNCHANGED <<items, dismissed, recent, recs>>

\* EvaluateCandidate stores its decision and goes on to the impression only with a
\* RECOMMEND; the consumer stops there.
Evaluate(h, acceptance) ==
  /\ HandlerAt(h, "evaluate")
  /\ recs' = [recs EXCEPT ![handler[h].best] = acceptance]
  /\ IF handler[h].over \/ h = Consumer THEN FinishHandler(h)
     ELSE HandlerGoto(h, "impression", handler[h].best, FALSE)
  /\ UNCHANGED <<items, dismissed, recent>>

\* Mutant: the upsert writes every column.
EvaluateCandidate_Resets(h) == Evaluate(h, "stored")

\* The upsert leaves a row's acceptance alone.
EvaluateCandidate(h) ==
  Evaluate(h, IF recs[handler[h].best] = "accepted" THEN "accepted" ELSE "stored")

\* The impression is stored and the suggestion answered.
RecordImpression(h) ==
  /\ HandlerAt(h, "impression")
  /\ recent' = recent + 1
  /\ FinishHandler(h)
  /\ UNCHANGED <<items, dismissed, recs>>

\* A statement fails, the product is gone, or the handler's time is up.
BreakHandler(h) ==
  /\ MayFail /\ ~HandlerAt(h, "idle")
  /\ FinishHandler(h)
  /\ UNCHANGED <<items, dismissed, recent, recs>>

\* An impression leaves the window.
ImpressionAges ==
  /\ recent > 0
  /\ recent' = recent - 1
  /\ UNCHANGED <<items, dismissed, recs, handler>>

------------------------------------------------------------------------------
\* The buyer.

\* POST /growth/suggest/dismiss.
Dismiss(p) ==
  /\ dismissed' = dismissed \cup {p}
  /\ UNCHANGED <<items, recent, recs, handler>>

EditCart(p) ==
  /\ items' \in {items \cup {p}, items \ {p}}
  /\ UNCHANGED <<dismissed, recent, recs, handler>>

\* POST /growth/suggest/accept: marks the row, if there is one, whatever the cart
\* holds by then.
Accept(p) ==
  /\ recs[p] # None
  /\ recs' = [recs EXCEPT ![p] = "accepted"]
  /\ UNCHANGED <<items, dismissed, recent, handler>>

HandlerStep(h) ==
  CheckCap(h) \/ EvaluateCandidate(h) \/ RecordImpression(h) \/ BreakHandler(h)

GrowthNext ==
  \/ \E h \in Handlers :
       Suggest(h) \/ SuggestForOrder(h) \/ \E p \in Products : SuggestForProduct(h, p)
  \/ PrecomputeSuggestion
  \/ \E h \in Running : HandlerStep(h)
  \/ \E p \in Products : Dismiss(p) \/ EditCart(p) \/ Accept(p)
  \/ ImpressionAges

GrowthSpec == GrowthInit /\ [][GrowthNext]_growthVars

------------------------------------------------------------------------------
\* Properties.

\* Within a window a session sees no more suggestions than the cap and one more
\* for each further request that had passed the count before the last was stored.
SuggestionsAreCapped == recent <= CapCount - 1 + Cardinality(Handlers)

\* An accepted suggestion stays counted (the dashboard's AI revenue rests on it),
\* however often its product is evaluated again, by a request that chose it before
\* the buyer took it or by the consumer.
AcceptanceIsKept ==
  [][\A p \in Products : recs[p] = "accepted" => recs'[p] = "accepted"]_growthVars

\* The inductive invariant of the cap: the requests past the count are in it.
PastTheCap == {h \in Handlers : handler[h].pc \in {"evaluate", "impression"}}

CapInv ==
  /\ GrowthTypeOK
  /\ handler[Consumer].pc # "impression"
  /\ recent + Cardinality(PastTheCap) <= CapCount - 1 + Cardinality(Handlers)
==============================================================================
