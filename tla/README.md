# CommerceOS, modelled and proved

CommerceOS (`src/`) is a Go modular monolith for agent-driven commerce: shoppers,
or agents on their behalf, fill a cart; a deterministic policy engine decides
whether a purchase may go ahead and mints an *authorization*; checkout turns the
cart into an order; a payment is created with Razorpay under that authorization and
confirmed by the browser and by Razorpay's webhook; every step is audited and
published through an outbox. Postgres is the only shared state that decides
anything. There are no long transactions: a handler is a sequence of short
statements, and another handler, a crash or an error may come between any two.
That is what these models are about.

## 1. Inventory

Paths below are relative to `src/backend/`.

| component | state | operations | hard behaviour |
|---|---|---|---|
| state machines (`statemachine/`) | two transition tables | `CanTransition`, `Transition` | everything else leans on them |
| payment creation (`commerce/payment/service.go`, `handler.go`, `razorpay.go`) | `payments`, `payment_attempts`, `authorizations.status`, `orders.run_id`, Razorpay's orders | `CreatePaymentOrder` | concurrent commands for one order, one key or one authorization; failure between any two of its nine steps; Razorpay's answer lost |
| payment confirmation (`service.go` `VerifyPayment`, `webhook*.go`) | `payments.status`, `orders.status`, `payment_attempts.status`, `webhook_events`, audit log, outbox | `VerifyPayment`, `Process`, `ApplyCaptured`, `ApplyFailed` | browser and webhook race over the same rows; events come again, out of order and concurrently; half-done deliveries |
| policy and authorizations (`policy/`) | `mandates`, `agent_actions`, `policy_evaluations`, `authorizations`, `approval_requests`, the engine's in-memory config and the stored one | `Propose`, `Approve`, `Reject`, `VerifyAuthorization`, `UpdatePolicyConfig`, `CreateMandate`, `Evaluate` | approval re-evaluates, mints and closes the request in separate statements; reuse of a live authorization; the clock; two copies of the config |
| cart (`commerce/cart/`) | carts with a version | `CreateCart`, `AddItem`, `UpdateItemQuantity`, `RemoveItem` | optimistic concurrency with retries; checkout running against it |
| checkout (`commerce/order/`) | orders, variants' stock, campaigns' spend | `CheckoutCart`, `TransitionStatus`, `SetRunID` | one big transaction against cart mutations and other checkouts; stock and budget never below zero |
| recovery (`commerce/payment/recovery.go`, `handler.go` `RemoveItemAndRecheckout`, `agents/rejection_recovery.go`) | carts and orders | rebuild a cart without an item, or with a substitute, and check it out again | edits and checkouts beside it; stock held by the order that is left behind |
| campaigns (`campaign/`) | campaigns with budget and spend | `ProposeFromRejectedDemand`, `Approve`, `Reject`, `Evaluate`, `FindActiveForProduct` | two operators at one proposal; the sum of active budgets is read long before it matters |
| audit (`audit/`) | one hash chain over all events | `Write`, `Verify` | concurrent writers must not fork the chain; ids given out before commit |
| outbox and events (`events/`) | outbox rows, streams, consumer groups, event log | `Insert`, `processBatch`, `Publish`, `consumeBatch`, `handleMessage` | at-least-once, crash between publish and mark |
| growth (`growth/`) | dismissals, impressions, recommendations per cart | `Suggest` and its two variants, `Dismiss`, `Accept`, `handleCartItemAdded` | a cap counted before it is charged; evaluations that arrive after the buyer's answer |
| operator accounts (`auth/`) | operators, sessions, attempts, invites | `Login`, `Logout`, `ValidateToken`, `InviteOperator`, `RevokeInvite`, `AcceptInvite`, `RemoveOperator` | lockout counting, last operator, invites accepted twice at once |
| rate limiter (`ratelimit/`) | buckets in memory | `Allow`, `Sweep` | the sweep against buckets that still refill |
| cost guard (`agents/cost_guard.go`) and the calls it guards | a day's spending in memory | `Check`, `Record`; extract, chat, narrate, summarize | checked before, charged after, by calls that outlive their prompt |
| catalog (`commerce/catalog/`) | products, variants, a list kept in Redis | six edits, `ListProducts` | stale fills; foreign keys |
| reviews (`commerce/review/`) | reviews | `Submit` | check and insert apart |
| buyer agent (`agents/buyer_agent.go`, `conversation.go`, `tool_loop.go`) | conversation turns with snapshots of the intent | `PlanCheckoutInConversation`, `RunInConversation` | two turns of one conversation at once; external LLM calls |
| tools, MCP (`tools/`, `mcp/`) | none of their own | call the services above | -- |
| x402 (`commerce/payment/x402/`) | none stored | a demo protocol handler | external facilitator |
| trust, analytics, safety (`trust`, `analytics`, `safety`) | rows of their own | read-only queries, canned scenarios | little beyond single statements |

How they interact: `Propose` (policy) mints an authorization bound to a cart;
`CheckoutCart` turns that cart into the order `order_<cart>`; `CreatePaymentOrder`
verifies the authorization against the order, consumes it, creates a Razorpay order
and the `payments` row; the browser pays on that Razorpay order; `VerifyPayment` and
the webhook move the payment and then the order; the webhook audits and writes the
outbox; the outbox worker publishes to Redis streams, which the consumers read (the
log's consumer, and growth's). Campaigns are proposed from what growth's
recommendations lost and spent by checkout. All of it goes through shared rows, never
through shared memory (the exceptions are the policy engine's config, the lockout's
counters, the limiter and the guard).

What makes each component correct:

* payment creation: one authorization reaches Razorpay once; a browser is only ever
  sent to the Razorpay order its order's row tracks; a payment exists only under an
  authorization bound to it and spent on it; repeats with one key change nothing;
* payment confirmation: an order is paid only if its tracked payment was captured;
  no order is charged twice, no captured money is untracked; attempt, payment,
  order, audit and outbox agree; an event is applied once; a captured payment ends
  in a paid order;
* policy: every authorization stands on a mandate and an evaluation or an approval,
  one approval mints one authorization, a rejected request mints none;
* cart and checkout: no item and no unit of stock is lost or made up; budgets hold;
* audit: the verifier accepts whatever writers and rollbacks leave behind;
* outbox: every row is published in the end, none is marked that was not, and the log
  loses nothing it was handed;
* accounts: an address has one account, a session an operator; campaigns: a decision stands;
* lockout, limiter, guard, suggestions: what passes their limit is bounded by what runs at once;
* catalog: a stale list has a reason; reviews: each stands for one paid purchase;
* buyer agent: what a buyer excluded stays excluded.

## 2. Modules

A handler of the code is a sequence of statements, so in the models it is a record
with a program counter, `pc`, naming the statement it is about to run, and the locals
it carries to it. One action is one SQL statement, one short transaction or one
external call, with everything the Go code does up to the next. What another handler
may do in between is then simply another action. Handlers are constants (`Creators`,
`Hooks`, `Proposers`, ...): as many of them as the set has may run at once. With
`MayFail` a statement may fail, an answer may be lost, and a handler may break off
anywhere.

| module | what it is | corresponds to |
|---|---|---|
| `StateMachines` | the two transition tables, as sets of pairs | `statemachine/statemachine.go` |
| `PaymentStore` | the rows the payment handlers share, and the statements on them; what Razorpay and the browser know | `payments`, `payment_attempts`, `authorizations`, `orders` and their unique indexes; `payment/postgres_*.go`, `razorpay.go`, `order` `TransitionStatus` |
| `PaymentCreation` | `CreatePaymentOrder`: verify, look up by key, by order, consume, call Razorpay, insert, tag the run, record the attempt | `payment/service.go` 169-327, `handler.go` 165-250 |
| `PaymentConfirmation` | `VerifyPayment` and the webhook: store the event id, look up, authorize, capture, pay the order, mark the attempt, audit, publish, acknowledge | `payment/service.go` 329-447, `webhook*.go` |
| `PaymentFlow` | creation and confirmation together, the properties of the whole, the inductive invariant, the refinement mapping, the fairness | -- |
| `PaymentPromise` | the abstract specification: spend, fund, charge, capture, fail, pay, each at most once and in this order | -- |
| `PolicyRules` | the checks, the risk score and the level router, as operators without state | `policy/engine.go`, `risk.go` |
| `PolicySettings` | the stored and the live configuration | `UpdatePolicyConfig`, `SaveConfig`, `GetConfig`, the start in `cmd/server/main.go` |
| `PolicyApproval` | `CreateMandate`, `Propose`, `Approve`, `Reject`, the clock and restarts; extends the two above | `policy/service.go`, `postgres_repository.go`, `handler.go` |
| `CartRules` | totals, quantities, what an edit does to the items, a campaign's discount, as operators without state | `cart/service.go` 139-268, `order/postgres_repository.go` 190 |
| `CartCheckout` | cart edits, checkouts and recoveries over the same rows; both its inductive invariants, the refinement mapping, the fairness | `cart/service.go`, `cart/postgres_repository.go`, `order/postgres_repository.go` `CheckoutCart`, `payment/handler.go` 358-459, `agents/rejection_recovery.go` 376-462 |
| `ShopPromise` | the abstract specification: a cart is opened, changed by one edit, or sold as a whole | -- |
| `Faults` | what the modules below share: NULL, and whether anything may fail | -- |
| `EventDelivery` | the outbox, its worker, the stream, the log's consumer group, crashes of the process | `events/`, `cart/handler.go` 61-78 |
| `DeliveryPromise` | the abstract specification: a row is told on the stream until it is settled, and what the group is handed stays open until it is in the log | -- |
| `AuditChain` | writers of the hash chain under the advisory lock, the verifier's walk | `audit/` |
| `OperatorAccounts` | sessions, invitations, acceptances, removals as statements on two tables | `auth/service.go`, `invite.go`, `handler.go`, `postgres_repository.go` |
| `LoginLockout` | the counter per address, read before the password and written after | `auth/service.go` 36-147 |
| `RateLimiter` | token buckets, the sweep, which key a request has | `ratelimit/limiter.go` |
| `CostGuard` | the daily budget and the calls that ask it, races and fallbacks | `agents/cost_guard.go`, `racing_extractor.go`, `llm_extractor.go`, `fallback_extractor.go`, `rejection_narrator.go`, `review_summarizer.go`, `tool_loop.go` `chat` |
| `Suggestions` | choosing, capping, evaluating and storing a suggestion; dismissals, acceptance; the consumer that precomputes | `growth/suggest.go`, `agent.go`, `cart_event_consumer.go`, `postgres_store.go` |
| `Campaigns` | proposal, engine, approval and rejection | `campaign/` |
| `Catalog` | the six edits, their keys, the cached list and its readers | `commerce/catalog/` |
| `Reviews` | a submission against orders that move on; extends `StateMachines` | `commerce/review/` |
| `AgentTurns` | the snapshots of one conversation and their merge | `agents/buyer_agent.go`, `conversation.go`, `postgres_conversation_store.go` |
| `PaymentFlowProofs`, `PaymentRefinementProofs` | theorems about `PaymentFlow`: its invariants; that it implements `PaymentPromise` | -- |
| `PolicyApprovalProofs` | theorems about `PolicyApproval` and `PolicyRules` | -- |
| `CartRulesProofs`, `CartCheckoutProofs`, `ShopProofs` | lemmas about sums and `CartRules`; the first invariant of `CartCheckout`; the second, what follows from it, and that it implements `ShopPromise` | -- |
| `LimitProofs` | theorems about the limits: `LoginLockout`, `CostGuard`, `Suggestions`, `RateLimiter` | -- |
| `OfficeProofs` | theorems about the other services, from `EventDelivery` to `AgentTurns`, and about the types of all | -- |
| `MCPaymentCreation`, `MCPaymentFlow`, `MCPolicyApproval`, `MCCartCheckout`, `MCCampaigns` | values of the constants for TLC | -- |
| `MCBackOffice` | the same for the eleven services from `EventDelivery` on | -- |

`PaymentFlow` composes creation and confirmation: they extend the same
`PaymentStore`, and a step of one leaves the private state of the other alone.
`PolicyApproval` composes approvals with settings in the same way.
Where a component is not part of a composition its neighbour appears as an action of
the environment: payment creation sees authorizations come into being with any cart
and amount (`IssueAuthorization`), more than the policy engine would mint; the policy
engine sees them used at any time (`UseAuthorization`).

The eleven services from `EventDelivery` on share no rows with one another, apart
from what each sees of its neighbours as an environment action (`EditCart`,
`EditCartItem`, `MoveOrder`, `RemoveProduct`, `ExpireInvite`). `MCBackOffice` puts
one instance of each into one specification in which a behaviour belongs to one of
them, chosen at the start (`part`), and the others rest: its states are the sum of theirs,
not the product. It composes nothing; it is eleven models checked in one run. What
is composed is where rows are shared: payments, policy, carts with checkouts and
recoveries.

A few correspondences that are not obvious:

* An order's id is `order_` + its cart's id, so orders are indexed by carts, and an
  authorization bound to a cart is bound to one order.
* Time is an action: `ExpireAuthorization` and `ExpireMandate` turn a row's `live` to
  FALSE at any moment, whatever the interval between two statements was.
* Razorpay is a record per Razorpay order: for which receipt it was created and
  whether it saw a declined and a captured payment. Its client's answer may be lost
  after the order exists. A browser pays on a Razorpay order only after a handler
  named it in an answer (`disclosed`). `rzp[r].by` (the authorization consumed for the
  call), `authz[a].by` (who consented) and `told` are history the properties speak about.
* A webhook event is identified by its topic and its Razorpay order; it stays in
  `sent` for ever, so it may be delivered late, again and concurrently, and with
  `Reports = {TRUE, FALSE}` its amount may disagree with our row.
* The rules work on the code's integers (amounts in paise, the truncated tolerance, the thresholds),
  with the risk score's floating point replaced by multiples of 1/30 000 000, in which
  all of its terms and bounds are exact.
* A checkout is one database transaction. It is modelled by the set of rows it has
  locked; its writes become visible when it commits, and are built from what it read
  under its locks. Where the code updates without a lock first (the campaign's guarded
  update), the update takes the lock. Postgres' deadlock detection is the action
  `DeadlockVictim`: one member of any circle of waiting transactions is aborted.
* A recovery's cart has an id nobody else knows before its order is answered (`Hidden`), so no
  edit and no other checkout is aimed at it before; its checkout is one of the `Checkouts`.
* In `EventDelivery` a message's id is its position in the stream, and the group's pending list is
  a set of positions. The worker and the consumer are goroutines of one process: `CrashEvents`
  stops both, and the batch they hold is gone. The Redis client sends a failed or unanswered XADD again (its
  default), so one publication may append twice; each such try counts as a fault.
* An audit row's hash is the pair of its entry and the hash before: all that is used of
  SHA-256 is that different arguments give different hashes.
* The lockout's `lockedUntil` is none, ahead or over; the window of suggestions and the budget's day move by
  actions of their own (`LockEnds`, `ImpressionAges`, `Midnight`). The limiter counts tokens in units,
  so that one step of its clock refills a whole number of them.
* The products a suggestion is chosen from are any subset of the merchant's (stock changes all the time), and the choice
  among them is the code's: matching tags by weight, ties to the cheaper one.
* A conversation is its last snapshot: the code reads no other. Of an intent's fields two are required, one
  stands for the optional ones, and the exclusions are a set.
* A catalog row's fields are one content; the list in Redis is a set of such rows with their variants; a reader reads a product's row and its variants in two statements, and an edit may come between. `excused`
  and `raced` are history the property speaks about.
* `SaveCart` is one action though it is a transaction of several statements: its first
  one locks the cart's row and everything else it writes belongs to that cart.

## 3. What is checked

The first column is the run; each has the properties its configuration lists. Twelve runs,
the largest of 918 724 states.

| run | question | instance |
|---|---|---|
| `flow_confirm` | Do webhook and browser, racing over one order after a possibly declined try, keep the rows consistent and the promise? | 1 creation, 2 deliveries, 2 confirmations, amounts that agree or not; everything may fail |
| `flow_money` | Are authorizations, Razorpay orders and rows matched across orders, with losers of creation races leaving Razorpay orders behind? | 2 orders, 2 authorizations, 2 creations, one key and no key, 1 delivery |
| `flow_live` | Does a captured payment end in a paid order? | 1 order, 2 deliveries, 2 confirmations, no failures, no declines; fairness |
| `policy_warrant` | Does every authorization stand on a trail, a mandate and consent? | one handler of each kind, proposals of all three levels, three mandates (for any cart, bound to the cart and just within tolerance, with an unknown merchant), two configurations, restarts; everything may fail |
| `checkout` | Are stock, budgets and edits kept, is a checkout, seen from outside, one step, and does every checkout and edit end? | 2 checkouts, 2 edits and a recovery, 2 carts that lock two variants in opposite orders, one campaign that not every cart can draw on, an addition that is refused until a line is gone; everything may fail; fairness |
| `back_office` | Does each of the eleven services keep what it promises? | two or three requests at once of each; one fault in the event service, any in the others; fairness of the event service's two loops |
| `creation_repeat`, `flow_acknowledged`, `flow_declined`, `policy_approved_twice`, `policy_repeat`, `campaign_ceiling` | What a document or comment claims and the code does not do (section 5). | the smallest that shows it |

What the properties of `back_office` say: outbox, stream, group and log change only as
`DeliveryPromise` says (`DeliveredAsPromised`: among it, that a row marked published is on the stream and is not told again, that a cart
event comes no more once its publication has ended, and that messages are handed out in order), every row is published in the end (`EveryRowIsPublished`), the log's group gets rid
of a message only by storing it (`LoggedOrPending`); the verifier accepts every chain the writers can make
(`ChainVerifies`); an address has one account and a session its operator (`TokensMeanOneOperator`); wrong guesses, a day's
spending and suggestions pass their limits by no more than what runs at once (`GuessesAreBounded`,
`SpendIsBounded`, `SuggestionsAreCapped`); between any two admitted requests of an address lies the time its tokens need
(`AdmittedWithinRate`); an accepted suggestion stays accepted however late an evaluation stores its row
(`AcceptanceIsKept`); of two operators at one proposal the second does not overrule the first (`DecisionStands`); a list older
than the rows is one of an edit not finished, a failed invalidation or a reader overtaken by one
(`StaleOnlyWhenRaced`); a review stands for one product of a paid order (`VerifiedPurchase`); an exclusion
stays in the conversation unless a turn that had read the conversation before drops it (`ExclusionsStay`).

**Why the bounds are enough.** Every race in this code is between two handlers over
one row (an authorization, a payments row, a request, a cart, a variant), so two handlers
of the kind that races, and a second row to mix it up with, show it. Values are
chosen at the edges: amounts at 100 000 and 100 001, a mandate over 95 239 that covers 100 000
only by its truncated tolerance of 5 %, a campaign whose cap pays for one discount but not for two,
stock that one pair of carts exhausts. `TypeInvariant` and `OfficeTypeOK` are the type
invariants; they are also the domains that make the refinement mapping meaningful.
The bounds, all of them: the sizes of the constant sets; `MCBound`, which in `policy_warrant` follows two actions, two authorizations or two busy
answerers only under the settings of the start and two busy answerers only beside one action; row ids that
run out (`RzpOrders`, `Actions`, `Auths`, `Requests`), after which the instance can only idle;
at most one declined payment per Razorpay order; in `CartCheckout` each checkout, each
edit and each recovery is made once, and `MaxRetries` is 2 where the code has 5 -- two is enough for a retry that succeeds
and for one that gives up. The two counters, of announcements, need no bound because an event
id is stored once. In the services: `AuditIds` (five ids, one from before the chain, so that four writes or
rollbacks happen), `MaxFaults` (one failure or crash in the event service: each of its
steps meets a failure or a crash, two of them in one behaviour do not fit the run), `MaxTime`
(five steps, one more than it takes to sweep an idle bucket), `Days` (one midnight), `MaxSnapshots`
(two), two campaigns whose budgets fit the ceiling alone and not together, `Invites` and `Operators` that run out.
The limits are 2 (lockout), 2 tokens, 3 units of cost, 1 suggestion, each less than the requests at once
need to pass it together. The limiter is checked with
`TRUST_PROXY_HEADERS` unset, as deployed: with it set, an address is admitted under as many keys as the proxy names.

**Deadlock** is checked everywhere but where ids run out and nothing is left to do: in the runs of the
policy without failures, in `back_office` and in `campaign_ceiling`; each of those configurations says so.

**Symmetry** is used for safety only (and for the refinements, which are safety properties); the runs
with liveness have none.

**Fairness.** A handler that has begun goes on (`WF` of its steps): it is a goroutine, and
nothing in these handlers waits for another request except on a row lock. In the event service the worker and the consumer loop for as long as the
process lives (`WF` of `WorkerStep` and of `ConsumerStep`); a failing step is a step, so what carries `EveryRowIsPublished` is that
failures stop, not that they are rare. No fairness is
assumed of clients, of buyers or of failures. Razorpay delivers an event until it is
acknowledged: that is its documented contract and the reason the code answers 400 on
errors; it is one `WF` over all unacknowledged events. In `CartCheckout` a
transaction that waits for a lock is not enabled, and the lock's holder is; a circle of
waiting transactions enables `DeadlockVictim`. `RequestsEnd` is `[]<>Ended`: because every
request is made once, it says that none of them is stuck for ever.

**Mutants.** Next to the operator it changes, and marked `Mutant`, each module has
variants with a plausible mistake: a guard dropped, a lock not taken, a reset
forgotten, an update out of order. They are not part of any specification. Every property of
every passing run has one that violates it.

## 4. What is proved

The theorems hold for every value of the constants that satisfies the named assumptions:
any number of orders, authorizations, keys, mandates, requests and concurrent
handlers, and with `MayFail` either way.

**Payments** (`PaymentFlowProofs`). `InductiveInvariant` proves `Spec => []IInv`; the others are
its consequences: `TypeCorrect`, `PaidOrdersAreCaptured`, `CapturedMoneyIsTracked`,
`NoDoubleCharge`, `AuthorizationSpentOnce`, `BrowserIsSentRight`, `PaymentsAreAuthorized`,
`RunsNameTheirFunder`. The properties alone are not inductive, because what a handler is
about to write is only right because of what it read earlier. `IInv` therefore says what each handler
knows at each statement: a creation handler between consuming and calling Razorpay is the only
one that holds its authorization (`ExclusiveInv`, which rests on the guarded UPDATE that
consumes it), and the Razorpay order it brings back was created for its order under its
authorization (`CallInv`); a webhook's order is the one whose row tracks the event's Razorpay
order (`HookInv`); a browser's confirmation rests on a capture (`VerifyInv`). `StoreInv` ties the rows
together: a row points at a Razorpay order made for its order under a spent authorization bound to it.
The heart of `NeverDoubleCharged` is then short: browsers are told only Razorpay orders that
a row tracks, and the unique index on the order leaves one such row.
Attempts and announcements rest on a second invariant, proved on top of the first. `RowsGrow`: no step undoes a capture, a failure or the
payment of an order. So the statement that follows a capture or a failure of the row may come as late as it likes (`AttemptsAlwaysAgree`).
`AnnounceInvariant`: a transition to captured or failed leads from neither, so one delivery decides an order's payment; it alone is past
that point, with nothing announced yet, and its row agrees with its event. `AlwaysAnnouncedOnce` and `AnnouncementsAlwaysTrue` follow.

**Refinement** (`PaymentRefinementProofs`). `FlowKeepsPromise` proves that `PaymentFlow` implements
`PaymentPromise`: the initial states map to the initial state, and, under `IInv`, each statement is one step
of the promise or none: consuming is `Spend`, inserting the row is `Fund`, a captured payment is
`Charge`, a row's transition to captured or failed is `Capture` or `Fail`, the order's is `Pay`.

**Policy** (`PolicyApprovalProofs`). `InvariantHolds` proves `Spec => []IInv`; consequences are
`TypesHold`, `AuthorizationsAreWarranted`, `ConsentIsGiven`, `RequestsAreConsistent`,
`AnswersAlwaysFit`, `EnforcementIsDurable`. The difficulty is that everything an authorization rests on
was read statements ago, and clock and settings have moved since. The argument is that rows only grow: mandates
and actions keep their terms, trails gain rows, authorizations keep what they were minted with. So
"some configuration the operators set covers this proposal under this mandate" and
"this action recorded these rows with this verdict" stay true once they are (`CoveredStays`,
`RecordedStays`), and each handler carries them from its evaluation to the row it inserts
(`ProposeKnows`, `AnswerKnows`, `EveryRequestIsWarranted`). `RiskNeverDecides` is about the rules alone:
for the trusted merchant the level depends on the amount only, because the
risk bounds lie beyond the amounts' own.

**Checkout** (`CartRulesProofs`, `CartCheckoutProofs`, `ShopProofs`), with edits, recoveries and failures beside any number of
checkouts, and carts of any length. `CheckoutInvariant` proves `Spec => []CheckoutInv`; `OrdersAlwaysAddUp` and `CapAlwaysKept` follow. Rows are held by one
transaction each (`OneHolder`). A cart is held from the first statement of its checkout on, so the subtotal read then
is still the sum of the items read next (`CheckedOut`); a campaign is held from its guard to the commit, so what the guard found
still fits when it is spent (`Budgeted`). This half never expands `Total`: equal items have equal totals.

`ShopInvariant` proves a second invariant on top of the first, `ShopInv`: what a checkout read of its cart, and found in stock of the
variants it has reserved, still stands (`ReadsStand`); an edit whose version is still the cart's was worked out from the cart's items and not
refused for them (`EditStands`); a cart has an order only once it is checked out (`CartsFit`). `CheckoutTypes`, `StockAlwaysKept`,
`BudgetAlwaysKept` and `NoEditEverLost` follow. That a checkout takes no more of a variant than there is needs one line per variant
in every cart (`OneLineEach`, `AppliedFits`): two lines of one variant would each be compared with the whole stock.
These need facts about sums. The community modules define a sum by a recursive function over a finite set, and the library's induction
theorems take the induction hypothesis as an operator; `CartRulesProofs` inducts without one: of the finite sets
for which a fact fails, one that contains no other such set would have to be both empty and not (`FiniteMinimum`). From there it is short to what
totals and quantities are, that each covers its lines (`TotalCovers`, `QuantityCounts`), and that one more order adds one more term (`SumWithNew`).

`ShopIsImplemented` proves that all of this implements `ShopPromise`, in which a cart turns into an order at once. The mapping shows of a cart its
status and items. Under both invariants a saved edit and each line a recovery refills are one `Change`, the commit of a checkout is one `Sell`, a new cart is one `Open`, and
every other statement of every request is a stutter.

**Events** (`OfficeProofs`). `EventInvariant`: what the worker has published of its batch is on the stream, and
what the consumer works on was handed to it and, where it is about to be acknowledged, stored. `PublishedAlwaysOnStream` and
the action property `AlwaysLoggedOrPending` follow, over any failures and crashes. `DeliveryIsImplemented` proves that `EventDelivery` implements
`DeliveryPromise`, in which there is no worker, batch, consumer or crash. The mapping shows the tables and the stream as they are. What the promise asks of a
step and the code does not look at again is in `DeliveryInv`: a row of the worker's batch is still unpublished, since nobody else marks rows, and
the messages the consumer works on are still pending. Polling, failures that
take nothing and crashes are stutters.

**Audit chain** (`OfficeProofs`). `AuditInvariant` and `ChainAlwaysVerifies`: whoever is past the lock holds it, so there is one; what it
inserted lies above every committed row, because ids only grow and others insert under the lock too; so what it read as the last hash
is the link that belongs into its row when it commits, and no later row comes below it.

**Limits** (`LimitProofs`). One argument three times: what was counted, plus what the requests past the check can still
add, is within the bound (`LockoutInvariant`, `GuardInvariant`, `CapInvariant`); the check lets a request past only below the limit, and there are
only so many requests. `GuessesAlwaysBounded`, `SpendAlwaysBounded` and `SuggestionsAlwaysCapped` follow. `AcceptanceAlwaysKept` needs the types only: no statement writes over an accepted suggestion.
The rate limiter is a limit over time: of every stretch that begins at an admitted request, what was admitted since plus what the bucket could still
give at once is no more than a full bucket and the refill since (`LimiterInvariant`). A refused request refills and takes nothing, an admitted one moves a token from the bucket to the
count, time adds the same to both sides unless the bucket is full, and the sweep forgets only buckets that have filled up
by then. `AdmittedAlwaysWithinRate` is stated for a deployment that does not trust the forwarding header, which is the code's default.

**Back office** (`OfficeProofs`), a short argument for each. Reviews (`ReviewInvariant`, `PurchaseAlwaysVerified`): no transition leads from a paid
order to one that is not, which is checked in the table itself, so what a submission found of its order holds when it inserts.
Accounts (`AccountInvariant`, `TokensAlwaysMeanOneOperator`): ids are never given out twice, an operator's address is the one its creating request
typed; the rest is the unique address and the foreign key. Campaigns (`CampaignInvariant`, `DecisionsAlwaysStand`): a decision past the row's lock
holds a row that is still proposed and that nobody else holds. The conversation (`TurnInvariant`, `ExclusionsAlwaysStay`): what a turn is about to store has the
exclusions of the snapshot it read, if that is still the last. The catalog (`CatalogInvariant`, `AlwaysStaleOnlyWhenRaced`): with no invalidation
to come, a reader that none overtook has seen the rows as they are, the one it is at included; and (`CatalogTypes`) no variant is without its product, nothing in a cart
without its row, which rests on the foreign keys' cascade and refusal. `OfficeTypes` puts the services' types together: a step of one is a step
of the others in which they stand still.

**Assumptions.** Each module names what it assumes of its constants (`...Assumption`): types, that `None` is no value it stands
beside, and what the system has to bring along. `KeysOf`: clients of different orders do not
send the same idempotency key (the storefront derives it from the order); if they do, the lookup
by key, which is not narrowed to the order, answers with the other order's payment.
`Configs`: operators save configurations of the right type (validated by the handler).
`LimiterAssumption`: a bucket is full again before it may be swept (`IdleFor * Rate >= Burst * Unit`; ten tokens in a
minute against thirty minutes in the code). TLC evaluates all of them for the instances.

**Only model-checked.** Liveness (`CapturedOrderIsPaid`, `RequestsEnd`, `EveryRowIsPublished`) is beyond the prover; it is the only
thing that is: every invariant, every action property and all three refinements the passing runs check are theorems.
`OrdersAddUp`, `CapIsKept` and `PublishedIsOnStream` are in no run: they are theorems too, the first and the last also part of what the
refinements promise.
The inductive invariants are not listed in the runs: their proofs hold for every instance.

## 5. Where code and documents disagree

Each of these is a run that finds the claim violated, with the quotation in `PROJECT.json`.

* `creation_repeat`: a command repeated with its key and its authorization is refused, since the authorization
  is verified before the key is looked up.
* `flow_acknowledged`: a delivery that fails after the event id is stored is never applied; the retry is a
  "duplicate".
* `flow_declined`: a capture after a declined try on the same Razorpay order leaves the order unpaid for ever.
* `policy_approved_twice`: two approvals at once mint two authorizations for one request.
* `policy_repeat`: a proposal repeated while its request is pending ends in an error.
* `campaign_ceiling`: the ceiling on the sum of active budgets is checked against the sum at the time of the proposal and not
  at the approval, so two proposals that fit alone are approved together.

Comments that promise more than the code does, visible in the models and without a run of their own:

* `auth/invite.go:117-124` says a merchant is never left without operators; two who remove each other at once are both gone
  (`BeginRemove` twice, then `DeleteOperator` twice).
* `auth/invite.go:100-105` says revoking an accepted invite reports "not found"; it deletes the row. (An accepted invite forbids
  the removal of its inviter, through the foreign key, until that is done.)
* `events/outbox_worker.go:10-15` says there is no duplicate publish; a crash after publishing, or a lost answer, publishes again.
* `commerce/cart/handler.go:45,58-60` says a cart event is published at most once and never retried; the Redis client retries by default
  (`cmd/server/main.go:225` leaves its options alone), so one whose answer was lost may be on the stream twice.
* `events/stream_consumer.go:103-107` says a message that could not be stored is redelivered; only new messages are ever read
  (`XREADGROUP ... >`), so it stays pending for ever. The log is therefore not promised to be complete, only never to drop what it was handed.
* `commerce/catalog/cache.go:39-43` says an edit is never masked by a stale list; a reader that began before the edit may store its list
  after the invalidation, and a failed invalidation is only logged.
* `agents/conversation.go:91-97` says an exclusion stays for the rest of the conversation; a turn that read the conversation before it drops it.
* `agents/cost_guard.go:44-51` says the guard trips no later than the bill; calls that run at once overshoot it, and a call
  whose answer never came is not recorded at all.
* `agents/rejection_recovery.go:57-61` says a replacement is usable only after a policy rejection; the handler looks at the order alone,
  so an order whose payment is pending can be replaced as well, and both can then be paid.

Seen while modelling, and without a run because no document says otherwise:

* Two handlers with two authorizations for one order both create a Razorpay order; the loser's
  authorization is spent for nothing. (No browser learns of its Razorpay order: `BrowserPaysTrackedOrder`.)
* An order priced to zero by a campaign is refused after its authorization is consumed.
* The unique key column of `payments` stores the empty key too (`payment/postgres_repository.go:191`; attempts store NULL): of the clients that send none, only one is ever served.
* `VerifyPayment` answers success when it finds the row failed: any illegal transition counts as "already done".
* When the browser's confirmation wins, `payment.captured` is neither audited nor published.
* A rejection and an approval of one request may overwrite each other; the authorization survives
  the rejection.
* Two proposals at once mint two authorizations for one action's terms; reuse hands out expired ones.
* Overlapping settings updates may leave the row and the engine with different configurations until a restart.
* A cart that is already an order can still be edited by a request that began before.
* Rebuilding a cart after a refused item leaves the first order's stock reserved; a recovery that breaks off leaves a cart nobody knows.
* A campaign whose time is over stays active in the sum of budgets: nothing ends it.
* A suggestion dismissed between its choice and its answer is still shown; a product evaluated again keeps the price and the cart total of
  its first evaluation (`growth/postgres_store.go:33-36` updates three columns).
* An operator removed between a login's password check and its session gets an error, not a session: the foreign key, not the code, sees to it.

## 6. What is not modelled

* Of the modelled components: the wording and shape of requests and answers, agent plans, replay
  and explanations (they read or annotate); the availability shown for a product, which
  checkout lowers too (never below zero) and nothing decides on; variants and prices changing while carts are open (`Catalog` edits rows
  that `CartCheckout` holds constant: the catalog overwrites a
  variant's stock with an absolute number); the audit rows written after a checkout.
* Recovery: `BuildRecovery` and the payment's state it looks at (in the payment modules), `suggestSubstitute`, which only reads.
* Accounts: hashing of passwords and tokens, expiry as anything but an action, listing.
* Growth: expected value and its constants beyond "too much for the cart", the dashboard, the simulator.
* Buyer agent: the tool-calling loop (`tool_loop.go` `RunInConversation`, `runLoop`, `dispatch`) apart from its question to the cost
  guard: it does what a model says through tools that call the services above, and its turns carry no snapshot. Extraction itself, the ranking of
  searches and the summarizer's cache are functions of text.
* Language models, the storefront and Razorpay's own behaviour beyond what is described above.
* Tools, the MCP server, the x402 demonstration, dashboards, experiments and safety scenarios:
  they call the components above, or read, and hold no state others depend on.

## 7. Plan

What would come next, in this order:

1. Compositions: the webhook's outbox rows with `EventDelivery`; the log's consumer and growth's on one stream; `Campaigns` with the
   guard of `CartCheckout`, so that a campaign is approved and ends while carts draw on it; `Catalog`'s edits of stock under
   `CartCheckout`.
2. Recovery together with the payment of the order it replaces.
