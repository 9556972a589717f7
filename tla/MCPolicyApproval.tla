--------------------------- MODULE MCPolicyApproval ---------------------------
\* Small instances of PolicyApproval for TLC.
EXTENDS PolicyApproval, FiniteSets, TLC

CONSTANTS c1, inr, goods, shop, stranger

MCProposal(amount, merchant) ==
  [amount |-> amount, merchant |-> merchant, currency |-> inr, items |-> goods]

\* One proposal of each level: small, medium, and from an unknown merchant.
MCSmall == MCProposal(100000, shop)
MCMedium == MCProposal(100001, shop)
MCUnknown == MCProposal(1000, stranger)

MCSmallAndMedium == {MCSmall, MCMedium}
MCAllLevels == {MCSmall, MCMedium, MCUnknown}
MCOnlySmall == {MCSmall}
MCOnlyMedium == {MCMedium}

MCMandate(maximum, merchant, cart) ==
  [maximum |-> maximum, merchant |-> merchant, currency |-> inr, cart |-> cart,
   live |-> TRUE]

\* Bound to the cart or not; one that covers the medium amount only with the
\* tolerance; one with the unknown merchant.
MCUnbound == MCMandate(150000, shop, None)
MCAnyMandates ==
  {MCUnbound, MCMandate(95239, shop, c1), MCMandate(1000, stranger, None)}
MCOneMandate == {MCMandate(150000, shop, c1)}

MCConfig(ceiling, merchants) ==
  [ceiling |-> ceiling, tolerance |-> 5, merchants |-> merchants, currencies |-> {inr}]

\* Operators widen and narrow the settings while requests are open.
MCConfigs == {MCConfig(3000000, {shop, stranger}), MCConfig(100000, {shop})}
MCDefault == MCConfig(3000000, {shop, stranger})
MCOneConfig == {MCConfig(3000000, {shop, stranger})}

\* Several actions, authorizations or busy answerers are followed under the
\* settings the process started with, and without the stranger, only; busy
\* answerers beside one action.
MCTwoActions == Cardinality({x \in Actions : trail[x] # None}) > 1
MCTwoAnswer == Cardinality({h \in Answerers : answering[h].pc # "idle"}) > 1
MCSeveral ==
  MCTwoActions \/ MCTwoAnswer \/ Cardinality({a \in Auths : authz[a] # None}) > 1

MCSettled ==
  /\ saved = {Default} /\ live = Default
  /\ \A u \in Updaters : update[u].pc = "idle"
  /\ \A m \in Mandates : mandate[m] \in {MCUnbound, None}
  /\ \A x \in Actions : trail[x] # None => trail[x].p # MCUnknown

MCBound == (MCSeveral => MCSettled) /\ ~(MCTwoActions /\ MCTwoAnswer)

MCSymmetry ==
  Permutations(Mandates) \cup Permutations(Actions) \cup Permutations(Auths)
    \cup Permutations(Requests) \cup Permutations(Updaters)
    \cup Permutations(Proposers) \cup Permutations(Answerers)
==============================================================================
