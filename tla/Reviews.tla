------------------------------- MODULE Reviews -------------------------------
(***************************************************************************)
(* Reviews of bought products (backend/commerce/review).  A submission     *)
(* reads the order and inserts afterwards; orders go on moving along the   *)
(* table of StateMachines meanwhile.                                       *)
(***************************************************************************)
EXTENDS Faults, StateMachines

CONSTANTS
  Orders, Goods,   \* orders, and products
  Bought,          \* per order: the products in it
  Shoppers         \* submissions that may run at once

ASSUME ReviewAssumption ==
  Bought \in [Orders -> SUBSET Goods] /\ None \notin Orders \cup Goods

VARIABLES
  orderStatus,  \* orders.status
  sold,         \* products that still exist
  reviews,      \* the reviews table
  submission    \* each POST /orders/{id}/review

reviewVars == <<orderStatus, sold, reviews, submission>>

Review == [order : Orders, product : Goods, by : Shoppers]
NoSubmission == [order |-> None, product |-> None]

ReviewTypeOK ==
  /\ orderStatus \in [Orders -> OrderStatuses]
  /\ sold \subseteq Goods
  /\ reviews \subseteq Review
  /\ submission \in [Shoppers -> [order : Orders, product : Goods] \cup {NoSubmission}]

ReviewInit ==
  /\ orderStatus = [o \in Orders |-> "draft"]
  /\ sold = Goods
  /\ reviews = {}
  /\ submission = [s \in Shoppers |-> NoSubmission]

MoveOrder(o) ==
  /\ \E status \in OrderStatuses :
       /\ CanTransition(OrderTransitionTable, orderStatus[o], status)
       /\ orderStatus' = [orderStatus EXCEPT ![o] = status]
  /\ UNCHANGED <<sold, reviews, submission>>

\* Reviews go with their product.
RemoveProduct(p) ==
  /\ p \in sold
  /\ sold' = sold \ {p}
  /\ reviews' = {r \in reviews : r.product # p}
  /\ UNCHANGED <<orderStatus, submission>>

reviewEligibleOrderStatuses == {"paid", "fulfillment_pending", "completed"}

\* Submit up to the insert: what it checks is read once.
CheckOrder(s, o, p) ==
  /\ submission[s] = NoSubmission
  /\ orderStatus[o] \in reviewEligibleOrderStatuses /\ p \in Bought[o]
  /\ submission' = [submission EXCEPT ![s] = [order |-> o, product |-> p]]
  /\ UNCHANGED <<orderStatus, sold, reviews>>

\* Mutant: the table has no unique constraint.
CreateReview_Twice(s) ==
  /\ submission[s] # NoSubmission
  /\ reviews' = reviews \cup {[order |-> submission[s].order, product |-> submission[s].product, by |-> s]}
  /\ submission' = [submission EXCEPT ![s] = NoSubmission]
  /\ UNCHANGED <<orderStatus, sold>>

\* The insert may fail; one review per order and product, of a product that is
\* there.
CreateReview(s) ==
  /\ submission[s] # NoSubmission
  /\ LET o == submission[s].order
         p == submission[s].product
     IN  \/ /\ p \in sold /\ \A r \in reviews : r.order # o \/ r.product # p
            /\ reviews' = reviews \cup {[order |-> o, product |-> p, by |-> s]}
         \/ UNCHANGED reviews
  /\ submission' = [submission EXCEPT ![s] = NoSubmission]
  /\ UNCHANGED <<orderStatus, sold>>

ReviewNext ==
  \/ \E o \in Orders : MoveOrder(o)
  \/ \E p \in Goods : RemoveProduct(p)
  \/ \E s \in Shoppers :
       CreateReview(s) \/ \E o \in Orders, p \in Goods : CheckOrder(s, o, p)

ReviewSpec == ReviewInit /\ [][ReviewNext]_reviewVars

------------------------------------------------------------------------------
\* However long a submission takes and however often it is repeated, every review
\* stands for one product of an order that is still paid, and no two for the same.
VerifiedPurchase ==
  /\ \A r \in reviews :
       orderStatus[r.order] \in reviewEligibleOrderStatuses /\ r.product \in Bought[r.order]
  /\ \A r, q \in reviews : r.order = q.order /\ r.product = q.product => r = q

\* The inductive invariant: what a submission found still holds when it inserts.
ReviewInv ==
  /\ ReviewTypeOK
  /\ VerifiedPurchase
  /\ \A s \in Shoppers : submission[s] # NoSubmission =>
       /\ orderStatus[submission[s].order] \in reviewEligibleOrderStatuses
       /\ submission[s].product \in Bought[submission[s].order]
==============================================================================
