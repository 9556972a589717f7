---------------------------- MODULE MCCartCheckout ----------------------------
\* A small instance of CartCheckout for TLC.
EXTENDS CartCheckout, TLC

CONSTANTS c1, c2, red, blue, shirt, mug, sale

MCPrice == red :> 10 @@ blue :> 25
\* Two products, so that two carts can lock variants in opposite orders.
MCProductOf == red :> shirt @@ blue :> mug
\* A tenth off shirts, enough for two of them once.
MCOffer == sale :> [product |-> shirt, percent |-> 10, cap |-> 2]
MCStock == red :> 3 @@ blue :> 2

MCItem(v, qty) == [v |-> v, qty |-> qty]
MCFilled == c1 :> <<MCItem(red, 1), MCItem(blue, 1)>> @@ c2 :> <<MCItem(blue, 1), MCItem(red, 2)>>

MCEdit(kind, c, v, qty) == [kind |-> kind, c |-> c, v |-> v, qty |-> qty]
\* The added three are all there are: they only go in once the line they join is gone.
MCEdits == {MCEdit("add", c1, red, 3), MCEdit("set", c1, blue, 2), MCEdit("remove", c1, red, 1)}
==============================================================================
