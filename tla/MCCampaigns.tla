----------------------------- MODULE MCCampaigns -----------------------------
\* A small instance of Campaigns for TLC: two proposals that fit the ceiling each
\* on its own and not together.
EXTENDS Campaigns

MCListPrice == [p \in {"lamp", "mug"} |-> IF p = "lamp" THEN 10 ELSE 20]
MCOpenOffers == {"lamp"}
==============================================================================
