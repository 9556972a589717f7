----------------------------- MODULE MCBackOffice -----------------------------
\* Small instances of the services beside payment and checkout, for TLC.  They
\* share no state: a behaviour is one of one of them, chosen at its start, while
\* the others keep their initial states.
EXTENDS EventDelivery, AuditChain, OperatorAccounts, LoginLockout, RateLimiter,
        CostGuard, Suggestions, Campaigns, Catalog, Reviews, AgentTurns

MCRows == 1 .. 2
MCAuditIds == 1 .. 5
MCProducts == {"lamp", "mug"}
MCFirst == "lamp"
MCTags == [p \in MCProducts |-> IF p = "lamp" THEN {"desk", "light"} ELSE {"desk"}]
MCWeight == [t \in {"desk", "light"} |-> IF t = "desk" THEN 4 ELSE 1]
\* Both together are over the ceiling, the mug's two are not.
MCPrice == [p \in MCProducts |-> IF p = "lamp" THEN 3 ELSE 1]
MCListPrice == [p \in MCProducts |-> IF p = "lamp" THEN 10 ELSE 20]
MCOpenOffers == {"lamp"}
MCVariants == {"small", "large"}
MCDefault == [p \in {"lamp"} |-> "small"]
MCCatalog == {"lamp"}
MCBought == [o \in Orders |-> Goods]

VARIABLE part   \* the service this behaviour is about

officeVars ==
  <<part, eventVars, auditVars, accountVars, lockoutVars, limiterVars, guardVars, growthVars,
    campaignVars, catalogVars, reviewVars, turnVars>>

Parts == {"events", "audit", "accounts", "lockout", "limiter", "guard", "growth", "campaigns",
          "catalog", "reviews", "turns"}

OfficeInit ==
  /\ part \in Parts
  /\ EventInit /\ AuditInit /\ AccountInit /\ LockoutInit /\ LimiterInit /\ GuardInit
  /\ GrowthInit /\ CampaignInit /\ CatalogInit /\ ReviewInit /\ TurnInit

Still(p, vars) == IF part = p THEN TRUE ELSE UNCHANGED vars

OthersStill ==
  /\ UNCHANGED part
  /\ Still("events", eventVars) /\ Still("audit", auditVars) /\ Still("accounts", accountVars)
  /\ Still("lockout", lockoutVars) /\ Still("limiter", limiterVars) /\ Still("guard", guardVars)
  /\ Still("growth", growthVars) /\ Still("campaigns", campaignVars)
  /\ Still("catalog", catalogVars) /\ Still("reviews", reviewVars) /\ Still("turns", turnVars)

OfficeNext ==
  \/ part = "events" /\ EventNext /\ OthersStill
  \/ part = "audit" /\ AuditNext /\ OthersStill
  \/ part = "accounts" /\ AccountNext /\ OthersStill
  \/ part = "lockout" /\ LockoutNext /\ OthersStill
  \/ part = "limiter" /\ LimiterNext /\ OthersStill
  \/ part = "guard" /\ GuardNext /\ OthersStill
  \/ part = "growth" /\ GrowthNext /\ OthersStill
  \/ part = "campaigns" /\ CampaignNext /\ OthersStill
  \/ part = "catalog" /\ CatalogNext /\ OthersStill
  \/ part = "reviews" /\ ReviewNext /\ OthersStill
  \/ part = "turns" /\ TurnNext /\ OthersStill

\* The outbox worker and the consumers loop for as long as the process lives.
OfficeSpec ==
  /\ OfficeInit /\ [][OfficeNext]_officeVars
  /\ WF_officeVars(part = "events" /\ WorkerStep /\ OthersStill)
  /\ WF_officeVars(part = "events" /\ ConsumerStep /\ OthersStill)

\* Every variable of every service has the values its statements and structures
\* allow it.
OfficeTypeOK ==
  CASE part = "events" -> EventTypeOK
    [] part = "audit" -> AuditTypeOK
    [] part = "accounts" -> AccountTypeOK
    [] part = "lockout" -> LockoutTypeOK
    [] part = "limiter" -> LimiterTypeOK
    [] part = "guard" -> GuardTypeOK
    [] part = "growth" -> GrowthTypeOK
    [] part = "campaigns" -> CampaignTypeOK
    [] part = "catalog" -> CatalogTypeOK
    [] part = "reviews" -> ReviewTypeOK
    [] part = "turns" -> TurnTypeOK
==============================================================================
