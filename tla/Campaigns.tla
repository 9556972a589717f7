------------------------------ MODULE Campaigns ------------------------------
(***************************************************************************)
(* Discount campaigns of one merchant (backend/campaign): an agent sizes a *)
(* proposal to the demand that recommendations lost to the budget, the     *)
(* engine checks it, an operator approves or rejects it.  What checkouts   *)
(* spend of an active campaign is in module CartCheckout.                  *)
(***************************************************************************)
EXTENDS Faults, Integers, FiniteSets, FiniteSetsExt

CONSTANTS
  CampaignIds,        \* product and time make them unique
  ListPrice,          \* of each product
  Demands,            \* rejections that may be found
  Percents, Durations,\* discounts and days that may be asked for
  OpenOffers,         \* products of the static allowlist
  Desks,          \* handlers that may run at once
  MaxCap,             \* MaxBudgetCapPerCampaign
  MaxTotal,           \* MaxTotalActiveBudget
  MaxPercent, MaxDays, MinDemand  \* the other limits of Config

ASSUME CampaignAssumption ==
  /\ ListPrice \in [DOMAIN ListPrice -> Nat] /\ OpenOffers \subseteq DOMAIN ListPrice
  /\ {0} \cup Demands \cup Durations \cup Percents \subseteq Nat
  /\ {MaxCap, MaxTotal, MaxPercent, MaxDays, MinDemand} \subseteq Nat
  /\ None \notin Desks \cup CampaignIds

VARIABLES
  campaign,   \* campaigns: each row
  rowLock,    \* per campaign: the transaction that holds its row
  desk    \* each handler

campaignVars == <<campaign, rowLock, desk>>

CampaignStatuses == {"PROPOSED", "ACTIVE", "REJECTED"}
CampaignRow ==
  [offer : DOMAIN ListPrice, cap : Nat, status : CampaignStatuses, runs : {"not yet", "now", "over"}]

ASSUME CampaignRowAssumption == None \notin CampaignRow /\ None \notin CampaignStatuses

AtDesk ==
  [pc |-> "idle", id |-> None, offer |-> None, demand |-> 0, percent |-> 0, days |-> 0, active |-> 0]

CampaignTypeOK ==
  /\ campaign \in [CampaignIds -> CampaignRow \cup {None}]
  /\ rowLock \in [CampaignIds -> Desks \cup {None}]
  /\ \A o \in Desks :
       desk[o].pc \in {"idle", "sum", "save", "lock", "activate", "reject"}

CampaignInit ==
  /\ campaign = [c \in CampaignIds |-> None]
  /\ rowLock = [c \in CampaignIds |-> None]
  /\ desk = [o \in Desks |-> AtDesk]

StatusOf(c) == IF campaign[c] = None THEN None ELSE campaign[c].status
ActiveCampaigns == {c \in CampaignIds : StatusOf(c) = "ACTIVE"}
DeskAt(o, pc) == desk[o].pc = pc
DeskGoto(o, state) == desk' = [desk EXCEPT ![o] = state]
LeaveDesk(o) == DeskGoto(o, AtDesk)

\* SumActiveBudget also counts a campaign whose time is over: nothing ends it.
SumActiveBudget == MapThenSumSet(LAMBDA c : campaign[c].cap, ActiveCampaigns)

------------------------------------------------------------------------------
\* Proposing.

\* The product with the most rejections and how many there were, and what the
\* operator asks for; no rejection at all, or a product that is gone, ends it.
BeginProposal(o) ==
  /\ DeskAt(o, "idle")
  /\ \E p \in DOMAIN ListPrice, n \in Demands \ {0}, pct \in Percents \ {0}, d \in Durations \ {0} :
       DeskGoto(o, [AtDesk EXCEPT !.pc = "sum", !.offer = p, !.demand = n, !.percent = pct, !.days = d])
  /\ UNCHANGED <<campaign, rowLock>>

ReadActiveBudget(o) ==
  /\ DeskAt(o, "sum")
  /\ DeskGoto(o, [desk[o] EXCEPT !.pc = "save", !.active = SumActiveBudget])
  /\ UNCHANGED <<campaign, rowLock>>

\* The budget covers every rejected buyer redeeming once.
BudgetCap(o) == ((ListPrice[desk[o].offer] * desk[o].percent) \div 100) * desk[o].demand

\* Engine.Evaluate.
Passes(o) ==
  /\ desk[o].percent \in 1 .. MaxPercent
  /\ BudgetCap(o) \in 1 .. MaxCap
  /\ desk[o].active + BudgetCap(o) <= MaxTotal
  /\ desk[o].days \in 1 .. MaxDays
  /\ desk[o].offer \in OpenOffers
  /\ desk[o].demand >= MinDemand

\* A proposal that fails is saved as well.
SaveProposal(o) ==
  /\ DeskAt(o, "save")
  /\ \E c \in CampaignIds :
       /\ campaign[c] = None
       /\ campaign' = [campaign EXCEPT ![c] =
            [offer |-> desk[o].offer, cap |-> BudgetCap(o), runs |-> "not yet",
             status |-> IF Passes(o) THEN "PROPOSED" ELSE "REJECTED"]]
  /\ LeaveDesk(o)
  /\ UNCHANGED rowLock

------------------------------------------------------------------------------
\* Deciding.

BeginApprove(o, c) ==
  /\ DeskAt(o, "idle") /\ campaign[c] # None
  /\ DeskGoto(o, [AtDesk EXCEPT !.pc = "lock", !.id = c])
  /\ UNCHANGED <<campaign, rowLock>>

\* Mutant: the row is read without FOR UPDATE.
LockProposal_Unlocked(o) ==
  /\ DeskAt(o, "lock")
  /\ IF StatusOf(desk[o].id) = "PROPOSED"
     THEN DeskGoto(o, [desk[o] EXCEPT !.pc = "activate"])
     ELSE LeaveDesk(o)
  /\ UNCHANGED <<campaign, rowLock>>

\* SELECT ... FOR UPDATE waits for whoever holds the row, and looks at its status
\* again afterwards.
LockProposal(o) ==
  /\ DeskAt(o, "lock") /\ rowLock[desk[o].id] = None
  /\ IF StatusOf(desk[o].id) = "PROPOSED"
     THEN /\ rowLock' = [rowLock EXCEPT ![desk[o].id] = o]
          /\ DeskGoto(o, [desk[o] EXCEPT !.pc = "activate"])
     ELSE UNCHANGED rowLock /\ LeaveDesk(o)
  /\ UNCHANGED campaign

\* The update and the commit; the status is not looked at any more, the budget of
\* the other campaigns never was.
ActivateCampaign(o) ==
  /\ DeskAt(o, "activate")
  /\ campaign' = [campaign EXCEPT ![desk[o].id] = [@ EXCEPT !.status = "ACTIVE", !.runs = "now"]]
  /\ rowLock' = [rowLock EXCEPT ![desk[o].id] = None]
  /\ LeaveDesk(o)

BeginReject(o, c) ==
  /\ DeskAt(o, "idle") /\ campaign[c] # None
  /\ DeskGoto(o, [AtDesk EXCEPT !.pc = "reject", !.id = c])
  /\ UNCHANGED <<campaign, rowLock>>

\* One guarded UPDATE, which waits for the row too.
RejectCampaign(o) ==
  /\ DeskAt(o, "reject") /\ rowLock[desk[o].id] = None
  /\ campaign' = [campaign EXCEPT ![desk[o].id] =
       IF @.status = "PROPOSED" THEN [@ EXCEPT !.status = "REJECTED"] ELSE @]
  /\ LeaveDesk(o)
  /\ UNCHANGED rowLock

\* An error anywhere; a transaction rolls back.
BreakDesk(o) ==
  /\ MayFail /\ ~DeskAt(o, "idle")
  /\ rowLock' = [c \in CampaignIds |-> IF rowLock[c] = o THEN None ELSE rowLock[c]]
  /\ LeaveDesk(o)
  /\ UNCHANGED campaign

\* ends_at is reached.
CampaignEnds(c) ==
  /\ StatusOf(c) = "ACTIVE" /\ campaign[c].runs = "now"
  /\ campaign' = [campaign EXCEPT ![c].runs = "over"]
  /\ UNCHANGED <<rowLock, desk>>

DeskStep(o) ==
  \/ BeginProposal(o) \/ ReadActiveBudget(o) \/ SaveProposal(o)
  \/ LockProposal(o) \/ ActivateCampaign(o) \/ RejectCampaign(o) \/ BreakDesk(o)
  \/ \E c \in CampaignIds : BeginApprove(o, c) \/ BeginReject(o, c)

CampaignNext ==
  \/ \E o \in Desks : DeskStep(o)
  \/ \E c \in CampaignIds : CampaignEnds(c)

CampaignSpec == CampaignInit /\ [][CampaignNext]_campaignVars

------------------------------------------------------------------------------
\* Properties.

\* Two operators who decide the same proposal at once do not overrule each other:
\* what was rejected never runs, and what runs stays active.
DecisionStands ==
  [][\A c \in CampaignIds :
       StatusOf(c) \in {"ACTIVE", "REJECTED"} => StatusOf(c)' = StatusOf(c)]_campaignVars

\* Its inductive invariant: an approval past the lock holds a row that is still
\* PROPOSED, and nobody else holds that row.
DeskFits(o) ==
  /\ DOMAIN desk[o] = DOMAIN AtDesk
  /\ desk[o].pc \in {"sum", "save"} =>
       desk[o].offer \in DOMAIN ListPrice /\ {desk[o].demand, desk[o].percent} \subseteq Nat
  /\ desk[o].pc \in {"lock", "activate", "reject"} =>
       desk[o].id \in CampaignIds /\ campaign[desk[o].id] # None
  /\ desk[o].pc = "activate" =>
       rowLock[desk[o].id] = o /\ campaign[desk[o].id].status = "PROPOSED"

CampaignInv ==
  /\ CampaignTypeOK /\ DOMAIN desk = Desks
  /\ \A o \in Desks : DeskFits(o)

\* The budgets of the campaigns that run never exceed the merchant's ceiling
\* together.  (Config.MaxTotalActiveBudget; not what the code does.)
CeilingHolds ==
  MapThenSumSet(LAMBDA c : campaign[c].cap, {c \in ActiveCampaigns : campaign[c].runs = "now"})
    <= MaxTotal
==============================================================================
