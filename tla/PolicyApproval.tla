---------------------------- MODULE PolicyApproval ----------------------------
(***************************************************************************)
(* How an authorization comes to be: Propose evaluates an action against a *)
(* mandate and mints one, or leaves a request for a human; Approve and     *)
(* Reject answer the request (backend/policy/service.go).  Each handler is *)
(* a sequence of single statements and any number of them run at once.     *)
(***************************************************************************)
EXTENDS PolicySettings

CONSTANTS
  Mandates, Actions, Auths, Requests,   \* row ids
  Proposers, Answerers,                 \* handlers that may run at once
  Proposals,       \* what clients propose
  MandateTerms,    \* mandates clients ask for
  Operator         \* a logged-in operator

ASSUME ApprovalAssumption ==
  /\ Proposals \subseteq Proposal
  /\ MandateTerms \subseteq Mandate /\ \A t \in MandateTerms : t.live
  /\ Operator \notin Carts \cup {None}
  /\ None \notin Mandates \cup Actions \cup Auths \cup Requests

VARIABLES
  mandate,    \* mandates
  trail,      \* per action: agent_actions and the three rows that follow it
  authz,      \* authorizations
  request,    \* approval_requests
  told,       \* authorizations handed out, with the proposal they answer
  proposing,  \* each Propose handler
  answering   \* each Approve or Reject handler

rowVars == <<mandate, trail, authz, request>>
vars == <<settingsVars, rowVars, told, proposing, answering>>

TrailRows == {"action", "risk", "evaluation", "decision"}
Levels == 1 .. 3

Trail ==
  [p : Proposals, cart : Carts \cup {None}, rows : SUBSET TrailRows,
   level : Levels \cup {0}]

\* "by" is no column of authorizations: who consented, None when nobody had to.
Authorization ==
  [p : Proposals, cart : Carts \cup {None}, m : Mandates, level : Levels,
   x : Actions, status : {"ACTIVE", "USED"}, live : BOOLEAN,
   by : Carts \cup {Operator, None}]

Request ==
  [p : Proposals, cart : Carts \cup {None}, m : Mandates, level : Levels,
   x : Actions, status : {"PENDING", "APPROVED", "REJECTED"},
   a : Auths \cup {None}]

ASSUME RowAssumption ==
  None \notin Mandate /\ None \notin Trail /\ None \notin Authorization /\ None \notin Request

\* What a handler answered with: the proposal's own terms and an authorization.
Answer == [p : Proposals, cart : Carts \cup {None}, a : Auths]

ProposeSteps == TrailRows \cup {"findPending", "request", "findActive", "mint"}
Proposing ==
  [pc : ProposeSteps \cup {"idle", "refused"}, p : Proposals \cup {None},
   cart : Carts \cup {None}, m : Mandates \cup {None}, x : Actions \cup {None},
   level : Levels \cup {0}]

AnswerSteps == {"evaluate", "mint", "close", "reject"}
Answering ==
  [pc : AnswerSteps \cup {"idle"}, q : Requests \cup {None},
   by : Carts \cup {Operator, None}, a : Auths \cup {None}]

TypeInvariant ==
  /\ SettingsTypeOK
  /\ mandate \in [Mandates -> Mandate \cup {None}]
  /\ trail \in [Actions -> Trail \cup {None}]
  /\ authz \in [Auths -> Authorization \cup {None}]
  /\ request \in [Requests -> Request \cup {None}]
  /\ told \subseteq Answer
  /\ proposing \in [Proposers -> Proposing]
  /\ answering \in [Answerers -> Answering]

ProposeEnd(how) ==
  [pc |-> how, p |-> None, cart |-> None, m |-> None, x |-> None, level |-> 0]
AnswerEnd == [pc |-> "idle", q |-> None, by |-> None, a |-> None]

Init ==
  /\ SettingsInit
  /\ mandate = [m \in Mandates |-> None]
  /\ trail = [x \in Actions |-> None]
  /\ authz = [a \in Auths |-> None]
  /\ request = [q \in Requests |-> None]
  /\ told = {}
  /\ proposing = [h \in Proposers |-> ProposeEnd("idle")]
  /\ answering = [h \in Answerers |-> AnswerEnd]

------------------------------------------------------------------------------
\* Mandates, the clock and the payment service.

CreateMandate(m, t) ==
  /\ mandate[m] = None
  /\ mandate' = [mandate EXCEPT ![m] = t]
  /\ UNCHANGED <<settingsVars, trail, authz, request, told, proposing, answering>>

ExpireMandate(m) ==
  /\ mandate[m] # None /\ mandate[m].live
  /\ mandate' = [mandate EXCEPT ![m].live = FALSE]
  /\ UNCHANGED <<settingsVars, trail, authz, request, told, proposing, answering>>

ExpireAuthorization(a) ==
  /\ authz[a] # None /\ authz[a].live
  /\ authz' = [authz EXCEPT ![a].live = FALSE]
  /\ UNCHANGED <<settingsVars, mandate, trail, request, told, proposing, answering>>

\* Mutant: a status the table does not know.
UseAuthorization_Consumed(a) ==
  /\ authz[a] # None /\ authz[a].status = "ACTIVE"
  /\ authz' = [authz EXCEPT ![a].status = "CONSUMED"]
  /\ UNCHANGED <<settingsVars, mandate, trail, request, told, proposing, answering>>

\* MarkAuthorizationUsed, from payment creation.
UseAuthorization(a) ==
  /\ authz[a] # None /\ authz[a].status = "ACTIVE"
  /\ authz' = [authz EXCEPT ![a].status = "USED"]
  /\ UNCHANGED <<settingsVars, mandate, trail, request, told, proposing, answering>>

------------------------------------------------------------------------------
\* Propose.

ProposeAt(h, pc) == proposing[h].pc = pc
ProposeGoto(h, pc) == proposing' = [proposing EXCEPT ![h].pc = pc]
EndPropose(h, how) == proposing' = [proposing EXCEPT ![h] = ProposeEnd(how)]

\* GetMandate, Score and Evaluate: the mandate's terms never change, so reading
\* it and judging it are one step.
BeginPropose(h, p, cart, m) ==
  /\ proposing[h].pc \in {"idle", "refused"}
  /\ mandate[m] # None
  /\ \E sellable \in BOOLEAN :
       proposing' = [proposing EXCEPT ![h] =
         [pc |-> "action", p |-> p, cart |-> cart, m |-> m, x |-> None,
          level |-> Evaluate(p, cart, mandate[m], live,
                             Score(p, mandate[m].maximum), sellable)]]
  /\ UNCHANGED <<settingsVars, rowVars, told, answering>>

SaveAction(h) ==
  /\ ProposeAt(h, "action")
  /\ \E x \in Actions :
       /\ trail[x] = None
       /\ trail' = [trail EXCEPT ![x] =
            [p |-> proposing[h].p, cart |-> proposing[h].cart,
             rows |-> {"action"}, level |-> proposing[h].level]]
       /\ proposing' = [proposing EXCEPT ![h] =
            [pc |-> "risk", p |-> @.p, cart |-> @.cart, m |-> @.m, x |-> x,
             level |-> @.level]]
  /\ UNCHANGED <<settingsVars, mandate, authz, request, told, answering>>

\* SaveRiskAssessment, SaveEvaluation, SaveAgentDecision.
SaveTrailRow(h, row) ==
  /\ ProposeAt(h, row)
  /\ trail' = [trail EXCEPT ![proposing[h].x] =
       [p |-> @.p, cart |-> @.cart, rows |-> @.rows \cup {row}, level |-> @.level]]
  /\ UNCHANGED <<settingsVars, mandate, authz, request, told, answering>>

SaveRisk(h) == SaveTrailRow(h, "risk") /\ ProposeGoto(h, "evaluation")

SaveEvaluation(h) == SaveTrailRow(h, "evaluation") /\ ProposeGoto(h, "decision")

\* Mutant: level 2 is let through like level 1.
SaveDecision_LetsLevelTwo(h) ==
  /\ SaveTrailRow(h, "decision")
  /\ IF proposing[h].level = 0 THEN EndPropose(h, "idle")
     ELSE IF proposing[h].level > 2 THEN ProposeGoto(h, "findPending")
     ELSE ProposeGoto(h, "findActive")

SaveDecision(h) ==
  /\ SaveTrailRow(h, "decision")
  /\ IF proposing[h].level = 0 THEN EndPropose(h, "idle")
     ELSE IF proposing[h].level >= 2 THEN ProposeGoto(h, "findPending")
     ELSE ProposeGoto(h, "findActive")

\* GetPendingApprovalForAction compares everything but the cart.
PendingFor(p) ==
  {q \in Requests :
     request[q] # None /\ request[q].status = "PENDING" /\ request[q].p = p}

\* A row that is found cannot be read: a pending request has no authorization,
\* and its NULL does not scan into a string.  The proposal ends in an error.
FindPending(h) ==
  /\ ProposeAt(h, "findPending")
  /\ \/ PendingFor(proposing[h].p) # {} /\ EndPropose(h, "refused")
     \/ PendingFor(proposing[h].p) = {} /\ ProposeGoto(h, "request")
  /\ UNCHANGED <<settingsVars, rowVars, told, answering>>

SaveRequest(h) ==
  /\ ProposeAt(h, "request")
  /\ \E q \in Requests :
       /\ request[q] = None
       /\ request' = [request EXCEPT ![q] =
            [p |-> proposing[h].p, cart |-> proposing[h].cart, m |-> proposing[h].m,
             level |-> proposing[h].level, x |-> proposing[h].x,
             status |-> "PENDING", a |-> None]]
  /\ EndPropose(h, "idle")
  /\ UNCHANGED <<settingsVars, mandate, trail, authz, told, answering>>

\* Mutant: the cart is not compared.
ActiveFor_AnyCart(p, cart) ==
  {a \in Auths : authz[a] # None /\ authz[a].status = "ACTIVE" /\ authz[a].p = p}

\* GetActiveAuthorization: neither expires_at nor the mandate is looked at.
ActiveFor(p, cart) ==
  {a \in Auths : /\ authz[a] # None /\ authz[a].status = "ACTIVE"
                 /\ authz[a].p = p /\ authz[a].cart = cart}

Tell(p, cart, a) == told' = told \cup {[p |-> p, cart |-> cart, a |-> a]}

\* The newest one is returned; here, any.
FindActive(h) ==
  /\ ProposeAt(h, "findActive")
  /\ LET found == ActiveFor(proposing[h].p, proposing[h].cart)
     IN  \/ \E a \in found :
              Tell(proposing[h].p, proposing[h].cart, a) /\ EndPropose(h, "idle")
         \/ found = {} /\ ProposeGoto(h, "mint") /\ UNCHANGED told
  /\ UNCHANGED <<settingsVars, rowVars, answering>>

\* SaveAuthorization, under an id nobody has.
Issue(a, row) ==
  /\ authz[a] = None
  /\ authz' = [authz EXCEPT ![a] = row]

Mint(h) ==
  /\ ProposeAt(h, "mint")
  /\ \E a \in Auths :
       /\ Issue(a, [p |-> proposing[h].p, cart |-> proposing[h].cart,
                    m |-> proposing[h].m, level |-> proposing[h].level,
                    x |-> proposing[h].x, status |-> "ACTIVE", live |-> TRUE,
                    by |-> None])
       /\ Tell(proposing[h].p, proposing[h].cart, a)
  /\ EndPropose(h, "idle")
  /\ UNCHANGED <<settingsVars, mandate, trail, request, answering>>

BreakPropose(h) ==
  /\ MayFail
  /\ proposing[h].pc \in ProposeSteps
  /\ EndPropose(h, "idle")
  /\ UNCHANGED <<settingsVars, rowVars, told, answering>>

ProposeStep(h) ==
  \/ SaveAction(h) \/ SaveRisk(h) \/ SaveEvaluation(h) \/ SaveDecision(h)
  \/ FindPending(h) \/ SaveRequest(h) \/ FindActive(h) \/ Mint(h)

------------------------------------------------------------------------------
\* Approve and Reject.

AnswerAt(h, pc) == answering[h].pc = pc
EndAnswer(h) == answering' = [answering EXCEPT ![h] = AnswerEnd]

\* resolveApprover: a logged-in operator, or whoever knows the request's cart.
MayAnswer(by, q) == by = Operator \/ (by # None /\ by = request[q].cart)

\* Approve reads the request: an approved one is answered with what it names, a
\* rejected one refused (which changes nothing), a pending one goes on.
BeginApprove(h, q, by) ==
  /\ AnswerAt(h, "idle")
  /\ request[q] # None /\ MayAnswer(by, q)
  /\ \/ /\ request[q].status = "APPROVED"
        /\ Tell(request[q].p, request[q].cart, request[q].a)
        /\ UNCHANGED answering
     \/ /\ request[q].status = "PENDING"
        /\ answering' = [answering EXCEPT ![h] =
             [pc |-> "evaluate", q |-> q, by |-> by, a |-> None]]
        /\ UNCHANGED told
  /\ UNCHANGED <<settingsVars, rowVars, proposing>>

\* Evaluated again under the configuration, catalog and clock of now; the risk
\* score stored with the request is the one the same terms give again.
ReEvaluate(h) ==
  /\ AnswerAt(h, "evaluate")
  /\ LET r == request[answering[h].q]
         m == mandate[r.m]
     IN  \E sellable \in BOOLEAN :
           IF Evaluate(r.p, r.cart, m, live, Score(r.p, m.maximum), sellable) = r.level
           THEN answering' = [answering EXCEPT ![h].pc = "mint"]
           ELSE EndAnswer(h)
  /\ UNCHANGED <<settingsVars, rowVars, told, proposing>>

MintApproved(h) ==
  /\ AnswerAt(h, "mint")
  /\ \E a \in Auths :
       /\ LET r == request[answering[h].q]
          IN  Issue(a, [p |-> r.p, cart |-> r.cart, m |-> r.m, level |-> r.level,
                        x |-> r.x, status |-> "ACTIVE", live |-> TRUE,
                        by |-> answering[h].by])
       /\ answering' = [answering EXCEPT ![h] =
            [pc |-> "close", q |-> @.q, by |-> @.by, a |-> a]]
  /\ UNCHANGED <<settingsVars, mandate, trail, request, told, proposing>>

\* UpdateApprovalRequestStatus does not look at the status it overwrites.
CloseRequest(q, status, a) ==
  request' = [request EXCEPT ![q] = [@ EXCEPT !.status = status, !.a = a]]

CloseApproved(h) ==
  /\ AnswerAt(h, "close")
  /\ CloseRequest(answering[h].q, "APPROVED", answering[h].a)
  /\ Tell(request[answering[h].q].p, request[answering[h].q].cart, answering[h].a)
  /\ EndAnswer(h)
  /\ UNCHANGED <<settingsVars, mandate, trail, authz, proposing>>

BeginReject(h, q, by) ==
  /\ AnswerAt(h, "idle")
  /\ request[q] # None /\ MayAnswer(by, q)
  /\ request[q].status = "PENDING"
  /\ answering' = [answering EXCEPT ![h] =
       [pc |-> "reject", q |-> q, by |-> by, a |-> None]]
  /\ UNCHANGED <<settingsVars, rowVars, told, proposing>>

\* Mutant: a rejection keeps the authorization column as it is.
CloseRejected_KeepsAuthorization(h) ==
  /\ AnswerAt(h, "reject")
  /\ CloseRequest(answering[h].q, "REJECTED", request[answering[h].q].a)
  /\ EndAnswer(h)
  /\ UNCHANGED <<settingsVars, mandate, trail, authz, told, proposing>>

CloseRejected(h) ==
  /\ AnswerAt(h, "reject")
  /\ CloseRequest(answering[h].q, "REJECTED", None)
  /\ EndAnswer(h)
  /\ UNCHANGED <<settingsVars, mandate, trail, authz, told, proposing>>

BreakAnswer(h) ==
  /\ MayFail
  /\ answering[h].pc \in AnswerSteps
  /\ EndAnswer(h)
  /\ UNCHANGED <<settingsVars, rowVars, told, proposing>>

AnswerStep(h) ==
  \/ ReEvaluate(h) \/ MintApproved(h) \/ CloseApproved(h) \/ CloseRejected(h)

\* The process dies with all its handlers and starts again.
Restart ==
  /\ LoadConfig
  /\ proposing' = [h \in Proposers |-> ProposeEnd("idle")]
  /\ answering' = [h \in Answerers |-> AnswerEnd]
  /\ UNCHANGED <<rowVars, told>>

Next ==
  \/ \E m \in Mandates : (\E t \in MandateTerms : CreateMandate(m, t)) \/ ExpireMandate(m)
  \/ SettingsNext /\ UNCHANGED <<rowVars, told, proposing, answering>>
  \/ Restart
  \/ \E a \in Auths : ExpireAuthorization(a) \/ UseAuthorization(a)
  \/ \E h \in Proposers :
       \/ \E p \in Proposals, cart \in Carts \cup {None}, m \in Mandates :
            BeginPropose(h, p, cart, m)
       \/ ProposeStep(h) \/ BreakPropose(h)
  \/ \E h \in Answerers :
       \/ \E q \in Requests, by \in Carts \cup {Operator, None} :
            BeginApprove(h, q, by) \/ BeginReject(h, q, by)
       \/ AnswerStep(h) \/ BreakAnswer(h)

Spec == Init /\ [][Next]_vars

------------------------------------------------------------------------------
\* Properties.

\* Mandate m covers the proposal for that cart, as does some configuration the
\* operators set; and if its level asks for nobody's consent, it is a small
\* purchase from the trusted merchant.
Covered(p, cart, m, level) ==
  /\ mandate[m] # None
  /\ BoundToMandate(p, cart, mandate[m])
  /\ \E cfg \in Configs : WithinConfig(p, cfg) /\ WithinBudget(p, mandate[m], cfg)
  /\ level = 1 => p.amount <= 100000 /\ p.merchant = TrustedMerchant

\* Action x left the rows that Propose writes, with this proposal and verdict.
Recorded(x, rows, p, cart, level) ==
  /\ trail[x] # None
  /\ rows \subseteq trail[x].rows
  /\ trail[x].p = p /\ trail[x].cart = cart /\ trail[x].level = level

\* Every authorization is warranted, however settings, clock and handlers moved
\* while it came about: its action left the complete trail with the verdict the
\* authorization acts on, and its mandate covers it.
EveryAuthorizationIsWarranted ==
  \A a \in Auths : authz[a] # None =>
    /\ Recorded(authz[a].x, TrailRows, authz[a].p, authz[a].cart, authz[a].level)
    /\ Covered(authz[a].p, authz[a].cart, authz[a].m, authz[a].level)

\* Nobody is spared consent but a small purchase from the trusted merchant; the
\* consent comes from an operator or from the buyer of that very cart.
ConsentAboveLevelOne ==
  \A a \in Auths : authz[a] # None =>
    \/ /\ authz[a].by = None
       /\ authz[a].p.amount <= 100000 /\ authz[a].p.merchant = TrustedMerchant
    \/ authz[a].by = Operator
    \/ authz[a].by # None /\ authz[a].by = authz[a].cart

\* A request that reads APPROVED names an authorization minted for it, and no
\* other names any -- also after approvals and rejections that overwrote each
\* other.
RequestsNameTheirOwn ==
  \A q \in Requests : request[q] # None =>
    IF request[q].status = "APPROVED"
    THEN /\ request[q].a # None /\ authz[request[q].a] # None
         /\ authz[request[q].a].x = request[q].x
         /\ authz[request[q].a].m = request[q].m
    ELSE request[q].a = None

\* An authorization handed out for a proposal was issued for exactly that
\* proposal and that cart, reused or not.
AnswersFit ==
  \A t \in told :
    /\ authz[t.a] # None
    /\ authz[t.a].p = t.p
    /\ authz[t.a].cart = t.cart

------------------------------------------------------------------------------
\* The inductive invariant.

\* What a Propose handler knows between its statements: its verdict is covered,
\* and its action has the rows it has got to.
ProposeKnows(h) ==
  LET w == proposing[h]
  IN  /\ w.pc \in ProposeSteps => w.p \in Proposals /\ w.m \in Mandates
      /\ w.pc \in ProposeSteps /\ w.level # 0 => Covered(w.p, w.cart, w.m, w.level)
      /\ w.pc \in ProposeSteps \ {"action"} => w.x \in Actions
      /\ w.pc = "risk" => Recorded(w.x, {"action"}, w.p, w.cart, w.level)
      /\ w.pc = "evaluation" => Recorded(w.x, {"action", "risk"}, w.p, w.cart, w.level)
      /\ w.pc = "decision" =>
           Recorded(w.x, {"action", "risk", "evaluation"}, w.p, w.cart, w.level)
      /\ w.pc \in {"findPending", "request", "findActive", "mint"} =>
           Recorded(w.x, TrailRows, w.p, w.cart, w.level)
      /\ w.pc \in {"findPending", "request"} => w.level \in {2, 3}
      /\ w.pc \in {"findActive", "mint"} => w.level = 1

\* What an Approve or Reject handler knows: its approver may answer, and the
\* authorization it is about to name was minted for this request.
AnswerKnows(h) ==
  LET w == answering[h]
  IN  /\ w.pc \in AnswerSteps =>
           w.q \in Requests /\ request[w.q] # None /\ MayAnswer(w.by, w.q)
      /\ w.pc = "close" =>
           /\ w.a \in Auths /\ authz[w.a] # None
           /\ authz[w.a].x = request[w.q].x /\ authz[w.a].m = request[w.q].m

EveryRequestIsWarranted ==
  \A q \in Requests : request[q] # None =>
    /\ Recorded(request[q].x, TrailRows, request[q].p, request[q].cart, request[q].level)
    /\ Covered(request[q].p, request[q].cart, request[q].m, request[q].level)

IInv ==
  /\ TypeInvariant
  /\ SettingsInv
  /\ \A h \in Proposers : ProposeKnows(h)
  /\ \A h \in Answerers : AnswerKnows(h)
  /\ EveryRequestIsWarranted
  /\ EveryAuthorizationIsWarranted
  /\ ConsentAboveLevelOne
  /\ RequestsNameTheirOwn
  /\ AnswersFit

------------------------------------------------------------------------------
\* What comments in the code promise and the code does not do.

\* "Issue the one-time authorization ... idempotent: approving again returns the
\* same authorization": one request never has two.
OneAuthorizationPerRequest ==
  \A a1, a2 \in Auths :
    /\ authz[a1] # None /\ authz[a2] # None
    /\ authz[a1].by # None /\ authz[a2].by # None
    /\ authz[a1].x = authz[a2].x
    => a1 = a2

\* "Reuse an existing PENDING request for the same action (idempotent)": a
\* proposal that repeats one is answered with that request, never refused.
RepeatedProposalIsAnswered ==
  [][\A h \in Proposers :
       ProposeAt(h, "findPending") => proposing'[h].pc # "refused"]_vars
==============================================================================
