------------------------ MODULE PolicyApprovalProofs ------------------------
(***************************************************************************)
(* Proofs that every authorization is warranted, whatever the numbers of   *)
(* mandates, requests and concurrent handlers are, however operators       *)
(* change the settings meanwhile, and wherever handlers break off.         *)
(*                                                                         *)
(* The argument: rows only grow (RowsGrow), so that what covers a proposal *)
(* and what its trail records stays true (CoveredStays, RecordedStays).    *)
(* Each handler carries both from the evaluation to the row it inserts.    *)
(***************************************************************************)
EXTENDS PolicyApproval, TLAPS

USE RulesAssumption, SettingsAssumption, ApprovalAssumption, RowAssumption

------------------------------------------------------------------------------
\* The rules.

\* The verdict of Evaluate is a level, or 0.
LEMMA EvaluateRange ==
  ASSUME NEW p, NEW cart, NEW m, NEW cfg, NEW risk, NEW sellable
  PROVE  Evaluate(p, cart, m, cfg, risk, sellable) \in Levels \cup {0}
BY DEF Evaluate, RouteLevel, Levels

\* A proposal Evaluate lets through is bound to the mandate and within the
\* configuration, and level 1 is a small purchase from the trusted merchant.
LEMMA EvaluatePasses ==
  ASSUME NEW p, NEW cart, NEW m, NEW cfg, NEW risk, NEW sellable,
         Evaluate(p, cart, m, cfg, risk, sellable) # 0
  PROVE  /\ BoundToMandate(p, cart, m)
         /\ WithinConfig(p, cfg) /\ WithinBudget(p, m, cfg)
         /\ Evaluate(p, cart, m, cfg, risk, sellable) = 1
              => p.amount <= 100000 /\ p.merchant = TrustedMerchant
BY DEF Evaluate, RouteLevel, BoundToMandate

\* For the trusted merchant the risk score never decides: the level follows from
\* the amount alone, whatever the mandate allows.  (Its thresholds lie beyond the
\* amounts that routeLevel sends to a higher level anyway.)
THEOREM RiskNeverDecides ==
  ASSUME NEW p \in Proposal, NEW maximum \in Nat, p.merchant = TrustedMerchant
  PROVE  RouteLevel(p, TrustedMerchant, Score(p, maximum)) =
           IF p.amount <= 100000 THEN 1 ELSE IF p.amount <= 1000000 THEN 2 ELSE 3
<1>1. p.amount \in Nat
  BY DEF Proposal
<1>2. CASE RawScore(p, maximum) > RiskUnit
  <2>1. p.amount > 1000000
    BY <1>1, <1>2 DEF RawScore, RiskUnit
  <2>2. Score(p, maximum) = RiskUnit
    BY <1>2 DEF Score
  <2> QED
    BY <1>1, <2>1, <2>2 DEF RouteLevel, RiskUnit
<1>3. CASE ~(RawScore(p, maximum) > RiskUnit)
  <2> DEFINE extra == IF 10 * p.amount > 9 * maximum THEN 3000000 ELSE 0
  <2>1. Score(p, maximum) = 4 * p.amount + extra
    BY <1>1, <1>3 DEF Score, RawScore
  <2>2. extra \in {0, 3000000}
    OBVIOUS
  <2> HIDE DEF extra
  <2> QED
    BY <1>1, <2>1, <2>2 DEF RouteLevel, RiskUnit
<1> QED
  BY <1>2, <1>3

------------------------------------------------------------------------------
\* The settings.

\* Every configuration enforced has been in the row: the settings' own invariant
\* holds at the start and over every step of theirs and every restart.
LEMMA SettingsStart == SettingsInit => SettingsInv
BY DEF SettingsInit, SettingsInv, SettingsTypeOK, NoUpdate, Update

LEMMA NoUpdateType == NoUpdate \in Update /\ NoUpdate.pc = "idle"
BY DEF NoUpdate, Update

LEMMA SettingsStep ==
  ASSUME SettingsInv, SettingsNext \/ LoadConfig \/ UNCHANGED settingsVars
  PROVE  SettingsInv'
<1> USE NoUpdateType
<1>1. ASSUME NEW u \in Updaters, NEW cfg \in Configs, BeginUpdate(u, cfg)
      PROVE  SettingsInv'
  BY <1>1 DEF BeginUpdate, SettingsInv, SettingsTypeOK, Update
<1>2. ASSUME NEW u \in Updaters, SaveConfig(u)
      PROVE  SettingsInv'
  <2>1. update[u].cfg \in Configs
    BY <1>2 DEF SaveConfig, SettingsInv
  <2>2. update' = [update EXCEPT ![u] = [pc |-> "apply", cfg |-> update[u].cfg]]
    BY <1>2 DEF SaveConfig
  <2> QED
    BY <1>2, <2>1, <2>2 DEF SaveConfig, SettingsInv, SettingsTypeOK, Update
<1>3. ASSUME NEW u \in Updaters, SaveConfigFails(u)
      PROVE  SettingsInv'
  BY <1>3 DEF SaveConfigFails, SettingsInv, SettingsTypeOK
<1>4. ASSUME NEW u \in Updaters, UpdateConfig(u)
      PROVE  SettingsInv'
  <2>1. update[u].cfg \in Configs /\ update[u].cfg \in saved
    BY <1>4 DEF UpdateConfig, SettingsInv
  <2> QED
    BY <1>4, <2>1 DEF UpdateConfig, SettingsInv, SettingsTypeOK
<1>5. ASSUME LoadConfig
      PROVE  SettingsInv'
  BY <1>5 DEF LoadConfig, SettingsInv, SettingsTypeOK
<1>6. ASSUME UNCHANGED settingsVars
      PROVE  SettingsInv'
  BY <1>6 DEF settingsVars, SettingsInv, SettingsTypeOK
<1> QED
  BY <1>1, <1>2, <1>3, <1>4, <1>5, <1>6 DEF SettingsNext

------------------------------------------------------------------------------
\* Rows only grow.

MandatesKept ==
  \A m \in Mandates : mandate[m] # None =>
    /\ mandate'[m] # None
    /\ mandate'[m].maximum = mandate[m].maximum
    /\ mandate'[m].merchant = mandate[m].merchant
    /\ mandate'[m].currency = mandate[m].currency
    /\ mandate'[m].cart = mandate[m].cart

TrailKept ==
  \A x \in Actions : trail[x] # None =>
    /\ trail'[x] # None
    /\ trail[x].rows \subseteq trail'[x].rows
    /\ trail'[x].p = trail[x].p /\ trail'[x].cart = trail[x].cart
    /\ trail'[x].level = trail[x].level

SameTerms(old, new) ==
  /\ new.p = old.p /\ new.cart = old.cart /\ new.m = old.m
  /\ new.level = old.level /\ new.x = old.x

AuthzKept ==
  \A a \in Auths : authz[a] # None =>
    authz'[a] # None /\ SameTerms(authz[a], authz'[a]) /\ authz'[a].by = authz[a].by

RequestKept ==
  \A q \in Requests : request[q] # None =>
    request'[q] # None /\ SameTerms(request[q], request'[q])

\* What covers a proposal goes on covering it.
LEMMA CoveredStays ==
  ASSUME MandatesKept,
         NEW p, NEW cart, NEW m \in Mandates, NEW level,
         Covered(p, cart, m, level)
  PROVE  Covered(p, cart, m, level)'
<1>1. /\ mandate[m] # None
      /\ mandate'[m] # None
      /\ mandate'[m].maximum = mandate[m].maximum
      /\ mandate'[m].merchant = mandate[m].merchant
      /\ mandate'[m].currency = mandate[m].currency
      /\ mandate'[m].cart = mandate[m].cart
  BY DEF Covered, MandatesKept
<1> QED
  BY <1>1 DEF Covered, BoundToMandate, WithinBudget

\* What an action's trail records stays recorded.
LEMMA RecordedStays ==
  ASSUME TrailKept,
         NEW x \in Actions, NEW rows, NEW p, NEW cart, NEW level,
         Recorded(x, rows, p, cart, level)
  PROVE  Recorded(x, rows, p, cart, level)'
BY DEF Recorded, TrailKept

\* Which steps write which table.
LEMMA WhoWrites ==
  ASSUME [Next]_vars
  PROVE  /\ \/ mandate' = mandate
            \/ \E m \in Mandates : ExpireMandate(m) \/ \E t \in MandateTerms : CreateMandate(m, t)
         /\ \/ trail' = trail
            \/ \E h \in Proposers :
                 SaveAction(h) \/ SaveRisk(h) \/ SaveEvaluation(h) \/ SaveDecision(h)
         /\ \/ authz' = authz
            \/ \E a \in Auths : ExpireAuthorization(a) \/ UseAuthorization(a)
            \/ \E h \in Proposers : Mint(h)
            \/ \E h \in Answerers : MintApproved(h)
         /\ \/ request' = request
            \/ \E h \in Proposers : SaveRequest(h)
            \/ \E h \in Answerers : CloseApproved(h) \/ CloseRejected(h)
         /\ \/ told' = told
            \/ \E h \in Proposers : FindActive(h) \/ Mint(h)
            \/ \E h \in Answerers :
                 \/ CloseApproved(h)
                 \/ \E q \in Requests, by \in Carts \cup {Operator, None} : BeginApprove(h, q, by)
         /\ SettingsNext \/ LoadConfig \/ UNCHANGED settingsVars
<1>1. CASE UNCHANGED vars
  BY <1>1 DEF vars, rowVars
<1>3. CASE \E m \in Mandates : (\E t \in MandateTerms : CreateMandate(m, t)) \/ ExpireMandate(m)
  BY <1>3 DEF CreateMandate, ExpireMandate
<1>4. CASE SettingsNext /\ UNCHANGED <<rowVars, told, proposing, answering>>
  BY <1>4 DEF rowVars
<1>5. CASE Restart
  BY <1>5 DEF Restart, rowVars
<1>6. CASE \E a \in Auths : ExpireAuthorization(a) \/ UseAuthorization(a)
  BY <1>6 DEF ExpireAuthorization, UseAuthorization
<1>7. ASSUME NEW h \in Proposers, NEW p, NEW cart, NEW m, BeginPropose(h, p, cart, m)
      PROVE  UNCHANGED <<settingsVars, rowVars, told>>
  BY <1>7 DEF BeginPropose
<1>8. ASSUME NEW h \in Proposers,
             SaveAction(h) \/ SaveRisk(h) \/ SaveEvaluation(h) \/ SaveDecision(h)
      PROVE  UNCHANGED <<settingsVars, mandate, authz, request, told>>
  BY <1>8 DEF SaveAction, SaveRisk, SaveEvaluation, SaveDecision, SaveTrailRow
<1>9. ASSUME NEW h \in Proposers, FindPending(h) \/ BreakPropose(h)
      PROVE  UNCHANGED <<settingsVars, rowVars, told>>
  BY <1>9 DEF FindPending, BreakPropose
<1>10. ASSUME NEW h \in Proposers, SaveRequest(h)
       PROVE  UNCHANGED <<settingsVars, mandate, trail, authz, told>>
  BY <1>10 DEF SaveRequest
<1>11. ASSUME NEW h \in Proposers, FindActive(h)
       PROVE  UNCHANGED <<settingsVars, rowVars>>
  BY <1>11 DEF FindActive
<1>12. ASSUME NEW h \in Proposers, Mint(h)
       PROVE  UNCHANGED <<settingsVars, mandate, trail, request>>
  BY <1>12 DEF Mint
<1>13. ASSUME NEW h \in Answerers, NEW q, NEW by, BeginApprove(h, q, by)
       PROVE  UNCHANGED <<settingsVars, rowVars>>
  BY <1>13 DEF BeginApprove
<1>14. ASSUME NEW h \in Answerers, NEW q, NEW by,
              BeginReject(h, q, by) \/ ReEvaluate(h) \/ BreakAnswer(h)
       PROVE  UNCHANGED <<settingsVars, rowVars, told>>
  BY <1>14 DEF BeginReject, ReEvaluate, BreakAnswer
<1>15. ASSUME NEW h \in Answerers, MintApproved(h)
       PROVE  UNCHANGED <<settingsVars, mandate, trail, request, told>>
  BY <1>15 DEF MintApproved
<1>16. ASSUME NEW h \in Answerers, CloseApproved(h)
       PROVE  UNCHANGED <<settingsVars, mandate, trail, authz>>
  BY <1>16 DEF CloseApproved
<1>17. ASSUME NEW h \in Answerers, CloseRejected(h)
       PROVE  UNCHANGED <<settingsVars, mandate, trail, authz, told>>
  BY <1>17 DEF CloseRejected
<1>18. ASSUME NEW h \in Proposers,
              \/ \E p \in Proposals, cart \in Carts \cup {None}, m \in Mandates :
                   BeginPropose(h, p, cart, m)
              \/ ProposeStep(h) \/ BreakPropose(h)
       PROVE  /\ UNCHANGED settingsVars /\ mandate' = mandate
              /\ \/ trail' = trail
                 \/ SaveAction(h) \/ SaveRisk(h) \/ SaveEvaluation(h) \/ SaveDecision(h)
              /\ authz' = authz \/ Mint(h)
              /\ request' = request \/ SaveRequest(h)
              /\ told' = told \/ FindActive(h) \/ Mint(h)
  BY <1>7, <1>8, <1>9, <1>10, <1>11, <1>12, <1>18 DEF ProposeStep, rowVars
<1>19. ASSUME NEW h \in Answerers,
              \/ \E q \in Requests, by \in Carts \cup {Operator, None} :
                   BeginApprove(h, q, by) \/ BeginReject(h, q, by)
              \/ AnswerStep(h) \/ BreakAnswer(h)
       PROVE  /\ UNCHANGED settingsVars /\ mandate' = mandate /\ trail' = trail
              /\ authz' = authz \/ MintApproved(h)
              /\ request' = request \/ CloseApproved(h) \/ CloseRejected(h)
              /\ \/ told' = told \/ CloseApproved(h)
                 \/ \E q \in Requests, by \in Carts \cup {Operator, None} : BeginApprove(h, q, by)
  BY <1>13, <1>14, <1>15, <1>16, <1>17, <1>19 DEF AnswerStep, rowVars
<1> QED
  BY <1>1, <1>3, <1>4, <1>5, <1>6, <1>18, <1>19 DEF Next

\* What a Propose or Answer handler knows has the types of a row's fields.
LEMMA ProposerFields ==
  ASSUME TypeInvariant, NEW h \in Proposers, ProposeKnows(h),
         proposing[h].pc \in ProposeSteps
  PROVE  /\ proposing[h] \in Proposing
         /\ proposing[h].p \in Proposals /\ proposing[h].m \in Mandates
         /\ proposing[h].cart \in Carts \cup {None}
         /\ proposing[h].level \in Levels \cup {0}
BY DEF TypeInvariant, Proposing, ProposeKnows

LEMMA AnswererFields ==
  ASSUME TypeInvariant, NEW h \in Answerers, AnswerKnows(h),
         answering[h].pc \in AnswerSteps
  PROVE  /\ answering[h] \in Answering
         /\ answering[h].q \in Requests /\ request[answering[h].q] # None
         /\ request[answering[h].q] \in Request
         /\ answering[h].by \in Carts \cup {Operator, None}
BY DEF TypeInvariant, Answering, AnswerKnows

\* A mandate is saved once; the clock only ends its life.
LEMMA MandatesGrow ==
  ASSUME TypeInvariant, [Next]_vars
  PROVE  mandate' \in [Mandates -> Mandate \cup {None}] /\ MandatesKept
<1>1. CASE mandate' = mandate
  BY <1>1 DEF TypeInvariant, MandatesKept
<1>2. ASSUME NEW m \in Mandates, NEW t \in MandateTerms, CreateMandate(m, t)
      PROVE  mandate' \in [Mandates -> Mandate \cup {None}] /\ MandatesKept
  BY <1>2 DEF CreateMandate, TypeInvariant, MandatesKept
<1>3. ASSUME NEW m \in Mandates, ExpireMandate(m)
      PROVE  mandate' \in [Mandates -> Mandate \cup {None}] /\ MandatesKept
  <2> DEFINE new == [mandate[m] EXCEPT !.live = FALSE]
  <2>1. mandate[m] \in Mandate
    BY <1>3 DEF ExpireMandate, TypeInvariant
  <2>2. /\ new \in Mandate
        /\ new.maximum = mandate[m].maximum /\ new.merchant = mandate[m].merchant
        /\ new.currency = mandate[m].currency /\ new.cart = mandate[m].cart
    BY <2>1 DEF Mandate
  <2>3. mandate' = [mandate EXCEPT ![m] = new]
    BY <1>3 DEF ExpireMandate
  <2>4. new # None
    BY <2>2
  <2> HIDE DEF new
  <2> QED
    BY <2>2, <2>3, <2>4 DEF TypeInvariant, MandatesKept
<1> QED
  BY <1>1, <1>2, <1>3, WhoWrites

\* A trail gains rows and keeps its proposal and verdict.
LEMMA TrailRowFacts ==
  ASSUME TypeInvariant, NEW h \in Proposers, NEW row \in TrailRows,
         proposing[h].x \in Actions, trail[proposing[h].x] # None,
         SaveTrailRow(h, row)
  PROVE  /\ trail' \in [Actions -> Trail \cup {None}]
         /\ TrailKept
         /\ trail'[proposing[h].x] # None
         /\ trail'[proposing[h].x].rows = trail[proposing[h].x].rows \cup {row}
<1> DEFINE x == proposing[h].x
           new == [p |-> trail[x].p, cart |-> trail[x].cart,
                   rows |-> trail[x].rows \cup {row}, level |-> trail[x].level]
<1>1. trail[x] \in Trail
  BY DEF TypeInvariant
<1>2. /\ new \in Trail
      /\ new.rows = trail[x].rows \cup {row}
      /\ new.p = trail[x].p /\ new.cart = trail[x].cart /\ new.level = trail[x].level
  BY <1>1 DEF Trail
<1>3. trail' = [trail EXCEPT ![x] = new]
  BY DEF SaveTrailRow
<1>4. new # None
  BY <1>2
<1>5. x \in Actions
  OBVIOUS
<1> HIDE DEF new, x
<1>6. /\ trail' \in [Actions -> Trail \cup {None}]
      /\ TrailKept
      /\ trail'[x] # None
      /\ trail'[x].rows = trail[x].rows \cup {row}
  BY <1>2, <1>3, <1>4, <1>5 DEF TypeInvariant, TrailKept
<1> QED
  BY <1>6 DEF x

\* The action's row is new, and is the handler's.
LEMMA ActionFacts ==
  ASSUME TypeInvariant, NEW h \in Proposers, ProposeKnows(h), SaveAction(h)
  PROVE  /\ trail' \in [Actions -> Trail \cup {None}]
         /\ TrailKept
         /\ \E x \in Actions :
              /\ trail'[x] = [p |-> proposing[h].p, cart |-> proposing[h].cart,
                              rows |-> {"action"}, level |-> proposing[h].level]
              /\ proposing' = [proposing EXCEPT ![h] =
                   [pc |-> "risk", p |-> proposing[h].p, cart |-> proposing[h].cart,
                    m |-> proposing[h].m, x |-> x, level |-> proposing[h].level]]
<1>1. PICK x \in Actions :
        /\ trail[x] = None
        /\ trail' = [trail EXCEPT ![x] =
             [p |-> proposing[h].p, cart |-> proposing[h].cart,
              rows |-> {"action"}, level |-> proposing[h].level]]
        /\ proposing' = [proposing EXCEPT ![h] =
             [pc |-> "risk", p |-> proposing[h].p, cart |-> proposing[h].cart,
              m |-> proposing[h].m, x |-> x, level |-> proposing[h].level]]
  BY DEF SaveAction
<1> DEFINE row == [p |-> proposing[h].p, cart |-> proposing[h].cart,
                   rows |-> {"action"}, level |-> proposing[h].level]
<1>2. proposing[h].pc \in ProposeSteps
  BY DEF SaveAction, ProposeAt, ProposeSteps, TrailRows
<1>3. row \in Trail
  BY <1>2, ProposerFields DEF Trail, TrailRows
<1>4. row # None
  BY <1>3
<1> HIDE DEF row
<1>5. trail' = [trail EXCEPT ![x] = row]
  BY <1>1 DEF row
<1>9. x \in Actions /\ trail[x] = None /\ trail \in [Actions -> Trail \cup {None}]
  BY <1>1 DEF TypeInvariant
<1>6. trail' \in [Actions -> Trail \cup {None}] /\ TrailKept /\ trail'[x] = row
  BY ONLY <1>9, <1>3, <1>5 DEF TrailKept
<1>7. trail'[x] = [p |-> proposing[h].p, cart |-> proposing[h].cart,
                   rows |-> {"action"}, level |-> proposing[h].level]
  BY ONLY <1>6 DEF row
<1>8. /\ trail' \in [Actions -> Trail \cup {None}]
      /\ TrailKept
  BY <1>6
<1> QED
  BY ONLY <1>1, <1>7, <1>8

\* Between "risk" and "decision" a handler's action has its row.
LEMMA ActionIsThere ==
  ASSUME TypeInvariant, NEW h \in Proposers, ProposeKnows(h),
         proposing[h].pc \in {"risk", "evaluation", "decision"}
  PROVE  proposing[h].x \in Actions /\ trail[proposing[h].x] # None
BY DEF ProposeKnows, ProposeSteps, TrailRows, Recorded

LEMMA TrailsGrow ==
  ASSUME IInv, [Next]_vars
  PROVE  trail' \in [Actions -> Trail \cup {None}] /\ TrailKept
<1> USE DEF IInv
<1>1. CASE trail' = trail
  BY <1>1 DEF TypeInvariant, TrailKept
<1>2. ASSUME NEW h \in Proposers, SaveAction(h)
      PROVE  trail' \in [Actions -> Trail \cup {None}] /\ TrailKept
  BY <1>2, ActionFacts
<1>3. ASSUME NEW h \in Proposers, SaveRisk(h) \/ SaveEvaluation(h) \/ SaveDecision(h)
      PROVE  trail' \in [Actions -> Trail \cup {None}] /\ TrailKept
  <2>1. PICK row \in TrailRows : SaveTrailRow(h, row)
    BY <1>3 DEF SaveRisk, SaveEvaluation, SaveDecision, TrailRows
  <2>2. proposing[h].pc \in {"risk", "evaluation", "decision"}
    BY <1>3 DEF SaveRisk, SaveEvaluation, SaveDecision, SaveTrailRow, ProposeAt
  <2> QED
    BY <2>1, <2>2, ActionIsThere, TrailRowFacts
<1> QED
  BY <1>1, <1>2, <1>3, WhoWrites

\* An authorization is issued once, by a handler that minted it from what it
\* holds; afterwards only its status and its life change.
AuthzFrom(a) ==
  \/ \E h \in Proposers :
       /\ ProposeAt(h, "mint")
       /\ SameTerms(proposing[h], authz'[a]) /\ authz'[a].by = None
  \/ \E h \in Answerers :
       /\ AnswerAt(h, "mint")
       /\ SameTerms(request[answering[h].q], authz'[a])
       /\ authz'[a].by = answering[h].by

AuthzStep ==
  /\ authz' \in [Auths -> Authorization \cup {None}]
  /\ AuthzKept
  /\ \A a \in Auths : authz[a] = None /\ authz'[a] # None => AuthzFrom(a)

\* Issuing under a free id leaves the other rows alone.
LEMMA IssueFacts ==
  ASSUME TypeInvariant, NEW a \in Auths, NEW row \in Authorization, Issue(a, row)
  PROVE  /\ authz' \in [Auths -> Authorization \cup {None}]
         /\ AuthzKept
         /\ authz[a] = None /\ authz'[a] = row
         /\ \A b \in Auths \ {a} : authz'[b] = authz[b]
<1>1. authz \in [Auths -> Authorization \cup {None}]
  BY DEF TypeInvariant
<1> QED
  BY <1>1 DEF Issue, AuthzKept, SameTerms

\* What Mint writes.
LEMMA MintFacts ==
  ASSUME IInv, NEW h \in Proposers, Mint(h)
  PROVE  /\ AuthzStep
         /\ \E a \in Auths :
              /\ authz'[a] # None /\ authz'[a].p = proposing[h].p
              /\ authz'[a].cart = proposing[h].cart
              /\ told' = told \cup {[p |-> proposing[h].p, cart |-> proposing[h].cart, a |-> a]}
<1> DEFINE row == [p |-> proposing[h].p, cart |-> proposing[h].cart,
                   m |-> proposing[h].m, level |-> proposing[h].level,
                   x |-> proposing[h].x, status |-> "ACTIVE", live |-> TRUE,
                   by |-> None]
<1>1. PICK a \in Auths :
        /\ Issue(a, row)
        /\ told' = told \cup {[p |-> proposing[h].p, cart |-> proposing[h].cart, a |-> a]}
  BY DEF Mint, Tell
<1>2. ProposeAt(h, "mint") /\ ProposeKnows(h) /\ TypeInvariant
  BY DEF Mint, IInv
<1>3. proposing[h].pc \in ProposeSteps /\ proposing[h].pc \in ProposeSteps \ {"action"}
  BY <1>2 DEF ProposeAt, ProposeSteps, TrailRows
<1>4. proposing[h].x \in Actions /\ proposing[h].level = 1
  BY <1>2, <1>3 DEF ProposeAt, ProposeKnows
<1>5. row \in Authorization
  BY <1>2, <1>3, <1>4, ProposerFields DEF Authorization, Levels
<1>6. row.p = proposing[h].p /\ row.cart = proposing[h].cart
      /\ SameTerms(proposing[h], row) /\ row.by = None
  BY DEF SameTerms
<1>7. row # None
  BY <1>5
<1> HIDE DEF row
<1>8. /\ authz' \in [Auths -> Authorization \cup {None}]
      /\ AuthzKept
      /\ authz[a] = None /\ authz'[a] = row
      /\ \A b \in Auths \ {a} : authz'[b] = authz[b]
  BY ONLY <1>1, <1>2, <1>5, IssueFacts
<1>9. AuthzFrom(a)
  BY <1>2, <1>6, <1>8 DEF AuthzFrom
<1>10. AuthzStep
  BY <1>8, <1>9 DEF AuthzStep
<1> QED
  BY <1>1, <1>6, <1>7, <1>8, <1>10

\* What the mint of an approval writes.
LEMMA MintApprovedFacts ==
  ASSUME IInv, NEW h \in Answerers, MintApproved(h)
  PROVE  /\ AuthzStep
         /\ \E a \in Auths :
              /\ authz'[a] # None
              /\ authz'[a].x = request[answering[h].q].x
              /\ authz'[a].m = request[answering[h].q].m
              /\ answering' = [answering EXCEPT ![h] =
                   [pc |-> "close", q |-> answering[h].q, by |-> answering[h].by, a |-> a]]
<1> DEFINE r == request[answering[h].q]
           row == [p |-> r.p, cart |-> r.cart, m |-> r.m, level |-> r.level,
                   x |-> r.x, status |-> "ACTIVE", live |-> TRUE,
                   by |-> answering[h].by]
<1>1. PICK a \in Auths :
        /\ Issue(a, row)
        /\ answering' = [answering EXCEPT ![h] =
             [pc |-> "close", q |-> answering[h].q, by |-> answering[h].by, a |-> a]]
  BY DEF MintApproved
<1>2. AnswerAt(h, "mint") /\ AnswerKnows(h) /\ TypeInvariant
  BY DEF MintApproved, IInv
<1>3. answering[h].pc \in AnswerSteps
  BY <1>2 DEF AnswerAt, AnswerSteps
<1>4. r \in Request /\ answering[h].by \in Carts \cup {Operator, None}
  BY <1>2, <1>3, AnswererFields
<1>5. row \in Authorization
  BY <1>4 DEF Request, Authorization
<1>6. row.x = r.x /\ row.m = r.m /\ SameTerms(r, row) /\ row.by = answering[h].by
  BY DEF SameTerms
<1>7. row # None
  BY <1>5
<1> HIDE DEF row
<1>8. /\ authz' \in [Auths -> Authorization \cup {None}]
      /\ AuthzKept
      /\ authz[a] = None /\ authz'[a] = row
      /\ \A b \in Auths \ {a} : authz'[b] = authz[b]
  BY ONLY <1>1, <1>2, <1>5, IssueFacts
<1>9. AuthzFrom(a)
  BY <1>2, <1>6, <1>8 DEF AuthzFrom
<1>10. AuthzStep
  BY <1>8, <1>9 DEF AuthzStep
<1> QED
  BY <1>1, <1>6, <1>7, <1>8, <1>10

LEMMA AuthzGrow ==
  ASSUME IInv, [Next]_vars
  PROVE  AuthzStep
<1>0. authz \in [Auths -> Authorization \cup {None}]
  BY DEF IInv, TypeInvariant
<1>1. CASE authz' = authz
  BY <1>0, <1>1 DEF AuthzStep, AuthzKept, SameTerms
<1>2. ASSUME NEW a \in Auths, ExpireAuthorization(a) \/ UseAuthorization(a)
      PROVE  AuthzStep
  <2> DEFINE new == authz'[a]
  <2>1. authz[a] \in Authorization
    BY <1>0, <1>2 DEF ExpireAuthorization, UseAuthorization
  <2>2. /\ authz' = [authz EXCEPT ![a] = new]
        /\ new \in Authorization
        /\ SameTerms(authz[a], new) /\ new.by = authz[a].by
    <3>1. CASE ExpireAuthorization(a)
      <4>1. authz' = [authz EXCEPT ![a] = [authz[a] EXCEPT !.live = FALSE]]
        BY <3>1 DEF ExpireAuthorization
      <4>2. new = [authz[a] EXCEPT !.live = FALSE]
        BY <1>0, <4>1
      <4> HIDE DEF new
      <4> QED
        BY <2>1, <4>1, <4>2 DEF Authorization, SameTerms
    <3>2. CASE UseAuthorization(a)
      <4>1. authz' = [authz EXCEPT ![a] = [authz[a] EXCEPT !.status = "USED"]]
        BY <3>2 DEF UseAuthorization
      <4>2. new = [authz[a] EXCEPT !.status = "USED"]
        BY <1>0, <4>1
      <4> HIDE DEF new
      <4> QED
        BY <2>1, <4>1, <4>2 DEF Authorization, SameTerms
    <3> QED
      BY <1>2, <3>1, <3>2
  <2>3. new # None /\ authz[a] # None
    BY <2>1, <2>2
  <2> HIDE DEF new
  <2> QED
    BY <1>0, <2>2, <2>3 DEF AuthzStep, AuthzKept, SameTerms
<1> QED
  BY <1>1, <1>2, MintFacts, MintApprovedFacts, WhoWrites

\* A request is left by a handler that holds its terms; an answer rewrites its
\* status and the authorization it names, and nothing else.
RequestFrom(q) ==
  \E h \in Proposers :
    /\ ProposeAt(h, "request")
    /\ SameTerms(proposing[h], request'[q])
    /\ request'[q].status = "PENDING" /\ request'[q].a = None

RequestAnswered(q) ==
  \/ request'[q] = request[q]
  \/ \E h \in Answerers :
       /\ AnswerAt(h, "close") /\ answering[h].q = q
       /\ request'[q].status = "APPROVED" /\ request'[q].a = answering[h].a
  \/ request'[q].status = "REJECTED" /\ request'[q].a = None

RequestStep ==
  /\ request' \in [Requests -> Request \cup {None}]
  /\ RequestKept
  /\ \A q \in Requests : request[q] = None /\ request'[q] # None => RequestFrom(q)
  /\ \A q \in Requests : request[q] # None => RequestAnswered(q)

\* Closing rewrites the two columns of one request.
LEMMA CloseFacts ==
  ASSUME TypeInvariant, NEW q \in Requests, request[q] # None,
         NEW status \in {"APPROVED", "REJECTED"}, NEW a \in Auths \cup {None},
         CloseRequest(q, status, a)
  PROVE  /\ request' \in [Requests -> Request \cup {None}]
         /\ RequestKept
         /\ request'[q] # None /\ request'[q].status = status /\ request'[q].a = a
         /\ \A r \in Requests \ {q} : request'[r] = request[r]
<1> DEFINE new == [request[q] EXCEPT !.status = status, !.a = a]
<1>1. request[q] \in Request /\ request \in [Requests -> Request \cup {None}]
  BY DEF TypeInvariant
<1>2. /\ new \in Request
      /\ new.status = status /\ new.a = a /\ SameTerms(request[q], new)
  BY <1>1 DEF Request, SameTerms
<1>3. request' = [request EXCEPT ![q] = new]
  BY DEF CloseRequest
<1>4. new # None
  BY <1>2
<1> HIDE DEF new
<1> QED
  BY <1>1, <1>2, <1>3, <1>4 DEF RequestKept, SameTerms

\* What an approver about to close a request holds.
LEMMA CloserFields ==
  ASSUME IInv, NEW h \in Answerers, answering[h].pc \in {"close", "reject"}
  PROVE  /\ answering[h].q \in Requests /\ request[answering[h].q] # None
         /\ answering[h].pc = "close" =>
              /\ answering[h].a \in Auths /\ authz[answering[h].a] # None
              /\ authz[answering[h].a].x = request[answering[h].q].x
              /\ authz[answering[h].a].m = request[answering[h].q].m
<1>1. AnswerKnows(h) /\ answering[h].pc \in AnswerSteps
  BY DEF IInv, AnswerSteps
<1> QED
  BY <1>1 DEF AnswerKnows

LEMMA RequestsGrow ==
  ASSUME IInv, [Next]_vars
  PROVE  RequestStep
<1>0. TypeInvariant /\ request \in [Requests -> Request \cup {None}]
  BY DEF IInv, TypeInvariant
<1>1. CASE request' = request
  BY <1>0, <1>1 DEF RequestStep, RequestKept, RequestAnswered, SameTerms
<1>2. ASSUME NEW h \in Proposers, SaveRequest(h)
      PROVE  RequestStep
  <2> DEFINE row == [p |-> proposing[h].p, cart |-> proposing[h].cart,
                     m |-> proposing[h].m, level |-> proposing[h].level,
                     x |-> proposing[h].x, status |-> "PENDING", a |-> None]
  <2>1. PICK q \in Requests : request[q] = None /\ request' = [request EXCEPT ![q] = row]
    BY <1>2 DEF SaveRequest
  <2>2. ProposeAt(h, "request") /\ ProposeKnows(h)
    BY <1>2 DEF SaveRequest, IInv
  <2>3. proposing[h].pc \in ProposeSteps /\ proposing[h].pc \in ProposeSteps \ {"action"}
    BY <2>2 DEF ProposeAt, ProposeSteps, TrailRows
  <2>4. proposing[h].x \in Actions /\ proposing[h].level \in {2, 3}
    BY <2>2, <2>3 DEF ProposeAt, ProposeKnows
  <2>5. row \in Request
    BY <1>0, <2>2, <2>3, <2>4, ProposerFields DEF Request, Levels
  <2>6. row.status = "PENDING" /\ row.a = None /\ SameTerms(proposing[h], row)
    BY DEF SameTerms
  <2>7. row # None
    BY <2>5
  <2> HIDE DEF row
  <2>8. /\ request' \in [Requests -> Request \cup {None}]
        /\ RequestKept
        /\ request'[q] = row
        /\ \A r \in Requests \ {q} : request'[r] = request[r]
    BY <1>0, <2>1, <2>5, <2>7 DEF RequestKept, SameTerms
  <2>9. RequestFrom(q)
    BY <2>2, <2>6, <2>8 DEF RequestFrom
  <2> QED
    BY <2>1, <2>8, <2>9 DEF RequestStep, RequestAnswered
<1>3. ASSUME NEW h \in Answerers, CloseApproved(h)
      PROVE  RequestStep
  <2> DEFINE q == answering[h].q
  <2>1. answering[h].pc \in {"close", "reject"} /\ AnswerAt(h, "close")
    BY <1>3 DEF CloseApproved, AnswerAt
  <2>2. q \in Requests /\ request[q] # None /\ answering[h].a \in Auths
    BY <2>1, CloserFields DEF AnswerAt
  <2>3. CloseRequest(q, "APPROVED", answering[h].a)
    BY <1>3 DEF CloseApproved
  <2>4. /\ request' \in [Requests -> Request \cup {None}]
        /\ RequestKept
        /\ request'[q] # None
        /\ request'[q].status = "APPROVED" /\ request'[q].a = answering[h].a
        /\ \A r \in Requests \ {q} : request'[r] = request[r]
    BY <1>0, <2>2, <2>3, CloseFacts
  <2>5. RequestAnswered(q)
    BY <2>1, <2>4 DEF RequestAnswered
  <2> HIDE DEF q
  <2> QED
    BY <2>2, <2>4, <2>5 DEF RequestStep, RequestAnswered
<1>4. ASSUME NEW h \in Answerers, CloseRejected(h)
      PROVE  RequestStep
  <2> DEFINE q == answering[h].q
  <2>1. answering[h].pc \in {"close", "reject"}
    BY <1>4 DEF CloseRejected, AnswerAt
  <2>2. q \in Requests /\ request[q] # None
    BY <2>1, CloserFields
  <2>3. CloseRequest(q, "REJECTED", None)
    BY <1>4 DEF CloseRejected
  <2>4. /\ request' \in [Requests -> Request \cup {None}]
        /\ RequestKept
        /\ request'[q] # None /\ request'[q].status = "REJECTED" /\ request'[q].a = None
        /\ \A r \in Requests \ {q} : request'[r] = request[r]
    BY <1>0, <2>2, <2>3, CloseFacts
  <2> HIDE DEF q
  <2> QED
    BY <2>2, <2>4 DEF RequestStep, RequestAnswered
<1> QED
  BY <1>1, <1>2, <1>3, <1>4, WhoWrites

------------------------------------------------------------------------------
\* What the rows say.

\* A warrant -- a complete trail and a mandate that covers -- outlives every step.
LEMMA WarrantStays ==
  ASSUME IInv, [Next]_vars,
         NEW p, NEW cart, NEW m \in Mandates, NEW level, NEW x \in Actions,
         Recorded(x, TrailRows, p, cart, level), Covered(p, cart, m, level)
  PROVE  Recorded(x, TrailRows, p, cart, level)' /\ Covered(p, cart, m, level)'
<1>1. MandatesKept /\ TrailKept
  BY MandatesGrow, TrailsGrow DEF IInv
<1> QED
  BY <1>1, CoveredStays, RecordedStays

\* A row of a table that kept its terms keeps its warrant.
LEMMA KeptRowStaysWarranted ==
  ASSUME IInv, [Next]_vars, NEW old, NEW new, SameTerms(old, new),
         old.m \in Mandates, old.x \in Actions,
         Recorded(old.x, TrailRows, old.p, old.cart, old.level),
         Covered(old.p, old.cart, old.m, old.level)
  PROVE  /\ Recorded(new.x, TrailRows, new.p, new.cart, new.level)'
         /\ Covered(new.p, new.cart, new.m, new.level)'
<1>1. /\ new.p = old.p /\ new.cart = old.cart /\ new.m = old.m
      /\ new.level = old.level /\ new.x = old.x
  BY DEF SameTerms
<1>2. /\ Recorded(old.x, TrailRows, old.p, old.cart, old.level)'
      /\ Covered(old.p, old.cart, old.m, old.level)'
  BY WarrantStays
<1> QED
  BY <1>1, <1>2

\* What a handler that is about to insert a row holds is warranted.
LEMMA ProposerIsWarranted ==
  ASSUME IInv, NEW h \in Proposers, proposing[h].pc \in {"request", "mint"}
  PROVE  /\ proposing[h].m \in Mandates /\ proposing[h].x \in Actions
         /\ Recorded(proposing[h].x, TrailRows, proposing[h].p, proposing[h].cart,
                     proposing[h].level)
         /\ Covered(proposing[h].p, proposing[h].cart, proposing[h].m, proposing[h].level)
         /\ proposing[h].pc = "mint" => proposing[h].level = 1
<1>1. ProposeKnows(h)
  BY DEF IInv
<1>2. proposing[h].pc \in ProposeSteps /\ proposing[h].pc \in ProposeSteps \ {"action"}
  BY DEF ProposeSteps, TrailRows
<1>3. proposing[h].level # 0 /\ (proposing[h].pc = "mint" => proposing[h].level = 1)
  BY <1>1 DEF ProposeKnows
<1> QED
  BY <1>1, <1>2, <1>3 DEF ProposeKnows

LEMMA RequestRow ==
  ASSUME IInv, NEW q \in Requests, request[q] # None
  PROVE  /\ request[q] \in Request
         /\ request[q].m \in Mandates /\ request[q].x \in Actions
         /\ Recorded(request[q].x, TrailRows, request[q].p, request[q].cart,
                     request[q].level)
         /\ Covered(request[q].p, request[q].cart, request[q].m, request[q].level)
<1>1. request[q] \in Request
  BY DEF IInv, TypeInvariant
<1>2. request[q].m \in Mandates /\ request[q].x \in Actions
  BY <1>1 DEF Request
<1> QED
  BY <1>1, <1>2 DEF IInv, EveryRequestIsWarranted

LEMMA AuthzRow ==
  ASSUME IInv, NEW a \in Auths, authz[a] # None
  PROVE  /\ authz[a] \in Authorization
         /\ authz[a].m \in Mandates /\ authz[a].x \in Actions
         /\ Recorded(authz[a].x, TrailRows, authz[a].p, authz[a].cart, authz[a].level)
         /\ Covered(authz[a].p, authz[a].cart, authz[a].m, authz[a].level)
<1>1. authz[a] \in Authorization
  BY DEF IInv, TypeInvariant
<1>2. authz[a].m \in Mandates /\ authz[a].x \in Actions
  BY <1>1 DEF Authorization
<1> QED
  BY <1>1, <1>2 DEF IInv, EveryAuthorizationIsWarranted

\* Every request stays warranted, and a new one is.
LEMMA RequestsStayWarranted ==
  ASSUME IInv, [Next]_vars
  PROVE  EveryRequestIsWarranted'
<1> SUFFICES ASSUME NEW q \in Requests, request'[q] # None
             PROVE  /\ Recorded(request[q].x, TrailRows, request[q].p, request[q].cart,
                                request[q].level)'
                    /\ Covered(request[q].p, request[q].cart, request[q].m, request[q].level)'
  BY DEF EveryRequestIsWarranted
<1>1. RequestStep
  BY RequestsGrow
<1>2. CASE request[q] # None
  <2>1. SameTerms(request[q], request'[q])
    BY <1>1, <1>2 DEF RequestStep, RequestKept
  <2>2. PICK old, new : old = request[q] /\ new = request'[q]
    OBVIOUS
  <2> QED
    BY <1>2, <2>1, <2>2, RequestRow, KeptRowStaysWarranted
<1>3. CASE request[q] = None
  <2>1. PICK h \in Proposers : ProposeAt(h, "request") /\ SameTerms(proposing[h], request'[q])
    BY <1>1, <1>3 DEF RequestStep, RequestFrom
  <2>2. PICK old, new : old = proposing[h] /\ new = request'[q]
    OBVIOUS
  <2> QED
    BY <2>1, <2>2, ProposerIsWarranted, KeptRowStaysWarranted DEF ProposeAt
<1> QED
  BY <1>2, <1>3

\* Every authorization stays warranted, and a new one is.
LEMMA AuthorizationsStayWarranted ==
  ASSUME IInv, [Next]_vars
  PROVE  EveryAuthorizationIsWarranted'
<1> SUFFICES ASSUME NEW a \in Auths, authz'[a] # None
             PROVE  /\ Recorded(authz[a].x, TrailRows, authz[a].p, authz[a].cart,
                                authz[a].level)'
                    /\ Covered(authz[a].p, authz[a].cart, authz[a].m, authz[a].level)'
  BY DEF EveryAuthorizationIsWarranted
<1>1. AuthzStep
  BY AuthzGrow
<1>2. CASE authz[a] # None
  <2>1. SameTerms(authz[a], authz'[a])
    BY <1>1, <1>2 DEF AuthzStep, AuthzKept
  <2>2. PICK old, new : old = authz[a] /\ new = authz'[a]
    OBVIOUS
  <2> QED
    BY <1>2, <2>1, <2>2, AuthzRow, KeptRowStaysWarranted
<1>3. ASSUME NEW h \in Proposers, ProposeAt(h, "mint"), SameTerms(proposing[h], authz'[a])
      PROVE  /\ Recorded(authz[a].x, TrailRows, authz[a].p, authz[a].cart,
                         authz[a].level)'
             /\ Covered(authz[a].p, authz[a].cart, authz[a].m, authz[a].level)'
  <2>1. PICK old, new : old = proposing[h] /\ new = authz'[a]
    OBVIOUS
  <2> QED
    BY <1>3, <2>1, ProposerIsWarranted, KeptRowStaysWarranted DEF ProposeAt
<1>4. ASSUME NEW h \in Answerers, AnswerAt(h, "mint"),
             SameTerms(request[answering[h].q], authz'[a])
      PROVE  /\ Recorded(authz[a].x, TrailRows, authz[a].p, authz[a].cart,
                         authz[a].level)'
             /\ Covered(authz[a].p, authz[a].cart, authz[a].m, authz[a].level)'
  <2>1. answering[h].q \in Requests /\ request[answering[h].q] # None
    BY <1>4, AnswererFields DEF IInv, AnswerAt, AnswerSteps
  <2>2. PICK old, new : old = request[answering[h].q] /\ new = authz'[a]
    OBVIOUS
  <2> QED
    BY <1>4, <2>1, <2>2, RequestRow, KeptRowStaysWarranted
<1> QED
  BY <1>1, <1>2, <1>3, <1>4 DEF AuthzStep, AuthzFrom

\* Whoever may answer a request goes on being its operator or its buyer.
LEMMA MayAnswerStays ==
  ASSUME RequestStep, NEW q \in Requests, request[q] # None, NEW by, MayAnswer(by, q)
  PROVE  MayAnswer(by, q)'
<1>1. request'[q].cart = request[q].cart
  BY DEF RequestStep, RequestKept, SameTerms
<1> QED
  BY <1>1 DEF MayAnswer

\* Consent: what a proposer mints is level 1, and what an approver mints carries
\* somebody who may answer.
LEMMA ConsentStays ==
  ASSUME IInv, [Next]_vars
  PROVE  ConsentAboveLevelOne'
<1> SUFFICES ASSUME NEW a \in Auths, authz'[a] # None
             PROVE  \/ /\ authz'[a].by = None
                       /\ authz'[a].p.amount <= 100000
                       /\ authz'[a].p.merchant = TrustedMerchant
                    \/ authz'[a].by = Operator
                    \/ authz'[a].by # None /\ authz'[a].by = authz'[a].cart
  BY DEF ConsentAboveLevelOne
<1>1. AuthzStep
  BY AuthzGrow
<1>2. CASE authz[a] # None
  <2>1. SameTerms(authz[a], authz'[a]) /\ authz'[a].by = authz[a].by
    BY <1>1, <1>2 DEF AuthzStep, AuthzKept
  <2> QED
    BY <1>2, <2>1 DEF IInv, ConsentAboveLevelOne, SameTerms
<1>3. ASSUME NEW h \in Proposers, ProposeAt(h, "mint"),
             SameTerms(proposing[h], authz'[a]), authz'[a].by = None
      PROVE  /\ authz'[a].p.amount <= 100000
             /\ authz'[a].p.merchant = TrustedMerchant
  <2>1. /\ proposing[h].level = 1
        /\ Covered(proposing[h].p, proposing[h].cart, proposing[h].m, proposing[h].level)
    BY <1>3, ProposerIsWarranted DEF ProposeAt
  <2> QED
    BY <1>3, <2>1 DEF Covered, SameTerms
<1>4. ASSUME NEW h \in Answerers, AnswerAt(h, "mint"),
             SameTerms(request[answering[h].q], authz'[a]),
             authz'[a].by = answering[h].by
      PROVE  \/ authz'[a].by = Operator
             \/ authz'[a].by # None /\ authz'[a].by = authz'[a].cart
  <2>1. MayAnswer(answering[h].by, answering[h].q)
    BY <1>4 DEF IInv, AnswerKnows, AnswerAt, AnswerSteps
  <2> QED
    BY <1>4, <2>1 DEF MayAnswer, SameTerms
<1> QED
  BY <1>1, <1>2, <1>3, <1>4 DEF AuthzStep, AuthzFrom

\* An authorization minted for a request goes on being that request's.
LEMMA NamedStays ==
  ASSUME AuthzStep, RequestStep,
         NEW q \in Requests, request[q] # None,
         NEW a \in Auths, authz[a] # None,
         authz[a].x = request[q].x, authz[a].m = request[q].m
  PROVE  /\ authz'[a] # None
         /\ authz'[a].x = request'[q].x /\ authz'[a].m = request'[q].m
BY DEF AuthzStep, AuthzKept, RequestStep, RequestKept, SameTerms

\* Requests name authorizations of their own.
LEMMA RequestsGoOnNaming ==
  ASSUME IInv, [Next]_vars
  PROVE  RequestsNameTheirOwn'
<1> SUFFICES ASSUME NEW q \in Requests, request'[q] # None
             PROVE  IF request'[q].status = "APPROVED"
                    THEN /\ request'[q].a # None /\ authz'[request'[q].a] # None
                         /\ authz'[request'[q].a].x = request'[q].x
                         /\ authz'[request'[q].a].m = request'[q].m
                    ELSE request'[q].a = None
  BY DEF RequestsNameTheirOwn
<1>1. RequestStep /\ AuthzStep
  BY RequestsGrow, AuthzGrow
<1>2. CASE request[q] = None
  BY <1>1, <1>2 DEF RequestStep, RequestFrom
<1>3. CASE request[q] # None /\ request'[q] = request[q]
  <2>1. CASE request[q].status = "APPROVED"
    <3>1. /\ request[q].a # None /\ authz[request[q].a] # None
          /\ authz[request[q].a].x = request[q].x
          /\ authz[request[q].a].m = request[q].m
      BY <1>3, <2>1 DEF IInv, RequestsNameTheirOwn
    <3>2. request[q].a \in Auths
      BY <1>3, <3>1, RequestRow DEF Request
    <3> QED
      BY <1>1, <1>3, <2>1, <3>1, <3>2, NamedStays
  <2>2. CASE request[q].status # "APPROVED"
    BY <1>3, <2>2 DEF IInv, RequestsNameTheirOwn
  <2> QED
    BY <2>1, <2>2
<1>4. CASE request[q] # None /\ request'[q].status = "REJECTED" /\ request'[q].a = None
  BY <1>4
<1>5. ASSUME request[q] # None, NEW h \in Answerers,
             AnswerAt(h, "close"), answering[h].q = q,
             request'[q].status = "APPROVED", request'[q].a = answering[h].a
      PROVE  /\ request'[q].a # None /\ authz'[request'[q].a] # None
             /\ authz'[request'[q].a].x = request'[q].x
             /\ authz'[request'[q].a].m = request'[q].m
  <2>1. /\ answering[h].a \in Auths /\ authz[answering[h].a] # None
        /\ authz[answering[h].a].x = request[q].x
        /\ authz[answering[h].a].m = request[q].m
    BY <1>5, CloserFields DEF AnswerAt
  <2>2. answering[h].a # None
    BY <2>1
  <2> QED
    BY <1>1, <1>5, <2>1, <2>2, NamedStays
<1> QED
  BY <1>1, <1>2, <1>3, <1>4, <1>5 DEF RequestStep, RequestAnswered

\* Two rows that act on one action carry its proposal and cart.
LEMMA SameActionSameTerms ==
  ASSUME IInv, NEW q \in Requests, request[q] # None,
         NEW a \in Auths, authz[a] # None, authz[a].x = request[q].x
  PROVE  authz[a].p = request[q].p /\ authz[a].cart = request[q].cart
BY AuthzRow, RequestRow DEF Recorded

\* Whatever is handed out was issued for the proposal it answers.
LEMMA AnswersGoOnFitting ==
  ASSUME IInv, [Next]_vars
  PROVE  told' \subseteq Answer /\ AnswersFit'
<1>0. told \subseteq Answer /\ TypeInvariant
  BY DEF IInv, TypeInvariant
<1>1. AuthzStep /\ RequestStep
  BY AuthzGrow, RequestsGrow
<1>2. ASSUME NEW t \in told
      PROVE  authz'[t.a] # None /\ authz'[t.a].p = t.p /\ authz'[t.a].cart = t.cart
  <2>1. t.a \in Auths
    BY <1>0 DEF Answer
  <2>2. authz[t.a] # None /\ authz[t.a].p = t.p /\ authz[t.a].cart = t.cart
    BY DEF IInv, AnswersFit
  <2> QED
    BY <1>1, <2>1, <2>2 DEF AuthzStep, AuthzKept, SameTerms
<1>3. ASSUME NEW p \in Proposals, NEW cart \in Carts \cup {None}, NEW a \in Auths,
             authz'[a] # None, authz'[a].p = p, authz'[a].cart = cart, Tell(p, cart, a)
      PROVE  told' \subseteq Answer /\ AnswersFit'
  BY <1>0, <1>2, <1>3 DEF Tell, Answer, AnswersFit
<1>4. CASE told' = told
  BY <1>0, <1>2, <1>4 DEF AnswersFit
<1>5. ASSUME NEW h \in Proposers, FindActive(h)
      PROVE  told' \subseteq Answer /\ AnswersFit'
  <2>1. ProposeKnows(h) /\ proposing[h].pc \in ProposeSteps
    BY <1>5 DEF FindActive, ProposeAt, ProposeSteps, TrailRows, IInv
  <2>2. PICK p \in Proposals, cart \in Carts \cup {None} :
          p = proposing[h].p /\ cart = proposing[h].cart
    BY <1>0, <2>1, ProposerFields
  <2>3. CASE told' # told
    <3>1. PICK a \in ActiveFor(p, cart) : Tell(p, cart, a)
      BY <1>5, <2>2, <2>3 DEF FindActive
    <3>2. a \in Auths /\ authz[a] # None /\ authz[a].p = p /\ authz[a].cart = cart
      BY <3>1 DEF ActiveFor
    <3>3. authz'[a] # None /\ authz'[a].p = p /\ authz'[a].cart = cart
      BY <1>1, <3>2 DEF AuthzStep, AuthzKept, SameTerms
    <3> QED
      BY <1>3, <3>1, <3>2, <3>3
  <2> QED
    BY <1>4, <2>3
<1>6. ASSUME NEW h \in Proposers, Mint(h)
      PROVE  told' \subseteq Answer /\ AnswersFit'
  <2>1. ProposeKnows(h) /\ proposing[h].pc \in ProposeSteps
    BY <1>6 DEF Mint, ProposeAt, ProposeSteps, TrailRows, IInv
  <2>2. PICK p \in Proposals, cart \in Carts \cup {None} :
          p = proposing[h].p /\ cart = proposing[h].cart
    BY <1>0, <2>1, ProposerFields
  <2>3. PICK a \in Auths :
          /\ authz'[a] # None /\ authz'[a].p = p /\ authz'[a].cart = cart
          /\ told' = told \cup {[p |-> p, cart |-> cart, a |-> a]}
    BY <1>6, <2>2, MintFacts
  <2> QED
    BY <1>3, <2>3 DEF Tell
<1>7. ASSUME NEW q \in Requests, request[q] # None, NEW a \in Auths, authz[a] # None,
             authz[a].x = request[q].x, Tell(request[q].p, request[q].cart, a)
      PROVE  told' \subseteq Answer /\ AnswersFit'
  <2>1. authz[a].p = request[q].p /\ authz[a].cart = request[q].cart
    BY <1>7, SameActionSameTerms
  <2>2. PICK p \in Proposals, cart \in Carts \cup {None} :
          p = request[q].p /\ cart = request[q].cart
    BY <1>7, RequestRow DEF Request
  <2>3. authz'[a] # None /\ authz'[a].p = p /\ authz'[a].cart = cart
    BY <1>1, <1>7, <2>1, <2>2 DEF AuthzStep, AuthzKept, SameTerms
  <2> QED
    BY <1>3, <1>7, <2>2, <2>3
<1>8. ASSUME NEW h \in Answerers, CloseApproved(h)
      PROVE  told' \subseteq Answer /\ AnswersFit'
  <2>1. AnswerAt(h, "close")
        /\ Tell(request[answering[h].q].p, request[answering[h].q].cart, answering[h].a)
    BY <1>8 DEF CloseApproved
  <2>2. /\ answering[h].q \in Requests /\ request[answering[h].q] # None
        /\ answering[h].a \in Auths /\ authz[answering[h].a] # None
        /\ authz[answering[h].a].x = request[answering[h].q].x
    BY <2>1, CloserFields DEF AnswerAt
  <2> QED
    BY <1>7, <2>1, <2>2
<1>9. ASSUME NEW h \in Answerers, NEW q \in Requests, NEW by, BeginApprove(h, q, by)
      PROVE  told' \subseteq Answer /\ AnswersFit'
  <2>1. CASE told' # told
    <3>1. /\ request[q] # None /\ request[q].status = "APPROVED"
          /\ Tell(request[q].p, request[q].cart, request[q].a)
      BY <1>9, <2>1 DEF BeginApprove
    <3>2. /\ request[q].a # None /\ authz[request[q].a] # None
          /\ authz[request[q].a].x = request[q].x
      BY <3>1 DEF IInv, RequestsNameTheirOwn
    <3>3. request[q].a \in Auths
      BY <3>1, <3>2, RequestRow DEF Request
    <3> QED
      BY <1>7, <3>1, <3>2, <3>3
  <2> QED
    BY <1>4, <2>1
<1> QED
  BY <1>4, <1>5, <1>6, <1>8, <1>9, WhoWrites

------------------------------------------------------------------------------
\* What the handlers know.

ProposersKnow ==
  /\ proposing \in [Proposers -> Proposing]
  /\ \A h \in Proposers : ProposeKnows(h)

AnswerersKnow ==
  /\ answering \in [Answerers -> Answering]
  /\ \A h \in Answerers : AnswerKnows(h)

\* A Propose handler that a step leaves alone knows what it knew.
LEMMA ProposerUndisturbed ==
  ASSUME IInv, [Next]_vars, NEW h \in Proposers, proposing'[h] = proposing[h]
  PROVE  ProposeKnows(h)'
<1>1. MandatesKept /\ TrailKept /\ ProposeKnows(h)
  BY MandatesGrow, TrailsGrow DEF IInv
<1>2. PICK w : w = proposing[h] /\ w = proposing'[h]
  OBVIOUS
<1>3. ASSUME NEW rows, w.x \in Actions, Recorded(w.x, rows, w.p, w.cart, w.level)
      PROVE  Recorded(w.x, rows, w.p, w.cart, w.level)'
  BY <1>1, <1>3, RecordedStays
<1>4. ASSUME w.m \in Mandates, Covered(w.p, w.cart, w.m, w.level)
      PROVE  Covered(w.p, w.cart, w.m, w.level)'
  BY <1>1, <1>4, CoveredStays
<1>5. w.pc \in {"risk", "evaluation", "decision", "findPending", "request",
                "findActive", "mint"} => w.x \in Actions
  BY <1>1, <1>2 DEF ProposeKnows, ProposeSteps, TrailRows
<1>6. w.pc \in ProposeSteps => w.p \in Proposals /\ w.m \in Mandates
  BY <1>1, <1>2 DEF ProposeKnows
<1> QED
  BY <1>1, <1>2, <1>3, <1>4, <1>5, <1>6 DEF ProposeKnows

\* A step of one handler g keeps what all know if g knows what it should.
LEMMA OneProposerMoves ==
  ASSUME IInv, [Next]_vars, NEW g \in Proposers, NEW w \in Proposing,
         proposing' = [proposing EXCEPT ![g] = w], ProposeKnows(g)'
  PROVE  ProposersKnow'
<1>1. proposing \in [Proposers -> Proposing]
  BY DEF IInv, TypeInvariant
<1>2. \A h \in Proposers \ {g} : proposing'[h] = proposing[h]
  BY <1>1
<1> QED
  BY <1>1, <1>2, ProposerUndisturbed DEF ProposersKnow

\* A handler that has ended knows nothing.
LEMMA ProposerEnds ==
  ASSUME IInv, [Next]_vars, NEW g \in Proposers, NEW how \in {"idle", "refused"},
         EndPropose(g, how)
  PROVE  ProposersKnow'
<1> DEFINE w == ProposeEnd(how)
<1>1. w \in Proposing /\ w.pc = how
  BY DEF ProposeEnd, Proposing
<1>2. proposing' = [proposing EXCEPT ![g] = w]
  BY DEF EndPropose
<1>3. proposing'[g] = w
  BY <1>2 DEF IInv, TypeInvariant
<1> HIDE DEF w
<1>4. w.pc \notin ProposeSteps
  BY <1>1 DEF ProposeSteps, TrailRows
<1>5. ProposeKnows(g)'
  BY <1>3, <1>4 DEF ProposeKnows, ProposeSteps, TrailRows
<1> QED
  BY <1>1, <1>2, <1>5, OneProposerMoves

\* The rows a handler's action has when the handler has got to pc.
RowsAt(pc) ==
  CASE pc = "risk" -> {"action"}
    [] pc = "evaluation" -> {"action", "risk"}
    [] pc = "decision" -> {"action", "risk", "evaluation"}
    [] OTHER -> TrailRows

LEMMA ProposerHolds ==
  ASSUME IInv, NEW g \in Proposers, proposing[g].pc \in ProposeSteps \ {"action"}
  PROVE  /\ proposing[g] \in Proposing
         /\ proposing[g].p \in Proposals /\ proposing[g].m \in Mandates
         /\ proposing[g].x \in Actions
         /\ Recorded(proposing[g].x, RowsAt(proposing[g].pc), proposing[g].p,
                     proposing[g].cart, proposing[g].level)
         /\ proposing[g].level # 0 =>
              Covered(proposing[g].p, proposing[g].cart, proposing[g].m, proposing[g].level)
<1>1. ProposeKnows(g) /\ TypeInvariant
  BY DEF IInv
<1>2. proposing[g] \in Proposing
  BY <1>1 DEF TypeInvariant
<1>3. Recorded(proposing[g].x, RowsAt(proposing[g].pc), proposing[g].p,
               proposing[g].cart, proposing[g].level)
  BY <1>1 DEF ProposeKnows, RowsAt, ProposeSteps, TrailRows
<1> QED
  BY <1>1, <1>2, <1>3 DEF ProposeKnows

\* A handler that goes on takes what it holds along.
LEMMA ProposerGoesOn ==
  ASSUME IInv, [Next]_vars, NEW g \in Proposers,
         proposing[g].pc \in ProposeSteps \ {"action"},
         NEW pc \in ProposeSteps \ {"action", "risk"}, ProposeGoto(g, pc),
         RowsAt(pc) \subseteq trail'[proposing[g].x].rows,
         pc \in {"findPending", "request"} => proposing[g].level \in {2, 3},
         pc \in {"findActive", "mint"} => proposing[g].level = 1
  PROVE  ProposersKnow'
<1>1. PICK v : v = proposing[g]
  OBVIOUS
<1>2. /\ v \in Proposing /\ v.p \in Proposals /\ v.m \in Mandates /\ v.x \in Actions
      /\ Recorded(v.x, RowsAt(v.pc), v.p, v.cart, v.level)
      /\ v.level # 0 => Covered(v.p, v.cart, v.m, v.level)
  BY <1>1, ProposerHolds
<1> DEFINE w == [v EXCEPT !.pc = pc]
<1>3. /\ w \in Proposing
      /\ w.pc = pc /\ w.p = v.p /\ w.cart = v.cart /\ w.m = v.m
      /\ w.x = v.x /\ w.level = v.level
  BY <1>2 DEF Proposing
<1>4. proposing' = [proposing EXCEPT ![g] = w]
  BY <1>1 DEF ProposeGoto
<1>5. proposing'[g] = w
  BY <1>4 DEF IInv, TypeInvariant
<1> HIDE DEF w
<1>6. MandatesKept /\ TrailKept
  BY MandatesGrow, TrailsGrow DEF IInv
<1>7. v.level # 0 => Covered(v.p, v.cart, v.m, v.level)'
  BY <1>2, <1>6, CoveredStays
<1>8. Recorded(v.x, RowsAt(pc), v.p, v.cart, v.level)'
  <2>1. /\ trail'[v.x] # None
        /\ trail'[v.x].p = v.p /\ trail'[v.x].cart = v.cart /\ trail'[v.x].level = v.level
    BY <1>2, <1>6 DEF Recorded, TrailKept
  <2> QED
    BY <1>1, <2>1 DEF Recorded
<1>9. /\ v.level # 0 => Covered(w.p, w.cart, w.m, w.level)'
      /\ Recorded(w.x, RowsAt(pc), w.p, w.cart, w.level)'
  BY <1>3, <1>7, <1>8
<1>10. ProposeKnows(g)'
  BY <1>1, <1>2, <1>3, <1>5, <1>9 DEF ProposeKnows, RowsAt, ProposeSteps, TrailRows
<1> QED
  BY <1>3, <1>4, <1>10, OneProposerMoves

LEMMA BeginProposeKnows ==
  ASSUME IInv, [Next]_vars, NEW h \in Proposers, NEW p \in Proposals,
         NEW cart \in Carts \cup {None}, NEW m \in Mandates, BeginPropose(h, p, cart, m)
  PROVE  ProposersKnow'
<1>1. PICK sellable \in BOOLEAN :
        proposing' = [proposing EXCEPT ![h] =
          [pc |-> "action", p |-> p, cart |-> cart, m |-> m, x |-> None,
           level |-> Evaluate(p, cart, mandate[m], live,
                              Score(p, mandate[m].maximum), sellable)]]
  BY DEF BeginPropose
<1>2. PICK level : level = Evaluate(p, cart, mandate[m], live,
                                    Score(p, mandate[m].maximum), sellable)
  OBVIOUS
<1>3. level \in Levels \cup {0}
  BY <1>2, EvaluateRange
<1>4. level # 0 => Covered(p, cart, m, level)
  <2>1. live \in Configs /\ mandate[m] # None
    BY DEF IInv, TypeInvariant, SettingsTypeOK, BeginPropose
  <2> QED
    BY <1>2, <2>1, EvaluatePasses DEF Covered
<1>5. level # 0 => Covered(p, cart, m, level)'
  BY <1>4, MandatesGrow, CoveredStays DEF IInv
<1> DEFINE w == [pc |-> "action", p |-> p, cart |-> cart, m |-> m, x |-> None,
                 level |-> level]
<1>6. w \in Proposing
  BY <1>3 DEF Proposing, ProposeSteps, TrailRows
<1>7. proposing' = [proposing EXCEPT ![h] = w] /\ proposing'[h] = w
  BY <1>1, <1>2 DEF IInv, TypeInvariant
<1>8. ProposeKnows(h)'
  BY <1>5, <1>7 DEF ProposeKnows, ProposeSteps, TrailRows
<1> HIDE DEF w
<1> QED
  BY <1>6, <1>7, <1>8, OneProposerMoves

LEMMA SaveActionKnows ==
  ASSUME IInv, [Next]_vars, NEW h \in Proposers, SaveAction(h)
  PROVE  ProposersKnow'
<1>1. ProposeKnows(h) /\ TypeInvariant /\ proposing[h].pc = "action"
  BY DEF IInv, SaveAction, ProposeAt
<1>2. PICK v : v = proposing[h]
  OBVIOUS
<1>3. PICK x \in Actions :
        /\ trail'[x] = [p |-> v.p, cart |-> v.cart, rows |-> {"action"}, level |-> v.level]
        /\ proposing' = [proposing EXCEPT ![h] =
             [pc |-> "risk", p |-> v.p, cart |-> v.cart, m |-> v.m, x |-> x,
              level |-> v.level]]
  BY <1>1, <1>2, ActionFacts
<1>4. trail'[x] # None
  <2>1. trail' \in [Actions -> Trail \cup {None}]
    BY <1>1, ActionFacts
  <2>2. [p |-> v.p, cart |-> v.cart, rows |-> {"action"}, level |-> v.level] \in Trail
    BY <1>1, <1>2, ProposerFields DEF Trail, TrailRows, ProposeSteps
  <2> QED
    BY <1>3, <2>2
<1>5. Recorded(x, {"action"}, v.p, v.cart, v.level)'
  BY <1>3, <1>4 DEF Recorded
<1>6. v.p \in Proposals /\ v.m \in Mandates /\ v.cart \in Carts \cup {None}
      /\ v.level \in Levels \cup {0}
  BY <1>1, <1>2, ProposerFields DEF ProposeSteps, TrailRows
<1>7. v.level # 0 => Covered(v.p, v.cart, v.m, v.level)'
  <2>1. v.level # 0 => Covered(v.p, v.cart, v.m, v.level)
    BY <1>1, <1>2 DEF ProposeKnows, ProposeSteps, TrailRows
  <2> QED
    BY <1>6, <2>1, MandatesGrow, CoveredStays DEF IInv
<1> DEFINE w == [pc |-> "risk", p |-> v.p, cart |-> v.cart, m |-> v.m, x |-> x,
                 level |-> v.level]
<1>8. w \in Proposing
  BY <1>6 DEF Proposing, ProposeSteps, TrailRows
<1>9. proposing' = [proposing EXCEPT ![h] = w] /\ proposing'[h] = w
  BY <1>1, <1>3 DEF TypeInvariant
<1>10. ProposeKnows(h)'
  BY <1>5, <1>6, <1>7, <1>9 DEF ProposeKnows, ProposeSteps, TrailRows
<1> HIDE DEF w
<1> QED
  BY <1>8, <1>9, <1>10, OneProposerMoves

\* A trail row that is saved completes the rows the next step counts on.
LEMMA SaveTrailRowKnows ==
  ASSUME IInv, [Next]_vars, NEW h \in Proposers,
         SaveRisk(h) \/ SaveEvaluation(h) \/ SaveDecision(h)
  PROVE  ProposersKnow'
<1>1. PICK v : v = proposing[h]
  OBVIOUS
<1>2. v.pc \in {"risk", "evaluation", "decision"}
  BY <1>1 DEF SaveRisk, SaveEvaluation, SaveDecision, SaveTrailRow, ProposeAt
<1>3. SaveTrailRow(h, v.pc)
  BY <1>1 DEF SaveRisk, SaveEvaluation, SaveDecision, SaveTrailRow, ProposeAt
<1>4. v.pc \in ProposeSteps \ {"action"} /\ v.pc \in TrailRows
  BY <1>2 DEF ProposeSteps, TrailRows
<1>5. /\ v \in Proposing /\ v.x \in Actions
      /\ Recorded(v.x, RowsAt(v.pc), v.p, v.cart, v.level)
  BY <1>1, <1>4, ProposerHolds
<1>6. trail'[v.x].rows = trail[v.x].rows \cup {v.pc}
  BY <1>1, <1>3, <1>4, <1>5, TrailRowFacts DEF IInv, Recorded
<1>7. RowsAt(v.pc) \cup {v.pc} \subseteq trail'[v.x].rows
  BY <1>5, <1>6 DEF Recorded
<1>8. CASE v.pc = "risk" /\ ProposeGoto(h, "evaluation")
  <2>1. RowsAt("evaluation") \subseteq trail'[v.x].rows
    BY <1>7, <1>8 DEF RowsAt
  <2> QED
    BY <1>1, <1>4, <1>8, <2>1, ProposerGoesOn DEF ProposeSteps, TrailRows
<1>9. CASE v.pc = "evaluation" /\ ProposeGoto(h, "decision")
  <2>1. RowsAt("decision") \subseteq trail'[v.x].rows
    BY <1>7, <1>9 DEF RowsAt
  <2> QED
    BY <1>1, <1>4, <1>9, <2>1, ProposerGoesOn DEF ProposeSteps, TrailRows
<1>10. CASE v.pc = "decision" /\ v.level >= 2 /\ ProposeGoto(h, "findPending")
  <2>1. RowsAt("findPending") \subseteq trail'[v.x].rows
    BY <1>7, <1>10 DEF RowsAt, TrailRows
  <2>2. v.level \in {2, 3}
    BY <1>5, <1>10 DEF Proposing, Levels
  <2> QED
    BY <1>1, <1>4, <1>10, <2>1, <2>2, ProposerGoesOn DEF ProposeSteps, TrailRows
<1>11. CASE v.pc = "decision" /\ v.level # 0 /\ ~(v.level >= 2) /\ ProposeGoto(h, "findActive")
  <2>1. RowsAt("findActive") \subseteq trail'[v.x].rows
    BY <1>7, <1>11 DEF RowsAt, TrailRows
  <2>2. v.level = 1
    BY <1>5, <1>11 DEF Proposing, Levels
  <2> QED
    BY <1>1, <1>4, <1>11, <2>1, <2>2, ProposerGoesOn DEF ProposeSteps, TrailRows
<1>12. CASE EndPropose(h, "idle")
  BY <1>12, ProposerEnds
<1>13. CASE SaveRisk(h)
  BY <1>1, <1>8, <1>13 DEF SaveRisk, SaveTrailRow, ProposeAt
<1>14. CASE SaveEvaluation(h)
  BY <1>1, <1>9, <1>14 DEF SaveEvaluation, SaveTrailRow, ProposeAt
<1>15. CASE SaveDecision(h)
  BY <1>1, <1>10, <1>11, <1>12, <1>15 DEF SaveDecision, SaveTrailRow, ProposeAt
<1> QED
  BY <1>13, <1>14, <1>15

\* After the trail is complete a handler only looks for rows of others.
LEMMA SearchKnows ==
  ASSUME IInv, [Next]_vars, NEW h \in Proposers,
         FindPending(h) \/ FindActive(h) \/ SaveRequest(h) \/ Mint(h) \/ BreakPropose(h)
  PROVE  ProposersKnow'
<1>1. CASE EndPropose(h, "idle") \/ EndPropose(h, "refused")
  BY <1>1, ProposerEnds
<1>2. ASSUME NEW pc \in {"request", "mint"}, ProposeGoto(h, pc),
             proposing[h].pc = IF pc = "request" THEN "findPending" ELSE "findActive"
      PROVE  ProposersKnow'
  <2>1. proposing[h].pc \in ProposeSteps \ {"action"}
        /\ pc \in ProposeSteps \ {"action", "risk"}
    BY <1>2 DEF ProposeSteps, TrailRows
  <2>2. Recorded(proposing[h].x, RowsAt(proposing[h].pc), proposing[h].p,
                 proposing[h].cart, proposing[h].level)
        /\ proposing[h].x \in Actions
    BY <2>1, ProposerHolds
  <2>3. TrailKept
    BY TrailsGrow
  <2>4. TrailRows \subseteq trail'[proposing[h].x].rows
    BY <1>2, <2>2, <2>3 DEF Recorded, TrailKept, RowsAt
  <2>5. RowsAt(pc) = TrailRows
    BY <1>2 DEF RowsAt
  <2>6. IF pc = "request" THEN proposing[h].level \in {2, 3} ELSE proposing[h].level = 1
    BY <1>2 DEF IInv, ProposeKnows
  <2> QED
    BY <1>2, <2>1, <2>4, <2>5, <2>6, ProposerGoesOn
<1>3. CASE FindPending(h)
  BY <1>1, <1>2, <1>3 DEF FindPending, ProposeAt
<1>4. CASE FindActive(h)
  BY <1>1, <1>2, <1>4 DEF FindActive, ProposeAt
<1>5. CASE SaveRequest(h) \/ Mint(h) \/ BreakPropose(h)
  BY <1>1, <1>5 DEF SaveRequest, Mint, BreakPropose
<1> QED
  BY <1>3, <1>4, <1>5

\* An answering handler that a step leaves alone knows what it knew.
LEMMA AnswererUndisturbed ==
  ASSUME IInv, [Next]_vars, NEW h \in Answerers, answering'[h] = answering[h]
  PROVE  AnswerKnows(h)'
<1>1. AnswerKnows(h) /\ TypeInvariant /\ RequestStep /\ AuthzStep
  BY RequestsGrow, AuthzGrow DEF IInv
<1>2. PICK w : w = answering[h] /\ w = answering'[h]
  OBVIOUS
<1>3. CASE w.pc \in AnswerSteps
  <2>1. w.q \in Requests /\ request[w.q] # None /\ MayAnswer(w.by, w.q)
    BY <1>1, <1>2, <1>3 DEF AnswerKnows
  <2>2. request'[w.q] # None /\ MayAnswer(w.by, w.q)'
    BY <1>1, <2>1, MayAnswerStays DEF RequestStep, RequestKept
  <2>3. w.pc = "close" =>
          /\ w.a \in Auths /\ authz'[w.a] # None
          /\ authz'[w.a].x = request'[w.q].x /\ authz'[w.a].m = request'[w.q].m
    <3>1. w.pc = "close" =>
            /\ w.a \in Auths /\ authz[w.a] # None
            /\ authz[w.a].x = request[w.q].x /\ authz[w.a].m = request[w.q].m
      BY <1>1, <1>2 DEF AnswerKnows
    <3> QED
      BY <1>1, <2>1, <3>1, NamedStays
  <2> QED
    BY <1>2, <2>1, <2>2, <2>3 DEF AnswerKnows
<1>4. CASE w.pc \notin AnswerSteps
  BY <1>2, <1>4 DEF AnswerKnows, AnswerSteps
<1> QED
  BY <1>3, <1>4

LEMMA OneAnswererMoves ==
  ASSUME IInv, [Next]_vars, NEW g \in Answerers, NEW w \in Answering,
         answering' = [answering EXCEPT ![g] = w], AnswerKnows(g)'
  PROVE  AnswerersKnow'
<1>1. answering \in [Answerers -> Answering]
  BY DEF IInv, TypeInvariant
<1>2. \A h \in Answerers \ {g} : answering'[h] = answering[h]
  BY <1>1
<1> QED
  BY <1>1, <1>2, AnswererUndisturbed DEF AnswerersKnow

LEMMA AnswererEnds ==
  ASSUME IInv, [Next]_vars, NEW g \in Answerers, EndAnswer(g)
  PROVE  AnswerersKnow'
<1>1. AnswerEnd \in Answering /\ AnswerEnd.pc = "idle"
  BY DEF AnswerEnd, Answering
<1>2. answering' = [answering EXCEPT ![g] = AnswerEnd] /\ answering'[g] = AnswerEnd
  BY DEF EndAnswer, IInv, TypeInvariant
<1>3. AnswerKnows(g)'
  BY <1>1, <1>2 DEF AnswerKnows, AnswerSteps
<1> QED
  BY <1>1, <1>2, <1>3, OneAnswererMoves

\* A handler begins with a request that its caller may answer.
LEMMA BeginAnswerKnows ==
  ASSUME IInv, [Next]_vars, NEW h \in Answerers, NEW q \in Requests,
         NEW by \in Carts \cup {Operator, None}, request[q] # None, MayAnswer(by, q),
         NEW pc \in {"evaluate", "reject"},
         answering' = [answering EXCEPT ![h] = [pc |-> pc, q |-> q, by |-> by, a |-> None]]
  PROVE  AnswerersKnow'
<1> DEFINE w == [pc |-> pc, q |-> q, by |-> by, a |-> None]
<1>1. w \in Answering
  BY DEF Answering, AnswerSteps
<1>2. answering'[h] = w
  BY DEF IInv, TypeInvariant
<1>3. RequestStep
  BY RequestsGrow
<1>4. request'[q] # None /\ MayAnswer(by, q)'
  BY <1>3, MayAnswerStays DEF RequestStep, RequestKept
<1>5. AnswerKnows(h)'
  BY <1>2, <1>4 DEF AnswerKnows, AnswerSteps
<1> HIDE DEF w
<1>6. answering' = [answering EXCEPT ![h] = w]
  BY DEF w
<1> QED
  BY <1>1, <1>5, <1>6, OneAnswererMoves

LEMMA AnswerStepKnows ==
  ASSUME IInv, [Next]_vars, NEW h \in Answerers,
         \/ \E q \in Requests, by \in Carts \cup {Operator, None} :
              BeginApprove(h, q, by) \/ BeginReject(h, q, by)
         \/ AnswerStep(h) \/ BreakAnswer(h)
  PROVE  AnswerersKnow'
<1>0. AnswerKnows(h) /\ TypeInvariant /\ RequestStep /\ AuthzStep
  BY RequestsGrow, AuthzGrow DEF IInv
<1>1. CASE answering' = answering
  BY <1>0, <1>1, AnswererUndisturbed DEF AnswerersKnow, TypeInvariant
<1>2. CASE EndAnswer(h)
  BY <1>2, AnswererEnds
<1>3. ASSUME NEW q \in Requests, NEW by \in Carts \cup {Operator, None},
             BeginApprove(h, q, by) \/ BeginReject(h, q, by)
      PROVE  AnswerersKnow'
  BY <1>1, <1>3, BeginAnswerKnows DEF BeginApprove, BeginReject
<1>4. CASE ReEvaluate(h) /\ answering' # answering /\ ~EndAnswer(h)
  <2>1. PICK v : v = answering[h]
    OBVIOUS
  <2> DEFINE w == [v EXCEPT !.pc = "mint"]
  <2>2. answering' = [answering EXCEPT ![h] = w] /\ v.pc = "evaluate"
    BY <1>4, <2>1 DEF ReEvaluate, AnswerAt
  <2>3. v \in Answering /\ v.q \in Requests /\ request[v.q] # None /\ MayAnswer(v.by, v.q)
    BY <1>0, <2>1, <2>2 DEF TypeInvariant, AnswerKnows, AnswerSteps
  <2>4. w \in Answering /\ w.pc = "mint" /\ w.q = v.q /\ w.by = v.by
    BY <2>3 DEF Answering, AnswerSteps
  <2>5. answering'[h] = w
    BY <1>0, <2>2 DEF TypeInvariant
  <2> HIDE DEF w
  <2>6. request'[v.q] # None /\ MayAnswer(v.by, v.q)'
    BY <1>0, <2>3, MayAnswerStays DEF RequestStep, RequestKept
  <2>7. AnswerKnows(h)'
    BY <2>3, <2>4, <2>5, <2>6 DEF AnswerKnows
  <2> QED
    BY <2>2, <2>4, <2>7, OneAnswererMoves
<1>5. CASE MintApproved(h)
  <2>1. PICK v : v = answering[h]
    OBVIOUS
  <2>2. PICK a \in Auths :
          /\ authz'[a] # None
          /\ authz'[a].x = request[v.q].x /\ authz'[a].m = request[v.q].m
          /\ answering' = [answering EXCEPT ![h] =
               [pc |-> "close", q |-> v.q, by |-> v.by, a |-> a]]
    BY <1>5, <2>1, MintApprovedFacts
  <2> DEFINE w == [pc |-> "close", q |-> v.q, by |-> v.by, a |-> a]
  <2>3. v \in Answering /\ v.q \in Requests /\ request[v.q] # None /\ MayAnswer(v.by, v.q)
    BY <1>0, <1>5, <2>1 DEF TypeInvariant, AnswerKnows, AnswerSteps, MintApproved, AnswerAt
  <2>4. w \in Answering
    BY <2>3 DEF Answering, AnswerSteps
  <2>5. answering'[h] = w
    BY <1>0, <2>2 DEF TypeInvariant
  <2>6. /\ request'[v.q] # None /\ MayAnswer(v.by, v.q)'
        /\ request'[v.q].x = request[v.q].x /\ request'[v.q].m = request[v.q].m
    BY <1>0, <2>3, MayAnswerStays DEF RequestStep, RequestKept, SameTerms
  <2>7. AnswerKnows(h)'
    BY <2>2, <2>3, <2>5, <2>6 DEF AnswerKnows
  <2> HIDE DEF w
  <2>8. answering' = [answering EXCEPT ![h] = w]
    BY <2>2 DEF w
  <2> QED
    BY <2>4, <2>7, <2>8, OneAnswererMoves
<1>6. CASE CloseApproved(h) \/ CloseRejected(h) \/ BreakAnswer(h)
  BY <1>2, <1>6 DEF CloseApproved, CloseRejected, BreakAnswer
<1> QED
  BY <1>1, <1>2, <1>3, <1>4, <1>5, <1>6 DEF AnswerStep

\* Every step: handlers other than the one that moves are left alone; a restart
\* ends them all.
LEMMA HandlersKnow ==
  ASSUME IInv, [Next]_vars
  PROVE  ProposersKnow' /\ AnswerersKnow'
<1>0. proposing \in [Proposers -> Proposing] /\ answering \in [Answerers -> Answering]
  BY DEF IInv, TypeInvariant
<1>1. ASSUME proposing' = proposing
      PROVE  ProposersKnow'
  BY <1>0, <1>1, ProposerUndisturbed DEF ProposersKnow
<1>2. ASSUME answering' = answering
      PROVE  AnswerersKnow'
  BY <1>0, <1>2, AnswererUndisturbed DEF AnswerersKnow
<1>3. CASE Restart
  <2>1. ProposeEnd("idle") \in Proposing /\ ProposeEnd("idle").pc = "idle"
        /\ AnswerEnd \in Answering /\ AnswerEnd.pc = "idle"
    BY DEF ProposeEnd, Proposing, AnswerEnd, Answering
  <2>2. /\ proposing' \in [Proposers -> Proposing] /\ answering' \in [Answerers -> Answering]
        /\ \A h \in Proposers : proposing'[h].pc = "idle"
        /\ \A h \in Answerers : answering'[h].pc = "idle"
    BY <1>3, <2>1 DEF Restart
  <2>3. \A h \in Proposers : ProposeKnows(h)'
    BY <2>2 DEF ProposeKnows, ProposeSteps, TrailRows
  <2>4. \A h \in Answerers : AnswerKnows(h)'
    BY <2>2 DEF AnswerKnows, AnswerSteps
  <2> QED
    BY <2>2, <2>3, <2>4 DEF ProposersKnow, AnswerersKnow
<1>4. ASSUME NEW h \in Proposers,
             \/ \E p \in Proposals, cart \in Carts \cup {None}, m \in Mandates :
                  BeginPropose(h, p, cart, m)
             \/ ProposeStep(h) \/ BreakPropose(h)
      PROVE  ProposersKnow' /\ AnswerersKnow'
  <2>1. ProposersKnow'
    BY <1>4, BeginProposeKnows, SaveActionKnows, SaveTrailRowKnows, SearchKnows
       DEF ProposeStep
  <2>2. answering' = answering
    BY <1>4 DEF BeginPropose, ProposeStep, SaveAction, SaveRisk, SaveEvaluation,
                SaveDecision, SaveTrailRow, FindPending, SaveRequest, FindActive,
                Mint, BreakPropose
  <2> QED
    BY <1>2, <2>1, <2>2
<1>5. ASSUME NEW h \in Answerers,
             \/ \E q \in Requests, by \in Carts \cup {Operator, None} :
                  BeginApprove(h, q, by) \/ BeginReject(h, q, by)
             \/ AnswerStep(h) \/ BreakAnswer(h)
      PROVE  ProposersKnow' /\ AnswerersKnow'
  <2>1. proposing' = proposing
    BY <1>5 DEF BeginApprove, BeginReject, AnswerStep, ReEvaluate, MintApproved,
                CloseApproved, CloseRejected, BreakAnswer
  <2> QED
    BY <1>1, <1>5, <2>1, AnswerStepKnows
<1>6. CASE UNCHANGED vars
  BY <1>1, <1>2, <1>6 DEF vars
<1>7. CASE \E m \in Mandates :
             (\E t \in MandateTerms : CreateMandate(m, t)) \/ ExpireMandate(m)
  BY <1>1, <1>2, <1>7 DEF CreateMandate, ExpireMandate
<1>8. CASE SettingsNext /\ UNCHANGED <<rowVars, told, proposing, answering>>
  BY <1>1, <1>2, <1>8
<1>9. CASE \E a \in Auths : ExpireAuthorization(a) \/ UseAuthorization(a)
  BY <1>1, <1>2, <1>9 DEF ExpireAuthorization, UseAuthorization
<1> QED
  BY <1>3, <1>4, <1>5, <1>6, <1>7, <1>8, <1>9 DEF Next

------------------------------------------------------------------------------
\* The theorems.

\* The inductive invariant holds at the start ...
LEMMA Start == Init => IInv
<1> SUFFICES ASSUME Init PROVE IInv
  OBVIOUS
<1>1. ProposeEnd("idle") \in Proposing /\ ProposeEnd("idle").pc = "idle"
      /\ AnswerEnd \in Answering /\ AnswerEnd.pc = "idle"
  BY DEF ProposeEnd, Proposing, AnswerEnd, Answering
<1>2. SettingsInv
  BY SettingsStart DEF Init
<1>3. TypeInvariant
  BY <1>1, <1>2 DEF Init, TypeInvariant, SettingsInv
<1>4. \A h \in Proposers : ProposeKnows(h)
  BY <1>1 DEF Init, ProposeKnows, ProposeSteps, TrailRows
<1>5. \A h \in Answerers : AnswerKnows(h)
  BY <1>1 DEF Init, AnswerKnows, AnswerSteps
<1>6. /\ EveryRequestIsWarranted /\ EveryAuthorizationIsWarranted
      /\ ConsentAboveLevelOne /\ RequestsNameTheirOwn /\ AnswersFit
  BY DEF Init, EveryRequestIsWarranted, EveryAuthorizationIsWarranted,
         ConsentAboveLevelOne, RequestsNameTheirOwn, AnswersFit
<1> QED
  BY <1>2, <1>3, <1>4, <1>5, <1>6 DEF IInv

\* ... and over every step.
LEMMA Step == IInv /\ [Next]_vars => IInv'
<1> SUFFICES ASSUME IInv, [Next]_vars PROVE IInv'
  OBVIOUS
<1>1. SettingsInv'
  BY SettingsStep, WhoWrites DEF IInv
<1>2. ProposersKnow' /\ AnswerersKnow'
  BY HandlersKnow
<1>3. told' \subseteq Answer /\ AnswersFit'
  BY AnswersGoOnFitting
<1>4. TypeInvariant'
  BY <1>1, <1>2, <1>3, MandatesGrow, TrailsGrow, AuthzGrow, RequestsGrow
     DEF IInv, TypeInvariant, SettingsInv, ProposersKnow, AnswerersKnow, AuthzStep,
         RequestStep
<1>5. EveryRequestIsWarranted' /\ EveryAuthorizationIsWarranted'
  BY RequestsStayWarranted, AuthorizationsStayWarranted
<1>6. ConsentAboveLevelOne' /\ RequestsNameTheirOwn'
  BY ConsentStays, RequestsGoOnNaming
<1> QED
  BY <1>1, <1>2, <1>3, <1>4, <1>5, <1>6 DEF IInv, ProposersKnow, AnswerersKnow

\* The inductive invariant of policy and approval, for any number of rows and
\* handlers, any proposals, mandates and configurations.
THEOREM InvariantHolds == Spec => []IInv
BY Start, Step, PTL DEF Spec

\* Rows and handlers are always well-formed.
THEOREM TypesHold == Spec => []TypeInvariant
<1>1. IInv => TypeInvariant
  BY DEF IInv
<1> QED
  BY <1>1, InvariantHolds, PTL

\* No authorization exists without a complete trail, a verdict and a mandate that
\* covers it, however handlers, settings and failures interleave.
THEOREM AuthorizationsAreWarranted == Spec => []EveryAuthorizationIsWarranted
<1>1. IInv => EveryAuthorizationIsWarranted
  BY DEF IInv
<1> QED
  BY <1>1, InvariantHolds, PTL

\* Nobody is spared consent but a small purchase from the trusted merchant, and
\* the consent is the operator's or that buyer's.
THEOREM ConsentIsGiven == Spec => []ConsentAboveLevelOne
<1>1. IInv => ConsentAboveLevelOne
  BY DEF IInv
<1> QED
  BY <1>1, InvariantHolds, PTL

\* An approved request names an authorization minted for it, and no other request
\* names any, though answers overwrite each other.
THEOREM RequestsAreConsistent == Spec => []RequestsNameTheirOwn
<1>1. IInv => RequestsNameTheirOwn
  BY DEF IInv
<1> QED
  BY <1>1, InvariantHolds, PTL

\* Whatever a client is handed was issued for its proposal and its cart.
THEOREM AnswersAlwaysFit == Spec => []AnswersFit
<1>1. IInv => AnswersFit
  BY DEF IInv
<1> QED
  BY <1>1, InvariantHolds, PTL

\* The engine only enforces configurations that the stored row held.
THEOREM EnforcementIsDurable == Spec => []EnforcedWasDurable
<1>1. IInv => EnforcedWasDurable
  BY DEF IInv, SettingsInv, EnforcedWasDurable
<1> QED
  BY <1>1, InvariantHolds, PTL
==============================================================================
