------------------------------ MODULE LimitProofs ------------------------------
(***************************************************************************)
(* The limits that are read before something is done and counted after it: *)
(* wrong guesses at an address, a day's spending on the model, a session's *)
(* suggestions.  Each is passed by no more than what runs at once, for any *)
(* limit and any number of requests: whatever got past the reading is part *)
(* of the inductive invariant's count.  And the rate limiter's bucket: any *)
(* stretch of time admits no more than the burst and what that time adds.  *)
(***************************************************************************)
EXTENDS LoginLockout, CostGuard, Suggestions, RateLimiter, FiniteSetTheorems, TLAPS

------------------------------------------------------------------------------
\* LoginLockout.

\* The requests guessing at an address are among the requests.
LEMMA GuessingIsFinite ==
  ASSUME NEW e
  PROVE  /\ IsFiniteSet(Guessing(e))
         /\ Cardinality(Guessing(e)) \in Nat /\ Cardinality(Logins) \in Nat
         /\ Cardinality(Guessing(e)) <= Cardinality(Logins)
<1>1. Guessing(e) \in SUBSET Logins /\ IsFiniteSet(Logins)
  BY LockoutAssumption DEF Guessing
<1> QED
  BY <1>1, FS_Subset, FS_CardinalityType

\* An address whose counter stays, and at which nobody new guesses, stays within
\* its limit.
LEMMA QuietKeeps ==
  ASSUME LockoutInv, NEW e \in Emails,
         Guessing(e)' \subseteq Guessing(e),
         attempts'[e].failures = attempts[e].failures,
         attempts'[e].lock = "none" <=> attempts[e].lock = "none"
  PROVE  WithinLimit(e)'
<1>1. /\ IsFiniteSet(Guessing(e)')
      /\ Cardinality(Guessing(e)') \in Nat
      /\ Cardinality(Guessing(e)') <= Cardinality(Guessing(e))
  <2>1. IsFiniteSet(Guessing(e)) /\ Guessing(e)' \in SUBSET Guessing(e)
    BY GuessingIsFinite
  <2> QED
    BY <2>1, FS_Subset, FS_CardinalityType
<1>2. WithinLimit(e) /\ attempts[e].failures \in Nat
  BY DEF LockoutInv, LockoutTypeOK
<1> QED
  BY <1>1, <1>2, GuessingIsFinite, LockoutAssumption DEF WithinLimit

\* An address whose counter was reset is within its limit.
LEMMA ResetKeeps ==
  ASSUME NEW e \in Emails, attempts'[e] = NoAttempts
  PROVE  WithinLimit(e)'
BY LockoutAssumption DEF NoAttempts, WithinLimit

LEMMA LockoutInitInv == LockoutInit => LockoutInv
<1> SUFFICES ASSUME LockoutInit PROVE LockoutInv
  OBVIOUS
<1>1. LockoutTypeOK
  BY DEF LockoutInit, LockoutTypeOK, NoAttempts, NoLogin
<1>2. \A e \in Emails : WithinLimit(e)
  BY LockoutAssumption DEF LockoutInit, NoAttempts, WithinLimit
<1> QED
  BY <1>1, <1>2 DEF LockoutInv, LockoutInit, NoLogin

\* A request that begins finds no lock, or takes one that is over with it.
LEMMA BeginLoginKeeps ==
  ASSUME LockoutInv, NEW l \in Logins, NEW e \in Emails, BeginLogin(l, e)
  PROVE  LockoutInv'
<1>1. LockoutTypeOK' /\ \A k \in Logins : login'[k].pc # "idle" => login'[k].email \in Emails
  BY DEF LockoutInv, LockoutTypeOK, BeginLogin, NoAttempts
<1>2. WithinLimit(e)'
  <2>1. CASE attempts[e].lock = "over"
    <3>1. attempts'[e] = NoAttempts
      BY <2>1 DEF BeginLogin, LockoutInv, LockoutTypeOK
    <3> QED
      BY <3>1, ResetKeeps
  <2>2. CASE attempts[e].lock # "over"
    <3>1. attempts[e].lock = "none" /\ attempts' = attempts
      BY <2>2 DEF BeginLogin, LockoutInv, LockoutTypeOK
    <3> QED
      BY <3>1 DEF LockoutInv, WithinLimit
  <2> QED
    BY <2>1, <2>2
<1>3. ASSUME NEW a \in Emails, a # e PROVE WithinLimit(a)'
  <2>1. attempts'[a] = attempts[a] /\ Guessing(a)' \subseteq Guessing(a)
    BY <1>3 DEF BeginLogin, LockoutInv, LockoutTypeOK, Guessing
  <2> QED
    BY <2>1, QuietKeeps
<1> QED
  BY <1>1, <1>2, <1>3 DEF LockoutInv

\* Steps that touch no counter and let nobody in.
LEMMA UncountedKeeps ==
  ASSUME LockoutInv, NEW l \in Logins,
         CheckPassword(l) \/ OpenSession(l)
  PROVE  LockoutInv'
<1>1. LockoutTypeOK' /\ \A k \in Logins : login'[k].pc # "idle" => login'[k].email \in Emails
  BY DEF LockoutInv, LockoutTypeOK, CheckPassword, OpenSession, LoginGoto, EndLogin, NoLogin
<1>2. ASSUME NEW e \in Emails PROVE WithinLimit(e)'
  <2>1. attempts' = attempts
    BY DEF CheckPassword, OpenSession
  <2>2. Guessing(e)' \subseteq Guessing(e)
    BY DEF LockoutInv, LockoutTypeOK, CheckPassword, OpenSession, LoginGoto, EndLogin,
           NoLogin, Guessing
  <2> QED
    BY <2>1, <2>2, QuietKeeps
<1> QED
  BY <1>1, <1>2 DEF LockoutInv

\* A counted failure is one guess less on its way, and the failure that reaches the
\* limit locks the address.
LEMMA RecordFailedAttemptKeeps ==
  ASSUME LockoutInv, NEW l \in Logins, RecordFailedAttempt(l)
  PROVE  LockoutInv'
<1>1. PICK e \in Emails : e = login[l].email
  BY DEF LockoutInv, RecordFailedAttempt, CountFailure
<1>2. /\ attempts[e].failures \in Nat
      /\ attempts[e].lock \in {"none", "on", "over"}
      /\ attempts'[e].failures = attempts[e].failures + 1
      /\ attempts'[e].lock = IF attempts[e].failures + 1 >= MaxLoginAttempts
                             THEN "on" ELSE attempts[e].lock
  BY <1>1 DEF LockoutInv, LockoutTypeOK, RecordFailedAttempt, CountFailure
<1>3. LockoutTypeOK' /\ \A k \in Logins : login'[k].pc # "idle" => login'[k].email \in Emails
  BY <1>1, <1>2 DEF LockoutInv, LockoutTypeOK, RecordFailedAttempt, CountFailure, EndLogin, NoLogin
<1>4. WithinLimit(e)'
  <2>1. Guessing(e)' \in SUBSET (Guessing(e) \ {l}) /\ l \in Guessing(e)
    BY <1>1 DEF LockoutInv, LockoutTypeOK, RecordFailedAttempt, CountFailure, EndLogin, NoLogin,
                Guessing
  <2>2. /\ IsFiniteSet(Guessing(e) \ {l})
        /\ Cardinality(Guessing(e) \ {l}) = Cardinality(Guessing(e)) - 1
    BY <2>1, GuessingIsFinite, FS_RemoveElement
  <2>3. /\ Cardinality(Guessing(e)') \in Nat
        /\ Cardinality(Guessing(e)') <= Cardinality(Guessing(e)) - 1
    BY <2>1, <2>2, FS_Subset, FS_CardinalityType
  <2> QED
    BY <1>2, <2>3, GuessingIsFinite, LockoutAssumption DEF LockoutInv, WithinLimit
<1>5. ASSUME NEW a \in Emails, a # e PROVE WithinLimit(a)'
  <2>1. attempts'[a] = attempts[a] /\ Guessing(a)' \subseteq Guessing(a)
    BY <1>1, <1>5 DEF LockoutInv, LockoutTypeOK, RecordFailedAttempt, CountFailure, EndLogin,
                      NoLogin, Guessing
  <2> QED
    BY <2>1, QuietKeeps
<1> QED
  BY <1>3, <1>4, <1>5 DEF LockoutInv

LEMMA ClearAttemptsKeeps ==
  ASSUME LockoutInv, NEW l \in Logins, ClearAttempts(l)
  PROVE  LockoutInv'
<1>1. LockoutTypeOK' /\ \A k \in Logins : login'[k].pc # "idle" => login'[k].email \in Emails
  BY DEF LockoutInv, LockoutTypeOK, ClearAttempts, EndLogin, NoLogin, NoAttempts
<1>2. ASSUME NEW e \in Emails PROVE WithinLimit(e)'
  <2>1. attempts'[e] = NoAttempts \/ attempts'[e] = attempts[e]
    BY DEF LockoutInv, LockoutTypeOK, ClearAttempts
  <2>2. Guessing(e)' \subseteq Guessing(e)
    BY DEF LockoutInv, LockoutTypeOK, ClearAttempts, EndLogin, NoLogin, Guessing
  <2> QED
    BY <2>1, <2>2, QuietKeeps, ResetKeeps
<1> QED
  BY <1>1, <1>2 DEF LockoutInv

LEMMA LockEndsKeeps ==
  ASSUME LockoutInv, NEW e \in Emails, LockEnds(e)
  PROVE  LockoutInv'
<1>1. LockoutTypeOK' /\ \A k \in Logins : login'[k].pc # "idle" => login'[k].email \in Emails
  BY DEF LockoutInv, LockoutTypeOK, LockEnds
<1>2. ASSUME NEW a \in Emails PROVE WithinLimit(a)'
  <2>1. /\ attempts'[a].failures = attempts[a].failures
        /\ attempts'[a].lock = "none" <=> attempts[a].lock = "none"
    BY DEF LockoutInv, LockoutTypeOK, LockEnds
  <2>2. Guessing(a)' \subseteq Guessing(a)
    BY DEF LockEnds, Guessing
  <2> QED
    BY <2>1, <2>2, QuietKeeps
<1> QED
  BY <1>1, <1>2 DEF LockoutInv

\* LockoutInv holds in every state: an address without a lock is below the limit,
\* and one with a lock can still be charged only for requests already past it.
THEOREM LockoutInvariant == LockoutSpec => []LockoutInv
<1>1. LockoutInit => LockoutInv
  BY LockoutInitInv
<1>2. LockoutInv /\ [LockoutNext]_lockoutVars => LockoutInv'
  <2> SUFFICES ASSUME LockoutInv, [LockoutNext]_lockoutVars PROVE LockoutInv'
    OBVIOUS
  <2>1. ASSUME NEW l \in Logins, NEW e \in Emails, BeginLogin(l, e) PROVE LockoutInv'
    BY <2>1, BeginLoginKeeps
  <2>2. ASSUME NEW l \in Logins, LoginStep(l) PROVE LockoutInv'
    BY <2>2, UncountedKeeps, RecordFailedAttemptKeeps, ClearAttemptsKeeps DEF LoginStep
  <2>3. ASSUME NEW e \in Emails, LockEnds(e) PROVE LockoutInv'
    BY <2>3, LockEndsKeeps
  <2>4. CASE UNCHANGED lockoutVars
    BY <2>4 DEF lockoutVars, LockoutInv, LockoutTypeOK, WithinLimit, Guessing
  <2> QED
    BY <2>1, <2>2, <2>3, <2>4 DEF LockoutNext
<1> QED
  BY <1>1, <1>2, PTL DEF LockoutSpec

\* Service.Login: an address takes at most MaxLoginAttempts - 1 wrong guesses and
\* one for every request that runs at once between two resets of its counter.
THEOREM GuessesAlwaysBounded == LockoutSpec => []GuessesAreBounded
<1>1. LockoutInv => GuessesAreBounded
  <2> SUFFICES ASSUME LockoutInv, NEW e \in Emails
               PROVE  attempts[e].failures <= MaxLoginAttempts - 1 + Cardinality(Logins)
    BY DEF GuessesAreBounded
  <2> QED
    BY GuessingIsFinite, LockoutAssumption DEF LockoutInv, LockoutTypeOK, WithinLimit
<1> QED
  BY <1>1, LockoutInvariant, PTL

------------------------------------------------------------------------------
\* CostGuard.

\* A factor that grows makes the product grow.
LEMMA TimesMonotone ==
  ASSUME NEW m \in Nat, NEW a \in Nat, NEW b \in Nat, a <= b
  PROVE  a * m <= b * m /\ a * m \in Nat /\ b * m \in Nat
<1>1. PICK d \in Nat : b = a + d
  <2> WITNESS b - a \in Nat
  <2> QED
    OBVIOUS
<1>2. (a + d) * m = a * m + d * m /\ a * m \in Nat /\ d * m \in Nat
  OBVIOUS
<1> QED
  BY <1>1, <1>2

\* The calls on their way are among the calls, and so is what they may cost.
LEMMA InFlightIsFinite ==
  /\ IsFiniteSet(InFlight)
  /\ Cardinality(InFlight) \in Nat /\ Cardinality(Calls) \in Nat
  /\ Cardinality(InFlight) * MaxCost <= Cardinality(Calls) * MaxCost
  /\ Cardinality(InFlight) * MaxCost \in Nat /\ Cardinality(Calls) * MaxCost \in Nat
<1>1. InFlight \in SUBSET Calls /\ IsFiniteSet(Calls)
  BY GuardAssumption DEF InFlight
<1>2. /\ IsFiniteSet(InFlight) /\ Cardinality(InFlight) <= Cardinality(Calls)
      /\ Cardinality(InFlight) \in Nat /\ Cardinality(Calls) \in Nat
  BY <1>1, FS_Subset, FS_CardinalityType
<1> QED
  BY <1>2, TimesMonotone, GuardAssumption

\* The bound survives where no call sets out and nothing more is recorded.
LEMMA QuietSpend ==
  ASSUME GuardInv, InFlight' \subseteq InFlight,
         guard'.spent \in Nat, guard'.spent <= guard.spent
  PROVE  guard'.spent + Cardinality(InFlight') * MaxCost
           <= DailyBudget - 1 + Cardinality(Calls) * MaxCost
<1>1. InFlight' \in SUBSET InFlight /\ IsFiniteSet(InFlight)
  BY InFlightIsFinite
<1>2. /\ Cardinality(InFlight') <= Cardinality(InFlight)
      /\ Cardinality(InFlight') \in Nat
  BY <1>1, FS_Subset, FS_CardinalityType
<1>3. /\ Cardinality(InFlight') * MaxCost <= Cardinality(InFlight) * MaxCost
      /\ Cardinality(InFlight') * MaxCost \in Nat
  BY <1>2, InFlightIsFinite, TimesMonotone, GuardAssumption
<1> QED
  BY <1>3, InFlightIsFinite, GuardAssumption DEF GuardInv, GuardTypeOK

\* What counts as spent today is never more than what is recorded.
LEMMA SpentTodayIsRecorded ==
  ASSUME GuardTypeOK
  PROVE  SpentToday \in Nat /\ SpentToday <= guard.spent
BY DEF GuardTypeOK, SpentToday

LEMMA ResolveKeepsPrompts ==
  ASSUME GuardTypeOK, NEW c, NEW outcome \in {"idle", "fallback"}, Resolve(c, outcome)
  PROVE  prompt' \in [Prompts -> Calls \cup {"idle", "fallback"}]
BY DEF GuardTypeOK, Resolve

\* A call passes the check only where less than the budget is spent; whatever is
\* on its way then fits beside it.
LEMMA CheckBudgetKeeps ==
  ASSUME GuardInv, NEW c \in Calls, CheckBudget(c)
  PROVE  GuardInv'
<1>1. GuardTypeOK /\ SpentToday \in Nat /\ SpentToday <= guard.spent
  BY SpentTodayIsRecorded DEF GuardInv
<1>2. guard'.spent = SpentToday /\ guard' \in [day : 0 .. Days, spent : Nat]
  BY <1>1 DEF CheckBudget, GuardTypeOK
<1>3. CASE SpentToday >= DailyBudget
  <2>1. GuardTypeOK'
    BY <1>1, <1>2, <1>3, ResolveKeepsPrompts DEF CheckBudget, GuardTypeOK
  <2>2. InFlight' \subseteq InFlight
    BY <1>1, <1>3 DEF CheckBudget, GuardTypeOK, InFlight
  <2> QED
    BY <1>1, <1>2, <2>1, <2>2, QuietSpend DEF GuardInv
<1>4. CASE ~(SpentToday >= DailyBudget)
  <2>1. GuardTypeOK'
    BY <1>1, <1>2, <1>4 DEF CheckBudget, GuardTypeOK
  <2>2. InFlight' \in SUBSET Calls /\ IsFiniteSet(Calls)
    BY GuardAssumption DEF InFlight
  <2>3. Cardinality(InFlight') \in Nat /\ Cardinality(InFlight') <= Cardinality(Calls)
    BY <2>2, FS_Subset, FS_CardinalityType
  <2>4. /\ Cardinality(InFlight') * MaxCost <= Cardinality(Calls) * MaxCost
        /\ Cardinality(InFlight') * MaxCost \in Nat
    BY <2>3, InFlightIsFinite, TimesMonotone, GuardAssumption
  <2> QED
    BY <1>1, <1>2, <1>4, <2>1, <2>4, InFlightIsFinite, GuardAssumption DEF GuardInv
<1> QED
  BY <1>3, <1>4

\* An answer turns a call on its way into its cost.
LEMMA ModelAnswersKeeps ==
  ASSUME GuardInv, NEW c \in Calls, NEW cost \in 0 .. MaxCost, ModelAnswers(c, cost)
  PROVE  GuardInv'
<1>1. /\ GuardTypeOK /\ SpentToday \in Nat /\ SpentToday <= guard.spent
      /\ cost \in Nat /\ cost <= MaxCost
  BY SpentTodayIsRecorded, GuardAssumption DEF GuardInv
<1>2. guard'.spent = SpentToday + cost /\ guard' \in [day : 0 .. Days, spent : Nat]
  BY <1>1 DEF ModelAnswers, GuardTypeOK
<1>3. GuardTypeOK'
  BY <1>1, <1>2, ResolveKeepsPrompts DEF ModelAnswers, GuardTypeOK
<1>4. c \in InFlight /\ InFlight' = InFlight \ {c}
  BY <1>1 DEF ModelAnswers, GuardTypeOK, InFlight
<1>5. Cardinality(InFlight') = Cardinality(InFlight) - 1
  BY <1>4, InFlightIsFinite, FS_RemoveElement
<1>6. (Cardinality(InFlight) - 1) * MaxCost = Cardinality(InFlight) * MaxCost - MaxCost
  BY InFlightIsFinite, GuardAssumption
<1> QED
  BY <1>1, <1>2, <1>3, <1>5, <1>6, InFlightIsFinite, GuardAssumption DEF GuardInv, GuardTypeOK

\* The steps that record nothing: no call sets out with them.
LEMMA OthersKeepSpend ==
  ASSUME GuardInv,
         \/ \E c \in Calls : BeginChat(c) \/ ModelFails(c)
         \/ \E p \in Prompts : (\E c \in Calls : BeginRace(p, c)) \/ WindowEnds(p) \/ FallBack(p)
         \/ Midnight
  PROVE  GuardInv'
<1>1. guard' = guard /\ GuardTypeOK
  BY DEF GuardInv, BeginChat, ModelFails, BeginRace, WindowEnds, FallBack, Midnight
<1>2. InFlight' \subseteq InFlight
  BY <1>1 DEF GuardTypeOK, BeginChat, ModelFails, BeginRace, WindowEnds, FallBack, Midnight, InFlight
<1>3. GuardTypeOK'
  <2>1. CASE Midnight
    BY <1>1, <2>1, GuardAssumption DEF GuardTypeOK, Midnight
  <2>2. ASSUME NEW c \in Calls, ModelFails(c) PROVE GuardTypeOK'
    BY <1>1, <2>2, ResolveKeepsPrompts DEF GuardTypeOK, ModelFails
  <2>3. ASSUME NEW c \in Calls, BeginChat(c) PROVE GuardTypeOK'
    BY <1>1, <2>3 DEF GuardTypeOK, BeginChat
  <2>4. ASSUME NEW p \in Prompts,
               (\E c \in Calls : BeginRace(p, c)) \/ WindowEnds(p) \/ FallBack(p)
        PROVE  GuardTypeOK'
    BY <1>1, <2>4 DEF GuardTypeOK, BeginRace, WindowEnds, FallBack
  <2> QED
    BY <2>1, <2>2, <2>3, <2>4
<1>4. guard'.spent \in Nat /\ guard'.spent <= guard.spent
  BY <1>1 DEF GuardTypeOK
<1> QED
  BY <1>2, <1>3, <1>4, QuietSpend DEF GuardInv

LEMMA GuardInitInv == GuardInit => GuardInv
<1> SUFFICES ASSUME GuardInit PROVE GuardInv
  OBVIOUS
<1>1. GuardTypeOK
  BY GuardAssumption DEF GuardInit, GuardTypeOK
<1>2. guard.spent = 0
  BY DEF GuardInit
<1> QED
  BY <1>1, <1>2, InFlightIsFinite, GuardAssumption DEF GuardInv

\* GuardInv holds in every state: what was spent and what the calls on their way
\* may still cost stay within the bound.
THEOREM GuardInvariant == GuardSpec => []GuardInv
<1>1. GuardInit => GuardInv
  BY GuardInitInv
<1>2. GuardInv /\ [GuardNext]_guardVars => GuardInv'
  <2> SUFFICES ASSUME GuardInv, [GuardNext]_guardVars PROVE GuardInv'
    OBVIOUS
  <2>1. CASE GuardNext
    BY <2>1, CheckBudgetKeeps, ModelAnswersKeeps, OthersKeepSpend DEF GuardNext, CallStep
  <2>2. CASE UNCHANGED guardVars
    BY <2>2 DEF guardVars, GuardInv, GuardTypeOK, InFlight
  <2> QED
    BY <2>1, <2>2
<1> QED
  BY <1>1, <1>2, PTL DEF GuardSpec

\* CostGuard.Check and Record: a day's spending passes the budget by no more than
\* what the calls that run at once may cost.
THEOREM SpendAlwaysBounded == GuardSpec => []SpendIsBounded
<1>1. GuardInv => SpendIsBounded
  BY InFlightIsFinite, GuardAssumption DEF GuardInv, GuardTypeOK, SpendIsBounded
<1> QED
  BY <1>1, GuardInvariant, PTL

------------------------------------------------------------------------------
\* Suggestions.

LEMMA PastTheCapIsFinite ==
  /\ IsFiniteSet(PastTheCap)
  /\ Cardinality(PastTheCap) \in Nat /\ Cardinality(Handlers) \in Nat
  /\ Cardinality(PastTheCap) <= Cardinality(Handlers)
<1>1. PastTheCap \in SUBSET Handlers /\ IsFiniteSet(Handlers)
  BY SuggestionAssumption DEF PastTheCap
<1> QED
  BY <1>1, FS_Subset, FS_CardinalityType

\* The bound survives where nobody passes the count and nothing is stored.
LEMMA QuietCap ==
  ASSUME CapInv, PastTheCap' \subseteq PastTheCap, recent' \in Nat, recent' <= recent
  PROVE  recent' + Cardinality(PastTheCap') <= CapCount - 1 + Cardinality(Handlers)
<1>1. PastTheCap' \in SUBSET PastTheCap /\ IsFiniteSet(PastTheCap)
  BY PastTheCapIsFinite
<1>2. /\ Cardinality(PastTheCap') <= Cardinality(PastTheCap)
      /\ Cardinality(PastTheCap') \in Nat
  BY <1>1, FS_Subset, FS_CardinalityType
<1> QED
  BY <1>2, PastTheCapIsFinite, SuggestionAssumption DEF CapInv, GrowthTypeOK

\* A handler that moves stays a handler, whichever of its steps it is.
LEMMA HandlerMoves ==
  ASSUME GrowthTypeOK, NEW h \in Running,
         NEW pc \in {"cap", "evaluate", "impression"},
         NEW best \in Products \cup {None}, NEW over \in BOOLEAN,
         \/ HandlerGoto(h, pc, best, over)
         \/ FinishHandler(h)
  PROVE  handler' \in [Running -> [pc : {"idle", "cap", "evaluate", "impression"},
                                   best : Products \cup {None}, over : BOOLEAN]]
<1> DEFINE Record == [pc : {"idle", "cap", "evaluate", "impression"},
                      best : Products \cup {None}, over : BOOLEAN]
<1>1. [pc |-> pc, best |-> best, over |-> over] \in Record /\ NoHandler \in Record
  BY DEF NoHandler
<1>2. PICK r \in Record : handler' = [handler EXCEPT ![h] = r]
  BY <1>1 DEF HandlerGoto, FinishHandler
<1>3. handler \in [Running -> Record]
  BY DEF GrowthTypeOK
<1> HIDE DEF Record
<1>4. handler' \in [Running -> Record]
  BY <1>2, <1>3
<1> QED
  BY <1>4 DEF Record

\* Choosing ends before the count, or is the consumer's.
LEMMA ChooseKeeps ==
  ASSUME CapInv, NEW h \in Running, NEW pc \in {"cap", "evaluate"},
         pc = "evaluate" => h = Consumer,
         NEW total, NEW from, NEW without, Choose(h, pc, total, from, without)
  PROVE  CapInv'
<1>1. PICK p \in Products : HandlerGoto(h, pc, p, total + Price[p] > MaxAllowed)
  <2>1. \A signals : \A listed \in SUBSET Products : BestCandidates(listed, signals) \subseteq Products
    BY DEF BestCandidates
  <2> QED
    BY <2>1 DEF Choose
<1>2. GrowthTypeOK /\ (total + Price[p] > MaxAllowed) \in BOOLEAN
  BY DEF CapInv
<1>3. GrowthTypeOK'
  <2>1. handler' \in [Running -> [pc : {"idle", "cap", "evaluate", "impression"},
                                  best : Products \cup {None}, over : BOOLEAN]]
    BY <1>1, <1>2, HandlerMoves
  <2> QED
    BY <1>2, <2>1 DEF Choose, GrowthTypeOK
<1>4. handler'[Consumer].pc # "impression" /\ PastTheCap' \subseteq PastTheCap
  BY <1>1, <1>2, SuggestionAssumption
     DEF CapInv, GrowthTypeOK, Running, HandlerGoto, PastTheCap
<1>5. recent' \in Nat /\ recent' <= recent
  BY DEF CapInv, GrowthTypeOK, Choose
<1> QED
  BY <1>3, <1>4, <1>5, QuietCap DEF CapInv

\* Below the cap there is room for every handler there is.
LEMMA CheckCapKeeps ==
  ASSUME CapInv, NEW h \in Running, CheckCap(h)
  PROVE  CapInv'
<1>1. GrowthTypeOK /\ handler[h].best \in Products \cup {None} /\ handler[h].over \in BOOLEAN
  BY DEF CapInv, GrowthTypeOK
<1>2. GrowthTypeOK' /\ recent' = recent
  BY <1>1, HandlerMoves DEF CheckCap, GrowthTypeOK
<1>3. handler'[Consumer].pc # "impression"
  BY <1>1, SuggestionAssumption
     DEF CapInv, GrowthTypeOK, Running, CheckCap, HandlerGoto, FinishHandler, NoHandler
<1>4. CASE recent >= CapCount
  <2>1. PastTheCap' \subseteq PastTheCap
    BY <1>1, <1>4 DEF GrowthTypeOK, Running, CheckCap, FinishHandler, NoHandler, PastTheCap
  <2> QED
    BY <1>2, <1>3, <2>1, QuietCap DEF CapInv, GrowthTypeOK
<1>5. CASE ~(recent >= CapCount)
  <2>1. PastTheCap' \in SUBSET Handlers /\ IsFiniteSet(Handlers)
    BY SuggestionAssumption DEF PastTheCap
  <2>2. Cardinality(PastTheCap') \in Nat /\ Cardinality(PastTheCap') <= Cardinality(Handlers)
    BY <2>1, FS_Subset, FS_CardinalityType
  <2> QED
    BY <1>2, <1>3, <1>5, <2>2, PastTheCapIsFinite, SuggestionAssumption
       DEF CapInv, GrowthTypeOK
<1> QED
  BY <1>4, <1>5

LEMMA EvaluateCandidateKeeps ==
  ASSUME CapInv, NEW h \in Running, EvaluateCandidate(h)
  PROVE  CapInv'
<1>1. GrowthTypeOK /\ handler[h].best \in Products \cup {None} /\ handler[h].pc = "evaluate"
  BY DEF CapInv, GrowthTypeOK, EvaluateCandidate, Evaluate, HandlerAt
<1>2. recs' \in [Products -> {None, "stored", "accepted"}]
  BY <1>1 DEF GrowthTypeOK, EvaluateCandidate, Evaluate
<1>3. GrowthTypeOK' /\ recent' = recent
  BY <1>1, <1>2, HandlerMoves DEF EvaluateCandidate, Evaluate, GrowthTypeOK
<1>4. handler'[Consumer].pc # "impression"
  BY <1>1, SuggestionAssumption
     DEF CapInv, GrowthTypeOK, Running, EvaluateCandidate, Evaluate, HandlerGoto,
         FinishHandler, NoHandler
<1>5. PastTheCap' \subseteq PastTheCap
  BY <1>1 DEF GrowthTypeOK, Running, EvaluateCandidate, Evaluate, HandlerGoto,
              FinishHandler, NoHandler, PastTheCap
<1> QED
  BY <1>3, <1>4, <1>5, QuietCap DEF CapInv, GrowthTypeOK

\* An impression is stored by somebody who was counted as being about to.
LEMMA RecordImpressionKeeps ==
  ASSUME CapInv, NEW h \in Running, RecordImpression(h)
  PROVE  CapInv'
<1>1. GrowthTypeOK /\ h \in Handlers /\ handler[h].pc = "impression"
  BY SuggestionAssumption DEF CapInv, Running, RecordImpression, HandlerAt
<1>2. recent' = recent + 1 /\ handler' = [handler EXCEPT ![h] = NoHandler]
  BY DEF RecordImpression, FinishHandler
<1>3. GrowthTypeOK'
  BY <1>1, <1>2 DEF GrowthTypeOK, RecordImpression, NoHandler
<1>4. handler'[Consumer].pc # "impression"
  BY <1>1, <1>2, SuggestionAssumption DEF CapInv, GrowthTypeOK, Running
<1>5. h \in PastTheCap /\ PastTheCap' = PastTheCap \ {h}
  BY <1>1, <1>2 DEF GrowthTypeOK, Running, NoHandler, PastTheCap
<1>6. Cardinality(PastTheCap') = Cardinality(PastTheCap) - 1
  BY <1>5, PastTheCapIsFinite, FS_RemoveElement
<1> QED
  BY <1>2, <1>3, <1>4, <1>6, PastTheCapIsFinite, SuggestionAssumption DEF CapInv, GrowthTypeOK

LEMMA BreakHandlerKeeps ==
  ASSUME CapInv, NEW h \in Running, BreakHandler(h)
  PROVE  CapInv'
<1>1. GrowthTypeOK /\ handler' = [handler EXCEPT ![h] = NoHandler] /\ recent' = recent
  BY DEF CapInv, BreakHandler, FinishHandler
<1>2. GrowthTypeOK'
  BY <1>1 DEF GrowthTypeOK, BreakHandler, NoHandler
<1>3. handler'[Consumer].pc # "impression" /\ PastTheCap' \subseteq PastTheCap
  BY <1>1 DEF CapInv, GrowthTypeOK, Running, NoHandler, PastTheCap
<1> QED
  BY <1>1, <1>2, <1>3, QuietCap DEF CapInv, GrowthTypeOK

\* The buyer's steps and the window's: no handler moves.
LEMMA BuyerKeepsCap ==
  ASSUME CapInv,
         (\E p \in Products : Dismiss(p) \/ EditCart(p) \/ Accept(p)) \/ ImpressionAges
  PROVE  CapInv'
<1>1. GrowthTypeOK /\ handler' = handler
  BY DEF CapInv, Dismiss, EditCart, Accept, ImpressionAges
<1>2. recent' \in Nat /\ recent' <= recent
  BY DEF CapInv, GrowthTypeOK, Dismiss, EditCart, Accept, ImpressionAges
<1>3. items' \subseteq Products /\ dismissed' \subseteq Products
  BY <1>1 DEF GrowthTypeOK, Dismiss, EditCart, Accept, ImpressionAges
<1>4. recs' \in [Products -> {None, "stored", "accepted"}]
  BY <1>1 DEF GrowthTypeOK, Dismiss, EditCart, Accept, ImpressionAges
<1>5. GrowthTypeOK' /\ PastTheCap' \subseteq PastTheCap
  BY <1>1, <1>2, <1>3, <1>4 DEF GrowthTypeOK, PastTheCap
<1> QED
  BY <1>1, <1>2, <1>5, QuietCap DEF CapInv

LEMMA GrowthInitInv == GrowthInit => CapInv
<1> SUFFICES ASSUME GrowthInit PROVE CapInv
  OBVIOUS
<1>1. GrowthTypeOK /\ handler[Consumer].pc # "impression"
  BY SuggestionAssumption DEF GrowthInit, GrowthTypeOK, NoHandler, Running
<1>2. PastTheCap = {}
  BY DEF GrowthInit, NoHandler, Running, PastTheCap
<1>3. Cardinality(PastTheCap) = 0 /\ recent = 0
  BY <1>2, FS_EmptySet DEF GrowthInit
<1> QED
  BY <1>1, <1>3, PastTheCapIsFinite, SuggestionAssumption DEF CapInv

\* CapInv holds in every state: the impressions and the requests past the count
\* share the room there is.
THEOREM CapInvariant == GrowthSpec => []CapInv
<1>1. GrowthInit => CapInv
  BY GrowthInitInv
<1>2. CapInv /\ [GrowthNext]_growthVars => CapInv'
  <2> SUFFICES ASSUME CapInv, [GrowthNext]_growthVars PROVE CapInv'
    OBVIOUS
  <2>1. ASSUME NEW h \in Handlers,
               Suggest(h) \/ SuggestForOrder(h) \/ \E p \in Products : SuggestForProduct(h, p)
        PROVE  CapInv'
    BY <2>1, ChooseKeeps DEF Suggest, SuggestForOrder, SuggestForProduct, Running
  <2>2. ASSUME PrecomputeSuggestion PROVE CapInv'
    BY <2>2, ChooseKeeps DEF PrecomputeSuggestion, Running
  <2>3. ASSUME NEW h \in Running, HandlerStep(h) PROVE CapInv'
    BY <2>3, CheckCapKeeps, EvaluateCandidateKeeps, RecordImpressionKeeps, BreakHandlerKeeps
       DEF HandlerStep
  <2>4. CASE UNCHANGED growthVars
    BY <2>4 DEF growthVars, CapInv, GrowthTypeOK, PastTheCap
  <2> QED
    BY <2>1, <2>2, <2>3, <2>4, BuyerKeepsCap DEF GrowthNext
<1> QED
  BY <1>1, <1>2, PTL DEF GrowthSpec

\* CheckFrequencyCap and RecordImpression: a window holds at most CapCount - 1
\* suggestions and one for every request that runs at once.
THEOREM SuggestionsAlwaysCapped == GrowthSpec => []SuggestionsAreCapped
<1>1. CapInv => SuggestionsAreCapped
  BY PastTheCapIsFinite, SuggestionAssumption DEF CapInv, GrowthTypeOK, SuggestionsAreCapped
<1> QED
  BY <1>1, CapInvariant, PTL

\* The upsert of recommendations leaves the acceptance alone, however late an
\* evaluation stores its row.
THEOREM AcceptanceAlwaysKept == GrowthSpec => AcceptanceIsKept
<1>1. ASSUME CapInv, GrowthNext, NEW p \in Products, recs[p] = "accepted"
      PROVE  recs'[p] = "accepted"
  <2>1. recs \in [Products -> {None, "stored", "accepted"}]
    BY <1>1 DEF CapInv, GrowthTypeOK
  <2>2. ASSUME NEW h \in Running, EvaluateCandidate(h) PROVE recs'[p] = "accepted"
    BY <1>1, <2>1, <2>2 DEF EvaluateCandidate, Evaluate
  <2>3. ASSUME NEW q \in Products, Accept(q) PROVE recs'[p] = "accepted"
    BY <1>1, <2>1, <2>3 DEF Accept
  <2>4. \/ \E h \in Running : EvaluateCandidate(h)
        \/ \E q \in Products : Accept(q)
        \/ UNCHANGED recs
    BY <1>1 DEF GrowthNext, Suggest, SuggestForOrder, SuggestForProduct, PrecomputeSuggestion, Choose,
                HandlerStep, CheckCap, RecordImpression, BreakHandler, Dismiss, EditCart, ImpressionAges
  <2> QED
    BY <1>1, <2>2, <2>3, <2>4
<1>2. CapInv /\ [GrowthNext]_growthVars =>
        [\A p \in Products : recs[p] = "accepted" => recs'[p] = "accepted"]_growthVars
  BY <1>1
<1> QED
  BY <1>2, CapInvariant, PTL DEF GrowthSpec, AcceptanceIsKept

------------------------------------------------------------------------------
\* RateLimiter.

LEMMA CapacityIsNat == Capacity \in Nat /\ Unit \in Nat \ {0} /\ Rate \in Nat /\ MaxTime \in Nat
BY LimiterAssumption DEF Capacity

\* A bucket's level is a number of units of a full bucket at most.
LEMMA LevelFits ==
  ASSUME LimiterTypeOK, NEW k \in LimiterKeys, buckets[k] # None => buckets[k].last <= now
  PROVE  Refilled(buckets[k]) \in 0 .. Capacity
<1>1. CASE buckets[k] = None
  BY <1>1, CapacityIsNat DEF Refilled
<1>2. CASE buckets[k] # None
  <2>1. buckets[k].tokens \in 0 .. Capacity /\ buckets[k].last \in 0 .. MaxTime /\ now \in 0 .. MaxTime
    BY <1>2 DEF LimiterTypeOK, Bucket
  <2>2. now - buckets[k].last \in Nat
    BY <1>2, <2>1, CapacityIsNat
  <2>3. (now - buckets[k].last) * Rate \in Nat
    BY <2>2, CapacityIsNat
  <2> QED
    BY <1>2, <2>1, <2>3, CapacityIsNat DEF Refilled
<1> QED
  BY <1>1, <1>2

\* A bucket written at this moment holds what was written.
LEMMA WrittenLevel ==
  ASSUME NEW tokens \in 0 .. Capacity, LimiterTypeOK
  PROVE  /\ Refilled([tokens |-> tokens, last |-> now]) = tokens
         /\ [tokens |-> tokens, last |-> now] \in Bucket
         /\ [tokens |-> tokens, last |-> now] # None
<1>1. now \in 0 .. MaxTime /\ MaxTime \in Nat
  BY CapacityIsNat DEF LimiterTypeOK
<1>2. [tokens |-> tokens, last |-> now] \in Bucket
  BY <1>1 DEF Bucket
<1>3. (now - now) * Rate = 0
  BY <1>1, CapacityIsNat
<1> QED
  BY <1>2, <1>3, CapacityIsNat, NoneIsNoBucket DEF Refilled

\* An address whose requests and level stay within the rate stays so while time passes.
LEMMA CloseStretch ==
  ASSUME LimiterTypeOK, NEW a \in Peers, WithinRate(a), Unit <= Refilled(buckets[a]),
         Refilled(buckets[a]) \in 0 .. Capacity, NEW i \in DOMAIN admitted[a]
  PROVE  (Len(admitted[a]) + 1 - i + 1) * Unit + (Refilled(buckets[a]) - Unit)
           <= Capacity + (now - admitted[a][i]) * Rate
<1>1. admitted[a] \in Seq(0 .. MaxTime) /\ i \in 1 .. Len(admitted[a]) /\ Len(admitted[a]) \in Nat
  BY DEF LimiterTypeOK
<1>2. admitted[a][i] \in 0 .. MaxTime /\ now \in 0 .. MaxTime
  <2> DEFINE times == 0 .. MaxTime
  <2>1. admitted[a] \in Seq(times) /\ now \in times
    BY DEF LimiterTypeOK
  <2> HIDE DEF times
  <2>2. admitted[a][i] \in times
    BY <1>1, <2>1
  <2> QED
    BY <2>1, <2>2 DEF times
<1> DEFINE n == Len(admitted[a]) - i + 1
           stretch == (now - admitted[a][i]) * Rate
           level == Refilled(buckets[a])
<1>3. n \in Nat /\ Len(admitted[a]) + 1 - i + 1 = n + 1
  BY <1>1
<1>4. n * Unit + level <= Capacity + stretch
  BY DEF WithinRate
<1>5. now - admitted[a][i] \in Nat
  <2>1. admitted[a][i] <= now
    BY DEF WithinRate
  <2> QED
    BY <1>2, <2>1, CapacityIsNat
<1>6. stretch \in Nat /\ n * Unit \in Nat
  <2> DEFINE since == now - admitted[a][i]
  <2>1. since \in Nat
    BY <1>5
  <2> HIDE DEF n, since
  <2>2. n * Unit \in Nat /\ since * Rate \in Nat
    BY <1>3, <2>1, CapacityIsNat
  <2> QED
    BY <2>2 DEF since
<1> HIDE DEF n, stretch
<1>7. (n + 1) * Unit = n * Unit + Unit
  BY <1>3, CapacityIsNat
<1>8. (n + 1) * Unit + (level - Unit) = n * Unit + level
  BY <1>6, <1>7, CapacityIsNat
<1> QED
  BY <1>3, <1>4, <1>8 DEF stretch

\* An address whose requests are what they were, and its level too, stays within the rate.
LEMMA SameStretch ==
  ASSUME NEW a \in Peers, WithinRate(a), now' = now, admitted'[a] = admitted[a],
         Refilled(buckets[a])' = Refilled(buckets[a])
  PROVE  WithinRate(a)'
BY DEF WithinRate

LEMMA LevelOfSameBucket ==
  ASSUME now' = now, NEW k, buckets'[k] = buckets[k]
  PROVE  Refilled(buckets[k])' = Refilled(buckets[k])
BY DEF Refilled

LEMMA RefusedKeeps ==
  ASSUME LimiterInv, NEW key \in LimiterKeys, UNCHANGED <<now, admitted>>,
         \/ buckets' = buckets
         \/ buckets' = [buckets EXCEPT ![key] = [tokens |-> Refilled(buckets[key]), last |-> now]]
  PROVE  LimiterInv'
<1>1. LimiterTypeOK /\ now \in 0 .. MaxTime /\ Refilled(buckets[key]) \in 0 .. Capacity
  BY LevelFits DEF LimiterInv, LimiterTypeOK
<1>2. CASE buckets' = buckets
  BY <1>2 DEF LimiterInv, LimiterTypeOK, WithinRate, Refilled, AdmittedWithinRate
<1>3. CASE buckets' = [buckets EXCEPT ![key] = [tokens |-> Refilled(buckets[key]), last |-> now]]
  <2> DEFINE b == [tokens |-> Refilled(buckets[key]), last |-> now]
  <2>1. b \in Bucket /\ Refilled(b) = Refilled(buckets[key])
    BY <1>1, WrittenLevel
  <2>2. /\ buckets'[key] = b
        /\ \A k \in LimiterKeys \ {key} : buckets'[k] = buckets[k]
    BY <1>1, <1>3 DEF LimiterTypeOK
  <2>3. LimiterTypeOK'
    BY <1>1, <1>3, <2>1 DEF LimiterTypeOK
  <2>4. \A k \in LimiterKeys : buckets'[k] # None => buckets'[k].last <= now'
    BY <1>1, <2>2, CapacityIsNat DEF LimiterInv
  <2>5. \A k \in LimiterKeys : Refilled(buckets[k])' = Refilled(buckets[k])
    <3>1. Refilled(buckets[key])' = Refilled(buckets[key])
      BY <2>1, <2>2 DEF Refilled
    <3> QED
      BY <2>2, <3>1, LevelOfSameBucket
  <2>6. ~TrustForwarded => \A a \in Peers : WithinRate(a)'
    BY <2>5, SameStretch DEF LimiterInv, LimiterKeys
  <2>7. ~TrustForwarded => AdmittedWithinRate'
    BY DEF LimiterInv, AdmittedWithinRate
  <2> QED
    BY <2>3, <2>4, <2>6, <2>7 DEF LimiterInv
<1> QED
  BY <1>2, <1>3

\* What an address that was let through got since any of its requests.
LEMMA AdmittedStretch ==
  ASSUME LimiterInv, ~TrustForwarded, NEW a \in Peers, Unit <= Refilled(buckets[a]),
         now' = now, admitted'[a] = Append(admitted[a], now),
         Refilled(buckets[a])' = Refilled(buckets[a]) - Unit
  PROVE  /\ WithinRate(a)'
         /\ \A i, j \in DOMAIN admitted'[a] : i <= j =>
              (j - i + 1) * Unit <= Capacity + (admitted'[a][j] - admitted'[a][i]) * Rate
<1> DEFINE times == 0 .. MaxTime
           seq == admitted[a]
           level == Refilled(buckets[a])
<1>1. /\ seq \in Seq(times) /\ now \in times /\ level \in 0 .. Capacity
      /\ LimiterTypeOK /\ WithinRate(a) /\ AdmittedWithinRate
  BY LevelFits DEF LimiterInv, LimiterTypeOK, LimiterKeys
<1>2. /\ Len(seq) \in Nat /\ Len(seq)' = Len(seq) + 1 /\ DOMAIN seq' = 1 .. Len(seq) + 1
      /\ seq'[Len(seq) + 1] = now
      /\ \A i \in 1 .. Len(seq) : i \in DOMAIN seq /\ seq'[i] = seq[i]
  BY <1>1
<1>3. ASSUME NEW i \in 1 .. Len(seq)
      PROVE  /\ seq[i] \in Nat /\ seq[i] <= now
             /\ (Len(seq) + 1 - i + 1) * Unit + (level - Unit) <= Capacity + (now - seq[i]) * Rate
             /\ (Len(seq) + 1 - i + 1) * Unit \in Nat
  <2>1. seq[i] \in times
    <3> HIDE DEF times, seq
    <3> QED
      BY <1>1, <1>3
  <2>2. (Len(seq) + 1 - i + 1) * Unit + (level - Unit) <= Capacity + (now - seq[i]) * Rate
    BY <1>1, <1>2, <1>3, CloseStretch
  <2>3. Len(seq) + 1 - i + 1 \in Nat
    BY <1>2
  <2>4. (Len(seq) + 1 - i + 1) * Unit \in Nat
    BY <2>3, CapacityIsNat
  <2> QED
    BY <1>1, <1>2, <2>1, <2>2, <2>4, CapacityIsNat DEF WithinRate
<1>4. /\ (Len(seq) + 1 - (Len(seq) + 1) + 1) * Unit = Unit
      /\ (now - now) * Rate = 0
  BY <1>1, <1>2, CapacityIsNat
<1>5. WithinRate(a)'
  <2> SUFFICES ASSUME NEW i \in 1 .. Len(seq) + 1
               PROVE  /\ seq'[i] <= now
                      /\ (Len(seq) + 1 - i + 1) * Unit + (level - Unit)
                           <= Capacity + (now - seq'[i]) * Rate
    BY <1>2 DEF WithinRate
  <2>1. CASE i = Len(seq) + 1
    BY <1>1, <1>2, <1>4, <2>1, CapacityIsNat
  <2>2. CASE i \in 1 .. Len(seq)
    BY <1>2, <1>3, <2>2
  <2> QED
    BY <1>2, <2>1, <2>2
<1>6. ASSUME NEW i \in 1 .. Len(seq) + 1, NEW j \in 1 .. Len(seq) + 1, i <= j
      PROVE  (j - i + 1) * Unit <= Capacity + (seq'[j] - seq'[i]) * Rate
  <2>1. CASE j \in 1 .. Len(seq)
    <3>1. i \in 1 .. Len(seq)
      BY <1>2, <1>6, <2>1
    <3> QED
      BY <1>1, <1>2, <1>6, <2>1, <3>1 DEF AdmittedWithinRate
  <2>2. CASE j = Len(seq) + 1 /\ i = Len(seq) + 1
    BY <1>1, <1>2, <1>4, <2>2, CapacityIsNat
  <2>3. CASE j = Len(seq) + 1 /\ i \in 1 .. Len(seq)
    <3> DEFINE lhs == (Len(seq) + 1 - i + 1) * Unit
               rhs == (now - seq[i]) * Rate
    <3>1. lhs + (level - Unit) <= Capacity + rhs /\ lhs \in Nat
      BY <1>3, <2>3
    <3>2. now - seq[i] \in Nat
      <4>1. seq[i] \in Nat /\ seq[i] <= now /\ now \in Nat
        BY <1>1, <1>3, <2>3, CapacityIsNat
      <4> QED
        BY <4>1
    <3>3. rhs \in Nat
      BY <3>2, CapacityIsNat
    <3> HIDE DEF lhs, rhs
    <3>4. lhs <= Capacity + rhs
      BY <1>1, <3>1, <3>3, CapacityIsNat
    <3> QED
      BY <1>2, <2>3, <3>4 DEF lhs, rhs
  <2> QED
    BY <1>2, <2>1, <2>2, <2>3
<1> QED
  BY <1>2, <1>5, <1>6

LEMMA AdmittedKeeps ==
  ASSUME LimiterInv, NEW addr \in Peers, NEW key \in LimiterKeys,
         ~TrustForwarded => key = addr, Unit <= Refilled(buckets[key]), now' = now,
         buckets' = [buckets EXCEPT ![key] = [tokens |-> Refilled(buckets[key]) - Unit, last |-> now]],
         admitted' = [admitted EXCEPT ![addr] = Append(@, now)]
  PROVE  LimiterInv'
<1> DEFINE level == Refilled(buckets[key])
           b == [tokens |-> level - Unit, last |-> now]
<1>1. LimiterTypeOK /\ now \in 0 .. MaxTime /\ level \in 0 .. Capacity
  BY LevelFits DEF LimiterInv, LimiterTypeOK
<1>2. level - Unit \in 0 .. Capacity
  BY <1>1, CapacityIsNat
<1>3. b \in Bucket /\ Refilled(b) = level - Unit
  BY <1>1, <1>2, WrittenLevel
<1>4. /\ buckets'[key] = b
      /\ \A k \in LimiterKeys \ {key} : buckets'[k] = buckets[k]
      /\ admitted'[addr] = Append(admitted[addr], now)
      /\ \A a \in Peers \ {addr} : admitted'[a] = admitted[a]
  BY <1>1 DEF LimiterTypeOK
<1>5. LimiterTypeOK'
  <2> DEFINE times == 0 .. MaxTime
  <2>1. admitted \in [Peers -> Seq(times)] /\ now \in times
    BY <1>1 DEF LimiterTypeOK
  <2>2. Append(admitted[addr], now) \in Seq(times)
    <3> HIDE DEF times
    <3> QED
      BY <2>1
  <2>3. admitted' \in [Peers -> Seq(times)]
    <3> HIDE DEF times
    <3> QED
      BY <2>1, <2>2
  <2> QED
    BY <1>1, <1>3, <2>3 DEF LimiterTypeOK
<1>6. \A k \in LimiterKeys : buckets'[k] # None => buckets'[k].last <= now'
  BY <1>1, <1>4, CapacityIsNat DEF LimiterInv
<1>7. Refilled(buckets[key])' = level - Unit
  BY <1>3, <1>4 DEF Refilled
<1>8. ASSUME ~TrustForwarded
      PROVE  (\A a \in Peers : WithinRate(a)') /\ AdmittedWithinRate'
  <2>1. /\ WithinRate(addr)'
        /\ \A i, j \in DOMAIN admitted'[addr] : i <= j =>
             (j - i + 1) * Unit <= Capacity + (admitted'[addr][j] - admitted'[addr][i]) * Rate
    BY <1>4, <1>7, <1>8, AdmittedStretch
  <2>2. ASSUME NEW a \in Peers \ {addr} PROVE WithinRate(a)'
    <3>1. buckets'[a] = buckets[a] /\ admitted'[a] = admitted[a] /\ WithinRate(a)
      BY <1>4, <1>8 DEF LimiterInv, LimiterKeys
    <3> QED
      BY <3>1, LevelOfSameBucket, SameStretch
  <2>3. ASSUME NEW a \in Peers \ {addr}, NEW i \in DOMAIN admitted'[a], NEW j \in DOMAIN admitted'[a], i <= j
        PROVE  (j - i + 1) * Unit <= Capacity + (admitted'[a][j] - admitted'[a][i]) * Rate
    BY <1>4, <1>8, <2>3 DEF LimiterInv, AdmittedWithinRate
  <2> QED
    BY <2>1, <2>2, <2>3 DEF AdmittedWithinRate
<1> QED
  BY <1>5, <1>6, <1>8 DEF LimiterInv

LEMMA AllowKeeps ==
  ASSUME LimiterInv, NEW addr \in Peers, NEW fwd \in Forwarded \cup {None}, Allow(addr, fwd)
  PROVE  LimiterInv'
<1> DEFINE key == ClientKey(addr, fwd)
<1>1. key \in LimiterKeys /\ (~TrustForwarded => key = addr)
  BY DEF ClientKey, LimiterKeys
<1>2. Refilled(buckets[key]) \in 0 .. Capacity
  BY <1>1, LevelFits DEF LimiterInv
<1>3. CASE Refilled(buckets[key]) < Unit
  BY <1>1, <1>3, RefusedKeeps DEF Allow
<1>4. CASE ~(Refilled(buckets[key]) < Unit)
  <2>1. Unit <= Refilled(buckets[key])
    BY <1>2, <1>4, CapacityIsNat
  <2> QED
    BY <1>1, <1>4, <2>1, AdmittedKeeps DEF Allow
<1> QED
  BY <1>3, <1>4

\* A bucket the sweep takes has filled up.
LEMMA IdleIsFull ==
  ASSUME LimiterTypeOK, NEW k \in LimiterKeys, buckets[k] # None, buckets[k].last < now - IdleFor
  PROVE  Refilled(buckets[k]) = Capacity
<1>1. /\ now \in Nat /\ buckets[k].last \in Nat /\ buckets[k].tokens \in Nat
      /\ IdleFor \in Nat /\ IdleFor * Rate >= Capacity /\ IdleFor * Rate \in Nat
  BY CapacityIsNat, LimiterAssumption DEF LimiterTypeOK, Bucket, Capacity
<1>2. IdleFor <= now - buckets[k].last /\ now - buckets[k].last \in Nat
  BY <1>1
<1>3. IdleFor * Rate <= (now - buckets[k].last) * Rate /\ (now - buckets[k].last) * Rate \in Nat
  BY <1>1, <1>2, CapacityIsNat, TimesMonotone
<1> QED
  BY <1>1, <1>3, CapacityIsNat DEF Refilled

LEMMA SweepKeeps ==
  ASSUME LimiterInv, Sweep
  PROVE  LimiterInv'
<1>1. LimiterTypeOK' /\ now' = now /\ admitted' = admitted /\ LimiterTypeOK
  BY DEF LimiterInv, LimiterTypeOK, Sweep
<1>2. \A k \in LimiterKeys : buckets'[k] # None => buckets'[k].last <= now'
  BY DEF LimiterInv, Sweep
<1>3. ASSUME NEW k \in LimiterKeys PROVE Refilled(buckets[k])' = Refilled(buckets[k])
  <2>1. CASE buckets[k] # None /\ buckets[k].last < now - IdleFor
    BY <1>1, <2>1, IdleIsFull DEF Sweep, Refilled
  <2>2. CASE ~(buckets[k] # None /\ buckets[k].last < now - IdleFor)
    <3>1. buckets'[k] = buckets[k]
      BY <2>2 DEF Sweep
    <3> QED
      BY <1>1, <3>1 DEF Refilled
  <2> QED
    BY <2>1, <2>2
<1>4. ~TrustForwarded => \A a \in Peers : WithinRate(a)'
  BY <1>1, <1>3, SameStretch DEF LimiterInv, LimiterKeys
<1> QED
  BY <1>1, <1>2, <1>4 DEF LimiterInv, AdmittedWithinRate

\* A level rises by no more than the refill of the step.
LEMMA LevelRises ==
  ASSUME LimiterInv, NEW k \in LimiterKeys, now' = now + 1, buckets' = buckets
  PROVE  Refilled(buckets[k])' <= Refilled(buckets[k]) + Rate
<1>1. CASE buckets[k] = None
  BY <1>1, CapacityIsNat DEF Refilled
<1>2. CASE buckets[k] # None
  <2>1. buckets[k].tokens \in Nat /\ buckets[k].last \in Nat /\ now \in Nat /\ buckets[k].last <= now
    BY <1>2, CapacityIsNat DEF LimiterInv, LimiterTypeOK, Bucket
  <2> DEFINE since == now - buckets[k].last
  <2>2. since \in Nat /\ now + 1 - buckets[k].last = since + 1
    BY <2>1
  <2>3. (since + 1) * Rate = since * Rate + Rate /\ since * Rate \in Nat
    <3> HIDE DEF since
    <3> QED
      BY <2>2, CapacityIsNat
  <2>4. (now + 1 - buckets[k].last) * Rate = (now - buckets[k].last) * Rate + Rate
    BY <2>2, <2>3
  <2> QED
    BY <1>2, <2>1, <2>3, <2>4, CapacityIsNat DEF Refilled
<1> QED
  BY <1>1, <1>2

LEMMA TimePassesKeeps ==
  ASSUME LimiterInv, TimePasses
  PROVE  LimiterInv'
<1>1. /\ LimiterTypeOK /\ now \in 0 .. MaxTime /\ now' = now + 1 /\ now' \in 0 .. MaxTime
      /\ buckets' = buckets /\ admitted' = admitted
  BY CapacityIsNat DEF LimiterInv, LimiterTypeOK, TimePasses
<1>2. LimiterTypeOK'
  BY <1>1 DEF LimiterTypeOK
<1>3. ASSUME NEW k \in LimiterKeys, buckets'[k] # None PROVE buckets'[k].last <= now'
  BY <1>1, <1>3, CapacityIsNat DEF LimiterInv, LimiterTypeOK, Bucket
<1>4. ASSUME ~TrustForwarded, NEW a \in Peers PROVE WithinRate(a)'
  <2> SUFFICES ASSUME NEW i \in DOMAIN admitted[a]
               PROVE  /\ admitted[a][i] <= now'
                      /\ (Len(admitted[a]) - i + 1) * Unit + Refilled(buckets[a])'
                           <= Capacity + (now' - admitted[a][i]) * Rate
    BY <1>1 DEF WithinRate
  <2> DEFINE times == 0 .. MaxTime
  <2>1. admitted[a] \in Seq(times)
    BY <1>1 DEF LimiterTypeOK
  <2>2. admitted[a][i] \in times /\ Len(admitted[a]) - i + 1 \in Nat
    <3> HIDE DEF times
    <3> QED
      BY <2>1
  <2>3. /\ admitted[a][i] <= now
        /\ (Len(admitted[a]) - i + 1) * Unit + Refilled(buckets[a])
             <= Capacity + (now - admitted[a][i]) * Rate
    BY <1>4 DEF LimiterInv, WithinRate
  <2>4. a \in LimiterKeys
    BY DEF LimiterKeys
  <2>5. /\ Refilled(buckets[a]) \in 0 .. Capacity /\ Refilled(buckets[a])' \in 0 .. Capacity
        /\ Refilled(buckets[a])' <= Refilled(buckets[a]) + Rate
    <3>1. Refilled(buckets[a])' \in 0 .. Capacity
      <4>1. /\ buckets'[a] # None => buckets'[a].tokens \in 0 .. Capacity /\ buckets'[a].last \in Nat
            /\ buckets'[a] # None => buckets'[a].last <= now'
            /\ now' \in Nat
        BY <1>1, <1>3, <2>4, CapacityIsNat DEF LimiterTypeOK, Bucket
      <4>2. CASE buckets'[a] = None
        BY <4>2, CapacityIsNat DEF Refilled
      <4>3. CASE buckets'[a] # None
        <5>1. now' - buckets'[a].last \in Nat
          BY <4>1, <4>3
        <5>2. (now' - buckets'[a].last) * Rate \in Nat
          BY <5>1, CapacityIsNat
        <5> QED
          BY <4>1, <4>3, <5>2, CapacityIsNat DEF Refilled
      <4> QED
        BY <4>2, <4>3
    <3> QED
      BY <1>1, <2>4, <3>1, LevelFits, LevelRises DEF LimiterInv
  <2> DEFINE got == (Len(admitted[a]) - i + 1) * Unit
             since == now - admitted[a][i]
             level == Refilled(buckets[a])
  <2>6. got \in Nat
    BY <2>2, CapacityIsNat
  <2>7. since \in Nat /\ now' - admitted[a][i] = since + 1 /\ admitted[a][i] <= now'
    <3>1. now \in Nat /\ admitted[a][i] \in Nat /\ admitted[a][i] <= now /\ now' = now + 1
      BY <1>1, <2>2, <2>3, CapacityIsNat
    <3> HIDE DEF times
    <3> QED
      BY <3>1
  <2>8. (since + 1) * Rate = since * Rate + Rate /\ since * Rate \in Nat
    <3> HIDE DEF since
    <3> QED
      BY <2>7, CapacityIsNat
  <2>9. got + level <= Capacity + since * Rate /\ level \in Nat /\ level' \in Nat /\ level' <= level + Rate
    BY <2>3, <2>5, CapacityIsNat
  <2>10. got + level' <= Capacity + (since + 1) * Rate
    <3> HIDE DEF got, since, level
    <3> QED
      BY <2>6, <2>8, <2>9, CapacityIsNat
  <2> QED
    BY <2>7, <2>10
<1> QED
  BY <1>1, <1>2, <1>3, <1>4 DEF LimiterInv, AdmittedWithinRate

\* The limiter's state keeps its shape, and what an address was let through stays
\* within its rate, with what it could take at once counted in.
THEOREM LimiterInvariant == LimiterSpec => []LimiterInv
<1>1. LimiterInit => LimiterInv
  <2> SUFFICES ASSUME LimiterInit PROVE LimiterInv
    OBVIOUS
  <2>1. LimiterTypeOK
    BY LimiterAssumption DEF LimiterInit, LimiterTypeOK
  <2> QED
    BY <2>1 DEF LimiterInit, LimiterInv, WithinRate, AdmittedWithinRate
<1>2. LimiterInv /\ [LimiterNext]_limiterVars => LimiterInv'
  <2> SUFFICES ASSUME LimiterInv, [LimiterNext]_limiterVars PROVE LimiterInv'
    OBVIOUS
  <2>1. CASE UNCHANGED limiterVars
    BY <2>1 DEF LimiterInv, limiterVars, LimiterTypeOK, WithinRate, Refilled, AdmittedWithinRate
  <2> QED
    BY <2>1, AllowKeeps, SweepKeeps, TimePassesKeeps DEF LimiterNext
<1> QED
  BY <1>1, <1>2, PTL DEF LimiterSpec

\* In every stretch of time an address gets at most one burst and what was refilled
\* meanwhile, for any burst, rate and sweep that waits for a bucket to fill: while the
\* header X-Forwarded-For is not trusted, whoever connects is told by his address.
THEOREM AdmittedAlwaysWithinRate == ~TrustForwarded => (LimiterSpec => []AdmittedWithinRate)
<1> SUFFICES ASSUME ~TrustForwarded PROVE LimiterSpec => []AdmittedWithinRate
  OBVIOUS
<1>1. LimiterInv => AdmittedWithinRate
  BY DEF LimiterInv
<1> QED
  BY <1>1, LimiterInvariant, PTL
==============================================================================
