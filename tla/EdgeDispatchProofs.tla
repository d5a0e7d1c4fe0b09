------------------------- MODULE EdgeDispatchProofs -------------------------
(* Theorems about EdgeDispatch: what the backend guarantees of its plans   *)
(* also holds of the older ones that nginx hands out.                      *)
EXTENDS EdgeDispatch, DispatchProofs

-----------------------------------------------------------------------------
(* The inductive invariant: that of Dispatch, and every order nginx keeps  *)
(* in an answer has been claimed.                                          *)
EdgeClaim ==
  /\ edge \in [Capacities -> Answers \cup {NoPlan}]
  /\ up \in BOOLEAN
  /\ \A k \in Capacities : edge[k] # NoPlan => edge[k].orders \subseteq Claimed

EdgeIInv == IInv /\ EdgeClaim

(* Most of what happens behind nginx is a step of the backend as it is.    *)
LEMMA BackendSteps ==
  ASSUME EdgeNext,
         \A r \in Robots : ~Refuse(r) /\ \A k \in Capacities : ~Hit(r, k)
  PROVE  [Next]_vars
<1>1. ASSUME NEW c \in Calls, Step(c) \/ LoseCall(c)
      PROVE  Next
  BY <1>1 DEF Step, BackendStep, Answer, LoseCall, Next, CallStep
<1>2. ASSUME NEW r \in Robots, RobotAsks(r)
      PROVE  Next
  BY <1>2 DEF RobotAsks, Miss, Report, Next, RobotMove
<1>3. ASSUME NEW s \in Shoppers, NEW c \in Calls, NEW basket \in Requests,
             Order(c, s, basket)
      PROVE  Next
  BY <1>3 DEF Order, Next, ShopperMove
<1>4. ASSUME NEW k \in Capacities, BackendExpires(k)
      PROVE  Next
  BY <1>4 DEF BackendExpires, Next
<1>5. ASSUME NEW k \in Capacities, Age(k) \/ Drop(k)
      PROVE  UNCHANGED vars
  BY <1>5 DEF Age, Drop
<1>6. CASE GoDown
  BY <1>6 DEF GoDown, Next
<1>7. CASE ComeBack
  BY <1>7 DEF ComeBack
<1>8. QED
  BY <1>1, <1>2, <1>3, <1>4, <1>5, <1>6, <1>7 DEF EdgeNext

(* A robot that nginx serves or refuses is left with claimed orders only.  *)
LEMMA EdgeServes ==
  ASSUME EdgeIInv, NEW r \in Robots, Refuse(r) \/ \E k \in Capacities : Hit(r, k)
  PROVE  EdgeIInv'
<1> USE DEF EdgeIInv, EdgeClaim, IInv, ClaimIInv
<1>1. UNCHANGED <<status, item, nextId, cache, call, accepted, delivered, faults, edge, up>>
  BY DEF Refuse, Hit, database, history, proxy
<1>2. /\ todo' = [todo EXCEPT ![r] = todo'[r]]
      /\ todo'[r] \subseteq Claimed
  BY DEF Refuse, Hit, ServedByEdge, Fresh, TypeOK
<1>3. todo' \in [Robots -> SUBSET Orders] /\ \A q \in Robots : todo'[q] \subseteq Claimed
  BY <1>2 DEF TypeOK, Claimed, ClaimInv
<1>4. TypeOK'
  BY <1>1, <1>3 DEF TypeOK
<1>5. CallShape' /\ FreshIds'
  BY <1>1 DEF CallShape, FreshIds, At, Placed
<1>6. ClaimInv'
  BY <1>1, <1>3 DEF ClaimInv, Claimed, Placed
<1>7. FreshnessInv' /\ RepeatInv'
  BY <1>1 DEF FreshnessInv, RepeatInv, Announced, Reported, Placed, Claimed, At,
              HasPlan, Planning, ShippingOrders, WeightOf
<1>8. EdgeClaim'
  BY <1>1 DEF Claimed
<1>9. QED
  BY <1>4, <1>5, <1>6, <1>7, <1>8

(* An answer passes after its COMMIT, and no step takes a claim back.      *)
LEMMA EdgeKeepsClaims ==
  ASSUME EdgeIInv, IInv', RowsAdvance, EdgeNext
  PROVE  EdgeClaim'
<1> USE DEF EdgeIInv, EdgeClaim, IInv, ClaimIInv
<1>1. Claimed \subseteq Claimed'
  BY DEF RowsAdvance
<1>2. ASSUME NEW c \in Calls, Answer(c)
      PROVE  EdgeClaim'
  <2>1. call[c].op = "plan" =>
          /\ call[c].cap \in Capacities
          /\ call[c].work \subseteq Claimed
          /\ call[c].work \subseteq Orders
    BY <1>2 DEF Answer, Reply, CallShape, ClaimInv, TypeOK, CallRecords
  <2>2. QED
    BY <1>1, <1>2, <2>1 DEF Answer, Answers
<1>3. ASSUME NEW k \in Capacities, Age(k) \/ Drop(k)
      PROVE  EdgeClaim'
  <2>1. /\ edge'[k] # NoPlan => edge[k] # NoPlan /\ edge'[k].orders = edge[k].orders
        /\ edge' \in [Capacities -> Answers \cup {NoPlan}]
        /\ \A l \in Capacities \ {k} : edge'[l] = edge[l]
        /\ UNCHANGED up
    BY <1>3 DEF Age, Drop, Fresh, Answers
  <2>2. QED
    BY <1>1, <2>1
<1>4. ASSUME UNCHANGED edge, up' \in BOOLEAN
      PROVE  EdgeClaim'
  BY <1>1, <1>4
<1>5. QED
  BY <1>2, <1>3, <1>4
     DEF EdgeNext, Step, BackendStep, LoseCall, RobotAsks, Hit, Miss, Report, Refuse,
         Order, BackendExpires, GoDown, ComeBack, proxy

(* Every step behind nginx keeps the invariant.                            *)
LEMMA EdgeInductive ==
  /\ EdgeInit => EdgeIInv
  /\ EdgeIInv /\ [EdgeNext]_edgeVars => EdgeIInv'
<1>1. ASSUME EdgeInit
      PROVE  EdgeIInv
  BY <1>1, IInvInductive DEF EdgeInit, EdgeIInv, EdgeClaim
<1>2. ASSUME EdgeIInv, EdgeNext
      PROVE  EdgeIInv'
  <2>1. CASE \E r \in Robots : Refuse(r) \/ \E k \in Capacities : Hit(r, k)
    BY <1>2, <2>1, EdgeServes
  <2>2. CASE \A r \in Robots : ~Refuse(r) /\ \A k \in Capacities : ~Hit(r, k)
    <3>1. [Next]_vars
      BY <1>2, <2>2, BackendSteps
    <3>2. IInv' /\ RowsAdvance
      BY <1>2, <3>1, IInvInductive, RowsAdvanceStep DEF EdgeIInv, IInv, ClaimIInv
    <3>3. QED
      BY <1>2, <3>2, EdgeKeepsClaims DEF EdgeIInv
  <2>3. QED
    BY <2>1, <2>2
<1>3. ASSUME EdgeIInv, UNCHANGED edgeVars
      PROVE  EdgeIInv'
  <2>1. UNCHANGED vars /\ UNCHANGED <<edge, up, status>>
    BY <1>3 DEF edgeVars, proxy, vars
  <2>2. IInv'
    BY <1>3, <2>1, IInvInductive DEF EdgeIInv
  <2>3. QED
    BY <1>3, <2>1, <2>2 DEF EdgeIInv, EdgeClaim, Claimed
<1>4. QED
  BY <1>1, <1>2, <1>3

(* The orders of every plan that nginx keeps have been claimed and stay so: *)
(* however late it is handed out, the backend does not plan them again      *)
(* beside it.                                                               *)
THEOREM EdgePlansClaimed == EdgeSpec => []EdgePlansAreClaimed
<1>1. EdgeIInv => EdgePlansAreClaimed
  BY DEF EdgeIInv, EdgeClaim, EdgePlansAreClaimed, Claimed
<1>2. QED
  BY <1>1, EdgeInductive, PTL DEF EdgeSpec

(* What nginx takes in repeats an order that its robot has reported as      *)
(* completed only if that report and the plan raced, whichever way the plan *)
(* came through the backend.                                                *)
THEOREM EdgeTakesInOnlyRaced == EdgeSpec => TakesInOnlyRacedRepeats
<1>1. ASSUME EdgeIInv, NEW c \in Calls, Answer(c), call[c].op = "plan"
      PROVE  call[c].work \cap delivered \subseteq call[c].raced
  <2>1. HasPlan(c)
    BY <1>1 DEF Answer, Reply, HasPlan, At
  <2>2. delivered \subseteq Reported
    BY DEF Reported
  <2> QED
    BY <1>1, <2>1, <2>2 DEF EdgeIInv, IInv, RepeatInv
<1>2. EdgeIInv => RepeatsInAnswerRaced
  BY <1>1 DEF RepeatsInAnswerRaced
<1> QED
  BY <1>2, EdgeInductive, PTL DEF EdgeSpec, TakesInOnlyRacedRepeats

(* Robots that are served by nginx complete orders twice, which flushes the *)
(* backend's cache out of turn; its bound on what the cache misses stands.  *)
THEOREM EdgeCacheMissesBounded == EdgeSpec => []CacheMissesOnlyRacedOrders
<1>1. EdgeIInv => CacheMissesOnlyRacedOrders
  BY DEF EdgeIInv, IInv, FreshnessInv, Announced, CacheMissesOnlyRacedOrders
<1>2. QED
  BY <1>1, EdgeInductive, PTL DEF EdgeSpec

(* Nor does nginx ever send a robot a plan that takes a completed order     *)
(* back: what it answers writes no row.                                     *)
THEOREM EdgeCompletionUndone == EdgeSpec => CompletionUndoneOnlyByRacingPlan
<1>1. ASSUME EdgeIInv, [EdgeNext]_edgeVars
      PROVE  [UndoneByRacingPlan]_vars
  <2>1. CASE \E r \in Robots : Refuse(r) \/ \E k \in Capacities : Hit(r, k)
    BY <2>1 DEF Refuse, Hit, database, UndoneByRacingPlan
  <2>2. CASE [Next]_vars
    BY <1>1, <2>2, UndoneStep DEF EdgeIInv
  <2>3. QED
    BY <1>1, <2>1, <2>2, BackendSteps DEF edgeVars
<1>2. QED
  BY <1>1, EdgeInductive, PTL DEF EdgeSpec, CompletionUndoneOnlyByRacingPlan

-----------------------------------------------------------------------------
(* Capacities behind nginx                                                  *)

EdgeFit == \A k \in Capacities : edge[k] # NoPlan => Fits(edge[k].orders, k)

EdgeFitIInv == EdgeIInv /\ PlansFitCapacity /\ EdgeFit

(* Rows advance behind nginx as they do before it.                          *)
LEMMA EdgeRowsAdvance ==
  ASSUME EdgeIInv, [EdgeNext]_edgeVars
  PROVE  RowsAdvance
<1>1. CASE UNCHANGED <<status, item>>
  BY <1>1 DEF RowsAdvance, Placed, Claimed
<1>2. CASE [Next]_vars
  BY <1>2, RowsAdvanceStep DEF EdgeIInv, IInv, ClaimIInv
<1>3. CASE \E r \in Robots : Refuse(r) \/ \E k \in Capacities : Hit(r, k)
  BY <1>1, <1>3 DEF Refuse, Hit, database
<1>4. QED
  BY <1>2, <1>3, BackendSteps DEF edgeVars

(* An answer nginx keeps fits the capacity it was asked for.                *)
LEMMA EdgeFitStep ==
  ASSUME EdgeFitIInv, TypeOK', [EdgeNext]_edgeVars
  PROVE  EdgeFit'
<1> DEFINE EntryFits(k) == edge[k] # NoPlan => Fits(edge[k].orders, k)
<1>1. \A k \in Capacities : k \in Nat
  BY ConstantsAssumption
<1>2. TypeOK /\ RowsAdvance
  BY EdgeRowsAdvance DEF EdgeFitIInv, EdgeIInv, IInv, ClaimIInv
<1>3. \A k \in Capacities : edge[k] # NoPlan =>
        edge[k].orders \in SUBSET Placed /\ Fits(edge[k].orders, k)
  BY DEF EdgeFitIInv, EdgeFit, EdgeIInv, EdgeClaim, Claimed, Placed
<1>4. ASSUME NEW k \in Capacities,
             edge'[k] # NoPlan => edge[k] # NoPlan /\ edge'[k].orders = edge[k].orders
      PROVE  EntryFits(k)'
  BY <1>1, <1>2, <1>3, <1>4, TypeOK', FitStays
<1> HIDE DEF EntryFits
<1>5. ASSUME NEW c \in Calls, Answer(c)
      PROVE  EdgeFit'
  <2>1. CASE call[c].op = "plan"
    <3>1. PICK k \in Capacities, P \in SUBSET Placed :
            k = call[c].cap /\ P = call[c].work /\ Fits(P, k)
      BY <2>1 DEF EdgeFitIInv, PlansFitCapacity, EdgeIInv, IInv, ClaimIInv, ClaimInv, CallShape
    <3>2. /\ edge'[k].orders = P
          /\ \A j \in Capacities \ {k} : edge'[j] = edge[j]
      BY <1>5, <2>1, <3>1 DEF Answer, EdgeFitIInv, EdgeIInv, EdgeClaim
    <3>3. Fits(P, k)'
      BY <1>1, <1>2, <3>1, TypeOK', FitStays
    <3>4. EntryFits(k)'
      BY <3>2, <3>3 DEF EntryFits
    <3> QED
      BY <1>4, <3>2, <3>4 DEF EdgeFit, EntryFits
  <2>2. CASE call[c].op # "plan"
    BY <1>4, <1>5, <2>2 DEF Answer, EdgeFit, EntryFits
  <2> QED
    BY <2>1, <2>2
<1>6. ASSUME NEW k \in Capacities, Age(k) \/ Drop(k)
      PROVE  EdgeFit'
  <2>1. /\ edge'[k] # NoPlan => edge[k] # NoPlan /\ edge'[k].orders = edge[k].orders
        /\ \A j \in Capacities \ {k} : edge'[j] = edge[j]
    BY <1>6 DEF Age, Drop, Fresh, EdgeFitIInv, EdgeIInv, EdgeClaim, Answers
  <2> QED
    BY <1>4, <2>1 DEF EdgeFit, EntryFits
<1>7. CASE UNCHANGED edge
  BY <1>4, <1>7 DEF EdgeFit, EntryFits
<1> QED
  BY <1>5, <1>6, <1>7
     DEF EdgeNext, Step, BackendStep, LoseCall, RobotAsks, Hit, Miss, Report, Refuse,
         Order, BackendExpires, GoDown, ComeBack, proxy, edgeVars

(* A robot that nginx serves gets what fits it, too.                        *)
LEMMA EdgeServesWhatFits ==
  ASSUME EdgeFitIInv, NEW r \in Robots, Refuse(r) \/ \E k \in Capacities : Hit(r, k)
  PROVE  PlansFitCapacity'
<1>1. UNCHANGED <<status, item, cache, call>>
  BY DEF Refuse, Hit, database
<1>2. /\ TypeOK /\ TypeOK' /\ RowsAdvance
      /\ \A k \in Capacities : k \in Nat
  BY <1>1, EdgeServes, ConstantsAssumption
     DEF EdgeFitIInv, EdgeIInv, IInv, ClaimIInv, RowsAdvance, Placed, Claimed
<1>3. ASSUME NEW k \in Capacities, NEW S \in SUBSET Placed, Fits(S, k)
      PROVE  Fits(S, k)'
  BY <1>2, <1>3, FitStays
<1>4. ASSUME NEW c \in Calls, call[c].op = "plan"
      PROVE  Fits(call[c].work, call[c].cap)'
  <2>1. PICK k \in Capacities, S \in SUBSET Placed :
          k = call[c].cap /\ S = call[c].work /\ Fits(S, k)
    BY <1>4 DEF EdgeFitIInv, PlansFitCapacity, EdgeIInv, IInv, ClaimIInv, ClaimInv, CallShape
  <2>2. Fits(S, k)' /\ k = call'[c].cap /\ S = call'[c].work
    BY <1>1, <1>3, <2>1
  <2> QED
    BY <2>2
<1>5. ASSUME NEW k \in Capacities, cache[k] # NoPlan
      PROVE  Fits(cache[k].orders, k)'
  <2>1. PICK S \in SUBSET Placed : S = cache[k].orders /\ Fits(S, k)
    BY <1>5 DEF EdgeFitIInv, PlansFitCapacity, EdgeIInv, IInv, ClaimIInv, ClaimInv, Claimed, Placed
  <2>2. Fits(S, k)' /\ S = cache'[k].orders
    BY <1>1, <1>3, <2>1
  <2> QED
    BY <2>2
<1>6. ASSUME NEW q \in Robots, todo'[q] # {}
      PROVE  \E k \in Capacities : Fits(todo[q], k)'
  <2>1. PICK k \in Capacities, S \in SUBSET Placed : S = todo'[q] /\ Fits(S, k)
    <3>1. todo \in [Robots -> SUBSET Orders]
      BY <1>2 DEF TypeOK
    <3>2. CASE q = r
      <4>1. PICK k \in Capacities : Hit(r, k)
        BY <1>6, <3>1, <3>2 DEF Refuse
      <4>2. todo'[q] = edge[k].orders /\ edge[k] # NoPlan
        BY <3>1, <3>2, <4>1 DEF Hit, ServedByEdge, Fresh
      <4> QED
        BY <4>2 DEF EdgeFitIInv, EdgeFit, EdgeIInv, EdgeClaim, Claimed, Placed
    <3>3. CASE q # r
      <4>1. todo'[q] = todo[q]
        BY <3>1, <3>3 DEF Refuse, Hit
      <4> QED
        BY <1>6, <4>1 DEF EdgeFitIInv, PlansFitCapacity, EdgeIInv, IInv, ClaimIInv, ClaimInv,
                          Claimed, Placed
    <3> QED
      BY <3>2, <3>3
  <2>2. Fits(S, k)' /\ S = todo'[q]
    BY <1>3, <2>1
  <2> QED
    BY <2>2
<1> QED
  BY <1>1, <1>4, <1>5, <1>6 DEF PlansFitCapacity

(* Neither of the two caches hands a robot more than it can carry: nginx    *)
(* keeps answers by the capacity in their URL.                              *)
THEOREM NobodyOverloadedBehindEdge == EdgeSpec => [](PlansFitCapacity /\ EdgeFit)
<1>1. EdgeInit => EdgeFitIInv
  BY EdgeInductive, FitIInvInductive DEF EdgeInit, EdgeFitIInv, FitIInv, EdgeFit
<1>2. ASSUME EdgeFitIInv, [EdgeNext]_edgeVars
      PROVE  EdgeFitIInv'
  <2>1. EdgeIInv' /\ TypeOK'
    BY <1>2, EdgeInductive DEF EdgeFitIInv, EdgeIInv, IInv, ClaimIInv
  <2>2. EdgeFit'
    BY <1>2, <2>1, EdgeFitStep
  <2>3. CASE \E r \in Robots : Refuse(r) \/ \E k \in Capacities : Hit(r, k)
    BY <1>2, <2>1, <2>2, <2>3, EdgeServesWhatFits DEF EdgeFitIInv
  <2>4. CASE [Next]_vars
    BY <1>2, <2>1, <2>2, <2>4, FitIInvInductive DEF EdgeFitIInv, FitIInv, EdgeIInv, IInv
  <2> QED
    BY <1>2, <2>3, <2>4, BackendSteps DEF edgeVars
<1>3. EdgeFitIInv => PlansFitCapacity /\ EdgeFit
  BY DEF EdgeFitIInv
<1> QED
  BY <1>1, <1>2, <1>3, PTL DEF EdgeSpec

-----------------------------------------------------------------------------
(* Behind nginx a robot may be sent to orders it has completed.  That       *)
(* happens between its calls, so no plan or report under way is disturbed.  *)

(* What nginx answers by itself leaves the calls and their owners alone.    *)
LEMMA EdgeServesOwner ==
  ASSUME TypeOK, OwnerInv, NEW r \in Robots, Refuse(r) \/ \E k \in Capacities : Hit(r, k)
  PROVE  OwnerInv'
<1>1. UNCHANGED <<call, faults>>
  BY DEF Refuse, Hit
<1>2. todo' = [todo EXCEPT ![r] = todo'[r]] /\ todo \in [Robots -> SUBSET Orders]
  BY DEF Refuse, Hit, TypeOK
<1>3. \A q \in Robots, d \in Calls :
        call[d].op = "plan" /\ call[d].by = q => todo'[q] = {}
  <2> SUFFICES ASSUME NEW q \in Robots, NEW d \in Calls, call[d].op = "plan", call[d].by = q
               PROVE  todo'[q] = {}
    OBVIOUS
  <2>1. todo[q] = {}
    BY DEF OwnerInv
  <2>2. CASE Refuse(r)
    BY <2>1, <2>2, <1>2 DEF Refuse
  <2>3. CASE \E k \in Capacities : Hit(r, k)
    <3>1. r # q
      BY <2>3 DEF Hit, Busy
    <3>2. \A v : [todo EXCEPT ![r] = v][q] = todo[q]
      BY <1>2, <3>1
    <3> QED
      BY <1>2, <2>1, <3>2
  <2> QED
    BY <2>2, <2>3
<1> QED
  BY <1>1, <1>3 DEF OwnerInv

EdgeHandoverIInv == EdgeIInv /\ HandoverIInv

(* What nginx serves takes an order from nobody: the robot had none left. *)
LEMMA HitDropsNothing ==
  ASSUME HandoverIInv, NEW r \in Robots, NEW k \in Capacities, Hit(r, k)
  PROVE  DropsOnlyByFault
<1>1. UNCHANGED <<status, call>>
  BY DEF Hit, database
<1>2. \A q \in Robots : todo[q] \subseteq todo'[q]
  BY DEF Hit, HandoverIInv, TypeOK
<1>3. \A q \in Robots, o \in Orders : Keeps(q, o) => Keeps(q, o)'
  BY <1>1, <1>2 DEF Keeps, Completes
<1>4. \A c \in Calls, o \in Orders : Carries(c, o) => Carries(c, o)'
  BY <1>1 DEF Carries
<1> QED
  BY <1>1, <1>3, <1>4 DEF DropsOnlyByFault, UnderWay, InGoodHands

(* Every step behind nginx leaves each call with one client. *)
LEMMA EdgeHandoverInductive ==
  /\ EdgeInit => EdgeHandoverIInv
  /\ EdgeHandoverIInv /\ [EdgeNext]_edgeVars => EdgeHandoverIInv'
<1>1. EdgeInit => EdgeHandoverIInv
  BY EdgeInductive, HandoverIInvInductive DEF EdgeInit, EdgeHandoverIInv
<1>2. ASSUME EdgeHandoverIInv, NEW r \in Robots,
             Refuse(r) \/ \E k \in Capacities : Hit(r, k)
      PROVE  EdgeHandoverIInv'
  <2>1. EdgeIInv' /\ TypeOK' /\ CallShape'
    BY <1>2, EdgeServes DEF EdgeHandoverIInv, EdgeIInv, IInv, ClaimIInv
  <2>2. OwnerInv'
    BY <1>2, EdgeServesOwner DEF EdgeHandoverIInv, HandoverIInv
  <2> QED
    BY <2>1, <2>2 DEF EdgeHandoverIInv, HandoverIInv
<1>3. ASSUME EdgeHandoverIInv, [EdgeNext]_edgeVars, [Next]_vars
      PROVE  EdgeHandoverIInv'
  BY <1>3, EdgeInductive, HandoverIInvInductive DEF EdgeHandoverIInv
<1> QED
  BY <1>1, <1>2, <1>3, BackendSteps DEF edgeVars

(* As long as the backend takes connections, nobody behind nginx drops an   *)
(* order without a fault either: what nginx answers in the backend's place  *)
(* only adds to a robot's list (nginx.conf, the delivery plan's location).  *)
(* While it is down, robots do give up what they have.                      *)
THEOREM EdgeDropsNeedFault == EdgeSpec => [][up => DropsOnlyByFault]_edgeVars
<1>1. EdgeHandoverIInv /\ [EdgeNext]_edgeVars => [up => DropsOnlyByFault]_edgeVars
  <2> SUFFICES ASSUME EdgeHandoverIInv, [EdgeNext]_edgeVars, up
               PROVE  DropsOnlyByFault
    OBVIOUS
  <2>1. CASE [Next]_vars
    BY <2>1, DropStep DEF EdgeHandoverIInv, HandoverIInv
  <2>2. CASE \E r \in Robots, k \in Capacities : Hit(r, k)
    BY <2>2, HitDropsNothing DEF EdgeHandoverIInv
  <2>3. ~\E r \in Robots : Refuse(r)
    BY DEF Refuse
  <2>4. UNCHANGED edgeVars => UNCHANGED vars
    BY DEF edgeVars
  <2> QED
    BY <2>1, <2>2, <2>3, <2>4, BackendSteps
<1> QED
  BY <1>1, EdgeHandoverInductive, PTL DEF EdgeSpec

EdgeLifecycleIInv == EdgeIInv /\ LifecycleIInv

(* The same for what else the life of an order rests on.                    *)
LEMMA EdgeServesLifecycle ==
  ASSUME EdgeLifecycleIInv, NEW r \in Robots, Refuse(r) \/ \E k \in Capacities : Hit(r, k)
  PROVE  LifecycleIInv' /\ UNCHANGED status
<1>1. UNCHANGED <<status, call, faults>>
  BY DEF Refuse, Hit, database
<1>2. ClaimIInv'
  BY EdgeServes DEF EdgeLifecycleIInv, EdgeIInv, IInv
<1>3. OwnerInv'
  BY EdgeServesOwner DEF EdgeLifecycleIInv, LifecycleIInv, ClaimIInv
<1>4. AllHaveClients' /\ ReportsOfOne' /\ PlansAreOfShipping'
  BY <1>1 DEF EdgeLifecycleIInv, LifecycleIInv, AllHaveClients, ReportsOfOne, PlansAreOfShipping
<1> QED
  BY <1>1, <1>2, <1>3, <1>4 DEF LifecycleIInv

(* Every step behind nginx keeps it, and is a step of an order's life.      *)
LEMMA EdgeLifecycleInductive ==
  ASSUME OneRobot, NobodyLeaves
  PROVE  /\ EdgeInit => EdgeLifecycleIInv
         /\ EdgeLifecycleIInv /\ [EdgeNext]_edgeVars =>
              EdgeLifecycleIInv' /\ [Lifecycle!Next]_status
<1>1. ASSUME EdgeInit
      PROVE  EdgeLifecycleIInv
  BY <1>1, EdgeInductive, LifecycleIInvInductive DEF EdgeInit, EdgeLifecycleIInv
<1>2. ASSUME EdgeLifecycleIInv, [EdgeNext]_edgeVars
      PROVE  EdgeLifecycleIInv' /\ [Lifecycle!Next]_status
  <2>1. EdgeIInv'
    BY <1>2, EdgeInductive DEF EdgeLifecycleIInv
  <2>2. CASE \E r \in Robots : Refuse(r) \/ \E k \in Capacities : Hit(r, k)
    BY <1>2, <2>1, <2>2, EdgeServesLifecycle DEF EdgeLifecycleIInv
  <2>3. CASE [Next]_vars
    BY <1>2, <2>1, <2>3, LifecycleIInvInductive, LifecycleStep DEF EdgeLifecycleIInv
  <2>4. CASE /\ EdgeNext
             /\ \A r \in Robots : ~Refuse(r) /\ \A k \in Capacities : ~Hit(r, k)
    BY <2>3, <2>4, BackendSteps
  <2>5. CASE UNCHANGED edgeVars
    BY <2>3, <2>5 DEF edgeVars
  <2> QED
    BY <1>2, <2>2, <2>4, <2>5
<1> QED
  BY <1>1, <1>2

(* With one robot that waits for its answers the deployed system implements *)
(* the life of an order of the order history page, whatever either cache    *)
(* answers, and however often requests fail or the backend restarts.        *)
THEOREM OneRobotKeepsLifecycleBehindEdge ==
  ASSUME OneRobot, NobodyLeaves
  PROVE  EdgeSpec => ImplementsLifecycle
<1>1. EdgeInit => Lifecycle!Init
  BY DEF EdgeInit, Init, Lifecycle!Init
<1> QED
  BY <1>1, EdgeLifecycleInductive, PTL DEF EdgeSpec, ImplementsLifecycle, Lifecycle!Spec
=============================================================================
