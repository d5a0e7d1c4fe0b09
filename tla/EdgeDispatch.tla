---------------------------- MODULE EdgeDispatch ----------------------------
(***************************************************************************)
(* The dispatch as a deployed robot sees it: behind nginx (nginx.conf),    *)
(* which keeps answers to delivery-plan requests for five seconds, one per *)
(* capacity, and never learns of a Flush.  It serves an older answer while *)
(* it fetches a new one or while the backend is down.                      *)
(***************************************************************************)
EXTENDS Dispatch

VARIABLES
  edge,  \* nginx's cache: capacity -> answer or NoPlan
  up     \* the backend takes connections

proxy == <<edge, up>>
edgeVars == <<vars, proxy>>

Answers == [orders : SUBSET Orders, fresh : BOOLEAN]

EdgeInit ==
  /\ Init
  /\ edge = [k \in Capacities |-> NoPlan]
  /\ up = TRUE

-----------------------------------------------------------------------------
(* proxy_cache_valid 200 5s; proxy_cache_use_stale error timeout updating  *)

Fresh(k) == edge[k] # NoPlan /\ edge[k].fresh

(* Mutant: an old answer is served as long as there is one. *)
AlwaysStale(k) == TRUE

(* Somebody fetches the answer anew.  A robot that gets a stale answer      *)
(* because its own fetch takes too long has left the call and hits.        *)
Updating(k) == \E c \in Calls : call[c].op = "plan" /\ call[c].cap = k

ServedByEdge(k) == Fresh(k) \/ (edge[k] # NoPlan /\ (Updating(k) \/ ~up))

(* A plan request that nginx answers itself. *)
Hit(r, k) ==
  /\ todo[r] = {}
  /\ ~Busy(r)
  /\ ServedByEdge(k)
  /\ todo' = [todo EXCEPT ![r] = edge[k].orders]
  /\ UNCHANGED <<database, cache, call, history, faults, proxy>>

(* One that it passes on. *)
Miss(c, r, k) ==
  /\ ~ServedByEdge(k)
  /\ up
  /\ StartPlan(c, r, k)
  /\ UNCHANGED proxy

(* Everything else goes to the backend: location /api/. *)
Report(c, r, o) == up /\ StartStatus(c, r, o) /\ UNCHANGED proxy

Order(c, s, basket) == up /\ StartCreate(c, s, basket) /\ UNCHANGED proxy

(* An answer of the backend passes through; that to a plan request is      *)
(* kept, also when the robot has gone, whose request nginx carries on.     *)
Answer(c) ==
  /\ Reply(c)
  /\ edge' = IF call[c].op = "plan"
             THEN [edge EXCEPT ![call[c].cap] = [orders |-> call[c].work, fresh |-> TRUE]]
             ELSE edge
  /\ UNCHANGED up

(* Five seconds later the answer is stale, inactive=10s later it is gone.  *)
(* (Mutant: an answer without orders stays.)                               *)
AgeUnlessEmpty(k) ==
  /\ Fresh(k)
  /\ edge[k].orders # {}
  /\ edge' = [edge EXCEPT ![k].fresh = FALSE]
  /\ UNCHANGED <<vars, up>>

Age(k) ==
  /\ Fresh(k)
  /\ edge' = [edge EXCEPT ![k].fresh = FALSE]
  /\ UNCHANGED <<vars, up>>

Drop(k) ==
  /\ edge[k] # NoPlan
  /\ ~edge[k].fresh
  /\ edge' = [edge EXCEPT ![k] = NoPlan]
  /\ UNCHANGED <<vars, up>>

(* The backend restarts.  Until it is back nginx answers a status update   *)
(* with an error, at which a robot gives the iteration up.                 *)
GoDown == Crash /\ up' = FALSE /\ UNCHANGED edge

Refuse(r) ==
  /\ ~up
  /\ todo[r] # {}
  /\ todo' = [todo EXCEPT ![r] = {}]
  /\ UNCHANGED <<database, cache, call, history, faults, proxy>>

ComeBack ==
  /\ ~up
  /\ up' = TRUE
  /\ UNCHANGED <<vars, edge>>

-----------------------------------------------------------------------------
BackendStep(c) ==
  /\ Select(c) \/ Update(c) \/ CachePlan(c) \/ Exec(c) \/ Commit(c) \/ Flush(c)
  /\ UNCHANGED proxy

Step(c) == BackendStep(c) \/ Answer(c)

BackendExpires(k) == Expire(k) /\ UNCHANGED proxy

RobotAsks(r) ==
  \/ \E k \in Capacities : Hit(r, k) \/ \E c \in Calls : Miss(c, r, k)
  \/ \E c \in Calls, o \in Orders : Report(c, r, o)

LoseCall(c) == (Leave(c) \/ Fail(c)) /\ UNCHANGED proxy

EdgeNext ==
  \/ \E c \in Calls : Step(c) \/ LoseCall(c)
  \/ \E r \in Robots : RobotAsks(r) \/ Refuse(r)
  \/ \E s \in Shoppers, c \in Calls, basket \in Requests : Order(c, s, basket)
  \/ \E k \in Capacities : BackendExpires(k) \/ Age(k) \/ Drop(k)
  \/ GoDown \/ ComeBack

EdgeSpec == EdgeInit /\ [][EdgeNext]_edgeVars

(* Goroutines, the database and both caches' clocks go on, robots poll and *)
(* the backend returns.                                                    *)
EdgeFairSpec ==
  /\ EdgeSpec
  /\ \A c \in Calls : WF_edgeVars(Step(c))
  /\ \A r \in Robots : WF_edgeVars(RobotAsks(r))
  /\ \A k \in Capacities : WF_edgeVars(BackendExpires(k)) /\ WF_edgeVars(Age(k))
  /\ WF_edgeVars(ComeBack)

-----------------------------------------------------------------------------
(* Properties *)

(* However old the plan is that nginx hands out, its orders were claimed   *)
(* when the answer passed, and no fault or restart has released one since: *)
(* the backend never has them in a plan of its own beside it.              *)
EdgePlansAreClaimed ==
  \A k \in Capacities : edge[k] # NoPlan =>
    \A o \in edge[k].orders : status[o] \in {"delivering", "completed"}

(* What nginx takes in is not outdated already: the repeats of an answer   *)
(* are counted from the moment it passes.  A plan with an order whose      *)
(* completion its robot was told of, computed or taken from the plan       *)
(* cache, only passes if the report's Flush overtook it on its way.        *)
RepeatsInAnswerRaced ==
  \A c \in Calls : Answer(c) /\ call[c].op = "plan" =>
    call[c].work \cap delivered \subseteq call[c].raced

TakesInOnlyRacedRepeats == [][RepeatsInAnswerRaced]_edgeVars

(* Both caches together delay an order but do not lose it: while nothing   *)
(* fails, every order is delivered in the end.                             *)
DeliveredBehindEdge ==
  \A o \in Orders : status[o] = "shipping" ~> (status[o] = "completed" \/ faults > 0)

(* nginx does send robots to orders they have reported, again and again    *)
(* for five seconds and without any race; but that ends: a stale answer is *)
(* replaced by one computed after the report.                              *)
RepeatsEnd ==
  <>[](\A r \in Robots : todo[r] \cap delivered = {})
=============================================================================
