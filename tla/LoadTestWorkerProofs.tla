------------------------ MODULE LoadTestWorkerProofs ------------------------
(* Theorems about LoadTestWorker: they hold for any number of workers,      *)
(* requests, teams and faults.                                              *)
EXTENDS LoadTestWorker, FiniteSetTheorems, TLAPS

-----------------------------------------------------------------------------
(* The inductive invariant, in parts.                                       *)

Handles(w, r) == pc[w] # "idle" /\ request[w] = r

(* Unless it overran, the message of a handled request is hidden, a single  *)
(* worker handles it, and that worker's pop receipt is the latest.          *)
QueueInv ==
  /\ \A r \in Requests \ overrun : Handled(r) => message[r] = "hidden"
  /\ \A r \in Requests \ overrun : \A v, w \in Workers :
       Handles(v, r) /\ Handles(w, r) => v = w
  /\ \A w \in Workers : pc[w] # "idle" /\ request[w] \notin overrun => w \in receipt

(* Requests whose row tells the truth about their handling. *)
Clean == Requests \ (overrun \cup unmarked)

(* From the mark to the end of the test the row of a request blocks the     *)
(* others of its team.                                                      *)
FlagInv ==
  \A w \in Workers : pc[w] \in {"check", "run"} /\ request[w] \in Clean =>
    row[request[w]] = "running" /\ request[w] \in fresh

(* Worker w has found that s does not block it. *)
Passed(w, s) == pc[w] = "run" \/ (pc[w] = "check" /\ s \notin unchecked[w])

(* Of two siblings at most one has passed the other. *)
PassInv ==
  \A v, w \in Workers :
    v # w /\ request[v] \in Clean /\ request[w] \in Clean
    /\ TeamOf[request[v]] = TeamOf[request[w]]
    => ~(Passed(v, request[w]) /\ Passed(w, request[v]))

Late == {"run", "post", "release", "dlq", "markFailed", "delete"}

(* Without faults a tested request is on its way out of the queue. *)
TestInv ==
  /\ faults = 0 => retested \subseteq overrun
  /\ faults = 0 => \A r \in tested \ overrun :
       message[r] # "gone" => \E w \in Workers : Handles(w, r) /\ pc[w] \in Late

(* What the steps after the test leave behind, one after the other. *)
TraceInv ==
  /\ \A r \in Requests : row[r] = "finished" => r \in posted
  /\ \A w \in Workers : pc[w] = "release" => request[w] \in posted
  /\ \A w \in Workers : pc[w] = "markFailed" => request[w] \in dlq \/ faults > 0
  /\ \A w \in Workers :
       pc[w] = "delete" /\ request[w] \notin Malformed \cup overrun /\ faults <= 1 =>
         Traced(request[w])

Traces == TraceInv /\ GoneIsTraced

(* Requests whose row will not be settled any more: their message is gone   *)
(* or about to be deleted.                                                  *)
Owing(r) ==
  /\ row[r] \notin {"finished", "failed"}
  /\ message[r] = "gone" \/ \E w \in Workers : pc[w] = "delete" /\ request[w] = r

Debt == {r \in Requests \ (Malformed \cup overrun) : Owing(r)}

DebtInv == IsFiniteSet(Debt) /\ Cardinality(Debt) <= faults

IInv == TypeOK /\ QueueInv /\ FlagInv /\ PassInv /\ TestInv /\ Traces /\ DebtInv

-----------------------------------------------------------------------------
(* Steps *)

(* Every step keeps the types. *)
LEMMA TypeStep ==
  ASSUME TypeOK, [Next]_vars
  PROVE  TypeOK'
<1>1. ASSUME NEW r \in Requests, Submit(r)
      PROVE  TypeOK'
  BY <1>1, WorkerAssumption DEF Submit, results, history, SetRow, TypeOK,
       Handling
<1>2. ASSUME NEW r \in Requests, Redeliver(r)
      PROVE  TypeOK'
  BY <1>2, WorkerAssumption DEF Redeliver, table, results, Handled, TypeOK,
       Handling
<1>3. ASSUME NEW r \in Requests, Age(r)
      PROVE  TypeOK'
  BY <1>3, WorkerAssumption DEF Age, queue, results, history, Handled, TypeOK,
       Handling
<1>4. ASSUME NEW w \in Workers, NEW r \in Requests, Dequeue(w, r)
      PROVE  TypeOK'
  BY <1>4, WorkerAssumption DEF Dequeue, table, results, history, GoTo,
       TypeOK, Handling
<1>5. ASSUME NEW w \in Workers, NEW s \in Requests, LookAt(w, s)
      PROVE  TypeOK'
  BY <1>5, WorkerAssumption DEF LookAt, queue, table, results, history,
       Blocks, TypeOK, Handling
<1>6. ASSUME NEW w \in Workers, NEW s \in Requests, Skip(w, s)
      PROVE  TypeOK'
  BY <1>6, WorkerAssumption DEF Skip, queue, table, results, history, GoTo,
       Blocks, TypeOK, Handling
<1>7. ASSUME NEW w \in Workers, Reject(w)
      PROVE  TypeOK'
  BY <1>7, WorkerAssumption DEF Reject, queue, table, results, history, GoTo,
       TypeOK, Handling
<1>8. ASSUME NEW w \in Workers, Mark(w)
      PROVE  TypeOK'
  BY <1>8, WorkerAssumption DEF Mark, queue, table, results, SetRow, GoTo,
       CallFails, MarkRow, Siblings, TypeOK, Handling
<1>9. ASSUME NEW w \in Workers, CheckFails(w)
      PROVE  TypeOK'
  BY <1>9, WorkerAssumption DEF CheckFails, queue, table, results, history,
       GoTo, CallFails, TypeOK, Handling
<1>10. ASSUME NEW w \in Workers, Acquire(w)
      PROVE  TypeOK'
  BY <1>10, WorkerAssumption DEF Acquire, queue, results, SetRow, GoTo,
       StartTest, TypeOK, Handling
<1>11. ASSUME NEW w \in Workers, AcquireFails(w)
      PROVE  TypeOK'
  BY <1>11, WorkerAssumption DEF AcquireFails, queue, table, results, history,
       SetRow, GoTo, CallFails, TypeOK, Handling
<1>12. ASSUME NEW w \in Workers, Run(w)
      PROVE  TypeOK'
  BY <1>12, WorkerAssumption DEF Run, queue, table, results, history, GoTo,
       TypeOK, Handling
<1>13. ASSUME NEW w \in Workers, Post(w)
      PROVE  TypeOK'
  BY <1>13, WorkerAssumption DEF Post, queue, table, history, GoTo, TypeOK,
       Handling
<1>14. ASSUME NEW w \in Workers, PostFails(w)
      PROVE  TypeOK'
  BY <1>14, WorkerAssumption DEF PostFails, queue, table, history, GoTo,
       CallFails, TypeOK, Handling
<1>15. ASSUME NEW w \in Workers, Release(w)
      PROVE  TypeOK'
  BY <1>15, WorkerAssumption DEF Release, queue, table, results, history,
       SetRow, GoTo, CallFails, TypeOK, Handling
<1>16. ASSUME NEW w \in Workers, PutAside(w)
      PROVE  TypeOK'
  BY <1>16, WorkerAssumption DEF PutAside, queue, table, history, GoTo,
       CallFails, TypeOK, Handling
<1>17. ASSUME NEW w \in Workers, MarkFailed(w)
      PROVE  TypeOK'
  BY <1>17, WorkerAssumption DEF MarkFailed, queue, table, results, history,
       SetRow, GoTo, CallFails, TypeOK, Handling
<1>18. ASSUME NEW w \in Workers, Delete(w)
      PROVE  TypeOK'
  BY <1>18, WorkerAssumption DEF Delete, table, results, history, GoTo,
       CallFails, LatestReceipt, TypeOK, Handling
<1>19. ASSUME NEW w \in Workers, Crash(w)
      PROVE  TypeOK'
  BY <1>19, WorkerAssumption DEF Crash, queue, table, results, history, GoTo,
       CallFails, TypeOK, Handling
<1>20. CASE UNCHANGED vars
  BY <1>20 DEF vars, queue, table, results, history, TypeOK
<1>21. QED
  BY <1>1, <1>2, <1>3, <1>4, <1>5, <1>6, <1>7, <1>8, <1>9, <1>10, <1>11,
       <1>12, <1>13, <1>14, <1>15, <1>16, <1>17, <1>18, <1>19, <1>20 DEF Next, Outside, Process

(* A request is dequeued only when visible, hence handled by nobody unless it *)
(* overran; the dequeue takes the receipt away from earlier workers only.    *)
LEMMA QueueStep ==
  ASSUME TypeOK, QueueInv, [Next]_vars
  PROVE  QueueInv'
<1>1. ASSUME NEW r \in Requests, Submit(r)
      PROVE  QueueInv'
  BY <1>1 DEF Submit, results, history, SetRow, TypeOK, QueueInv, Handled,
       Handles
<1>2. ASSUME NEW r \in Requests, Redeliver(r)
      PROVE  QueueInv'
  BY <1>2 DEF Redeliver, table, results, TypeOK, QueueInv, Handled, Handles
<1>3. ASSUME NEW r \in Requests, Age(r)
      PROVE  QueueInv'
  BY <1>3 DEF Age, queue, results, history, TypeOK, QueueInv, Handled, Handles
<1>4. ASSUME NEW w \in Workers, NEW r \in Requests, Dequeue(w, r)
      PROVE  QueueInv'
  BY <1>4 DEF Dequeue, table, results, history, GoTo, TypeOK, QueueInv,
       Handled, Handles
<1>5. ASSUME NEW w \in Workers, NEW s \in Requests, LookAt(w, s)
      PROVE  QueueInv'
  BY <1>5 DEF LookAt, queue, table, results, history, Blocks, TypeOK,
       QueueInv, Handled, Handles
<1>6. ASSUME NEW w \in Workers, NEW s \in Requests, Skip(w, s)
      PROVE  QueueInv'
  BY <1>6 DEF Skip, queue, table, results, history, GoTo, Blocks, TypeOK,
       QueueInv, Handled, Handles
<1>7. ASSUME NEW w \in Workers, Reject(w)
      PROVE  QueueInv'
  BY <1>7 DEF Reject, queue, table, results, history, GoTo, TypeOK, QueueInv,
       Handled, Handles
<1>8. ASSUME NEW w \in Workers, Mark(w)
      PROVE  QueueInv'
  BY <1>8 DEF Mark, queue, table, results, SetRow, GoTo, CallFails, MarkRow,
       Siblings, TypeOK, QueueInv, Handled, Handles
<1>9. ASSUME NEW w \in Workers, CheckFails(w)
      PROVE  QueueInv'
  BY <1>9 DEF CheckFails, queue, table, results, history, GoTo, CallFails,
       TypeOK, QueueInv, Handled, Handles
<1>10. ASSUME NEW w \in Workers, Acquire(w)
      PROVE  QueueInv'
  BY <1>10 DEF Acquire, queue, results, SetRow, GoTo, StartTest, TypeOK,
       QueueInv, Handled, Handles
<1>11. ASSUME NEW w \in Workers, AcquireFails(w)
      PROVE  QueueInv'
  BY <1>11 DEF AcquireFails, queue, table, results, history, SetRow, GoTo,
       CallFails, TypeOK, QueueInv, Handled, Handles
<1>12. ASSUME NEW w \in Workers, Run(w)
      PROVE  QueueInv'
  BY <1>12 DEF Run, queue, table, results, history, GoTo, TypeOK, QueueInv,
       Handled, Handles
<1>13. ASSUME NEW w \in Workers, Post(w)
      PROVE  QueueInv'
  BY <1>13 DEF Post, queue, table, history, GoTo, TypeOK, QueueInv, Handled,
       Handles
<1>14. ASSUME NEW w \in Workers, PostFails(w)
      PROVE  QueueInv'
  BY <1>14 DEF PostFails, queue, table, history, GoTo, CallFails, TypeOK,
       QueueInv, Handled, Handles
<1>15. ASSUME NEW w \in Workers, Release(w)
      PROVE  QueueInv'
  BY <1>15 DEF Release, queue, table, results, history, SetRow, GoTo,
       CallFails, TypeOK, QueueInv, Handled, Handles
<1>16. ASSUME NEW w \in Workers, PutAside(w)
      PROVE  QueueInv'
  BY <1>16 DEF PutAside, queue, table, history, GoTo, CallFails, TypeOK,
       QueueInv, Handled, Handles
<1>17. ASSUME NEW w \in Workers, MarkFailed(w)
      PROVE  QueueInv'
  BY <1>17 DEF MarkFailed, queue, table, results, history, SetRow, GoTo,
       CallFails, TypeOK, QueueInv, Handled, Handles
<1>18. ASSUME NEW w \in Workers, Delete(w)
      PROVE  QueueInv'
  BY <1>18 DEF Delete, table, results, history, GoTo, CallFails,
       LatestReceipt, TypeOK, QueueInv, Handled, Handles
<1>19. ASSUME NEW w \in Workers, Crash(w)
      PROVE  QueueInv'
  BY <1>19 DEF Crash, queue, table, results, history, GoTo, CallFails, TypeOK,
       QueueInv, Handled, Handles
<1>20. CASE UNCHANGED vars
  BY <1>20 DEF vars, queue, table, results, history, TypeOK, QueueInv,
       Handled, Handles
<1>21. QED
  BY <1>1, <1>2, <1>3, <1>4, <1>5, <1>6, <1>7, <1>8, <1>9, <1>10, <1>11,
       <1>12, <1>13, <1>14, <1>15, <1>16, <1>17, <1>18, <1>19, <1>20 DEF Next, Outside, Process

(* The row of a clean request is written only by the worker that handles it, *)
(* and does not age meanwhile.                                               *)
LEMMA FlagStep ==
  ASSUME TypeOK, QueueInv, FlagInv, [Next]_vars
  PROVE  FlagInv'
<1>1. ASSUME NEW r \in Requests, Submit(r)
      PROVE  FlagInv'
  BY <1>1 DEF Submit, results, history, SetRow, TypeOK, QueueInv, FlagInv,
       Clean, Handled, Handles
<1>2. ASSUME NEW r \in Requests, Redeliver(r)
      PROVE  FlagInv'
  BY <1>2 DEF Redeliver, table, results, TypeOK, QueueInv, FlagInv, Clean,
       Handled, Handles
<1>3. ASSUME NEW r \in Requests, Age(r)
      PROVE  FlagInv'
  BY <1>3 DEF Age, queue, results, history, TypeOK, QueueInv, FlagInv, Clean,
       Handled, Handles
<1>4. ASSUME NEW w \in Workers, NEW r \in Requests, Dequeue(w, r)
      PROVE  FlagInv'
  BY <1>4 DEF Dequeue, table, results, history, GoTo, TypeOK, QueueInv,
       FlagInv, Clean, Handled, Handles
<1>5. ASSUME NEW w \in Workers, NEW s \in Requests, LookAt(w, s)
      PROVE  FlagInv'
  BY <1>5 DEF LookAt, queue, table, results, history, Blocks, TypeOK,
       QueueInv, FlagInv, Clean, Handled, Handles
<1>6. ASSUME NEW w \in Workers, NEW s \in Requests, Skip(w, s)
      PROVE  FlagInv'
  BY <1>6 DEF Skip, queue, table, results, history, GoTo, Blocks, TypeOK,
       QueueInv, FlagInv, Clean, Handled, Handles
<1>7. ASSUME NEW w \in Workers, Reject(w)
      PROVE  FlagInv'
  BY <1>7 DEF Reject, queue, table, results, history, GoTo, TypeOK, QueueInv,
       FlagInv, Clean, Handled, Handles
<1>8. ASSUME NEW w \in Workers, Mark(w)
      PROVE  FlagInv'
  BY <1>8 DEF Mark, queue, table, results, SetRow, GoTo, CallFails, MarkRow,
       Siblings, TypeOK, QueueInv, FlagInv, Clean, Handled, Handles
<1>9. ASSUME NEW w \in Workers, CheckFails(w)
      PROVE  FlagInv'
  BY <1>9 DEF CheckFails, queue, table, results, history, GoTo, CallFails,
       TypeOK, QueueInv, FlagInv, Clean, Handled, Handles
<1>10. ASSUME NEW w \in Workers, Acquire(w)
      PROVE  FlagInv'
  BY <1>10 DEF Acquire, queue, results, SetRow, GoTo, StartTest, TypeOK,
       QueueInv, FlagInv, Clean, Handled, Handles
<1>11. ASSUME NEW w \in Workers, AcquireFails(w)
      PROVE  FlagInv'
  BY <1>11 DEF AcquireFails, queue, table, results, history, SetRow, GoTo,
       CallFails, TypeOK, QueueInv, FlagInv, Clean, Handled, Handles
<1>12. ASSUME NEW w \in Workers, Run(w)
      PROVE  FlagInv'
  BY <1>12 DEF Run, queue, table, results, history, GoTo, TypeOK, QueueInv,
       FlagInv, Clean, Handled, Handles
<1>13. ASSUME NEW w \in Workers, Post(w)
      PROVE  FlagInv'
  BY <1>13 DEF Post, queue, table, history, GoTo, TypeOK, QueueInv, FlagInv,
       Clean, Handled, Handles
<1>14. ASSUME NEW w \in Workers, PostFails(w)
      PROVE  FlagInv'
  BY <1>14 DEF PostFails, queue, table, history, GoTo, CallFails, TypeOK,
       QueueInv, FlagInv, Clean, Handled, Handles
<1>15. ASSUME NEW w \in Workers, Release(w)
      PROVE  FlagInv'
  BY <1>15 DEF Release, queue, table, results, history, SetRow, GoTo,
       CallFails, TypeOK, QueueInv, FlagInv, Clean, Handled, Handles
<1>16. ASSUME NEW w \in Workers, PutAside(w)
      PROVE  FlagInv'
  BY <1>16 DEF PutAside, queue, table, history, GoTo, CallFails, TypeOK,
       QueueInv, FlagInv, Clean, Handled, Handles
<1>17. ASSUME NEW w \in Workers, MarkFailed(w)
      PROVE  FlagInv'
  BY <1>17 DEF MarkFailed, queue, table, results, history, SetRow, GoTo,
       CallFails, TypeOK, QueueInv, FlagInv, Clean, Handled, Handles
<1>18. ASSUME NEW w \in Workers, Delete(w)
      PROVE  FlagInv'
  BY <1>18 DEF Delete, table, results, history, GoTo, CallFails,
       LatestReceipt, TypeOK, QueueInv, FlagInv, Clean, Handled, Handles
<1>19. ASSUME NEW w \in Workers, Crash(w)
      PROVE  FlagInv'
  BY <1>19 DEF Crash, queue, table, results, history, GoTo, CallFails, TypeOK,
       QueueInv, FlagInv, Clean, Handled, Handles
<1>20. CASE UNCHANGED vars
  BY <1>20 DEF vars, queue, table, results, history, TypeOK, QueueInv,
       FlagInv, Clean, Handled, Handles
<1>21. QED
  BY <1>1, <1>2, <1>3, <1>4, <1>5, <1>6, <1>7, <1>8, <1>9, <1>10, <1>11,
       <1>12, <1>13, <1>14, <1>15, <1>16, <1>17, <1>18, <1>19, <1>20 DEF Next, Outside, Process

(* A worker that marks its request has passed no sibling yet; one that looks  *)
(* at a sibling whose worker has already passed it finds the row blocking.    *)
LEMMA PassStep ==
  ASSUME TypeOK, QueueInv, FlagInv, PassInv, [Next]_vars
  PROVE  PassInv'
<1>1. ASSUME NEW r \in Requests, Submit(r)
      PROVE  PassInv'
  BY <1>1 DEF Submit, results, history, SetRow, TypeOK, QueueInv, FlagInv,
       PassInv, Passed, Clean, Handles, Siblings, Blocks
<1>2. ASSUME NEW r \in Requests, Redeliver(r)
      PROVE  PassInv'
  BY <1>2 DEF Redeliver, table, results, Handled, TypeOK, QueueInv, FlagInv,
       PassInv, Passed, Clean, Handles, Siblings, Blocks
<1>3. ASSUME NEW r \in Requests, Age(r)
      PROVE  PassInv'
  BY <1>3 DEF Age, queue, results, history, Handled, TypeOK, QueueInv,
       FlagInv, PassInv, Passed, Clean, Handles, Siblings, Blocks
<1>4. ASSUME NEW w \in Workers, NEW r \in Requests, Dequeue(w, r)
      PROVE  PassInv'
  BY <1>4 DEF Dequeue, table, results, history, GoTo, TypeOK, QueueInv,
       FlagInv, PassInv, Passed, Clean, Handles, Siblings, Blocks
<1>5. ASSUME NEW w \in Workers, NEW s \in Requests, LookAt(w, s)
      PROVE  PassInv'
  BY <1>5 DEF LookAt, queue, table, results, history, TypeOK, QueueInv,
       FlagInv, PassInv, Passed, Clean, Handles, Siblings, Blocks
<1>6. ASSUME NEW w \in Workers, NEW s \in Requests, Skip(w, s)
      PROVE  PassInv'
  BY <1>6 DEF Skip, queue, table, results, history, GoTo, TypeOK, QueueInv,
       FlagInv, PassInv, Passed, Clean, Handles, Siblings, Blocks
<1>7. ASSUME NEW w \in Workers, Reject(w)
      PROVE  PassInv'
  BY <1>7 DEF Reject, queue, table, results, history, GoTo, TypeOK, QueueInv,
       FlagInv, PassInv, Passed, Clean, Handles, Siblings, Blocks
<1>8. ASSUME NEW w \in Workers, Mark(w)
      PROVE  PassInv'
  BY <1>8 DEF Mark, queue, table, results, SetRow, GoTo, CallFails, MarkRow,
       TypeOK, QueueInv, FlagInv, PassInv, Passed, Clean, Handles, Siblings,
       Blocks
<1>9. ASSUME NEW w \in Workers, CheckFails(w)
      PROVE  PassInv'
  BY <1>9 DEF CheckFails, queue, table, results, history, GoTo, CallFails,
       TypeOK, QueueInv, FlagInv, PassInv, Passed, Clean, Handles, Siblings,
       Blocks
<1>10. ASSUME NEW w \in Workers, Acquire(w)
      PROVE  PassInv'
  BY <1>10 DEF Acquire, queue, results, SetRow, GoTo, StartTest, TypeOK,
       QueueInv, FlagInv, PassInv, Passed, Clean, Handles, Siblings, Blocks
<1>11. ASSUME NEW w \in Workers, AcquireFails(w)
      PROVE  PassInv'
  BY <1>11 DEF AcquireFails, queue, table, results, history, SetRow, GoTo,
       CallFails, TypeOK, QueueInv, FlagInv, PassInv, Passed, Clean, Handles,
       Siblings, Blocks
<1>12. ASSUME NEW w \in Workers, Run(w)
      PROVE  PassInv'
  BY <1>12 DEF Run, queue, table, results, history, GoTo, TypeOK, QueueInv,
       FlagInv, PassInv, Passed, Clean, Handles, Siblings, Blocks
<1>13. ASSUME NEW w \in Workers, Post(w)
      PROVE  PassInv'
  BY <1>13 DEF Post, queue, table, history, GoTo, TypeOK, QueueInv, FlagInv,
       PassInv, Passed, Clean, Handles, Siblings, Blocks
<1>14. ASSUME NEW w \in Workers, PostFails(w)
      PROVE  PassInv'
  BY <1>14 DEF PostFails, queue, table, history, GoTo, CallFails, TypeOK,
       QueueInv, FlagInv, PassInv, Passed, Clean, Handles, Siblings, Blocks
<1>15. ASSUME NEW w \in Workers, Release(w)
      PROVE  PassInv'
  BY <1>15 DEF Release, queue, table, results, history, SetRow, GoTo,
       CallFails, TypeOK, QueueInv, FlagInv, PassInv, Passed, Clean, Handles,
       Siblings, Blocks
<1>16. ASSUME NEW w \in Workers, PutAside(w)
      PROVE  PassInv'
  BY <1>16 DEF PutAside, queue, table, history, GoTo, CallFails, TypeOK,
       QueueInv, FlagInv, PassInv, Passed, Clean, Handles, Siblings, Blocks
<1>17. ASSUME NEW w \in Workers, MarkFailed(w)
      PROVE  PassInv'
  BY <1>17 DEF MarkFailed, queue, table, results, history, SetRow, GoTo,
       CallFails, TypeOK, QueueInv, FlagInv, PassInv, Passed, Clean, Handles,
       Siblings, Blocks
<1>18. ASSUME NEW w \in Workers, Delete(w)
      PROVE  PassInv'
  BY <1>18 DEF Delete, table, results, history, GoTo, CallFails,
       LatestReceipt, TypeOK, QueueInv, FlagInv, PassInv, Passed, Clean,
       Handles, Siblings, Blocks
<1>19. ASSUME NEW w \in Workers, Crash(w)
      PROVE  PassInv'
  BY <1>19 DEF Crash, queue, table, results, history, GoTo, CallFails, TypeOK,
       QueueInv, FlagInv, PassInv, Passed, Clean, Handles, Siblings, Blocks
<1>20. CASE UNCHANGED vars
  BY <1>20 DEF vars, queue, table, results, history, TypeOK, QueueInv,
       FlagInv, PassInv, Passed, Clean, Handles
<1>21. QED
  BY <1>1, <1>2, <1>3, <1>4, <1>5, <1>6, <1>7, <1>8, <1>9, <1>10, <1>11,
       <1>12, <1>13, <1>14, <1>15, <1>16, <1>17, <1>18, <1>19, <1>20 DEF Next, Outside, Process

(* A test starts with a message that nobody else handles, and ends with its  *)
(* deletion unless something fails.                                          *)
LEMMA TestStep ==
  ASSUME TypeOK, QueueInv, TestInv, [Next]_vars
  PROVE  TestInv'
<1>1. ASSUME NEW r \in Requests, Submit(r)
      PROVE  TestInv'
  BY <1>1 DEF Submit, results, history, SetRow, TypeOK, QueueInv, TestInv,
       Late, Handled, Handles
<1>2. ASSUME NEW r \in Requests, Redeliver(r)
      PROVE  TestInv'
  BY <1>2 DEF Redeliver, table, results, TypeOK, QueueInv, TestInv, Late,
       Handled, Handles
<1>3. ASSUME NEW r \in Requests, Age(r)
      PROVE  TestInv'
  BY <1>3 DEF Age, queue, results, history, TypeOK, QueueInv, TestInv, Late,
       Handled, Handles
<1>4. ASSUME NEW w \in Workers, NEW r \in Requests, Dequeue(w, r)
      PROVE  TestInv'
  BY <1>4 DEF Dequeue, table, results, history, GoTo, TypeOK, QueueInv,
       TestInv, Late, Handled, Handles
<1>5. ASSUME NEW w \in Workers, NEW s \in Requests, LookAt(w, s)
      PROVE  TestInv'
  BY <1>5 DEF LookAt, queue, table, results, history, Blocks, TypeOK,
       QueueInv, TestInv, Late, Handled, Handles
<1>6. ASSUME NEW w \in Workers, NEW s \in Requests, Skip(w, s)
      PROVE  TestInv'
  BY <1>6 DEF Skip, queue, table, results, history, GoTo, Blocks, TypeOK,
       QueueInv, TestInv, Late, Handled, Handles
<1>7. ASSUME NEW w \in Workers, Reject(w)
      PROVE  TestInv'
  BY <1>7 DEF Reject, queue, table, results, history, GoTo, TypeOK, QueueInv,
       TestInv, Late, Handled, Handles
<1>8. ASSUME NEW w \in Workers, Mark(w)
      PROVE  TestInv'
  BY <1>8 DEF Mark, queue, table, results, SetRow, GoTo, CallFails, MarkRow,
       Siblings, TypeOK, QueueInv, TestInv, Late, Handled, Handles
<1>9. ASSUME NEW w \in Workers, CheckFails(w)
      PROVE  TestInv'
  BY <1>9 DEF CheckFails, queue, table, results, history, GoTo, CallFails,
       TypeOK, QueueInv, TestInv, Late, Handled, Handles
<1>10. ASSUME NEW w \in Workers, Acquire(w)
      PROVE  TestInv'
  BY <1>10 DEF Acquire, queue, results, SetRow, GoTo, StartTest, TypeOK,
       QueueInv, TestInv, Late, Handled, Handles
<1>11. ASSUME NEW w \in Workers, AcquireFails(w)
      PROVE  TestInv'
  BY <1>11 DEF AcquireFails, queue, table, results, history, SetRow, GoTo,
       CallFails, TypeOK, QueueInv, TestInv, Late, Handled, Handles
<1>12. ASSUME NEW w \in Workers, Run(w)
      PROVE  TestInv'
  BY <1>12 DEF Run, queue, table, results, history, GoTo, TypeOK, QueueInv,
       TestInv, Late, Handled, Handles
<1>13. ASSUME NEW w \in Workers, Post(w)
      PROVE  TestInv'
  BY <1>13 DEF Post, queue, table, history, GoTo, TypeOK, QueueInv, TestInv,
       Late, Handled, Handles
<1>14. ASSUME NEW w \in Workers, PostFails(w)
      PROVE  TestInv'
  BY <1>14 DEF PostFails, queue, table, history, GoTo, CallFails, TypeOK,
       QueueInv, TestInv, Late, Handled, Handles
<1>15. ASSUME NEW w \in Workers, Release(w)
      PROVE  TestInv'
  BY <1>15 DEF Release, queue, table, results, history, SetRow, GoTo,
       CallFails, TypeOK, QueueInv, TestInv, Late, Handled, Handles
<1>16. ASSUME NEW w \in Workers, PutAside(w)
      PROVE  TestInv'
  BY <1>16 DEF PutAside, queue, table, history, GoTo, CallFails, TypeOK,
       QueueInv, TestInv, Late, Handled, Handles
<1>17. ASSUME NEW w \in Workers, MarkFailed(w)
      PROVE  TestInv'
  BY <1>17 DEF MarkFailed, queue, table, results, history, SetRow, GoTo,
       CallFails, TypeOK, QueueInv, TestInv, Late, Handled, Handles
<1>18. ASSUME NEW w \in Workers, Delete(w)
      PROVE  TestInv'
  BY <1>18 DEF Delete, table, results, history, GoTo, CallFails,
       LatestReceipt, TypeOK, QueueInv, TestInv, Late, Handled, Handles
<1>19. ASSUME NEW w \in Workers, Crash(w)
      PROVE  TestInv'
  BY <1>19 DEF Crash, queue, table, results, history, GoTo, CallFails, TypeOK,
       QueueInv, TestInv, Late, Handled, Handles
<1>20. CASE UNCHANGED vars
  BY <1>20 DEF vars, queue, table, results, history, TypeOK, QueueInv,
       TestInv, Late, Handled, Handles
<1>21. QED
  BY <1>1, <1>2, <1>3, <1>4, <1>5, <1>6, <1>7, <1>8, <1>9, <1>10, <1>11,
       <1>12, <1>13, <1>14, <1>15, <1>16, <1>17, <1>18, <1>19, <1>20 DEF Next, Outside, Process

(* Scores, dead letters and settled rows come before the deletion, and a row  *)
(* is not written again once the message is gone, unless it overran.          *)
LEMMA TraceStep ==
  ASSUME TypeOK, QueueInv, Traces, [Next]_vars
  PROVE  Traces'
<1>1. ASSUME NEW r \in Requests, Submit(r)
      PROVE  Traces'
  BY <1>1 DEF Submit, results, history, SetRow, TypeOK, QueueInv, Traces,
       TraceInv, GoneIsTraced, Traced, Handled, Handles
<1>2. ASSUME NEW r \in Requests, Redeliver(r)
      PROVE  Traces'
  BY <1>2 DEF Redeliver, table, results, TypeOK, QueueInv, Traces, TraceInv,
       GoneIsTraced, Traced, Handled, Handles
<1>3. ASSUME NEW r \in Requests, Age(r)
      PROVE  Traces'
  BY <1>3 DEF Age, queue, results, history, TypeOK, QueueInv, Traces,
       TraceInv, GoneIsTraced, Traced, Handled, Handles
<1>4. ASSUME NEW w \in Workers, NEW r \in Requests, Dequeue(w, r)
      PROVE  Traces'
  BY <1>4 DEF Dequeue, table, results, history, GoTo, TypeOK, QueueInv,
       Traces, TraceInv, GoneIsTraced, Traced, Handled, Handles
<1>5. ASSUME NEW w \in Workers, NEW s \in Requests, LookAt(w, s)
      PROVE  Traces'
  BY <1>5 DEF LookAt, queue, table, results, history, Blocks, TypeOK,
       QueueInv, Traces, TraceInv, GoneIsTraced, Traced, Handled, Handles
<1>6. ASSUME NEW w \in Workers, NEW s \in Requests, Skip(w, s)
      PROVE  Traces'
  BY <1>6 DEF Skip, queue, table, results, history, GoTo, Blocks, TypeOK,
       QueueInv, Traces, TraceInv, GoneIsTraced, Traced, Handled, Handles
<1>7. ASSUME NEW w \in Workers, Reject(w)
      PROVE  Traces'
  BY <1>7 DEF Reject, queue, table, results, history, GoTo, TypeOK, QueueInv,
       Traces, TraceInv, GoneIsTraced, Traced, Handled, Handles
<1>8. ASSUME NEW w \in Workers, Mark(w)
      PROVE  Traces'
  BY <1>8 DEF Mark, queue, table, results, SetRow, GoTo, CallFails, MarkRow,
       Siblings, TypeOK, QueueInv, Traces, TraceInv, GoneIsTraced, Traced,
       Handled, Handles
<1>9. ASSUME NEW w \in Workers, CheckFails(w)
      PROVE  Traces'
  BY <1>9 DEF CheckFails, queue, table, results, history, GoTo, CallFails,
       TypeOK, QueueInv, Traces, TraceInv, GoneIsTraced, Traced, Handled,
       Handles
<1>10. ASSUME NEW w \in Workers, Acquire(w)
      PROVE  Traces'
  BY <1>10 DEF Acquire, queue, results, SetRow, GoTo, StartTest, TypeOK,
       QueueInv, Traces, TraceInv, GoneIsTraced, Traced, Handled, Handles
<1>11. ASSUME NEW w \in Workers, AcquireFails(w)
      PROVE  Traces'
  BY <1>11 DEF AcquireFails, queue, table, results, history, SetRow, GoTo,
       CallFails, TypeOK, QueueInv, Traces, TraceInv, GoneIsTraced, Traced,
       Handled, Handles
<1>12. ASSUME NEW w \in Workers, Run(w)
      PROVE  Traces'
  BY <1>12 DEF Run, queue, table, results, history, GoTo, TypeOK, QueueInv,
       Traces, TraceInv, GoneIsTraced, Traced, Handled, Handles
<1>13. ASSUME NEW w \in Workers, Post(w)
      PROVE  Traces'
  BY <1>13 DEF Post, queue, table, history, GoTo, TypeOK, QueueInv, Traces,
       TraceInv, GoneIsTraced, Traced, Handled, Handles
<1>14. ASSUME NEW w \in Workers, PostFails(w)
      PROVE  Traces'
  BY <1>14 DEF PostFails, queue, table, history, GoTo, CallFails, TypeOK,
       QueueInv, Traces, TraceInv, GoneIsTraced, Traced, Handled, Handles
<1>15. ASSUME NEW w \in Workers, Release(w)
      PROVE  Traces'
  BY <1>15 DEF Release, queue, table, results, history, SetRow, GoTo,
       CallFails, TypeOK, QueueInv, Traces, TraceInv, GoneIsTraced, Traced,
       Handled, Handles
<1>16. ASSUME NEW w \in Workers, PutAside(w)
      PROVE  Traces'
  BY <1>16 DEF PutAside, queue, table, history, GoTo, CallFails, TypeOK,
       QueueInv, Traces, TraceInv, GoneIsTraced, Traced, Handled, Handles
<1>17. ASSUME NEW w \in Workers, MarkFailed(w)
      PROVE  Traces'
  BY <1>17 DEF MarkFailed, queue, table, results, history, SetRow, GoTo,
       CallFails, TypeOK, QueueInv, Traces, TraceInv, GoneIsTraced, Traced,
       Handled, Handles
<1>18. ASSUME NEW w \in Workers, Delete(w)
      PROVE  Traces'
  BY <1>18 DEF Delete, table, results, history, GoTo, CallFails,
       LatestReceipt, TypeOK, QueueInv, Traces, TraceInv, GoneIsTraced,
       Traced, Handled, Handles
<1>19. ASSUME NEW w \in Workers, Crash(w)
      PROVE  Traces'
  BY <1>19 DEF Crash, queue, table, results, history, GoTo, CallFails, TypeOK,
       QueueInv, Traces, TraceInv, GoneIsTraced, Traced, Handled, Handles
<1>20. CASE UNCHANGED vars
  BY <1>20 DEF vars, queue, table, results, history, TypeOK, QueueInv, Traces,
       TraceInv, GoneIsTraced, Traced, Handled, Handles
<1>21. QED
  BY <1>1, <1>2, <1>3, <1>4, <1>5, <1>6, <1>7, <1>8, <1>9, <1>10, <1>11,
       <1>12, <1>13, <1>14, <1>15, <1>16, <1>17, <1>18, <1>19, <1>20 DEF Next, Outside, Process

(* Only a failed releaseLock or MarkFailed adds a request to those that stay  *)
(* unsettled; a row is not reopened once its message is about to go.          *)
LEMMA DebtGrowth ==
  ASSUME TypeOK, QueueInv, [Next]_vars
  PROVE  \/ /\ Debt' \subseteq Debt
            /\ faults' \in {faults, faults + 1}
         \/ \E r \in Requests : Debt' \subseteq Debt \cup {r} /\ faults' = faults + 1
<1> DEFINE Settles == Debt' \subseteq Debt /\ faults' \in {faults, faults + 1}
           Owes(r) == Debt' \subseteq Debt \cup {r} /\ faults' = faults + 1
<1>1. ASSUME NEW r \in Requests, Submit(r)
      PROVE  Settles
  BY <1>1 DEF Submit, results, history, SetRow, TypeOK, QueueInv, Handled,
       Handles, Debt, Owing
<1>2. ASSUME NEW r \in Requests, Redeliver(r)
      PROVE  Settles
  BY <1>2 DEF Redeliver, table, results, TypeOK, QueueInv, Handled, Handles,
       Debt, Owing
<1>3. ASSUME NEW r \in Requests, Age(r)
      PROVE  Settles
  BY <1>3 DEF Age, queue, results, history, TypeOK, QueueInv, Handled,
       Handles, Debt, Owing
<1>4. ASSUME NEW w \in Workers, NEW r \in Requests, Dequeue(w, r)
      PROVE  Settles
  BY <1>4 DEF Dequeue, table, results, history, GoTo, TypeOK, QueueInv,
       Handled, Handles, Debt, Owing
<1>5. ASSUME NEW w \in Workers, NEW s \in Requests, LookAt(w, s)
      PROVE  Settles
  BY <1>5 DEF LookAt, queue, table, results, history, Blocks, TypeOK,
       QueueInv, Handled, Handles, Debt, Owing
<1>6. ASSUME NEW w \in Workers, NEW s \in Requests, Skip(w, s)
      PROVE  Settles
  BY <1>6 DEF Skip, queue, table, results, history, GoTo, Blocks, TypeOK,
       QueueInv, Handled, Handles, Debt, Owing
<1>7. ASSUME NEW w \in Workers, Reject(w)
      PROVE  Settles
  BY <1>7 DEF Reject, queue, table, results, history, GoTo, TypeOK, QueueInv,
       Handled, Handles, Debt, Owing
<1>8. ASSUME NEW w \in Workers, Mark(w)
      PROVE  Settles
  BY <1>8 DEF Mark, queue, table, results, SetRow, GoTo, CallFails, MarkRow,
       Siblings, TypeOK, QueueInv, Handled, Handles, Debt, Owing
<1>9. ASSUME NEW w \in Workers, CheckFails(w)
      PROVE  Settles
  BY <1>9 DEF CheckFails, queue, table, results, history, GoTo, CallFails,
       TypeOK, QueueInv, Handled, Handles, Debt, Owing
<1>10. ASSUME NEW w \in Workers, Acquire(w)
      PROVE  Settles
  BY <1>10 DEF Acquire, queue, results, SetRow, GoTo, StartTest, TypeOK,
       QueueInv, Handled, Handles, Debt, Owing
<1>11. ASSUME NEW w \in Workers, AcquireFails(w)
      PROVE  Settles
  BY <1>11 DEF AcquireFails, queue, table, results, history, SetRow, GoTo,
       CallFails, TypeOK, QueueInv, Handled, Handles, Debt, Owing
<1>12. ASSUME NEW w \in Workers, Run(w)
      PROVE  Settles
  BY <1>12 DEF Run, queue, table, results, history, GoTo, TypeOK, QueueInv,
       Handled, Handles, Debt, Owing
<1>13. ASSUME NEW w \in Workers, Post(w)
      PROVE  Settles
  BY <1>13 DEF Post, queue, table, history, GoTo, TypeOK, QueueInv, Handled,
       Handles, Debt, Owing
<1>14. ASSUME NEW w \in Workers, PostFails(w)
      PROVE  Settles
  BY <1>14 DEF PostFails, queue, table, history, GoTo, CallFails, TypeOK,
       QueueInv, Handled, Handles, Debt, Owing
<1>15. ASSUME NEW w \in Workers, PutAside(w)
      PROVE  Settles
  BY <1>15 DEF PutAside, queue, table, history, GoTo, CallFails, TypeOK,
       QueueInv, Handled, Handles, Debt, Owing
<1>16. ASSUME NEW w \in Workers, Delete(w)
      PROVE  Settles
  BY <1>16 DEF Delete, table, results, history, GoTo, CallFails,
       LatestReceipt, TypeOK, QueueInv, Handled, Handles, Debt, Owing
<1>17. ASSUME NEW w \in Workers, Crash(w)
      PROVE  Settles
  BY <1>17 DEF Crash, queue, table, results, history, GoTo, CallFails, TypeOK,
       QueueInv, Handled, Handles, Debt, Owing
<1>18. ASSUME NEW w \in Workers, Release(w)
      PROVE  Settles \/ Owes(request[w])
  BY <1>18 DEF Release, queue, table, results, history, SetRow, GoTo,
       CallFails, TypeOK, QueueInv, Handled, Handles, Debt, Owing
<1>19. ASSUME NEW w \in Workers, MarkFailed(w)
      PROVE  Settles \/ Owes(request[w])
  BY <1>19 DEF MarkFailed, queue, table, results, history, SetRow, GoTo,
       CallFails, TypeOK, QueueInv, Handled, Handles, Debt, Owing
<1>20. ASSUME UNCHANGED vars
       PROVE  Settles
  BY <1>20 DEF vars, queue, table, results, history, Debt, Owing
<1>21. \A w \in Workers : request[w] \in Requests
  BY DEF TypeOK
<1> HIDE DEF Settles, Owes
<1>22. Settles \/ \E r \in Requests : Owes(r)
  BY <1>1, <1>2, <1>3, <1>4, <1>5, <1>6, <1>7, <1>8, <1>9, <1>10, <1>11,
       <1>12, <1>13, <1>14, <1>15, <1>16, <1>17, <1>18, <1>19, <1>20, <1>21
     DEF Next, Outside, Process
<1>23. QED
  BY <1>22 DEF Settles, Owes

(* Counted: a failed call adds at most one request. *)
LEMMA DebtStep ==
  ASSUME TypeOK, QueueInv, DebtInv, [Next]_vars
  PROVE  DebtInv'
<1> DEFINE more == Debt'
<1>1. faults \in Nat
  BY WorkerAssumption DEF TypeOK
<1>2. Cardinality(Debt) \in Nat
  BY FS_CardinalityType DEF DebtInv
<1>3. CASE more \subseteq Debt /\ faults' \in {faults, faults + 1}
  <2>1. IsFiniteSet(more) /\ Cardinality(more) <= Cardinality(Debt)
    BY <1>3, FS_Subset DEF DebtInv
  <2>2. Cardinality(more) \in Nat
    BY <2>1, FS_CardinalityType
  <2>3. QED
    BY <1>1, <1>2, <1>3, <2>1, <2>2 DEF DebtInv
<1>4. ASSUME NEW r \in Requests, more \subseteq Debt \cup {r}, faults' = faults + 1
      PROVE  DebtInv'
  <2>1. /\ IsFiniteSet(Debt \cup {r})
        /\ Cardinality(Debt \cup {r}) = Cardinality(Debt)
           \/ Cardinality(Debt \cup {r}) = Cardinality(Debt) + 1
    BY FS_AddElement DEF DebtInv
  <2>2. IsFiniteSet(more) /\ Cardinality(more) <= Cardinality(Debt \cup {r})
    BY <1>4, <2>1, FS_Subset
  <2>3. Cardinality(more) \in Nat
    BY <2>2, FS_CardinalityType
  <2>4. QED
    BY <1>1, <1>2, <1>4, <2>1, <2>2, <2>3 DEF DebtInv
<1>5. QED
  BY <1>3, <1>4, DebtGrowth

-----------------------------------------------------------------------------
(* Theorems *)

(* The invariant holds before any message was received. *)
LEMMA InitIInv == Init => IInv
<1> SUFFICES ASSUME Init PROVE IInv
  OBVIOUS
<1>1. TypeOK
  BY WorkerAssumption DEF Init, TypeOK
<1>2. QueueInv /\ FlagInv /\ PassInv
  BY DEF Init, QueueInv, Handled, Handles, FlagInv, PassInv, Passed
<1>3. TestInv /\ Traces
  BY DEF Init, TestInv, Traces, TraceInv, GoneIsTraced
<1>4. DebtInv
  <2>1. Debt = {} /\ faults = 0
    BY DEF Init, Debt, Owing
  <2>2. QED
    BY <2>1, FS_EmptySet DEF DebtInv
<1>5. QED
  BY <1>1, <1>2, <1>3, <1>4 DEF IInv

(* The invariant holds in every reachable state. *)
LEMMA IInvInductive == Spec => []IInv
<1>1. ASSUME IInv, [Next]_vars
      PROVE  IInv'
  BY <1>1, TypeStep, QueueStep, FlagStep, PassStep, TestStep, TraceStep, DebtStep
     DEF IInv
<1>2. QED
  BY <1>1, InitIInv, PTL DEF Spec

(* Every reachable state is well typed. *)
THEOREM WorkerTypeCorrect == Spec => []TypeOK
<1>1. IInv => TypeOK
  BY DEF IInv
<1>2. QED
  BY <1>1, IInvInductive, PTL

(* The mark-then-check protocol of parseQueueMessage and isDuplicateOrSkip    *)
(* keeps the tests of a team apart, for any number of workers and requests,   *)
(* unless one of the two requests overran its visibility timeout or its mark  *)
(* was lost.                                                                  *)
THEOREM TestsKeptApart == Spec => []OverlapOnlyAfterOverrunOrLostMark
<1>1. ASSUME IInv
      PROVE  OverlapOnlyAfterOverrunOrLostMark
  <2> SUFFICES ASSUME NEW v \in Workers, NEW w \in Workers, Overlap(v, w),
                      request[v] \in Clean, request[w] \in Clean
               PROVE  FALSE
    BY <1>1 DEF OverlapOnlyAfterOverrunOrLostMark, Clean, IInv, TypeOK
  <2>1. Passed(v, request[w]) /\ Passed(w, request[v])
    BY DEF Overlap, Passed
  <2>2. QED
    BY <1>1, <2>1 DEF IInv, PassInv, Overlap
<1>2. QED
  BY <1>1, IInvInductive, PTL

(* Without failed calls and crashes a request is tested twice only when its   *)
(* message was redelivered during its handling.                               *)
THEOREM RetestsExplained == Spec => []RetestedOnlyAfterFaultOrOverrun
<1>1. IInv => RetestedOnlyAfterFaultOrOverrun
  BY DEF IInv, TestInv, RetestedOnlyAfterFaultOrOverrun
<1>2. QED
  BY <1>1, IInvInductive, PTL

(* The status finished is never to be seen before the score. *)
THEOREM ScoreBeforeFinished == Spec => []FinishedHasScore
<1>1. IInv => FinishedHasScore
  BY DEF IInv, Traces, TraceInv, FinishedHasScore
<1>2. QED
  BY <1>1, IInvInductive, PTL

(* Dead letter, status and deletion are calls of their own whose errors are   *)
(* only logged; still no single failed call makes a request disappear without *)
(* a trace.                                                                   *)
THEOREM NothingLost == Spec => []GoneIsTraced
<1>1. IInv => GoneIsTraced
  BY DEF IInv, Traces
<1>2. QED
  BY <1>1, IInvInductive, PTL

(* releaseLock and markFailedAndDrop settle the row before the message goes   *)
(* and drop the errors of the call that does: whatever else fails, each       *)
(* failed call leaves at most one request whose row nobody will settle.       *)
THEOREM BlockedByFailedCalls == Spec => []FailureLeavesOneBlocking
<1>1. ASSUME IInv
      PROVE  FailureLeavesOneBlocking
  <2>1. LeftBlocking \subseteq Debt
    BY DEF LeftBlocking, Debt, Owing
  <2>2. /\ IsFiniteSet(LeftBlocking)
        /\ Cardinality(LeftBlocking) <= Cardinality(Debt)
    BY <1>1, <2>1, FS_Subset DEF IInv, DebtInv
  <2>3. Cardinality(LeftBlocking) \in Nat /\ Cardinality(Debt) \in Nat
    BY <1>1, <2>2, FS_CardinalityType DEF IInv, DebtInv
  <2>4. faults \in Nat /\ Cardinality(Debt) <= faults
    BY <1>1, WorkerAssumption DEF IInv, TypeOK, DebtInv
  <2>5. QED
    BY <2>2, <2>3, <2>4 DEF FailureLeavesOneBlocking
<1>2. QED
  BY <1>1, IInvInductive, PTL
=============================================================================
