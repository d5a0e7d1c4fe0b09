--------------------------- MODULE LoadTestWorker ---------------------------
(***************************************************************************)
(* The workers that take load-test requests from a queue                   *)
(* (benchmarker/worker): a received message is marked running in a status  *)
(* table, skipped when another request of its team is waiting or running,  *)
(* tested, its score posted, its row settled and the message deleted.      *)
(* The queue hides a received message for a visibility timeout and then    *)
(* delivers it again; every call to the table, the queues and the score    *)
(* server may fail or lose its answer; a worker may crash at any step and  *)
(* is started again.                                                       *)
(***************************************************************************)
EXTENDS Integers, FiniteSets

CONSTANTS
  Workers,      \* worker processes
  Requests,     \* load-test requests (LoadTestID), the keys of the table
  Malformed,    \* requests whose message does not parse
  TeamOf,       \* the team of a request; a team has one machine to test
  MaxFaults     \* bound: failed calls and crashes of a behaviour

ASSUME WorkerAssumption ==
  /\ Malformed \subseteq Requests
  /\ MaxFaults \in Nat

VARIABLES
  message,    \* queue: "none", "visible", "hidden" or "gone", by request
  row,        \* table: Status, by request; "none" is no row
  fresh,      \* table: requests whose UpdatedAt is within the last hour
  posted,     \* score server: requests with a registered score
  dlq,        \* dead letter queue: requests put aside
  pc,         \* where a worker is in processMessage
  request,    \* the request a worker handles
  receipt,    \* workers whose pop receipt is the latest of their message
  unchecked,  \* by worker: siblings isDuplicateOrSkip has still to look at
  faults,     \* how many calls failed
  overrun,    \* history: requests redelivered while a worker handled them
  unmarked,   \* history: requests whose last mark as running was lost
  tested,     \* history: requests whose test has been started
  retested    \* history: requests whose test has been started again

queue == <<message, receipt>>
table == <<row, fresh>>
results == <<posted, dlq>>
history == <<overrun, unmarked, tested, retested>>
vars == <<queue, table, results, pc, request, unchecked, faults, history>>

Handling == {"parse", "check", "run", "post", "release", "dlq", "markFailed", "delete"}

(* Another request of the same team, told apart by its LoadTestID. *)
(* Mutant: a request counts as its own sibling. *)
SiblingsAndSelf(r) == {s \in Requests : TeamOf[s] = TeamOf[r]}

Siblings(r) == {s \in Requests : TeamOf[s] = TeamOf[r] /\ s # r}

Handled(r) == \E w \in Workers : pc[w] # "idle" /\ request[w] = r

Init ==
  /\ message = [r \in Requests |-> "none"]
  /\ row = [r \in Requests |-> "none"]
  /\ fresh = {}
  /\ posted = {} /\ dlq = {}
  /\ pc = [w \in Workers |-> "idle"]
  /\ request \in [Workers -> Requests]
  /\ receipt = {}
  /\ unchecked = [w \in Workers |-> {}]
  /\ faults = 0
  /\ overrun = {} /\ unmarked = {} /\ tested = {} /\ retested = {}

GoTo(w, label) == pc' = [pc EXCEPT ![w] = label]

(* A call that fails: it had no effect, or only its answer is lost. *)
CallFails ==
  /\ faults < MaxFaults
  /\ faults' = faults + 1

(* updateRequestStatus and acquireLock: an upsert that also sets UpdatedAt. *)
SetRow(r, status) ==
  /\ row' = [row EXCEPT ![r] = status]
  /\ fresh' = fresh \cup {r}

-----------------------------------------------------------------------------
(* The outside: the request server, the queue's timeout, the clock *)

(* The request server writes a waiting row and enqueues the message. *)
Submit(r) ==
  /\ message[r] = "none"
  /\ message' = [message EXCEPT ![r] = "visible"]
  /\ SetRow(r, "waiting")
  /\ UNCHANGED <<receipt, results, pc, request, unchecked, faults, history>>

(* The visibility timeout of a message that was not deleted runs out.      *)
Redeliver(r) ==
  /\ message[r] = "hidden"
  /\ message' = [message EXCEPT ![r] = "visible"]
  /\ overrun' = IF Handled(r) THEN overrun \cup {r} ELSE overrun
  /\ UNCHANGED <<receipt, table, results, pc, request, unchecked, faults,
                 unmarked, tested, retested>>

(* An hour passes without an update of the row, longer than any handling.  *)
Age(r) ==
  /\ r \in fresh
  /\ ~Handled(r)
  /\ fresh' = fresh \ {r}
  /\ UNCHANGED <<queue, row, results, pc, request, unchecked, faults, history>>

-----------------------------------------------------------------------------
(* pollQueue and processMessage *)

(* The message gets a new pop receipt: the older ones are worth nothing.   *)
Dequeue(w, r) ==
  /\ pc[w] = "idle"
  /\ message[r] = "visible"
  /\ message' = [message EXCEPT ![r] = "hidden"]
  /\ receipt' = {w} \cup {v \in receipt : request[v] # r}
  /\ request' = [request EXCEPT ![w] = r]
  /\ GoTo(w, "parse")
  /\ UNCHANGED <<table, results, unchecked, faults, history>>

(* A message that does not parse is deleted unseen. *)
Reject(w) ==
  /\ pc[w] = "parse"
  /\ request[w] \in Malformed
  /\ GoTo(w, "delete")
  /\ UNCHANGED <<queue, table, results, request, unchecked, faults, history>>

(* parseQueueMessage marks the request running before anything is checked; *)
(* a failure is logged and no more.                                        *)
(* Mutant: the row is left to acquireLock. *)
MarkNothing(r) == UNCHANGED table

MarkRow(r) == SetRow(r, "running")

Mark(w) ==
  /\ pc[w] = "parse"
  /\ request[w] \notin Malformed
  /\ \/ /\ MarkRow(request[w])
        /\ unmarked' = unmarked \ {request[w]}
        /\ UNCHANGED faults
     \/ /\ CallFails
        /\ unmarked' = unmarked \cup {request[w]}
        /\ UNCHANGED table
  /\ unchecked' = [unchecked EXCEPT ![w] = Siblings(request[w])]
  /\ GoTo(w, "check")
  /\ UNCHANGED <<queue, results, request, overrun, tested, retested>>

(* isDuplicateOrSkip: the filter of the query ... *)
Blocks(s) == row[s] \in {"waiting", "running"} /\ s \in fresh

(* ... which reads the team's rows page by page.  A hit ends the handling: *)
(* the message stays in the queue, the row stays as it was marked.         *)
LookAt(w, s) ==
  /\ pc[w] = "check"
  /\ s \in unchecked[w]
  /\ ~Blocks(s)
  /\ unchecked' = [unchecked EXCEPT ![w] = @ \ {s}]
  /\ UNCHANGED <<queue, table, results, pc, request, faults, history>>

(* Mutant: the message of a skipped request is deleted. *)
SkipDrops(w, s) ==
  /\ pc[w] = "check"
  /\ s \in unchecked[w]
  /\ Blocks(s)
  /\ unchecked' = [unchecked EXCEPT ![w] = {}]
  /\ GoTo(w, "delete")
  /\ UNCHANGED <<queue, table, results, request, faults, history>>

Skip(w, s) ==
  /\ pc[w] = "check"
  /\ s \in unchecked[w]
  /\ Blocks(s)
  /\ unchecked' = [unchecked EXCEPT ![w] = {}]
  /\ GoTo(w, "idle")
  /\ UNCHANGED <<queue, table, results, request, faults, history>>

CheckFails(w) ==
  /\ pc[w] = "check"
  /\ CallFails
  /\ unchecked' = [unchecked EXCEPT ![w] = {}]
  /\ GoTo(w, "idle")
  /\ UNCHANGED <<queue, table, results, request, history>>

StartTest(r) ==
  /\ tested' = tested \cup {r}
  /\ retested' = IF r \in tested THEN retested \cup {r} ELSE retested

(* acquireLock, then the test begins. *)
Acquire(w) ==
  /\ pc[w] = "check"
  /\ unchecked[w] = {}
  /\ SetRow(request[w], "running")
  /\ StartTest(request[w])
  /\ GoTo(w, "run")
  /\ UNCHANGED <<queue, results, request, unchecked, faults, overrun, unmarked>>

AcquireFails(w) ==
  /\ pc[w] = "check"
  /\ unchecked[w] = {}
  /\ CallFails
  /\ SetRow(request[w], "running") \/ UNCHANGED table
  /\ GoTo(w, "idle")
  /\ UNCHANGED <<queue, results, request, unchecked, history>>

(* runLoadTest: k6 ends well or not; a score that cannot be computed is 0. *)
Run(w) ==
  /\ pc[w] = "run"
  /\ GoTo(w, "post") \/ GoTo(w, "dlq")
  /\ UNCHANGED <<queue, table, results, request, unchecked, faults, history>>

Post(w) ==
  /\ pc[w] = "post"
  /\ posted' = posted \cup {request[w]}
  /\ GoTo(w, "release")
  /\ UNCHANGED <<queue, table, dlq, request, unchecked, faults, history>>

(* Mutant: an error of postScore is only logged. *)
PostErrorIgnored(w) ==
  /\ pc[w] = "post"
  /\ CallFails
  /\ posted' = posted \/ posted' = posted \cup {request[w]}
  /\ GoTo(w, "release")
  /\ UNCHANGED <<queue, table, dlq, request, unchecked, history>>

(* The score is refused, the server does not answer in 15 s, or its answer *)
(* is lost: the request is treated as failed.                              *)
PostFails(w) ==
  /\ pc[w] = "post"
  /\ CallFails
  /\ posted' = posted \/ posted' = posted \cup {request[w]}
  /\ GoTo(w, "dlq")
  /\ UNCHANGED <<queue, table, dlq, request, unchecked, history>>

(* releaseLock; its error is ignored. *)
(* Mutant: a status nobody asks for. *)
ReleaseAsDone(w) ==
  /\ pc[w] = "release"
  /\ SetRow(request[w], "done")
  /\ GoTo(w, "delete")
  /\ UNCHANGED <<queue, results, request, unchecked, faults, history>>

Release(w) ==
  /\ pc[w] = "release"
  /\ \/ SetRow(request[w], "finished") /\ UNCHANGED faults
     \/ CallFails /\ UNCHANGED table
  /\ GoTo(w, "delete")
  /\ UNCHANGED <<queue, results, request, unchecked, history>>

(* markFailedAndDrop: three calls, each of which may fail unnoticed. *)
PutAside(w) ==
  /\ pc[w] = "dlq"
  /\ \/ dlq' = dlq \cup {request[w]} /\ UNCHANGED faults
     \/ CallFails /\ UNCHANGED dlq
  /\ GoTo(w, "markFailed")
  /\ UNCHANGED <<queue, table, posted, request, unchecked, history>>

(* Mutant: the status of a failed request is left as it is. *)
FailureUnrecorded(w) ==
  /\ pc[w] = "markFailed"
  /\ GoTo(w, "delete")
  /\ UNCHANGED <<queue, table, results, request, unchecked, faults, history>>

MarkFailed(w) ==
  /\ pc[w] = "markFailed"
  /\ \/ SetRow(request[w], "failed") /\ UNCHANGED faults
     \/ CallFails /\ UNCHANGED table
  /\ GoTo(w, "delete")
  /\ UNCHANGED <<queue, results, request, unchecked, history>>

(* DeleteMessage takes effect only with the latest pop receipt, be the     *)
(* message hidden or visible again; its error is logged and no more.       *)
LatestReceipt(w) == w \in receipt

(* Mutant: the message is never deleted. *)
DeleteNothing(w) ==
  /\ pc[w] = "delete"
  /\ GoTo(w, "idle")
  /\ UNCHANGED <<queue, table, results, request, unchecked, faults, history>>

Delete(w) ==
  /\ pc[w] = "delete"
  /\ \/ /\ LatestReceipt(w)
        /\ message' = [message EXCEPT ![request[w]] = "gone"]
        /\ UNCHANGED faults
     \/ ~LatestReceipt(w) /\ UNCHANGED <<message, faults>>
     \/ CallFails /\ UNCHANGED message
  /\ GoTo(w, "idle")
  /\ UNCHANGED <<receipt, table, results, request, unchecked, history>>

(* The process is killed and the container started again. *)
Crash(w) ==
  /\ pc[w] # "idle"
  /\ CallFails
  /\ unchecked' = [unchecked EXCEPT ![w] = {}]
  /\ GoTo(w, "idle")
  /\ UNCHANGED <<queue, table, results, request, history>>

-----------------------------------------------------------------------------
Outside(r) == Submit(r) \/ Redeliver(r) \/ Age(r)

Process(w) ==
  \/ Reject(w) \/ Mark(w) \/ CheckFails(w)
  \/ \E s \in Requests : LookAt(w, s) \/ Skip(w, s)
  \/ Acquire(w) \/ AcquireFails(w)
  \/ Run(w)
  \/ Post(w) \/ PostFails(w)
  \/ Release(w)
  \/ PutAside(w) \/ MarkFailed(w)
  \/ Delete(w)

Next ==
  \/ \E r \in Requests : Outside(r)
  \/ \E w \in Workers : Process(w) \/ Crash(w)
  \/ \E w \in Workers, r \in Requests : Dequeue(w, r)

Spec == Init /\ [][Next]_vars

(* Workers poll and go on, hidden messages reappear.  Nothing makes an     *)
(* hour pass: a row that is updated more often than that never ages.       *)
FairSpec ==
  /\ Spec
  /\ \A w \in Workers : WF_vars(Process(w))
  /\ \A r \in Requests : WF_vars(Redeliver(r)) /\ SF_vars(\E w \in Workers : Dequeue(w, r))

-----------------------------------------------------------------------------
(* Properties *)

(* Every variable has its type. *)
TypeOK ==
  /\ message \in [Requests -> {"none", "visible", "hidden", "gone"}]
  /\ row \in [Requests -> {"none", "waiting", "running", "finished", "failed"}]
  /\ fresh \subseteq Requests
  /\ posted \subseteq Requests
  /\ dlq \subseteq Requests
  /\ pc \in [Workers -> Handling \cup {"idle"}]
  /\ request \in [Workers -> Requests]
  /\ receipt \subseteq Workers
  /\ unchecked \in [Workers -> SUBSET Requests]
  /\ faults \in 0..MaxFaults
  /\ overrun \subseteq Requests
  /\ unmarked \subseteq Requests
  /\ tested \subseteq Requests
  /\ retested \subseteq Requests

(* Two load tests of one team, on one machine. *)
Overlap(v, w) ==
  /\ v # w
  /\ pc[v] = "run" /\ pc[w] = "run"
  /\ TeamOf[request[v]] = TeamOf[request[w]]

(* Marking before checking keeps the tests of a team apart, whatever       *)
(* faults, crashes and redeliveries happen, except for a request that was  *)
(* redelivered during its handling or whose mark was lost.                 *)
OverlapOnlyAfterOverrunOrLostMark ==
  \A v, w \in Workers :
    Overlap(v, w) => {request[v], request[w]} \cap (overrun \cup unmarked) # {}

(* A request is tested a second time only when a call failed, a worker     *)
(* crashed, or its message was redelivered during its handling.            *)
RetestedOnlyAfterFaultOrOverrun == faults = 0 => retested \subseteq overrun

(* Who sees the status finished finds the score: the row is settled after  *)
(* the score is registered.                                                *)
FinishedHasScore == \A r \in Requests : row[r] = "finished" => r \in posted

(* A message leaves the queue only when its request left a trace: a score, *)
(* a dead letter or the status failed; a single failed call hides nothing. *)
Traced(r) == r \in posted \cup dlq \/ row[r] = "failed"

GoneIsTraced ==
  \A r \in Requests \ (Malformed \cup overrun) :
    message[r] = "gone" /\ faults <= 1 => Traced(r)

(* A request whose message is gone must not block its team any more:       *)
(* nobody will ever settle its row.  releaseLock and markFailedAndDrop     *)
(* drop the errors of the settling call, so it can come to that; but each  *)
(* failed call or crash leaves at most one such request behind, whichever  *)
(* step it hits and whatever is redelivered afterwards.                    *)
LeftBlocking ==
  {r \in Requests \ (Malformed \cup overrun) :
     message[r] = "gone" /\ row[r] \notin {"finished", "failed"}}

FailureLeavesOneBlocking == Cardinality(LeftBlocking) <= faults

(* A request that is alone in its team gets a result, in spite of faults.  *)
EveryRequestGetsResult ==
  \A r \in Requests \ Malformed : message[r] = "visible" ~> Traced(r)

(* Never two load tests on one machine: "1VM..." of 03_Scripts.md.         *)
OneTestPerMachine == \A v, w \in Workers : ~Overlap(v, w)

(* A request that is skipped makes way for another of its team that is in  *)
(* progress, as the message logged at the skip says.  Without faults only  *)
(* a skip leaves a hidden message to no worker.                            *)
Skipped(r) == message[r] = "hidden" /\ ~Handled(r)

SkipMakesWay ==
  \A r \in Requests : Skipped(r) ~> (\E s \in Siblings(r) : s \in tested)
=============================================================================
