------------------------------ MODULE Requests ------------------------------
(***************************************************************************)
(* Every request of the backend (server/server.go) as what it asks of the  *)
(* database: the session check of the middleware, then the statements and  *)
(* transactions of its handler, each on a connection from a pool that is   *)
(* limited (db/db.go), some of them waiting for row locks.  Logins write   *)
(* the sessions that checks read; a browser keeps the id of its session in *)
(* its cookie jar.                                                         *)
(***************************************************************************)
EXTENDS Integers, Sequences, FiniteSets

CONSTANTS
  Calls,        \* slots for the requests the backend is working on
  NoCall,       \* nobody has the connection or the lock
  Connections,  \* the pool: SetMaxOpenConns
  Users,        \* shoppers, each with a browser
  NoUser,       \* of a request: anybody; of a session row: there is none
  MaxSessions   \* bound: sessions created

Sessions == 1..MaxSessions
NoSession == 0

ASSUME RequestsAssumption ==
  /\ IsFiniteSet(Calls)
  /\ IsFiniteSet(Connections)
  /\ Connections # {}
  /\ NoCall \notin Calls
  /\ NoUser \notin Users
  /\ MaxSessions \in Nat

VARIABLES
  owner,     \* the call that has taken a connection from the pool
  locked,    \* the call that holds the row locks the updates compete for
  call,      \* the goroutine in every slot
  sessions,  \* user_sessions: the user of every row that has not expired
  created,   \* how many sessions were created
  jar        \* the session_id cookie of every browser

pool == <<owner, locked>>
vars == <<pool, call, sessions, created, jar>>

(* The stages of a request.  A listing runs two statements in parallel     *)
(* (errgroup), a transaction is one stage on one connection; GetImage asks *)
(* for nothing but the session.                                            *)
Program ==
  [none    |-> <<>>,
   login   |-> <<"user", "insert">>,
   image   |-> <<"check">>,
   list    |-> <<"check", "pair">>,
   history |-> <<"check", "query", "query">>,
   create  |-> <<"check", "tx">>,
   plan    |-> <<"update">>,
   status  |-> <<"update">>]

ShopperKinds == {"login", "image", "list", "history", "create"}
RobotKinds == {"plan", "status"}

(* user is who signs in with a login, or whose browser sent the request,   *)
(* until it is checked; sid is the session a request shows until then, or  *)
(* the one a login has created; done counts the statements of the stage    *)
(* that ended.                                                             *)
CallRecords ==
  [kind : DOMAIN Program, user : Users \cup {NoUser}, sid : Sessions \cup {NoSession},
   step : 1..4, done : 0..1]

Idle == [kind |-> "none", user |-> NoUser, sid |-> NoSession, step |-> 1, done |-> 0]

Init ==
  /\ owner = [k \in Connections |-> NoCall]
  /\ locked = NoCall
  /\ call = [c \in Calls |-> Idle]
  /\ sessions = [s \in Sessions |-> NoUser]
  /\ created = 0
  /\ jar = [u \in Users |-> NoSession]

-----------------------------------------------------------------------------
(* Helpers *)

Busy(c) == call[c].kind # "none"

Stage(c) == IF call[c].step \in DOMAIN Program[call[c].kind]
            THEN Program[call[c].kind][call[c].step] ELSE "reply"

Held(c) == {k \in Connections : owner[k] = c}

Statements(stage) == CASE stage = "reply" -> 0 [] stage = "pair" -> 2 [] OTHER -> 1

(* How many connections a statement needs at once.  (Mutant: statements of *)
(* a transaction go through the outer store, next to the open transaction.)*)
OuterStoreInTx(stage) == IF stage \in {"tx", "update"} THEN 2 ELSE 1

TxStoreInTx(stage) == 1

Wanted(c) == (Statements(Stage(c)) - call[c].done) * TxStoreInTx(Stage(c))

(* The connections one statement of the call runs on. *)
Ready(c) == {K \in SUBSET Held(c) : Cardinality(K) = TxStoreInTx(Stage(c))}

AtStage(c, stages) == Busy(c) /\ Stage(c) \in stages

GivenBack(K) == [k \in Connections |-> IF k \in K THEN NoCall ELSE owner[k]]

Unlock(c) == locked' = IF locked = c THEN NoCall ELSE locked

-----------------------------------------------------------------------------
(* A request arrives.  Without a cookie the middleware refuses it at once. *)
Send(c, kind, user, sid) ==
  /\ ~Busy(c)
  /\ call' = [call EXCEPT ![c] =
       [kind |-> kind, user |-> user, sid |-> sid, step |-> 1, done |-> 0]]
  /\ UNCHANGED <<pool, sessions, created, jar>>

SessionsLeft ==
  created + Cardinality({c \in Calls : call[c].kind = "login"}) < MaxSessions

ShopperSends(c, u) ==
  \/ SessionsLeft /\ Send(c, "login", u, NoSession)
  \/ \E kind \in ShopperKinds \ {"login"} :
       jar[u] # NoSession /\ Send(c, kind, u, jar[u])

RobotSends(c) == \E kind \in RobotKinds : Send(c, kind, NoUser, NoSession)

(* A statement, or BEGIN, takes a connection from the pool. *)
Acquire(c) ==
  /\ Busy(c)
  /\ Cardinality(Held(c)) < Wanted(c)
  /\ \E k \in Held(NoCall) : owner' = [owner EXCEPT ![k] = c]
  /\ UNCHANGED <<locked, call, sessions, created, jar>>

(* An UPDATE waits for its row locks on its connection. *)
Lock(c) ==
  /\ AtStage(c, {"update"})
  /\ Ready(c) # {}
  /\ locked = NoCall
  /\ locked' = c
  /\ UNCHANGED <<owner, call, sessions, created, jar>>

NextStage(c) == [call[c] EXCEPT !.step = @ + 1, !.done = 0]

(* A statement or transaction ends and gives its connection back; after    *)
(* the last one of its stage the request goes on.                          *)
EndStatement(c) ==
  \E K \in Ready(c) :
    /\ owner' = GivenBack(K)
    /\ Unlock(c)
    /\ call' = [call EXCEPT ![c] =
         IF call[c].done + 1 < Statements(Stage(c)) THEN [@ EXCEPT !.done = 1] ELSE NextStage(c)]

Run(c) ==
  /\ AtStage(c, {"user", "pair", "query", "tx", "update"})
  /\ Stage(c) = "update" => locked = c
  /\ EndStatement(c)
  /\ UNCHANGED <<sessions, created, jar>>

(* FindUserBySessionID finds a row that has not expired.  The handler goes *)
(* on for the user of that row; its statements are not told apart by user. *)
Check(c) ==
  /\ AtStage(c, {"check"})
  /\ sessions[call[c].sid] # NoUser
  /\ \E K \in Ready(c) :
       /\ owner' = GivenBack(K)
       /\ call' = [call EXCEPT ![c] = [@ EXCEPT !.step = 2, !.sid = NoSession, !.user = NoUser]]
  /\ UNCHANGED <<locked, sessions, created, jar>>

(* SessionRepository.Create inserts a row under a new id, for the user who *)
(* was found.  (Mutant: the columns are swapped.)                          *)
IdColumn(c) == call[c].sid

UserColumn(c) == call[c].user

Insert(c) ==
  /\ AtStage(c, {"insert"})
  /\ created' = created + 1
  /\ sessions' = [sessions EXCEPT ![created'] = UserColumn(c)]
  /\ \E K \in Ready(c) :
       /\ owner' = GivenBack(K)
       /\ call' = [call EXCEPT ![c] = [@ EXCEPT !.step = 3, !.sid = created']]
  /\ UNCHANGED <<locked, jar>>

(* The answer arrives; that of a login sets the cookie.                    *)
(* Mutant: the service keeps the session it created last in one variable.  *)
LastCreated(c) == created

OwnSession(c) == call[c].sid

Reply(c) ==
  /\ AtStage(c, {"reply"})
  /\ call' = [call EXCEPT ![c] = Idle]
  /\ jar' = IF call[c].kind = "login" THEN [jar EXCEPT ![call[c].user] = OwnSession(c)] ELSE jar
  /\ UNCHANGED <<pool, sessions, created>>

(* The request fails: the middleware or Login refuses it, a statement      *)
(* fails, the client leaves or the time is up; at "reply" the answer is    *)
(* lost.  ExecTx rolls back.  (Mutant: it forgets to.)                     *)
FailWithoutRollback(c) ==
  /\ Busy(c)
  /\ call' = [call EXCEPT ![c] = Idle]
  /\ owner' = GivenBack(IF AtStage(c, {"tx", "update"}) THEN {} ELSE Held(c))
  /\ Unlock(c)
  /\ UNCHANGED <<sessions, created, jar>>

Fail(c) ==
  /\ Busy(c)
  /\ call' = [call EXCEPT ![c] = Idle]
  /\ owner' = GivenBack(Held(c))
  /\ Unlock(c)
  /\ UNCHANGED <<sessions, created, jar>>

(* The session has expired since the request was sent. *)
Refuse(c) ==
  /\ AtStage(c, {"check"})
  /\ Ready(c) # {}
  /\ sessions[call[c].sid] = NoUser
  /\ Fail(c)

(* The browser drops the cookie: clearCookieAction has emptied it, or its   *)
(* Expires date has come by the browser's clock.  The row stays.           *)
DropCookie(u) ==
  /\ jar[u] # NoSession
  /\ jar' = [jar EXCEPT ![u] = NoSession]
  /\ UNCHANGED <<pool, call, sessions, created>>

(* A row expires by the backend's clock, which is not that of the browser; *)
(* a restore of the database takes the rows as well.  The cookie stays.    *)
Expire(s) ==
  /\ sessions[s] # NoUser
  /\ sessions' = [sessions EXCEPT ![s] = NoUser]
  /\ UNCHANGED <<pool, call, created, jar>>

-----------------------------------------------------------------------------
Work(c) == Run(c) \/ Check(c) \/ Refuse(c) \/ Insert(c) \/ Reply(c)

Next ==
  \/ \E c \in Calls : \/ Acquire(c) \/ Lock(c) \/ Work(c) \/ Fail(c) \/ RobotSends(c)
                      \/ \E u \in Users : ShopperSends(c, u)
  \/ \E u \in Users : DropCookie(u)
  \/ \E s \in Sessions : Expire(s)

Spec == Init /\ [][Next]_vars

(* database/sql hands a connection that is given back to a waiter picked   *)
(* at random, InnoDB grants row locks in turn: a request that can get one  *)
(* again and again gets it.                                                *)
FairSpec ==
  /\ Spec
  /\ \A c \in Calls : SF_vars(Acquire(c)) /\ SF_vars(Lock(c)) /\ WF_vars(Work(c))

-----------------------------------------------------------------------------
(* Properties *)

(* Every variable has its type. *)
TypeOK ==
  /\ owner \in [Connections -> Calls \cup {NoCall}]
  /\ locked \in Calls \cup {NoCall}
  /\ call \in [Calls -> CallRecords]
  /\ sessions \in [Sessions -> Users \cup {NoUser}]
  /\ created \in 0..MaxSessions
  /\ jar \in [Users -> Sessions \cup {NoSession}]

(* A connection that was taken belongs to a statement that is running: no  *)
(* error path of a handler, transaction or listing keeps one.              *)
NoConnectionLeaks ==
  \A c \in Calls : Cardinality(Held(c)) <= Wanted(c) /\ (Held(c) # {} => Busy(c))

(* At the limit of the pool some request can always go on: whoever holds a *)
(* connection or the locks waits for nobody who waits for it.              *)
CanGoOn(c) ==
  /\ Busy(c)
  /\ \/ Stage(c) = "reply"
     \/ Cardinality(Held(c)) < Wanted(c) /\ Held(NoCall) # {}
     \/ Ready(c) # {} /\ (Stage(c) = "update" => locked \in {c, NoCall})

NobodyWaitsInCircles == (\E c \in Calls : Busy(c)) => \E c \in Calls : CanGoOn(c)

(* Every request is answered or fails, however many compete for the pool.  *)
EveryRequestEnds == \A c \in Calls : Busy(c) ~> ~Busy(c)

(* Nobody gets into the session of somebody else, whatever logins run at    *)
(* once, fail half-way or lose their answers, and whichever of the two      *)
(* clocks ends a session first: the row that a cookie names, or that a      *)
(* request with an older cookie is about to be checked against, is that of  *)
(* the user who signed in with that browser, or gone.                       *)
OpensFor(sid, u) == sessions[sid] \in {u, NoUser}

CookieOpensOwnSession ==
  /\ \A u \in Users : jar[u] # NoSession => OpensFor(jar[u], u)
  /\ \A c \in Calls : AtStage(c, {"check"}) => OpensFor(call[c].sid, call[c].user)
=============================================================================
