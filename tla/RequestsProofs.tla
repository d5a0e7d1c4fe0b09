--------------------------- MODULE RequestsProofs ---------------------------
(* Theorems about Requests: they hold for any number of calls, connections *)
(* and users.                                                              *)
EXTENDS Requests, FiniteSetTheorems, TLAPS

-----------------------------------------------------------------------------
(* The inductive invariant, in parts.                                      *)

Checking == {"image", "list", "history", "create"}

(* What a request knows at each of its stages: a login names its user and, *)
(* once it has created one, a session of that user; a request that is to   *)
(* be checked shows a session of the user whose browser sent it; only a    *)
(* listing is ever half-way through its stage.                             *)
CallShape(c) ==
  /\ call[c].kind = "login" =>
       /\ call[c].user \in Users
       /\ call[c].step <= 3
       /\ call[c].step = 3 =>
            call[c].sid \in 1..created /\ OpensFor(call[c].sid, call[c].user)
  /\ call[c].kind \in Checking /\ call[c].step = 1 =>
       /\ call[c].user \in Users
       /\ call[c].sid \in 1..created /\ OpensFor(call[c].sid, call[c].user)
  /\ call[c].done = 1 => Stage(c) = "pair"

CallInv == \A c \in Calls : CallShape(c)

(* The logins that are still to create a session have room for it. *)
Pending == {c \in Calls : call[c].kind = "login" /\ call[c].step <= 2}

RoomInv == created + Cardinality(Pending) <= MaxSessions

(* Whoever holds the row locks is at its update, on a connection. *)
LockInv == locked # NoCall => AtStage(locked, {"update"}) /\ Held(locked) # {}

(* A cookie names a session that was created, and is its user's own. *)
JarInv ==
  \A u \in Users : jar[u] # NoSession => jar[u] \in 1..created /\ OpensFor(jar[u], u)

IInv == TypeOK /\ CallInv /\ RoomInv /\ NoConnectionLeaks /\ LockInv /\ JarInv

-----------------------------------------------------------------------------
(* Stages *)

(* The stages of every kind of request, read off its program. *)
LEMMA Stages ==
  ASSUME TypeOK, NEW c \in Calls
  PROVE  /\ Stage(c) \in {"user", "insert", "check", "pair", "query", "tx", "update", "reply"}
         /\ Stage(c) # "reply" => Busy(c) /\ call[c].step <= 3
         /\ Stage(c) = "check" <=> call[c].kind \in Checking /\ call[c].step = 1
         /\ Stage(c) = "insert" <=> call[c].kind = "login" /\ call[c].step = 2
         /\ call[c].kind = "login" /\ Stage(c) = "reply" => call[c].step >= 3
         /\ call[c].kind = "login" => Stage(c) \in {"user", "insert", "reply"}
         /\ call[c].kind = "login" /\ Stage(c) = "user" => call[c].step = 1
<1>1. call[c].kind \in DOMAIN Program /\ call[c].step \in {1, 2, 3, 4}
  BY DEF TypeOK, CallRecords
<1>2. QED
  BY <1>1 DEF Stage, Busy, Program, Checking

(* How far a stage is from its end. *)
LEMMA Counts ==
  ASSUME TypeOK, CallInv, NEW c \in Calls
  PROVE  /\ Wanted(c) \in 0..2
         /\ Wanted(c) = 2 <=> Stage(c) = "pair" /\ call[c].done = 0
         /\ Wanted(c) = 0 <=> Stage(c) = "reply"
         /\ Wanted(c) = Statements(Stage(c)) - call[c].done
         /\ call[c].done + 1 < Statements(Stage(c)) <=> Wanted(c) = 2
<1>1. call[c].done \in {0, 1} /\ (call[c].done = 1 => Stage(c) = "pair")
  BY DEF TypeOK, CallRecords, CallInv, CallShape
<1>2. QED
  BY <1>1, Stages DEF Wanted, Statements, TxStoreInTx

(* A call holds finitely many connections. *)
LEMMA HeldFinite ==
  ASSUME NEW c
  PROVE  Held(c) \subseteq Connections /\ IsFiniteSet(Held(c))
BY FS_Subset, RequestsAssumption DEF Held

(* A call that holds a connection can run its statement on one of them. *)
LEMMA HeldIsReady ==
  ASSUME NEW c \in Calls, NEW k \in Held(c)
  PROVE  Ready(c) # {}
<1>1. {k} \in SUBSET Held(c) /\ Cardinality({k}) = 1
  BY FS_Singleton
<1>2. QED
  BY <1>1 DEF Ready, TxStoreInTx

(* What a ready call runs its statement on is one connection of its own. *)
LEMMA ReadyIsOne ==
  ASSUME NEW c \in Calls, NEW K \in Ready(c)
  PROVE  \E k \in Held(c) : K = {k}
<1>1. K \subseteq Held(c) /\ Cardinality(K) = 1 /\ IsFiniteSet(K)
  BY HeldFinite, FS_Subset DEF Ready, TxStoreInTx
<1>2. PICK k : K = {k}
  BY <1>1, FS_Singleton
<1>3. QED
  BY <1>1, <1>2

-----------------------------------------------------------------------------
(* Steps *)

(* After its last statement a request goes on to its next stage, in the    *)
(* middle of a pair it stays. *)
Advanced(c) ==
  IF Wanted(c) = 2 THEN [call[c] EXCEPT !.done = 1]
  ELSE NextStage(c)

(* A statement gives one connection back and moves its call on. *)
LEMMA RunEffect ==
  ASSUME TypeOK, CallInv, NEW c \in Calls, Run(c)
  PROVE  /\ Stage(c) \in {"user", "pair", "query", "tx", "update"}
         /\ \E k \in Held(c) : owner' = [j \in Connections |-> IF j = k THEN NoCall ELSE owner[j]]
         /\ call' = [call EXCEPT ![c] = Advanced(c)]
         /\ locked' = IF locked = c THEN NoCall ELSE locked
         /\ UNCHANGED <<sessions, created, jar>>
<1>1. PICK K \in Ready(c) :
        /\ owner' = GivenBack(K)
        /\ call' = [call EXCEPT ![c] = Advanced(c)]
  BY Counts DEF Run, EndStatement, Advanced
<1>2. PICK k \in Held(c) : K = {k}
  BY ReadyIsOne
<1>3. QED
  BY <1>1, <1>2 DEF Run, EndStatement, AtStage, Unlock, GivenBack

(* So does the check of a session. *)
LEMMA CheckEffect ==
  ASSUME TypeOK, CallInv, NEW c \in Calls, Check(c)
  PROVE  /\ Stage(c) = "check" /\ Wanted(c) = 1
         /\ \E k \in Held(c) : owner' = [j \in Connections |-> IF j = k THEN NoCall ELSE owner[j]]
         /\ call' = [call EXCEPT ![c] = call'[c]]
         /\ call'[c].kind = call[c].kind /\ call'[c].step = 2
         /\ call'[c].done = 0 /\ call'[c].sid = NoSession
         /\ call'[c] \in CallRecords
         /\ UNCHANGED <<locked, sessions, created, jar>>
<1>1. PICK K \in Ready(c) :
        /\ owner' = GivenBack(K)
        /\ call' = [call EXCEPT ![c] = [@ EXCEPT !.step = 2, !.sid = NoSession, !.user = NoUser]]
  BY DEF Check
<1>2. PICK k \in Held(c) : K = {k}
  BY ReadyIsOne
<1>3. Stage(c) = "check" /\ Wanted(c) = 1
  BY Counts, Stages DEF Check, AtStage
<1>4. call[c] \in CallRecords /\ c \in DOMAIN call
  BY DEF TypeOK
<1>5. call[c].done = 0
  BY <1>3, <1>4 DEF CallInv, CallShape, CallRecords
<1>6. /\ call' = [call EXCEPT ![c] = call'[c]]
      /\ call'[c] = [kind |-> call[c].kind, user |-> NoUser,
                     sid |-> NoSession, step |-> 2, done |-> 0]
  BY <1>1, <1>4, <1>5 DEF CallRecords
<1>7. call'[c] \in CallRecords
  BY <1>4, <1>6 DEF CallRecords
<1>8. /\ \E j \in Held(c) : owner' = [i \in Connections |-> IF i = j THEN NoCall ELSE owner[i]]
      /\ UNCHANGED <<locked, sessions, created, jar>>
  BY <1>1, <1>2 DEF Check, GivenBack
<1>9. QED
  BY <1>3, <1>6, <1>7, <1>8

(* So does the INSERT of a session, which takes the next id. *)
LEMMA InsertEffect ==
  ASSUME TypeOK, CallInv, RoomInv, NEW c \in Calls, Insert(c)
  PROVE  /\ Stage(c) = "insert" /\ Wanted(c) = 1
         /\ call[c].kind = "login" /\ call[c].step = 2
         /\ \E k \in Held(c) : owner' = [j \in Connections |-> IF j = k THEN NoCall ELSE owner[j]]
         /\ call' = [call EXCEPT ![c] = call'[c]]
         /\ call'[c].kind = "login" /\ call'[c].user = call[c].user
         /\ call'[c].step = 3 /\ call'[c].done = 0 /\ call'[c].sid = created'
         /\ call'[c] \in CallRecords
         /\ created' = created + 1 /\ created' \in Sessions
         /\ sessions' = [sessions EXCEPT ![created'] = call[c].user]
         /\ UNCHANGED <<locked, jar>>
<1>1. PICK K \in Ready(c) :
        /\ owner' = GivenBack(K)
        /\ call' = [call EXCEPT ![c] = [@ EXCEPT !.step = 3, !.sid = created']]
  BY DEF Insert
<1>2. PICK k \in Held(c) : K = {k}
  BY ReadyIsOne
<1>3. Stage(c) = "insert"
  BY DEF Insert, AtStage
<1>4. call[c].kind = "login" /\ call[c].step = 2 /\ Wanted(c) = 1
  BY <1>3, Stages, Counts
<1>5. created' = created + 1 /\ sessions' = [sessions EXCEPT ![created'] = call[c].user]
  BY DEF Insert, UserColumn
<1>6. created' \in Sessions
  <2>1. IsFiniteSet(Pending) /\ c \in Pending
    BY <1>4, FS_Subset, RequestsAssumption DEF Pending
  <2>2. Cardinality(Pending) \in Nat /\ Cardinality(Pending) # 0
    BY <2>1, FS_CardinalityType, FS_EmptySet
  <2>3. QED
    BY <1>5, <2>2, RequestsAssumption DEF RoomInv, TypeOK, Sessions
<1>7. call[c] \in CallRecords /\ c \in DOMAIN call
  BY DEF TypeOK
<1>8. call[c].done = 0 /\ call[c].user \in Users
  BY <1>3, <1>4, <1>7 DEF CallInv, CallShape, CallRecords
<1>9. /\ call' = [call EXCEPT ![c] = call'[c]]
      /\ call'[c] = [kind |-> "login", user |-> call[c].user, sid |-> created',
                     step |-> 3, done |-> 0]
  BY <1>1, <1>4, <1>7, <1>8 DEF CallRecords
<1>10. call'[c] \in CallRecords
  BY <1>6, <1>8, <1>9 DEF CallRecords, Program
<1>11. /\ \E j \in Held(c) : owner' = [i \in Connections |-> IF i = j THEN NoCall ELSE owner[i]]
       /\ UNCHANGED <<locked, jar>>
  BY <1>1, <1>2 DEF Insert, GivenBack
<1>12. QED
  BY <1>3, <1>4, <1>5, <1>6, <1>9, <1>10, <1>11

(* A slot that is freed, after an answer or a failure. *)
LEMMA FailEffect ==
  ASSUME TypeOK, NEW c \in Calls, Fail(c)
  PROVE  /\ owner' = [j \in Connections |-> IF j \in Held(c) THEN NoCall ELSE owner[j]]
         /\ call' = [call EXCEPT ![c] = Idle]
         /\ locked' = IF locked = c THEN NoCall ELSE locked
         /\ UNCHANGED <<sessions, created, jar>>
BY DEF Fail, GivenBack, Unlock

(* A request takes a free slot and no connection. *)
LEMMA SendFills ==
  ASSUME TypeOK, NEW c \in Calls, NEW kind \in DOMAIN Program,
         NEW user \in Users \cup {NoUser}, NEW sid \in Sessions \cup {NoSession},
         Send(c, kind, user, sid)
  PROVE  /\ ~Busy(c)
         /\ call' = [call EXCEPT ![c] = call'[c]]
         /\ call'[c] \in CallRecords
         /\ call'[c].kind = kind /\ call'[c].user = user /\ call'[c].sid = sid
         /\ call'[c].step = 1 /\ call'[c].done = 0
         /\ UNCHANGED <<owner, locked, sessions, created, jar>>
BY DEF Send, TypeOK, CallRecords, pool

Sent(c) ==
  /\ ~Busy(c)
  /\ call' = [call EXCEPT ![c] = call'[c]]
  /\ call'[c] \in CallRecords
  /\ call'[c].step = 1 /\ call'[c].done = 0
  /\ call'[c].kind = "login" => SessionsLeft /\ call'[c].user \in Users
  /\ call'[c].kind \in Checking =>
       /\ call'[c].user \in Users
       /\ call'[c].sid \in 1..created /\ OpensFor(call'[c].sid, call'[c].user)
  /\ UNCHANGED <<owner, locked, sessions, created, jar>>

(* Whoever sends it, a request begins at its first stage. *)
LEMMA SendEffect ==
  ASSUME TypeOK, JarInv, NEW c \in Calls, RobotSends(c) \/ \E u \in Users : ShopperSends(c, u)
  PROVE  Sent(c)
<1>1. ASSUME NEW kind \in RobotKinds, Send(c, kind, NoUser, NoSession)
      PROVE  Sent(c)
  <2>1. kind \in DOMAIN Program /\ kind # "login" /\ kind \notin Checking
    BY DEF RobotKinds, Program, Checking
  <2>2. QED
    BY <1>1, <2>1, SendFills DEF Sent
<1>2. ASSUME NEW u \in Users, SessionsLeft, Send(c, "login", u, NoSession)
      PROVE  Sent(c)
  <2>1. "login" \in DOMAIN Program /\ "login" \notin Checking
    BY DEF Program, Checking
  <2>2. QED
    BY <1>2, <2>1, SendFills DEF Sent
<1>3. ASSUME NEW u \in Users, NEW kind \in ShopperKinds \ {"login"},
             jar[u] # NoSession, Send(c, kind, u, jar[u])
      PROVE  Sent(c)
  <2>1. kind \in DOMAIN Program /\ kind # "login"
    BY DEF ShopperKinds, Program
  <2>2. jar[u] \in Sessions /\ jar[u] \in 1..created /\ OpensFor(jar[u], u)
    BY <1>3 DEF TypeOK, JarInv
  <2>3. QED
    BY <1>3, <2>1, <2>2, SendFills DEF Sent
<1>4. QED
  BY <1>1, <1>2, <1>3 DEF RobotSends, ShopperSends

-----------------------------------------------------------------------------
(* Types and shapes *)

(* A step of one call leaves the stages of the others alone. *)
LEMMA Others ==
  ASSUME TypeOK, NEW c \in Calls, call' = [call EXCEPT ![c] = call'[c]],
         NEW d \in Calls, d # c
  PROVE  /\ call'[d] = call[d]
         /\ Stage(d)' = Stage(d)
         /\ Wanted(d)' = Wanted(d)
<1>1. call'[d] = call[d]
  BY DEF TypeOK
<1>2. QED
  BY <1>1 DEF Stage, Wanted, TxStoreInTx

(* A step that changes one call keeps the shape of all if it keeps that *)
(* of this one.                                                         *)
LEMMA CallsKeepShape ==
  ASSUME TypeOK, CallInv, NEW c \in Calls, call' = [call EXCEPT ![c] = call'[c]],
         CallShape(c)', created' >= created, created' \in Nat,
         \A s \in 1..created : sessions'[s] \in {sessions[s], NoUser}
  PROVE  CallInv'
<1>1. ASSUME NEW d \in Calls, d # c
      PROVE  CallShape(d)'
  <2>1. CallShape(d) /\ call'[d] = call[d] /\ Stage(d)' = Stage(d)
    BY <1>1, Others DEF CallInv
  <2>2. created \in Nat
    BY DEF TypeOK
  <2>3. QED
    BY <2>1, <2>2 DEF CallShape, OpensFor
<1>2. QED
  BY <1>1 DEF CallInv

(* The slot after a stage of its call. *)
LEMMA AdvancedShape ==
  ASSUME TypeOK, CallInv, NEW c \in Calls, Run(c)
  PROVE  /\ call'[c] \in CallRecords
         /\ call'[c].kind = call[c].kind
         /\ call[c].kind = "login" => call'[c].step = 2
         /\ CallShape(c)'
<1>1. /\ Stage(c) \in {"user", "pair", "query", "tx", "update"}
      /\ call'[c] = Advanced(c)
      /\ UNCHANGED <<sessions, created>>
  BY RunEffect DEF TypeOK
<1>2. /\ call[c] \in CallRecords /\ CallShape(c)
      /\ call[c].step \in 1..3 /\ call[c].kind \in DOMAIN Program
  BY <1>1, Stages DEF TypeOK, CallInv, CallRecords
<1>3. CASE Wanted(c) = 2
  <2>1. call'[c] = [call[c] EXCEPT !.done = 1] /\ Stage(c) = "pair"
    BY <1>1, <1>3, Counts DEF Advanced
  <2>2. /\ call'[c].kind = call[c].kind /\ call'[c].step = call[c].step
        /\ call'[c].user = call[c].user /\ call'[c].sid = call[c].sid
        /\ call'[c] \in CallRecords
    BY <1>2, <2>1 DEF CallRecords
  <2>3. Stage(c)' = "pair" /\ call[c].kind # "login"
    BY <2>1, <2>2, <1>2 DEF Stage, Program
  <2>4. QED
    BY <1>1, <1>2, <2>2, <2>3 DEF CallShape, OpensFor
<1>4. CASE Wanted(c) # 2
  <2>1. call'[c] = [call[c] EXCEPT !.step = call[c].step + 1, !.done = 0]
    BY <1>1, <1>4 DEF Advanced, NextStage
  <2>2. /\ call'[c].kind = call[c].kind /\ call'[c].step = call[c].step + 1
        /\ call'[c].user = call[c].user /\ call'[c].sid = call[c].sid
        /\ call'[c].done = 0
        /\ call'[c].step \in 2..4
    BY <1>2, <2>1 DEF CallRecords
  <2>3. call'[c] = [kind |-> call[c].kind, user |-> call[c].user, sid |-> call[c].sid,
                    step |-> call'[c].step, done |-> 0]
    BY <1>2, <2>1, <2>2 DEF CallRecords
  <2>4. call'[c] \in CallRecords
    BY <1>2, <2>2, <2>3 DEF CallRecords
  <2>5. call[c].kind = "login" => call[c].step = 1
    BY <1>1, Stages
  <2>6. QED
    BY <1>1, <1>2, <2>2, <2>4, <2>5 DEF CallShape, OpensFor
<1>5. QED
  BY <1>3, <1>4

(* Every step keeps the types and the shape of the calls. *)
LEMMA TypeAndShape ==
  ASSUME TypeOK, CallInv, RoomInv, JarInv, Next
  PROVE  TypeOK' /\ CallInv'
<1>1. created \in Nat /\ \A c \in Calls : call[c] \in CallRecords
  BY DEF TypeOK
<1>2. ASSUME NEW c \in Calls, Acquire(c) \/ Lock(c)
      PROVE  TypeOK' /\ CallInv'
  BY <1>2 DEF Acquire, Lock, TypeOK, CallInv, CallShape, OpensFor, Stage
<1>3. ASSUME NEW c \in Calls, Run(c)
      PROVE  TypeOK' /\ CallInv'
  <2>1. call' = [call EXCEPT ![c] = call'[c]]
    BY <1>3, RunEffect DEF TypeOK
  <2>2. CallInv'
    BY <1>1, <1>3, <2>1, RunEffect, AdvancedShape, CallsKeepShape
  <2>3. TypeOK'
    BY <1>3, <2>1, RunEffect, AdvancedShape DEF TypeOK
  <2>4. QED
    BY <2>2, <2>3
<1>4. ASSUME NEW c \in Calls, Check(c)
      PROVE  TypeOK' /\ CallInv'
  <2>1. call[c].kind \in Checking
    BY <1>4, CheckEffect, Stages
  <2>2. CallShape(c)'
    BY <1>4, <2>1, CheckEffect DEF CallShape, Checking
  <2>3. CallInv'
    BY <1>1, <1>4, <2>2, CheckEffect, CallsKeepShape
  <2>4. TypeOK'
    BY <1>4, CheckEffect DEF TypeOK
  <2>5. QED
    BY <2>3, <2>4
<1>5. ASSUME NEW c \in Calls, Insert(c)
      PROVE  TypeOK' /\ CallInv'
  <2>1. call[c].user \in Users /\ created' = created + 1 /\ created' \in Sessions
    BY <1>5, InsertEffect DEF CallInv, CallShape
  <2>2. CallShape(c)'
    BY <1>1, <1>5, <2>1, InsertEffect DEF CallShape, OpensFor, Checking, TypeOK
  <2>3. \A s \in 1..created : sessions'[s] = sessions[s]
    <3>1. /\ sessions' = [sessions EXCEPT ![created'] = call[c].user]
          /\ sessions \in [Sessions -> Users \cup {NoUser}]
      BY <1>5, InsertEffect DEF TypeOK
    <3>2. ASSUME NEW s \in 1..created
          PROVE  s # created' /\ s \in Sessions
      BY <1>1, <2>1, RequestsAssumption DEF Sessions
    <3>3. QED
      BY <3>1, <3>2
  <2>4. CallInv'
    BY <1>1, <1>5, <2>1, <2>2, <2>3, InsertEffect, CallsKeepShape
  <2>5. sessions' \in [Sessions -> Users \cup {NoUser}] /\ created' \in 0..MaxSessions
    BY <1>5, <2>1, InsertEffect, RequestsAssumption DEF TypeOK, Sessions
  <2>6. TypeOK'
    BY <1>5, <2>5, InsertEffect DEF TypeOK
  <2>7. QED
    BY <2>4, <2>6
<1>6. ASSUME NEW c \in Calls, call' = [call EXCEPT ![c] = Idle], UNCHANGED <<sessions, created>>
      PROVE  /\ call' = [call EXCEPT ![c] = call'[c]]
             /\ call'[c] = Idle /\ Idle \in CallRecords
             /\ CallInv'
  <2>1. call' = [call EXCEPT ![c] = call'[c]] /\ call'[c] = Idle
    BY <1>6 DEF TypeOK
  <2>2. CallShape(c)'
    BY <2>1 DEF CallShape, Idle, Checking
  <2>3. Idle \in CallRecords
    BY DEF CallRecords, Idle, Program
  <2>4. created' >= created /\ created' \in Nat /\ sessions' = sessions
    BY <1>1, <1>6
  <2>5. CallInv'
    BY <2>1, <2>2, <2>4, CallsKeepShape
  <2>6. QED
    BY <2>1, <2>3, <2>5
<1>7. ASSUME NEW c \in Calls, Fail(c)
      PROVE  TypeOK' /\ CallInv'
  BY <1>6, <1>7, FailEffect DEF TypeOK
<1>8. ASSUME NEW c \in Calls, Reply(c)
      PROVE  TypeOK' /\ CallInv'
  <2>1. call[c].kind = "login" => call[c].user \in Users
    BY DEF CallInv, CallShape
  <2>2. jar' \in [Users -> Sessions \cup {NoSession}]
    BY <1>1, <1>8, <2>1 DEF Reply, OwnSession, TypeOK, CallRecords
  <2>3. QED
    BY <1>6, <1>8, <2>2 DEF Reply, pool, TypeOK
<1>9. ASSUME NEW c \in Calls, RobotSends(c) \/ \E u \in Users : ShopperSends(c, u)
      PROVE  TypeOK' /\ CallInv'
  <2>1. Sent(c)
    BY <1>9, SendEffect
  <2>2. CallShape(c)'
    BY <2>1 DEF Sent, CallShape, OpensFor
  <2>3. CallInv'
    BY <1>1, <2>1, <2>2, CallsKeepShape DEF Sent
  <2>4. TypeOK'
    BY <2>1 DEF Sent, TypeOK
  <2>5. QED
    BY <2>3, <2>4
<1>10. ASSUME NEW u \in Users, DropCookie(u)
       PROVE  TypeOK' /\ CallInv'
  BY <1>10 DEF DropCookie, pool, TypeOK, CallInv, CallShape, OpensFor, Stage
<1>11. ASSUME NEW s \in Sessions, Expire(s)
       PROVE  TypeOK' /\ CallInv'
  BY <1>11 DEF Expire, pool, TypeOK, CallInv, CallShape, OpensFor, Stage
<1>12. QED
  BY <1>2, <1>3, <1>4, <1>5, <1>7, <1>8, <1>9, <1>10, <1>11 DEF Next, Work, Refuse

-----------------------------------------------------------------------------
(* Room for the sessions of the logins under way *)

(* The logins that have yet to insert their row can be counted. *)
LEMMA PendingFinite == IsFiniteSet(Pending) /\ Cardinality(Pending) \in Nat
BY FS_Subset, FS_CardinalityType, RequestsAssumption DEF Pending

(* Logins under way never run out of session ids. *)
LEMMA RoomStep ==
  ASSUME TypeOK, CallInv, RoomInv, JarInv, Next
  PROVE  RoomInv'
<1>1. /\ created \in Nat /\ MaxSessions \in Nat
      /\ IsFiniteSet(Pending) /\ Cardinality(Pending) \in Nat
  BY PendingFinite, RequestsAssumption DEF TypeOK
<1>2. ASSUME Pending' \subseteq Pending, created' = created
      PROVE  RoomInv'
  <2>1. Cardinality(Pending') \in Nat /\ Cardinality(Pending') <= Cardinality(Pending)
    BY <1>1, <1>2, FS_Subset, FS_CardinalityType
  <2>2. QED
    BY <1>1, <1>2, <2>1 DEF RoomInv
<1>4. ASSUME NEW c \in Calls, Acquire(c) \/ Lock(c)
      PROVE  RoomInv'
  BY <1>2, <1>4 DEF Acquire, Lock, Pending
<1>5. ASSUME NEW c \in Calls, Run(c)
      PROVE  RoomInv'
  <2>1. call' = [call EXCEPT ![c] = call'[c]] /\ created' = created
    BY <1>5, RunEffect DEF TypeOK
  <2>2. call[c].kind = "login" => call[c].step = 1
    BY <1>5, RunEffect, Stages
  <2>3. Pending' \subseteq Pending
    BY <1>5, <2>1, <2>2, AdvancedShape, Others DEF Pending
  <2>4. QED
    BY <1>2, <2>1, <2>3
<1>6. ASSUME NEW c \in Calls, Check(c)
      PROVE  RoomInv'
  <2>1. call[c].kind # "login"
    BY <1>6, CheckEffect, Stages DEF Checking
  <2>2. Pending' \subseteq Pending
    BY <1>6, <2>1, CheckEffect, Others DEF Pending
  <2>3. QED
    BY <1>2, <1>6, <2>2, CheckEffect
<1>7. ASSUME NEW c \in Calls, Insert(c)
      PROVE  RoomInv'
  <2>1. c \in Pending /\ Pending' = Pending \ {c}
    BY <1>7, InsertEffect, Others DEF Pending
  <2>2. Cardinality(Pending') = Cardinality(Pending) - 1
    BY <1>1, <2>1, FS_RemoveElement
  <2>3. QED
    BY <1>1, <1>7, <2>2, InsertEffect DEF RoomInv
<1>8. ASSUME NEW c \in Calls, Fail(c) \/ Reply(c)
      PROVE  RoomInv'
  <2>1. call' = [call EXCEPT ![c] = Idle] /\ created' = created
    BY <1>8, FailEffect DEF Reply
  <2>2. Pending' \subseteq Pending
    BY <2>1 DEF Pending, Idle, TypeOK
  <2>3. QED
    BY <1>2, <2>1, <2>2
<1>9. ASSUME NEW c \in Calls, Sent(c)
      PROVE  RoomInv'
  <2>1. CASE call'[c].kind # "login"
    <3>1. Pending' \subseteq Pending
      BY <1>9, <2>1, Others DEF Sent, Pending
    <3>2. QED
      BY <1>2, <1>9, <3>1 DEF Sent
  <2>2. CASE call'[c].kind = "login"
    <3> DEFINE Logins == {d \in Calls : call[d].kind = "login"}
    <3>1. IsFiniteSet(Logins) /\ Pending \subseteq Logins
      BY FS_Subset, RequestsAssumption DEF Pending
    <3>2. Cardinality(Pending) <= Cardinality(Logins) /\ Cardinality(Logins) \in Nat
      BY <3>1, FS_Subset, FS_CardinalityType
    <3>3. created + Cardinality(Logins) < MaxSessions
      BY <1>9, <2>2 DEF Sent, SessionsLeft
    <3>4. c \notin Pending /\ Pending' = Pending \cup {c}
      BY <1>9, <2>2, Others DEF Sent, Pending, Busy
    <3>5. Cardinality(Pending') = Cardinality(Pending) + 1
      BY <1>1, <3>4, FS_AddElement
    <3>6. QED
      BY <1>1, <1>9, <3>2, <3>3, <3>5 DEF Sent, RoomInv
  <2>3. QED
    BY <2>1, <2>2
<1>10. ASSUME NEW u \in Users, DropCookie(u)
       PROVE  RoomInv'
  BY <1>2, <1>10 DEF DropCookie, Pending
<1>11. ASSUME NEW s \in Sessions, Expire(s)
       PROVE  RoomInv'
  BY <1>2, <1>11 DEF Expire, Pending
<1>12. QED
  BY <1>4, <1>5, <1>6, <1>7, <1>8, <1>9, <1>10, <1>11, SendEffect DEF Next, Work, Refuse

-----------------------------------------------------------------------------
(* Cookies *)

(* Rows are inserted under new ids and change only by going away. *)
LEMMA RowsStay ==
  ASSUME TypeOK, CallInv, RoomInv, JarInv, Next
  PROVE  created' >= created /\ \A s \in 1..created : sessions'[s] \in {sessions[s], NoUser}
<1>1. created \in Nat
  BY DEF TypeOK
<1>2. CASE UNCHANGED <<sessions, created>>
  BY <1>1, <1>2
<1>3. ASSUME NEW c \in Calls, Insert(c)
      PROVE  created' >= created /\ \A s \in 1..created : sessions'[s] \in {sessions[s], NoUser}
  <2>1. /\ created' = created + 1
        /\ sessions' = [sessions EXCEPT ![created'] = call[c].user]
        /\ \A s \in 1..created : s # created' /\ s \in Sessions
    BY <1>1, <1>3, InsertEffect, RequestsAssumption DEF Sessions
  <2> QED
    BY <1>1, <2>1 DEF TypeOK
<1>4. ASSUME NEW s \in Sessions, Expire(s)
      PROVE  created' >= created /\ \A t \in 1..created : sessions'[t] \in {sessions[t], NoUser}
  <2>1. sessions' = [sessions EXCEPT ![s] = NoUser] /\ created' = created
    BY <1>4 DEF Expire
  <2>2. \A t \in 1..created : t \in Sessions
    BY <1>1, RequestsAssumption DEF TypeOK, Sessions
  <2> QED
    BY <1>1, <2>1, <2>2 DEF TypeOK
<1>5. ASSUME NEW c \in Calls,
             Acquire(c) \/ Lock(c) \/ Run(c) \/ Check(c) \/ Reply(c) \/ Fail(c)
      PROVE  UNCHANGED <<sessions, created>>
  BY <1>5 DEF Acquire, Lock, Run, Check, Reply, Fail
<1>6. ASSUME NEW c \in Calls, RobotSends(c) \/ \E u \in Users : ShopperSends(c, u)
      PROVE  UNCHANGED <<sessions, created>>
  BY <1>6, SendEffect DEF Sent
<1>7. ASSUME NEW u \in Users, DropCookie(u)
      PROVE  UNCHANGED <<sessions, created>>
  BY <1>7 DEF DropCookie
<1> QED
  BY <1>2, <1>3, <1>4, <1>5, <1>6, <1>7 DEF Next, Work, Refuse

(* The cookie of a browser changes with the answer to its login only, or is *)
(* dropped.                                                                 *)
LEMMA CookiesChange ==
  ASSUME TypeOK, CallInv, JarInv, Next, NEW u \in Users
  PROVE  \/ jar'[u] \in {jar[u], NoSession}
         \/ jar'[u] \in 1..created /\ OpensFor(jar'[u], u)
<1>1. jar \in [Users -> Sessions \cup {NoSession}]
  BY DEF TypeOK
<1>2. ASSUME NEW c \in Calls, Reply(c), call[c].kind = "login"
      PROVE  \/ jar'[u] \in {jar[u], NoSession}
             \/ jar'[u] \in 1..created /\ OpensFor(jar'[u], u)
  <2>1. call[c].step = 3
    BY <1>2, Stages DEF Reply, AtStage, CallInv, CallShape, TypeOK, CallRecords
  <2>2. /\ call[c].sid \in 1..created /\ OpensFor(call[c].sid, call[c].user)
        /\ jar' = [jar EXCEPT ![call[c].user] = call[c].sid]
    BY <1>2, <2>1 DEF Reply, OwnSession, CallInv, CallShape
  <2> QED
    BY <1>1, <2>2
<1>3. ASSUME NEW c \in Calls, Reply(c), call[c].kind # "login"
      PROVE  UNCHANGED jar
  BY <1>3 DEF Reply
<1>4. ASSUME NEW v \in Users, DropCookie(v)
      PROVE  jar'[u] \in {jar[u], NoSession}
  BY <1>1, <1>4 DEF DropCookie
<1>5. ASSUME NEW s \in Sessions, Expire(s)
      PROVE  UNCHANGED jar
  BY <1>5 DEF Expire
<1>6. ASSUME NEW c \in Calls,
             Acquire(c) \/ Lock(c) \/ Run(c) \/ Check(c) \/ Insert(c) \/ Fail(c)
      PROVE  UNCHANGED jar
  BY <1>6 DEF Acquire, Lock, Run, Check, Insert, Fail
<1>7. ASSUME NEW c \in Calls, RobotSends(c) \/ \E v \in Users : ShopperSends(c, v)
      PROVE  UNCHANGED jar
  BY <1>7, SendEffect DEF Sent
<1> QED
  BY <1>2, <1>3, <1>4, <1>5, <1>6, <1>7 DEF Next, Work, Refuse

(* Every step leaves cookies naming rows of their own users. *)
LEMMA JarStep ==
  ASSUME TypeOK, CallInv, RoomInv, JarInv, Next, TypeOK'
  PROVE  JarInv'
<1> SUFFICES ASSUME NEW u \in Users, jar'[u] # NoSession
             PROVE  jar'[u] \in 1..created' /\ sessions'[jar'[u]] \in {u, NoUser}
  BY DEF JarInv, OpensFor
<1>1. jar'[u] \in 1..created /\ OpensFor(jar'[u], u)
  BY CookiesChange DEF JarInv
<1>2. created \in Nat /\ created' \in Nat
  BY DEF TypeOK
<1> DEFINE s == jar'[u]
<1>3. s \in 1..created /\ sessions[s] \in {u, NoUser}
  BY <1>1 DEF OpensFor
<1> HIDE DEF s
<1>4. created' >= created /\ sessions'[s] \in {sessions[s], NoUser}
  BY <1>3, RowsStay
<1>5. s \in 1..created' /\ sessions'[s] \in {u, NoUser}
  BY <1>2, <1>3, <1>4
<1> QED
  BY <1>5 DEF s

-----------------------------------------------------------------------------
(* Connections and locks *)

(* A connection goes back to the pool, the others stay with their calls.   *)
LEMMA OneGivenBack ==
  ASSUME TypeOK, NEW c \in Calls, NEW k \in Held(c),
         owner' = [j \in Connections |-> IF j = k THEN NoCall ELSE owner[j]]
  PROVE  /\ \A d \in Calls : d # c => Held(d)' = Held(d)
         /\ Cardinality(Held(c)) \in Nat \ {0}
         /\ Cardinality(Held(c)') = Cardinality(Held(c)) - 1
<1>1. /\ \A d \in Calls : d # c => Held(d)' = Held(d)
      /\ Held(c)' = Held(c) \ {k}
  BY RequestsAssumption DEF Held
<1>2. /\ Cardinality(Held(c)) \in Nat
      /\ Cardinality(Held(c)) # 0
      /\ Cardinality(Held(c) \ {k}) = Cardinality(Held(c)) - 1
  BY HeldFinite, FS_RemoveElement, FS_CardinalityType, FS_EmptySet
<1>3. QED
  BY <1>1, <1>2

(* What holds of one call's connections. *)
HoldsEnough(c) == Cardinality(Held(c)) <= Wanted(c) /\ (Held(c) # {} => Busy(c))

(* A call's step leaves the connections of the others as they need them. *)
LEMMA OthersKeep ==
  ASSUME TypeOK, NoConnectionLeaks, NEW c \in Calls, call' = [call EXCEPT ![c] = call'[c]],
         \A d \in Calls : d # c => Held(d)' = Held(d), HoldsEnough(c)'
  PROVE  NoConnectionLeaks'
<1>1. ASSUME NEW d \in Calls, d # c
      PROVE  HoldsEnough(d)'
  BY <1>1, Others DEF NoConnectionLeaks, HoldsEnough, Busy
<1>2. QED
  BY <1>1 DEF NoConnectionLeaks, HoldsEnough

(* A call without connections has as many as it may hold. *)
LEMMA NothingHeld ==
  ASSUME TypeOK', CallInv', NEW c \in Calls, Cardinality(Held(c)') = 0
  PROVE  HoldsEnough(c)'
<1>1. Held(c)' = {}
  BY HeldFinite, FS_EmptySet, FS_Subset, RequestsAssumption DEF Held
<1>2. call'[c].done \in {0, 1} /\ (call'[c].done = 1 => Stage(c)' = "pair")
  BY DEF TypeOK, CallRecords, CallInv, CallShape
<1>3. Wanted(c)' \in Nat
  BY <1>2 DEF Wanted, Statements, TxStoreInTx
<1>4. QED
  BY <1>1, <1>3 DEF HoldsEnough

(* Every step keeps the accounts of connections and row locks. *)
LEMMA PoolStep ==
  ASSUME TypeOK, CallInv, NoConnectionLeaks, LockInv, JarInv, Next, RoomInv, TypeOK', CallInv'
  PROVE  NoConnectionLeaks' /\ LockInv'
<1>1. ASSUME NEW c \in Calls, Acquire(c)
      PROVE  NoConnectionLeaks' /\ LockInv'
  <2>1. PICK k \in Held(NoCall) : owner' = [owner EXCEPT ![k] = c]
    BY <1>1 DEF Acquire
  <2>2. /\ \A d \in Calls : d # c => Held(d)' = Held(d)
        /\ Held(c)' = Held(c) \cup {k} /\ k \notin Held(c)
        /\ UNCHANGED <<call, locked>>
    BY <1>1, <2>1, RequestsAssumption DEF Held, TypeOK, Acquire
  <2>3. Cardinality(Held(c)') = Cardinality(Held(c)) + 1 /\ Cardinality(Held(c)) \in Nat
    BY <2>2, HeldFinite, FS_AddElement, FS_CardinalityType
  <2>4. Cardinality(Held(c)) < Wanted(c) /\ Busy(c) /\ Wanted(c) \in Nat
    BY <1>1, Counts DEF Acquire
  <2>5. HoldsEnough(c)'
    BY <2>2, <2>3, <2>4 DEF HoldsEnough, Wanted, Stage, Busy, TxStoreInTx
  <2>6. call' = [call EXCEPT ![c] = call'[c]]
    BY <2>2 DEF TypeOK
  <2>7. NoConnectionLeaks'
    BY <2>2, <2>5, <2>6, OthersKeep
  <2>8. LockInv'
    BY <2>2 DEF LockInv, AtStage, Busy, Stage, TypeOK
  <2>9. QED
    BY <2>7, <2>8
<1>2. ASSUME NEW c \in Calls, Lock(c)
      PROVE  NoConnectionLeaks' /\ LockInv'
  <2>1. Held(c) # {}
    <3>1. PICK K \in Ready(c) : TRUE
      BY <1>2 DEF Lock
    <3>2. QED
      BY <3>1, ReadyIsOne
  <2>2. QED
    BY <1>2, <2>1 DEF Lock, NoConnectionLeaks, LockInv, Held, Busy, Stage, Wanted, AtStage,
                      TxStoreInTx
(* One statement of c ends. *)
<1>3. ASSUME NEW c \in Calls, NEW k \in Held(c), call' = [call EXCEPT ![c] = call'[c]],
             owner' = [j \in Connections |-> IF j = k THEN NoCall ELSE owner[j]],
             Wanted(c) # 2
      PROVE  NoConnectionLeaks'
  <2>1. /\ \A d \in Calls : d # c => Held(d)' = Held(d)
        /\ Cardinality(Held(c)) \in Nat \ {0}
        /\ Cardinality(Held(c)') = Cardinality(Held(c)) - 1
    BY <1>3, OneGivenBack
  <2>2. Cardinality(Held(c)) <= Wanted(c) /\ Wanted(c) \in 0..2
    BY Counts DEF NoConnectionLeaks
  <2>3. HoldsEnough(c)'
    BY <1>3, <2>1, <2>2, NothingHeld
  <2>4. QED
    BY <1>3, <2>1, <2>3, OthersKeep
<1>4. ASSUME NEW c \in Calls, call' = [call EXCEPT ![c] = call'[c]],
             \A d \in Calls : d # c => Held(d)' = Held(d),
             locked' = (IF locked = c THEN NoCall ELSE locked)
      PROVE  LockInv'
  <2>1. CASE locked' = NoCall
    BY <2>1 DEF LockInv
  <2>2. CASE locked' # NoCall
    <3>1. PICK d \in Calls : locked = d /\ locked' = d /\ d # c
      BY <1>4, <2>2 DEF TypeOK
    <3>2. AtStage(d, {"update"}) /\ Held(d) # {}
      BY <3>1, RequestsAssumption DEF LockInv
    <3>3. AtStage(d, {"update"})' /\ Held(d)' # {}
      BY <1>4, <3>1, <3>2, Others DEF AtStage, Busy
    <3>4. QED
      BY <3>1, <3>3 DEF LockInv, AtStage, Busy, Stage, Held
  <2>3. QED
    BY <2>1, <2>2
<1>5. ASSUME NEW c \in Calls, Run(c)
      PROVE  NoConnectionLeaks' /\ LockInv'
  <2>1. PICK k \in Held(c) :
          owner' = [j \in Connections |-> IF j = k THEN NoCall ELSE owner[j]]
    BY <1>5, RunEffect
  <2>2. /\ call' = [call EXCEPT ![c] = call'[c]] /\ call'[c] = Advanced(c)
        /\ locked' = IF locked = c THEN NoCall ELSE locked
    BY <1>5, RunEffect DEF TypeOK
  <2>3. /\ \A d \in Calls : d # c => Held(d)' = Held(d)
        /\ Cardinality(Held(c)) \in Nat \ {0}
        /\ Cardinality(Held(c)') = Cardinality(Held(c)) - 1
    BY <2>1, OneGivenBack
  <2>4. CASE Wanted(c) = 2
    <3>1. call[c] \in CallRecords /\ Stage(c) = "pair" /\ Busy(c)
      BY <2>4, Counts, Stages DEF TypeOK
    <3>2. /\ call'[c].kind = call[c].kind /\ call'[c].step = call[c].step
          /\ call'[c].done = 1
      BY <2>2, <2>4, <3>1 DEF Advanced, CallRecords
    <3>3. Stage(c)' = "pair" /\ Wanted(c)' = 1 /\ Busy(c)'
      BY <3>1, <3>2 DEF Stage, Wanted, Statements, TxStoreInTx, Busy
    <3>4. Cardinality(Held(c)) <= 2
      BY <2>4 DEF NoConnectionLeaks
    <3>5. HoldsEnough(c)'
      BY <2>3, <3>3, <3>4 DEF HoldsEnough
    <3>6. QED
      BY <1>4, <2>2, <2>3, <3>5, OthersKeep
  <2>5. CASE Wanted(c) # 2
    BY <1>3, <1>4, <2>1, <2>2, <2>3, <2>5
  <2>6. QED
    BY <2>4, <2>5
<1>6. ASSUME NEW c \in Calls, Check(c) \/ Insert(c)
      PROVE  NoConnectionLeaks' /\ LockInv'
  <2>1. PICK k \in Held(c) :
          owner' = [j \in Connections |-> IF j = k THEN NoCall ELSE owner[j]]
    BY <1>6, CheckEffect, InsertEffect
  <2>2. /\ call' = [call EXCEPT ![c] = call'[c]]
        /\ Wanted(c) = 1 /\ Stage(c) \in {"check", "insert"}
        /\ locked' = locked
    BY <1>6, CheckEffect, InsertEffect
  <2>3. locked # c
    BY <2>2, RequestsAssumption DEF LockInv, AtStage
  <2>4. \A d \in Calls : d # c => Held(d)' = Held(d)
    BY <2>1, OneGivenBack
  <2>5. QED
    BY <1>3, <1>4, <2>1, <2>2, <2>3, <2>4
<1>7. ASSUME NEW c \in Calls, Fail(c)
      PROVE  NoConnectionLeaks' /\ LockInv'
  <2>1. /\ call' = [call EXCEPT ![c] = call'[c]]
        /\ locked' = IF locked = c THEN NoCall ELSE locked
    BY <1>7, FailEffect DEF TypeOK
  <2>2. Held(c)' = {} /\ \A d \in Calls : d # c => Held(d)' = Held(d)
    BY <1>7, FailEffect, RequestsAssumption DEF Held
  <2>3. HoldsEnough(c)'
    BY <2>2, NothingHeld, FS_EmptySet
  <2>4. QED
    BY <1>4, <2>1, <2>2, <2>3, OthersKeep
<1>8. ASSUME NEW c \in Calls, Reply(c)
      PROVE  NoConnectionLeaks' /\ LockInv'
  <2>1. /\ call' = [call EXCEPT ![c] = call'[c]]
        /\ UNCHANGED <<owner, locked>>
        /\ Stage(c) = "reply"
    BY <1>8 DEF Reply, pool, AtStage, TypeOK
  <2>2. Cardinality(Held(c)) = 0
    <3>1. Cardinality(Held(c)) <= 0
      BY <2>1, Counts DEF NoConnectionLeaks
    <3>2. Cardinality(Held(c)) \in Nat
      BY HeldFinite, FS_CardinalityType
    <3>3. QED
      BY <3>1, <3>2
  <2>3. \A d \in Calls : Held(d)' = Held(d)
    BY <2>1 DEF Held
  <2>4. locked # c
    BY <2>1, RequestsAssumption DEF LockInv, AtStage
  <2>5. QED
    BY <1>4, <2>1, <2>2, <2>3, <2>4, NothingHeld, OthersKeep
<1>9. ASSUME NEW c \in Calls, Sent(c)
      PROVE  NoConnectionLeaks' /\ LockInv'
  <2>1. /\ call' = [call EXCEPT ![c] = call'[c]]
        /\ UNCHANGED <<owner, locked>>
        /\ ~Busy(c)
    BY <1>9 DEF Sent
  <2>2. Held(c) = {} /\ \A d \in Calls : Held(d)' = Held(d)
    BY <2>1 DEF NoConnectionLeaks, Held
  <2>3. locked # c
    BY <2>2, RequestsAssumption DEF LockInv
  <2>4. Cardinality(Held(c)') = 0
    BY <2>2, FS_EmptySet
  <2>5. QED
    BY <1>4, <2>1, <2>2, <2>3, <2>4, NothingHeld, OthersKeep
<1>10. ASSUME UNCHANGED <<owner, locked, call>>
       PROVE  NoConnectionLeaks' /\ LockInv'
  BY <1>10 DEF NoConnectionLeaks, LockInv, AtStage, Held, Busy, Stage, Wanted, TxStoreInTx
<1>11. (\E u \in Users : DropCookie(u)) \/ (\E s \in Sessions : Expire(s))
         => UNCHANGED <<owner, locked, call>>
  BY DEF DropCookie, Expire, pool
<1>12. QED
  BY <1>1, <1>2, <1>5, <1>6, <1>7, <1>8, <1>9, <1>10, <1>11, SendEffect DEF Next, Work, Refuse

-----------------------------------------------------------------------------
(* Somebody can always go on *)

(* By counting, whoever waits waits for a call that can go on. *)
LEMMA SomebodyGoesOn ==
  ASSUME TypeOK, CallInv, NoConnectionLeaks, LockInv
  PROVE  NobodyWaitsInCircles
<1>1. ASSUME NEW c \in Calls, Held(c) # {}
      PROVE  \E d \in Calls : CanGoOn(d)
  <2>1. Busy(c) /\ Ready(c) # {}
    BY <1>1, HeldIsReady DEF NoConnectionLeaks
  <2>2. CASE Stage(c) = "update" => locked \in {c, NoCall}
    BY <2>1, <2>2 DEF CanGoOn
  <2>3. CASE Stage(c) = "update" /\ locked \notin {c, NoCall}
    <3>1. locked \in Calls /\ AtStage(locked, {"update"}) /\ Held(locked) # {}
      BY <2>3 DEF LockInv, TypeOK
    <3>2. Ready(locked) # {}
      BY <3>1, HeldIsReady
    <3>3. CanGoOn(locked)
      BY <3>1, <3>2 DEF CanGoOn, AtStage
    <3>4. QED
      BY <3>1, <3>3
  <2>4. QED
    BY <2>2, <2>3
<1>2. ASSUME NEW c \in Calls, Busy(c), \A d \in Calls : Held(d) = {}
      PROVE  CanGoOn(c)
  <2>1. CASE Stage(c) = "reply"
    BY <1>2, <2>1 DEF CanGoOn
  <2>2. CASE Stage(c) # "reply"
    <3>1. Cardinality(Held(c)) = 0 /\ Wanted(c) \in 1..2
      BY <1>2, <2>2, Counts, FS_EmptySet
    <3>2. Held(NoCall) # {}
      BY <1>2, RequestsAssumption DEF Held, TypeOK
    <3>3. QED
      BY <1>2, <3>1, <3>2 DEF CanGoOn
  <2>3. QED
    BY <2>1, <2>2
<1>3. QED
  BY <1>1, <1>2 DEF NobodyWaitsInCircles

-----------------------------------------------------------------------------
(* The invariant holds at first and is kept by every step. *)
LEMMA IInvInductive ==
  /\ Init => IInv
  /\ IInv /\ [Next]_vars => IInv'
<1>1. ASSUME Init
      PROVE  IInv
  <2>1. TypeOK
    BY <1>1, RequestsAssumption DEF Init, TypeOK, CallRecords, Idle, Program, Sessions, NoSession
  <2>2. CallInv /\ Pending = {}
    BY <1>1 DEF Init, CallInv, CallShape, Pending, Idle, Checking
  <2>3. \A c \in Calls : Held(c) = {} /\ Wanted(c) = 0
    BY <1>1, RequestsAssumption
       DEF Init, Held, Wanted, Stage, Statements, TxStoreInTx, Idle, Program
  <2>4. Cardinality({}) = 0
    BY FS_EmptySet
  <2>5. NoConnectionLeaks /\ RoomInv
    BY <1>1, <2>2, <2>3, <2>4, RequestsAssumption DEF Init, NoConnectionLeaks, RoomInv
  <2>6. LockInv /\ JarInv
    BY <1>1 DEF Init, LockInv, JarInv
  <2>7. QED
    BY <2>1, <2>2, <2>5, <2>6 DEF IInv
<1>2. ASSUME IInv, Next
      PROVE  IInv'
  BY <1>2, TypeAndShape, RoomStep, JarStep, PoolStep DEF IInv
<1>3. ASSUME IInv, UNCHANGED vars
      PROVE  IInv'
  BY <1>3 DEF vars, pool, IInv, TypeOK, CallInv, CallShape, RoomInv, Pending, LockInv, JarInv, OpensFor,
              NoConnectionLeaks, Held, Busy, Stage, Wanted, AtStage,
              TxStoreInTx
<1>4. QED
  BY <1>1, <1>2, <1>3

(* Every reachable state is well typed: the number of sessions that logins  *)
(* create stays within its bound, however many run at once.                 *)
THEOREM TypeCorrect == Spec => []TypeOK
<1>1. IInv => TypeOK
  BY DEF IInv
<1>2. QED
  BY <1>1, IInvInductive, PTL DEF Spec

(* A pool of any size loses no connection: a request holds at most what its *)
(* running statements need, whatever fails or disconnects.                  *)
THEOREM ConnectionsReturn == Spec => []NoConnectionLeaks
<1>1. IInv => NoConnectionLeaks
  BY DEF IInv
<1>2. QED
  BY <1>1, IInvInductive, PTL DEF Spec

(* Pool and row locks never block every request: this needs connections     *)
(* that are held for one statement or transaction only, and locks that are  *)
(* taken by somebody who already has a connection.                          *)
THEOREM NoCircularWait == Spec => []NobodyWaitsInCircles
<1>1. IInv => NobodyWaitsInCircles
  BY SomebodyGoesOn DEF IInv
<1>2. QED
  BY <1>1, IInvInductive, PTL DEF Spec

(* However logins overlap, fail or lose their answers, and whichever clock  *)
(* ends a session first: no cookie, and no request on its way to the check, *)
(* opens the session of another user than the one who signed in.            *)
THEOREM CookiesAreOwn == Spec => []CookieOpensOwnSession
<1>1. ASSUME IInv
      PROVE  CookieOpensOwnSession
  <2>1. \A c \in Calls : AtStage(c, {"check"}) => OpensFor(call[c].sid, call[c].user)
    BY <1>1, Stages DEF IInv, AtStage, CallInv, CallShape
  <2> QED
    BY <1>1, <2>1 DEF IInv, JarInv, CookieOpensOwnSession
<1>2. QED
  BY <1>1, IInvInductive, PTL DEF Spec
=============================================================================
