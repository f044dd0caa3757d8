-------------------------- MODULE ConnectionsProofs --------------------------
(***************************************************************************)
(* The pools of BaseProvider and what their users may rely on, proved for  *)
(* any clients, names, types and passwords and any number of calls and     *)
(* outages.                                                                *)
(***************************************************************************)
EXTENDS Connections, TLAPS

Wants == {"statement", "begin", "migrate", "migrated"}
Labels == {"idle", "resolve", "get", "create", "open", "ping", "reconnect", "reopen",
           "use", "up", "completed", "failed", "lost", "rejected"}
Calls(n) == [want : Wants, conn : -1 .. n, down : BOOLEAN]

PoolType ==
  /\ mu \in Clients \cup {Free} /\ opened \in Nat
  /\ connections \in [Names -> 0 .. opened] /\ closed \in SUBSET (1 .. opened)
CallType ==
  /\ pc \in [Clients -> Labels] /\ name \in [Clients -> Names]
  /\ call \in [Clients -> Calls(opened)]
StoreType ==
  /\ inTx \in [Clients -> Int] /\ pending \in [Clients -> BOOLEAN]
  /\ ctxDone \in [Clients -> BOOLEAN] /\ dbUp \in BOOLEAN
  /\ rows \in [Names -> SUBSET Clients] /\ overtaken \in SUBSET Clients
TypeOK == PoolType /\ CallType /\ StoreType

\* BaseProvider.mu is held exactly by the call that opens a pool; the pool it is
\* about to replace is gone or closed.
Holding ==
  \A c \in Clients :
    /\ pc[c] \in {"open", "reopen"} <=> mu = c
    /\ pc[c] \in {"open", "reopen"} => connections[name[c]] \in closed \cup {NoPool}

\* A call that is under way while the database is away has seen the outage; one
\* that is lost may be a commit, which is none.
OutageSeen == \A c \in Clients : pc[c] \notin {"idle", "lost"} /\ ~dbUp => call[c].down

\* A pool that was handed out is open, unless it was closed behind its client;
\* between calls a client knows none.
HeldOpen ==
  \A c \in Clients :
    /\ pc[c] = "idle" => call[c].conn = NoPool
    /\ pc[c] \in {"use", "up"} /\ call[c].conn > NoPool
         => IsOpen(call[c].conn) \/ c \in overtaken

\* One client's part of Next.
ClientStep(c) ==
  \/ CallStatement(c) \/ CallBegin(c) \/ MigrateStart(c)
  \/ TxExecuteUpsert(c) \/ Commit(c) \/ Rollback(c) \/ Step(c) \/ ContextDone(c)

\* A connection, or what is wanted with it, is set in a call.
LEMMA SetCall ==
  ASSUME NEW n \in Nat, NEW x \in Calls(n)
  PROVE  /\ \A p \in -1 .. n : [x EXCEPT !.conn = p] \in Calls(n)
         /\ \A v \in Wants : [x EXCEPT !.want = v] \in Calls(n)
         /\ \A b \in BOOLEAN : [x EXCEPT !.down = b] \in Calls(n)
         /\ x \in Calls(n + 1)
         /\ NoCall \in Calls(n)
<1> USE DEF Calls
<1>1. ASSUME NEW p \in -1 .. n PROVE [x EXCEPT !.conn = p] \in Calls(n)
  OBVIOUS
<1>2. ASSUME NEW v \in Wants PROVE [x EXCEPT !.want = v] \in Calls(n)
  OBVIOUS
<1>3. ASSUME NEW b \in BOOLEAN PROVE [x EXCEPT !.down = b] \in Calls(n)
  OBVIOUS
<1>4. x \in Calls(n + 1) /\ NoCall \in Calls(n)
  BY DEF NoCall, NoPool, Wants
<1> QED
  BY <1>1, <1>2, <1>3, <1>4

\* Close closes a pool that was opened.
LEMMA CloseTypes ==
  ASSUME opened \in Nat, closed \in SUBSET (1 .. opened), NEW p \in 0 .. opened, NEW c,
         Close(c, p)
  PROVE  closed' \in SUBSET (1 .. opened)
<1>1. CASE p = 0
  BY <1>1 DEF Close, NoPool
<1>2. CASE p # 0
  BY <1>2 DEF Close, NoPool
<1> QED
  BY <1>1, <1>2

\* A call goes on, from one label to another.
LEMMA GotoTypes ==
  ASSUME pc \in [Clients -> Labels], NEW c \in Clients, NEW l \in Labels, Goto(c, l)
  PROVE  pc' \in [Clients -> Labels]
BY DEF Goto

\* It goes on with another connection.
LEMMA GotoWithTypes ==
  ASSUME CallType, opened \in Nat, NEW c \in Clients, NEW l \in Labels, NEW p \in -1 .. opened,
         GotoWith(c, l, p)
  PROVE  pc' \in [Clients -> Labels] /\ call' \in [Clients -> Calls(opened)]
<1>1. call[c] \in Calls(opened) /\ [call[c] EXCEPT !.conn = p] \in Calls(opened)
  BY SetCall DEF CallType
<1> QED
  BY <1>1, GotoTypes DEF CallType, GotoWith

\* It remembers what it was called for and whether it saw an outage.
LEMMA GotoWithKeeps ==
  ASSUME CallType, NEW c \in Clients, NEW l, NEW p, GotoWith(c, l, p)
  PROVE  /\ \A d \in Clients : call'[d].down = call[d].down /\ call'[d].want = call[d].want
         /\ pc' = [pc EXCEPT ![c] = l]
BY DEF CallType, Calls, GotoWith, Goto

\* Return with no error forgets the call, with an error it keeps it.
LEMMA ReturnTypes ==
  ASSUME CallType, opened \in Nat, NEW c \in Clients, NEW ok, Return(c, ok)
  PROVE  pc' \in [Clients -> Labels] /\ call' \in [Clients -> Calls(opened)]
<1>1. NoCall \in Calls(opened)
  BY DEF NoCall, Calls, Wants, NoPool
<1>2. CASE ok
  BY <1>1, <1>2 DEF CallType, Return, Goto, Labels
<1>3. CASE ~ok
  BY <1>1, <1>3 DEF CallType, Return, Goto, Labels
<1> QED
  BY <1>2, <1>3

\* Enter begins with a connection that is nobody's.
LEMMA EnterTypes ==
  ASSUME CallType, opened \in Nat, dbUp \in BOOLEAN,
         NEW c \in Clients, NEW v \in Wants, NEW l \in Labels, Enter(c, v, l)
  PROVE  pc' \in [Clients -> Labels] /\ call' \in [Clients -> Calls(opened)]
<1>1. [want |-> v, conn |-> NoPool, down |-> ~dbUp] \in Calls(opened)
  BY DEF Calls, NoPool
<1> QED
  BY <1>1, GotoTypes DEF CallType, Enter

\* A pool that is opened gets the next number; only pools that are open are closed.
LEMMA PoolTypeStep == TypeOK /\ [Next]_vars => PoolType'
<1> SUFFICES ASSUME TypeOK, [Next]_vars PROVE PoolType'
  OBVIOUS
<1> USE DEF TypeOK, PoolType, CallType, NoPool, Dummy, Free, IsOpen
<1>1. ASSUME NEW c \in Clients, ClientStep(c) PROVE PoolType'
  <2>1. CASE CallStatement(c)
    BY <2>1 DEF CallStatement, Enter, Goto, poolVars, callVars, txVars, storeVars, envVars
  <2>2. CASE CallBegin(c)
    BY <2>2 DEF CallBegin, Enter, Goto, poolVars, callVars, txVars, storeVars, envVars
  <2>3. CASE MigrateStart(c)
    BY <2>3 DEF MigrateStart, Enter, Goto, poolVars, callVars, txVars, storeVars, envVars
  <2>4. CASE TxExecuteUpsert(c)
    BY <2>4 DEF TxExecuteUpsert, poolVars, callVars, txVars, storeVars, envVars
  <2>5. CASE Commit(c)
    BY <2>5 DEF Commit, EndTx, Return, Goto, Store, poolVars, callVars, txVars, storeVars,
       envVars
  <2>6. CASE Rollback(c)
    BY <2>6 DEF Rollback, EndTx, poolVars, callVars, txVars, storeVars, envVars
  <2>7. CASE ContextDone(c)
    BY <2>7 DEF ContextDone, Kill, poolVars, callVars, txVars, storeVars, envVars
  <2>8. CASE ResolveProvider(c)
    BY <2>8 DEF ResolveProvider, Goto, GotoWith, poolVars, callVars, txVars, storeVars,
       envVars
  <2>9. CASE GetConnection(c)
    BY <2>9 DEF GetConnection, Goto, GotoWith, poolVars, callVars, txVars, storeVars,
       envVars
  <2>10. CASE LockConnection(c)
    BY <2>10 DEF LockConnection, Goto, GotoWith, poolVars, callVars, txVars, storeVars,
       envVars
  <2>11. CASE CreateAndStoreConnection(c)
    BY <2>11 DEF CreateAndStoreConnection, NewGormDBAdapter, HandOut, Opened, Goto, GotoWith,
       poolVars, callVars, txVars, storeVars, envVars
  <2>12. CASE Ping(c)
    BY <2>12 DEF Ping, HandOut, Goto, poolVars, callVars, txVars, storeVars, envVars
  <2>13. CASE ForceReconnect(c)
    <3>1. connections[name[c]] \in 0 .. opened
      OBVIOUS
    <3>2. closed' \in SUBSET (1 .. opened)
      BY <2>13, <3>1, CloseTypes DEF ForceReconnect
    <3> QED
      BY <2>13, <3>2 DEF ForceReconnect
  <2>14. CASE ExecuteQuery(c)
    BY <2>14 DEF ExecuteQuery, AtUse, Return, Goto, poolVars, callVars, txVars, storeVars,
       envVars
  <2>15. CASE ExportQuery(c)
    <3>1. call[c].conn \in -1 .. opened
      BY DEF Calls
    <3>2. closed' \in SUBSET (1 .. opened)
      <4>1. (IF call[c].conn = Dummy THEN NoPool ELSE call[c].conn) \in 0 .. opened
        BY <3>1
      <4> QED
        BY <2>15, <4>1, CloseTypes DEF ExportQuery
    <3> QED
      BY <2>15, <3>2 DEF ExportQuery
  <2>16. CASE ExecuteUpdate(c)
    BY <2>16 DEF ExecuteUpdate, AtUse, Return, Goto, Store, poolVars, callVars, txVars,
       storeVars, envVars
  <2>17. CASE ExecuteUpsert(c)
    BY <2>17 DEF ExecuteUpsert, AtUse, Return, Goto, Store, poolVars, callVars, txVars,
       storeVars, envVars
  <2>18. CASE Begin(c)
    BY <2>18 DEF Begin, AtUse, Return, Goto, poolVars, callVars, txVars, storeVars, envVars
  <2>19. CASE ReturnError(c)
    BY <2>19 DEF ReturnError, Return, Goto, poolVars, callVars, txVars, storeVars, envVars
  <2>20. CASE MigrateUp(c)
    BY <2>20 DEF MigrateUp, RunMigration, Return, Goto, Close, poolVars, callVars, txVars,
       storeVars, envVars
  <2>21. CASE MigrateDone(c)
    BY <2>21 DEF MigrateDone, Return, Goto, poolVars, callVars, txVars, storeVars, envVars
  <2> QED
    BY <1>1, <2>1, <2>2, <2>3, <2>4, <2>5, <2>6, <2>7, <2>8, <2>9, <2>10, <2>11, <2>12,
       <2>13, <2>14, <2>15, <2>16, <2>17, <2>18, <2>19, <2>20, <2>21 DEF ClientStep, Step
<1>2. CASE CloseAll
  <2>1. \A n \in Names : connections[n] # NoPool => connections[n] \in 1 .. opened
    OBVIOUS
  <2>2. closed' \in SUBSET (1 .. opened)
    BY <1>2, <2>1 DEF CloseAll
  <2> QED
    BY <1>2, <2>2 DEF CloseAll
<1>3. CASE Outage
  BY <1>3 DEF Outage, Kill, poolVars, callVars, txVars, storeVars, envVars
<1>4. CASE Recover
  BY <1>4 DEF Recover, poolVars, callVars, txVars, storeVars, envVars
<1>5. CASE UNCHANGED vars
  BY <1>5 DEF vars, poolVars, callVars, txVars, storeVars, envVars
<1> QED
  BY <1>1, <1>2, <1>3, <1>4, <1>5 DEF Next, ClientStep

\* A call knows pools that were opened.
LEMMA CallTypeStep == TypeOK /\ [Next]_vars => CallType'
<1> SUFFICES ASSUME TypeOK, [Next]_vars PROVE CallType'
  OBVIOUS
<1> USE DEF TypeOK, PoolType
<1>1. ASSUME NEW c \in Clients, ClientStep(c) PROVE CallType'
  <2>1. CASE CallStatement(c)
    <3>1. pc' \in [Clients -> Labels] /\ call' \in [Clients -> Calls(opened)]
      BY <2>1, EnterTypes DEF CallStatement, StoreType, Wants, Labels
    <3> QED
      BY <2>1, <3>1 DEF CallStatement, Enter, CallType, poolVars
  <2>2. CASE CallBegin(c)
    <3>1. pc' \in [Clients -> Labels] /\ call' \in [Clients -> Calls(opened)]
      BY <2>2, EnterTypes DEF CallBegin, StoreType, Wants, Labels
    <3> QED
      BY <2>2, <3>1 DEF CallBegin, Enter, CallType, poolVars
  <2>3. CASE MigrateStart(c)
    <3>1. pc' \in [Clients -> Labels] /\ call' \in [Clients -> Calls(opened)]
      BY <2>3, EnterTypes DEF MigrateStart, StoreType, Wants, Labels
    <3> QED
      BY <2>3, <3>1 DEF MigrateStart, Enter, CallType, poolVars
  <2>4. CASE TxExecuteUpsert(c)
    BY <2>4 DEF TxExecuteUpsert, poolVars, callVars, CallType
  <2>5. CASE Commit(c)
    BY <2>5, ReturnTypes DEF Commit, CallType, poolVars
  <2>6. CASE Rollback(c)
    BY <2>6 DEF Rollback, poolVars, callVars, CallType
  <2>7. CASE ContextDone(c)
    BY <2>7 DEF ContextDone, poolVars, callVars, CallType
  <2>8. CASE ResolveProvider(c)
    <3>1. pc' \in [Clients -> Labels] /\ call' \in [Clients -> Calls(opened)]
      BY <2>8, GotoTypes, GotoWithTypes DEF ResolveProvider, CallType, Labels, Dummy
    <3> QED
      BY <2>8, <3>1 DEF ResolveProvider, CallType, poolVars
  <2>9. CASE GetConnection(c)
    <3>1. connections[name[c]] \in -1 .. opened
      BY DEF CallType
    <3>2. pc' \in [Clients -> Labels] /\ call' \in [Clients -> Calls(opened)]
      BY <2>9, <3>1, GotoWithTypes DEF GetConnection, Labels
    <3> QED
      BY <2>9, <3>2 DEF GetConnection, CallType, poolVars
  <2>10. CASE LockConnection(c)
    <3>1. connections[name[c]] \in -1 .. opened
      BY DEF CallType
    <3>2. pc' \in [Clients -> Labels] /\ call' \in [Clients -> Calls(opened)]
      BY <2>10, <3>1, GotoTypes, GotoWithTypes DEF LockConnection, CallType, Labels
    <3> QED
      BY <2>10, <3>2 DEF LockConnection, CallType
  <2>11. CASE CreateAndStoreConnection(c)
    <3>1. \A d \in Clients : call[d] \in Calls(opened + 1)
      BY SetCall DEF CallType
    <3>2. [call[c] EXCEPT !.conn = opened + 1] \in Calls(opened + 1)
      <4>1. opened + 1 \in Nat /\ opened + 1 \in -1 .. opened + 1
        OBVIOUS
      <4> QED
        BY <3>1, <4>1, SetCall
    <3>3. CASE NewGormDBAdapter(c)
      <4>1. call' \in [Clients -> Calls(opened + 1)]
        BY <2>11, <3>1, <3>2, <3>3 DEF CreateAndStoreConnection, NewGormDBAdapter,
           GotoWith, CallType
      <4>2. pc' \in [Clients -> Labels]
        BY <2>11, <3>3, GotoTypes DEF NewGormDBAdapter, GotoWith, Opened, CallType, Labels
      <4> QED
        BY <2>11, <3>3, <4>1, <4>2 DEF CreateAndStoreConnection, NewGormDBAdapter, CallType
    <3>4. CASE Goto(c, "failed") /\ UNCHANGED <<opened, connections, call>>
      <4>1. pc' \in [Clients -> Labels]
        BY <3>4, GotoTypes DEF CallType, Labels
      <4> QED
        BY <2>11, <3>4, <4>1 DEF CreateAndStoreConnection, CallType
    <3> QED
      BY <2>11, <3>3, <3>4 DEF CreateAndStoreConnection
  <2>12. CASE Ping(c)
    <3>1. pc' \in [Clients -> Labels]
      BY <2>12, GotoTypes DEF Ping, CallType, Labels
    <3> QED
      BY <2>12, <3>1 DEF Ping, CallType, poolVars
  <2>13. CASE ForceReconnect(c)
    <3>1. pc' \in [Clients -> Labels]
      BY <2>13, GotoTypes DEF ForceReconnect, CallType, Labels
    <3> QED
      BY <2>13, <3>1 DEF ForceReconnect, CallType
  <2>14. CASE ExecuteQuery(c)
    BY <2>14, ReturnTypes DEF ExecuteQuery, CallType, poolVars
  <2>15. CASE ExportQuery(c)
    BY <2>15, ReturnTypes DEF ExportQuery, CallType, poolVars
  <2>16. CASE ExecuteUpdate(c)
    <3>1. pc' \in [Clients -> Labels] /\ call' \in [Clients -> Calls(opened)]
      BY <2>16, ReturnTypes, GotoTypes DEF ExecuteUpdate, CallType, Labels
    <3> QED
      BY <2>16, <3>1 DEF ExecuteUpdate, CallType, poolVars
  <2>17. CASE ExecuteUpsert(c)
    BY <2>17, ReturnTypes DEF ExecuteUpsert, CallType, poolVars
  <2>18. CASE Begin(c)
    BY <2>18, ReturnTypes DEF Begin, CallType, poolVars
  <2>19. CASE ReturnError(c)
    BY <2>19, ReturnTypes DEF ReturnError, CallType, poolVars
  <2>20. CASE MigrateUp(c)
    <3>1. call[c] \in Calls(opened) /\ [call[c] EXCEPT !.want = "migrated"] \in Calls(opened)
      BY SetCall DEF CallType, Wants
    <3>2. pc' \in [Clients -> Labels] /\ call' \in [Clients -> Calls(opened)]
      BY <2>20, <3>1, GotoTypes, ReturnTypes DEF MigrateUp, RunMigration, CallType, Labels
    <3> QED
      BY <2>20, <3>2 DEF MigrateUp, CallType
  <2>21. CASE MigrateDone(c)
    BY <2>21, ReturnTypes DEF MigrateDone, CallType, poolVars
  <2> QED
    BY <1>1, <2>1, <2>2, <2>3, <2>4, <2>5, <2>6, <2>7, <2>8, <2>9, <2>10, <2>11, <2>12,
       <2>13, <2>14, <2>15, <2>16, <2>17, <2>18, <2>19, <2>20, <2>21 DEF ClientStep, Step
<1>2. CASE CloseAll
  BY <1>2 DEF CloseAll, callVars, CallType
<1>3. CASE Outage
  <2>1. ASSUME NEW c \in Clients PROVE [call[c] EXCEPT !.down = pc[c] # "idle"] \in Calls(opened)
    <3>1. call[c] \in Calls(opened) /\ (pc[c] # "idle") \in BOOLEAN
      BY DEF CallType
    <3> QED
      BY <3>1, SetCall
  <2>2. call' \in [Clients -> Calls(opened)]
    BY <1>3, <2>1 DEF Outage
  <2> QED
    BY <1>3, <2>2 DEF Outage, poolVars, CallType
<1>4. CASE Recover
  BY <1>4 DEF Recover, poolVars, callVars, CallType
<1>5. CASE UNCHANGED vars
  BY <1>5 DEF vars, CallType, poolVars, callVars, txVars, storeVars, envVars
<1> QED
  BY <1>1, <1>2, <1>3, <1>4, <1>5 DEF Next, ClientStep

\* A row belongs to a client.
LEMMA StoreTypeStep == TypeOK /\ [Next]_vars => StoreType'
<1> SUFFICES ASSUME TypeOK, [Next]_vars PROVE StoreType'
  OBVIOUS
<1> USE DEF TypeOK, PoolType, CallType, StoreType, NoPool, Dead
<1>1. ASSUME NEW c \in Clients, ClientStep(c) PROVE StoreType'
  <2>1. CASE CallStatement(c)
    BY <2>1 DEF CallStatement, Enter, Goto, poolVars, callVars, txVars, storeVars, envVars
  <2>2. CASE CallBegin(c)
    BY <2>2 DEF CallBegin, Enter, Goto, poolVars, callVars, txVars, storeVars, envVars
  <2>3. CASE MigrateStart(c)
    BY <2>3 DEF MigrateStart, Enter, Goto, poolVars, callVars, txVars, storeVars, envVars
  <2>4. CASE TxExecuteUpsert(c)
    BY <2>4 DEF TxExecuteUpsert, poolVars, callVars, txVars, storeVars, envVars
  <2>5. CASE Commit(c)
    BY <2>5 DEF Commit, EndTx, Return, Goto, Store, poolVars, callVars, txVars, storeVars,
       envVars
  <2>6. CASE Rollback(c)
    BY <2>6 DEF Rollback, EndTx, poolVars, callVars, txVars, storeVars, envVars
  <2>7. CASE ContextDone(c)
    BY <2>7 DEF ContextDone, Kill, poolVars, callVars, txVars, storeVars, envVars
  <2>8. CASE ResolveProvider(c)
    BY <2>8 DEF ResolveProvider, Goto, GotoWith, poolVars, callVars, txVars, storeVars,
       envVars
  <2>9. CASE GetConnection(c)
    BY <2>9 DEF GetConnection, Goto, GotoWith, poolVars, callVars, txVars, storeVars,
       envVars
  <2>10. CASE LockConnection(c)
    BY <2>10 DEF LockConnection, Goto, GotoWith, poolVars, callVars, txVars, storeVars,
       envVars
  <2>11. CASE CreateAndStoreConnection(c)
    BY <2>11 DEF CreateAndStoreConnection, NewGormDBAdapter, HandOut, Opened, Goto, GotoWith,
       poolVars, callVars, txVars, storeVars, envVars
  <2>12. CASE Ping(c)
    BY <2>12 DEF Ping, HandOut, Goto, poolVars, callVars, txVars, storeVars, envVars
  <2>13. CASE ForceReconnect(c)
    BY <2>13 DEF ForceReconnect, Close, Goto, poolVars, callVars, txVars, storeVars, envVars
  <2>14. CASE ExecuteQuery(c)
    BY <2>14 DEF ExecuteQuery, AtUse, Return, Goto, poolVars, callVars, txVars, storeVars,
       envVars
  <2>15. CASE ExportQuery(c)
    BY <2>15 DEF ExportQuery, AtUse, Return, Goto, Close, poolVars, callVars, txVars,
       storeVars, envVars
  <2>16. CASE ExecuteUpdate(c)
    BY <2>16 DEF ExecuteUpdate, AtUse, Return, Goto, Store, poolVars, callVars, txVars,
       storeVars, envVars
  <2>17. CASE ExecuteUpsert(c)
    BY <2>17 DEF ExecuteUpsert, AtUse, Return, Goto, Store, poolVars, callVars, txVars,
       storeVars, envVars
  <2>18. CASE Begin(c)
    <3>1. call[c].conn \in Int
      BY DEF Calls
    <3> QED
      BY <2>18, <3>1 DEF Begin, storeVars, envVars
  <2>19. CASE ReturnError(c)
    BY <2>19 DEF ReturnError, Return, Goto, poolVars, callVars, txVars, storeVars, envVars
  <2>20. CASE MigrateUp(c)
    BY <2>20 DEF MigrateUp, RunMigration, Return, Goto, Close, poolVars, callVars, txVars,
       storeVars, envVars
  <2>21. CASE MigrateDone(c)
    BY <2>21 DEF MigrateDone, Return, Goto, poolVars, callVars, txVars, storeVars, envVars
  <2> QED
    BY <1>1, <2>1, <2>2, <2>3, <2>4, <2>5, <2>6, <2>7, <2>8, <2>9, <2>10, <2>11, <2>12,
       <2>13, <2>14, <2>15, <2>16, <2>17, <2>18, <2>19, <2>20, <2>21 DEF ClientStep, Step
<1>2. CASE CloseAll
  BY <1>2 DEF CloseAll, poolVars, callVars, txVars, storeVars, envVars
<1>3. CASE Outage
  <2>1. inTx' \in [Clients -> Int]
    BY <1>3 DEF Outage, Kill
  <2>2. pending' \in [Clients -> BOOLEAN]
    BY <1>3 DEF Outage, Kill
  <2> QED
    BY <1>3, <2>1, <2>2 DEF Outage, storeVars
<1>4. CASE Recover
  BY <1>4 DEF Recover, poolVars, callVars, txVars, storeVars, envVars
<1>5. CASE UNCHANGED vars
  BY <1>5 DEF vars, poolVars, callVars, txVars, storeVars, envVars
<1> QED
  BY <1>1, <1>2, <1>3, <1>4, <1>5 DEF Next, ClientStep

\* The map is empty and nobody has called.
LEMMA TypeInit == Init => TypeOK
<1> SUFFICES ASSUME Init PROVE TypeOK
  OBVIOUS
<1>1. NoCall \in Calls(opened)
  BY DEF Init, NoCall, Calls, Wants, NoPool
<1>2. CallType
  BY <1>1 DEF Init, CallType, Labels
<1> QED
  BY <1>2 DEF Init, TypeOK, PoolType, StoreType, NoPool

\* Every variable of the connections keeps its type.
THEOREM ConnectionTypes == Spec => []TypeOK
<1>1. TypeOK /\ [Next]_vars => TypeOK'
  BY PoolTypeStep, CallTypeStep, StoreTypeStep DEF TypeOK
<1> QED
  BY <1>1, TypeInit, PTL DEF Spec

\* The mutex is taken on the way to a new pool and given back with it.
LEMMA HoldingStep == TypeOK /\ Holding /\ [Next]_vars => Holding'
<1> SUFFICES ASSUME TypeOK, Holding, [Next]_vars PROVE Holding'
  OBVIOUS
<1> USE ConnectionsAssumption DEF TypeOK, PoolType, CallType, Labels, Holding, Free
<1>1. ASSUME NEW c \in Clients, ClientStep(c) PROVE Holding'
  <2>1. CASE CallStatement(c)
    BY <2>1 DEF CallStatement, Enter, Goto, poolVars, callVars, txVars, storeVars, envVars
  <2>2. CASE CallBegin(c)
    BY <2>2 DEF CallBegin, Enter, Goto, poolVars, callVars, txVars, storeVars, envVars
  <2>3. CASE MigrateStart(c)
    BY <2>3 DEF MigrateStart, Enter, Goto, poolVars, callVars, txVars, storeVars, envVars
  <2>4. CASE TxExecuteUpsert(c)
    BY <2>4 DEF TxExecuteUpsert, poolVars, callVars, txVars, storeVars, envVars
  <2>5. CASE Commit(c)
    BY <2>5 DEF Commit, EndTx, Return, Goto, Store, poolVars, callVars, txVars, storeVars,
       envVars
  <2>6. CASE Rollback(c)
    BY <2>6 DEF Rollback, EndTx, poolVars, callVars, txVars, storeVars, envVars
  <2>7. CASE ContextDone(c)
    BY <2>7 DEF ContextDone, Kill, poolVars, callVars, txVars, storeVars, envVars
  <2>8. CASE ResolveProvider(c)
    BY <2>8 DEF ResolveProvider, Goto, GotoWith, poolVars, callVars, txVars, storeVars,
       envVars
  <2>9. CASE GetConnection(c)
    BY <2>9 DEF GetConnection, Goto, GotoWith, poolVars, callVars, txVars, storeVars,
       envVars
  <2>10. CASE LockConnection(c)
    BY <2>10 DEF LockConnection, Goto, GotoWith, poolVars, callVars, txVars, storeVars,
       envVars
  <2>11. CASE CreateAndStoreConnection(c)
    BY <2>11 DEF CreateAndStoreConnection, NewGormDBAdapter, HandOut, Opened, Goto, GotoWith,
       poolVars, callVars, txVars, storeVars, envVars
  <2>12. CASE Ping(c)
    BY <2>12 DEF Ping, HandOut, Goto, poolVars, callVars, txVars, storeVars, envVars
  <2>13. CASE ForceReconnect(c)
    BY <2>13 DEF ForceReconnect, Close, Goto, poolVars, callVars, txVars, storeVars, envVars
  <2>14. CASE ExecuteQuery(c)
    BY <2>14 DEF ExecuteQuery, AtUse, Return, Goto, poolVars, callVars, txVars, storeVars,
       envVars
  <2>15. CASE ExportQuery(c)
    BY <2>15 DEF ExportQuery, AtUse, Return, Goto, Close, poolVars, callVars, txVars,
       storeVars, envVars
  <2>16. CASE ExecuteUpdate(c)
    BY <2>16 DEF ExecuteUpdate, AtUse, Return, Goto, Store, poolVars, callVars, txVars,
       storeVars, envVars
  <2>17. CASE ExecuteUpsert(c)
    BY <2>17 DEF ExecuteUpsert, AtUse, Return, Goto, Store, poolVars, callVars, txVars,
       storeVars, envVars
  <2>18. CASE Begin(c)
    BY <2>18 DEF Begin, AtUse, Return, Goto, poolVars, callVars, txVars, storeVars, envVars
  <2>19. CASE ReturnError(c)
    BY <2>19 DEF ReturnError, Return, Goto, poolVars, callVars, txVars, storeVars, envVars
  <2>20. CASE MigrateUp(c)
    BY <2>20 DEF MigrateUp, RunMigration, Return, Goto, Close, poolVars, callVars, txVars,
       storeVars, envVars
  <2>21. CASE MigrateDone(c)
    BY <2>21 DEF MigrateDone, Return, Goto, poolVars, callVars, txVars, storeVars, envVars
  <2> QED
    BY <1>1, <2>1, <2>2, <2>3, <2>4, <2>5, <2>6, <2>7, <2>8, <2>9, <2>10, <2>11, <2>12,
       <2>13, <2>14, <2>15, <2>16, <2>17, <2>18, <2>19, <2>20, <2>21 DEF ClientStep, Step
<1>2. CASE CloseAll
  BY <1>2 DEF CloseAll, poolVars, callVars, txVars, storeVars, envVars
<1>3. CASE Outage
  BY <1>3 DEF Outage, Kill, poolVars, callVars, txVars, storeVars, envVars
<1>4. CASE Recover
  BY <1>4 DEF Recover, poolVars, callVars, txVars, storeVars, envVars
<1>5. CASE UNCHANGED vars
  BY <1>5 DEF vars, poolVars, callVars, txVars, storeVars, envVars
<1> QED
  BY <1>1, <1>2, <1>3, <1>4, <1>5 DEF Next, ClientStep

\* A new pool takes the place of one that is closed, or of none.
LEMMA LeakStep == TypeOK /\ Holding /\ NoPoolLeaks /\ [Next]_vars => NoPoolLeaks'
<1> SUFFICES ASSUME TypeOK, Holding, NoPoolLeaks, [Next]_vars PROVE NoPoolLeaks'
  OBVIOUS
<1> USE DEF TypeOK, PoolType, CallType, Holding, NoPoolLeaks, IsOpen, NoPool
<1>1. ASSUME NEW c \in Clients, ClientStep(c) PROVE NoPoolLeaks'
  <2>1. CASE CallStatement(c)
    BY <2>1 DEF CallStatement, Enter, Goto, poolVars, callVars, txVars, storeVars, envVars
  <2>2. CASE CallBegin(c)
    BY <2>2 DEF CallBegin, Enter, Goto, poolVars, callVars, txVars, storeVars, envVars
  <2>3. CASE MigrateStart(c)
    BY <2>3 DEF MigrateStart, Enter, Goto, poolVars, callVars, txVars, storeVars, envVars
  <2>4. CASE TxExecuteUpsert(c)
    BY <2>4 DEF TxExecuteUpsert, poolVars, callVars, txVars, storeVars, envVars
  <2>5. CASE Commit(c)
    BY <2>5 DEF Commit, EndTx, Return, Goto, Store, poolVars, callVars, txVars, storeVars,
       envVars
  <2>6. CASE Rollback(c)
    BY <2>6 DEF Rollback, EndTx, poolVars, callVars, txVars, storeVars, envVars
  <2>7. CASE ContextDone(c)
    BY <2>7 DEF ContextDone, Kill, poolVars, callVars, txVars, storeVars, envVars
  <2>8. CASE ResolveProvider(c)
    BY <2>8 DEF ResolveProvider, Goto, GotoWith, poolVars, callVars, txVars, storeVars,
       envVars
  <2>9. CASE GetConnection(c)
    BY <2>9 DEF GetConnection, Goto, GotoWith, poolVars, callVars, txVars, storeVars,
       envVars
  <2>10. CASE LockConnection(c)
    BY <2>10 DEF LockConnection, Goto, GotoWith, poolVars, callVars, txVars, storeVars,
       envVars
  <2>11. CASE CreateAndStoreConnection(c)
    BY <2>11 DEF CreateAndStoreConnection, NewGormDBAdapter, HandOut, Opened, Goto, GotoWith,
       poolVars, callVars, txVars, storeVars, envVars
  <2>12. CASE Ping(c)
    BY <2>12 DEF Ping, HandOut, Goto, poolVars, callVars, txVars, storeVars, envVars
  <2>13. CASE ForceReconnect(c)
    BY <2>13 DEF ForceReconnect, Close, Goto, poolVars, callVars, txVars, storeVars, envVars
  <2>14. CASE ExecuteQuery(c)
    BY <2>14 DEF ExecuteQuery, AtUse, Return, Goto, poolVars, callVars, txVars, storeVars,
       envVars
  <2>15. CASE ExportQuery(c)
    BY <2>15 DEF ExportQuery, AtUse, Return, Goto, Close, poolVars, callVars, txVars,
       storeVars, envVars
  <2>16. CASE ExecuteUpdate(c)
    BY <2>16 DEF ExecuteUpdate, AtUse, Return, Goto, Store, poolVars, callVars, txVars,
       storeVars, envVars
  <2>17. CASE ExecuteUpsert(c)
    BY <2>17 DEF ExecuteUpsert, AtUse, Return, Goto, Store, poolVars, callVars, txVars,
       storeVars, envVars
  <2>18. CASE Begin(c)
    BY <2>18 DEF Begin, AtUse, Return, Goto, poolVars, callVars, txVars, storeVars, envVars
  <2>19. CASE ReturnError(c)
    BY <2>19 DEF ReturnError, Return, Goto, poolVars, callVars, txVars, storeVars, envVars
  <2>20. CASE MigrateUp(c)
    BY <2>20 DEF MigrateUp, RunMigration, Return, Goto, Close, poolVars, callVars, txVars,
       storeVars, envVars
  <2>21. CASE MigrateDone(c)
    BY <2>21 DEF MigrateDone, Return, Goto, poolVars, callVars, txVars, storeVars, envVars
  <2> QED
    BY <1>1, <2>1, <2>2, <2>3, <2>4, <2>5, <2>6, <2>7, <2>8, <2>9, <2>10, <2>11, <2>12,
       <2>13, <2>14, <2>15, <2>16, <2>17, <2>18, <2>19, <2>20, <2>21 DEF ClientStep, Step
<1>2. CASE CloseAll
  BY <1>2 DEF CloseAll, poolVars, callVars, txVars, storeVars, envVars
<1>3. CASE Outage
  BY <1>3 DEF Outage, Kill, poolVars, callVars, txVars, storeVars, envVars
<1>4. CASE Recover
  BY <1>4 DEF Recover, poolVars, callVars, txVars, storeVars, envVars
<1>5. CASE UNCHANGED vars
  BY <1>5 DEF vars, poolVars, callVars, txVars, storeVars, envVars
<1> QED
  BY <1>1, <1>2, <1>3, <1>4, <1>5 DEF Next, ClientStep

\* BaseProvider: whatever is open is the pool of its name, whichever calls create,
\* check, replace and close pools at the same time.
THEOREM PoolsKept == Spec => []NoPoolLeaks
<1>1. Init => Holding /\ NoPoolLeaks
  BY ConnectionsAssumption DEF Init, Holding, NoPoolLeaks, IsOpen, Free, NoPool
<1> QED
  BY <1>1, HoldingStep, LeakStep, ConnectionTypes, PTL DEF Spec

\* An outage reaches the calls under way; later ones begin with it.
LEMMA OutageStep == TypeOK /\ OutageSeen /\ [Next]_vars => OutageSeen'
<1> SUFFICES ASSUME TypeOK, OutageSeen, [Next]_vars PROVE OutageSeen'
  OBVIOUS
<1> USE DEF TypeOK, CallType, StoreType, OutageSeen, Calls
<1>1. ASSUME NEW c \in Clients, ClientStep(c) PROVE OutageSeen'
  <2>1. CASE CallStatement(c)
    BY <2>1 DEF CallStatement, Enter, Goto, poolVars, callVars, txVars, storeVars, envVars
  <2>2. CASE CallBegin(c)
    BY <2>2 DEF CallBegin, Enter, Goto, poolVars, callVars, txVars, storeVars, envVars
  <2>3. CASE MigrateStart(c)
    <3>1. PICK l \in Labels : Enter(c, "migrate", l)
      BY <2>3 DEF MigrateStart, Labels
    <3>2. call'[c].down = ~dbUp /\ dbUp' = dbUp
      BY <3>1 DEF Enter, envVars
    <3> QED
      BY <3>1, <3>2 DEF Enter, Goto
  <2>4. CASE TxExecuteUpsert(c)
    BY <2>4 DEF TxExecuteUpsert, poolVars, callVars, txVars, storeVars, envVars
  <2>5. CASE Commit(c)
    BY <2>5 DEF Commit, EndTx, Return, Goto, Store, poolVars, callVars, txVars, storeVars,
       envVars
  <2>6. CASE Rollback(c)
    BY <2>6 DEF Rollback, EndTx, poolVars, callVars, txVars, storeVars, envVars
  <2>7. CASE ContextDone(c)
    BY <2>7 DEF ContextDone, Kill, poolVars, callVars, txVars, storeVars, envVars
  <2>8. CASE ResolveProvider(c)
    <3>1. \A d \in Clients : call'[d].down = call[d].down
      BY <2>8, GotoWithKeeps DEF ResolveProvider
    <3> QED
      BY <2>8, <3>1 DEF ResolveProvider, GotoWith, Goto, envVars
  <2>9. CASE GetConnection(c)
    BY <2>9 DEF GetConnection, Goto, GotoWith, poolVars, callVars, txVars, storeVars,
       envVars
  <2>10. CASE LockConnection(c)
    <3>1. \A d \in Clients : call'[d].down = call[d].down
      BY <2>10, GotoWithKeeps DEF LockConnection
    <3> QED
      BY <2>10, <3>1 DEF LockConnection, GotoWith, Goto, envVars
  <2>11. CASE CreateAndStoreConnection(c)
    <3>1. \A d \in Clients : call'[d].down = call[d].down
      BY <2>11, GotoWithKeeps DEF CreateAndStoreConnection, NewGormDBAdapter
    <3> QED
      BY <2>11, <3>1 DEF CreateAndStoreConnection, NewGormDBAdapter, GotoWith, Goto, Opened,
         envVars
  <2>12. CASE Ping(c)
    BY <2>12 DEF Ping, HandOut, Goto, poolVars, callVars, txVars, storeVars, envVars
  <2>13. CASE ForceReconnect(c)
    BY <2>13 DEF ForceReconnect, Close, Goto, poolVars, callVars, txVars, storeVars, envVars
  <2>14. CASE ExecuteQuery(c)
    BY <2>14 DEF ExecuteQuery, AtUse, Return, Goto, poolVars, callVars, txVars, storeVars,
       envVars
  <2>15. CASE ExportQuery(c)
    BY <2>15 DEF ExportQuery, AtUse, Return, Goto, Close, poolVars, callVars, txVars,
       storeVars, envVars
  <2>16. CASE ExecuteUpdate(c)
    BY <2>16 DEF ExecuteUpdate, AtUse, Return, Goto, Store, poolVars, callVars, txVars,
       storeVars, envVars
  <2>17. CASE ExecuteUpsert(c)
    BY <2>17 DEF ExecuteUpsert, AtUse, Return, Goto, Store, poolVars, callVars, txVars,
       storeVars, envVars
  <2>18. CASE Begin(c)
    BY <2>18 DEF Begin, AtUse, Return, Goto, poolVars, callVars, txVars, storeVars, envVars
  <2>19. CASE ReturnError(c)
    BY <2>19 DEF ReturnError, Return, Goto, poolVars, callVars, txVars, storeVars, envVars
  <2>20. CASE MigrateUp(c)
    BY <2>20 DEF MigrateUp, RunMigration, Return, Goto, Close, poolVars, callVars, txVars,
       storeVars, envVars
  <2>21. CASE MigrateDone(c)
    BY <2>21 DEF MigrateDone, Return, Goto, poolVars, callVars, txVars, storeVars, envVars
  <2> QED
    BY <1>1, <2>1, <2>2, <2>3, <2>4, <2>5, <2>6, <2>7, <2>8, <2>9, <2>10, <2>11, <2>12,
       <2>13, <2>14, <2>15, <2>16, <2>17, <2>18, <2>19, <2>20, <2>21 DEF ClientStep, Step
<1>2. CASE CloseAll
  BY <1>2 DEF CloseAll, poolVars, callVars, txVars, storeVars, envVars
<1>3. CASE Outage
  BY <1>3 DEF Outage, Kill, poolVars, callVars, txVars, storeVars, envVars
<1>4. CASE Recover
  BY <1>4 DEF Recover, poolVars, callVars, txVars, storeVars, envVars
<1>5. CASE UNCHANGED vars
  BY <1>5 DEF vars, poolVars, callVars, txVars, storeVars, envVars
<1> QED
  BY <1>1, <1>2, <1>3, <1>4, <1>5 DEF Next, ClientStep

\* A call fails on its way to a connection for lack of a provider, a password or
\* the database.
LEMMA HealsStep == TypeOK /\ OutageSeen /\ ResolveHeals /\ [Next]_vars => ResolveHeals'
<1> SUFFICES ASSUME TypeOK, OutageSeen, ResolveHeals, [Next]_vars PROVE ResolveHeals'
  OBVIOUS
<1> USE DEF TypeOK, CallType, StoreType, OutageSeen, ResolveHeals, Calls, Connect, Labels
<1>1. ASSUME NEW c \in Clients, ClientStep(c) PROVE ResolveHeals'
  <2>1. CASE CallStatement(c)
    BY <2>1 DEF CallStatement, Enter, Goto, poolVars, callVars, txVars, storeVars, envVars
  <2>2. CASE CallBegin(c)
    BY <2>2 DEF CallBegin, Enter, Goto, poolVars, callVars, txVars, storeVars, envVars
  <2>3. CASE MigrateStart(c)
    BY <2>3 DEF MigrateStart, Enter, Goto, poolVars, callVars, txVars, storeVars, envVars
  <2>4. CASE TxExecuteUpsert(c)
    BY <2>4 DEF TxExecuteUpsert, poolVars, callVars, txVars, storeVars, envVars
  <2>5. CASE Commit(c)
    BY <2>5 DEF Commit, EndTx, Return, Goto, Store, poolVars, callVars, txVars, storeVars,
       envVars
  <2>6. CASE Rollback(c)
    BY <2>6 DEF Rollback, EndTx, poolVars, callVars, txVars, storeVars, envVars
  <2>7. CASE ContextDone(c)
    BY <2>7 DEF ContextDone, Kill, poolVars, callVars, txVars, storeVars, envVars
  <2>8. CASE ResolveProvider(c)
    BY <2>8 DEF ResolveProvider, Goto, GotoWith, poolVars, callVars, txVars, storeVars,
       envVars
  <2>9. CASE GetConnection(c)
    BY <2>9 DEF GetConnection, Goto, GotoWith, poolVars, callVars, txVars, storeVars,
       envVars
  <2>10. CASE LockConnection(c)
    BY <2>10 DEF LockConnection, Goto, GotoWith, poolVars, callVars, txVars, storeVars,
       envVars
  <2>11. CASE CreateAndStoreConnection(c)
    BY <2>11 DEF CreateAndStoreConnection, NewGormDBAdapter, HandOut, Opened, Goto, GotoWith,
       poolVars, callVars, txVars, storeVars, envVars
  <2>12. CASE Ping(c)
    BY <2>12 DEF Ping, HandOut, Goto, poolVars, callVars, txVars, storeVars, envVars
  <2>13. CASE ForceReconnect(c)
    BY <2>13 DEF ForceReconnect, Close, Goto, poolVars, callVars, txVars, storeVars, envVars
  <2>14. CASE ExecuteQuery(c)
    BY <2>14 DEF ExecuteQuery, AtUse, Return, Goto, poolVars, callVars, txVars, storeVars,
       envVars
  <2>15. CASE ExportQuery(c)
    BY <2>15 DEF ExportQuery, AtUse, Return, Goto, Close, poolVars, callVars, txVars,
       storeVars, envVars
  <2>16. CASE ExecuteUpdate(c)
    BY <2>16 DEF ExecuteUpdate, AtUse, Return, Goto, Store, poolVars, callVars, txVars,
       storeVars, envVars
  <2>17. CASE ExecuteUpsert(c)
    BY <2>17 DEF ExecuteUpsert, AtUse, Return, Goto, Store, poolVars, callVars, txVars,
       storeVars, envVars
  <2>18. CASE Begin(c)
    BY <2>18 DEF Begin, AtUse, Return, Goto, poolVars, callVars, txVars, storeVars, envVars
  <2>19. CASE ReturnError(c)
    BY <2>19 DEF ReturnError, Return, Goto, poolVars, callVars, txVars, storeVars, envVars
  <2>20. CASE MigrateUp(c)
    BY <2>20 DEF MigrateUp, RunMigration, Return, Goto, Close, poolVars, callVars, txVars,
       storeVars, envVars
  <2>21. CASE MigrateDone(c)
    BY <2>21 DEF MigrateDone, Return, Goto, poolVars, callVars, txVars, storeVars, envVars
  <2> QED
    BY <1>1, <2>1, <2>2, <2>3, <2>4, <2>5, <2>6, <2>7, <2>8, <2>9, <2>10, <2>11, <2>12,
       <2>13, <2>14, <2>15, <2>16, <2>17, <2>18, <2>19, <2>20, <2>21 DEF ClientStep, Step
<1>2. CASE CloseAll
  BY <1>2 DEF CloseAll, poolVars, callVars, txVars, storeVars, envVars
<1>3. CASE Outage
  BY <1>3 DEF Outage, Kill, poolVars, callVars, txVars, storeVars, envVars
<1>4. CASE Recover
  BY <1>4 DEF Recover, poolVars, callVars, txVars, storeVars, envVars
<1>5. CASE UNCHANGED vars
  BY <1>5 DEF vars, poolVars, callVars, txVars, storeVars, envVars
<1> QED
  BY <1>1, <1>2, <1>3, <1>4, <1>5 DEF Next, ClientStep

\* GormDBConnectionResolver, MigrationTasklet: what is wrong with the pools is mended.
THEOREM ResolvesHeal == Spec => []ResolveHeals
<1>1. Init => OutageSeen /\ ResolveHeals
  BY DEF Init, OutageSeen, ResolveHeals
<1> QED
  BY <1>1, OutageStep, HealsStep, ConnectionTypes, PTL DEF Spec

\* Ping and NewGormDBAdapter hand out open pools; whoever closes one later marks
\* those who hold it.
LEMMA HeldStep == TypeOK /\ HeldOpen /\ [Next]_vars => HeldOpen'
<1> SUFFICES ASSUME TypeOK, HeldOpen, [Next]_vars PROVE HeldOpen'
  OBVIOUS
<1> USE DEF TypeOK, PoolType, CallType, StoreType, HeldOpen, Calls, IsOpen, NoPool, NoCall, Dummy
<1>1. ASSUME NEW c \in Clients, ClientStep(c) PROVE HeldOpen'
  <2>1. CASE CallStatement(c)
    BY <2>1 DEF CallStatement, Enter, Goto, poolVars, callVars, txVars, storeVars, envVars
  <2>2. CASE CallBegin(c)
    BY <2>2 DEF CallBegin, Enter, Goto, poolVars, callVars, txVars, storeVars, envVars
  <2>3. CASE MigrateStart(c)
    BY <2>3 DEF MigrateStart, Enter, Goto, poolVars, callVars, txVars, storeVars, envVars
  <2>4. CASE TxExecuteUpsert(c)
    BY <2>4 DEF TxExecuteUpsert, poolVars, callVars, txVars, storeVars, envVars
  <2>5. CASE Commit(c)
    BY <2>5 DEF Commit, EndTx, Return, Goto, Store, poolVars, callVars, txVars, storeVars,
       envVars
  <2>6. CASE Rollback(c)
    BY <2>6 DEF Rollback, EndTx, poolVars, callVars, txVars, storeVars, envVars
  <2>7. CASE ContextDone(c)
    BY <2>7 DEF ContextDone, Kill, poolVars, callVars, txVars, storeVars, envVars
  <2>8. CASE ResolveProvider(c)
    BY <2>8 DEF ResolveProvider, Goto, GotoWith, poolVars, callVars, txVars, storeVars,
       envVars
  <2>9. CASE GetConnection(c)
    BY <2>9 DEF GetConnection, Goto, GotoWith, poolVars, callVars, txVars, storeVars,
       envVars
  <2>10. CASE LockConnection(c)
    BY <2>10 DEF LockConnection, Goto, GotoWith, poolVars, callVars, txVars, storeVars,
       envVars
  <2>11. CASE CreateAndStoreConnection(c)
    <3>1. CASE NewGormDBAdapter(c) /\ mu' = Free
      <4>1. \A d \in Clients \ {c} : call'[d] = call[d] /\ pc'[d] = pc[d]
        BY <3>1 DEF NewGormDBAdapter, GotoWith, Goto
      <4>2. call'[c].conn = opened + 1 /\ pc'[c] # "idle"
        BY <3>1 DEF NewGormDBAdapter, GotoWith, Goto, Opened
      <4>3. \A d \in Clients \ {c} : d \in overtaken => d \in overtaken'
        BY <3>1 DEF NewGormDBAdapter, HandOut
      <4>4. opened' = opened + 1 /\ closed' = closed
        BY <2>11, <3>1 DEF CreateAndStoreConnection, NewGormDBAdapter
      <4>5. opened + 1 \in 1 .. opened' /\ opened + 1 \notin closed'
        BY <4>4
      <4>6. \A d \in Clients : IsOpen(call[d].conn) =>
              call[d].conn \in 1 .. opened' /\ call[d].conn \notin closed'
        BY <4>4
      <4>7. ASSUME NEW d \in Clients, d # c
            PROVE  /\ pc'[d] = "idle" => call'[d].conn = 0
                   /\ pc'[d] \in {"use", "up"} /\ call'[d].conn > 0
                        => IsOpen(call[d].conn)' \/ d \in overtaken'
        BY <4>1, <4>3, <4>6, <4>7
      <4>8. IsOpen(call[c].conn)'
        BY <4>2, <4>5
      <4> QED
        BY <4>2, <4>7, <4>8
    <3>2. CASE Goto(c, "failed") /\ UNCHANGED <<opened, connections, call, overtaken>>
      BY <2>11, <3>2 DEF CreateAndStoreConnection, Goto
    <3> QED
      BY <2>11, <3>1, <3>2 DEF CreateAndStoreConnection
  <2>12. CASE Ping(c)
    BY <2>12 DEF Ping, HandOut, Goto, poolVars, callVars, txVars, storeVars, envVars
  <2>13. CASE ForceReconnect(c)
    BY <2>13 DEF ForceReconnect, Close, Goto, poolVars, callVars, txVars, storeVars, envVars
  <2>14. CASE ExecuteQuery(c)
    BY <2>14 DEF ExecuteQuery, AtUse, Return, Goto, poolVars, callVars, txVars, storeVars,
       envVars
  <2>15. CASE ExportQuery(c)
    BY <2>15 DEF ExportQuery, AtUse, Return, Goto, Close, poolVars, callVars, txVars,
       storeVars, envVars
  <2>16. CASE ExecuteUpdate(c)
    BY <2>16 DEF ExecuteUpdate, AtUse, Return, Goto, Store, poolVars, callVars, txVars,
       storeVars, envVars
  <2>17. CASE ExecuteUpsert(c)
    BY <2>17 DEF ExecuteUpsert, AtUse, Return, Goto, Store, poolVars, callVars, txVars,
       storeVars, envVars
  <2>18. CASE Begin(c)
    BY <2>18 DEF Begin, AtUse, Return, Goto, poolVars, callVars, txVars, storeVars, envVars
  <2>19. CASE ReturnError(c)
    BY <2>19 DEF ReturnError, Return, Goto, poolVars, callVars, txVars, storeVars, envVars
  <2>20. CASE MigrateUp(c)
    BY <2>20 DEF MigrateUp, RunMigration, Return, Goto, Close, poolVars, callVars, txVars,
       storeVars, envVars
  <2>21. CASE MigrateDone(c)
    BY <2>21 DEF MigrateDone, Return, Goto, poolVars, callVars, txVars, storeVars, envVars
  <2> QED
    BY <1>1, <2>1, <2>2, <2>3, <2>4, <2>5, <2>6, <2>7, <2>8, <2>9, <2>10, <2>11, <2>12,
       <2>13, <2>14, <2>15, <2>16, <2>17, <2>18, <2>19, <2>20, <2>21 DEF ClientStep, Step
<1>2. CASE CloseAll
  BY <1>2 DEF CloseAll, poolVars, callVars, txVars, storeVars, envVars
<1>3. CASE Outage
  BY <1>3 DEF Outage, Kill, poolVars, callVars, txVars, storeVars, envVars
<1>4. CASE Recover
  BY <1>4 DEF Recover, poolVars, callVars, txVars, storeVars, envVars
<1>5. CASE UNCHANGED vars
  BY <1>5 DEF vars, poolVars, callVars, txVars, storeVars, envVars
<1> QED
  BY <1>1, <1>2, <1>3, <1>4, <1>5 DEF Next, ClientStep

\* A call is lost on a pool that is closed, a database that is away or a context
\* that has ended.
LEMMA LostStep ==
  TypeOK /\ OutageSeen /\ HeldOpen /\ LostToOthers /\ [Next]_vars => LostToOthers'
<1> SUFFICES ASSUME TypeOK, OutageSeen, HeldOpen, LostToOthers, [Next]_vars
             PROVE  LostToOthers'
  OBVIOUS
<1> USE DEF TypeOK, CallType, StoreType, OutageSeen, HeldOpen, LostToOthers, Calls, NoPool, NoCall, Dummy
<1>1. ASSUME NEW c \in Clients, ClientStep(c) PROVE LostToOthers'
  <2>1. CASE CallStatement(c)
    BY <2>1 DEF CallStatement, Enter, Goto, poolVars, callVars, txVars, storeVars, envVars
  <2>2. CASE CallBegin(c)
    BY <2>2 DEF CallBegin, Enter, Goto, poolVars, callVars, txVars, storeVars, envVars
  <2>3. CASE MigrateStart(c)
    BY <2>3 DEF MigrateStart, Enter, Goto, poolVars, callVars, txVars, storeVars, envVars
  <2>4. CASE TxExecuteUpsert(c)
    BY <2>4 DEF TxExecuteUpsert, poolVars, callVars, txVars, storeVars, envVars
  <2>5. CASE Commit(c)
    BY <2>5 DEF Commit, EndTx, Return, Goto, Store, poolVars, callVars, txVars, storeVars,
       envVars
  <2>6. CASE Rollback(c)
    BY <2>6 DEF Rollback, EndTx, poolVars, callVars, txVars, storeVars, envVars
  <2>7. CASE ContextDone(c)
    BY <2>7 DEF ContextDone, Kill, poolVars, callVars, txVars, storeVars, envVars
  <2>8. CASE ResolveProvider(c)
    BY <2>8 DEF ResolveProvider, Goto, GotoWith, poolVars, callVars, txVars, storeVars,
       envVars
  <2>9. CASE GetConnection(c)
    BY <2>9 DEF GetConnection, Goto, GotoWith, poolVars, callVars, txVars, storeVars,
       envVars
  <2>10. CASE LockConnection(c)
    BY <2>10 DEF LockConnection, Goto, GotoWith, poolVars, callVars, txVars, storeVars,
       envVars
  <2>11. CASE CreateAndStoreConnection(c)
    BY <2>11 DEF CreateAndStoreConnection, NewGormDBAdapter, HandOut, Opened, Goto, GotoWith,
       poolVars, callVars, txVars, storeVars, envVars
  <2>12. CASE Ping(c)
    BY <2>12 DEF Ping, HandOut, Goto, poolVars, callVars, txVars, storeVars, envVars
  <2>13. CASE ForceReconnect(c)
    BY <2>13 DEF ForceReconnect, Close, Goto, poolVars, callVars, txVars, storeVars, envVars
  <2>14. CASE ExecuteQuery(c)
    BY <2>14 DEF ExecuteQuery, AtUse, Usable, Return, Goto, poolVars, callVars, txVars, storeVars,
       envVars
  <2>15. CASE ExportQuery(c)
    BY <2>15 DEF ExportQuery, AtUse, Usable, Return, Goto, Close, poolVars, callVars, txVars,
       storeVars, envVars
  <2>16. CASE ExecuteUpdate(c)
    BY <2>16 DEF ExecuteUpdate, AtUse, Usable, Return, Goto, Store, poolVars, callVars, txVars,
       storeVars, envVars
  <2>17. CASE ExecuteUpsert(c)
    BY <2>17 DEF ExecuteUpsert, AtUse, Usable, Return, Goto, Store, poolVars, callVars, txVars,
       storeVars, envVars
  <2>18. CASE Begin(c)
    BY <2>18 DEF Begin, AtUse, Usable, Return, Goto, poolVars, callVars, txVars, storeVars, envVars
  <2>19. CASE ReturnError(c)
    BY <2>19 DEF ReturnError, Return, Goto, poolVars, callVars, txVars, storeVars, envVars
  <2>20. CASE MigrateUp(c)
    BY <2>20 DEF MigrateUp, RunMigration, Return, Goto, Close, poolVars, callVars, txVars,
       storeVars, envVars
  <2>21. CASE MigrateDone(c)
    BY <2>21 DEF MigrateDone, Return, Goto, poolVars, callVars, txVars, storeVars, envVars
  <2> QED
    BY <1>1, <2>1, <2>2, <2>3, <2>4, <2>5, <2>6, <2>7, <2>8, <2>9, <2>10, <2>11, <2>12,
       <2>13, <2>14, <2>15, <2>16, <2>17, <2>18, <2>19, <2>20, <2>21 DEF ClientStep, Step
<1>2. CASE CloseAll
  BY <1>2 DEF CloseAll, poolVars, callVars, txVars, storeVars, envVars
<1>3. CASE Outage
  BY <1>3 DEF Outage, Kill, poolVars, callVars, txVars, storeVars, envVars
<1>4. CASE Recover
  BY <1>4 DEF Recover, poolVars, callVars, txVars, storeVars, envVars
<1>5. CASE UNCHANGED vars
  BY <1>5 DEF vars, poolVars, callVars, txVars, storeVars, envVars
<1> QED
  BY <1>1, <1>2, <1>3, <1>4, <1>5 DEF Next, ClientStep

\* What a call loses after its resolve, it loses to others: the pools are closed
\* under their users by ForceReconnect, exports, migrations and CloseAll.
THEOREM LossesExplained == Spec => []LostToOthers
<1>1. Init => OutageSeen /\ HeldOpen /\ LostToOthers
  BY DEF Init, OutageSeen, HeldOpen, LostToOthers, NoCall
<1> QED
  BY <1>1, OutageStep, HeldStep, LostStep, ConnectionTypes, PTL DEF Spec

==============================================================================
