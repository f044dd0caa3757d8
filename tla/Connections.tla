----------------------------- MODULE Connections -----------------------------
(***************************************************************************)
(* Database connections by name: BaseProvider keeps one pool per name      *)
(* behind a mutex, GormDBConnectionResolver hands it out after a health    *)
(* check and replaces it when the check fails, GormTransactionManager      *)
(* resolves again at every Begin, and MigrationTasklet replaces the pool   *)
(* before and after it migrates.  Clients are the goroutines of steps and  *)
(* repository calls.                                                       *)
(*                                                                         *)
(* A pool is a number; pools are never opened twice.  What database/sql    *)
(* does with a closed pool: new statements fail, a transaction that has    *)
(* begun goes on; a transaction whose context ends is rolled back.         *)
(***************************************************************************)
EXTENDS Integers, FiniteSets

CONSTANTS Clients, Tasklets,   \* goroutines; those of migration and export tasklets
          Names,               \* connection names the program asks for
          DbType,              \* adapter.database.<name>.type
          Providers,           \* types with a registered DBProvider
          Password,            \* "plain", "secret" or "unresolvable"
          MaxCalls,            \* bound: calls of all clients
          MaxOutages,          \* bound: outages of the database
          MaxCancels           \* bound: contexts that end

ASSUME ConnectionsAssumption ==
  /\ Tasklets \subseteq Clients /\ "free" \notin Clients
  /\ DbType \in [Names -> STRING] /\ Password \in [Names -> STRING]
  /\ MaxCalls \in Nat /\ MaxOutages \in Nat /\ MaxCancels \in Nat

VARIABLES
  mu,            \* holder of BaseProvider.mu, or Free
  connections,   \* BaseProvider.connections, NoPool when absent
  opened,        \* pools opened so far
  closed,        \* pools closed so far
  pc, name,      \* per client: where its call is, the connection it asks for
  call,          \* per client: what the call in progress knows
  inTx,          \* per client: the pool its transaction was begun on
  pending,       \* per client: its transaction has written the client's row
  ctxDone,       \* per client: its context has ended
  calls,
  dbUp, outages,
  rows,          \* per name, the rows committed; every client writes its own
  overtaken      \* history: clients whose pool another has closed since they got it

poolVars == <<mu, connections, opened, closed>>
callVars == <<pc, call>>
txVars == <<inTx, pending>>
storeVars == <<rows, overtaken>>
envVars == <<ctxDone, dbUp, outages>>
vars == <<poolVars, callVars, name, txVars, storeVars, envVars, calls>>

Free == "free"
NoPool == 0
Dummy == -1      \* dummyDBConnection: no pool behind it, nothing ever fails
Dead == -2       \* a transaction database/sql has rolled back by itself
IsOpen(p) == p \in 1 .. opened /\ p \notin closed

\* down is history: an outage during the call.
NoCall == [want |-> "statement", conn |-> NoPool, down |-> FALSE]

\* The DBProvider for a name; Redshift is served by the PostgreSQL provider.
ProviderOf(n) ==
  IF DbType[n] \in Providers THEN DbType[n]
  ELSE IF DbType[n] = "redshift" /\ "postgres" \in Providers THEN "postgres"
  ELSE "none"

\* The password, an env:// or file:// URI resolved by CompositeSecretResolver,
\* and gorm.Open, which pings.
ResolvePassword(n) == Password[n] # "unresolvable"
Connect(n) == ResolvePassword(n) /\ dbUp

\* NewBaseProvider: an empty map, and clients that have asked for nothing yet.
Init ==
  /\ mu = Free /\ connections = [n \in Names |-> NoPool]
  /\ opened = 0 /\ closed = {}
  /\ pc = [c \in Clients |-> "idle"] /\ name \in [Clients -> Names]
  /\ call = [c \in Clients |-> NoCall]
  /\ inTx = [c \in Clients |-> NoPool] /\ pending = [c \in Clients |-> FALSE]
  /\ ctxDone = [c \in Clients |-> FALSE] /\ calls = 0
  /\ dbUp = TRUE /\ outages = 0
  /\ rows = [n \in Names |-> {}] /\ overtaken = {}

Goto(c, l) == pc' = [pc EXCEPT ![c] = l]
GotoWith(c, l, p) == Goto(c, l) /\ call' = [call EXCEPT ![c] = [@ EXCEPT !.conn = p]]
\* The call ends: well, or with an error for its caller.
Return(c, ok) ==
  IF ok THEN Goto(c, "idle") /\ call' = [call EXCEPT ![c] = NoCall]
  ELSE Goto(c, "lost") /\ UNCHANGED call

\* Client c gets a pool that is open; GormDBAdapter.Close of pool p by client c.
HandOut(c) == overtaken' = overtaken \ {c}
Close(c, p) ==
  /\ closed' = closed \cup ({p} \ {NoPool})
  /\ overtaken' = overtaken \cup {d \in Clients \ {c} : p # NoPool /\ call[d].conn = p}

-----------------------------------------------------------------------------
Enter(c, w, l) ==
  /\ pc[c] = "idle" /\ calls < MaxCalls
  /\ calls' = calls + 1 /\ Goto(c, l)
  /\ call' = [call EXCEPT ![c] = [want |-> w, conn |-> NoPool, down |-> ~dbUp]]
  /\ UNCHANGED <<poolVars, name, txVars, storeVars, envVars>>

\* SQLJobRepository.getTxExecutor: without a transaction in the context the
\* connection is resolved.
CallStatement(c) == inTx[c] = NoPool /\ Enter(c, "statement", "resolve")
\* GormTransactionManager.Begin resolves its connection by name.
CallBegin(c) == inTx[c] = NoPool /\ Enter(c, "begin", "resolve")

\* ResolveDBConnection: configuration and provider; a dummy is returned as is.
ResolveProvider(c) ==
  /\ pc[c] = "resolve"
  /\ \/ ProviderOf(name[c]) = "none" /\ Goto(c, "failed") /\ UNCHANGED call
     \/ ProviderOf(name[c]) = "dummy" /\ GotoWith(c, "use", Dummy)
     \/ ProviderOf(name[c]) \notin {"none", "dummy"} /\ Goto(c, "get") /\ UNCHANGED call
  /\ UNCHANGED <<poolVars, name, txVars, storeVars, envVars, calls>>

MutGetConnection(c) ==
  LET p == connections[name[c]] IN
  /\ pc[c] = "get" /\ mu = Free
  /\ GotoWith(c, IF p = NoPool THEN "create" ELSE IF IsOpen(p) THEN "ping" ELSE "failed", p)
  /\ UNCHANGED <<poolVars, name, txVars, storeVars, envVars, calls>>

\* GetConnection under the read lock.
GetConnection(c) ==
  LET p == connections[name[c]] IN
  /\ pc[c] = "get" /\ mu = Free
  /\ GotoWith(c, IF p = NoPool THEN "create" ELSE "ping", p)
  /\ UNCHANGED <<poolVars, name, txVars, storeVars, envVars, calls>>

MutLockConnection(c) ==
  /\ pc[c] = "create" /\ mu = Free
  /\ mu' = c /\ Goto(c, "open") /\ UNCHANGED call
  /\ UNCHANGED <<connections, opened, closed, name, txVars, storeVars, envVars, calls>>

\* The write lock and the second look into the map.
LockConnection(c) ==
  LET p == connections[name[c]] IN
  /\ pc[c] = "create" /\ mu = Free
  /\ \/ p = NoPool /\ mu' = c /\ Goto(c, "open") /\ UNCHANGED call
     \/ p # NoPool /\ UNCHANGED mu /\ GotoWith(c, "ping", p)
  /\ UNCHANGED <<connections, opened, closed, name, txVars, storeVars, envVars, calls>>

\* Where a call goes with its new connection.
Opened(c) ==
  IF pc[c] = "open" THEN "ping"
  ELSE IF call[c].want = "migrate" THEN "up"
  ELSE IF call[c].want = "migrated" THEN "completed" ELSE "use"

\* NewGormDBAdapter around a pool that has just been opened, stored by name.
NewGormDBAdapter(c) ==
  /\ opened' = opened + 1
  /\ connections' = [connections EXCEPT ![name[c]] = opened + 1]
  /\ GotoWith(c, Opened(c), opened + 1) /\ HandOut(c)

MutCreateAndStoreConnection(c) ==
  /\ pc[c] \in {"open", "reopen"} /\ mu = c
  /\ \/ Connect(name[c]) /\ mu' = Free /\ NewGormDBAdapter(c)
     \/ ~Connect(name[c]) /\ Goto(c, "failed") /\ UNCHANGED <<mu, opened, connections, call, overtaken>>
  /\ UNCHANGED <<closed, name, txVars, rows, envVars, calls>>

\* createAndStoreConnection, with the lock held; the deferred unlock.
CreateAndStoreConnection(c) ==
  /\ pc[c] \in {"open", "reopen"} /\ mu = c
  /\ mu' = Free
  /\ \/ Connect(name[c]) /\ NewGormDBAdapter(c)
     \/ ~Connect(name[c]) /\ Goto(c, "failed") /\ UNCHANGED <<opened, connections, call, overtaken>>
  /\ UNCHANGED <<closed, name, txVars, rows, envVars, calls>>

MutPing(c) ==
  /\ pc[c] = "ping"
  /\ LET healthy == dbUp /\ ~ctxDone[c]
     IN  /\ Goto(c, IF healthy THEN "use" ELSE "reconnect")
         /\ IF healthy THEN HandOut(c) ELSE UNCHANGED overtaken
  /\ UNCHANGED <<poolVars, call, name, txVars, rows, envVars, calls>>

\* The health check runs in the caller's context: a caller whose context has
\* ended finds a healthy pool invalid.
Ping(c) ==
  /\ pc[c] = "ping"
  /\ LET healthy == IsOpen(call[c].conn) /\ dbUp /\ ~ctxDone[c]
     IN  /\ Goto(c, IF healthy THEN "use" ELSE "reconnect")
         /\ IF healthy THEN HandOut(c) ELSE UNCHANGED overtaken
  /\ UNCHANGED <<poolVars, call, name, txVars, rows, envVars, calls>>

\* ForceReconnect takes the lock and closes whatever is in the map, which may
\* be newer than what the caller found invalid.
ForceReconnect(c) ==
  /\ pc[c] = "reconnect" /\ mu = Free
  /\ mu' = c /\ Close(c, connections[name[c]]) /\ Goto(c, "reopen")
  /\ UNCHANGED <<connections, opened, call, name, txVars, rows, envVars, calls>>

-----------------------------------------------------------------------------
Usable(c) ==
  \/ call[c].conn = Dummy
  \/ IsOpen(call[c].conn) /\ dbUp /\ ~ctxDone[c]
AtUse(c, w) == pc[c] = "use" /\ call[c].want = w
Store(c) == rows' = [rows EXCEPT ![name[c]] = @ \cup {c}] /\ UNCHANGED overtaken

\* ExecuteQuery, ExecuteQueryAdvanced, Count and Pluck on the connection resolved.
ExecuteQuery(c) ==
  /\ AtUse(c, "statement") /\ Return(c, Usable(c))
  /\ UNCHANGED <<poolVars, name, txVars, storeVars, envVars, calls>>

\* GenericParquetExportTasklet.Execute reads through the shared pool and closes
\* it when it returns; it has no use for a dummy.
ExportQuery(c) ==
  /\ c \in Tasklets /\ AtUse(c, "statement")
  /\ Return(c, Usable(c) /\ call[c].conn # Dummy)
  /\ Close(c, IF call[c].conn = Dummy THEN NoPool ELSE call[c].conn)
  /\ UNCHANGED <<mu, connections, opened, name, txVars, rows, envVars, calls>>

\* A write outside a transaction.  The database rejects the CREATE of a row that
\* is there; a dummy reports success and stores nothing.
ExecuteUpdate(c) ==
  /\ AtUse(c, "statement")
  /\ \/ ~Usable(c) /\ Return(c, FALSE) /\ UNCHANGED storeVars
     \/ call[c].conn = Dummy /\ Return(c, TRUE) /\ UNCHANGED storeVars
     \/ /\ Usable(c) /\ call[c].conn # Dummy
        /\ \/ c \notin rows[name[c]] /\ Store(c) /\ Return(c, TRUE)
           \/ c \in rows[name[c]] /\ Goto(c, "rejected") /\ UNCHANGED <<call, storeVars>>
  /\ UNCHANGED <<poolVars, name, txVars, envVars, calls>>

\* ON CONFLICT DO NOTHING: the row is there afterwards, whoever wrote it.
ExecuteUpsert(c) ==
  /\ AtUse(c, "statement") /\ Return(c, Usable(c))
  /\ IF Usable(c) /\ call[c].conn # Dummy THEN Store(c) ELSE UNCHANGED storeVars
  /\ UNCHANGED <<poolVars, name, txVars, envVars, calls>>

\* Begin on the connection resolved; a dummy is not a *GormDBAdapter.
Begin(c) ==
  /\ AtUse(c, "begin")
  /\ LET ok == Usable(c) /\ call[c].conn # Dummy
     IN  /\ inTx' = [inTx EXCEPT ![c] = IF ok THEN call[c].conn ELSE NoPool]
         /\ Return(c, ok)
  /\ UNCHANGED <<poolVars, name, pending, storeVars, envVars, calls>>

\* A statement inside the transaction, on the connection it holds: its pool may
\* have been closed meanwhile.
TxExecuteUpsert(c) ==
  /\ pc[c] = "idle" /\ inTx[c] > NoPool /\ ~pending[c]
  /\ pending' = [pending EXCEPT ![c] = TRUE]
  /\ UNCHANGED <<poolVars, callVars, name, inTx, storeVars, envVars, calls>>

EndTx(c) ==
  /\ pc[c] = "idle" /\ inTx[c] # NoPool
  /\ inTx' = [inTx EXCEPT ![c] = NoPool] /\ pending' = [pending EXCEPT ![c] = FALSE]

\* Commit fails on a transaction that database/sql has rolled back.
Commit(c) ==
  /\ EndTx(c) /\ Return(c, inTx[c] # Dead)
  /\ IF pending[c] THEN Store(c) ELSE UNCHANGED storeVars
  /\ UNCHANGED <<poolVars, name, envVars, calls>>
Rollback(c) ==
  /\ EndTx(c)
  /\ UNCHANGED <<poolVars, callVars, name, storeVars, envVars, calls>>

\* The error goes to the caller.
ReturnError(c) ==
  /\ pc[c] \in {"failed", "lost", "rejected"} /\ Return(c, TRUE)
  /\ UNCHANGED <<poolVars, name, txVars, storeVars, envVars, calls>>

-----------------------------------------------------------------------------
\* MigrationTasklet.Execute: a dummy is skipped, otherwise reconnect first.
MigrateStart(c) ==
  /\ c \in Tasklets
  /\ \/ DbType[name[c]] = "dummy" /\ Enter(c, "migrate", "completed")
     \/ ProviderOf(name[c]) = "none" /\ Enter(c, "migrate", "failed")
     \/ /\ DbType[name[c]] # "dummy" /\ ProviderOf(name[c]) # "none"
        /\ Enter(c, "migrate", "reconnect")

\* runMigration: without a driver on the pool nothing is touched; otherwise
\* closing the migrate instance closes the pool, whether the migrations succeed
\* or not.
RunMigration(c) ==
  LET driver == IsOpen(call[c].conn) /\ dbUp IN
  \/ /\ driver /\ Close(c, call[c].conn) /\ Goto(c, "reconnect")
     /\ call' = [call EXCEPT ![c] = [@ EXCEPT !.want = "migrated"]]
  \/ driver /\ Close(c, call[c].conn) /\ Goto(c, "rejected") /\ UNCHANGED call
  \/ ~driver /\ Return(c, FALSE) /\ UNCHANGED <<closed, overtaken>>

\* The file system, the directory or the command may be unknown.
MigrateUp(c) ==
  /\ pc[c] = "up"
  /\ \/ RunMigration(c)
     \/ Goto(c, "rejected") /\ UNCHANGED <<closed, call, overtaken>>
  /\ UNCHANGED <<mu, connections, opened, name, txVars, rows, envVars, calls>>

\* Completed, after the second reconnect.
MigrateDone(c) ==
  /\ pc[c] = "completed" /\ Return(c, TRUE)
  /\ UNCHANGED <<poolVars, name, txVars, storeVars, envVars, calls>>

\* CloseAll, from the OnStop hook.
CloseAll ==
  LET held == {n \in Names : connections[n] # NoPool} IN
  /\ mu = Free /\ held # {}
  /\ closed' = closed \cup {connections[n] : n \in held}
  /\ overtaken' = overtaken \cup {c \in Clients : \E n \in held : call[c].conn = connections[n]}
  /\ connections' = [n \in Names |-> NoPool]
  /\ UNCHANGED <<mu, opened, callVars, name, txVars, rows, envVars, calls>>

-----------------------------------------------------------------------------
\* The environment: contexts end, with database/sql rolling back; the database
\* goes down and comes back.
Kill(S) ==
  /\ inTx' = [c \in Clients |-> IF c \in S /\ inTx[c] # NoPool THEN Dead ELSE inTx[c]]
  /\ pending' = [c \in Clients |-> c \notin S /\ pending[c]]
ContextDone(c) ==
  /\ ~ctxDone[c] /\ Cardinality({d \in Clients : ctxDone[d]}) < MaxCancels
  /\ ctxDone' = [ctxDone EXCEPT ![c] = TRUE] /\ Kill({c})
  /\ UNCHANGED <<poolVars, callVars, name, storeVars, dbUp, outages, calls>>
Outage ==
  /\ dbUp /\ outages < MaxOutages
  /\ dbUp' = FALSE /\ outages' = outages + 1 /\ Kill(Clients)
  /\ call' = [c \in Clients |-> [call[c] EXCEPT !.down = pc[c] # "idle"]]
  /\ UNCHANGED <<poolVars, pc, name, storeVars, ctxDone, calls>>
Recover ==
  /\ ~dbUp /\ dbUp' = TRUE
  /\ UNCHANGED <<poolVars, callVars, name, txVars, storeVars, ctxDone, outages, calls>>

\* The steps of a call that has begun.
Step(c) ==
  \/ ResolveProvider(c) \/ GetConnection(c) \/ LockConnection(c)
  \/ CreateAndStoreConnection(c) \/ Ping(c) \/ ForceReconnect(c)
  \/ ExecuteQuery(c) \/ ExportQuery(c) \/ ExecuteUpdate(c) \/ ExecuteUpsert(c)
  \/ Begin(c) \/ ReturnError(c) \/ MigrateUp(c) \/ MigrateDone(c)

Next ==
  \/ \E c \in Clients : \/ CallStatement(c) \/ CallBegin(c) \/ MigrateStart(c)
                        \/ TxExecuteUpsert(c) \/ Commit(c) \/ Rollback(c)
                        \/ Step(c) \/ ContextDone(c)
  \/ CloseAll \/ Outage \/ Recover

Spec == Init /\ [][Next]_vars

\* sync.RWMutex lets no waiter wait forever.
FairSpec == Spec /\ \A c \in Clients : SF_vars(Step(c))

-----------------------------------------------------------------------------
\* provider.go 76-169: the double check under the lock and the close before
\* every reconnect leave no pool behind: whatever is open is the pool of its
\* name, so that CloseAll reaches it, and no name has two.
NoPoolLeaks ==
  /\ \A p \in 1 .. opened : IsOpen(p) => \E n \in Names : connections[n] = p
  /\ \A n, m \in Names :
       connections[n] = connections[m] /\ connections[n] # NoPool => n = m

\* resolver.go 75-115, tasklet.go 238-306: a resolve, or a reconnect before or
\* after a migration, gives up only for a reason outside the pools: no provider,
\* no password, or the database away during the call.  A closed pool, a
\* cancelled context or a reconnect that failed earlier is mended.
ResolveHeals ==
  \A c \in Clients :
    pc[c] = "failed" => \/ ProviderOf(name[c]) = "none"
                        \/ ~ResolvePassword(name[c])
                        \/ call[c].down

\* provider.go 122-169, tasklet.go 274, transaction.go 138-181: nothing counts
\* the users of a pool, so what comes after the resolve - a statement, a Begin, a
\* migration - may lose it.  It loses it only to an outage during the call, to
\* the end of its own context, or to somebody else who closed the pool after it
\* was handed out: a reconnect, an export, a migration or CloseAll.
LostToOthers ==
  \A c \in Clients :
    pc[c] = "lost" /\ call[c].conn > NoPool
      => call[c].down \/ ctxDone[c] \/ c \in overtaken

\* provider.go 76-169: a call ends, however many others reconnect at the same
\* time and whatever fails: the mutex is always given back.
CallsEnd == \A c \in Clients : pc[c] # "idle" ~> pc[c] = "idle"
=============================================================================
