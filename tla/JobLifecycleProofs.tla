------------------------- MODULE JobLifecycleProofs -------------------------
(***************************************************************************)
(* The optimistic lock of SQLJobRepository, proved for any number of       *)
(* callers, executions, failures and crashes; and, from the section on     *)
(* paths on, what one process does until its job runs (module JobStart),   *)
(* proved for any definitions, sources, parameters and contexts.           *)
(***************************************************************************)
EXTENDS JobLifecycle, JobStart, FiniteSetTheorems, SequenceTheorems, WellFoundedInduction, TLAPS

\* The repository is SQLJobRepository.
SQL == ~InMemoryRepo

Updating == {"abandonPrevious", "stopUpdate", "abandonUpdate"}

\* Executions not yet saved have no row, no runner and an untouched object.
Unsaved ==
  /\ \A e \in Execs : row[e].status = NoRow => runner[e] = "none" /\ row[e].version = 0
  /\ \A e \in Execs : runner[e] = "none" => obj[e].version = 0
  /\ \A e \in Execs : e > created => row[e].status = NoRow /\ obj[e] = Fresh
Saving ==
  /\ \A c \in Callers : pc[c] = "save"
       => /\ row[target[c]].status = NoRow /\ target[c] <= created
          /\ obj[target[c]].status \in {"STARTING", "RESTARTING"}
  /\ \A c, d \in Callers : c # d /\ pc[c] = "save" /\ pc[d] = "save"
                             => target[c] # target[d]

\* The runner's object is never ahead of the row, and behind what others wrote.
NotAhead ==
  \A e \in Execs : ~phantom[e] => obj[e].version <= row[e].version
Behind ==
  \A e \in Execs : ~phantom[e] /\ row[e].status \in {"STOPPING", "ABANDONED"}
                     => obj[e].version < row[e].version
\* What a runner may write; COMPLETED is written by the last update of a run.
RunnerStatus ==
  /\ \A e \in Execs : runner[e] = "running" => obj[e].status \in {"STARTED", "FAILED", "STOPPED"}
  /\ \A e \in Execs : runner[e] = "ending" => obj[e].status \in {"COMPLETED", "FAILED", "STOPPED"}
  /\ \A e \in Execs : row[e].status = "COMPLETED" => runner[e] = "ended"

\* A copy still current was made of a row in the status its holder tested.
CopyCurrent(c) ==
  LET r == row[target[c]] IN
    /\ pc[c] \in Updating => copy[c].version <= r.version /\ r.status # NoRow
    /\ pc[c] = "stopUpdate" =>
         /\ copy[c].status = "STOPPING"
         /\ copy[c].version = r.version => ~IsFinished(r.status)
    /\ pc[c] = "abandonUpdate" =>
         /\ copy[c].status = "ABANDONED"
         /\ copy[c].version = r.version => r.status = "STARTING"
    /\ pc[c] = "abandonPrevious" =>
         /\ copy[c].status = "ABANDONED"
         /\ copy[c].version = r.version => r.status \in {"FAILED", "STOPPED"}
CopiesCurrent == \A c \in Callers : CopyCurrent(c)

\* SQL hands out rows, never the runner's object.
NotLive == \A e \in Execs : ~live[e]

\* What makes the lock work.
LockInv ==
  /\ NotLive /\ Unsaved /\ Saving /\ NotAhead /\ Behind
  /\ RunnerStatus /\ CopiesCurrent

-----------------------------------------------------------------------------
\* In the initial state every variable has its type.
LEMMA TypeInit == Init => TypeOK
<1> SUFFICES ASSUME Init PROVE TypeOK
  OBVIOUS
<1>1. CallerType
  BY LifecycleAssumption
  DEF Init, CallerType, Object, Fresh, Statuses, Instances
<1>2. ExecType
  BY LifecycleAssumption
  DEF Init, ExecType, Object, Fresh, Statuses, Instances, NoRow
<1>3. /\ live \in [Execs -> BOOLEAN] /\ cancelled \in [Execs -> BOOLEAN]
      /\ registered \in [Execs -> BOOLEAN] /\ phantom \in [Execs -> BOOLEAN]
  BY DEF Init
<1>4. /\ runner \in [Execs -> {"none", "ended", "dead"} \cup Running]
      /\ faults \in 0 .. MaxFaults
  BY LifecycleAssumption DEF Init, Running
<1> QED
  BY <1>1, <1>2, <1>3, <1>4 DEF TypeOK, RunType

\* An update by a runner keeps the types of what it writes.
LEMMA RunnerUpdateType ==
  ASSUME TypeOK, NEW e \in Execs, NEW s \in Statuses, NEW ctx \in BOOLEAN,
         RunnerUpdate(e, s, ctx)
  PROVE  /\ obj' \in [Execs -> Object]
         /\ row' \in [Execs -> [status : Statuses \cup {NoRow}, version : Nat]]
         /\ live' \in [Execs -> BOOLEAN] /\ phantom' \in [Execs -> BOOLEAN]
         /\ faults' \in 0 .. MaxFaults
<1>1. obj' \in [Execs -> Object]
  BY DEF RunnerUpdate, TypeOK, ExecType, Object
<1>2. row' \in [Execs -> [status : Statuses \cup {NoRow}, version : Nat]]
  BY DEF RunnerUpdate, TypeOK, ExecType, Object
<1>3. live' \in [Execs -> BOOLEAN] /\ phantom' \in [Execs -> BOOLEAN]
  BY DEF RunnerUpdate, TypeOK, RunType
<1>4. faults' \in 0 .. MaxFaults
  BY LifecycleAssumption DEF RunnerUpdate, TypeOK, RunType, Fault, NoFault
<1> QED
  BY <1>1, <1>2, <1>3, <1>4

\* An update of a copy, refused or not, keeps the types of what it writes.
LEMMA CopyUpdateType ==
  ASSUME TypeOK, NEW c \in Callers, NEW e \in Execs,
         (CopyUpdate(c, e) /\ NoFault) \/ CopyRefused(c, e)
  PROVE  /\ row' \in [Execs -> [status : Statuses \cup {NoRow}, version : Nat]]
         /\ live' \in [Execs -> BOOLEAN]
         /\ faults' \in 0 .. MaxFaults
<1>1. row' \in [Execs -> [status : Statuses \cup {NoRow}, version : Nat]]
  BY DEF CopyUpdate, CopyRefused, TypeOK, ExecType, CallerType, Object
<1>2. live' \in [Execs -> BOOLEAN]
  BY DEF CopyUpdate, CopyRefused, TypeOK, RunType
<1>3. faults' \in 0 .. MaxFaults
  BY LifecycleAssumption DEF CopyUpdate, CopyRefused, TypeOK, RunType, Fault, NoFault
<1> QED
  BY <1>1, <1>2, <1>3

\* A caller that returned has the type of an idle one.
LEMMA ReturnType ==
  ASSUME TypeOK, NEW c \in Callers, Return(c)
  PROVE  CallerType'
<1>1. Fresh \in Object /\ 1 \in Instances
  BY LifecycleAssumption DEF Object, Fresh, Statuses, Instances
<1> QED
  BY <1>1, LifecycleAssumption DEF TypeOK, CallerType, Return, Goto

\* Every step keeps the types.
LEMMA TypeStep == TypeOK /\ [Next]_vars => TypeOK'
<1> SUFFICES ASSUME TypeOK, [Next]_vars PROVE TypeOK'
  OBVIOUS
<1>0. CASE UNCHANGED vars
  BY <1>0 DEF vars, lvars, rvars, cvars, TypeOK, CallerType, ExecType, RunType
<1>1. ASSUME NEW c \in Callers, LaunchFindInstance(c) PROVE TypeOK'
  <2> USE <1>1 DEF TypeOK
  <2>1. CallerType'
    BY LifecycleAssumption
    DEF LaunchFindInstance, CallerType, ExecType, Goto, Return, lvars, Instances, Object,
       Fresh, Statuses
  <2>2. ExecType'
    BY DEF LaunchFindInstance, ExecType, Goto, Return, lvars, rvars
  <2>3. RunType'
    BY DEF LaunchFindInstance, RunType, Goto, Return, lvars, rvars
  <2> QED
    BY <2>1, <2>2, <2>3
<1>2. ASSUME NEW c \in Callers, LaunchSaveInstance(c) PROVE TypeOK'
  <2> USE <1>2 DEF TypeOK
  <2>1. CallerType'
    <3>1. CASE Return(c)
      BY <3>1, ReturnType
    <3>2. CASE /\ instances < MaxInstances
               /\ found' = [found EXCEPT ![c] = instances + 1]
               /\ Goto(c, "create") /\ UNCHANGED <<target, copy>>
      BY <3>2, LifecycleAssumption DEF CallerType, ExecType, Goto, Instances
    <3> QED
      BY <3>1, <3>2 DEF LaunchSaveInstance
  <2>2. ExecType'
    BY LifecycleAssumption DEF LaunchSaveInstance, ExecType, rvars
  <2>3. RunType'
    <3>1. faults' \in 0 .. MaxFaults
      BY LifecycleAssumption DEF LaunchSaveInstance, RunType, Fault, NoFault
    <3> QED
      BY <3>1 DEF LaunchSaveInstance, RunType, rvars
  <2> QED
    BY <2>1, <2>2, <2>3
<1>3. ASSUME NEW c \in Callers, LaunchFindRestartable(c) PROVE TypeOK'
  <2> USE <1>3 DEF TypeOK
  <2>1. CallerType'
    <3>1. CASE \E e \in Execs :
                 /\ LatestRestartable(found[c], e)
                 /\ target' = [target EXCEPT ![c] = e]
                 /\ copy' = [copy EXCEPT ![c] = [Row(e) EXCEPT !.status = "ABANDONED"]]
                 /\ Goto(c, "abandonPrevious")
      <4> PICK e \in Execs :
                 /\ LatestRestartable(found[c], e)
                 /\ target' = [target EXCEPT ![c] = e]
                 /\ copy' = [copy EXCEPT ![c] = [Row(e) EXCEPT !.status = "ABANDONED"]]
                 /\ Goto(c, "abandonPrevious")
        BY <3>1
      <4>1. e \in 1 .. MaxExecs
        BY DEF Execs
      <4>2. [Row(e) EXCEPT !.status = "ABANDONED"] \in Object
        BY DEF Row, ExecType, Object, Statuses
      <4> QED
        BY <4>1, <4>2 DEF LaunchFindRestartable, CallerType, ExecType, Goto, lvars
    <3>2. CASE Goto(c, "create") /\ UNCHANGED <<target, copy>>
      BY <3>2 DEF LaunchFindRestartable, CallerType, Goto, lvars
    <3> QED
      BY <3>1, <3>2 DEF LaunchFindRestartable
  <2>2. ExecType'
    BY DEF LaunchFindRestartable, ExecType, Goto, Return, lvars, rvars
  <2>3. RunType'
    BY DEF LaunchFindRestartable, RunType, Goto, Return, lvars, rvars
  <2> QED
    BY <2>1, <2>2, <2>3
<1>4. ASSUME NEW c \in Callers, LaunchAbandonPrevious(c) PROVE TypeOK'
  <2> USE <1>4 DEF TypeOK
  <2> DEFINE e == target[c]
  <2>0. e \in Execs
    BY DEF LaunchAbandonPrevious, CallerType, ExecType, Execs
  <2>4. /\ row' \in [Execs -> [status : Statuses \cup {NoRow}, version : Nat]]
        /\ live' \in [Execs -> BOOLEAN] /\ faults' \in 0 .. MaxFaults
    BY <2>0, CopyUpdateType DEF LaunchAbandonPrevious
  <2> HIDE DEF e
  <2>1. CallerType'
    BY DEF LaunchAbandonPrevious, CallerType, Goto
  <2>2. ExecType'
    BY <2>4 DEF LaunchAbandonPrevious, ExecType, lvars, rvars
  <2>3. RunType'
    BY <2>4 DEF LaunchAbandonPrevious, RunType, rvars
  <2> QED
    BY <2>1, <2>2, <2>3
<1>5. ASSUME NEW c \in Callers, LaunchCreate(c) PROVE TypeOK'
  <2> USE <1>5 DEF TypeOK
  <2>0. /\ created' = created + 1 /\ created' \in Execs
        /\ created' \in 0 .. MaxExecs
    BY LifecycleAssumption DEF LaunchCreate, ExecType, Execs
  <2>1. CallerType'
    BY <2>0 DEF LaunchCreate, CallerType, ExecType, Goto
  <2>2. ExecType'
    <3>1. obj' \in [Execs -> Object]
      BY <2>0 DEF LaunchCreate, ExecType, Object, Statuses
    <3>2. /\ inst' \in [Execs -> Instances] /\ restartOf' \in [Execs -> 0 .. MaxExecs]
      BY <2>0 DEF LaunchCreate, ExecType, CallerType
    <3> QED
      BY <2>0, <3>1, <3>2 DEF LaunchCreate, ExecType
  <2>3. RunType'
    <3>1. registered' \in [Execs -> BOOLEAN]
      BY DEF LaunchCreate, RunType
    <3> QED
      BY <3>1 DEF LaunchCreate, RunType
  <2> QED
    BY <2>1, <2>2, <2>3
<1>6. ASSUME NEW c \in Callers, LaunchSave(c) PROVE TypeOK'
  <2> USE <1>6 DEF TypeOK
  <2>0. target[c] \in Execs
    BY DEF LaunchSave, CallerType, ExecType, Execs
  <2>1. CallerType'
    BY ReturnType DEF LaunchSave
  <2>2. ExecType'
    BY <2>0 DEF LaunchSave, ExecType, Object, lvars
  <2>3. RunType'
    <3>1. live' \in [Execs -> BOOLEAN] /\ registered' \in [Execs -> BOOLEAN]
      BY LifecycleAssumption DEF LaunchSave, RunType
    <3>2. faults' \in 0 .. MaxFaults
      BY LifecycleAssumption DEF LaunchSave, RunType, Fault, NoFault
    <3>3. runner' \in [Execs -> {"none", "ended", "dead"} \cup Running]
      BY DEF LaunchSave, RunType, Running
    <3> QED
      BY <3>1, <3>2, <3>3 DEF LaunchSave, RunType
  <2> QED
    BY <2>1, <2>2, <2>3
<1>7. ASSUME NEW c \in Callers, StopUpdate(c) PROVE TypeOK'
  <2> USE <1>7 DEF TypeOK
  <2> DEFINE e == target[c]
  <2>0. e \in Execs
    BY DEF StopUpdate, CallerType, ExecType, Execs
  <2>4. /\ row' \in [Execs -> [status : Statuses \cup {NoRow}, version : Nat]]
        /\ live' \in [Execs -> BOOLEAN] /\ faults' \in 0 .. MaxFaults
    BY <2>0, CopyUpdateType DEF StopUpdate
  <2> HIDE DEF e
  <2>1. CallerType'
    <3>1. CASE Return(c)
      BY <3>1, ReturnType
    <3>2. CASE Goto(c, "stopCancel") /\ UNCHANGED <<target, copy, found>>
      BY <3>2 DEF StopUpdate, CallerType, Goto
    <3> QED
      BY <3>1, <3>2 DEF StopUpdate
  <2>2. ExecType'
    BY <2>4 DEF StopUpdate, ExecType, lvars, rvars
  <2>3. RunType'
    BY <2>4 DEF StopUpdate, RunType, rvars
  <2> QED
    BY <2>1, <2>2, <2>3
<1>8. ASSUME NEW c \in Callers, StopCancel(c) PROVE TypeOK'
  <2> USE <1>8 DEF TypeOK
  <2>1. CallerType'
    BY ReturnType DEF StopCancel
  <2>2. ExecType'
    BY DEF StopCancel, ExecType, Goto, Return, lvars, rvars
  <2>3. RunType'
    <3>1. cancelled' \in [Execs -> BOOLEAN]
      BY DEF StopCancel, RunType, CallerType, ExecType
    <3> QED
      BY <3>1 DEF StopCancel, RunType
  <2> QED
    BY <2>1, <2>2, <2>3
<1>9. ASSUME NEW c \in Callers, AbandonUpdate(c) PROVE TypeOK'
  <2> USE <1>9 DEF TypeOK
  <2> DEFINE e == target[c]
  <2>0. e \in Execs
    BY DEF AbandonUpdate, CallerType, ExecType, Execs
  <2>4. /\ row' \in [Execs -> [status : Statuses \cup {NoRow}, version : Nat]]
        /\ live' \in [Execs -> BOOLEAN] /\ faults' \in 0 .. MaxFaults
    BY <2>0, CopyUpdateType DEF AbandonUpdate
  <2> HIDE DEF e
  <2>1. CallerType'
    BY ReturnType DEF AbandonUpdate
  <2>2. ExecType'
    BY <2>4 DEF AbandonUpdate, ExecType, lvars
  <2>3. RunType'
    <3>1. registered' \in [Execs -> BOOLEAN]
      BY DEF AbandonUpdate, RunType
    <3> QED
      BY <2>4, <3>1 DEF AbandonUpdate, RunType
  <2> QED
    BY <2>1, <2>2, <2>3
<1>10. ASSUME NEW c \in Callers, NEW e \in Execs, StopLoad(c, e) PROVE TypeOK'
  <2> USE <1>10 DEF TypeOK
  <2>0. e \in 1 .. MaxExecs /\ Row(e) \in [status : Statuses \cup {NoRow}, version : Nat]
    BY DEF StopLoad, Row, ExecType, Object, Execs
  <2>1. CallerType'
    BY <2>0 DEF StopLoad, CallerType, Goto, lvars, Object, Statuses
  <2>2. ExecType'
    BY DEF StopLoad, ExecType, Goto, Return, lvars, rvars
  <2>3. RunType'
    BY DEF StopLoad, RunType, Goto, Return, lvars, rvars
  <2> QED
    BY <2>1, <2>2, <2>3
<1>11. ASSUME NEW c \in Callers, NEW e \in Execs, AbandonLoad(c, e) PROVE TypeOK'
  <2> USE <1>11 DEF TypeOK
  <2>0. e \in 1 .. MaxExecs /\ Row(e) \in [status : Statuses \cup {NoRow}, version : Nat]
    BY DEF AbandonLoad, Row, ExecType, Object, Execs
  <2>1. CallerType'
    BY <2>0 DEF AbandonLoad, CallerType, Goto, lvars, Object, Statuses
  <2>2. ExecType'
    BY DEF AbandonLoad, ExecType, Goto, Return, lvars, rvars
  <2>3. RunType'
    BY DEF AbandonLoad, RunType, Goto, Return, lvars, rvars
  <2> QED
    BY <2>1, <2>2, <2>3
<1>12. ASSUME NEW c \in Callers, NEW e \in Execs, RestartLoad(c, e) PROVE TypeOK'
  <2> USE <1>12 DEF TypeOK
  <2>1. CallerType'
    BY DEF RestartLoad, CallerType, Goto, lvars
  <2>2. ExecType'
    BY DEF RestartLoad, ExecType, Goto, Return, lvars, rvars
  <2>3. RunType'
    BY DEF RestartLoad, RunType, Goto, Return, lvars, rvars
  <2> QED
    BY <2>1, <2>2, <2>3
<1>13. ASSUME NEW e \in Execs, RunnerStart(e) PROVE TypeOK'
  <2> USE <1>13 DEF TypeOK
  <2>1. CallerType'
    BY DEF RunnerStart, CallerType, lvars, cvars
  <2>4. /\ obj' \in [Execs -> Object]
        /\ row' \in [Execs -> [status : Statuses \cup {NoRow}, version : Nat]]
        /\ live' \in [Execs -> BOOLEAN] /\ phantom' \in [Execs -> BOOLEAN]
        /\ faults' \in 0 .. MaxFaults
    <3>1. "STARTED" \in Statuses /\ cancelled[e] \in BOOLEAN
      BY DEF ExecType, RunType, Object, Statuses
    <3> QED
      BY <3>1, RunnerUpdateType DEF RunnerStart
  <2>2. ExecType'
    BY <2>4 DEF RunnerStart, ExecType, lvars
  <2>3. RunType'
    <3>1. runner' \in [Execs -> {"none", "ended", "dead"} \cup Running]
      BY DEF RunnerStart, RunType, Running
    <3> QED
      BY <2>4, <3>1 DEF RunnerStart, RunType
  <2> QED
    BY <2>1, <2>2, <2>3
<1>14. ASSUME NEW e \in Execs, RunnerFlowEnds(e) PROVE TypeOK'
  <2> USE <1>14 DEF TypeOK
  <2>1. CallerType'
    BY DEF RunnerFlowEnds, CallerType, lvars, cvars
  <2>2. ExecType'
    BY DEF RunnerFlowEnds, ExecType, Object, Statuses, lvars
  <2>3. RunType'
    BY DEF RunnerFlowEnds, RunType, Running
  <2> QED
    BY <2>1, <2>2, <2>3
<1>15. ASSUME NEW e \in Execs, RunnerEnds(e) PROVE TypeOK'
  <2> USE <1>15 DEF TypeOK
  <2>1. CallerType'
    BY DEF RunnerEnds, CallerType, lvars, cvars
  <2>4. /\ obj' \in [Execs -> Object]
        /\ row' \in [Execs -> [status : Statuses \cup {NoRow}, version : Nat]]
        /\ live' \in [Execs -> BOOLEAN] /\ phantom' \in [Execs -> BOOLEAN]
        /\ faults' \in 0 .. MaxFaults
    <3>1. obj[e].status \in Statuses /\ cancelled[e] \in BOOLEAN
      BY DEF ExecType, RunType, Object, Statuses
    <3> QED
      BY <3>1, RunnerUpdateType DEF RunnerEnds
  <2>2. ExecType'
    BY <2>4 DEF RunnerEnds, ExecType, lvars
  <2>3. RunType'
    <3>1. runner' \in [Execs -> {"none", "ended", "dead"} \cup Running]
      BY DEF RunnerEnds, RunType, Running
    <3> QED
      BY <2>4, <3>1 DEF RunnerEnds, RunType
  <2> QED
    BY <2>1, <2>2, <2>3
<1>16. ASSUME NEW e \in Execs, RunnerElementFails(e) PROVE TypeOK'
  <2> USE <1>16 DEF TypeOK
  <2>1. CallerType'
    BY DEF RunnerElementFails, CallerType, lvars, cvars
  <2>2. ExecType'
    BY DEF RunnerElementFails, ExecType, Object, Statuses, lvars
  <2>3. RunType'
    BY DEF RunnerElementFails, RunType
  <2> QED
    BY <2>1, <2>2, <2>3
<1>17. ASSUME NEW e \in Execs, RunnerPromotes(e) PROVE TypeOK'
  <2> USE <1>17 DEF TypeOK
  <2>1. CallerType'
    BY DEF RunnerPromotes, CallerType, lvars, cvars
  <2>4. /\ obj' \in [Execs -> Object]
        /\ row' \in [Execs -> [status : Statuses \cup {NoRow}, version : Nat]]
        /\ live' \in [Execs -> BOOLEAN] /\ phantom' \in [Execs -> BOOLEAN]
        /\ faults' \in 0 .. MaxFaults
    <3>1. obj[e].status \in Statuses /\ cancelled[e] \in BOOLEAN
      BY DEF ExecType, RunType, Object, Statuses
    <3> QED
      BY <3>1, RunnerUpdateType DEF RunnerPromotes
  <2>2. ExecType'
    BY <2>4 DEF RunnerPromotes, ExecType, lvars
  <2>3. RunType'
    <3>1. runner' \in [Execs -> {"none", "ended", "dead"} \cup Running]
      BY DEF RunnerPromotes, RunType, Running
    <3> QED
      BY <2>4, <3>1 DEF RunnerPromotes, RunType
  <2> QED
    BY <2>1, <2>2, <2>3
<1>18. ASSUME NEW e \in Execs, LaunchContextCancelled(e) PROVE TypeOK'
  <2> USE <1>18 DEF TypeOK
  <2>1. CallerType'
    BY DEF LaunchContextCancelled, CallerType, lvars, cvars
  <2>2. ExecType'
    BY DEF LaunchContextCancelled, ExecType, Goto, Return, lvars, rvars
  <2>3. RunType'
    <3>1. cancelled' \in [Execs -> BOOLEAN]
      BY DEF LaunchContextCancelled, RunType
    <3>2. faults' \in 0 .. MaxFaults
      BY LifecycleAssumption DEF LaunchContextCancelled, RunType, Fault
    <3> QED
      BY <3>1, <3>2 DEF LaunchContextCancelled, RunType
  <2> QED
    BY <2>1, <2>2, <2>3
<1>19. CASE Crash
  <2> USE <1>19 DEF TypeOK
  <2>1. CallerType'
    BY LifecycleAssumption
    DEF Crash, CallerType, ExecType, Object, Fresh, Statuses, Instances, lvars
  <2>2. ExecType'
    BY DEF Crash, ExecType, lvars
  <2>3. RunType'
    <3>1. registered' \in [Execs -> BOOLEAN]
      BY DEF Crash
    <3>2. faults' \in 0 .. MaxFaults
      BY LifecycleAssumption DEF Crash, RunType, Fault
    <3>3. runner' \in [Execs -> {"none", "ended", "dead"} \cup Running]
      BY DEF Crash, RunType, Running
    <3> QED
      BY <3>1, <3>2, <3>3 DEF Crash, RunType
  <2> QED
    BY <2>1, <2>2, <2>3
<1> QED
  BY <1>0, <1>1, <1>2, <1>3, <1>4, <1>5, <1>6, <1>7, <1>8, <1>9, <1>10, <1>11, <1>12,
     <1>13, <1>14, <1>15, <1>16, <1>17, <1>18, <1>19 DEF Next, CallerStep, RunnerStep

\* Every variable keeps its type and every caller works on an execution that
\* exists, for any number of callers, executions and failures.
THEOREM LifecycleTypes == Spec => []TypeOK
<1>1. Init => TypeOK
  BY TypeInit
<1>2. TypeOK /\ [Next]_vars => TypeOK'
  BY TypeStep
<1> QED
  BY <1>1, <1>2, PTL DEF Spec

-----------------------------------------------------------------------------
\* What an update by the runner of e does to the executions.
LEMMA RunnerUpdateEffect ==
  ASSUME SQL, TypeOK, NEW e \in Execs, NEW s \in Statuses, NEW ctx \in BOOLEAN,
         RunnerUpdate(e, s, ctx)
  PROVE  /\ live' = live
         /\ \A f \in Execs \ {e} : obj'[f] = obj[f] /\ row'[f] = row[f]
                                   /\ phantom'[f] = phantom[f]
         /\ obj'[e].status = s
         /\ \/ /\ row'[e] = [status |-> s, version |-> row[e].version + 1]
               /\ obj'[e].version = row[e].version + 1
               /\ obj[e].version = row[e].version /\ phantom'[e] = phantom[e]
            \/ /\ row'[e] = row[e]
               /\ phantom'[e] \/ (obj'[e].version = obj[e].version /\ phantom'[e] = phantom[e])
<1>1. CASE /\ row[e].version = obj[e].version
           /\ obj' = [obj EXCEPT ![e] = [status |-> s, version |-> @.version + 1]]
           /\ row' = [row EXCEPT ![e] = [status |-> s, version |-> @.version + 1]]
           /\ UNCHANGED <<live, phantom>>
  BY <1>1 DEF TypeOK, ExecType, Object
<1>2. CASE obj' = [obj EXCEPT ![e].status = s] /\ UNCHANGED <<row, live, phantom>>
  BY <1>2 DEF TypeOK, ExecType, Object
<1>3. CASE /\ obj' = [obj EXCEPT ![e] = [status |-> s, version |-> @.version + 1]]
           /\ phantom' = [phantom EXCEPT ![e] = TRUE]
           /\ UNCHANGED <<row, live>>
  <2>1. phantom'[e] /\ \A f \in Execs \ {e} : phantom'[f] = phantom[f]
    BY <1>3 DEF TypeOK, RunType
  <2> QED
    BY <1>3, <2>1 DEF TypeOK, ExecType, Object
<1> QED
  BY <1>1, <1>2, <1>3 DEF RunnerUpdate, SQL

\* What an update of a copy does to the rows.
LEMMA CopyUpdateEffect ==
  ASSUME SQL, TypeOK, NEW c \in Callers, NEW e \in Execs,
         (CopyUpdate(c, e) /\ NoFault) \/ CopyRefused(c, e)
  PROVE  /\ live' = live \/ live' = [live EXCEPT ![e] = FALSE]
         /\ \A f \in Execs \ {e} : row'[f] = row[f]
         /\ \/ row'[e] = row[e]
            \/ /\ row'[e].status = copy[c].status /\ row'[e].version = row[e].version + 1
               /\ copy[c].version = row[e].version
<1>1. CASE CopyUpdate(c, e)
  BY <1>1 DEF CopyUpdate, SQL, TypeOK, ExecType, CallerType, Object
<1>2. CASE CopyRefused(c, e)
  BY <1>2 DEF CopyRefused
<1> QED
  BY <1>1, <1>2

\* Callers that keep their copies keep them current when rows only get newer.
LEMMA CopiesKept ==
  ASSUME TypeOK, TypeOK', CopiesCurrent,
         \A d \in Callers : pc'[d] \in Updating
            => pc'[d] = pc[d] /\ target'[d] = target[d] /\ copy'[d] = copy[d],
         \A e \in Execs : \/ row'[e] = row[e]
                          \/ row[e].status = NoRow
                          \/ row'[e].version > row[e].version /\ row'[e].status # NoRow
  PROVE  CopiesCurrent'
<1> SUFFICES ASSUME NEW d \in Callers, pc'[d] \in Updating PROVE CopyCurrent(d)'
  BY DEF CopiesCurrent, CopyCurrent, Updating
<1>1. /\ pc'[d] = pc[d] /\ target'[d] = target[d] /\ copy'[d] = copy[d]
      /\ CopyCurrent(d) /\ target[d] \in Execs
  BY DEF CopiesCurrent, TypeOK, CallerType, Updating, Execs
<1>2. row[target[d]].status # NoRow
  BY <1>1 DEF CopyCurrent
<1>3. /\ copy[d].version \in Nat /\ row[target[d]].version \in Nat
      /\ row'[target[d]].version \in Nat
  BY <1>1 DEF TypeOK, CallerType, ExecType, Object
<1>4. CASE row'[target[d]] = row[target[d]]
  BY <1>1, <1>4 DEF CopyCurrent
<1>5. CASE /\ row'[target[d]].version > row[target[d]].version
           /\ row'[target[d]].status # NoRow
  BY <1>1, <1>3, <1>5 DEF CopyCurrent
<1> QED
  BY <1>1, <1>2, <1>4, <1>5

\* Steps that leave executions and rows alone and bring nobody to a save.
LEMMA LockFrame ==
  ASSUME LockInv, CopiesCurrent', UNCHANGED <<created, obj, row, live, runner, phantom>>,
         \A d \in Callers : pc'[d] = "save" => pc[d] = "save" /\ target'[d] = target[d]
  PROVE  LockInv'
<1>1. NotLive' /\ NotAhead' /\ Behind' /\ RunnerStatus' /\ Unsaved'
  BY DEF LockInv, NotLive, NotAhead, Behind, RunnerStatus, Unsaved
<1>2. Saving'
  BY DEF LockInv, Saving
<1> QED
  BY <1>1, <1>2 DEF LockInv

\* An update by a runner keeps the lock.
LEMMA LockRunnerUpdate ==
  ASSUME SQL, TypeOK, TypeOK', LockInv, NEW e \in Execs, NEW s \in Statuses,
         NEW ctx \in BOOLEAN, RunnerUpdate(e, s, ctx), runner[e] \in Running,
         UNCHANGED <<created, cvars>>,
         \A f \in Execs \ {e} : runner'[f] = runner[f],
         \/ runner'[e] = "running" /\ s \in {"STARTED", "FAILED", "STOPPED"}
         \/ runner'[e] = "ended" /\ s \in {"COMPLETED", "FAILED", "STOPPED"}
  PROVE  LockInv'
<1> DEFINE wrote ==
      /\ row'[e] = [status |-> s, version |-> row[e].version + 1]
      /\ obj'[e].version = row[e].version + 1
      /\ obj[e].version = row[e].version /\ phantom'[e] = phantom[e]
<1> DEFINE kept ==
      /\ row'[e] = row[e]
      /\ phantom'[e] \/ (obj'[e].version = obj[e].version /\ phantom'[e] = phantom[e])
<1>1. /\ live' = live /\ obj'[e].status = s
      /\ \A f \in Execs \ {e} : obj'[f] = obj[f] /\ row'[f] = row[f] /\ phantom'[f] = phantom[f]
      /\ wrote \/ kept
  BY RunnerUpdateEffect
<1>2. /\ runner[e] # "none" /\ row[e].status # NoRow /\ ~(e > created)
      /\ row[e].status # "COMPLETED"
  BY DEF LockInv, Unsaved, RunnerStatus, Running
<1>3. /\ row[e].version \in Nat /\ obj[e].version \in Nat
      /\ row'[e].version \in Nat /\ obj'[e].version \in Nat
  BY DEF TypeOK, ExecType, Object
<1>4. s # NoRow
  BY DEF Statuses, NoRow
<1>5. NotLive'
  BY <1>1 DEF LockInv, NotLive
<1>6. Unsaved'
  BY <1>1, <1>2, <1>4 DEF LockInv, Unsaved
<1>7. Saving'
  <2>1. ASSUME NEW c \in Callers, pc[c] = "save"
        PROVE  target[c] \in Execs \ {e}
    BY <1>2, <2>1 DEF TypeOK, CallerType, LockInv, Saving, Execs
  <2> QED
    BY <1>1, <2>1 DEF LockInv, Saving, cvars
<1>8. NotAhead'
  BY <1>1, <1>3 DEF LockInv, NotAhead
<1>9. Behind'
  BY <1>1, <1>3 DEF LockInv, Behind
<1>10. RunnerStatus'
  BY <1>1, <1>2 DEF LockInv, RunnerStatus
<1>11. CopiesCurrent'
  BY <1>1, <1>3, <1>4, CopiesKept DEF LockInv, cvars
<1> QED
  BY <1>5, <1>6, <1>7, <1>8, <1>9, <1>10, <1>11 DEF LockInv

\* An update of a copy keeps the lock.
LEMMA LockCopyUpdate ==
  ASSUME SQL, TypeOK, TypeOK', LockInv, NEW c \in Callers, pc[c] \in Updating,
         (CopyUpdate(c, target[c]) /\ NoFault) \/ CopyRefused(c, target[c]),
         UNCHANGED <<created, obj, runner, phantom>>,
         \A d \in Callers \ {c} : /\ pc'[d] = pc[d] /\ target'[d] = target[d]
                                  /\ copy'[d] = copy[d],
         pc'[c] \notin Updating \cup {"save"}
  PROVE  LockInv'
<1> DEFINE e == target[c]
<1>1. e \in Execs
  BY DEF TypeOK, CallerType, Updating, Execs
<1> HIDE DEF e
<1>2. /\ live' = live \/ live' = [live EXCEPT ![e] = FALSE]
      /\ \A f \in Execs \ {e} : row'[f] = row[f]
      /\ \/ row'[e] = row[e]
         \/ /\ row'[e].status = copy[c].status /\ row'[e].version = row[e].version + 1
            /\ copy[c].version = row[e].version
  BY <1>1, CopyUpdateEffect DEF e
<1>3. CopyCurrent(c)
  BY DEF LockInv, CopiesCurrent
<1>4. copy[c].status \in {"STOPPING", "ABANDONED"} /\ row[e].status # NoRow
  BY <1>3 DEF CopyCurrent, Updating, e
<1>5. ~(e > created)
  BY <1>1, <1>4 DEF LockInv, Unsaved
<1>6. /\ row[e].version \in Nat /\ obj[e].version \in Nat /\ row'[e].version \in Nat
  BY <1>1 DEF TypeOK, ExecType, Object
<1>7. NotLive'
  BY <1>1, <1>2 DEF LockInv, NotLive, TypeOK, RunType
<1>8. Unsaved'
  BY <1>1, <1>2, <1>4, <1>5 DEF LockInv, Unsaved, NoRow
<1>9. Saving'
  <2>1. ASSUME NEW d \in Callers, pc'[d] = "save"
        PROVE  pc[d] = "save" /\ target'[d] = target[d] /\ target[d] \in Execs \ {e}
    <3>1. pc[d] = "save" /\ target'[d] = target[d]
      BY <2>1
    <3> QED
      BY <1>4, <3>1 DEF TypeOK, CallerType, LockInv, Saving, Execs
  <2> QED
    BY <1>2, <2>1 DEF LockInv, Saving
<1>10. NotAhead'
  BY <1>1, <1>2, <1>6 DEF LockInv, NotAhead
<1>11. Behind'
  <2>1. ASSUME NEW f \in Execs, ~phantom'[f], row'[f].status \in {"STOPPING", "ABANDONED"}
        PROVE  obj'[f].version < row'[f].version
    <3>1. CASE row'[f] = row[f]
      BY <2>1, <3>1 DEF LockInv, Behind
    <3>2. CASE f = e /\ row'[e].version = row[e].version + 1
      BY <1>6, <2>1, <3>2 DEF LockInv, NotAhead
    <3> QED
      BY <1>2, <3>1, <3>2
  <2> QED
    BY <2>1 DEF Behind
<1>12. RunnerStatus'
  BY <1>1, <1>2, <1>4 DEF LockInv, RunnerStatus
<1>13. CopiesCurrent'
  <2>1. \A d \in Callers : pc'[d] \in Updating
            => pc'[d] = pc[d] /\ target'[d] = target[d] /\ copy'[d] = copy[d]
    OBVIOUS
  <2>2. \A f \in Execs : \/ row'[f] = row[f]
                         \/ row'[f].version > row[f].version /\ row'[f].status # NoRow
    BY <1>2, <1>4, <1>6 DEF NoRow
  <2> QED
    BY <2>1, <2>2, CopiesKept DEF LockInv
<1> QED
  BY <1>7, <1>8, <1>9, <1>10, <1>11, <1>12, <1>13 DEF LockInv

\* Initially nothing is saved and nothing runs.
LEMMA LockInit == SQL /\ Init => LockInv
  BY DEF Init, LockInv, NotLive, Unsaved, Saving, NotAhead, Behind, RunnerStatus,
         CopiesCurrent, CopyCurrent, Updating, Fresh, NoRow

\* Every step keeps the lock.
LEMMA LockStep ==
  ASSUME SQL, TypeOK, TypeOK', LockInv, [Next]_vars
  PROVE  LockInv'
<1> USE DEF lvars, rvars, cvars
<1>0. CASE UNCHANGED vars
  <2>1. CopiesCurrent'
    BY <1>0 DEF vars, LockInv, CopiesCurrent, CopyCurrent
  <2> QED
    BY <1>0, <2>1, LockFrame DEF vars
<1>1. ASSUME NEW c \in Callers, LaunchFindInstance(c) PROVE LockInv'
  <2>1. CopiesCurrent'
    BY <1>1, CopiesKept DEF LaunchFindInstance, Goto, LockInv, Updating, TypeOK, CallerType
  <2> QED
    BY <1>1, <2>1, LockFrame DEF LaunchFindInstance, Goto, TypeOK, CallerType
<1>2. ASSUME NEW c \in Callers, LaunchSaveInstance(c) PROVE LockInv'
  <2>1. CopiesCurrent'
    BY <1>2, CopiesKept
    DEF LaunchSaveInstance, Goto, Return, LockInv, Updating, TypeOK, CallerType
  <2> QED
    BY <1>2, <2>1, LockFrame DEF LaunchSaveInstance, Goto, Return, TypeOK, CallerType
<1>3. ASSUME NEW c \in Callers, LaunchFindRestartable(c) PROVE LockInv'
  <2>1. CASE Goto(c, "create") /\ UNCHANGED <<target, copy>>
    <3>1. CopiesCurrent'
      BY <1>3, <2>1, CopiesKept
      DEF LaunchFindRestartable, Goto, LockInv, Updating, TypeOK, CallerType
    <3> QED
      BY <1>3, <2>1, <3>1, LockFrame DEF LaunchFindRestartable, Goto, TypeOK, CallerType
  <2>2. ASSUME NEW e \in Execs, LatestRestartable(found[c], e),
               target' = [target EXCEPT ![c] = e],
               copy' = [copy EXCEPT ![c] = [Row(e) EXCEPT !.status = "ABANDONED"]],
               Goto(c, "abandonPrevious")
        PROVE  LockInv'
    <3>1. row[e].status \in {"FAILED", "STOPPED"} /\ Row(e) = row[e]
      BY <2>2 DEF LatestRestartable, Candidates, Restartable, Row, LockInv, NotLive, SQL
    <3>2. /\ pc'[c] = "abandonPrevious" /\ target'[c] = e
          /\ copy'[c].status = "ABANDONED" /\ copy'[c].version = row[e].version
          /\ row' = row /\ row[e].version \in Nat
      BY <1>3, <2>2, <3>1
      DEF LaunchFindRestartable, Goto, TypeOK, CallerType, ExecType, Object
    <3>3. CopyCurrent(c)'
      BY <3>1, <3>2 DEF CopyCurrent, NoRow
    <3>4. ASSUME NEW d \in Callers \ {c} PROVE CopyCurrent(d)'
      BY <1>3, <2>2
      DEF CopyCurrent, LockInv, CopiesCurrent, LaunchFindRestartable, Goto, TypeOK, CallerType
    <3>5. CopiesCurrent'
      BY <3>3, <3>4 DEF CopiesCurrent
    <3> QED
      BY <1>3, <2>2, <3>5, LockFrame DEF LaunchFindRestartable, Goto, TypeOK, CallerType
  <2> QED
    BY <1>3, <2>1, <2>2 DEF LaunchFindRestartable
<1>4. ASSUME NEW c \in Callers, LaunchAbandonPrevious(c) PROVE LockInv'
  BY <1>4, LockCopyUpdate
  DEF LaunchAbandonPrevious, Goto, Updating, TypeOK, CallerType
<1>5. ASSUME NEW c \in Callers, StopUpdate(c) PROVE LockInv'
  BY <1>5, LockCopyUpdate DEF StopUpdate, Goto, Return, Updating, TypeOK, CallerType
<1>6. ASSUME NEW c \in Callers, AbandonUpdate(c) PROVE LockInv'
  BY <1>6, LockCopyUpdate DEF AbandonUpdate, Goto, Return, Updating, TypeOK, CallerType
<1>7. ASSUME NEW c \in Callers, LaunchCreate(c) PROVE LockInv'
  <2> DEFINE e == created + 1
  <2>1. /\ e \in Execs /\ created' = e /\ created \in Nat /\ Execs \subseteq Nat
    BY <1>7, LifecycleAssumption DEF LaunchCreate, TypeOK, ExecType, Execs
  <2>2. row[e].status = NoRow /\ obj[e] = Fresh
    BY <2>1 DEF LockInv, Unsaved
  <2>3. /\ obj'[e].status \in {"STARTING", "RESTARTING"} /\ obj'[e].version = 0
        /\ \A f \in Execs \ {e} : obj'[f] = obj[f]
    BY <1>7, <2>1, <2>2 DEF LaunchCreate, TypeOK, ExecType, Object, Fresh
  <2>4. UNCHANGED <<row, live, runner, phantom, copy>>
    BY <1>7 DEF LaunchCreate
  <2>5. /\ pc' = [pc EXCEPT ![c] = "save"] /\ target' = [target EXCEPT ![c] = e]
    BY <1>7 DEF LaunchCreate, Goto
  <2> HIDE DEF e
  <2>6. NotLive' /\ Unsaved'
    <3>1. \A f \in Execs : f > created' => f # e /\ f > created
      BY <2>1 DEF e
    <3> QED
      BY <2>3, <2>4, <3>1 DEF LockInv, NotLive, Unsaved
  <2>7. Saving'
    <3>1. ASSUME NEW d \in Callers \ {c}, pc'[d] = "save"
          PROVE  /\ pc[d] = "save" /\ target'[d] = target[d] /\ target[d] \in Execs
                 /\ target[d] # e /\ target[d] <= created'
      <4>1. pc[d] = "save" /\ target'[d] = target[d]
        BY <2>5, <3>1 DEF TypeOK, CallerType
      <4>2. target[d] \in Execs
        BY <4>1 DEF TypeOK, CallerType, Execs
      <4>3. target[d] # e /\ target[d] <= created'
        <5>1. target[d] <= created /\ target[d] \in Nat
          BY <2>1, <4>1, <4>2 DEF LockInv, Saving
        <5> QED
          BY <2>1, <5>1 DEF e
      <4> QED
        BY <4>1, <4>2, <4>3
    <3> QED
      BY <2>1, <2>2, <2>3, <2>4, <2>5, <3>1 DEF LockInv, Saving, TypeOK, CallerType
  <2>8. NotAhead' /\ Behind' /\ RunnerStatus'
    <3>1. row[e].version = 0 /\ runner[e] = "none"
      BY <2>1, <2>2 DEF LockInv, Unsaved
    <3> QED
      BY <2>2, <2>3, <2>4, <3>1 DEF LockInv, NotAhead, Behind, RunnerStatus, NoRow
  <2>9. CopiesCurrent'
    BY <2>4, <2>5, CopiesKept DEF LockInv, Updating, TypeOK, CallerType
  <2> QED
    BY <2>6, <2>7, <2>8, <2>9 DEF LockInv
<1>8. ASSUME NEW c \in Callers, LaunchSave(c) PROVE LockInv'
  <2> DEFINE e == target[c]
  <2>1. /\ e \in Execs /\ row[e].status = NoRow
        /\ obj[e].status \in {"STARTING", "RESTARTING"}
    BY <1>8 DEF LaunchSave, TypeOK, CallerType, LockInv, Saving, Execs
  <2>2. runner[e] = "none" /\ row[e].version = 0 /\ obj[e].version = 0
    BY <2>1 DEF LockInv, Unsaved
  <2>3. /\ UNCHANGED <<created, obj, phantom>>
        /\ \A f \in Execs \ {e} : row'[f] = row[f] /\ runner'[f] = runner[f]
        /\ \/ row'[e] = row[e] /\ runner'[e] = runner[e]
           \/ row'[e] = obj[e] /\ runner'[e] = "queued"
    <3>1. CASE row' = [row EXCEPT ![e] = obj[e]] /\ runner' = [runner EXCEPT ![e] = "queued"]
      BY <1>8, <2>1, <3>1 DEF LaunchSave, TypeOK, ExecType, RunType
    <3>2. CASE UNCHANGED <<row, runner>>
      BY <1>8, <3>2 DEF LaunchSave
    <3> QED
      BY <1>8, <3>1, <3>2 DEF LaunchSave
  <2>4. /\ \A d \in Callers \ {c} : /\ pc'[d] = pc[d] /\ target'[d] = target[d]
                                    /\ copy'[d] = copy[d]
        /\ pc'[c] = "idle"
    BY <1>8 DEF LaunchSave, Return, Goto, TypeOK, CallerType
  <2>5. NotLive'
    BY <1>8, <2>1 DEF LaunchSave, LockInv, NotLive, SQL, TypeOK, RunType
  <2>6. ~(e > created)
    <3>1. e <= created
      BY <1>8 DEF LaunchSave, LockInv, Saving
    <3> QED
      BY <2>1, <3>1 DEF TypeOK, ExecType, Execs
  <2> HIDE DEF e
  <2>7. Unsaved'
    BY <2>1, <2>2, <2>3, <2>6 DEF LockInv, Unsaved, NoRow
  <2>8. Saving'
    <3>1. ASSUME NEW d \in Callers, pc'[d] = "save"
          PROVE  d # c /\ pc[d] = "save" /\ target'[d] = target[d] /\ target[d] \in Execs \ {e}
      <4>1. d # c /\ pc[d] = "save" /\ target'[d] = target[d]
        BY <2>4, <3>1
      <4>2. target[d] \in Execs
        BY <4>1 DEF TypeOK, CallerType, Execs
      <4>3. pc[c] = "save"
        BY <1>8 DEF LaunchSave
      <4> QED
        BY <4>1, <4>2, <4>3 DEF LockInv, Saving, e
    <3> QED
      BY <2>3, <3>1 DEF LockInv, Saving
  <2>9. NotAhead'
    BY <2>2, <2>3 DEF LockInv, NotAhead
  <2>10. Behind' /\ RunnerStatus'
    BY <2>1, <2>2, <2>3 DEF LockInv, Behind, RunnerStatus
  <2>11. CopiesCurrent'
    BY <2>1, <2>3, <2>4, CopiesKept DEF LockInv, Updating
  <2> QED
    BY <2>5, <2>7, <2>8, <2>9, <2>10, <2>11 DEF LockInv
<1>9. ASSUME NEW c \in Callers, StopCancel(c) PROVE LockInv'
  <2>1. CopiesCurrent'
    BY <1>9, CopiesKept DEF StopCancel, Goto, Return, LockInv, Updating, TypeOK, CallerType
  <2> QED
    BY <1>9, <2>1, LockFrame DEF StopCancel, Goto, Return, TypeOK, CallerType
<1>10. ASSUME NEW c \in Callers, NEW e \in Execs, StopLoad(c, e) PROVE LockInv'
  <2>1. Row(e) = row[e] /\ row[e].status # NoRow /\ ~IsFinished(row[e].status)
    BY <1>10 DEF StopLoad, Row, Saved, LockInv, NotLive
  <2>2. /\ pc'[c] = "stopUpdate" /\ target'[c] = e /\ copy'[c].status = "STOPPING"
        /\ copy'[c].version = row[e].version /\ row[e].version \in Nat
        /\ row' = row
    BY <1>10, <2>1 DEF StopLoad, Goto, TypeOK, CallerType, ExecType, Object
  <2>3. CopyCurrent(c)'
    BY <2>1, <2>2 DEF CopyCurrent
  <2>4. ASSUME NEW d \in Callers \ {c} PROVE CopyCurrent(d)'
    BY <1>10 DEF CopyCurrent, LockInv, CopiesCurrent, StopLoad, Goto, TypeOK, CallerType
  <2>5. CopiesCurrent'
    BY <2>3, <2>4 DEF CopiesCurrent
  <2> QED
    BY <1>10, <2>5, LockFrame DEF StopLoad, Goto, TypeOK, CallerType
<1>11. ASSUME NEW c \in Callers, NEW e \in Execs, AbandonLoad(c, e) PROVE LockInv'
  <2>1. Row(e) = row[e] /\ row[e].status = "STARTING"
    BY <1>11
    DEF AbandonLoad, Row, Saved, LockInv, NotLive, IsFinished, TypeOK, ExecType, Statuses
  <2>2. /\ pc'[c] = "abandonUpdate" /\ target'[c] = e /\ copy'[c].status = "ABANDONED"
        /\ copy'[c].version = row[e].version /\ row[e].version \in Nat
        /\ row' = row
    BY <1>11, <2>1 DEF AbandonLoad, Goto, TypeOK, CallerType, ExecType, Object
  <2>3. CopyCurrent(c)'
    BY <2>1, <2>2 DEF CopyCurrent, NoRow
  <2>4. ASSUME NEW d \in Callers \ {c} PROVE CopyCurrent(d)'
    BY <1>11 DEF CopyCurrent, LockInv, CopiesCurrent, AbandonLoad, Goto, TypeOK, CallerType
  <2>5. CopiesCurrent'
    BY <2>3, <2>4 DEF CopiesCurrent
  <2> QED
    BY <1>11, <2>5, LockFrame DEF AbandonLoad, Goto, TypeOK, CallerType
<1>12. ASSUME NEW c \in Callers, NEW e \in Execs, RestartLoad(c, e) PROVE LockInv'
  <2>1. CopiesCurrent'
    BY <1>12, CopiesKept DEF RestartLoad, Goto, LockInv, Updating, TypeOK, CallerType
  <2> QED
    BY <1>12, <2>1, LockFrame DEF RestartLoad, Goto, TypeOK, CallerType
<1>13. ASSUME NEW e \in Execs, RunnerStart(e) PROVE LockInv'
  <2>1. cancelled[e] \in BOOLEAN
    BY DEF TypeOK, RunType
  <2>2. "STARTED" \in Statuses
    BY DEF Statuses
  <2>3. /\ runner'[e] = "running" /\ \A f \in Execs \ {e} : runner'[f] = runner[f]
        /\ runner[e] \in Running
    BY <1>13 DEF RunnerStart, TypeOK, RunType, Running
  <2> QED
    BY <1>13, <2>1, <2>2, <2>3, LockRunnerUpdate DEF RunnerStart
<1>14. ASSUME NEW e \in Execs, RunnerPromotes(e) PROVE LockInv'
  <2>1. cancelled[e] \in BOOLEAN
    BY DEF TypeOK, RunType
  <2>2. obj[e].status \in Statuses /\ obj[e].status \in {"STARTED", "FAILED", "STOPPED"}
    BY <1>14 DEF RunnerPromotes, TypeOK, ExecType, Object, LockInv, RunnerStatus
  <2>3. runner'[e] = "running" /\ runner' = runner /\ runner[e] \in Running
    BY <1>14 DEF RunnerPromotes, Running
  <2> QED
    BY <1>14, <2>1, <2>2, <2>3, LockRunnerUpdate DEF RunnerPromotes
<1>15. ASSUME NEW e \in Execs, RunnerEnds(e) PROVE LockInv'
  <2>1. cancelled[e] \in BOOLEAN
    BY DEF TypeOK, RunType
  <2>2. obj[e].status \in Statuses /\ obj[e].status \in {"COMPLETED", "FAILED", "STOPPED"}
    BY <1>15 DEF RunnerEnds, TypeOK, ExecType, Object, LockInv, RunnerStatus
  <2>3. /\ runner'[e] = "ended" /\ \A f \in Execs \ {e} : runner'[f] = runner[f]
        /\ runner[e] \in Running
    BY <1>15 DEF RunnerEnds, TypeOK, RunType, Running
  <2> QED
    BY <1>15, <2>1, <2>2, <2>3, LockRunnerUpdate DEF RunnerEnds
<1>16. ASSUME NEW e \in Execs, NEW s \in {"COMPLETED", "FAILED", "STOPPED"},
              obj' = [obj EXCEPT ![e].status = s],
              UNCHANGED <<lvars, row, live, cvars, phantom>>,
              runner[e] = "running",
              \/ runner' = [runner EXCEPT ![e] = "ending"]
              \/ runner' = runner /\ s # "COMPLETED"
       PROVE  LockInv'
  <2>1. /\ obj'[e].status = s /\ obj'[e].version = obj[e].version
        /\ \A f \in Execs \ {e} : obj'[f] = obj[f] /\ runner'[f] = runner[f]
        /\ \/ runner'[e] = "ending"
           \/ runner'[e] = "running" /\ s # "COMPLETED"
    <3>1. /\ obj'[e].status = s /\ obj'[e].version = obj[e].version
          /\ \A f \in Execs \ {e} : obj'[f] = obj[f]
      BY <1>16 DEF TypeOK, ExecType, Object
    <3>2. /\ \A f \in Execs \ {e} : runner'[f] = runner[f]
          /\ \/ runner'[e] = "ending"
             \/ runner'[e] = "running" /\ s # "COMPLETED"
      <4>1. CASE runner' = [runner EXCEPT ![e] = "ending"]
        BY <4>1 DEF TypeOK, RunType
      <4>2. CASE runner' = runner /\ s # "COMPLETED"
        BY <1>16, <4>2
      <4> QED
        BY <1>16, <4>1, <4>2
    <3> QED
      BY <3>1, <3>2
  <2>2. row[e].status # NoRow /\ ~(e > created) /\ row[e].status # "COMPLETED"
    BY <1>16 DEF LockInv, Unsaved, RunnerStatus
  <2>3. NotLive' /\ Unsaved'
    BY <1>16, <2>1, <2>2 DEF LockInv, NotLive, Unsaved
  <2>4. Saving'
    <3>1. ASSUME NEW d \in Callers, pc[d] = "save" PROVE target[d] \in Execs \ {e}
      BY <2>2, <3>1 DEF TypeOK, CallerType, LockInv, Saving, Execs
    <3> QED
      BY <1>16, <2>1, <3>1 DEF LockInv, Saving
  <2>5. NotAhead' /\ Behind'
    BY <1>16, <2>1 DEF LockInv, NotAhead, Behind
  <2>6. RunnerStatus'
    BY <1>16, <2>1, <2>2 DEF LockInv, RunnerStatus
  <2>7. CopiesCurrent'
    BY <1>16 DEF LockInv, CopiesCurrent, CopyCurrent
  <2> QED
    BY <2>3, <2>4, <2>5, <2>6, <2>7 DEF LockInv
<1>17. ASSUME NEW e \in Execs, RunnerElementFails(e) PROVE LockInv'
  BY <1>16, <1>17 DEF RunnerElementFails
<1>18. ASSUME NEW e \in Execs, RunnerFlowEnds(e) PROVE LockInv'
  BY <1>16, <1>18 DEF RunnerFlowEnds
<1>19. ASSUME NEW e \in Execs, LaunchContextCancelled(e) PROVE LockInv'
  <2>1. CopiesCurrent'
    BY <1>19 DEF LaunchContextCancelled, LockInv, CopiesCurrent, CopyCurrent
  <2> QED
    BY <1>19, <2>1, LockFrame DEF LaunchContextCancelled
<1>20. CASE Crash
  <2>1. CopiesCurrent' /\ Saving'
    BY <1>20 DEF Crash, CopiesCurrent, CopyCurrent, Saving, Updating
  <2>2. NotLive' /\ NotAhead' /\ Behind'
    BY <1>20 DEF Crash, LockInv, NotLive, NotAhead, Behind
  <2>3. \A e \in Execs : runner'[e] = runner[e] \/ (runner'[e] = "dead" /\ runner[e] \in Running)
    BY <1>20 DEF Crash
  <2>4. Unsaved' /\ RunnerStatus'
    BY <1>20, <2>3 DEF Crash, LockInv, Unsaved, RunnerStatus, Running
  <2> QED
    BY <2>1, <2>2, <2>4 DEF LockInv
<1> QED
  BY <1>0, <1>1, <1>2, <1>3, <1>4, <1>5, <1>6, <1>7, <1>8, <1>9, <1>10, <1>11, <1>12, <1>13,
     <1>14, <1>15, <1>17, <1>18, <1>19, <1>20 DEF Next, CallerStep, RunnerStep

-----------------------------------------------------------------------------
\* With SQLJobRepository the lock invariant always holds.
THEOREM LockKept == ASSUME SQL PROVE Spec => [](TypeOK /\ LockInv)
<1>1. Init => TypeOK /\ LockInv
  BY TypeInit, LockInit
<1>2. TypeOK /\ LockInv /\ [Next]_vars => TypeOK' /\ LockInv'
  BY TypeStep, LockStep
<1> QED
  BY <1>1, <1>2, PTL DEF Spec

\* An update of a copy that finds its version leaves settled rows as they are:
\* the copy was made of a row its holder could still change.
LEMMA CopyKeepsSettled ==
  ASSUME SQL, TypeOK, LockInv, NEW c \in Callers, pc[c] \in Updating,
         (CopyUpdate(c, target[c]) /\ NoFault) \/ CopyRefused(c, target[c]),
         NEW e \in Execs, row[e].status \in Settled
  PROVE  row'[e].status = row[e].status
<1>1. target[c] \in Execs /\ CopyCurrent(c)
  BY DEF TypeOK, CallerType, Updating, Execs, LockInv, CopiesCurrent
<1>2. CASE e = target[c] /\ copy[c].version = row[e].version
           /\ row'[e].status = copy[c].status
  BY <1>1, <1>2 DEF CopyCurrent, Updating, Settled, IsFinished
<1> QED
  BY <1>1, <1>2, CopyUpdateEffect

\* So does an update by a runner, whose object is behind them.
LEMMA RunnerKeepsSettled ==
  ASSUME SQL, TypeOK, LockInv, NEW f \in Execs, NEW s \in Statuses, NEW ctx \in BOOLEAN,
         RunnerUpdate(f, s, ctx), runner[f] \in Running,
         NEW e \in Execs, row[e].status \in Settled, ~phantom[e]
  PROVE  row'[e].status = row[e].status
<1>1. /\ row'[e] = row[e] \/ (e = f /\ obj[e].version = row[e].version)
      /\ row[e].version \in Nat /\ obj[e].version \in Nat
  BY RunnerUpdateEffect DEF TypeOK, ExecType, Object
<1>2. e = f => row[e].status # "COMPLETED"
  BY DEF LockInv, RunnerStatus, Running
<1>3. row[e].status \in {"STOPPING", "ABANDONED"} => obj[e].version < row[e].version
  BY DEF LockInv, Behind
<1> QED
  BY <1>1, <1>2, <1>3 DEF Settled

\* What the operator or the launcher wrote, and what a finished run reported,
\* no later update by a runner or by the holder of an older copy overwrites, for
\* any number of callers, executions, failures and crashes.
THEOREM SettledKept == ASSUME SQL PROVE Spec => SettledRowsKept
<1> DEFINE Kept == \A e \in Execs : row[e].status \in Settled /\ ~phantom[e]
                                      => row'[e].status = row[e].status
<1>1. TypeOK /\ LockInv /\ [Next]_vars => [Kept]_vars
  <2> SUFFICES ASSUME TypeOK, LockInv, Next,
                      NEW e \in Execs, row[e].status \in Settled, ~phantom[e]
               PROVE  row'[e].status = row[e].status
    OBVIOUS
  <2>1. ASSUME NEW c \in Callers, LaunchAbandonPrevious(c) \/ StopUpdate(c) \/ AbandonUpdate(c)
        PROVE  row'[e].status = row[e].status
    BY <2>1, CopyKeepsSettled
    DEF LaunchAbandonPrevious, StopUpdate, AbandonUpdate, Updating
  <2>2. ASSUME NEW c \in Callers, LaunchSave(c) PROVE row'[e].status = row[e].status
    <3>1. target[c] # e
      BY <2>2 DEF LaunchSave, LockInv, Saving, Settled, NoRow
    <3> QED
      BY <2>2, <3>1 DEF LaunchSave, TypeOK, ExecType
  <2>3. ASSUME NEW f \in Execs, RunnerStart(f) \/ RunnerEnds(f) \/ RunnerPromotes(f)
        PROVE  row'[e].status = row[e].status
    <3>1. obj[f].status \in Statuses /\ "STARTED" \in Statuses /\ cancelled[f] \in BOOLEAN
      BY DEF TypeOK, ExecType, RunType, Object, Statuses
    <3> QED
      BY <2>3, <3>1, RunnerKeepsSettled DEF RunnerStart, RunnerEnds, RunnerPromotes, Running
  <2>4. ASSUME NEW c \in Callers,
               \/ LaunchFindInstance(c) \/ LaunchSaveInstance(c) \/ LaunchFindRestartable(c)
               \/ LaunchCreate(c) \/ StopCancel(c)
        PROVE  row' = row
    BY <2>4 DEF LaunchFindInstance, LaunchSaveInstance, LaunchFindRestartable, LaunchCreate,
                StopCancel
  <2>5. ASSUME NEW c \in Callers, NEW f \in Execs,
               StopLoad(c, f) \/ AbandonLoad(c, f) \/ RestartLoad(c, f)
        PROVE  row' = row
    BY <2>5 DEF StopLoad, AbandonLoad, RestartLoad
  <2>6. ASSUME NEW f \in Execs,
               RunnerFlowEnds(f) \/ RunnerElementFails(f) \/ LaunchContextCancelled(f)
        PROVE  row' = row
    BY <2>6 DEF RunnerFlowEnds, RunnerElementFails, LaunchContextCancelled
  <2>7. CASE Crash
    BY <2>7 DEF Crash
  <2> QED
    BY <2>1, <2>2, <2>3, <2>4, <2>5, <2>6, <2>7 DEF Next, CallerStep, RunnerStep
<1>2. Spec => [](TypeOK /\ LockInv)
  BY LockKept
<1> QED
  BY <1>1, <1>2, PTL DEF Spec, SettledRowsKept

\* However many launches race, one name and one set of parameters has one
\* JobInstance in an SQLJobRepository.
THEOREM OneInstanceKept == ASSUME SQL PROVE Spec => []OneInstance
<1>1. Init => OneInstance
  BY DEF Init, OneInstance
<1>2. OneInstance /\ [Next]_vars => OneInstance'
  <2> SUFFICES ASSUME OneInstance, [Next]_vars PROVE OneInstance'
    OBVIOUS
  <2> USE DEF lvars
  <2>1. ASSUME NEW c \in Callers, LaunchFindInstance(c) \/ CallerStep(c) PROVE OneInstance'
    BY <2>1 DEF LaunchFindInstance, CallerStep, LaunchSaveInstance, UniqueInstance, SQL,
      LaunchFindRestartable, LaunchAbandonPrevious, LaunchCreate, LaunchSave, StopUpdate,
      StopCancel, AbandonUpdate, OneInstance
  <2>2. ASSUME NEW c \in Callers, NEW f \in Execs,
               StopLoad(c, f) \/ AbandonLoad(c, f) \/ RestartLoad(c, f)
        PROVE  OneInstance'
    BY <2>2 DEF StopLoad, AbandonLoad, RestartLoad, OneInstance
  <2>3. ASSUME NEW f \in Execs,
               \/ RunnerStep(f) \/ RunnerElementFails(f) \/ RunnerPromotes(f)
               \/ LaunchContextCancelled(f)
        PROVE  OneInstance'
    BY <2>3 DEF RunnerStep, RunnerStart, RunnerFlowEnds, RunnerEnds, RunnerElementFails,
      RunnerPromotes, LaunchContextCancelled, OneInstance
  <2>4. CASE Crash
    BY <2>4 DEF Crash, OneInstance
  <2>5. CASE UNCHANGED vars
    BY <2>5 DEF vars, OneInstance
  <2> QED
    BY <2>1, <2>2, <2>3, <2>4, <2>5 DEF Next
<1> QED
  BY <1>1, <1>2, PTL DEF Spec
-----------------------------------------------------------------------------
(* A stop that is in the table reaches the run.                            *)

\* RegisterCancelFunc comes before the save.
SaveRegistered == \A c \in Callers : pc[c] = "save" => registered[target[c]]
\* Only Abandon forgets the cancel function of a run that goes on.
Reachable ==
  \A e \in Execs : runner[e] \in Running /\ ~phantom[e]
                     => registered[e] \/ row[e].status = "ABANDONED"
StopInv == SaveRegistered /\ Reachable /\ StopDelivered

\* Steps that neither stop nor abandon, and forget nobody.
LEMMA StopFrame ==
  ASSUME StopInv,
         \A e \in Execs :
           /\ runner'[e] \in Running => runner[e] \in Running
           /\ phantom[e] => phantom'[e]
           /\ registered'[e] = registered[e]
           /\ cancelled[e] => cancelled'[e]
           /\ \/ row'[e].status = row[e].status \/ phantom[e]
              \/ row'[e].status # "STOPPING" /\ row[e].status # "ABANDONED",
         \A c \in Callers : pc'[c] = "save" => /\ pc[c] = "save" /\ target'[c] = target[c]
                                               /\ target[c] \in Execs,
         \A c \in Callers : pc[c] = "stopCancel" => pc'[c] = "stopCancel" /\ target'[c] = target[c]
  PROVE  StopInv'
<1>1. SaveRegistered'
  BY DEF StopInv, SaveRegistered
<1>2. Reachable'
  BY DEF StopInv, Reachable
<1>3. StopDelivered'
  BY DEF StopInv, StopDelivered
<1> QED
  BY <1>1, <1>2, <1>3 DEF StopInv

\* An update by a runner is such a step.
LEMMA StopRunnerUpdate ==
  ASSUME SQL, TypeOK, LockInv, StopInv, NEW e \in Execs,
         NEW s \in {"STARTED", "COMPLETED", "FAILED", "STOPPED"},
         RunnerUpdate(e, s, cancelled[e]), runner[e] \in Running,
         \A f \in Execs \ {e} : runner'[f] = runner[f],
         UNCHANGED <<cancelled, registered, cvars>>
  PROVE  StopInv'
<1>1. s \in Statuses /\ cancelled[e] \in BOOLEAN
  BY DEF Statuses, TypeOK, RunType
<1>2. ASSUME NEW f \in Execs
      PROVE  /\ runner'[f] \in Running => runner[f] \in Running
             /\ phantom[f] => phantom'[f]
             /\ registered'[f] = registered[f]
             /\ cancelled[f] => cancelled'[f]
             /\ \/ row'[f].status = row[f].status \/ phantom[f]
                \/ row'[f].status # "STOPPING" /\ row[f].status # "ABANDONED"
  <2>1. phantom[f] => phantom'[f]
    BY <1>1, RunnerUpdateEffect
  <2>2. runner'[f] \in Running => runner[f] \in Running
    OBVIOUS
  <2>3. row[f].status \in Settled /\ ~phantom[f] => row'[f].status = row[f].status
    BY <1>1, RunnerKeepsSettled
  <2>4. row'[f].status = row[f].status \/ row'[f].status = s
    <3>1. row'[f] = row[f] \/ row'[f] = [status |-> s, version |-> row[f].version + 1]
      BY <1>1, RunnerUpdateEffect
    <3> QED
      BY <3>1
  <2> QED
    BY <2>1, <2>2, <2>3, <2>4 DEF Settled
<1>3. \A c \in Callers : pc[c] = "save" => target[c] \in Execs
  BY DEF TypeOK, CallerType, Execs
<1> QED
  BY <1>2, <1>3, StopFrame DEF cvars

\* Every step keeps the stops deliverable.
LEMMA StopStep ==
  ASSUME SQL, TypeOK, TypeOK', LockInv, StopInv, [Next]_vars
  PROVE  StopInv'
<1> USE DEF lvars, rvars, cvars
<1>0. \A c \in Callers : pc[c] \in Updating \cup {"save", "stopCancel"} => target[c] \in Execs
  BY DEF TypeOK, CallerType, Execs, Updating
<1>1. ASSUME UNCHANGED <<row, runner, cancelled, registered, phantom>>,
             \A c \in Callers : pc'[c] = "save" => pc[c] = "save" /\ target'[c] = target[c],
             \A c \in Callers : pc[c] = "stopCancel" => pc'[c] = "stopCancel" /\ target'[c] = target[c]
      PROVE  StopInv'
  BY <1>0, <1>1, StopFrame
<1>2. ASSUME NEW c \in Callers,
             LaunchFindInstance(c) \/ LaunchSaveInstance(c) \/ LaunchFindRestartable(c)
      PROVE  StopInv'
  BY <1>1, <1>2 DEF LaunchFindInstance, LaunchSaveInstance, LaunchFindRestartable, Goto, Return,
                    TypeOK, CallerType
<1>3. ASSUME NEW c \in Callers, NEW e \in Execs,
             StopLoad(c, e) \/ AbandonLoad(c, e) \/ RestartLoad(c, e)
      PROVE  StopInv'
  BY <1>1, <1>3 DEF StopLoad, AbandonLoad, RestartLoad, Goto, TypeOK, CallerType
<1>4. CASE UNCHANGED vars
  BY <1>1, <1>4 DEF vars
<1>5. ASSUME NEW e \in Execs, RunnerElementFails(e) PROVE StopInv'
  BY <1>1, <1>5 DEF RunnerElementFails
<1>6. ASSUME NEW e \in Execs, RunnerFlowEnds(e) PROVE StopInv'
  <2>1. \A f \in Execs : runner'[f] \in Running => runner[f] \in Running
    BY <1>6 DEF RunnerFlowEnds, TypeOK, RunType, Running
  <2> QED
    BY <1>0, <1>6, <2>1, StopFrame DEF RunnerFlowEnds
<1>7. ASSUME NEW e \in Execs, LaunchContextCancelled(e) PROVE StopInv'
  <2>1. \A f \in Execs : cancelled[f] => cancelled'[f]
    BY <1>7 DEF LaunchContextCancelled, TypeOK, RunType
  <2> QED
    BY <1>0, <1>7, <2>1, StopFrame DEF LaunchContextCancelled
<1>8. ASSUME NEW e \in Execs, RunnerStart(e) \/ RunnerPromotes(e) \/ RunnerEnds(e) PROVE StopInv'
  <2>1. /\ runner[e] \in Running /\ \A f \in Execs \ {e} : runner'[f] = runner[f]
        /\ UNCHANGED <<cancelled, registered, cvars>>
    BY <1>8 DEF RunnerStart, RunnerPromotes, RunnerEnds, Running, TypeOK, RunType
  <2>2. \E s \in {"STARTED", "COMPLETED", "FAILED", "STOPPED"} : RunnerUpdate(e, s, cancelled[e])
    BY <1>8 DEF RunnerStart, RunnerPromotes, RunnerEnds, LockInv, RunnerStatus
  <2> QED
    BY <2>1, <2>2, StopRunnerUpdate
<1>9. ASSUME NEW c \in Callers, LaunchAbandonPrevious(c) PROVE StopInv'
  <2>1. /\ target[c] \in Execs /\ CopyCurrent(c) /\ pc[c] = "abandonPrevious"
        /\ UNCHANGED <<runner, cancelled, registered, phantom, target>>
    BY <1>0, <1>9 DEF LaunchAbandonPrevious, LockInv, CopiesCurrent, Updating
  <2>2. \A f \in Execs : \/ row'[f].status = row[f].status
                         \/ row'[f].status # "STOPPING" /\ row[f].status # "ABANDONED"
    BY <1>9, <2>1, CopyUpdateEffect DEF LaunchAbandonPrevious, CopyCurrent, Updating
  <2>3. \A d \in Callers : \/ pc'[d] = pc[d]
                           \/ d = c /\ pc'[d] = "create"
    BY <1>9 DEF LaunchAbandonPrevious, Goto, TypeOK, CallerType
  <2> QED
    BY <1>0, <2>1, <2>2, <2>3, StopFrame
<1>10. ASSUME NEW c \in Callers, LaunchCreate(c) PROVE StopInv'
  <2>1. /\ UNCHANGED <<row, runner, cancelled, phantom>> /\ pc[c] = "create"
        /\ pc' = [pc EXCEPT ![c] = "save"]
        /\ target' = [target EXCEPT ![c] = created + 1]
        /\ registered' = [registered EXCEPT ![created + 1] = TRUE]
        /\ created + 1 \in Execs
    BY <1>10, LifecycleAssumption DEF LaunchCreate, Goto, TypeOK, ExecType, Execs
  <2>2. /\ registered'[created + 1] /\ target'[c] = created + 1
        /\ \A e \in Execs : registered[e] => registered'[e]
        /\ \A d \in Callers \ {c} : pc'[d] = pc[d] /\ target'[d] = target[d]
    BY <2>1 DEF TypeOK, RunType, CallerType
  <2>3. SaveRegistered'
    BY <1>0, <2>1, <2>2 DEF StopInv, SaveRegistered
  <2>4. Reachable'
    BY <2>1, <2>2 DEF StopInv, Reachable
  <2>5. StopDelivered'
    BY <2>1, <2>2 DEF StopInv, StopDelivered
  <2> QED
    BY <2>3, <2>4, <2>5 DEF StopInv
<1>11. ASSUME NEW c \in Callers, LaunchSave(c) PROVE StopInv'
  <2> DEFINE e == target[c]
  <2>1. /\ e \in Execs /\ row[e].status = NoRow /\ pc[c] = "save" /\ registered[e]
        /\ obj[e].status \in {"STARTING", "RESTARTING"} /\ runner[e] = "none"
    BY <1>0, <1>11 DEF LaunchSave, LockInv, Saving, Unsaved, StopInv, SaveRegistered
  <2>2. /\ UNCHANGED <<cancelled, phantom>>
        /\ \A d \in Callers \ {c} : pc'[d] = pc[d] /\ target'[d] = target[d]
        /\ pc'[c] = "idle"
    BY <1>11 DEF LaunchSave, Return, Goto, TypeOK, CallerType
  <2>3. \A d \in Callers \ {c} : pc[d] = "save" => target[d] # e
    BY <2>1 DEF LockInv, Saving
  <2>4. /\ \A f \in Execs \ {e} : /\ row'[f] = row[f] /\ runner'[f] = runner[f]
                                  /\ registered'[f] = registered[f]
        /\ \/ row'[e] = obj[e] /\ runner'[e] = "queued" /\ registered' = registered
           \/ row'[e] = row[e] /\ runner'[e] = "none"
    <3>1. CASE row' = [row EXCEPT ![e] = obj[e]] /\ runner' = [runner EXCEPT ![e] = "queued"]
               /\ registered' = registered
      BY <2>1, <3>1 DEF TypeOK, ExecType, RunType
    <3>2. CASE UNCHANGED <<row, runner>> /\ registered' = [registered EXCEPT ![e] = FALSE]
      BY <2>1, <3>2 DEF TypeOK, RunType
    <3> QED
      BY <1>11, <3>1, <3>2 DEF LaunchSave
  <2> HIDE DEF e
  <2>5. SaveRegistered'
    BY <1>0, <2>2, <2>3, <2>4 DEF StopInv, SaveRegistered
  <2>6. Reachable'
    BY <2>1, <2>2, <2>4 DEF StopInv, Reachable, Running
  <2>7. StopDelivered'
    BY <2>1, <2>2, <2>4 DEF StopInv, StopDelivered, Running
  <2> QED
    BY <2>5, <2>6, <2>7 DEF StopInv
<1>12. ASSUME NEW c \in Callers, StopUpdate(c) PROVE StopInv'
  <2>1. /\ target[c] \in Execs /\ CopyCurrent(c) /\ pc[c] = "stopUpdate"
        /\ UNCHANGED <<runner, cancelled, registered, phantom>>
    BY <1>0, <1>12 DEF StopUpdate, LockInv, CopiesCurrent, Updating
  <2>2. \A d \in Callers \ {c} : pc'[d] = pc[d] /\ target'[d] = target[d]
    BY <1>12 DEF StopUpdate, Return, Goto, TypeOK, CallerType
  <2>3. CASE CopyRefused(c, target[c]) /\ Return(c)
    <3>1. row' = row /\ pc'[c] = "idle"
      BY <2>3 DEF CopyRefused, Return, Goto, TypeOK, CallerType
    <3> QED
      BY <1>1, <2>1, <2>2, <3>1
  <2>4. CASE CopyUpdate(c, target[c]) /\ NoFault /\ Goto(c, "stopCancel") /\ target' = target
    <3>1. pc'[c] = "stopCancel"
      BY <2>4 DEF Goto, TypeOK, CallerType
    <3>2. \A f \in Execs : row'[f].status = row[f].status \/ f = target[c]
      BY <2>1, <2>4, CopyUpdateEffect
    <3>3. row[target[c]].status # "ABANDONED" \/ row'[target[c]].status = row[target[c]].status
      BY <2>1, <2>4, CopyUpdateEffect DEF CopyCurrent, Updating, IsFinished
    <3>4. SaveRegistered'
      BY <2>1, <2>2, <3>1 DEF StopInv, SaveRegistered
    <3>5. Reachable'
      BY <2>1, <3>2, <3>3 DEF StopInv, Reachable
    <3>6. StopDelivered'
      <4>1. ASSUME NEW f \in Execs \ {target[c]}, row'[f].status = "STOPPING", runner[f] \in Running,
                   ~phantom[f], ~cancelled[f]
            PROVE  \E d \in Callers : pc'[d] = "stopCancel" /\ target'[d] = f
        <5>1. PICK d \in Callers : pc[d] = "stopCancel" /\ target[d] = f
          BY <3>2, <4>1 DEF StopInv, StopDelivered
        <5> QED
          BY <2>1, <2>2, <5>1
      <4> QED
        BY <2>1, <2>4, <3>1, <4>1 DEF StopDelivered
    <3> QED
      BY <3>4, <3>5, <3>6 DEF StopInv
  <2> QED
    BY <1>12, <2>3, <2>4 DEF StopUpdate
<1>13. ASSUME NEW c \in Callers, StopCancel(c) PROVE StopInv'
  <2>1. target[c] \in Execs /\ UNCHANGED <<row, runner, registered, phantom>> /\ pc[c] = "stopCancel"
    BY <1>0, <1>13 DEF StopCancel
  <2>2. /\ \A d \in Callers \ {c} : pc'[d] = pc[d] /\ target'[d] = target[d]
        /\ pc'[c] = "idle"
    BY <1>13 DEF StopCancel, Return, Goto, TypeOK, CallerType
  <2>3. /\ \A f \in Execs : cancelled[f] => cancelled'[f]
        /\ registered[target[c]] => cancelled'[target[c]]
    BY <1>13, <2>1 DEF StopCancel, TypeOK, RunType
  <2>4. SaveRegistered' /\ Reachable'
    BY <2>1, <2>2 DEF StopInv, SaveRegistered, Reachable
  <2>5. StopDelivered'
    <3>1. ASSUME NEW f \in Execs, row[f].status = "STOPPING", runner[f] \in Running,
                 ~phantom[f], ~cancelled'[f]
          PROVE  \E d \in Callers : pc'[d] = "stopCancel" /\ target'[d] = f
      <4>1. f # target[c]
        BY <2>3, <3>1 DEF StopInv, Reachable
      <4>2. PICK d \in Callers : pc[d] = "stopCancel" /\ target[d] = f
        BY <2>3, <3>1 DEF StopInv, StopDelivered
      <4> QED
        BY <2>2, <4>1, <4>2
    <3> QED
      BY <2>1, <3>1 DEF StopDelivered
  <2> QED
    BY <2>4, <2>5 DEF StopInv
<1>14. ASSUME NEW c \in Callers, AbandonUpdate(c) PROVE StopInv'
  <2> DEFINE e == target[c]
  <2>1. /\ e \in Execs /\ CopyCurrent(c) /\ pc[c] = "abandonUpdate"
        /\ UNCHANGED <<runner, cancelled, phantom>>
    BY <1>0, <1>14 DEF AbandonUpdate, LockInv, CopiesCurrent, Updating
  <2>2. /\ \A d \in Callers \ {c} : pc'[d] = pc[d] /\ target'[d] = target[d]
        /\ pc'[c] = "idle"
    BY <1>14 DEF AbandonUpdate, Return, Goto, TypeOK, CallerType
  <2>3. CASE CopyRefused(c, e) /\ UNCHANGED registered
    <3>1. row' = row
      BY <2>3 DEF CopyRefused
    <3> QED
      BY <1>1, <2>1, <2>2, <2>3, <3>1
  <2>4. CASE CopyUpdate(c, e) /\ NoFault /\ registered' = [registered EXCEPT ![e] = FALSE]
    <3>1. copy[c].status = "ABANDONED" /\ row[e].status # NoRow
      BY <2>1 DEF CopyCurrent, Updating
    <3>2. row'[e].status = "ABANDONED" /\ \A f \in Execs \ {e} : row'[f] = row[f]
      BY <2>1, <2>4, <3>1 DEF CopyUpdate, TypeOK, ExecType, CallerType, Object
    <3>3. \A f \in Execs \ {e} : registered'[f] = registered[f]
      BY <2>4 DEF TypeOK, RunType
    <3>4. \A d \in Callers : pc[d] = "save" => target[d] # e
      BY <3>1 DEF LockInv, Saving
    <3> HIDE DEF e
    <3>5. SaveRegistered'
      BY <1>0, <2>2, <3>3, <3>4 DEF StopInv, SaveRegistered
    <3>6. Reachable'
      BY <2>1, <3>2, <3>3 DEF StopInv, Reachable
    <3>7. StopDelivered'
      BY <2>1, <2>2, <3>2 DEF StopInv, StopDelivered
    <3> QED
      BY <3>5, <3>6, <3>7 DEF StopInv
  <2> QED
    BY <1>14, <2>3, <2>4 DEF AbandonUpdate
<1>15. CASE Crash
  BY <1>15 DEF Crash, StopInv, SaveRegistered, Reachable, StopDelivered, Running
<1> QED
  BY <1>2, <1>3, <1>4, <1>5, <1>6, <1>7, <1>8, <1>9, <1>10, <1>11, <1>12, <1>13, <1>14, <1>15
  DEF Next, CallerStep, RunnerStep

\* An accepted Stop reaches the goroutine of the run, although its cancel
\* function may be forgotten: Abandon forgets it only together with a row that
\* says ABANDONED, and the lock keeps such a row from becoming STOPPING.
THEOREM StopsDelivered == ASSUME SQL PROVE Spec => []StopDelivered
<1>1. Init => StopInv
  BY DEF Init, StopInv, SaveRegistered, Reachable, StopDelivered, Running, NoRow
<1>2. TypeOK /\ LockInv /\ TypeOK' /\ StopInv /\ [Next]_vars => StopInv'
  BY StopStep
<1>3. StopInv => StopDelivered
  BY DEF StopInv
<1> QED
  BY <1>1, <1>2, <1>3, LockKept, PTL DEF Spec

-----------------------------------------------------------------------------
(* The end of a run is recorded, in either repository.                     *)

\* Others than the runner write STOPPING and ABANDONED only.
CopyStatus ==
  \A c \in Callers : pc[c] \in Updating => copy[c].status \in {"STOPPING", "ABANDONED"}
\* What is saved and run has been created.
CreatedFirst ==
  /\ \A e \in Execs : e > created => runner[e] = "none"
  /\ \A c \in Callers : pc[c] = "save" => target[c] <= created
\* Without failures and without others the object and the row agree on the version.
InStep ==
  SQL /\ faults = 0 =>
    /\ \A e \in Execs : ~phantom[e]
    /\ \A e \in Execs : row[e].status \notin {NoRow, "STOPPING", "ABANDONED"}
                          => row[e].version = obj[e].version
EndInv == CopyStatus /\ CreatedFirst /\ InStep /\ EndRecorded

\* Steps that write no row and end no run.
LEMMA EndFrame ==
  ASSUME TypeOK, TypeOK', EndInv, CreatedFirst', CopyStatus',
         \A e \in Execs :
           /\ row'[e] = row[e] /\ phantom'[e] = phantom[e]
           /\ obj'[e].version = obj[e].version
           /\ runner'[e] = "ended" => runner[e] = "ended" /\ obj'[e] = obj[e]
           /\ cancelled[e] => cancelled'[e],
         faults' = faults \/ faults' = faults + 1
  PROVE  EndInv'
<1>1. faults \in Nat /\ (faults' = 0 => faults = 0)
  BY DEF TypeOK, RunType
<1>2. InStep'
  BY <1>1 DEF EndInv, InStep
<1>3. EndRecorded'
  BY <1>1 DEF EndInv, EndRecorded
<1> QED
  BY <1>2, <1>3 DEF EndInv

\* Callers that go on with the copies they have, and executions that are there.
LEMMA CallersKept ==
  ASSUME CopyStatus, CreatedFirst, UNCHANGED <<created, runner>>,
         \A c \in Callers : pc'[c] = "save" => pc[c] = "save" /\ target'[c] = target[c],
         \A c \in Callers : pc'[c] \in Updating
            => \/ pc[c] \in Updating /\ copy'[c] = copy[c]
               \/ copy'[c].status \in {"STOPPING", "ABANDONED"}
  PROVE  CopyStatus' /\ CreatedFirst'
BY DEF CopyStatus, CreatedFirst

\* An update by a runner keeps them in step, and its last one records the end.
LEMMA EndRunnerUpdate ==
  ASSUME TypeOK, TypeOK', EndInv, SQL => LockInv, NEW e \in Execs,
         NEW s \in Statuses,
         RunnerUpdate(e, s, cancelled[e]), runner[e] \in Running,
         \A f \in Execs \ {e} : runner'[f] = runner[f], runner'[e] # "none",
         UNCHANGED <<lvars, cancelled, cvars>>
  PROVE  EndInv'
<1>1. /\ cancelled[e] \in BOOLEAN /\ faults \in Nat
      /\ row[e].version \in Nat /\ obj[e].version \in Nat
  BY DEF TypeOK, RunType, ExecType, Object
<1>2. CopyStatus' /\ CreatedFirst'
  BY DEF EndInv, CopyStatus, CreatedFirst, lvars, cvars, Running
<1>3. CASE InMemoryRepo
  <2>1. /\ row' = [row EXCEPT ![e].status = s] /\ obj' = [obj EXCEPT ![e].status = s]
        /\ faults' = faults
    BY <1>3 DEF RunnerUpdate, NoFault
  <2>2. /\ row'[e].status = s /\ obj'[e].status = s
        /\ \A f \in Execs \ {e} : row'[f] = row[f] /\ obj'[f] = obj[f]
    BY <2>1 DEF TypeOK, ExecType, Object
  <2>3. EndRecorded'
    BY <2>1, <2>2 DEF EndInv, EndRecorded
  <2> QED
    BY <1>2, <1>3, <2>3 DEF EndInv, InStep, SQL
<1>4. CASE SQL
  <2>1. /\ \A f \in Execs \ {e} : obj'[f] = obj[f] /\ row'[f] = row[f] /\ phantom'[f] = phantom[f]
        /\ obj'[e].status = s
    BY <1>1, <1>4, RunnerUpdateEffect
  <2>2. faults' = 0 => faults = 0
    BY <1>1 DEF RunnerUpdate, Fault, NoFault
  <2>3. CASE faults' # 0
    BY <1>2, <2>3 DEF EndInv, InStep, EndRecorded
  <2>4. CASE faults' = 0
    <3>1. row[e].status # NoRow /\ faults = 0 /\ ~phantom[e] /\ faults' = faults
      BY <1>4, <2>2, <2>4 DEF LockInv, Unsaved, Running, EndInv, InStep
    <3>2. \/ /\ row[e].version = obj[e].version /\ ~cancelled[e]
             /\ obj' = [obj EXCEPT ![e] = [status |-> s, version |-> @.version + 1]]
             /\ row' = [row EXCEPT ![e] = [status |-> s, version |-> @.version + 1]]
             /\ phantom' = phantom
          \/ /\ cancelled[e] \/ row[e].version # obj[e].version
             /\ obj' = [obj EXCEPT ![e].status = s] /\ UNCHANGED <<row, phantom>>
      BY <1>1, <1>4, <3>1 DEF RunnerUpdate, Fault, NoFault, SQL
    <3>3. CASE /\ row[e].version = obj[e].version /\ ~cancelled[e]
               /\ obj' = [obj EXCEPT ![e] = [status |-> s, version |-> @.version + 1]]
               /\ row' = [row EXCEPT ![e] = [status |-> s, version |-> @.version + 1]]
               /\ phantom' = phantom
      <4>1. obj'[e] = row'[e] /\ row'[e].status = obj'[e].status /\ row'[e].version = obj'[e].version
        BY <3>3 DEF TypeOK, ExecType, Object
      <4>2. InStep'
        BY <2>1, <2>2, <3>3, <4>1 DEF EndInv, InStep
      <4>3. EndRecorded'
        BY <2>1, <2>2, <4>1 DEF EndInv, EndRecorded
      <4> QED
        BY <1>2, <4>2, <4>3 DEF EndInv
    <3>4. CASE /\ cancelled[e] \/ row[e].version # obj[e].version
               /\ obj' = [obj EXCEPT ![e].status = s] /\ UNCHANGED <<row, phantom>>
      <4>1. obj'[e].version = obj[e].version
        BY <3>4 DEF TypeOK, ExecType, Object
      <4>2. InStep'
        BY <2>1, <2>2, <3>4, <4>1 DEF EndInv, InStep
      <4>3. cancelled[e] \/ row[e].status \in {"STOPPING", "ABANDONED"}
        BY <1>4, <3>1, <3>4 DEF EndInv, InStep
      <4>4. EndRecorded'
        BY <2>1, <2>2, <3>4, <4>3 DEF EndInv, EndRecorded
      <4> QED
        BY <1>2, <4>2, <4>4 DEF EndInv
    <3> QED
      BY <3>2, <3>3, <3>4
  <2> QED
    BY <2>3, <2>4
<1> QED
  BY <1>3, <1>4 DEF SQL

\* An update of a copy leaves a status that excuses the end.
LEMMA EndCopyUpdate ==
  ASSUME TypeOK, TypeOK', EndInv, NEW c \in Callers, pc[c] \in Updating,
         (CopyUpdate(c, target[c]) /\ NoFault) \/ CopyRefused(c, target[c]),
         UNCHANGED <<created, obj, runner, phantom, cancelled>>,
         \A d \in Callers \ {c} : pc'[d] = pc[d] /\ copy'[d] = copy[d] /\ target'[d] = target[d],
         pc'[c] \notin Updating \cup {"save"}
  PROVE  EndInv'
<1>1. target[c] \in Execs /\ copy[c].status \in {"STOPPING", "ABANDONED"}
  BY DEF TypeOK, CallerType, Updating, Execs, EndInv, CopyStatus
<1>2. \A f \in Execs : row'[f] = row[f] \/ row'[f].status \in {"STOPPING", "ABANDONED"}
  BY <1>1 DEF CopyUpdate, CopyRefused, TypeOK, ExecType, CallerType, Object
<1>3. faults \in Nat /\ (faults' = 0 => faults = 0)
  BY DEF TypeOK, RunType, CopyUpdate, CopyRefused, Fault, NoFault
<1>4. CopyStatus' /\ CreatedFirst'
  BY CallersKept DEF EndInv
<1>5. InStep'
  BY <1>2, <1>3 DEF EndInv, InStep
<1>6. EndRecorded'
  BY <1>2, <1>3 DEF EndInv, EndRecorded
<1> QED
  BY <1>4, <1>5, <1>6 DEF EndInv

\* Every step keeps the ends recorded.
LEMMA EndStep ==
  ASSUME TypeOK, TypeOK', SQL => LockInv, EndInv, [Next]_vars
  PROVE  EndInv'
<1> USE DEF lvars, rvars, cvars
<1>0. CopyStatus /\ CreatedFirst
  BY DEF EndInv
<1>1. ASSUME UNCHANGED <<created, obj, row, runner, phantom>>,
             \A f \in Execs : cancelled[f] => cancelled'[f],
             faults' = faults \/ faults' = faults + 1,
             \A c \in Callers : pc'[c] = "save" => pc[c] = "save" /\ target'[c] = target[c],
             \A c \in Callers : pc'[c] \in Updating
               => \/ pc[c] \in Updating /\ copy'[c] = copy[c]
                  \/ copy'[c].status \in {"STOPPING", "ABANDONED"}
      PROVE  EndInv'
  <2>1. CopyStatus' /\ CreatedFirst'
    BY <1>0, <1>1, CallersKept
  <2> QED
    BY <1>1, <2>1, EndFrame
<1>2. ASSUME NEW c \in Callers, LaunchFindInstance(c) \/ LaunchSaveInstance(c) PROVE EndInv'
  BY <1>1, <1>2
  DEF LaunchFindInstance, LaunchSaveInstance, Goto, Return, Updating, TypeOK, CallerType,
     Fault, NoFault
<1>3. ASSUME NEW c \in Callers, NEW e \in Execs, NEW s \in {"STOPPING", "ABANDONED"},
             copy' = [copy EXCEPT ![c] = [Row(e) EXCEPT !.status = s]],
             pc'[c] \in Updating, \A d \in Callers \ {c} : pc'[d] = pc[d] /\ target'[d] = target[d],
             UNCHANGED <<created, obj, row, runner, cancelled, phantom, faults>>
      PROVE  EndInv'
  <2>1. copy'[c].status = s /\ \A d \in Callers \ {c} : copy'[d] = copy[d]
    BY <1>3 DEF TypeOK, CallerType, ExecType, Row, Object
  <2> QED
    BY <1>1, <1>3, <2>1 DEF Updating
<1>4. ASSUME NEW c \in Callers, LaunchFindRestartable(c) PROVE EndInv'
  <2>1. CASE Goto(c, "create") /\ UNCHANGED <<target, copy>>
    BY <1>1, <1>4, <2>1 DEF LaunchFindRestartable, Goto, Updating, TypeOK, CallerType
  <2>2. ASSUME NEW e \in Execs, copy' = [copy EXCEPT ![c] = [Row(e) EXCEPT !.status = "ABANDONED"]],
               target' = [target EXCEPT ![c] = e], Goto(c, "abandonPrevious")
        PROVE  EndInv'
    BY <1>3, <1>4, <2>2 DEF LaunchFindRestartable, Goto, Updating, TypeOK, CallerType
  <2> QED
    BY <1>4, <2>1, <2>2 DEF LaunchFindRestartable
<1>5. ASSUME NEW c \in Callers, NEW e \in Execs, StopLoad(c, e) PROVE EndInv'
  BY <1>3, <1>5 DEF StopLoad, Goto, Updating, TypeOK, CallerType
<1>6. ASSUME NEW c \in Callers, NEW e \in Execs, AbandonLoad(c, e) PROVE EndInv'
  BY <1>3, <1>6 DEF AbandonLoad, Goto, Updating, TypeOK, CallerType
<1>7. ASSUME NEW c \in Callers, NEW e \in Execs, RestartLoad(c, e) PROVE EndInv'
  BY <1>1, <1>7 DEF RestartLoad, Goto, Updating, TypeOK, CallerType
<1>8. ASSUME NEW c \in Callers, LaunchAbandonPrevious(c) PROVE EndInv'
  BY <1>8, EndCopyUpdate DEF LaunchAbandonPrevious, Goto, Updating, TypeOK, CallerType
<1>9. ASSUME NEW c \in Callers, StopUpdate(c) PROVE EndInv'
  BY <1>9, EndCopyUpdate DEF StopUpdate, Goto, Return, Updating, TypeOK, CallerType
<1>10. ASSUME NEW c \in Callers, AbandonUpdate(c) PROVE EndInv'
  BY <1>10, EndCopyUpdate DEF AbandonUpdate, Goto, Return, Updating, TypeOK, CallerType
<1>11. ASSUME NEW c \in Callers, StopCancel(c) PROVE EndInv'
  <2>1. \A f \in Execs : cancelled[f] => cancelled'[f]
    BY <1>11 DEF StopCancel, TypeOK, RunType
  <2> QED
    BY <1>1, <1>11, <2>1 DEF StopCancel, Goto, Return, Updating, TypeOK, CallerType
<1>12. ASSUME NEW c \in Callers, LaunchCreate(c) PROVE EndInv'
  <2>1. /\ UNCHANGED <<row, runner, cancelled, phantom, faults, copy>>
        /\ created' = created + 1 /\ created + 1 \in Execs /\ created \in Nat
    BY <1>12, LifecycleAssumption DEF LaunchCreate, TypeOK, ExecType, Execs
  <2>2. runner[created + 1] = "none"
    BY <1>0, <2>1 DEF CreatedFirst
  <2>3. \A f \in Execs : /\ obj'[f].version = obj[f].version
                         /\ f # created + 1 => obj'[f] = obj[f]
    BY <1>12, <2>1 DEF LaunchCreate, TypeOK, ExecType, Object
  <2>4. /\ pc'[c] = "save" /\ target'[c] = created + 1
        /\ \A d \in Callers \ {c} : pc'[d] = pc[d] /\ target'[d] = target[d]
    BY <1>12 DEF LaunchCreate, Goto, TypeOK, CallerType
  <2>5. CopyStatus'
    BY <1>0, <2>1, <2>4 DEF CopyStatus, Updating
  <2>6. CreatedFirst'
    <3>1. \A f \in Execs : f > created' => f > created
      BY <2>1 DEF Execs
    <3>2. \A d \in Callers \ {c} : pc[d] = "save" => target[d] <= created'
      BY <1>0, <2>1 DEF CreatedFirst, TypeOK, CallerType
    <3> QED
      BY <1>0, <2>1, <2>4, <3>1, <3>2 DEF CreatedFirst
  <2> QED
    BY <2>1, <2>2, <2>3, <2>5, <2>6, EndFrame
<1>13. ASSUME NEW c \in Callers, LaunchSave(c) PROVE EndInv'
  <2> DEFINE e == target[c]
  <2>1. /\ e \in Execs /\ UNCHANGED <<created, obj, cancelled, phantom>> /\ faults \in Nat
        /\ e <= created
    BY <1>0, <1>13 DEF LaunchSave, TypeOK, CallerType, RunType, Execs, CreatedFirst
  <2>2. pc'[c] = "idle" /\ \A d \in Callers \ {c} : /\ pc'[d] = pc[d] /\ target'[d] = target[d]
                                                     /\ copy'[d] = copy[d]
    BY <1>13 DEF LaunchSave, Goto, Return, TypeOK, CallerType
  <2>3. CASE /\ faults' = faults /\ row' = [row EXCEPT ![e] = obj[e]]
             /\ runner' = [runner EXCEPT ![e] = "queued"]
    <3>1. /\ row'[e] = obj[e] /\ runner'[e] = "queued"
          /\ \A f \in Execs \ {e} : row'[f] = row[f] /\ runner'[f] = runner[f]
      BY <2>1, <2>3 DEF TypeOK, ExecType, RunType
    <3>2. InStep' /\ EndRecorded'
      BY <2>1, <2>3, <3>1 DEF EndInv, InStep, EndRecorded
    <3>3. ~(e > created)
      BY <2>1 DEF Execs, TypeOK, ExecType
    <3> HIDE DEF e
    <3>4. CreatedFirst' /\ CopyStatus'
      BY <1>0, <2>1, <2>2, <3>1, <3>3 DEF CreatedFirst, CopyStatus, Updating
    <3> QED
      BY <3>2, <3>4 DEF EndInv
  <2>4. CASE faults' = faults + 1 /\ UNCHANGED <<row, runner>>
    BY <1>1, <2>1, <2>2, <2>4 DEF Updating
  <2> QED
    BY <1>13, <2>3, <2>4 DEF LaunchSave, Fault, NoFault
<1>14. ASSUME NEW e \in Execs, RunnerStart(e) \/ RunnerPromotes(e) \/ RunnerEnds(e) PROVE EndInv'
  <2>1. /\ runner[e] \in Running /\ \A f \in Execs \ {e} : runner'[f] = runner[f]
        /\ runner'[e] # "none" /\ UNCHANGED <<lvars, cancelled, cvars>>
    BY <1>14 DEF RunnerStart, RunnerPromotes, RunnerEnds, Running, TypeOK, RunType
  <2>2. \E s \in Statuses : RunnerUpdate(e, s, cancelled[e])
    <3>1. obj[e].status \in Statuses /\ "STARTED" \in Statuses
      BY DEF TypeOK, ExecType, Object, Statuses
    <3> QED
      BY <1>14, <3>1 DEF RunnerStart, RunnerPromotes, RunnerEnds
  <2> QED
    BY <2>1, <2>2, EndRunnerUpdate
<1>15. ASSUME NEW e \in Execs, RunnerElementFails(e) \/ RunnerFlowEnds(e) PROVE EndInv'
  <2>1. UNCHANGED <<created, row, cancelled, phantom, faults, pc, target, copy>> /\ runner[e] = "running"
    BY <1>15 DEF RunnerElementFails, RunnerFlowEnds
  <2>2. \A f \in Execs : obj'[f].version = obj[f].version /\ (f # e => obj'[f] = obj[f])
    BY <1>15 DEF RunnerElementFails, RunnerFlowEnds, TypeOK, ExecType, Object
  <2>3. \A f \in Execs : runner'[f] = runner[f] \/ (f = e /\ runner'[f] = "ending")
    BY <1>15 DEF RunnerElementFails, RunnerFlowEnds, TypeOK, RunType
  <2>4. CopyStatus' /\ CreatedFirst'
    BY <1>0, <2>1, <2>3 DEF CopyStatus, CreatedFirst
  <2>5. \A f \in Execs : runner'[f] = "ended" => runner[f] = "ended" /\ obj'[f] = obj[f]
    BY <2>1, <2>2, <2>3
  <2> QED
    BY <2>1, <2>2, <2>4, <2>5, EndFrame
<1>16. ASSUME NEW e \in Execs, LaunchContextCancelled(e) PROVE EndInv'
  <2>1. \A f \in Execs : cancelled[f] => cancelled'[f]
    BY <1>16 DEF LaunchContextCancelled, TypeOK, RunType
  <2> QED
    BY <1>1, <1>16, <2>1 DEF LaunchContextCancelled, Fault
<1>17. CASE Crash
  <2>1. \A f \in Execs : runner'[f] = runner[f] \/ (runner'[f] = "dead" /\ runner[f] \in Running)
    BY <1>17 DEF Crash
  <2>2. CopyStatus' /\ CreatedFirst'
    BY <1>0, <1>17, <2>1 DEF Crash, CopyStatus, CreatedFirst, Updating, Running
  <2> QED
    BY <1>17, <2>1, <2>2, EndFrame DEF Crash, Fault
<1>18. CASE UNCHANGED vars
  BY <1>1, <1>18 DEF vars
<1> QED
  BY <1>2, <1>4, <1>5, <1>6, <1>7, <1>8, <1>9, <1>10, <1>11, <1>12, <1>13, <1>14, <1>15, <1>16,
     <1>17, <1>18 DEF Next, CallerStep, RunnerStep

\* The end of a run that nobody stopped or abandoned and nothing failed for is in
\* the repository, with the optimistic lock of SQL as well as in memory: others
\* only write STOPPING and ABANDONED, so that the version the runner keeps is
\* current when its last update needs it.
THEOREM EndsRecorded == Spec => []EndRecorded
<1>1. Init => EndInv
  BY DEF Init, EndInv, CopyStatus, CreatedFirst, InStep, EndRecorded, Updating
<1>2. EndInv => EndRecorded
  BY DEF EndInv
<1>3. CASE SQL
  <2>1. TypeOK /\ LockInv /\ TypeOK' /\ EndInv /\ [Next]_vars => EndInv'
    BY EndStep
  <2>2. Spec => [](TypeOK /\ LockInv)
    BY <1>3, LockKept
  <2> QED
    BY <1>1, <1>2, <2>1, <2>2, PTL DEF Spec
<1>4. CASE ~SQL
  <2>1. TypeOK /\ TypeOK' /\ EndInv /\ [Next]_vars => EndInv'
    BY <1>4, EndStep
  <2> QED
    BY <1>1, <1>2, <2>1, LifecycleTypes, PTL DEF Spec
<1> QED
  BY <1>3, <1>4

-----------------------------------------------------------------------------
(***************************************************************************)
(* From here on: what a process does until its job runs (module JobStart). *)
(***************************************************************************)

-----------------------------------------------------------------------------
(* Paths. *)

LEMMA PrefixIs ==
  ASSUME NEW S, NEW p \in Seq(S), NEW q \in Seq(S)
  PROVE  IsPrefix(p, q) <=> Len(p) <= Len(q) /\ \A i \in 1..Len(p) : p[i] = q[i]
<1>1. Len(p) \in Nat /\ Len(q) \in Nat
  OBVIOUS
<1>2. /\ SubSeq(p, 1, Len(p)) \in Seq(S) /\ Len(SubSeq(p, 1, Len(p))) = Len(p)
      /\ \A i \in 1..Len(p) : SubSeq(p, 1, Len(p))[i] = p[i]
  OBVIOUS
<1>3. ASSUME Len(p) <= Len(q)
      PROVE  /\ SubSeq(q, 1, Len(p)) \in Seq(S) /\ Len(SubSeq(q, 1, Len(p))) = Len(p)
             /\ \A i \in 1..Len(p) : SubSeq(q, 1, Len(p))[i] = q[i]
  BY <1>1, <1>3
<1>4. ASSUME Len(p) <= Len(q), \A i \in 1..Len(p) : p[i] = q[i]
      PROVE  SubSeq(p, 1, Len(p)) = SubSeq(q, 1, Len(p))
  BY <1>1, <1>2, <1>3, <1>4, SeqEqual
<1>5. ASSUME IsPrefix(p, q)
      PROVE  Len(p) <= Len(q) /\ \A i \in 1..Len(p) : p[i] = q[i]
  <2>1. Len(p) <= Len(q) /\ SubSeq(p, 1, Len(p)) = SubSeq(q, 1, Len(p))
    BY <1>5 DEF IsPrefix
  <2> QED
    BY <1>2, <1>3, <2>1
<1> QED
  BY <1>4, <1>5 DEF IsPrefix

\* What follows a prefix.
Rest(p, q) == SubSeq(q, Len(p) + 1, Len(q))

LEMMA RestIs ==
  ASSUME NEW S, NEW p \in Seq(S), NEW q \in Seq(S), IsPrefix(p, q)
  PROVE  Rest(p, q) \in Seq(S) /\ p \o Rest(p, q) = q
<1>1. /\ Len(p) \in Nat /\ Len(q) \in Nat /\ Len(p) <= Len(q)
      /\ \A i \in 1..Len(p) : p[i] = q[i]
  BY PrefixIs
<1>2. /\ Rest(p, q) \in Seq(S) /\ Len(Rest(p, q)) = Len(q) - Len(p)
      /\ \A i \in 1..(Len(q) - Len(p)) : Rest(p, q)[i] = q[Len(p) + i]
  BY <1>1 DEF Rest
<1>3. p \o Rest(p, q) \in Seq(S) /\ Len(p \o Rest(p, q)) = Len(q)
  BY <1>1, <1>2
<1>4. ASSUME NEW i \in 1..Len(q) PROVE (p \o Rest(p, q))[i] = q[i]
  <2>1. CASE i <= Len(p)
    BY <1>1, <1>2, <2>1
  <2>2. CASE i > Len(p)
    <3>1. i - Len(p) \in 1..(Len(q) - Len(p)) /\ Len(p) + (i - Len(p)) = i
      BY <1>1, <2>2
    <3>2. (p \o Rest(p, q))[i] = Rest(p, q)[i - Len(p)]
      BY <1>1, <1>2, <2>2
    <3> QED
      BY <1>2, <3>1, <3>2
  <2>3. i <= Len(p) \/ i > Len(p)
    BY <1>1
  <2> QED
    BY <2>1, <2>2, <2>3, Zenon
<1> QED
  BY <1>2, <1>3, <1>4, SeqEqual

LEMMA ConcatIs ==
  ASSUME NEW S, NEW p \in Seq(S), NEW r \in Seq(S)
  PROVE  p \o r \in Seq(S) /\ IsPrefix(p, p \o r) /\ Rest(p, p \o r) = r
<1>1. /\ Len(p) \in Nat /\ Len(r) \in Nat /\ p \o r \in Seq(S) /\ Len(p \o r) = Len(p) + Len(r)
      /\ \A i \in 1..Len(p) : (p \o r)[i] = p[i]
      /\ \A i \in 1..Len(r) : (p \o r)[Len(p) + i] = r[i]
  BY ConcatProperties
<1>2. IsPrefix(p, p \o r)
  <2>1. Len(p) <= Len(p \o r)
    BY <1>1
  <2>2. \A i \in 1..Len(p) : p[i] = (p \o r)[i]
    BY <1>1
  <2> QED
    BY <1>1, <2>1, <2>2, PrefixIs
<1>3. Rest(p, p \o r) \in Seq(S) /\ Len(Rest(p, p \o r)) = Len(r)
  BY <1>1 DEF Rest
<1>4. \A i \in 1..Len(r) : Rest(p, p \o r)[i] = r[i]
  BY <1>1 DEF Rest
<1>5. Rest(p, p \o r) = r
  BY <1>3, <1>4, SeqEqual
<1> QED
  BY <1>1, <1>2, <1>5

LEMMA PrefixExtends ==
  ASSUME NEW S, NEW p \in Seq(S), NEW q \in Seq(S)
  PROVE  IsPrefix(p, q) <=> \E r \in Seq(S) : q = p \o r
<1>1. ASSUME IsPrefix(p, q) PROVE \E r \in Seq(S) : q = p \o r
  BY <1>1, RestIs
<1>2. ASSUME NEW r \in Seq(S), q = p \o r PROVE IsPrefix(p, q)
  BY <1>2, ConcatIs
<1> QED
  BY <1>1, <1>2

\* A prefix of what follows is one of the whole.
LEMMA RestPrefix ==
  ASSUME NEW S, NEW p \in Seq(S), NEW r \in Seq(S), NEW s \in Seq(S)
  PROVE  IsPrefix(r, s) <=> IsPrefix(p \o r, p \o s)
<1>1. p \o r \in Seq(S) /\ p \o s \in Seq(S)
  BY ConcatProperties
<1>2. ASSUME IsPrefix(r, s) PROVE IsPrefix(p \o r, p \o s)
  <2>1. PICK u \in Seq(S) : s = r \o u
    BY <1>2, PrefixExtends
  <2>2. p \o s = (p \o r) \o u
    BY <2>1, ConcatAssociative
  <2> QED
    BY <1>1, <2>2, PrefixExtends
<1>3. ASSUME IsPrefix(p \o r, p \o s) PROVE IsPrefix(r, s)
  <2>a. \A a, b \in Seq(S) : IsPrefix(a, b) => \E u \in Seq(S) : b = a \o u
    BY PrefixExtends
  <2>1. PICK u \in Seq(S) : p \o s = (p \o r) \o u
    BY <1>1, <1>3, <2>a, Zenon
  <2>2. p \o s = p \o (r \o u) /\ r \o u \in Seq(S)
    BY <2>1, ConcatAssociative, ConcatProperties
  <2>b. \A x \in Seq(S) : Rest(p, p \o x) = x
    BY ConcatIs
  <2>3. s = r \o u
    BY <2>2, <2>b, Zenon
  <2> QED
    BY <2>3, PrefixExtends
<1> QED
  BY <1>2, <1>3

\* Of two prefixes of a path one is a prefix of the other.
LEMMA TwoPrefixes ==
  ASSUME NEW S, NEW p \in Seq(S), NEW q \in Seq(S), NEW r \in Seq(S), IsPrefix(p, r), IsPrefix(q, r)
  PROVE  IsPrefix(p, q) \/ IsPrefix(q, p)
<1>1. /\ Len(p) \in Nat /\ Len(q) \in Nat /\ Len(r) \in Nat
      /\ \A i \in 1..Len(p) : p[i] = r[i]
      /\ \A i \in 1..Len(q) : q[i] = r[i]
  BY PrefixIs
<1>2. CASE Len(p) <= Len(q)
  BY <1>1, <1>2, PrefixIs
<1>3. CASE Len(q) <= Len(p)
  BY <1>1, <1>3, PrefixIs
<1> QED
  BY <1>1, <1>2, <1>3

LEMMA PrefixTransitive ==
  ASSUME NEW S, NEW p \in Seq(S), NEW q \in Seq(S), NEW r \in Seq(S), IsPrefix(p, q), IsPrefix(q, r)
  PROVE  IsPrefix(p, r)
<1>1. /\ Len(p) \in Nat /\ Len(q) \in Nat /\ Len(r) \in Nat /\ Len(p) <= Len(q) /\ Len(q) <= Len(r)
      /\ \A i \in 1..Len(p) : p[i] = q[i]
      /\ \A i \in 1..Len(q) : q[i] = r[i]
  BY PrefixIs
<1> QED
  BY <1>1, PrefixIs

-----------------------------------------------------------------------------
(* Contexts. *)

LEMMA AtIs ==
  ASSUME NEW ec, NEW path \in Paths, TreeOK(ec)
  PROVE  /\ \A r \in DOMAIN At(ec, path) :
              r \in Paths /\ path \o r \in DOMAIN ec /\ At(ec, path)[r] = ec[path \o r]
         /\ \A r \in Paths : path \o r \in DOMAIN ec => r \in DOMAIN At(ec, path)
<1> DEFINE D == {SubSeq(p, Len(path) + 1, Len(p)) : p \in {q \in DOMAIN ec : IsPrefix(path, q)}}
<1>1. DOMAIN At(ec, path) = D /\ \A r \in D : At(ec, path)[r] = ec[path \o r]
  BY DEF At
<1>2. DOMAIN ec \subseteq Paths
  BY DEF TreeOK
<1>3. ASSUME NEW r \in D PROVE r \in Paths /\ path \o r \in DOMAIN ec
  <2>1. PICK p \in DOMAIN ec : IsPrefix(path, p) /\ r = Rest(path, p)
    BY <1>3 DEF Rest
  <2>2. r \in Paths /\ path \o r = p
    BY <1>2, <2>1, RestIs DEF Paths
  <2> QED
    BY <2>2
<1>4. ASSUME NEW r \in Paths, path \o r \in DOMAIN ec PROVE r \in D
  <2>1. IsPrefix(path, path \o r) /\ Rest(path, path \o r) = r
    BY ConcatIs DEF Paths
  <2> QED
    BY <1>4, <2>1 DEF Rest
<1> HIDE DEF D
<1> QED
  BY <1>1, <1>3, <1>4

LEMMA AtTree ==
  ASSUME NEW ec, NEW path \in Paths, TreeOK(ec)
  PROVE  TreeOK(At(ec, path))
<1>1. /\ \A r \in DOMAIN At(ec, path) :
           r \in Paths /\ path \o r \in DOMAIN ec /\ At(ec, path)[r] = ec[path \o r]
  BY AtIs
<1>2. ASSUME NEW r \in DOMAIN At(ec, path), NEW s \in DOMAIN At(ec, path), IsStrictPrefix(r, s)
      PROVE  IsMap(At(ec, path)[r])
  <2>1. r \in Paths /\ s \in Paths /\ IsPrefix(r, s) /\ r # s
    BY <1>1, <1>2 DEF IsStrictPrefix
  <2>2. IsPrefix(path \o r, path \o s)
    BY <2>1, RestPrefix DEF Paths
  <2>3. Rest(path, path \o r) = r /\ Rest(path, path \o s) = s
    BY <2>1, ConcatIs DEF Paths
  <2>4. path \o r # path \o s
    BY <2>1, <2>3
  <2>5. IsMap(ec[path \o r])
    BY <1>1, <2>2, <2>4 DEF TreeOK, IsStrictPrefix
  <2> QED
    BY <1>1, <2>5
<1>3. ASSUME NEW r \in DOMAIN At(ec, path)
      PROVE  r \in Paths /\ At(ec, path)[r] \in Scalars \cup Maps
  BY <1>1 DEF TreeOK
<1> QED
  BY <1>2, <1>3 DEF TreeOK

LEMMA WayIs ==
  ASSUME NEW key \in Keys, NEW n \in 1..Len(key)
  PROVE  /\ Len(key) \in Nat /\ Len(key) # 0
         /\ Way(key, n) \in Paths /\ Len(Way(key, n)) = n
         /\ \A i \in 1..n : Way(key, n)[i] = <<key[i]>>
<1>1. key \in Seq(STRING) /\ key # <<>>
  BY DEF Keys
<1>2. Len(key) \in Nat /\ Len(key) # 0 /\ \A i \in 1..Len(key) : key[i] \in STRING
  BY <1>1
<1>3. \A i \in 1..n : i \in 1..Len(key)
  BY <1>2
<1>4. ASSUME NEW i \in 1..n PROVE <<key[i]>> \in Keys
  <2>1. key[i] \in STRING
    BY <1>2, <1>3
  <2>2. <<key[i]>> \in Seq(STRING) /\ <<key[i]>> # <<>>
    BY <2>1
  <2> QED
    BY <2>2 DEF Keys
<1>5. n \in Nat
  BY <1>2
<1>6. Way(key, n) \in [1..n -> Keys]
  BY <1>4 DEF Way
<1>7. Way(key, n) \in Seq(Keys) /\ Len(Way(key, n)) = n
  BY <1>5, <1>6
<1>8. \A i \in 1..n : Way(key, n)[i] = <<key[i]>>
  BY DEF Way
<1> QED
  BY <1>2, <1>7, <1>8 DEF Paths

LEMMA WayTo ==
  ASSUME NEW key \in Keys, NEW n \in 1..Len(key), NEW p \in Paths, p # <<>>,
         IsStrictPrefix(p, Way(key, n))
  PROVE  \E m \in 1..(Len(key) - 1) : p = Way(key, m) /\ m < n
<1>1. /\ Len(key) \in Nat /\ Way(key, n) \in Paths /\ Len(Way(key, n)) = n
      /\ \A i \in 1..n : Way(key, n)[i] = <<key[i]>>
  BY WayIs
<1>2. IsPrefix(p, Way(key, n)) /\ p # Way(key, n)
  BY DEF IsStrictPrefix
<1>3. Len(p) <= n /\ \A i \in 1..Len(p) : p[i] = Way(key, n)[i]
  BY <1>1, <1>2, PrefixIs DEF Paths
<1>4. Len(p) \in Nat /\ Len(p) # 0 /\ p \in Seq(Keys)
  BY DEF Paths
<1>5. Len(p) \in 1..Len(key)
  BY <1>1, <1>3, <1>4
<1>6. Way(key, Len(p)) \in Seq(Keys) /\ Len(Way(key, Len(p))) = Len(p)
      /\ \A i \in 1..Len(p) : Way(key, Len(p))[i] = <<key[i]>>
  BY <1>5, WayIs DEF Paths
<1>7. \A i \in 1..Len(p) : p[i] = <<key[i]>>
  BY <1>1, <1>3, <1>4
<1>8. p = Way(key, Len(p))
  BY <1>4, <1>6, <1>7, SeqEqual
<1>9. Len(p) # n
  BY <1>2, <1>8
<1>10. Len(p) \in 1..(Len(key) - 1) /\ Len(p) < n
  BY <1>1, <1>3, <1>5, <1>9
<1> QED
  BY <1>8, <1>10

\* PutNested of a tree keeps a context a tree: what is below a node that is
\* replaced goes with it.
LEMMA PutNestedKeeps ==
  ASSUME NEW ec, NEW key \in Keys, NEW x, ContextOK(ec), TreeOK(x)
  PROVE  ContextOK(PutNested(ec, key, x))
<1> DEFINE leaf == Way(key, Len(key))
           way    == {Way(key, n) : n \in 1..(Len(key) - 1)}
           kept   == {p \in DOMAIN ec : \A w \in way : IsPrefix(w, p) => ec[w] = NewMap}
           A      == {q \in kept : ~IsPrefix(leaf, q)}
           C      == {leaf \o r : r \in DOMAIN x}
           put    == PutNested(ec, key, x)
<1>1. /\ DOMAIN put = A \cup way \cup C
      /\ \A p \in A \cup way \cup C :
           put[p] = IF IsPrefix(leaf, p) THEN x[Rest(leaf, p)]
                    ELSE IF p \in way THEN NewMap ELSE ec[p]
  BY DEF PutNested, Rest
<1>2. Len(key) \in Nat /\ Len(key) \in 1..Len(key)
  <2>1. key \in Seq(STRING) /\ key # <<>>
    BY DEF Keys
  <2> QED
    BY <2>1
<1>3. leaf \in Paths /\ Len(leaf) = Len(key)
  BY <1>2, WayIs
<1>4. ASSUME NEW w \in way PROVE w \in Paths /\ Len(w) \in Nat /\ Len(w) < Len(leaf) /\ Len(w) # 0
  <2>1. PICK n \in 1..(Len(key) - 1) : w = Way(key, n)
    BY <1>4
  <2>2. n \in 1..Len(key) /\ n \in Nat
    BY <1>2, <2>1
  <2>3. w \in Paths /\ Len(w) = n
    BY <2>1, <2>2, WayIs
  <2>4. n < Len(key) /\ n # 0
    BY <1>2, <2>1
  <2> QED
    BY <1>3, <2>2, <2>3, <2>4
<1>5. ASSUME NEW p \in Paths, p # <<>>, NEW n \in 1..Len(key), IsStrictPrefix(p, Way(key, n))
      PROVE  p \in way
  BY <1>5, WayTo
<1>6. ASSUME NEW p \in A
      PROVE  /\ p \in DOMAIN ec /\ p \in Paths /\ p # <<>> /\ ~IsPrefix(leaf, p)
             /\ ec[p] \in Scalars \cup Maps
  BY <1>6 DEF ContextOK, TreeOK
<1>7. ASSUME NEW c \in C
      PROVE  \E r \in DOMAIN x : /\ r \in Paths /\ c = leaf \o r /\ c \in Paths /\ c # <<>>
                                 /\ IsPrefix(leaf, c) /\ Rest(leaf, c) = r
  <2>1. PICK r \in DOMAIN x : c = leaf \o r
    BY <1>7
  <2>2. r \in Paths
    BY DEF TreeOK
  <2>3. c \in Paths /\ IsPrefix(leaf, c) /\ Rest(leaf, c) = r
    BY <1>3, <2>1, <2>2, ConcatIs DEF Paths
  <2>4. Len(leaf) <= Len(c)
    BY <1>3, <2>3, PrefixIs DEF Paths
  <2>5. c # <<>>
    BY <1>2, <1>3, <2>4
  <2> QED
    BY <2>1, <2>2, <2>3, <2>5
<1>8. ASSUME NEW w \in way PROVE ~IsPrefix(leaf, w) /\ w # <<>>
  <2>1. w \in Paths /\ Len(w) \in Nat /\ Len(w) < Len(leaf) /\ Len(w) # 0
    BY <1>4
  <2>2. ASSUME IsPrefix(leaf, w) PROVE FALSE
    <3>1. Len(leaf) <= Len(w)
      BY <1>3, <2>1, <2>2, PrefixIs DEF Paths
    <3> QED
      BY <1>2, <1>3, <2>1, <3>1
  <2> QED
    BY <2>1, <2>2
<1>9. \A n \in 1..(Len(key) - 1) : n \in 1..Len(key)
  BY <1>2
<1>10. ASSUME NEW p \in A \cup way \cup C
       PROVE  p \in Paths /\ p # <<>> /\ put[p] \in Scalars \cup Maps
  <2>1. CASE p \in A
    <3>1. CASE p \in way
      BY <1>1, <1>4, <1>6, <2>1, <3>1 DEF NewMap, Maps
    <3>2. CASE p \notin way
      BY <1>1, <1>6, <2>1, <3>2
    <3> QED
      BY <3>1, <3>2
  <2>2. CASE p \in way
    BY <1>1, <1>4, <1>8, <2>2 DEF NewMap, Maps
  <2>3. CASE p \in C
    <3>1. PICK r \in DOMAIN x : p \in Paths /\ p # <<>> /\ IsPrefix(leaf, p) /\ Rest(leaf, p) = r
      BY <1>7, <2>3
    <3>2. put[p] = x[r]
      BY <1>1, <2>3, <3>1
    <3> QED
      BY <3>1, <3>2 DEF TreeOK
  <2> QED
    BY <2>1, <2>2, <2>3
<1>11. ASSUME NEW p \in A \cup way \cup C, NEW q \in A \cup way \cup C, IsStrictPrefix(p, q)
       PROVE  IsMap(put[p])
  <2>1. p \in Paths /\ q \in Paths /\ p # <<>> /\ IsPrefix(p, q) /\ p # q
    BY <1>10, <1>11 DEF IsStrictPrefix
  <2>2. CASE IsPrefix(leaf, p)
    <3>1. p \in C
      BY <1>6, <1>8, <2>2
    <3>2. IsPrefix(leaf, q)
      BY <1>3, <2>1, <2>2, PrefixTransitive DEF Paths
    <3>3. q \in C
      BY <1>6, <1>8, <3>2
    <3>4. PICK r \in DOMAIN x : r \in Paths /\ p = leaf \o r /\ Rest(leaf, p) = r
      BY <1>7, <3>1
    <3>5. PICK s \in DOMAIN x : s \in Paths /\ q = leaf \o s
      BY <1>7, <3>3
    <3>6. IsPrefix(r, s)
      BY <1>3, <2>1, <3>4, <3>5, RestPrefix DEF Paths
    <3>7. IsStrictPrefix(r, s)
      BY <2>1, <3>4, <3>5, <3>6 DEF IsStrictPrefix
    <3>8. IsMap(x[r])
      BY <3>7 DEF TreeOK
    <3> QED
      BY <1>1, <2>2, <3>4, <3>8
  <2>3. CASE p \in way
    BY <1>1, <1>8, <2>3 DEF NewMap, IsMap
  <2>4. CASE ~IsPrefix(leaf, p) /\ p \notin way
    <3>1. p \in A
      BY <1>7, <2>4
    <3>2. put[p] = ec[p]
      BY <1>1, <2>4
    <3>3. CASE q \in A
      BY <1>6, <1>11, <3>1, <3>2, <3>3 DEF ContextOK, TreeOK
    <3>4. CASE q \in way
      <4>1. PICK n \in 1..(Len(key) - 1) : q = Way(key, n)
        BY <3>4
      <4>2. p \in way
        BY <1>5, <1>9, <1>11, <2>1, <4>1
      <4> QED
        BY <2>4, <4>2
    <3>5. CASE q \in C
      <4>1. IsPrefix(leaf, q)
        BY <1>7, <3>5
      <4>2. IsPrefix(p, leaf)
        BY <1>3, <2>1, <2>4, <4>1, TwoPrefixes DEF Paths
      <4>3. IsPrefix(leaf, leaf)
        BY <1>3, PrefixIs DEF Paths
      <4>4. IsStrictPrefix(p, leaf)
        BY <2>4, <4>2, <4>3 DEF IsStrictPrefix
      <4>5. p \in way
        BY <1>2, <1>5, <2>1, <4>4
      <4> QED
        BY <2>4, <4>5
    <3> QED
      BY <3>3, <3>4, <3>5
  <2> QED
    BY <2>2, <2>3, <2>4
<1> HIDE DEF leaf, way, A, C, put
<1> QED
  BY <1>1, <1>10, <1>11 DEF ContextOK, TreeOK, put

LEMMA GetNestedTree ==
  ASSUME NEW ec, NEW key \in Keys, TreeOK(ec)
  PROVE  TreeOK(GetNested(ec, key))
<1>1. <<key>> \in Paths
  BY DEF Paths
<1>2. Len(key) \in 1..Len(key)
  <2>1. key \in Seq(STRING) /\ key # <<>>
    BY DEF Keys
  <2> QED
    BY <2>1
<1>3. Way(key, Len(key)) \in Paths
  BY <1>2, WayIs
<1>4. TreeOK(Absent)
  BY DEF TreeOK, Absent, NewExecutionContext
<1>5. TreeOK(At(ec, <<key>>)) /\ TreeOK(At(ec, Way(key, Len(key))))
  BY <1>1, <1>3, AtTree
<1> QED
  BY <1>4, <1>5 DEF GetNested, Walk

\* Promote, key by key.
Promoted(ec, step, pair) ==
  LET x == GetNested(step, pair[1]) IN IF x = Absent THEN ec ELSE PutNested(ec, pair[2], x)

LEMMA PromotedKeeps ==
  ASSUME NEW ec, NEW step, NEW pair \in Keys \X Keys, ContextOK(ec), TreeOK(step)
  PROVE  ContextOK(Promoted(ec, step, pair))
<1>1. pair[1] \in Keys /\ pair[2] \in Keys
  OBVIOUS
<1>2. TreeOK(GetNested(step, pair[1]))
  BY <1>1, GetNestedTree
<1> QED
  BY <1>1, <1>2, PutNestedKeeps DEF Promoted

LEMMA Least ==
  ASSUME NEW T, T \subseteq Nat, T # {}
  PROVE  \E x \in T : \A y \in T : x <= y
<1>1. ASSUME NEW R, \A x, y \in Nat : y < x => <<y, x>> \in R,
             \E x \in T : \A y \in T : <<y, x>> \notin R
      PROVE  \E x \in T : \A y \in T : x <= y
  <2>1. PICK x \in T : \A y \in T : <<y, x>> \notin R
    BY <1>1
  <2>2. \A y \in T : x <= y
    <3>1. SUFFICES ASSUME NEW y \in T PROVE x <= y
      OBVIOUS
    <3>2. x \in Nat /\ y \in Nat
      OBVIOUS
    <3>3. y < x => <<y, x>> \in R
      BY <1>1, <3>2
    <3>4. ~(y < x)
      BY <2>1, <3>3
    <3> QED
      BY <3>2, <3>4
  <2> QED
    BY <2>2
<1>2. \A x, y \in Nat : y < x => <<y, x>> \in OpToRel(<, Nat)
  BY DEF OpToRel
<1>3. \E x \in T : \A y \in T : <<y, x>> \notin OpToRel(<, Nat)
  BY NatLessThanWellFounded, WFMin
<1> QED
  BY <1>1, <1>2, <1>3, Zenon

\* f is the function Promote defines, up to the first n keys.
Promotes(f, job, step, keys, n) ==
  f = [m \in 0..n |-> IF m = 0 THEN job ELSE Promoted(f[m - 1], step, keys[m])]

LEMMA PromotesExist ==
  ASSUME NEW job, NEW step, NEW keys \in Seq(Keys \X Keys)
  PROVE  \E f : Promotes(f, job, step, keys, Len(keys))
<1> DEFINE B == {n \in 0..Len(keys) : ~ \E f : Promotes(f, job, step, keys, n)}
<1>1. Len(keys) \in Nat /\ Len(keys) \in 0..Len(keys) /\ B \subseteq Nat
  OBVIOUS
<1>2. SUFFICES ASSUME B # {} PROVE FALSE
  BY <1>1
<1>3. PICK n \in B : \A m \in B : n <= m
  BY <1>1, <1>2, Least
<1>4. n \in 0..Len(keys) /\ n \in Nat /\ ~ \E f : Promotes(f, job, step, keys, n)
  BY <1>1
<1>5. n # 0
  <2>1. Promotes([m \in 0..0 |-> job], job, step, keys, 0)
    BY DEF Promotes
  <2> QED
    BY <1>4, <2>1
<1>6. n - 1 \in 0..Len(keys) /\ n - 1 \in Nat /\ ~(n <= n - 1)
  BY <1>1, <1>4, <1>5
<1>7. n - 1 \notin B
  BY <1>3, <1>6
<1>8. PICK f : Promotes(f, job, step, keys, n - 1)
  BY <1>6, <1>7
<1> DEFINE g == [m \in 0..n |-> IF m = n THEN Promoted(f[n - 1], step, keys[n]) ELSE f[m]]
<1>9. ASSUME NEW m \in 0..n
      PROVE  g[m] = IF m = 0 THEN job ELSE Promoted(g[m - 1], step, keys[m])
  <2>1. CASE m = n
    <3>1. n - 1 \in 0..n /\ n - 1 # n
      BY <1>4, <1>5
    <3>2. g[m - 1] = f[n - 1]
      BY <2>1, <3>1
    <3> QED
      BY <1>5, <2>1, <3>2
  <2>2. CASE m # n
    <3>1. m \in 0..(n - 1)
      BY <1>4, <2>2
    <3>2. f[m] = IF m = 0 THEN job ELSE Promoted(f[m - 1], step, keys[m])
      BY <1>8, <3>1 DEF Promotes
    <3>3. g[m] = f[m]
      BY <2>2
    <3>4. CASE m = 0
      BY <3>2, <3>3, <3>4
    <3>5. CASE m # 0
      <4>1. m - 1 \in 0..n /\ m - 1 # n
        BY <1>4, <3>1, <3>5
      <4>2. g[m - 1] = f[m - 1]
        BY <4>1
      <4> QED
        BY <3>2, <3>3, <3>5, <4>2
    <3> QED
      BY <3>4, <3>5
  <2> QED
    BY <2>1, <2>2
<1>10. Promotes(g, job, step, keys, n)
  BY <1>9 DEF Promotes
<1> QED
  BY <1>4, <1>10

LEMMA PromoteIs ==
  ASSUME NEW job, NEW step, NEW keys \in Seq(Keys \X Keys)
  PROVE  \E f : Promotes(f, job, step, keys, Len(keys)) /\ Promote(job, step, keys) = f[Len(keys)]
<1> DEFINE g == CHOOSE f : Promotes(f, job, step, keys, Len(keys))
<1>1. Promote(job, step, keys) = g[Len(keys)]
  BY DEF Promote, Promotes, Promoted
<1>2. Promotes(g, job, step, keys, Len(keys))
  BY PromotesExist
<1> QED
  BY <1>1, <1>2

LEMMA PromoteKeeps ==
  ASSUME NEW job, NEW step, NEW keys \in Seq(Keys \X Keys), ContextOK(job), TreeOK(step)
  PROVE  ContextOK(Promote(job, step, keys))
<1>1. PICK f : Promotes(f, job, step, keys, Len(keys)) /\ Promote(job, step, keys) = f[Len(keys)]
  BY PromoteIs
<1> DEFINE B == {n \in 0..Len(keys) : ~ContextOK(f[n])}
<1>2. Len(keys) \in Nat /\ Len(keys) \in 0..Len(keys) /\ B \subseteq Nat
  OBVIOUS
<1>3. SUFFICES ASSUME B # {} PROVE FALSE
  BY <1>1, <1>2
<1>4. PICK n \in B : \A m \in B : n <= m
  BY <1>2, <1>3, Least
<1>5. n \in 0..Len(keys) /\ n \in Nat /\ ~ContextOK(f[n])
  BY <1>2
<1>6. f[n] = IF n = 0 THEN job ELSE Promoted(f[n - 1], step, keys[n])
  BY <1>1, <1>5 DEF Promotes
<1>7. n # 0
  BY <1>5, <1>6
<1>8. n - 1 \in 0..Len(keys) /\ n \in 1..Len(keys) /\ ~(n <= n - 1)
  BY <1>2, <1>5, <1>7
<1>9. ContextOK(f[n - 1])
  BY <1>4, <1>8
<1>10. keys[n] \in Keys \X Keys
  BY <1>8
<1>11. ContextOK(Promoted(f[n - 1], step, keys[n]))
  BY <1>9, <1>10, PromotedKeeps
<1> QED
  BY <1>5, <1>6, <1>7, <1>11

-----------------------------------------------------------------------------
(* What CreateJob has built, of the elements it has visited. *)

\* What the first pass has made of an element.
FirstOK(id) ==
  LET e == def.elements[id] IN
  /\ built[id] = Made(e)
  /\ \/ IsStep(e) /\ StepBuilds(id, e)
     \/ IsDecision(e) /\ DecisionBuilds(id, e)
     \/ IsSplit(e) /\ SplitBuilds(id, e)

\* What the second pass has found of an element.
SecondOK(id) ==
  LET e == def.elements[id] IN
  /\ IsStep(e) /\ e.partition # <<>> => PartitionStepBuilds(id, e)
  /\ \A k \in DOMAIN e.rules : TransitionValid(e.rules[k])

\* The flow of some of the elements.
StepsIn(V)     == {id \in V : IsStep(def.elements[id])}
DecisionsIn(V) == {id \in V : IsDecision(def.elements[id])}
SplitsIn(V)    == {id \in V : IsSplit(def.elements[id])}
SplitSteps(id) == {def.elements[id].steps[k] : k \in DOMAIN def.elements[id].steps}
FlowOf(V) ==
  [start |-> def.start, steps |-> StepsIn(V), decisions |-> DecisionsIn(V),
   splits |-> [id \in SplitsIn(V) |-> SplitSteps(id)],
   rules |-> [id \in V |-> TransitionRules(def.elements[id].rules)]]

ListenersReady ==
  /\ <<"jobListener", "loggingJobListener">> \notin registry \cap Faulty
  /\ \A l \in def.listeners : IF <<"jobListener", l>> \in registry THEN Builds("jobListener", l)
                              ELSE Builds("notification", l)
  /\ Builds("job", def.id)

Stages == {"idle", "first", "second", "listeners", "built", "failed"}
BuildTypes ==
  /\ registry \subseteq Builders /\ build \in Stages
  /\ \A j \in DOMAIN loaded : loaded[j] \in Definitions

\* A job is under construction: no split was early, and what was visited is right.
Construction ==
  build \in {"first", "second", "listeners", "built"} =>
    /\ def \in Definitions /\ def.start \in DOMAIN def.elements
    /\ todo \subseteq DOMAIN def.elements /\ ~early
    /\ \A id \in DOMAIN built : FirstOK(id)

InFirstPass ==
  build = "first" => /\ todo # {} /\ DOMAIN built = DOMAIN def.elements \ todo
                     /\ flow = FlowOf({})

InSecondPass ==
  build \in {"second", "listeners", "built"} =>
    /\ DOMAIN built = DOMAIN def.elements
    /\ flow = FlowOf(DOMAIN def.elements \ todo)
    /\ \A id \in DOMAIN def.elements \ todo : SecondOK(id)

BuildEnds ==
  /\ build = "idle" => def = NoDefinition /\ ~early
  /\ build \in {"listeners", "built"} => todo = {}
  /\ build = "built" => ListenersReady
  /\ build = "failed" => def = NoDefinition \/ ~Valid(def) \/ early

BuildInv == BuildTypes /\ Construction /\ InFirstPass /\ InSecondPass /\ BuildEnds

-----------------------------------------------------------------------------
(* The invariant says that what was built is sound, and exactly the valid. *)

\* An element is of one kind.
LEMMA OneKind ==
  ASSUME NEW e
  PROVE  /\ ~(IsStep(e) /\ IsDecision(e)) /\ ~(IsStep(e) /\ IsSplit(e))
         /\ ~(IsDecision(e) /\ IsSplit(e))
BY DEF IsDecision, IsSplit

\* What has one attribute has it.
LEMMA OneGiven ==
  ASSUME NEW r, Cardinality(Given(r)) = 1
  PROVE  (CHOOSE g \in Given(r) : TRUE) \in Given(r)
<1>1. Given(r) \subseteq {"to", "end", "fail", "stop"}
  BY DEF Given, Flow!Outcomes
<1>2. IsFiniteSet({"to", "end", "fail", "stop"})
  <2>1. IsFiniteSet({"to"})
    BY FS_Singleton
  <2>2. IsFiniteSet({"to"} \cup {"end"})
    BY <2>1, FS_AddElement
  <2>3. IsFiniteSet(({"to"} \cup {"end"}) \cup {"fail"})
    BY <2>2, FS_AddElement
  <2>4. IsFiniteSet((({"to"} \cup {"end"}) \cup {"fail"}) \cup {"stop"})
    BY <2>3, FS_AddElement
  <2>5. (({"to"} \cup {"end"}) \cup {"fail"}) \cup {"stop"} = {"to", "end", "fail", "stop"}
    OBVIOUS
  <2> QED
    BY <2>4, <2>5
<1>3. IsFiniteSet(Given(r))
  BY <1>1, <1>2, FS_Subset
<1>4. Given(r) # {}
  BY FS_EmptySet
<1> QED
  BY <1>4

\* A worker that builds is a step of its own kind.
LEMMA WorkerIsStep ==
  ASSUME BuildTypes, NEW w, WorkerBuilds(w)
  PROVE  IsStep(w)
<1>1. CASE w.tasklet # Blank
  BY <1>1 DEF IsStep
<1>2. CASE w.tasklet = Blank
  <2>1. <<"component", w.reader>> \in Builders
    BY <1>2 DEF WorkerBuilds, ReaderWriterProcessorBuild, ComponentBuilds, Builds, BuildTypes
  <2>2. <<"component", w.reader>>[2] # Blank
    BY <2>1, BuilderAssumption
  <2> QED
    BY <2>2 DEF IsStep
<1> QED
  BY <1>1, <1>2

\* What the first pass made is what the element is.
LEMMA MadeIs ==
  ASSUME NEW e
  PROVE  /\ Made(e) = "step" => IsStep(e) /\ e.partition = <<>>
         /\ Made(e) = "partition" => IsStep(e) /\ ~e.chunk /\ e.tasklet = Blank
BY DEF Made, BuiltStep

\* A worker, or a step of a split, is not partitioned itself.
LEMMA BuiltWorkers ==
  ASSUME BuildInv, build = "built", NEW id \in DOMAIN def.elements,
         IsStep(def.elements[id]), def.elements[id].partition # <<>>
  PROVE  LET w == def.elements[id].partition[1].step
         IN  w \in DOMAIN def.elements /\ IsStep(def.elements[w]) /\ def.elements[w].partition = <<>>
<1> DEFINE w == def.elements[id].partition[1].step
<1>1. /\ BuildTypes /\ todo = {}
      /\ \A i \in DOMAIN def.elements : FirstOK(i) /\ SecondOK(i)
  BY DEF BuildInv, BuildEnds, Construction, InSecondPass
<1>2. w \in DOMAIN def.elements /\ WorkerBuilds(def.elements[w])
  BY <1>1 DEF SecondOK, PartitionStepBuilds
<1>3. IsStep(def.elements[w])
  BY <1>1, <1>2, WorkerIsStep
<1>4. ASSUME def.elements[w].partition # <<>> PROVE FALSE
  <2>1. built[w] = "partition"
    BY <1>1, <1>2, <1>3, <1>4 DEF SecondOK, PartitionStepBuilds
  <2>2. ~def.elements[w].chunk /\ def.elements[w].tasklet = Blank
    BY <1>1, <1>2, <2>1, MadeIs DEF FirstOK
  <2> QED
    BY <1>2, <2>2 DEF WorkerBuilds
<1> QED
  BY <1>2, <1>3, <1>4

LEMMA BuiltSplits ==
  ASSUME BuildInv, build = "built", NEW id \in DOMAIN def.elements, IsSplit(def.elements[id])
  PROVE  /\ \A s \in SplitSteps(id) :
              s \in DOMAIN def.elements /\ IsStep(def.elements[s]) /\ def.elements[s].partition = <<>>
         /\ SplitSteps(id) # {}
<1> DEFINE e == def.elements[id]
<1>1. /\ DOMAIN built = DOMAIN def.elements /\ def \in Definitions
      /\ \A i \in DOMAIN def.elements : FirstOK(i)
  BY DEF BuildInv, Construction, InSecondPass
<1>2. SplitBuilds(id, e)
  BY <1>1, OneKind DEF FirstOK
<1>3. ASSUME NEW k \in DOMAIN e.steps
      PROVE  /\ e.steps[k] \in DOMAIN def.elements
             /\ IsStep(def.elements[e.steps[k]]) /\ def.elements[e.steps[k]].partition = <<>>
  <2>1. e.steps[k] \in DOMAIN def.elements /\ built[e.steps[k]] = "step"
    BY <1>1, <1>2 DEF SplitBuilds
  <2> QED
    BY <1>1, <2>1, MadeIs DEF FirstOK
<1>4. e.steps # <<>> /\ IsList(e.steps)
  BY <1>1, DefinitionAssumption DEF IsSplit
<1>5. 1 \in DOMAIN e.steps
  BY <1>4, EmptySeq DEF IsList
<1> QED
  BY <1>3, <1>5 DEF SplitSteps

\* Every transition of a built flow is one of FlowDefinition.
LEMMA BuiltRules ==
  ASSUME BuildInv, build = "built", NEW id \in DOMAIN def.elements
  PROVE  LET rules == TransitionRules(def.elements[id].rules)
             made  == {rules[k] : k \in DOMAIN rules}
         IN  /\ rules \in Seq(made)
             /\ \A r \in made : r.go \in Flow!Outcomes /\ (r.go = "to" => r.to \in DOMAIN def.elements)
<1> DEFINE given == def.elements[id].rules
           rules == TransitionRules(given)
           made  == {rules[k] : k \in DOMAIN rules}
<1>1. def \in Definitions /\ SecondOK(id)
  BY DEF BuildInv, BuildEnds, Construction, InSecondPass
<1>2. IsList(given)
  BY <1>1, DefinitionAssumption
<1>3. DOMAIN rules = DOMAIN given /\ DOMAIN given = 1..Len(given) /\ Len(given) \in Nat
  BY <1>2 DEF IsList, TransitionRules
<1>4. rules \in [1..Len(given) -> made]
  BY <1>3 DEF TransitionRules
<1>5. rules \in Seq(made)
  BY <1>3, <1>4
<1>6. ASSUME NEW k \in DOMAIN rules
      PROVE  /\ rules[k].go \in Flow!Outcomes
             /\ rules[k].go = "to" => rules[k].to \in DOMAIN def.elements
  <2>1. TransitionValid(given[k])
    BY <1>1, <1>3 DEF SecondOK
  <2>2. rules[k].go \in Given(given[k]) /\ rules[k].to = given[k].to
    BY <1>3, <2>1, OneGiven DEF TransitionRules, TransitionValid
  <2> QED
    BY <2>1, <2>2 DEF TransitionValid, Given
<1> QED
  BY <1>5, <1>6

\* BuildSound follows.
LEMMA SoundBuild ==
  ASSUME BuildInv
  PROVE  BuildSound
<1> DEFINE els == DOMAIN def.elements
<1>1. SUFFICES ASSUME build = "built"
      PROVE  /\ Flow!FlowOK(flow) /\ Flow!Elements(flow) = els
             /\ \A p \in DOMAIN flow.splits : \A s \in flow.splits[p] :
                  s \in flow.steps /\ def.elements[s].partition = <<>>
             /\ \A s \in flow.steps : def.elements[s].partition # <<>> =>
                  LET w == def.elements[s].partition[1].step
                  IN  w \in flow.steps /\ def.elements[w].partition = <<>>
  BY DEF BuildSound
<1>2. /\ flow = FlowOf(els \ todo) /\ todo = {} /\ DOMAIN built = els /\ def.start \in els
      /\ \A id \in els : FirstOK(id)
  BY <1>1 DEF BuildInv, BuildEnds, Construction, InSecondPass
<1>3. flow = FlowOf(els)
  BY <1>2
<1>4. /\ flow.start = def.start /\ flow.steps = StepsIn(els) /\ flow.decisions = DecisionsIn(els)
      /\ DOMAIN flow.splits = SplitsIn(els) /\ DOMAIN flow.rules = els
      /\ \A p \in SplitsIn(els) : flow.splits[p] = SplitSteps(p)
      /\ \A id \in els : flow.rules[id] = TransitionRules(def.elements[id].rules)
  BY <1>3 DEF FlowOf
<1>5. \A id \in els : id \in StepsIn(els) \cup DecisionsIn(els) \cup SplitsIn(els)
  BY <1>2 DEF FirstOK, StepsIn, DecisionsIn, SplitsIn
<1>6. Flow!Elements(flow) = els
  BY <1>4, <1>5 DEF Flow!Elements, StepsIn, DecisionsIn, SplitsIn
<1>7. ASSUME NEW p \in DOMAIN flow.splits
      PROVE  /\ flow.splits[p] # {}
             /\ \A s \in flow.splits[p] : s \in flow.steps /\ def.elements[s].partition = <<>>
  BY <1>1, <1>4, <1>7, BuiltSplits DEF SplitsIn, StepsIn
<1>8. ASSUME NEW s \in flow.steps, def.elements[s].partition # <<>>
      PROVE  LET w == def.elements[s].partition[1].step
             IN  w \in flow.steps /\ def.elements[w].partition = <<>>
  BY <1>1, <1>4, <1>8, BuiltWorkers DEF StepsIn
<1>9. Flow!FlowOK(flow)
  <2>1. flow.steps \subseteq els /\ flow.steps \cap flow.decisions = {}
    BY <1>4, OneKind DEF StepsIn, DecisionsIn
  <2>2. (flow.steps \cup flow.decisions) \cap DOMAIN flow.splits = {}
    BY <1>4, OneKind DEF StepsIn, DecisionsIn, SplitsIn
  <2>3. flow.start \in Flow!Elements(flow) /\ DOMAIN flow.rules = Flow!Elements(flow)
    BY <1>2, <1>4, <1>6
  <2>4. \A p \in DOMAIN flow.splits : flow.splits[p] \subseteq els /\ flow.splits[p] # {}
    BY <1>7, <2>1
  <2>5. ASSUME NEW e \in Flow!Elements(flow)
        PROVE  LET rules == {flow.rules[e][i] : i \in DOMAIN flow.rules[e]}
               IN  /\ flow.rules[e] \in Seq(rules)
                   /\ \A r \in rules :
                        r.go \in Flow!Outcomes /\ (r.go = "to" => r.to \in Flow!Elements(flow))
    <3> DEFINE rules == TransitionRules(def.elements[e].rules)
    <3>1. e \in els /\ flow.rules[e] = rules
      BY <1>4, <1>6
    <3>2. /\ rules \in Seq({rules[k] : k \in DOMAIN rules})
          /\ \A r \in {rules[k] : k \in DOMAIN rules} :
               r.go \in Flow!Outcomes /\ (r.go = "to" => r.to \in els)
      BY <1>1, <3>1, BuiltRules
    <3> HIDE DEF rules
    <3> QED
      BY <1>6, <3>1, <3>2
  <2> QED
    BY <2>1, <2>2, <2>3, <2>4, <2>5 DEF Flow!FlowOK
<1> QED
  BY <1>6, <1>7, <1>8, <1>9

\* Of the conditions for a step, those of the first and of the second pass.
LEMMA ValidStep ==
  ASSUME NEW d, NEW id \in DOMAIN d.elements, IsStep(d.elements[id])
  PROVE  LET e == d.elements[id]
             w == e.partition[1].step
         IN  ElementValid(d, id) <=>
               /\ e.id = id /\ PropertiesResolve(e)
               /\ \A k \in DOMAIN e.rules :
                    /\ e.rules[k].on # Blank /\ Cardinality(Given(e.rules[k])) = 1
                    /\ e.rules[k].to \in DOMAIN d.elements \cup {Blank}
               /\ e.chunk \/ e.tasklet # Blank \/ e.partition # <<>>
               /\ ListenersBuild(e)
               /\ e.chunk => ReaderWriterProcessorBuild(e)
               /\ ~e.chunk /\ e.tasklet # Blank => ComponentBuilds(e.tasklet, "tasklet")
               /\ e.partition # <<>> =>
                    /\ ~e.chunk /\ e.tasklet = Blank /\ Builds("partitioner", e.partition[1].by)
                    /\ w \in DOMAIN d.elements
                    /\ IsStep(d.elements[w]) /\ d.elements[w].partition = <<>>
BY OneKind DEF ElementValid

\* A name that builds is not blank.
LEMMA NamesBuild ==
  ASSUME BuildTypes, NEW kind, NEW name, Builds(kind, name)
  PROVE  name # Blank
<1>1. <<kind, name>> \in Builders
  BY DEF Builds, BuildTypes
<1>2. <<kind, name>>[2] # Blank
  BY <1>1, BuilderAssumption
<1> QED
  BY <1>2

\* What both passes and the listeners leave is valid.
LEMMA BuiltIsValid ==
  ASSUME BuildInv, build = "built"
  PROVE  Valid(def)
<1> DEFINE els == DOMAIN def.elements
<1>1. /\ BuildTypes /\ DOMAIN built = els /\ def \in Definitions /\ def.start \in els /\ todo = {}
      /\ \A id \in els : FirstOK(id) /\ SecondOK(id)
      /\ ListenersReady
  BY DEF BuildInv, BuildEnds, Construction, InSecondPass
<1>2. ASSUME NEW id \in els PROVE ElementValid(def, id)
  <2> DEFINE e == def.elements[id]
  <2>1. FirstOK(id) /\ SecondOK(id)
    BY <1>1
  <2>2. \A k \in DOMAIN e.rules :
          /\ e.rules[k].on # Blank /\ Cardinality(Given(e.rules[k])) = 1
          /\ e.rules[k].to \in els \cup {Blank}
    BY <2>1 DEF SecondOK, TransitionValid
  <2>3. CASE IsStep(e)
    <3>1. StepBuilds(id, e) /\ built[id] = Made(e)
      BY <2>1, <2>3, OneKind DEF FirstOK
    <3>2. /\ e.id = id /\ ListenersBuild(e) /\ PropertiesResolve(e)
          /\ e.chunk \/ e.tasklet # Blank \/ e.partition # <<>>
          /\ e.chunk => ReaderWriterProcessorBuild(e)
          /\ ~e.chunk /\ e.tasklet # Blank => ComponentBuilds(e.tasklet, "tasklet")
          /\ ~e.chunk /\ e.tasklet = Blank => Builds("partitioner", e.partition[1].by)
      BY <3>1 DEF StepBuilds, ChunkStepBuilds, TaskletStepBuilds, PartitionerBuilds
    <3>3. e.partition # <<>> =>
            /\ ~e.chunk /\ e.tasklet = Blank
            /\ LET w == e.partition[1].step
               IN  w \in els /\ IsStep(def.elements[w]) /\ def.elements[w].partition = <<>>
      BY <2>1, <2>3, <3>1, MadeIs, BuiltWorkers DEF SecondOK, PartitionStepBuilds
    <3> QED
      BY <2>2, <2>3, <3>2, <3>3, ValidStep
  <2>4. CASE IsDecision(e)
    <3>1. DecisionBuilds(id, e)
      BY <2>1, <2>4, OneKind DEF FirstOK
    <3> QED
      BY <2>2, <2>4, <3>1, OneKind DEF ElementValid, DecisionBuilds
  <2>5. CASE IsSplit(e)
    <3>1. SplitBuilds(id, e)
      BY <2>1, <2>5, OneKind DEF FirstOK
    <3>2. \A k \in DOMAIN e.steps :
            /\ e.steps[k] \in els /\ IsStep(def.elements[e.steps[k]])
            /\ def.elements[e.steps[k]].partition = <<>>
      BY <2>5, BuiltSplits DEF SplitSteps
    <3> QED
      BY <2>2, <2>5, <3>1, <3>2, OneKind DEF ElementValid, SplitBuilds
  <2> QED
    BY <2>1, <2>3, <2>4, <2>5 DEF FirstOK
<1>3. \A l \in def.listeners : Builds("jobListener", l) \/ (<<"jobListener", l>> \notin registry
                                                            /\ Builds("notification", l))
  BY <1>1 DEF ListenersReady
<1> QED
  BY <1>1, <1>2, <1>3 DEF Valid, ListenersReady

\* BuildExact follows.
LEMMA ExactBuild ==
  ASSUME BuildInv
  PROVE  BuildExact
BY BuiltIsValid DEF BuildExact, BuildInv, Construction, BuildEnds
-----------------------------------------------------------------------------
(* CreateJob keeps the invariant. *)

\* A build that fails at a valid definition was early, or had none.
LEMMA ValidKept ==
  ASSUME UNCHANGED <<registry, def>>
  PROVE  Valid(def)' <=> Valid(def)
<1>1. registry' = registry /\ def' = def
  OBVIOUS
<1>2. ASSUME NEW id PROVE ElementValid(def, id)' <=> ElementValid(def, id)
  <2> DEFINE e == def.elements[id]
  <2>1. e' = e
    BY <1>1
  <2>2. /\ (IsStep(e)' <=> IsStep(e)) /\ (IsDecision(e)' <=> IsDecision(e))
        /\ (IsSplit(e)' <=> IsSplit(e)) /\ (PropertiesResolve(e)' <=> PropertiesResolve(e))
    BY <2>1 DEF IsStep, IsDecision, IsSplit, PropertiesResolve
  <2>3. /\ ListenersBuild(e)' <=> ListenersBuild(e)
        /\ ReaderWriterProcessorBuild(e)' <=> ReaderWriterProcessorBuild(e)
        /\ ComponentBuilds(e.tasklet, "tasklet")' <=> ComponentBuilds(e.tasklet, "tasklet")
    BY <1>1, <2>1 DEF ListenersBuild, ReaderWriterProcessorBuild, ComponentBuilds, Builds
  <2>4. \A k : Cardinality(Given(e.rules[k]))' = Cardinality(Given(e.rules[k]))
    BY <2>1
  <2>5. \A x : IsStep(def.elements[x])' <=> IsStep(def.elements[x])
    BY <1>1 DEF IsStep
  <2> QED
    BY <1>1, <2>2, <2>3, <2>4, <2>5 DEF ElementValid, Builds
<1> QED
  BY <1>1, <1>2 DEF Valid, Builds

LEMMA FailKeeps ==
  ASSUME BuildInv, Fail, UNCHANGED <<registry, loaded>>,
         def = NoDefinition \/ ~Valid(def) \/ early'
  PROVE  BuildInv'
<1>1. /\ build' = "failed" /\ registry' = registry /\ loaded' = loaded /\ def' = def
  BY DEF Fail
<1>2. BuildTypes'
  BY <1>1 DEF BuildInv, BuildTypes, Stages
<1>3. Valid(def)' <=> Valid(def)
  BY <1>1, ValidKept
<1>4. BuildEnds'
  BY <1>1, <1>3 DEF BuildEnds
<1> QED
  BY <1>1, <1>2, <1>4 DEF BuildInv, Construction, InFirstPass, InSecondPass

\* What the first pass has made of an element stays, when more is made.
LEMMA FirstKept ==
  ASSUME NEW id \in DOMAIN built, FirstOK(id), UNCHANGED <<registry, def>>,
         \A i \in DOMAIN built : i \in DOMAIN built' /\ built'[i] = built[i]
  PROVE  FirstOK(id)'
<1> DEFINE e == def.elements[id]
<1>1. StepBuilds(id, e)' <=> StepBuilds(id, e)
  BY DEF StepBuilds, ListenersBuild, ChunkStepBuilds, TaskletStepBuilds, PartitionerBuilds,
     PropertiesResolve, ReaderWriterProcessorBuild, ComponentBuilds, Builds
<1>2. DecisionBuilds(id, e)' <=> DecisionBuilds(id, e)
  BY DEF DecisionBuilds, PropertiesResolve, Builds
<1>3. SplitBuilds(id, e) => SplitBuilds(id, e)'
  BY DEF SplitBuilds, Builds
<1>4. Made(e)' = Made(e)
  BY DEF Made, BuiltStep, IsStep, IsDecision
<1>5. (IsStep(e)' <=> IsStep(e)) /\ (IsDecision(e)' <=> IsDecision(e)) /\ (IsSplit(e)' <=> IsSplit(e))
  BY DEF IsStep, IsDecision, IsSplit
<1> QED
  BY <1>1, <1>2, <1>3, <1>4, <1>5 DEF FirstOK

LEMMA SecondKept ==
  ASSUME NEW id, SecondOK(id), UNCHANGED <<registry, def, built>>
  PROVE  SecondOK(id)'
BY DEF SecondOK, PartitionStepBuilds, WorkerBuilds, TransitionValid, PropertiesResolve, IsStep,
   ReaderWriterProcessorBuild, ComponentBuilds, Builds, Given, Flow!Outcomes

LEMMA FlowKept ==
  ASSUME UNCHANGED def, NEW V
  PROVE  \A W : W = V => FlowOf(W)' = FlowOf(V)
BY DEF FlowOf, StepsIn, DecisionsIn, SplitsIn, SplitSteps, IsStep, IsDecision, IsSplit,
   TransitionRules, Given, Flow!Outcomes
LEMMA CreateJobKeeps ==
  ASSUME BuildInv, NEW job, CreateJob(job), UNCHANGED <<registry, loaded>>
  PROVE  BuildInv'
<1>1. build = "idle" /\ early' = early /\ registry' = registry /\ loaded' = loaded /\ BuildTypes
      /\ def = NoDefinition /\ ~early
  BY DEF CreateJob, BuildInv, BuildEnds
<1>2. CASE Fail
  BY <1>1, <1>2, FailKeeps
<1>3. CASE ~Fail
  <2>1. /\ job \in DOMAIN loaded /\ loaded[job].start \in DOMAIN loaded[job].elements
        /\ def' = loaded[job] /\ build' = "first" /\ todo' = DOMAIN loaded[job].elements
        /\ built' = NoElements /\ flow' = NewFlowDefinition(loaded[job].start)
    BY <1>3 DEF CreateJob
  <2>2. BuildTypes'
    BY <1>1, <2>1 DEF BuildTypes, Stages
  <2>3. DOMAIN built' = {}
    BY <2>1 DEF NoElements
  <2>4. flow' = FlowOf({})'
    BY <2>1 DEF FlowOf, NewFlowDefinition, NoElements, StepsIn, DecisionsIn, SplitsIn
  <2>5. def' \in Definitions
    BY <1>1, <2>1 DEF BuildTypes
  <2> QED
    BY <1>1, <2>1, <2>2, <2>3, <2>4, <2>5
       DEF BuildInv, Construction, InFirstPass, InSecondPass, BuildEnds
<1> QED
  BY <1>2, <1>3

\* Why the first pass fails.
LEMMA FirstFails ==
  ASSUME BuildInv, NEW id \in todo, build = "first", Valid(def),
         LET e == def.elements[id]
         IN  /\ ~(IsSplit(e) /\ \E i \in DOMAIN e.steps : e.steps[i] \in todo)
             /\ ~\/ IsStep(e) /\ StepBuilds(id, e)
                 \/ IsDecision(e) /\ DecisionBuilds(id, e)
                 \/ IsSplit(e) /\ SplitBuilds(id, e)
  PROVE  FALSE
<1> DEFINE e == def.elements[id]
<1>1. /\ BuildTypes /\ id \in DOMAIN def.elements /\ DOMAIN built = DOMAIN def.elements \ todo
      /\ \A i \in DOMAIN built : FirstOK(i)
  BY DEF BuildInv, Construction, InFirstPass
<1>2. ElementValid(def, id)
  BY <1>1 DEF Valid
<1>3. CASE IsStep(e)
  <2>1. /\ e.id = id /\ ListenersBuild(e) /\ PropertiesResolve(e)
        /\ e.chunk \/ e.tasklet # Blank \/ e.partition # <<>>
        /\ e.chunk => ReaderWriterProcessorBuild(e)
        /\ ~e.chunk /\ e.tasklet # Blank => ComponentBuilds(e.tasklet, "tasklet")
        /\ e.partition # <<>> => Builds("partitioner", e.partition[1].by)
    BY <1>1, <1>2, <1>3, ValidStep
  <2>2. e.chunk => e.reader # Blank /\ e.processor # Blank /\ e.writer # Blank
    BY <1>1, <2>1, NamesBuild DEF ReaderWriterProcessorBuild, ComponentBuilds
  <2>3. StepBuilds(id, e)
    BY <2>1, <2>2 DEF StepBuilds, ChunkStepBuilds, TaskletStepBuilds, PartitionerBuilds
  <2> QED
    BY <1>3, <2>3
<1>4. CASE IsDecision(e)
  BY <1>2, <1>4, OneKind DEF ElementValid, DecisionBuilds
<1>5. CASE IsSplit(e)
  <2>1. /\ e.id = id /\ Builds("split", "concreteSplit")
        /\ \A k \in DOMAIN e.steps :
             /\ e.steps[k] \in DOMAIN def.elements /\ IsStep(def.elements[e.steps[k]])
             /\ def.elements[e.steps[k]].partition = <<>>
    BY <1>2, <1>5 DEF ElementValid
  <2>2. \A k \in DOMAIN e.steps : e.steps[k] \in DOMAIN built /\ built[e.steps[k]] = "step"
    BY <1>1, <1>5, <2>1 DEF FirstOK, Made, BuiltStep
  <2> QED
    BY <1>5, <2>1, <2>2 DEF SplitBuilds
<1> QED
  BY <1>2, <1>3, <1>4, <1>5 DEF ElementValid

LEMMA FirstPassKeeps ==
  ASSUME BuildInv, NEW id \in todo, FirstPass(id), UNCHANGED <<registry, loaded>>
  PROVE  BuildInv'
<1> DEFINE e   == def.elements[id]
           els == DOMAIN def.elements
           ok  == \/ IsStep(e) /\ StepBuilds(id, e)
                  \/ IsDecision(e) /\ DecisionBuilds(id, e)
                  \/ IsSplit(e) /\ SplitBuilds(id, e)
           near == IsSplit(e) /\ \E i \in DOMAIN e.steps : e.steps[i] \in todo
<1>1. /\ build = "first" /\ BuildTypes /\ def \in Definitions /\ def.start \in els /\ ~early
      /\ todo \subseteq els /\ DOMAIN built = els \ todo /\ flow = FlowOf({})
      /\ \A i \in DOMAIN built : FirstOK(i)
  BY DEF FirstPass, BuildInv, Construction, InFirstPass
<1>2. early' <=> near
  BY <1>1 DEF FirstPass
<1>3. CASE ~ok
  <2>1. Fail
    BY <1>3 DEF FirstPass
  <2>2. Valid(def) => near
    BY <1>1, <1>3, FirstFails
  <2> QED
    BY <1>2, <2>1, <2>2, FailKeeps
<1>4. CASE ok
  <2>1. /\ built' = [i \in DOMAIN built \cup {id} |-> IF i = id THEN Made(e) ELSE built[i]]
        /\ todo' = IF todo = {id} THEN els ELSE todo \ {id}
        /\ build' = IF todo = {id} THEN "second" ELSE "first"
        /\ def' = def /\ flow' = flow /\ registry' = registry /\ loaded' = loaded
    BY <1>4 DEF FirstPass
  <2>2. /\ DOMAIN built' = DOMAIN built \cup {id} /\ built'[id] = Made(e)
        /\ \A i \in DOMAIN built : i \in DOMAIN built' /\ built'[i] = built[i]
    BY <1>1, <2>1
  <2>3. \A i \in DOMAIN built : FirstOK(i)'
    BY <1>1, <2>1, <2>2, FirstKept
  <2>4. FirstOK(id)'
    <3>1. e' = e
      BY <2>1
    <3>2. Made(e)' = Made(e)
      BY <3>1
    <3>3. /\ StepBuilds(id, e) => StepBuilds(id, e)'
          /\ DecisionBuilds(id, e) => DecisionBuilds(id, e)'
          /\ SplitBuilds(id, e) => SplitBuilds(id, e)'
      <4>1. \A k, n : Builds(k, n)' <=> Builds(k, n)
        BY <2>1 DEF Builds
      <4>2. StepBuilds(id, e) => StepBuilds(id, e)'
        BY <2>1, <3>1, <4>1 DEF StepBuilds, ListenersBuild, ChunkStepBuilds, TaskletStepBuilds,
           PartitionerBuilds, PropertiesResolve, ReaderWriterProcessorBuild, ComponentBuilds
      <4>3. DecisionBuilds(id, e) => DecisionBuilds(id, e)'
        BY <3>1, <4>1 DEF DecisionBuilds, PropertiesResolve
      <4>4. SplitBuilds(id, e) => SplitBuilds(id, e)'
        BY <2>2, <3>1, <4>1 DEF SplitBuilds
      <4> QED
        BY <4>2, <4>3, <4>4
    <3>4. (IsStep(e)' <=> IsStep(e)) /\ (IsDecision(e)' <=> IsDecision(e)) /\ (IsSplit(e)' <=> IsSplit(e))
      BY <3>1 DEF IsStep, IsDecision, IsSplit
    <3> QED
      BY <1>4, <2>2, <3>2, <3>3, <3>4 DEF FirstOK
  <2>5. ~near
    <3>1. IsSplit(e) => SplitBuilds(id, e)
      BY <1>4, OneKind
    <3> QED
      BY <1>1, <3>1 DEF SplitBuilds
  <2>6. BuildTypes'
    BY <1>1, <2>1 DEF BuildTypes, Stages
  <2>7. Construction'
    <3>1. todo' \subseteq els /\ ~early'
      BY <1>1, <1>2, <2>1, <2>5
    <3>2. \A i \in DOMAIN built' : FirstOK(i)'
      BY <2>2, <2>3, <2>4
    <3> QED
      BY <1>1, <2>1, <3>1, <3>2 DEF Construction
  <2>8. FlowOf({})' = FlowOf({})
    BY <2>1, FlowKept
  <2>9. InFirstPass' /\ InSecondPass'
    <3>1. CASE todo = {id}
      <4>1. build' = "second" /\ todo' = els /\ DOMAIN built' = els /\ els \ els = {}
        BY <1>1, <2>1, <2>2, <3>1
      <4>2. flow' = FlowOf(els \ els)'
        BY <1>1, <2>1, <2>8, <4>1
      <4> QED
        BY <2>1, <4>1, <4>2 DEF InFirstPass, InSecondPass
    <3>2. CASE todo # {id}
      <4>1. build' = "first" /\ todo' = todo \ {id} /\ todo' # {} /\ DOMAIN built' = els \ todo'
        BY <1>1, <2>1, <2>2, <3>2
      <4> QED
        BY <1>1, <2>1, <2>8, <4>1 DEF InFirstPass, InSecondPass
    <3> QED
      BY <3>1, <3>2
  <2>10. BuildEnds'
    BY <2>1 DEF BuildEnds
  <2> QED
    BY <2>6, <2>7, <2>9, <2>10 DEF BuildInv
<1> QED
  BY <1>3, <1>4
\* An element visited for the second time is added to the flow.
LEMMA FlowGrows ==
  ASSUME NEW V, NEW id \in DOMAIN def.elements, id \notin V,
         LET e == def.elements[id] IN IsStep(e) \/ IsDecision(e) \/ IsSplit(e)
  PROVE  LET e == def.elements[id]
         IN  AddTransitionRules(AddElement(FlowOf(V), id, e), id, e.rules) = FlowOf(V \cup {id})
<1> DEFINE e == def.elements[id]
           W == V \cup {id}
           A == AddElement(FlowOf(V), id, e)
<1>1. /\ A.start = def.start /\ A.rules = [i \in V |-> TransitionRules(def.elements[i].rules)]
      /\ A = [start |-> A.start, steps |-> A.steps, decisions |-> A.decisions,
              splits |-> A.splits, rules |-> A.rules]
  BY DEF AddElement, FlowOf
<1>2. A.steps = StepsIn(W) /\ A.decisions = DecisionsIn(W)
  BY OneKind DEF AddElement, FlowOf, StepsIn, DecisionsIn
<1>3. A.splits = [i \in SplitsIn(W) |-> SplitSteps(i)]
  <2>1. CASE IsSplit(e)
    <3>1. A.splits = [i \in SplitsIn(V) \cup {id} |-> IF i = id THEN SplitSteps(id) ELSE SplitSteps(i)]
      BY <2>1, OneKind DEF AddElement, FlowOf, SplitSteps
    <3>2. SplitsIn(W) = SplitsIn(V) \cup {id}
      BY <2>1 DEF SplitsIn
    <3> QED
      BY <3>1, <3>2
  <2>2. CASE ~IsSplit(e)
    <3>1. A.splits = [i \in SplitsIn(V) |-> SplitSteps(i)]
      BY <2>2 DEF AddElement, FlowOf
    <3>2. SplitsIn(W) = SplitsIn(V)
      BY <2>2 DEF SplitsIn
    <3> QED
      BY <3>1, <3>2
  <2> QED
    BY <2>1, <2>2
<1> DEFINE B == AddTransitionRules(A, id, e.rules)
<1> HIDE DEF A
<1>5. B = [start |-> A.start, steps |-> A.steps, decisions |-> A.decisions, splits |-> A.splits,
           rules |-> [i \in DOMAIN A.rules \cup {id} |->
                        IF i = id THEN TransitionRules(e.rules) ELSE A.rules[i]]]
  <2> DEFINE r == [i \in DOMAIN A.rules \cup {id} |->
                     IF i = id THEN TransitionRules(e.rules) ELSE A.rules[i]]
  <2>1. B = [A EXCEPT !.rules = r]
    BY DEF AddTransitionRules
  <2> HIDE DEF r, B
  <2>2. B = [start |-> A.start, steps |-> A.steps, decisions |-> A.decisions, splits |-> A.splits,
             rules |-> r]
    BY <1>1, <2>1
  <2> QED
    BY <2>2 DEF r
<1>6. [i \in DOMAIN A.rules \cup {id} |-> IF i = id THEN TransitionRules(e.rules) ELSE A.rules[i]]
        = [i \in W |-> TransitionRules(def.elements[i].rules)]
  BY <1>1
<1>7. B = FlowOf(W)
  BY <1>1, <1>2, <1>3, <1>5, <1>6 DEF FlowOf
<1> QED
  BY <1>7 DEF A

\* Why the second pass fails.
LEMMA SecondFails ==
  ASSUME BuildInv, NEW id \in todo, build = "second", Valid(def), ~SecondOK(id)
  PROVE  FALSE
<1> DEFINE e == def.elements[id]
           w == def.elements[e.partition[1].step]
<1>1. /\ BuildTypes /\ id \in DOMAIN def.elements /\ DOMAIN built = DOMAIN def.elements
      /\ \A i \in DOMAIN built : FirstOK(i)
  BY DEF BuildInv, Construction, InSecondPass
<1>2. \A i \in DOMAIN def.elements : ElementValid(def, i)
  BY DEF Valid
<1>3. \A k \in DOMAIN e.rules : TransitionValid(e.rules[k])
  BY <1>1, <1>2 DEF ElementValid, TransitionValid
<1>4. IsStep(e) /\ e.partition # <<>>
  BY <1>3 DEF SecondOK
<1>5. /\ ~e.chunk /\ e.tasklet = Blank /\ e.partition[1].step \in DOMAIN def.elements
      /\ IsStep(w) /\ w.partition = <<>>
  BY <1>1, <1>2, <1>4, ValidStep
<1>6. built[id] = "partition"
  BY <1>1, <1>4, <1>5 DEF FirstOK, Made, BuiltStep
<1>7. WorkerBuilds(w)
  BY <1>2, <1>5, ValidStep DEF WorkerBuilds
<1> QED
  BY <1>3, <1>5, <1>6, <1>7 DEF SecondOK, PartitionStepBuilds

LEMMA SecondPassKeeps ==
  ASSUME BuildInv, NEW id \in todo, SecondPass(id), UNCHANGED <<registry, loaded>>
  PROVE  BuildInv'
<1> DEFINE e   == def.elements[id]
           els == DOMAIN def.elements
<1>1. /\ build = "second" /\ BuildTypes /\ def \in Definitions /\ def.start \in els /\ ~early
      /\ todo \subseteq els /\ DOMAIN built = els /\ flow = FlowOf(els \ todo) /\ early' = early
      /\ \A i \in els : FirstOK(i)
      /\ \A i \in els \ todo : SecondOK(i)
  BY DEF SecondPass, BuildInv, Construction, InSecondPass
<1>2. CASE ~SecondOK(id)
  <2>1. Fail
    BY <1>2 DEF SecondPass, SecondOK
  <2> QED
    BY <1>1, <1>2, <2>1, SecondFails, FailKeeps
<1>3. CASE SecondOK(id)
  <2>1. /\ flow' = AddTransitionRules(AddElement(flow, id, e), id, e.rules)
        /\ todo' = todo \ {id} /\ build' = IF todo = {id} THEN "listeners" ELSE "second"
        /\ def' = def /\ built' = built /\ registry' = registry /\ loaded' = loaded
    BY <1>3 DEF SecondPass, SecondOK
  <2>2. els \ todo' = (els \ todo) \cup {id} /\ todo' \subseteq els
    BY <1>1, <2>1
  <2>3. flow' = FlowOf(els \ todo')
    <3>1. IsStep(e) \/ IsDecision(e) \/ IsSplit(e)
      BY <1>1 DEF FirstOK
    <3> QED
      BY <1>1, <2>1, <2>2, <3>1, FlowGrows
  <2>4. flow' = FlowOf(els \ todo)'
    BY <2>1, <2>3, FlowKept
  <2>5. \A i \in els : FirstOK(i)'
    BY <1>1, <2>1, FirstKept
  <2>6. \A i \in els \ todo' : SecondOK(i)'
    BY <1>1, <1>3, <2>1, <2>2, SecondKept
  <2>7. BuildTypes'
    BY <1>1, <2>1 DEF BuildTypes, Stages
  <2>8. Construction'
    BY <1>1, <2>1, <2>2, <2>5 DEF Construction
  <2>9. InFirstPass' /\ InSecondPass'
    BY <1>1, <2>1, <2>4, <2>6 DEF InFirstPass, InSecondPass
  <2>10. BuildEnds'
    BY <2>1 DEF BuildEnds
  <2> QED
    BY <2>7, <2>8, <2>9, <2>10 DEF BuildInv
<1> QED
  BY <1>2, <1>3

LEMMA JobListenersKeeps ==
  ASSUME BuildInv, JobListeners, UNCHANGED <<registry, loaded>>
  PROVE  BuildInv'
<1> DEFINE els == DOMAIN def.elements
<1>1. /\ build = "listeners" /\ BuildTypes /\ def \in Definitions /\ def.start \in els /\ ~early
      /\ todo = {} /\ DOMAIN built = els /\ flow = FlowOf(els \ todo) /\ early' = early
      /\ \A i \in els : FirstOK(i) /\ SecondOK(i)
  BY DEF JobListeners, BuildInv, Construction, InSecondPass, BuildEnds
<1>2. CASE ~ListenersReady
  <2>1. Fail
    BY <1>2 DEF JobListeners, ListenersReady
  <2>2. ~Valid(def)
    BY <1>2 DEF Valid, ListenersReady, Builds
  <2> QED
    BY <2>1, <2>2, FailKeeps
<1>3. CASE ListenersReady
  <2>1. /\ build' = "built" /\ def' = def /\ todo' = todo /\ built' = built /\ flow' = flow
        /\ registry' = registry /\ loaded' = loaded
    BY <1>3 DEF JobListeners, ListenersReady
  <2>2. flow' = FlowOf(els \ todo)'
    BY <1>1, <2>1, FlowKept
  <2>3. \A i \in els : FirstOK(i)' /\ SecondOK(i)'
    BY <1>1, <2>1, FirstKept, SecondKept
  <2>4. ListenersReady'
    BY <1>3, <2>1 DEF ListenersReady, Builds
  <2>5. BuildTypes'
    BY <1>1, <2>1 DEF BuildTypes, Stages
  <2> QED
    BY <1>1, <2>1, <2>2, <2>3, <2>4, <2>5
       DEF BuildInv, Construction, InFirstPass, InSecondPass, BuildEnds
<1> QED
  BY <1>2, <1>3

-----------------------------------------------------------------------------
(* What a process and the table of the instances agree on. *)

\* The rows: parameters and contexts as they were stored.
Stored == [json : {"text", "number"}, n : Int]
RowOK(r) ==
  /\ r = [job |-> r.job, params |-> r.params, hash |-> r.hash, last |-> r.last,
          asked |-> r.asked, incremented |-> r.incremented]
  /\ r.hash = r.params /\ r.params = [k \in DOMAIN r.params |-> r.params[k]]
  /\ \A k \in DOMAIN r.params : r.params[k] \in Stored
  /\ ~r.incremented => r.params = Value(r.asked)
  /\ ParametersOK(r.asked)
  /\ r.last.job = ContextValue(r.last.was) /\ ContextOK(r.last.was)
  /\ ContextOK(ContextScan(r.last.step))

Rows ==
  /\ IsList(table) /\ \A i \in DOMAIN table : RowOK(table[i])
  /\ \A i, j \in DOMAIN table :
       table[i].job = table[j].job /\ table[i].hash = table[j].hash => i = j

Phases == {"down", "config", "supplied", "jsl", "create", "save", "launched", "running", "ended",
           "duplicate", "refused"}
StartTypes ==
  /\ phase \in Phases /\ launches \in Nat
  /\ ParametersOK(request) /\ ParametersOK(params)
  /\ ContextOK(context) /\ ContextOK(was)
  /\ IsList(steps) /\ \A i \in DOMAIN steps : ContextOK(steps[i])

\* What the process has read, and what it does not have yet.
Configured ==
  /\ phase = "config" => source \in Sources /\ cfg = LoadConfig(source.yaml, source.env)
  /\ phase \in {"down", "config", "supplied", "jsl"} => build = "idle"

\* The contexts of the JobExecution, until its steps run.
Contexts ==
  /\ phase \notin {"running", "ended"} => context = ContextScan(ContextValue(was))
  /\ phase = "running" => steps # <<>> /\ instance \in DOMAIN table

\* The instance is the one that has the parameters; there is none if the process
\* has to save one, or could not.
InstanceFound ==
  /\ phase \in {"save", "duplicate"} => \A i \in DOMAIN table : ~Matches(i, request)
  /\ phase = "launched" =>
       /\ instance \in DOMAIN table
       /\ \/ table[instance].params = Value(params)
          \/ params = Scan(table[instance].params)
       /\ ~table[instance].incremented => table[instance].hash = Hash(request)
       /\ \A i \in DOMAIN table : Matches(i, request) => i = instance

StartInv == BuildInv /\ Rows /\ StartTypes /\ Configured /\ Contexts /\ InstanceFound

-----------------------------------------------------------------------------
(* Lists. *)

LEMMA ListOf ==
  ASSUME NEW S, NEW s \in Seq(S)
  PROVE  IsList(s)
<1>1. s \in Seq(Range(s))
  BY SeqOfRange
<1> QED
  BY <1>1 DEF IsList, Range

LEMMA ListIs ==
  ASSUME NEW s, IsList(s)
  PROVE  /\ Len(s) \in Nat /\ DOMAIN s = 1..Len(s)
         /\ \E S : s \in Seq(S)
<1>1. PICK S : s \in Seq(S)
  BY DEF IsList
<1> QED
  BY <1>1

LEMMA ListAppend ==
  ASSUME NEW s, NEW x, IsList(s)
  PROVE  /\ IsList(Append(s, x)) /\ Append(s, x) # <<>>
         /\ Len(Append(s, x)) = Len(s) + 1 /\ DOMAIN Append(s, x) = DOMAIN s \cup {Len(s) + 1}
         /\ Len(s) + 1 \notin DOMAIN s
         /\ \A i \in DOMAIN s : Append(s, x)[i] = s[i]
         /\ Append(s, x)[Len(s) + 1] = x
<1>1. PICK S : s \in Seq(S)
  BY DEF IsList
<1>2. s \in Seq(S \cup {x}) /\ x \in S \cup {x}
  BY <1>1, SeqMonotonic
<1>3. Append(s, x) \in Seq(S \cup {x})
  BY <1>2, AppendProperties
<1>4. /\ Len(Append(s, x)) = Len(s) + 1 /\ Append(s, x)[Len(s) + 1] = x /\ Append(s, x) # <<>>
      /\ \A i \in 1..Len(s) : Append(s, x)[i] = s[i]
  BY <1>2, AppendProperties
<1>5. Len(s) \in Nat /\ DOMAIN s = 1..Len(s) /\ DOMAIN Append(s, x) = 1..(Len(s) + 1)
  BY <1>2, <1>3, <1>4
<1>6. IsList(Append(s, x))
  BY <1>3, ListOf
<1>7. DOMAIN Append(s, x) = DOMAIN s \cup {Len(s) + 1} /\ Len(s) + 1 \notin DOMAIN s
  BY <1>5
<1> QED
  BY <1>4, <1>5, <1>6, <1>7

LEMMA ListExcept ==
  ASSUME NEW s, NEW i \in DOMAIN s, NEW x, IsList(s)
  PROVE  /\ IsList([s EXCEPT ![i] = x]) /\ DOMAIN [s EXCEPT ![i] = x] = DOMAIN s
         /\ \A k \in DOMAIN s : [s EXCEPT ![i] = x][k] = IF k = i THEN x ELSE s[k]
<1>1. PICK S : s \in Seq(S)
  BY DEF IsList
<1>2. s \in Seq(S \cup {x}) /\ x \in S \cup {x} /\ i \in 1..Len(s)
  BY <1>1, SeqMonotonic
<1>3. [s EXCEPT ![i] = x] \in Seq(S \cup {x})
  BY <1>2, ExceptSeq
<1> QED
  BY <1>3, ListOf

-----------------------------------------------------------------------------
(* Parameters and what is stored of them. *)

\* What is rounded is an integer.
LEMMA RoundInt ==
  ASSUME NEW n \in Int, NEW t \in Nat \ {0}
  PROVE  RoundTo(n, t) \in Int
<1> DEFINE m == (n + t \div 2) \div t
<1>1. t \div 2 \in Int
  OBVIOUS
<1>2. m \in Int
  BY <1>1
<1> HIDE DEF m
<1>3. (m - 1) * t \in Int /\ m * t \in Int
  BY <1>2
<1> QED
  BY <1>3 DEF RoundTo, m

\* A set of numbers below a bound has a greatest one.
LEMMA MaxIs ==
  ASSUME NEW S, S \subseteq 1..1024, 1 \in S
  PROVE  Max(S) \in Nat \ {0} /\ Max(S) \in S
<1> DEFINE T == {x \in Nat : 1024 - x \in S}
<1>1. T \subseteq Nat /\ 1023 \in T
  OBVIOUS
<1>2. \A x \in T : 1024 - x \in S
  OBVIOUS
<1>3. \A z \in S : z \in 1..1024 /\ 1024 - z \in T
  OBVIOUS
<1> HIDE DEF T
<1>4a. T \in SUBSET Nat /\ T # {}
  BY <1>1
<1>4. PICK x \in T : \A y \in T : x <= y
  BY <1>4a, Least
<1>5. x \in Nat /\ 1024 - x \in S
  BY <1>1, <1>2
<1>6. ASSUME NEW z \in S PROVE 1024 - x >= z
  <2>1. z \in 1..1024 /\ x <= 1024 - z
    BY <1>3, <1>4
  <2> QED
    BY <1>5, <2>1
<1>7. \E w \in S : \A z \in S : w >= z
  BY <1>5, <1>6
<1>8. Max(S) \in S
  BY <1>7 DEF Max
<1> DEFINE m == Max(S)
<1> HIDE DEF m
<1>9. m \in S
  BY <1>8 DEF m
<1>10. m \in Nat \ {0}
  BY <1>3, <1>9
<1> QED
  BY <1>9, <1>10 DEF m

LEMMA Float64Is ==
  ASSUME NEW n \in Int
  PROVE  Float64(n) \in Int /\ (n \in Exacts => Float64(n) = n)
<1>1. Spacing(n) \in Nat \ {0}
  <2> DEFINE S == {s \in {1, 2, 4, 8, 16, 32, 64, 128, 256, 512, 1024} :
                     s = 1 \/ n > (s \div 2) * Exact \/ -n > (s \div 2) * Exact}
  <2>1. S \subseteq 1..1024 /\ 1 \in S
    OBVIOUS
  <2> HIDE DEF S
  <2>2. Max(S) \in Nat \ {0}
    BY <2>1, MaxIs
  <2> QED
    BY <2>2 DEF Spacing, S
<1>2. RoundTo(n, Spacing(n)) \in Int
  BY <1>1, RoundInt
<1> QED
  BY <1>2 DEF Float64

\* The digits of a float64 are those of an exact number only if it is that number.
LEMMA ShortestIs ==
  ASSUME NEW n \in Int
  PROVE  /\ Shortest(n) \in Int /\ (n \in Exacts => Shortest(n) = n)
         /\ Shortest(n) \in Exacts => Shortest(n) = n
<1> DEFINE S == {t \in {1, 10, 100, 1000} : t = 1 \/ Float64(RoundTo(n, t)) = n}
           t == Max(S)
<1>1. S \subseteq 1..1024 /\ 1 \in S
  OBVIOUS
<1> HIDE DEF S
<1>2. t \in Nat \ {0} /\ t \in S
  BY <1>1, MaxIs
<1>3. t = 1 \/ Float64(RoundTo(n, t)) = n
  BY <1>2 DEF S
<1>4. Shortest(n) = IF n \in Exacts THEN n ELSE RoundTo(n, t)
  BY DEF Shortest, S
<1> HIDE DEF t
<1>5. RoundTo(n, t) \in Int
  BY <1>2, RoundInt
<1>6. RoundTo(n, 1) = n
  BY DEF RoundTo
<1>7. ASSUME RoundTo(n, t) \in Exacts PROVE RoundTo(n, t) = n
  <2>1. CASE t = 1
    BY <1>6, <2>1
  <2>2. CASE Float64(RoundTo(n, t)) = n
    BY <1>5, <1>7, <2>2, Float64Is
  <2> QED
    BY <1>3, <2>1, <2>2
<1> QED
  BY <1>4, <1>5, <1>7

LEMMA MarshalIs ==
  ASSUME NEW x \in Scalars
  PROVE  /\ Marshal(x) \in Stored /\ Unmarshal(Marshal(x)) \in Scalars
         /\ x.type = "string" <=> Marshal(x).json = "text"
         /\ x.type = "string" <=> Unmarshal(Marshal(x)).type = "string"
         /\ x.type # "string" => Unmarshal(Marshal(x)).type = "float64"
         /\ Exactly(Marshal(x)) => Marshal(x).n = x.n /\ Unmarshal(Marshal(x)).n = x.n
<1>1. x.type \in {"int", "float64", "string"} /\ x.n \in Int
  BY DEF Scalars
<1> DEFINE j == Marshal(x)
<1>2. /\ j = [json |-> j.json, n |-> j.n]
      /\ j.json = IF x.type = "string" THEN "text" ELSE "number"
      /\ j.n = IF x.type = "float64" THEN Shortest(x.n) ELSE x.n
  BY DEF Marshal
<1> HIDE DEF j
<1>3. j.n \in Int /\ Float64(j.n) \in Int
  BY <1>1, <1>2, ShortestIs, Float64Is
<1>4. j \in Stored
  BY <1>1, <1>2, <1>3 DEF Stored
<1>5. /\ Unmarshal(j).type = IF j.json = "text" THEN "string" ELSE "float64"
      /\ Unmarshal(j).n = IF j.json = "text" THEN j.n ELSE Float64(j.n)
      /\ Unmarshal(j) \in Scalars
  BY <1>3 DEF Unmarshal, TextValue, FloatValue, Scalars
<1>6. ASSUME Exactly(j) PROVE j.n = x.n /\ Unmarshal(j).n = x.n
  <2>1. CASE x.type = "string"
    BY <1>2, <1>5, <2>1
  <2>2. CASE x.type # "string"
    <3>1. j.n \in Exacts
      BY <1>2, <1>6, <2>2 DEF Exactly
    <3>2. j.n = x.n
      BY <1>1, <1>2, <3>1, ShortestIs
    <3>3. Float64(j.n) = j.n
      BY <1>3, <3>1, Float64Is
    <3> QED
      BY <1>2, <1>5, <2>2, <3>2, <3>3
  <2> QED
    BY <2>1, <2>2
<1> QED
  BY <1>1, <1>2, <1>4, <1>5, <1>6 DEF j

LEMMA UnmarshalIs ==
  ASSUME NEW j \in Stored
  PROVE  Unmarshal(j) \in Scalars /\ (Exactly(j) => Marshal(Unmarshal(j)) = j)
<1>1. j.json \in {"text", "number"} /\ j.n \in Int /\ j = [json |-> j.json, n |-> j.n]
  BY DEF Stored
<1>2. Float64(j.n) \in Int /\ (j.n \in Exacts => Float64(j.n) = j.n /\ Shortest(j.n) = j.n)
  BY <1>1, Float64Is, ShortestIs
<1>3. Unmarshal(j) \in Scalars
  BY <1>1, <1>2 DEF Unmarshal, TextValue, FloatValue, Scalars
<1>4. CASE j.json = "text"
  BY <1>1, <1>3, <1>4 DEF Marshal, Unmarshal, TextValue
<1>5. CASE j.json = "number" /\ j.n \in Exacts
  BY <1>1, <1>2, <1>3, <1>5 DEF Marshal, Unmarshal, FloatValue
<1> QED
  BY <1>1, <1>3, <1>4, <1>5 DEF Exactly

\* A number that is printed alike before and after.
LEMMA PrintedAlike ==
  ASSUME NEW x \in Scalars, x.type # "int" \/ Digits6(x.n), Exactly(Marshal(x))
  PROVE  Sprint(Unmarshal(Marshal(x))) = Sprint(x)
<1>1. x.type \in {"int", "float64", "string"}
  BY DEF Scalars
<1>2. Unmarshal(Marshal(x)).n = x.n
  BY MarshalIs
<1>3. CASE x.type = "string"
  BY <1>2, <1>3, MarshalIs DEF Sprint
<1>4. CASE x.type = "float64"
  BY <1>2, <1>4, MarshalIs DEF Sprint
<1>5. CASE x.type = "int"
  <2>1. Digits6(x.n) /\ Unmarshal(Marshal(x)).type = "float64"
    BY <1>5, MarshalIs
  <2> QED
    BY <1>2, <1>5, <2>1 DEF Sprint
<1> QED
  BY <1>1, <1>3, <1>4, <1>5

\* Contains asks of a stored value what the stored form of the other says.
LEMMA ComparedAsStored ==
  ASSUME NEW j \in Stored, NEW x \in Scalars, Exactly(j), Exactly(Marshal(x))
  PROVE  ToFloat64(Unmarshal(j)) = ToFloat64(x) <=> j = Marshal(x)
<1>1. /\ j.json \in {"text", "number"} /\ j.n \in Int /\ j = [json |-> j.json, n |-> j.n]
      /\ x.type \in {"int", "float64", "string"} /\ x.n \in Int /\ x = [type |-> x.type, n |-> x.n]
  BY DEF Stored, Scalars
<1>2. /\ Marshal(x) = [json |-> IF x.type = "string" THEN "text" ELSE "number", n |-> x.n]
      /\ x.type # "string" => x.n \in Exacts
  <2>1. Marshal(x).n = x.n
    BY MarshalIs
  <2> QED
    BY <2>1 DEF Marshal, Exactly
<1>3. x.type # "string" => ToFloat64(x) = FloatValue(x.n)
  BY <1>1, <1>2, Float64Is DEF ToFloat64, FloatValue
<1>4. x.type = "string" => ToFloat64(x) = TextValue(x.n)
  BY <1>1 DEF ToFloat64, TextValue
<1>5. j.json = "text" => ToFloat64(Unmarshal(j)) = TextValue(j.n)
  BY DEF Unmarshal, TextValue, ToFloat64
<1>6. j.json = "number" => ToFloat64(Unmarshal(j)) = FloatValue(j.n)
  BY <1>1, Float64Is DEF Exactly, Unmarshal, FloatValue, ToFloat64
<1>7. j = Marshal(x) <=> (j.json = "text" <=> x.type = "string") /\ j.n = x.n
  BY <1>1, <1>2
<1>8. CASE j.json = "text" /\ x.type = "string"
  <2>1. TextValue(j.n) = TextValue(x.n) <=> j.n = x.n
    BY <1>1 DEF TextValue
  <2>2. ToFloat64(Unmarshal(j)) = TextValue(j.n) /\ ToFloat64(x) = TextValue(x.n)
    BY <1>4, <1>5, <1>8
  <2>3. j = Marshal(x) <=> j.n = x.n
    BY <1>7, <1>8
  <2> QED
    BY <2>1, <2>2, <2>3
<1>9. CASE j.json = "text" /\ x.type # "string"
  <2>1. TextValue(j.n) # FloatValue(x.n)
    BY DEF TextValue, FloatValue
  <2>2. ToFloat64(Unmarshal(j)) = TextValue(j.n) /\ ToFloat64(x) = FloatValue(x.n)
    BY <1>3, <1>5, <1>9
  <2>3. j # Marshal(x)
    BY <1>7, <1>9
  <2> QED
    BY <2>1, <2>2, <2>3
<1>10. CASE j.json = "number" /\ x.type = "string"
  <2>1. FloatValue(j.n) # TextValue(x.n)
    BY DEF TextValue, FloatValue
  <2>2. ToFloat64(Unmarshal(j)) = FloatValue(j.n) /\ ToFloat64(x) = TextValue(x.n)
    BY <1>4, <1>6, <1>10
  <2>3. j # Marshal(x)
    BY <1>7, <1>10
  <2> QED
    BY <2>1, <2>2, <2>3
<1>11. CASE j.json = "number" /\ x.type # "string"
  <2>1. FloatValue(j.n) = FloatValue(x.n) <=> j.n = x.n
    BY <1>1 DEF FloatValue
  <2>2. ToFloat64(Unmarshal(j)) = FloatValue(j.n) /\ ToFloat64(x) = FloatValue(x.n)
    BY <1>3, <1>6, <1>11
  <2>3. j = Marshal(x) <=> j.n = x.n
    BY <1>7, <1>11
  <2> QED
    BY <2>1, <2>2, <2>3
<1> QED
  BY <1>1, <1>8, <1>9, <1>10, <1>11

LEMMA ScanStored ==
  ASSUME NEW j, j = [k \in DOMAIN j |-> j[k]], \A k \in DOMAIN j : j[k] \in Stored
  PROVE  (AllExactly(j) => Value(Scan(j)) = j) /\ ParametersOK(Scan(j))
<1>1. DOMAIN Scan(j) = DOMAIN j /\ \A k \in DOMAIN j : Scan(j)[k] = Unmarshal(j[k])
  BY DEF Scan
<1>2. Value(Scan(j)) = [k \in DOMAIN j |-> Marshal(Unmarshal(j[k]))]
  BY <1>1 DEF Value
<1>3. \A k \in DOMAIN j : /\ Unmarshal(j[k]) \in Scalars
                          /\ Exactly(j[k]) => Marshal(Unmarshal(j[k])) = j[k]
  BY UnmarshalIs
<1> QED
  BY <1>1, <1>2, <1>3 DEF ParametersOK, AllExactly

LEMMA ValueStored ==
  ASSUME NEW p, ParametersOK(p)
  PROVE  /\ Value(p) = [k \in DOMAIN Value(p) |-> Value(p)[k]]
         /\ \A k \in DOMAIN Value(p) : Value(p)[k] \in Stored
         /\ DOMAIN Scan(Value(p)) = DOMAIN p
         /\ \A k \in DOMAIN p : Scan(Value(p))[k] = Unmarshal(Marshal(p[k]))
         /\ Printable(p) /\ AllExactly(Value(p)) => Equal(Scan(Value(p)), p)
<1>1. DOMAIN Value(p) = DOMAIN p /\ \A k \in DOMAIN p : Value(p)[k] = Marshal(p[k])
  BY DEF Value
<1>2. DOMAIN Scan(Value(p)) = DOMAIN p
      /\ \A k \in DOMAIN p : Scan(Value(p))[k] = Unmarshal(Marshal(p[k]))
  BY <1>1 DEF Scan
<1>3. \A k \in DOMAIN p : Marshal(p[k]) \in Stored
  BY MarshalIs DEF ParametersOK
<1>4. Value(p) = [k \in DOMAIN Value(p) |-> Value(p)[k]]
  BY <1>1 DEF Value
<1>5. ASSUME Printable(p), AllExactly(Value(p)) PROVE Equal(Scan(Value(p)), p)
  <2>1. \A k \in DOMAIN p : /\ p[k] \in Scalars /\ (p[k].type # "int" \/ Digits6(p[k].n))
                            /\ Exactly(Marshal(p[k]))
    BY <1>1, <1>5 DEF ParametersOK, Printable, AllExactly
  <2>2. \A k \in DOMAIN p : Sprint(Unmarshal(Marshal(p[k]))) = Sprint(p[k])
    BY <2>1, PrintedAlike
  <2> QED
    BY <1>2, <2>2 DEF Equal
<1> QED
  BY <1>1, <1>2, <1>3, <1>4, <1>5

\* What is stored of a context and read again is a context.
LEMMA StoredContext ==
  ASSUME NEW ec, ContextOK(ec)
  PROVE  ContextOK(ContextScan(ContextValue(ec)))
<1> DEFINE j == ContextValue(ec)
           c == ContextScan(j)
<1>1. DOMAIN j = DOMAIN ec /\ DOMAIN c = DOMAIN ec
  BY DEF ContextValue, ContextScan
<1>2. ASSUME NEW p \in DOMAIN ec, IsMap(ec[p]) PROVE c[p] \in Maps /\ IsMap(c[p])
  <2>1. j[p] = [json |-> "object"]
    BY <1>2 DEF ContextValue
  <2>2. c[p] = [type |-> "map"]
    BY <1>1, <2>1 DEF ContextScan
  <2> QED
    BY <2>2 DEF Maps, IsMap
<1>3. ASSUME NEW p \in DOMAIN ec, ~IsMap(ec[p]) PROVE c[p] \in Scalars
  <2>1. ec[p] \in Scalars
    BY <1>3 DEF ContextOK, TreeOK, Maps, IsMap
  <2>2. j[p] = Marshal(ec[p])
    BY <1>3 DEF ContextValue
  <2>3. j[p].json \in {"text", "number"}
    BY <2>1, <2>2 DEF Marshal
  <2>4. c[p] = Unmarshal(j[p])
    BY <1>1, <2>3 DEF ContextScan
  <2> QED
    BY <2>1, <2>2, <2>4, MarshalIs
<1> HIDE DEF c
<1>4. ContextOK(c)
  BY <1>1, <1>2, <1>3 DEF ContextOK, TreeOK
<1> QED
  BY <1>4 DEF c

LEMMA EqualItself == ASSUME NEW p PROVE Equal(p, p)
BY DEF Equal

\* A request that is printed alike before and after it was stored, and one that was
\* read from the table, match their row, if its numbers are read as they were stored.
LEMMA AskedMatches ==
  ASSUME NEW i \in DOMAIN table, RowOK(table[i]), table[i].job = cfg.job_name,
         AllExactly(table[i].params), NEW p,
         \/ p = Scan(table[i].params)
         \/ p = table[i].asked /\ Printable(p) /\ ~table[i].incremented
  PROVE  Matches(i, p)
<1>1. CASE p = Scan(table[i].params)
  <2>1. Value(p) = table[i].params
    BY <1>1, ScanStored DEF RowOK
  <2>2. Equal(Scan(table[i].params), p)
    BY <1>1, EqualItself
  <2> QED
    BY <2>1, <2>2 DEF Matches, Hash, RowOK
<1>2. CASE p = table[i].asked /\ Printable(p) /\ ~table[i].incremented
  <2>1. ParametersOK(p) /\ table[i].params = Value(p) /\ table[i].hash = Value(p)
    BY <1>2 DEF RowOK
  <2>2. Equal(Scan(Value(p)), p)
    BY <1>2, <2>1, ValueStored
  <2> QED
    BY <2>1, <2>2 DEF Matches, Hash
<1> QED
  BY <1>1, <1>2

-----------------------------------------------------------------------------
(* What the invariant says of a launch. *)

LEMMA RequestFinds ==
  ASSUME Rows, InstanceFound, StartTypes
  PROVE  RequestFindsInstance
<1>1. phase = "launched" /\ ~table[instance].incremented => table[instance].hash = Hash(request)
  BY DEF InstanceFound
<1>2. ASSUME NEW i \in DOMAIN table, table[i].job = cfg.job_name, AllExactly(table[i].params),
             \/ request = Scan(table[i].params)
             \/ request = table[i].asked /\ Printable(request) /\ ~table[i].incremented
      PROVE  phase # "duplicate" /\ (phase = "launched" => instance = i)
  <2>1. RowOK(table[i])
    BY DEF Rows
  <2>2. Matches(i, request)
    BY <1>2, <2>1, AskedMatches
  <2> QED
    BY <2>2 DEF InstanceFound
<1>3. ASSUME NEW i \in DOMAIN table, NEW p \in Requests,
             AllExactly(table[i].params), AllExactly(Value(p))
      PROVE  i \in FindJobInstances(table[i].job, p) <=>
               \A k \in DOMAIN p : k \in DOMAIN table[i].params /\ table[i].params[k] = Value(p)[k]
  <2> DEFINE j == table[i].params
  <2>1. \A k \in DOMAIN j : j[k] \in Stored /\ Exactly(j[k])
    BY <1>3 DEF Rows, RowOK, AllExactly
  <2>2. \A k \in DOMAIN p : p[k] \in Scalars /\ Exactly(Marshal(p[k]))
    BY <1>3, StartAssumption DEF ParametersOK, AllExactly, Value
  <2>3. DOMAIN Scan(j) = DOMAIN j /\ \A k \in DOMAIN j : Scan(j)[k] = Unmarshal(j[k])
    BY DEF Scan
  <2>4. \A k \in DOMAIN p : Value(p)[k] = Marshal(p[k])
    BY DEF Value
  <2> HIDE DEF j
  <2>5. ContainsParameters(Scan(j), p) <=>
          \A k \in DOMAIN p : k \in DOMAIN j /\ ToFloat64(Scan(j)[k]) = ToFloat64(p[k])
    BY <2>3 DEF ContainsParameters
  <2>6. \A k \in DOMAIN p : k \in DOMAIN j =>
          (ToFloat64(Scan(j)[k]) = ToFloat64(p[k]) <=> j[k] = Value(p)[k])
    BY <2>1, <2>2, <2>3, <2>4, ComparedAsStored
  <2>7. i \in FindJobInstances(table[i].job, p) <=> ContainsParameters(Scan(j), p)
    BY DEF FindJobInstances, j
  <2>8. i \in FindJobInstances(table[i].job, p) <=>
          \A k \in DOMAIN p : k \in DOMAIN j /\ j[k] = Value(p)[k]
    BY <2>5, <2>6, <2>7
  <2> QED
    BY <2>8 DEF j
<1> QED
  BY <1>1, <1>2, <1>3 DEF RequestFindsInstance

\* A value at the top of a context has nothing below it.
LEMMA HeldIs ==
  ASSUME NEW ec, ContextOK(ec), NEW k \in Held(ec)
  PROVE  /\ <<k>> \in DOMAIN ec /\ ec[<<k>>] \in Scalars
         /\ DOMAIN At(ec, <<k>>) = {<<>>} /\ At(ec, <<k>>)[<<>>] = ec[<<k>>]
<1>1. PICK q \in DOMAIN ec : Len(q) = 1 /\ ~IsMap(ec[q]) /\ k = q[1]
  BY DEF Held
<1>2. q \in Seq(Keys) /\ ec[q] \in Scalars \cup Maps
  BY DEF ContextOK, TreeOK, Paths
<1>3. q = <<k>>
  BY <1>1, <1>2
<1>4. ec[<<k>>] \in Scalars
  BY <1>1, <1>2, <1>3 DEF Maps, IsMap
<1>5. <<k>> \in Paths /\ TreeOK(ec) /\ k \in Keys
  BY <1>1, <1>2, <1>3 DEF Paths, ContextOK
<1>6. /\ \A r \in DOMAIN At(ec, <<k>>) :
           r \in Paths /\ <<k>> \o r \in DOMAIN ec /\ At(ec, <<k>>)[r] = ec[<<k>> \o r]
      /\ \A r \in Paths : <<k>> \o r \in DOMAIN ec => r \in DOMAIN At(ec, <<k>>)
  BY <1>5, AtIs
<1>7. <<>> \in Paths /\ <<k>> \o <<>> = <<k>>
  <2>1. <<>> \in Paths
    BY DEF Paths
  <2> QED
    BY <1>5, <2>1, ConcatEmptySeq DEF Paths
<1>8. <<>> \in DOMAIN At(ec, <<k>>) /\ At(ec, <<k>>)[<<>>] = ec[<<k>>]
  BY <1>1, <1>3, <1>6, <1>7
<1>9. ASSUME NEW r \in DOMAIN At(ec, <<k>>), r # <<>> PROVE FALSE
  <2>1. r \in Paths /\ <<k>> \o r \in DOMAIN ec
    BY <1>6
  <2>2. IsPrefix(<<k>>, <<k>> \o r) /\ Rest(<<k>>, <<k>> \o r) = r
    BY <1>5, <2>1, ConcatIs DEF Paths
  <2>3. Rest(<<k>>, <<k>> \o <<>>) = <<>>
    BY <1>5, <1>7, ConcatIs DEF Paths
  <2>4. <<k>> # <<k>> \o r
    BY <1>7, <1>9, <2>2, <2>3
  <2>5. IsMap(ec[<<k>>])
    BY <1>1, <1>3, <1>5, <2>1, <2>2, <2>4 DEF TreeOK, IsStrictPrefix
  <2> QED
    BY <1>1, <1>3, <2>5
<1> QED
  BY <1>1, <1>3, <1>4, <1>8, <1>9

LEMMA HeldStored ==
  ASSUME NEW ec, ContextOK(ec), NEW k \in Held(ec), NEW c, c = ContextScan(ContextValue(ec))
  PROVE  k \in Held(c) /\ c[<<k>>] = Unmarshal(Marshal(ec[<<k>>]))
<1>1. <<k>> \in DOMAIN ec /\ ec[<<k>>] \in Scalars
  BY HeldIs
<1>2. ~IsMap(ec[<<k>>])
  BY <1>1 DEF Scalars, IsMap
<1>3. <<k>> \in DOMAIN ContextValue(ec) /\ ContextValue(ec)[<<k>>] = Marshal(ec[<<k>>])
  BY <1>1, <1>2 DEF ContextValue
<1>4. Marshal(ec[<<k>>]) \in Stored /\ Unmarshal(Marshal(ec[<<k>>])) \in Scalars
  BY <1>1, MarshalIs
<1>5. <<k>> \in DOMAIN c /\ c[<<k>>] = Unmarshal(Marshal(ec[<<k>>]))
  BY <1>3, <1>4 DEF ContextScan, Stored
<1>6. ~IsMap(c[<<k>>])
  BY <1>4, <1>5 DEF Scalars, IsMap
<1>7. Len(<<k>>) = 1 /\ <<k>>[1] = k
  OBVIOUS
<1>8. k \in Held(c)
  BY <1>5, <1>6, <1>7 DEF Held
<1> QED
  BY <1>5, <1>8

\* The typed reads find the same under a key of a stored value.
LEMMA StoredReads ==
  ASSUME NEW p, NEW q, NEW key, key \in DOMAIN p, key \in DOMAIN q, p[key] \in Scalars,
         q[key] = Unmarshal(Marshal(p[key])), Exactly(Marshal(p[key]))
  PROVE  ReadAlike(p, q, key)
<1>1. /\ q[key].n = p[key].n /\ q[key] \in Scalars
      /\ p[key].type = "string" <=> q[key].type = "string"
  BY MarshalIs
<1>2. p[key].type \in {"int", "float64", "string"} /\ q[key].type \in {"int", "float64", "string"}
  BY <1>1 DEF Scalars
<1>3. GetString(p, key) = GetString(q, key)
  BY <1>1 DEF GetString
<1>4. GetInt(p, key) = GetInt(q, key)
  BY <1>1, <1>2 DEF GetInt
<1> QED
  BY <1>3, <1>4 DEF ReadAlike

\* An expression and a decision see no more of a value than how it is printed.
LEMMA SeenAlike ==
  ASSUME NEW ec, NEW c, ContextOK(ec), ContextOK(c), NEW k \in Held(ec), k \in Held(c),
         Sprint(c[<<k>>]) = Sprint(ec[<<k>>])
  PROVE  /\ ResolveContext(k, c) = ResolveContext(k, ec)
         /\ \A d : d.conditionKey \in {k, <<>>} => Decide(d, c) = Decide(d, ec)
<1>1. /\ <<k>> \in DOMAIN ec /\ ~IsMap(ec[<<k>>])
      /\ DOMAIN At(ec, <<k>>) = {<<>>} /\ At(ec, <<k>>)[<<>>] = ec[<<k>>]
  BY HeldIs DEF Scalars, IsMap
<1>2. /\ <<k>> \in DOMAIN c /\ ~IsMap(c[<<k>>])
      /\ DOMAIN At(c, <<k>>) = {<<>>} /\ At(c, <<k>>)[<<>>] = c[<<k>>]
  BY HeldIs DEF Scalars, IsMap
<1>3. Printed(At(ec, <<k>>)) = [p \in {<<>>} |-> Sprint(ec[<<k>>])]
  BY <1>1 DEF Printed
<1>4. Printed(At(c, <<k>>)) = [p \in {<<>>} |-> Sprint(c[<<k>>])]
  BY <1>2 DEF Printed
<1>5. Printed(At(c, <<k>>)) = Printed(At(ec, <<k>>))
  BY <1>3, <1>4
<1>6. ResolveContext(k, c) = ResolveContext(k, ec)
  BY <1>1, <1>2, <1>5 DEF ResolveContext
<1>7. GetNested(ec, k) = At(ec, <<k>>) /\ GetNested(c, k) = At(c, <<k>>)
  BY <1>1, <1>2 DEF GetNested
<1>8. DOMAIN Absent = {}
  BY DEF Absent, NewExecutionContext
<1>9. At(ec, <<k>>) # Absent /\ At(c, <<k>>) # Absent
  BY <1>1, <1>2, <1>8
<1>10. ASSUME NEW d, d.conditionKey = k PROVE Decide(d, c) = Decide(d, ec)
  BY <1>5, <1>7, <1>9, <1>10 DEF Decide
<1>11. ASSUME NEW d, d.conditionKey = <<>> PROVE Decide(d, c) = Decide(d, ec)
  BY <1>11 DEF Decide
<1> QED
  BY <1>6, <1>10, <1>11

LEMMA Resolves ==
  ASSUME StartTypes, Contexts, InstanceFound
  PROVE  ResolvesAlike
<1> SUFFICES ASSUME phase = "launched" PROVE ResolvesAlike
  BY DEF ResolvesAlike
<1> DEFINE q == Scan(table[instance].params)
<1>1. ParametersOK(params) /\ (table[instance].params = Value(params) \/ q = params)
  BY DEF InstanceFound, StartTypes
<1>2. \/ q = params
      \/ /\ DOMAIN q = DOMAIN params
         /\ \A k \in DOMAIN params : q[k] = Unmarshal(Marshal(params[k]))
  BY <1>1, ValueStored
<1>3. \A k \in DOMAIN params : params[k] \in Scalars
  BY <1>1 DEF ParametersOK
<1> HIDE DEF q
<1>4. ASSUME Printable(params), AllExactly(Value(params)), NEW k \in DOMAIN params
      PROVE  Resolve(k, params) = Resolve(k, q)
  <2>1. (params[k].type # "int" \/ Digits6(params[k].n)) /\ Exactly(Marshal(params[k]))
    BY <1>4 DEF Printable, AllExactly, Value
  <2>2. Sprint(q[k]) = Sprint(params[k])
    BY <1>2, <1>3, <2>1, PrintedAlike
  <2> QED
    BY <1>2, <2>2 DEF Resolve
<1>5. ASSUME NEW k \in DOMAIN params, Exactly(Marshal(params[k])) PROVE ReadAlike(params, q, k)
  <2>1. CASE q = params
    BY <2>1 DEF ReadAlike
  <2>2. CASE q # params
    BY <1>2, <1>3, <1>5, <2>2, StoredReads
  <2> QED
    BY <2>1, <2>2
<1>6. context = ContextScan(ContextValue(was)) /\ ContextOK(was) /\ ContextOK(context)
  BY DEF Contexts, StartTypes
<1>7. ASSUME NEW k \in Held(was), Exactly(Marshal(was[<<k>>]))
      PROVE  /\ ReadAlike(was, context, <<k>>)
             /\ Printable([p \in {k} |-> was[<<k>>]]) =>
                  /\ ResolveContext(k, context) = ResolveContext(k, was)
                  /\ \A d \in Decisions(k, {ResolveContext(k, was), Five}) :
                       Decide(d, context) = Decide(d, was)
  <2>1. <<k>> \in DOMAIN was /\ was[<<k>>] \in Scalars
    BY <1>6, HeldIs
  <2>2. k \in Held(context) /\ context[<<k>>] = Unmarshal(Marshal(was[<<k>>]))
    BY <1>6, HeldStored
  <2>3. <<k>> \in DOMAIN context
    BY <1>6, <2>2, HeldIs
  <2>4. ReadAlike(was, context, <<k>>)
    BY <1>7, <2>1, <2>2, <2>3, StoredReads
  <2>5. ASSUME Printable([p \in {k} |-> was[<<k>>]])
        PROVE  Sprint(context[<<k>>]) = Sprint(was[<<k>>])
    <3>1. was[<<k>>].type # "int" \/ Digits6(was[<<k>>].n)
      BY <2>5 DEF Printable
    <3> QED
      BY <1>7, <2>1, <2>2, <3>1, PrintedAlike
  <2>6. \A d \in Decisions(k, {ResolveContext(k, was), Five}) : d.conditionKey \in {k, <<>>}
    BY DEF Decisions
  <2>7. ASSUME Printable([p \in {k} |-> was[<<k>>]])
        PROVE  /\ ResolveContext(k, context) = ResolveContext(k, was)
               /\ \A d : d.conditionKey \in {k, <<>>} => Decide(d, context) = Decide(d, was)
    BY <1>6, <2>2, <2>5, <2>7, SeenAlike
  <2>8. ASSUME Printable([p \in {k} |-> was[<<k>>]])
        PROVE  \A d \in Decisions(k, {ResolveContext(k, was), Five}) :
                 Decide(d, context) = Decide(d, was)
    <3>1. \A d : d.conditionKey \in {k, <<>>} => Decide(d, context) = Decide(d, was)
      BY <2>7, <2>8
    <3> SUFFICES ASSUME NEW d \in Decisions(k, {ResolveContext(k, was), Five})
                 PROVE  Decide(d, context) = Decide(d, was)
      OBVIOUS
    <3>2. d.conditionKey \in {k, <<>>}
      BY <2>6
    <3> QED
      BY <3>1, <3>2
  <2> QED
    BY <2>4, <2>7, <2>8
<1> QED
  BY <1>4, <1>5, <1>7 DEF ResolvesAlike, q

-----------------------------------------------------------------------------
(* The steps of a process. *)

LEMMA EmptyContext ==
  /\ ContextOK(NewExecutionContext)
  /\ ContextScan(ContextValue(NewExecutionContext)) = NewExecutionContext
<1>1. ContextOK(NewExecutionContext)
  BY DEF NewExecutionContext, ContextOK, TreeOK
<1>2. ContextScan(ContextValue(NewExecutionContext)) = NewExecutionContext
  BY DEF NewExecutionContext, ContextScan, ContextValue
<1> QED
  BY <1>1, <1>2

LEMMA NoParametersOK == ParametersOK(NoParameters)
BY DEF NoParameters, ParametersOK

\* The last of what was stored is replaced, and nothing else of the row.
LEMMA LastStored ==
  ASSUME Rows, NEW i \in DOMAIN table, NEW x,
         x.job = ContextValue(x.was), ContextOK(x.was), ContextOK(ContextScan(x.step)),
         table' = [table EXCEPT ![i].last = x]
  PROVE  /\ Rows' /\ DOMAIN table' = DOMAIN table
         /\ \A k \in DOMAIN table :
              /\ table'[k].job = table[k].job /\ table'[k].params = table[k].params
              /\ table'[k].hash = table[k].hash /\ table'[k].incremented = table[k].incremented
<1> DEFINE y == [table[i] EXCEPT !.last = x]
<1>1. table' = [table EXCEPT ![i] = y]
  OBVIOUS
<1>2. IsList(table) /\ \A k \in DOMAIN table : RowOK(table[k])
  BY DEF Rows
<1>3. table[i] = [job |-> table[i].job, params |-> table[i].params, hash |-> table[i].hash,
                  last |-> table[i].last, asked |-> table[i].asked,
                  incremented |-> table[i].incremented]
  BY <1>2 DEF RowOK
<1>4. y = [job |-> table[i].job, params |-> table[i].params, hash |-> table[i].hash,
           last |-> x, asked |-> table[i].asked, incremented |-> table[i].incremented]
  BY <1>3
<1>5. /\ y.job = table[i].job /\ y.params = table[i].params /\ y.hash = table[i].hash
      /\ y.last = x /\ y.asked = table[i].asked /\ y.incremented = table[i].incremented
      /\ y = [job |-> y.job, params |-> y.params, hash |-> y.hash,
              last |-> y.last, asked |-> y.asked, incremented |-> y.incremented]
  BY <1>4
<1> HIDE DEF y
<1>6. RowOK(y)
  <2>1. RowOK(table[i])
    BY <1>2
  <2> QED
    BY <1>5, <2>1 DEF RowOK
<1>7. /\ IsList(table') /\ DOMAIN table' = DOMAIN table
      /\ \A k \in DOMAIN table : table'[k] = IF k = i THEN y ELSE table[k]
  <2>1. \A z : /\ IsList([table EXCEPT ![i] = z]) /\ DOMAIN [table EXCEPT ![i] = z] = DOMAIN table
               /\ \A k \in DOMAIN table : [table EXCEPT ![i] = z][k] = IF k = i THEN z ELSE table[k]
    BY <1>2, ListExcept
  <2> QED
    BY <1>1, <2>1, Zenon
<1>8. \A k \in DOMAIN table' : RowOK(table'[k])
  BY <1>2, <1>6, <1>7
<1>9. \A k \in DOMAIN table :
        /\ table'[k].job = table[k].job /\ table'[k].params = table[k].params
        /\ table'[k].hash = table[k].hash /\ table'[k].incremented = table[k].incremented
  BY <1>5, <1>7
<1>10. \A k, l \in DOMAIN table' :
         table'[k].job = table'[l].job /\ table'[k].hash = table'[l].hash => k = l
  BY <1>7, <1>9 DEF Rows
<1>11. Rows'
  <2>1. IsList(table)' /\ \A k \in DOMAIN table' : RowOK(table'[k])
    BY <1>7, <1>8 DEF IsList
  <2> QED
    BY <1>10, <2>1 DEF Rows, RowOK
<1> QED
  BY <1>7, <1>9, <1>11

\* The rows a launch would find are the same, if nothing else of them changes.
LEMMA MatchesKept ==
  ASSUME DOMAIN table' = DOMAIN table, cfg' = cfg, NEW p,
         \A k \in DOMAIN table :
           /\ table'[k].job = table[k].job /\ table'[k].params = table[k].params
           /\ table'[k].hash = table[k].hash
  PROVE  \A k \in DOMAIN table : Matches(k, p)' <=> Matches(k, p)
<1> SUFFICES ASSUME NEW k \in DOMAIN table PROVE Matches(k, p)' <=> Matches(k, p)
  OBVIOUS
<1>1. /\ table'[k].job = table[k].job /\ table'[k].params = table[k].params
      /\ table'[k].hash = table[k].hash
  OBVIOUS
<1> QED
  BY <1>1 DEF Matches

LEMMA RowsFrame == Rows /\ table' = table => Rows'
BY DEF Rows, RowOK, IsList

LEMMA BuildFrame == BuildInv /\ UNCHANGED defVars => BuildInv'
<1> SUFFICES ASSUME BuildInv, UNCHANGED defVars PROVE BuildInv'
  OBVIOUS
<1>1. /\ registry' = registry /\ loaded' = loaded /\ build' = build /\ def' = def /\ todo' = todo
      /\ built' = built /\ flow' = flow /\ early' = early
  BY DEF defVars, buildVars
<1>2. \A id \in DOMAIN built : FirstOK(id) => FirstOK(id)'
  BY <1>1, FirstKept
<1>3. \A id : SecondOK(id) => SecondOK(id)'
  BY <1>1, SecondKept
<1>4. FlowOf(DOMAIN def.elements \ todo)' = FlowOf(DOMAIN def.elements \ todo)
      /\ FlowOf({})' = FlowOf({})
  BY <1>1, FlowKept
<1>5. Valid(def)' <=> Valid(def)
  BY <1>1, ValidKept
<1>6. ListenersReady' <=> ListenersReady
  BY <1>1 DEF ListenersReady, Builds
<1>7. BuildTypes'
  BY <1>1 DEF BuildInv, BuildTypes
<1>8. Construction'
  BY <1>1, <1>2 DEF BuildInv, Construction
<1>9. InFirstPass'
  BY <1>1, <1>4 DEF BuildInv, InFirstPass
<1>10. InSecondPass'
  BY <1>1, <1>3, <1>4 DEF BuildInv, InSecondPass
<1>11. BuildEnds'
  BY <1>1, <1>5, <1>6 DEF BuildInv, BuildEnds
<1> QED
  BY <1>7, <1>8, <1>9, <1>10, <1>11 DEF BuildInv

\* While no job is built there is nothing but the registry and what was loaded.
LEMMA IdleKeeps ==
  ASSUME build' = "idle", def' = NoDefinition, early' = FALSE, registry' \subseteq Builders,
         \A j \in DOMAIN loaded' : loaded'[j] \in Definitions
  PROVE  BuildInv'
<1>1. BuildTypes'
  BY DEF BuildTypes, Stages
<1>2. Construction' /\ InFirstPass' /\ InSecondPass'
  BY DEF Construction, InFirstPass, InSecondPass
<1>3. BuildEnds'
  BY DEF BuildEnds, NoDefinition
<1> QED
  BY <1>1, <1>2, <1>3 DEF BuildInv

LEMMA ForgetKeeps == Forget => BuildInv'
<1> SUFFICES ASSUME Forget PROVE BuildInv'
  OBVIOUS
<1>1. build' = "idle" /\ def' = NoDefinition /\ early' = FALSE /\ registry' = {} /\ loaded' = NoElements
  BY DEF Forget
<1>2. DOMAIN loaded' = {}
  BY <1>1 DEF NoElements
<1> QED
  BY <1>1, <1>2, IdleKeeps

LEMMA StartInitInv == StartInit => StartInv
<1> SUFFICES ASSUME StartInit PROVE StartInv
  OBVIOUS
<1>1. /\ DefInit /\ phase = "down" /\ request = NoParameters /\ params = NoParameters
      /\ context = NewExecutionContext /\ steps = <<>> /\ was = NewExecutionContext
      /\ table = <<>> /\ launches = 0
  BY DEF StartInit
<1>2. BuildInv
  <2>1. /\ registry = {} /\ loaded = NoElements /\ build = "idle" /\ def = NoDefinition
        /\ early = FALSE
    BY <1>1 DEF DefInit
  <2>2. DOMAIN loaded = {}
    BY <2>1 DEF NoElements
  <2> QED
    BY <2>1, <2>2 DEF BuildInv, BuildTypes, Stages, Construction, InFirstPass,
       InSecondPass, BuildEnds
<1>3. <<>> \in Seq({}) /\ DOMAIN <<>> = {}
  OBVIOUS
<1>4. IsList(<<>>)
  BY <1>3, ListOf
<1>5. Rows
  BY <1>1, <1>3, <1>4 DEF Rows
<1>6. StartTypes
  BY <1>1, <1>3, <1>4, EmptyContext, NoParametersOK DEF StartTypes, Phases
<1>7. Configured
  BY <1>1 DEF Configured, DefInit
<1>8. Contexts
  BY <1>1, EmptyContext DEF Contexts
<1>9. InstanceFound
  BY <1>1 DEF InstanceFound
<1> QED
  BY <1>2, <1>5, <1>6, <1>7, <1>8, <1>9 DEF StartInv

LEMMA ConfigureKeeps == StartInv /\ Configure => StartInv'
<1> SUFFICES ASSUME StartInv, Configure PROVE StartInv'
  OBVIOUS
<1>1. /\ phase = "down" /\ UNCHANGED defVars /\ table' = table /\ launches' = launches + 1
      /\ request' = request /\ params' = params /\ context' = context /\ steps' = steps /\ was' = was
      /\ phase' \in {"config", "refused"}
  BY DEF Configure, launchVars, runVars
<1>2. phase' = "config" => source' \in Sources /\ cfg' = LoadConfig(source'.yaml, source'.env)
  BY StartAssumption DEF Configure
<1>3. BuildInv' /\ Rows'
  BY <1>1, BuildFrame, RowsFrame DEF StartInv
<1>4. StartTypes'
  BY <1>1 DEF StartInv, StartTypes, Phases, IsList
<1>5. Configured'
  <2>1. build' = build
    BY <1>1 DEF defVars, buildVars
  <2> QED
    BY <1>1, <1>2, <2>1 DEF StartInv, Configured
<1>6. Contexts' /\ InstanceFound'
  BY <1>1 DEF StartInv, Contexts, InstanceFound
<1> QED
  BY <1>3, <1>4, <1>5, <1>6 DEF StartInv

LEMMA SupplyKeeps == StartInv /\ Supply => StartInv'
<1> SUFFICES ASSUME StartInv, Supply PROVE StartInv'
  OBVIOUS
<1>1. /\ phase = "config" /\ phase' = "supplied" /\ UNCHANGED defVars /\ table' = table
      /\ launches' = launches /\ request' = request /\ params' = params
      /\ context' = context /\ steps' = steps /\ was' = was
  BY DEF Supply, launchVars, runVars
<1>2. BuildInv' /\ Rows'
  BY <1>1, BuildFrame, RowsFrame DEF StartInv
<1>3. StartTypes'
  BY <1>1 DEF StartInv, StartTypes, Phases, IsList
<1>4. Configured'
  <2>1. build' = build
    BY <1>1 DEF defVars, buildVars
  <2> QED
    BY <1>1, <2>1 DEF StartInv, Configured
<1>5. Contexts' /\ InstanceFound'
  BY <1>1 DEF StartInv, Contexts, InstanceFound
<1> QED
  BY <1>2, <1>3, <1>4, <1>5 DEF StartInv

LEMMA StartKeeps == StartInv /\ Start => StartInv'
<1> SUFFICES ASSUME StartInv, Start PROVE StartInv'
  OBVIOUS
<1>1. PICK d \in Definitions, left \in SUBSET Optional :
        /\ registry' = Builders \ left /\ LoadJSLDefinitionFromBytes(d)
        /\ phase' = IF Loadable(d) THEN "jsl" ELSE "refused"
  <2>1. PICK d \in IF launches = 1 THEN Definitions ELSE Redeployed,
             left \in IF launches = 1 THEN SUBSET Optional ELSE {{}} :
          /\ registry' = Builders \ left /\ LoadJSLDefinitionFromBytes(d)
          /\ phase' = IF Loadable(d) THEN "jsl" ELSE "refused"
    BY DEF Start, RegisterBuilders
  <2>2. d \in Definitions /\ left \in SUBSET Optional
    BY StartAssumption
  <2> QED
    BY <2>1, <2>2
<1>2. /\ phase = "supplied" /\ phase' \in {"jsl", "refused"} /\ table' = table
      /\ launches' = launches /\ request' = request /\ params' = params
      /\ context' = context /\ steps' = steps /\ was' = was
      /\ build' = build /\ def' = def /\ early' = early
  BY <1>1 DEF Start, launchVars, runVars, buildVars
<1>3. build = "idle" /\ def = NoDefinition /\ early = FALSE
  BY <1>2 DEF StartInv, Configured, BuildInv, BuildEnds
<1>4. \A j \in DOMAIN loaded : loaded[j] \in Definitions
  BY DEF StartInv, BuildInv, BuildTypes
<1>5. \A j \in DOMAIN loaded' : loaded'[j] \in Definitions
  BY <1>1, <1>4 DEF LoadJSLDefinitionFromBytes
<1>6. BuildInv'
  BY <1>1, <1>2, <1>3, <1>5, IdleKeeps
<1>7. Rows' /\ StartTypes'
  BY <1>2, RowsFrame DEF StartInv, StartTypes, Phases, IsList
<1>8. Configured'
  BY <1>2, <1>3 DEF Configured
<1>9. Contexts' /\ InstanceFound'
  BY <1>2 DEF StartInv, Contexts, InstanceFound
<1> QED
  BY <1>6, <1>7, <1>8, <1>9 DEF StartInv

LEMMA LaunchKeeps == StartInv /\ Launch => StartInv'
<1> SUFFICES ASSUME StartInv, Launch PROVE StartInv'
  OBVIOUS
<1>1. /\ phase = "jsl" /\ phase' = "create" /\ table' = table /\ CreateJob(cfg.job_name)
      /\ launches' = launches /\ request' = request /\ params' = params
      /\ context' = context /\ steps' = steps /\ was' = was
      /\ registry' = registry /\ loaded' = loaded
  BY DEF Launch, launchVars, runVars
<1>2. BuildInv'
  BY <1>1, CreateJobKeeps DEF StartInv
<1>3. Rows' /\ StartTypes'
  BY <1>1, RowsFrame DEF StartInv, StartTypes, Phases, IsList
<1>4. Configured' /\ Contexts' /\ InstanceFound'
  BY <1>1 DEF StartInv, Configured, Contexts, InstanceFound
<1> QED
  BY <1>2, <1>3, <1>4 DEF StartInv

LEMMA CreateKeeps == StartInv /\ Create => StartInv'
<1> SUFFICES ASSUME StartInv, Create PROVE StartInv'
  OBVIOUS
<1>1. /\ phase = "create" /\ phase' = "create" /\ table' = table /\ Converting
      /\ launches' = launches /\ request' = request /\ params' = params
      /\ context' = context /\ steps' = steps /\ was' = was
      /\ registry' = registry /\ loaded' = loaded
  BY DEF Create, launchVars, runVars
<1>2. BuildInv'
  BY <1>1, FirstPassKeeps, SecondPassKeeps, JobListenersKeeps DEF StartInv, Converting
<1>3. Rows' /\ StartTypes'
  BY <1>1, RowsFrame DEF StartInv, StartTypes, Phases, IsList
<1>4. Configured' /\ Contexts' /\ InstanceFound'
  BY <1>1 DEF StartInv, Configured, Contexts, InstanceFound
<1> QED
  BY <1>2, <1>3, <1>4 DEF StartInv

LEMMA FindKeeps ==
  ASSUME StartInv, NEW p, ParametersOK(p), FindJobInstance(p)
  PROVE  StartInv'
<1>1. /\ phase = "create" /\ request' = p /\ UNCHANGED defVars /\ source' = source /\ cfg' = cfg
      /\ launches' = launches
  BY DEF FindJobInstance, configVars
<1>2. BuildInv'
  BY <1>1, BuildFrame DEF StartInv
<1>3. CASE build = "failed"
  <2>1. /\ phase' = "refused" /\ params' = params /\ context' = context /\ steps' = steps
        /\ was' = was /\ table' = table
    BY <1>3 DEF FindJobInstance, runVars
  <2>2. Rows' /\ StartTypes'
    BY <1>1, <2>1, RowsFrame DEF StartInv, StartTypes, Phases, IsList
  <2>3. Configured' /\ Contexts' /\ InstanceFound'
    BY <1>1, <2>1 DEF StartInv, Configured, Contexts, InstanceFound
  <2> QED
    BY <1>2, <2>2, <2>3 DEF StartInv
<1>4. CASE build # "failed" /\ ~ \E i \in DOMAIN table : Matches(i, p)
  <2>1. /\ phase' = "save" /\ params' = params /\ context' = context /\ steps' = steps
        /\ was' = was /\ table' = table
    BY <1>4 DEF FindJobInstance, runVars
  <2>2. Rows' /\ StartTypes'
    BY <1>1, <2>1, RowsFrame DEF StartInv, StartTypes, Phases, IsList
  <2>3. \A k \in DOMAIN table : Matches(k, p)' <=> Matches(k, p)
    BY <1>1, <2>1, MatchesKept
  <2>4. \A k \in DOMAIN table : ~Matches(k, request)'
    BY <1>1, <1>4, <2>3 DEF Matches
  <2>5. Configured' /\ Contexts' /\ InstanceFound'
    BY <1>1, <2>1, <2>4 DEF StartInv, Configured, Contexts, InstanceFound
  <2> QED
    BY <1>2, <2>2, <2>5 DEF StartInv
<1>5. CASE build # "failed" /\ \E i \in DOMAIN table : Matches(i, p)
  <2> DEFINE i == CHOOSE j \in DOMAIN table : Matches(j, p)
  <2>1. /\ i \in DOMAIN table /\ Matches(i, p)
    BY <1>5
  <2>2. /\ instance' = i /\ params' = Scan(table[i].params) /\ NewJobExecution(i) /\ phase' = "launched"
    BY <1>5 DEF FindJobInstance
  <2> HIDE DEF i
  <2>3. /\ context' = ContextScan(table[i].last.job) /\ steps' = <<ContextScan(table[i].last.step)>>
        /\ was' = table[i].last.was /\ table' = [table EXCEPT ![i].last = NoExecution]
    BY <2>2 DEF NewJobExecution
  <2>4. RowOK(table[i])
    BY <2>1 DEF StartInv, Rows
  <2>5. /\ NoExecution.job = ContextValue(NoExecution.was) /\ ContextOK(NoExecution.was)
        /\ ContextOK(ContextScan(NoExecution.step))
    BY EmptyContext DEF NoExecution, FromDomainJobExecution
  <2>6. /\ Rows' /\ DOMAIN table' = DOMAIN table
        /\ \A k \in DOMAIN table :
             /\ table'[k].job = table[k].job /\ table'[k].params = table[k].params
             /\ table'[k].hash = table[k].hash /\ table'[k].incremented = table[k].incremented
    BY <2>1, <2>3, <2>5, LastStored DEF StartInv
  <2>7. \A k \in DOMAIN table : Matches(k, p)' <=> Matches(k, p)
    BY <1>1, <2>6, MatchesKept
  <2>8. /\ context' = ContextScan(ContextValue(was')) /\ ContextOK(was')
        /\ ContextOK(ContextScan(table[i].last.step))
    BY <2>3, <2>4 DEF RowOK
  <2>9. ContextOK(context')
    BY <2>8, StoredContext
  <2>10. params' = Scan(table[i].params) /\ ParametersOK(params')
    BY <2>2, <2>4, ScanStored DEF RowOK
  <2>11. /\ IsList(steps') /\ \A k \in DOMAIN steps' : ContextOK(steps'[k])
    <3> DEFINE x == ContextScan(table[i].last.step)
    <3>1. steps' = <<x>> /\ ContextOK(x)
      BY <2>3, <2>8
    <3> HIDE DEF x
    <3>2. <<x>> \in Seq({x}) /\ DOMAIN <<x>> = {1} /\ <<x>>[1] = x
      OBVIOUS
    <3>3. IsList(<<x>>)
      BY <3>2, ListOf
    <3> QED
      BY <3>1, <3>2, <3>3
  <2>12. StartTypes'
    <3>1. /\ phase' \in Phases /\ launches' \in Nat /\ ParametersOK(request') /\ ParametersOK(params')
          /\ ContextOK(context') /\ ContextOK(was')
      BY <1>1, <2>2, <2>8, <2>9, <2>10 DEF StartInv, StartTypes, Phases
    <3> QED
      BY <2>11, <3>1 DEF StartTypes, IsList, ParametersOK, ContextOK, TreeOK
  <2>13. Configured' /\ Contexts'
    BY <2>2, <2>8 DEF Configured, Contexts, ContextScan, ContextValue
  <2>14. ASSUME NEW k \in DOMAIN table, Matches(k, p) PROVE k = i
    BY <2>1, <2>14 DEF Matches, StartInv, Rows
  <2>15. InstanceFound'
    <3>1. /\ instance' \in DOMAIN table' /\ params' = Scan(table'[instance'].params)
          /\ table'[instance'].hash = Hash(request')
      BY <1>1, <2>1, <2>2, <2>6, <2>10 DEF Matches
    <3>2. \A k \in DOMAIN table' : Matches(k, p)' => k = instance'
      BY <2>2, <2>6, <2>7, <2>14
    <3>3. \A k \in DOMAIN table' : Matches(k, request)' => k = instance'
      BY <1>1, <3>2 DEF Matches
    <3> QED
      BY <2>2, <3>1, <3>3 DEF InstanceFound, Scan, Value, Hash
  <2> QED
    BY <1>2, <2>6, <2>12, <2>13, <2>15 DEF StartInv
<1> QED
  BY <1>3, <1>4, <1>5

\* An incrementer adds a parameter, or changes one.
LEMMA NextParametersOK ==
  ASSUME StartInv, NEW now \in Int
  PROVE  /\ ParametersOK(NextParameters(now))
         /\ GetJobParametersIncrementer(cfg.job_name) = "none" => NextParameters(now) = request
<1>1. ParametersOK(request)
  BY DEF StartInv, StartTypes
<1>2. ASSUME NEW key, NEW x \in Scalars PROVE ParametersOK(Put(request, key, x))
  BY <1>1 DEF ParametersOK, Put
<1>3. ParametersOK(Timestamp(request, now))
  <2>1. TextValue(now) \in Scalars
    BY DEF TextValue, Scalars
  <2> QED
    BY <1>2, <2>1 DEF Timestamp
<1>4. ParametersOK(RunID(request))
  <2>1. ASSUME "run.id" \in DOMAIN request PROVE IntValue(request["run.id"].n + 1) \in Scalars
    <3>1. request["run.id"].n \in Int
      BY <1>1, <2>1 DEF ParametersOK, Scalars
    <3> QED
      BY <3>1 DEF IntValue, Scalars
  <2>2. IntValue(1) \in Scalars
    BY DEF IntValue, Scalars
  <2>3. (IF "run.id" \in DOMAIN request /\ request["run.id"].type # "string"
           THEN IntValue(request["run.id"].n + 1) ELSE IntValue(1)) \in Scalars
    BY <2>1, <2>2
  <2> QED
    BY <1>2, <2>3 DEF RunID
<1>5. ParametersOK(NextParameters(now))
  BY <1>1, <1>3, <1>4 DEF NextParameters
<1>6. GetJobParametersIncrementer(cfg.job_name) = "none" => NextParameters(now) = request
  BY DEF NextParameters
<1> QED
  BY <1>5, <1>6

\* A row is added that no row has the index of.
LEMMA RowAdded ==
  ASSUME Rows, NEW r, RowOK(r), table' = Append(table, r),
         ~ \E i \in DOMAIN table : table[i].job = r.job /\ table[i].hash = r.hash
  PROVE  /\ Rows' /\ DOMAIN table' = DOMAIN table \cup {Len(table) + 1}
         /\ \A k \in DOMAIN table : table'[k] = table[k]
         /\ table'[Len(table) + 1] = r /\ Len(table) + 1 \notin DOMAIN table
<1>1. /\ IsList(table) /\ \A k \in DOMAIN table : RowOK(table[k])
      /\ \A k, l \in DOMAIN table :
           table[k].job = table[l].job /\ table[k].hash = table[l].hash => k = l
  BY DEF Rows
<1>2. /\ IsList(table') /\ DOMAIN table' = DOMAIN table \cup {Len(table) + 1}
      /\ \A k \in DOMAIN table : table'[k] = table[k]
      /\ table'[Len(table) + 1] = r /\ Len(table) + 1 \notin DOMAIN table
  BY <1>1, ListAppend
<1>3. \A k \in DOMAIN table' : RowOK(table'[k])
  BY <1>1, <1>2
<1>4. \A k, l \in DOMAIN table' :
        table'[k].job = table'[l].job /\ table'[k].hash = table'[l].hash => k = l
  BY <1>1, <1>2
<1>5. Rows'
  BY <1>2, <1>3, <1>4 DEF Rows, RowOK, IsList
<1> QED
  BY <1>2, <1>5

LEMMA SaveKeeps ==
  ASSUME StartInv, NEW now \in Int, SaveJobInstance(now)
  PROVE  StartInv'
<1> DEFINE p == NextParameters(now)
           r == [job |-> cfg.job_name, params |-> Value(p), hash |-> Hash(p), last |-> NoExecution,
                 asked |-> request,
                 incremented |-> GetJobParametersIncrementer(cfg.job_name) # "none"]
           new == Len(table) + 1
<1>1. /\ phase = "save" /\ UNCHANGED defVars /\ source' = source /\ cfg' = cfg /\ request' = request
      /\ context' = context /\ was' = was /\ launches' = launches
      /\ steps' = <<NewExecutionContext>>
  BY DEF SaveJobInstance, configVars
<1>2. BuildInv'
  BY <1>1, BuildFrame DEF StartInv
<1>3. IsList(steps') /\ \A k \in DOMAIN steps' : ContextOK(steps'[k])
  <2> DEFINE x == NewExecutionContext
  <2>1. steps' = <<x>> /\ ContextOK(x)
    BY <1>1, EmptyContext
  <2> HIDE DEF x
  <2>2. <<x>> \in Seq({x}) /\ DOMAIN <<x>> = {1} /\ <<x>>[1] = x
    OBVIOUS
  <2>3. IsList(<<x>>)
    BY <2>2, ListOf
  <2> QED
    BY <2>1, <2>2, <2>3
<1>4. ASSUME phase' \in Phases, ParametersOK(params') PROVE StartTypes'
  <2>1. /\ ParametersOK(request') /\ launches' \in Nat /\ ContextOK(context') /\ ContextOK(was')
    BY <1>1 DEF StartInv, StartTypes
  <2> QED
    BY <1>3, <1>4, <2>1 DEF StartTypes, IsList, ParametersOK, ContextOK, TreeOK
<1>5. CASE \E i \in DOMAIN table : table[i].job = cfg.job_name /\ table[i].hash = Hash(p)
  <2>1. phase' = "duplicate" /\ table' = table /\ instance' = instance /\ params' = params
    BY <1>5 DEF SaveJobInstance
  <2>2. Rows' /\ StartTypes'
    BY <1>4, <2>1, RowsFrame DEF StartInv, StartTypes, Phases
  <2>3. \A k \in DOMAIN table : ~Matches(k, request)'
    BY <1>1, <2>1, MatchesKept DEF StartInv, InstanceFound
  <2>4. Configured' /\ Contexts' /\ InstanceFound'
    BY <1>1, <2>1, <2>3 DEF StartInv, Configured, Contexts, InstanceFound
  <2> QED
    BY <1>2, <2>2, <2>4 DEF StartInv
<1>6. CASE ~ \E i \in DOMAIN table : table[i].job = cfg.job_name /\ table[i].hash = Hash(p)
  <2>1. phase' = "launched" /\ table' = Append(table, r) /\ instance' = new /\ params' = p
    BY <1>6 DEF SaveJobInstance
  <2>2. ParametersOK(p) /\ (GetJobParametersIncrementer(cfg.job_name) = "none" => p = request)
    BY NextParametersOK
  <2>3. /\ r = [job |-> r.job, params |-> r.params, hash |-> r.hash, last |-> r.last,
                asked |-> r.asked, incremented |-> r.incremented]
        /\ r.job = cfg.job_name /\ r.params = Value(p) /\ r.hash = Value(p) /\ r.asked = request
        /\ r.last = NoExecution
        /\ r.incremented <=> GetJobParametersIncrementer(cfg.job_name) # "none"
    BY DEF Hash
  <2> HIDE DEF p, r
  <2>4. RowOK(r)
    <3>1. /\ Value(p) = [k \in DOMAIN Value(p) |-> Value(p)[k]]
          /\ \A k \in DOMAIN Value(p) : Value(p)[k] \in Stored
      BY <2>2, ValueStored
    <3>2. /\ NoExecution.job = ContextValue(NoExecution.was) /\ ContextOK(NoExecution.was)
          /\ ContextOK(ContextScan(NoExecution.step))
      BY EmptyContext DEF NoExecution, FromDomainJobExecution
    <3>3. ParametersOK(request)
      BY DEF StartInv, StartTypes
    <3>4. ~r.incremented => r.params = Value(r.asked)
      BY <2>2, <2>3
    <3> QED
      BY <2>3, <3>1, <3>2, <3>3, <3>4 DEF RowOK
  <2>5. /\ Rows' /\ DOMAIN table' = DOMAIN table \cup {new}
        /\ \A k \in DOMAIN table : table'[k] = table[k]
        /\ table'[new] = r /\ new \notin DOMAIN table
    BY <1>6, <2>1, <2>3, <2>4, RowAdded DEF StartInv, Hash
  <2>6. StartTypes'
    BY <1>4, <2>1, <2>2 DEF Phases
  <2>7. ASSUME NEW k \in DOMAIN table, Matches(k, request)' PROVE FALSE
    <3>1. table'[k] = table[k]
      BY <2>5
    <3>2. Matches(k, request)
      BY <1>1, <2>7, <3>1 DEF Matches
    <3> QED
      BY <1>1, <3>2 DEF StartInv, InstanceFound
  <2>8. /\ instance' \in DOMAIN table' /\ table'[instance'].params = Value(params')
        /\ ~table'[instance'].incremented => table'[instance'].hash = Hash(request')
    BY <1>1, <2>1, <2>2, <2>3, <2>5 DEF Hash
  <2>9. \A k \in DOMAIN table' : Matches(k, request)' => k = instance'
    BY <2>1, <2>5, <2>7
  <2>10. InstanceFound'
    BY <2>1, <2>8, <2>9 DEF InstanceFound, Value, Hash
  <2>11. Configured' /\ Contexts'
    BY <1>1, <2>1 DEF StartInv, Configured, Contexts
  <2> QED
    BY <1>2, <2>5, <2>6, <2>10, <2>11 DEF StartInv
<1> QED
  BY <1>5, <1>6

LEMMA RunStepKeeps == StartInv /\ RunStep => StartInv'
<1> SUFFICES ASSUME StartInv, RunStep PROVE StartInv'
  OBVIOUS
<1>1. PICK ec \in StepContexts \cup ToSet(steps), keys \in Promotions :
        context' = Promote(context, ec, keys) /\ steps' = Append(steps, ec)
  BY DEF RunStep
<1>2. /\ phase \in {"launched", "running"} /\ phase' = "running" /\ was' = NewExecutionContext
      /\ request' = NoParameters /\ params' = NoParameters
      /\ Forget /\ instance' = instance /\ table' = table /\ launches' = launches
  BY DEF RunStep
<1>3. ContextOK(ec)
  BY StartAssumption DEF StartInv, StartTypes, ToSet
<1>4. ContextOK(context')
  <2>1. keys \in Seq(Keys \X Keys)
    BY StartAssumption
  <2>2. ContextOK(context) /\ TreeOK(ec)
    BY <1>3 DEF StartInv, StartTypes, ContextOK
  <2> QED
    BY <1>1, <2>1, <2>2, PromoteKeeps
<1>5. /\ IsList(steps') /\ steps' # <<>> /\ \A k \in DOMAIN steps' : ContextOK(steps'[k])
  <2>1. IsList(steps) /\ \A k \in DOMAIN steps : ContextOK(steps[k])
    BY DEF StartInv, StartTypes
  <2> QED
    BY <1>1, <1>3, <2>1, ListAppend
<1>6. BuildInv' /\ Rows'
  BY <1>2, ForgetKeeps, RowsFrame DEF StartInv
<1>7. StartTypes'
  <2>1. /\ phase' \in Phases /\ launches' \in Nat /\ ParametersOK(request') /\ ParametersOK(params')
        /\ ContextOK(was')
    BY <1>2, EmptyContext, NoParametersOK DEF StartInv, StartTypes, Phases
  <2> QED
    BY <1>4, <1>5, <2>1 DEF StartTypes, IsList, ParametersOK, ContextOK, TreeOK
<1>8. instance' \in DOMAIN table'
  BY <1>2 DEF StartInv, Contexts, InstanceFound
<1>9. Configured' /\ Contexts' /\ InstanceFound'
  BY <1>2, <1>5, <1>8 DEF Configured, Contexts, InstanceFound
<1> QED
  BY <1>6, <1>7, <1>9 DEF StartInv

LEMMA JobEndsKeeps ==
  ASSUME StartInv, NEW completed \in BOOLEAN, JobEnds(completed)
  PROVE  StartInv'
<1> DEFINE x == IF completed THEN NoExecution ELSE FromDomainJobExecution(context, Last(steps))
<1>1. /\ phase = "running" /\ phase' = "ended" /\ table' = [table EXCEPT ![instance].last = x]
      /\ UNCHANGED defVars /\ request' = request /\ params' = params /\ context' = context
      /\ steps' = steps /\ was' = was /\ launches' = launches
  BY DEF JobEnds, launchVars, runVars
<1>2. instance \in DOMAIN table /\ ContextOK(context) /\ ContextOK(Last(steps))
  <2>1. steps # <<>> /\ IsList(steps) /\ \A k \in DOMAIN steps : ContextOK(steps[k])
    BY <1>1 DEF StartInv, Contexts, StartTypes
  <2>2. PICK S : steps \in Seq(S)
    BY <2>1, ListIs
  <2>3. Len(steps) \in DOMAIN steps
    BY <2>1, <2>2, EmptySeq
  <2> QED
    BY <1>1, <2>1, <2>3 DEF StartInv, Contexts, StartTypes, Last
<1>3. x.job = ContextValue(x.was) /\ ContextOK(x.was) /\ ContextOK(ContextScan(x.step))
  <2>1. CASE completed
    BY <2>1, EmptyContext DEF NoExecution, FromDomainJobExecution
  <2>2. CASE ~completed
    <3>1. ContextOK(ContextScan(ContextValue(Last(steps))))
      BY <1>2, StoredContext
    <3> QED
      BY <1>2, <2>2, <3>1 DEF FromDomainJobExecution
  <2> QED
    BY <2>1, <2>2
<1> HIDE DEF x
<1>4. Rows'
  BY <1>1, <1>2, <1>3, LastStored DEF StartInv
<1>5. BuildInv'
  BY <1>1, BuildFrame DEF StartInv
<1>6. StartTypes'
  BY <1>1 DEF StartInv, StartTypes, Phases, IsList
<1>7. Configured' /\ Contexts' /\ InstanceFound'
  BY <1>1 DEF Configured, Contexts, InstanceFound
<1> QED
  BY <1>4, <1>5, <1>6, <1>7 DEF StartInv

LEMMA EndKeeps == StartInv /\ End => StartInv'
<1> SUFFICES ASSUME StartInv, End PROVE StartInv'
  OBVIOUS
<1>1. /\ phase' = "down" /\ request' = NoParameters /\ params' = NoParameters
      /\ context' = NewExecutionContext /\ steps' = <<>> /\ was' = NewExecutionContext
      /\ Forget /\ table' = table /\ launches' = launches
  BY DEF End
<1>2. BuildInv' /\ Rows'
  BY <1>1, ForgetKeeps, RowsFrame DEF StartInv
<1>3. <<>> \in Seq({}) /\ DOMAIN <<>> = {}
  OBVIOUS
<1>4. IsList(<<>>)
  BY <1>3, ListOf
<1>5. StartTypes'
  <2>1. /\ phase' \in Phases /\ launches' \in Nat /\ ParametersOK(request') /\ ParametersOK(params')
        /\ ContextOK(context') /\ ContextOK(was')
    BY <1>1, EmptyContext, NoParametersOK DEF StartInv, StartTypes, Phases
  <2> QED
    BY <1>1, <1>3, <1>4, <2>1 DEF StartTypes, IsList, ParametersOK, ContextOK, TreeOK
<1>6. Configured'
  BY <1>1 DEF Configured, Forget
<1>7. Contexts'
  <2>1. context' = ContextScan(ContextValue(was'))
    BY <1>1, EmptyContext
  <2> QED
    BY <1>1, <2>1 DEF Contexts, ContextScan, ContextValue
<1>8. InstanceFound'
  BY <1>1 DEF InstanceFound
<1> QED
  BY <1>2, <1>5, <1>6, <1>7, <1>8 DEF StartInv

LEMMA StartStep == StartInv /\ [StartNext]_startVars => StartInv'
<1> SUFFICES ASSUME StartInv, [StartNext]_startVars PROVE StartInv'
  OBVIOUS
<1>1. CASE Configure
  BY <1>1, ConfigureKeeps
<1>2. CASE Supply
  BY <1>2, SupplyKeeps
<1>3. CASE Start
  BY <1>3, StartKeeps
<1>4. CASE Launch
  BY <1>4, LaunchKeeps
<1>5. CASE Create
  BY <1>5, CreateKeeps
<1>6. ASSUME NEW p \in Requests \cup {Scan(table[i].params) : i \in DOMAIN table}, FindJobInstance(p)
      PROVE  StartInv'
  <2>1. CASE p \in Requests
    <3>1. ParametersOK(p)
      BY <2>1, StartAssumption
    <3> QED
      BY <1>6, <3>1, FindKeeps
  <2>2. CASE p \notin Requests
    <3>1. PICK i \in DOMAIN table : p = Scan(table[i].params)
      BY <2>2
    <3>2. RowOK(table[i])
      BY DEF StartInv, Rows
    <3>3. ParametersOK(p)
      BY <3>1, <3>2, ScanStored DEF RowOK
    <3> QED
      BY <1>6, <3>3, FindKeeps
  <2> QED
    BY <2>1, <2>2
<1>7. ASSUME NEW now \in {launches, launches - 1}, SaveJobInstance(now) PROVE StartInv'
  <2>1. now \in Int
    BY DEF StartInv, StartTypes
  <2> QED
    BY <1>7, <2>1, SaveKeeps
<1>8. CASE RunStep
  BY <1>8, RunStepKeeps
<1>9. ASSUME NEW completed \in BOOLEAN, JobEnds(completed) PROVE StartInv'
  BY <1>9, JobEndsKeeps
<1>10. CASE End
  BY <1>10, EndKeeps
<1>11. CASE UNCHANGED startVars
  <2>1. /\ UNCHANGED defVars /\ phase' = phase /\ source' = source /\ cfg' = cfg
        /\ request' = request /\ instance' = instance /\ params' = params /\ context' = context
        /\ steps' = steps /\ was' = was /\ table' = table /\ launches' = launches
    BY <1>11 DEF startVars, configVars, launchVars, runVars
  <2>2. BuildInv' /\ Rows'
    BY <2>1, BuildFrame, RowsFrame DEF StartInv
  <2>3. StartTypes'
    BY <2>1 DEF StartInv, StartTypes, IsList
  <2>4. build' = build
    BY <2>1 DEF defVars, buildVars
  <2>5. Configured' /\ Contexts'
    BY <2>1, <2>4 DEF StartInv, Configured, Contexts
  <2>6. \A k \in DOMAIN table : Matches(k, request)' <=> Matches(k, request)
    BY <2>1 DEF Matches
  <2>7. InstanceFound'
    BY <2>1, <2>6 DEF StartInv, InstanceFound
  <2> QED
    BY <2>2, <2>3, <2>5, <2>7 DEF StartInv
<1> QED
  BY <1>1, <1>2, <1>3, <1>4, <1>5, <1>6, <1>7, <1>8, <1>9, <1>10, <1>11 DEF StartNext

\* In every state the flow under construction is right as far as it has been built,
\* the rows are what was stored of parameters and contexts that are there, one for
\* every job and hash, and the process works on the row that has its request.
THEOREM StartsKept == StartSpec => []StartInv
<1> QED
  BY StartInitInv, StartStep, PTL DEF StartSpec

\* What CreateJob hands to the runner is a flow as module FlowJob assumes it, with
\* every element of the definition, in whatever order the elements are visited.
THEOREM BuildsSound == StartSpec => []BuildSound
<1>1. StartInv => BuildSound
  BY SoundBuild DEF StartInv
<1> QED
  BY <1>1, StartsKept, PTL

\* A job is created exactly from the valid definitions, except that a split which is
\* visited before one of its steps fails.
THEOREM BuildsExact == StartSpec => []BuildExact
<1>1. StartInv => BuildExact
  BY ExactBuild DEF StartInv
<1> QED
  BY <1>1, StartsKept, PTL

\* A launch works on the instance that has its parameters, and finds the one an
\* earlier launch with them made.
THEOREM RequestsFindInstance == StartSpec => []RequestFindsInstance
<1>1. StartInv => RequestFindsInstance
  BY RequestFinds DEF StartInv
<1> QED
  BY <1>1, StartsKept, PTL

\* Expressions, decisions and typed reads see the same parameters and promoted values
\* before and after a restart.
THEOREM RestartsResolveAlike == StartSpec => []ResolvesAlike
<1>1. StartInv => ResolvesAlike
  BY Resolves DEF StartInv
<1> QED
  BY <1>1, StartsKept, PTL
=============================================================================
