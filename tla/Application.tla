---------------------------- MODULE Application ----------------------------
(* One process of an application of the framework, from the launch of its   *)
(* job to os.Exit: the goroutine that runs the job, its concurrent steps,   *)
(* the monitor that polls the job's row and asks for the shutdown, the OnStop *)
(* hooks, and the asynchronous metric recorder all of them report to         *)
(* (listener/metrics/async_recorder.go, metrics_listeners.go,                *)
(* listener/job_completion_signaler.go, example/weather/internal/app).        *)
(* What a step does besides its metrics is ChunkStep, PartitionStep and        *)
(* FlowJob; what the repository does is JobLifecycle: here the row is only     *)
(* what the monitor reads.                                                     *)
EXTENDS Integers, Sequences

CONSTANTS Steps,      \* steps of the job, at the same time or one after the other
          Types,      \* the counted metrics (item_read, item_write, ...)
          QueueSize,  \* capacity of eventQueue
          MaxItems    \* bound: increments per step

ASSUME QueueAssumption ==
  /\ QueueSize \in Nat \ {0} /\ MaxItems \in Nat
  /\ "free" \notin Steps

Hooks == {"recorder", "pools"}

VARIABLES
  eventQueue, stopCh, worker, left,   \* recorder: queue, stop signal, run()
  counters, mu,                       \* recorder: aggregated counts and lock
  flushing,                           \* types flushCounters has still to visit
  reset,                              \* {t}: t is sent but not yet reset
  step,                               \* pc of every step's goroutine
  items,                              \* increments made by every step (bound)
  job, row, cancelled, JobDone,       \* job goroutine, its row, its context, channel
  promoted,                           \* history: the row was finished before the job's end
  monitor, signal,                    \* polling goroutine, SIGTERM
  fx, hooks, why,                     \* fx lifecycle, hooks left, cause of the stop
  outstanding                         \* history: what was counted or sent, and neither has
                                      \* reached the synchronous recorder nor was discarded

recVars == <<eventQueue, counters, mu, flushing, reset, outstanding>>
workVars == <<stopCh, worker, left>>
jobVars == <<step, items, job, row, cancelled, JobDone, promoted>>
appVars == <<monitor, signal, fx, hooks, why>>
vars == <<recVars, workVars, jobVars, appVars>>

Events == {"job_start", "job_end", "step_start", "step_end", "item_skip"}
Zero == [t \in Types |-> 0]
Event(t, n) == [type |-> t, count |-> n]
Add(f, e) == [f EXCEPT ![e.type] = @ + e.count]

Init ==
  /\ eventQueue = <<>> /\ stopCh = "open" /\ worker = "run" /\ left = 0
  /\ counters = Zero /\ mu = "free" /\ flushing = {} /\ reset = {}
  /\ step = [s \in Steps |-> "new"] /\ items = [s \in Steps |-> 0]
  /\ job = "launch" /\ row = "none" /\ cancelled = FALSE /\ JobDone = "open"
  /\ promoted = FALSE
  /\ monitor = "launch" /\ signal = "none"
  /\ fx = "up" /\ hooks = Hooks /\ why = "none"
  /\ outstanding = [t \in Types \cup Events |-> 0]

Alive == fx # "exited"

-----------------------------------------------------------------------------
(* The recorder.                                                            *)

(* sendEvent: a full queue discards the event, counts and all; the          *)
(* synchronous recorder gets an error that names its type.                  *)
SendEvent(e) ==
  IF Len(eventQueue) < QueueSize
    THEN eventQueue' = Append(eventQueue, e) /\ outstanding' = Add(outstanding, e)
    ELSE UNCHANGED <<eventQueue, outstanding>>

Record(e) ==
  /\ SendEvent(e)
  /\ UNCHANGED <<counters, mu, flushing, reset>>

(* incrementCounter, without the mutex.                                     *)
MutIncrementCounter(s, t) ==
  /\ counters' = [counters EXCEPT ![t] = @ + 1]

(* incrementCounter: waits for the mutex flushCounters holds.               *)
IncrementCounter(s, t) ==
  /\ mu = "free"
  /\ counters' = [counters EXCEPT ![t] = @ + 1]

(* run: the branch of the select that receives an event.                    *)
ProcessEvent ==
  /\ worker = "run" \/ (worker = "drain" /\ left > 0)
  /\ eventQueue # <<>>
  /\ outstanding' = Add(outstanding, Event(Head(eventQueue).type, -Head(eventQueue).count))
  /\ eventQueue' = Tail(eventQueue)
  /\ left' = IF worker = "drain" THEN left - 1 ELSE 0
  /\ UNCHANGED <<counters, mu, flushing, reset, stopCh, worker>>

(* A run() that forgets what is still queued.                               *)
MutStopReceived ==
  /\ worker = "run" /\ stopCh = "closed"
  /\ worker' = "drain" /\ left' = 0
  /\ UNCHANGED <<recVars, stopCh>>

(* run: the branch of the select that sees stopCh closed takes the length   *)
(* of the queue once.                                                       *)
StopReceived ==
  /\ worker = "run" /\ stopCh = "closed"
  /\ worker' = "drain" /\ left' = Len(eventQueue)
  /\ UNCHANGED <<recVars, stopCh>>

(* A drain that counts one event too many before it returns.                *)
MutWorkerReturns ==
  /\ worker = "drain" /\ left = 0 /\ eventQueue # <<>>
  /\ worker' = "done"
  /\ UNCHANGED <<recVars, stopCh, left>>

WorkerReturns ==
  /\ worker = "drain" /\ left = 0
  /\ worker' = "done"
  /\ UNCHANGED <<recVars, stopCh, left>>

Run ==
  /\ Alive
  /\ ProcessEvent \/ StopReceived \/ WorkerReturns
  /\ UNCHANGED <<jobVars, appVars>>

-----------------------------------------------------------------------------
(* A step's goroutine: BeforeStep, items, chunks and skips, AfterStep.      *)

RecordStepStart(s) ==
  /\ job = "steps" /\ step[s] = "new"
  /\ Record(Event("step_start", 1))
  /\ step' = [step EXCEPT ![s] = "run"] /\ UNCHANGED items

(* RecordItemRead, RecordItemProcess, RecordItemWrite, RecordChunkCommit.   *)
RecordItems(s, t) ==
  /\ step[s] = "run" /\ items[s] < MaxItems
  /\ IncrementCounter(s, t)
  /\ items' = [items EXCEPT ![s] = @ + 1]
  /\ outstanding' = [outstanding EXCEPT ![t] = @ + 1]
  /\ UNCHANGED <<eventQueue, mu, flushing, reset, step>>

(* RecordItemSkip, RecordItemRetry, RecordExecutionError, RecordDuration:   *)
(* events of their own.                                                       *)
RecordItemSkip(s) ==
  /\ step[s] = "run" /\ items[s] < MaxItems
  /\ Record(Event("item_skip", 1))
  /\ items' = [items EXCEPT ![s] = @ + 1] /\ UNCHANGED step

(* RecordStepEnd takes the mutex of flushCounters.                          *)
FlushLock(s) ==
  /\ step[s] = "run" /\ mu = "free"
  /\ mu' = s
  /\ flushing' = {t \in Types : counters[t] > 0}
  /\ step' = [step EXCEPT ![s] = "flush"]
  /\ UNCHANGED <<eventQueue, counters, reset, outstanding, items>>

(* One turn of its loop: the count is sent, then reset.                     *)
FlushSend(s, t) ==
  /\ step[s] = "flush" /\ t \in flushing /\ reset = {}
  /\ IF Len(eventQueue) < QueueSize
       THEN eventQueue' = Append(eventQueue, Event(t, counters[t])) /\ UNCHANGED outstanding
       ELSE outstanding' = Add(outstanding, Event(t, -counters[t])) /\ UNCHANGED eventQueue
  /\ reset' = {t}
  /\ UNCHANGED <<counters, mu, flushing, step, items>>

FlushReset(s, t) ==
  /\ step[s] = "flush" /\ t \in reset
  /\ counters' = [counters EXCEPT ![t] = 0]
  /\ reset' = {} /\ flushing' = flushing \ {t}
  /\ UNCHANGED <<eventQueue, mu, outstanding, step, items>>

FlushUnlock(s) ==
  /\ step[s] = "flush" /\ flushing = {}
  /\ mu' = "free"
  /\ step' = [step EXCEPT ![s] = "end"]
  /\ UNCHANGED <<eventQueue, counters, flushing, reset, outstanding, items>>

RecordStepEnd(s) ==
  /\ step[s] = "end"
  /\ Record(Event("step_end", 1))
  /\ step' = [step EXCEPT ![s] = "done"] /\ UNCHANGED items

StepGoroutine(s) ==
  /\ Alive
  /\ \/ RecordStepStart(s) \/ RecordItemSkip(s) \/ FlushLock(s)
     \/ FlushUnlock(s) \/ RecordStepEnd(s)
     \/ \E t \in Types : RecordItems(s, t) \/ FlushSend(s, t) \/ FlushReset(s, t)
  /\ UNCHANGED <<workVars, job, row, cancelled, JobDone, promoted, appVars>>

-----------------------------------------------------------------------------
(* The job's goroutine: SimpleJobRunner.Run around FlowJob.Run.             *)

(* onStartJobExecution's goroutine calls Launch; on an error it goes        *)
(* straight to the deferred Shutdown.                                       *)
Launch(ok) ==
  /\ Alive /\ job = "launch"
  /\ IF ok THEN job' = "start" /\ row' = "running" /\ monitor' = "poll"
           ELSE job' = "done" /\ row' = row /\ monitor' = "shutdown"
  /\ UNCHANGED <<recVars, workVars, step, items, cancelled, JobDone, promoted,
                 signal, fx, hooks, why>>

RecordJobStart ==
  /\ job = "start" /\ job' = "steps"
  /\ Record(Event("job_start", 1)) /\ UNCHANGED <<row, JobDone, promoted>>

(* Between two elements of the flow no step is at work.                     *)
AtRest == job = "steps" /\ \A s \in Steps : step[s] \in {"new", "done"}

(* A single step that promotes keys of its context saves the JobExecution   *)
(* with the status of the moment. An element before it, a decision or a     *)
(* step, may have marked it FAILED (STOPPED) and its rule led on: then the  *)
(* row is finished while the flow goes on. An error is only logged.         *)
PromoteContext ==
  /\ AtRest /\ \E s \in Steps : step[s] = "done"
  /\ ~cancelled /\ "pools" \in hooks
  /\ row' = "finished" /\ promoted' = TRUE
  /\ UNCHANGED <<recVars, job, JobDone>>

(* The flow ends when its steps have, or between two of them when its       *)
(* context is cancelled.                                                    *)
FlowEnds ==
  /\ job = "steps"
  /\ \A s \in Steps : step[s] = "done" \/ (cancelled /\ step[s] = "new")
  /\ job' = "after"
  /\ UNCHANGED <<recVars, row, JobDone, promoted>>

(* JobCompletionSignaler.AfterJob. The only job of the process closes the   *)
(* channel, so the check before the close cannot be late.                   *)
AfterJob ==
  /\ job = "after" /\ job' = "end"
  /\ JobDone' = IF JobDone = "open" THEN "closed" ELSE JobDone
  /\ UNCHANGED <<recVars, row, promoted>>

RecordJobEnd ==
  /\ job = "end" /\ job' = "save"
  /\ Record(Event("job_end", 1)) /\ UNCHANGED <<row, JobDone, promoted>>

(* The final UpdateJobExecution uses the job's context and a pool the       *)
(* OnStop hook may have closed; an error is only logged.                    *)
SaveFinal ==
  /\ job = "save" /\ job' = "done"
  /\ \/ ~cancelled /\ "pools" \in hooks /\ row' = "finished"
     \/ row' = row
  /\ UNCHANGED <<recVars, JobDone, promoted>>

JobGoroutine ==
  /\ Alive
  /\ \/ RecordJobStart \/ PromoteContext
     \/ FlowEnds \/ AfterJob \/ RecordJobEnd \/ SaveFinal
  /\ UNCHANGED <<workVars, step, items, cancelled, appVars>>

-----------------------------------------------------------------------------
(* The monitor, the context of OnStart, signals, and the fx lifecycle.      *)

(* The ticker's branch: a finished row ends the monitor. A failed read or   *)
(* an unfinished row changes nothing.                                       *)
Poll ==
  /\ Alive /\ monitor = "poll" /\ row = "finished"
  /\ monitor' = "finished"
  /\ UNCHANGED <<recVars, workVars, jobVars, signal, fx, hooks, why>>

(* The branch of a cancelled ctx. It is the context of the OnStart hook,    *)
(* which fx ends at its start timeout whatever the job does. A job that is  *)
(* not finished is cancelled, unless its row cannot be read or its cancel   *)
(* function is gone; the monitor returns without waiting.                   *)
ContextDone ==
  /\ Alive /\ monitor = "poll"
  /\ cancelled' \in {cancelled, cancelled \/ row # "finished"}
  /\ monitor' = "shutdown"
  /\ UNCHANGED <<recVars, workVars, step, items, job, row, JobDone, promoted,
                 signal, fx, hooks, why>>

(* main's signal goroutine cancels appCtx, the parent of the job's context. *)
Signal ==
  /\ Alive /\ signal = "none" /\ signal' = "sent"
  /\ UNCHANGED <<recVars, workVars, jobVars, monitor, fx, hooks, why>>

CancelAppCtx ==
  /\ Alive /\ signal = "sent" /\ ~cancelled /\ cancelled' = TRUE
  /\ UNCHANGED <<recVars, workVars, step, items, job, row, JobDone, promoted, appVars>>

(* app.Run returns from its wait on Shutdown or on the signal and stops.    *)
StopApp ==
  /\ fx = "up" /\ (monitor \in {"finished", "shutdown"} \/ signal = "sent")
  /\ fx' = "stopping" /\ why' = monitor
  /\ UNCHANGED <<recVars, workVars, jobVars, monitor, signal, hooks>>

(* The recorder's hook: Close closes stopCh and waits for run().            *)
CloseRecorder ==
  /\ fx = "stopping" /\ "recorder" \in hooks /\ stopCh = "open"
  /\ stopCh' = "closed"
  /\ UNCHANGED <<recVars, worker, left, jobVars, appVars>>

CloseReturns ==
  /\ fx = "stopping" /\ "recorder" \in hooks /\ stopCh = "closed" /\ worker = "done"
  /\ hooks' = hooks \ {"recorder"}
  /\ UNCHANGED <<recVars, workVars, jobVars, monitor, signal, fx, why>>

(* The hook that closes every provider's pools; hooks run one at a time.    *)
ClosePools ==
  /\ fx = "stopping" /\ "pools" \in hooks
  /\ stopCh = "open" \/ "recorder" \notin hooks
  /\ hooks' = hooks \ {"pools"}
  /\ UNCHANGED <<recVars, workVars, jobVars, monitor, signal, fx, why>>

Exit ==
  /\ fx = "stopping" /\ hooks = {} /\ fx' = "exited"
  /\ UNCHANGED <<recVars, workVars, jobVars, monitor, signal, hooks, why>>

Lifecycle == StopApp \/ CloseRecorder \/ CloseReturns \/ ClosePools \/ Exit

Next ==
  \/ Run \/ JobGoroutine \/ Lifecycle
  \/ \E s \in Steps : StepGoroutine(s)
  \/ \E ok \in BOOLEAN : Launch(ok)
  \/ Poll \/ ContextDone \/ Signal \/ CancelAppCtx

Spec == Init /\ [][Next]_vars

(* The Go scheduler runs every goroutine that can run, and the ticker       *)
(* fires; nobody has to send a signal.                                      *)
FairSpec ==
  /\ Spec
  /\ WF_vars(Run) /\ WF_vars(JobGoroutine) /\ WF_vars(Lifecycle)
  /\ WF_vars(Poll) /\ WF_vars(ContextDone)
  /\ WF_vars(\E ok \in BOOLEAN : Launch(ok))
  /\ \A s \in Steps : WF_vars(StepGoroutine(s))

-----------------------------------------------------------------------------
Amount(e, t) == IF e.type = t THEN e.count ELSE 0
SumOf(q, t) ==
  LET sum[i \in 0 .. Len(q)] == IF i = 0 THEN 0 ELSE sum[i - 1] + Amount(q[i], t)
  IN  sum[Len(q)]
Queued(t) == SumOf(eventQueue, t)

(* No increment is lost or counted twice: whenever nobody flushes, what the *)
(* steps counted and no recorder has seen or queue refused is queued or     *)
(* still waits in the counters (incrementCounter and flushCounters work     *)
(* under one mutex; a count is sent before it is reset).                    *)
CountsConserved ==
  mu = "free" =>
    \A t \in Types \cup Events :
      outstanding[t] = Queued(t) + (IF t \in Types THEN counters[t] ELSE 0)

(* A process that stops because its monitor saw the job finished leaves no  *)
(* metric behind: the job's end was sent before its row was saved, the      *)
(* steps flushed before it ended, and Close drains what is queued. Not so    *)
(* where a promotion (flow_job.go:255) wrote the status of a failed element  *)
(* before the job's end: the monitor stops the process under its later steps.*)
NormalExitKeepsEvents ==
  (fx = "exited" /\ why = "finished" /\ ~promoted) =>
    /\ job = "done" /\ \A s \in Steps : step[s] \in {"new", "done"}
    /\ \A t \in Types \cup Events : outstanding[t] = 0

(* A shutdown once begun ends: Close does not wait for a worker that waits  *)
(* for another event.                                                       *)
ShutdownEnds == (fx = "stopping") ~> (fx = "exited")
=============================================================================
