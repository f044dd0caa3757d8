---------------------------- MODULE WeatherStep ----------------------------
(***************************************************************************)
(* The chunk steps of example/weather: the readers that fetch hours        *)
(* through the web proxy, the processors, and the database writers, driven *)
(* by the chunk engine (ChunkStep has its transactions, counters and       *)
(* checkpoints; here it is reduced to the calls its readers and writers    *)
(* see).  Each client runs one such step, more than once after a failure,  *)
(* and all of them share one name of the web proxy.                        *)
(*                                                                         *)
(* A response is a sequence of hours; the times of those in Unparsable     *)
(* cannot be parsed.                                                       *)
(***************************************************************************)
EXTENDS WebProxy, FiniteSets, SequencesExt

CONSTANTS Jobs,        \* what the clients run: functions to [kind, ref]
          Windows,     \* responses of the API
          Unparsable,
          ChunkSize, SkipLimit,
          MaxFaults, MaxRuns \* bounds

Kinds == {"forecast", "history"}
Hours == UNION {ToSet(w) : w \in Windows}

ASSUME WeatherAssumption ==
  /\ Jobs \subseteq [Clients -> [kind : Kinds, ref : BOOLEAN]]
  /\ Windows \subseteq Seq(Hours)
  /\ ChunkSize \in Nat \ {0} /\ SkipLimit \in Nat /\ MaxFaults \in Nat /\ MaxRuns \in Nat \ {0}

VARIABLES
  step,  \* per client: the reader, its maps and the chunk
  table, \* per kind: hours committed
  faults

weatherVars == <<step, table, faults>>
vars == <<proxyVars, weatherVars>>

NoState == [index |-> 0, data |-> <<>>]

\* data, index: forecastData and currentIndex, or the CSV stream and its place.
\* ec: the map the reader was opened with; nested: forecast_reader_context in it.
\* kind: which of the two steps; ref: whether its reader has a webProxyRef.
NewReader(kind, ref, run) ==
  [kind |-> kind, ref |-> ref, run |-> run, pc |-> "build",
   data |-> <<>>, index |-> 0, ec |-> "checkpoint",
   nested |-> [e \in {"checkpoint", "step"} |-> NoState],
   items |-> {}, read |-> 0, skips |-> 0,
   fetched |-> <<>>, reopenFailed |-> FALSE, retries |-> 0]

WeatherInit ==
  /\ \E j \in Jobs : step = [c \in Clients |-> NewReader(j[c].kind, j[c].ref, 1)]
  /\ table = [k \in Kinds |-> {}]
  /\ faults = 0

Fault == faults < MaxFaults /\ faults' = faults + 1
Goto(c, pc) == step' = [step EXCEPT ![c] = [@ EXCEPT !.pc = pc]]
At(c, pc) == step[c].pc = pc

\* The top of the engine's chunk loop.
Begin(s) == [s EXCEPT !.items = {}, !.read = 0, !.pc = "read"]

-----------------------------------------------------------------------------
(* The constructors of the readers, of both kinds alike. *)
NewReaderOf(c) ==
  /\ At(c, "build")
  /\ \/ /\ step[c].ref /\ req[c].pc = "idle"
        /\ req' = [req EXCEPT ![c] = [@ EXCEPT !.pc = "get"]] /\ UNCHANGED step
     \/ /\ step[c].ref /\ req[c].pc = "failed"
        /\ Goto(c, "failed") /\ UNCHANGED req
     \/ /\ ~step[c].ref \/ req[c].pc = "connected"
        /\ Goto(c, "open") /\ UNCHANGED req
  /\ UNCHANGED <<cfg, connection, trippers, clock, issued, table, faults>>

\* fetchWeatherData and fetchHourlyHistoryData up to the answer: the path of the
\* forecast is relative, and the default client cannot send it.
Send(c) ==
  req' = [req EXCEPT ![c] = [@ EXCEPT !.relative = (step[c].kind = "forecast"),
            !.pc = IF step[c].ref THEN "do"
                   ELSE IF step[c].kind = "forecast" THEN "failed" ELSE "sent"]]

\* restoreReaderStateFromExecutionContext: what is nested in the map, or nothing.
Restore(s) == [s EXCEPT !.index = s.nested[s.ec].index, !.data = s.nested[s.ec].data]

\* HourlyForecastAPIReader.Open and HourlyHistoryAPIReader.Open, the first time.  A
\* checkpoint has the state at its top level, not where Restore looks for it, so the
\* nested map is empty.
Open(c) ==
  /\ At(c, "open")
  /\ step' = [step EXCEPT ![c] = [IF @.kind = "forecast" THEN Restore(@) ELSE @ EXCEPT !.pc = "fetch"]]
  /\ Send(c)
  /\ UNCHANGED <<cfg, connection, trippers, clock, issued, table, faults>>

\* The answer: hours; the next request starts over.
Idle(c) == req' = [req EXCEPT ![c] = [NoRequest EXCEPT !.pc = "connected", !.conn = req[c].conn]]

FetchAnswer(c) ==
  /\ step[c].pc \in {"fetch", "refetch"} /\ req[c].pc = "sent"
  /\ Idle(c)
  /\ \E w \in Windows :
       LET s == [step[c] EXCEPT !.data = w, !.index = 0, !.fetched = w] IN
       step' = [step EXCEPT ![c] = IF At(c, "fetch") THEN [s EXCEPT !.pc = "writer"] ELSE Begin(s)]
  /\ UNCHANGED <<cfg, connection, trippers, clock, issued, table, faults>>

\* No answer, another status than 200, or a body that cannot be decoded: the first
\* Open fails the step, what the engine ignores of a later one leaves no hours.
FetchFails(c) ==
  /\ step[c].pc \in {"fetch", "refetch"}
  /\ \/ req[c].pc = "failed" /\ UNCHANGED faults
     \/ req[c].pc = "sent" /\ Fault
  /\ Idle(c)
  /\ IF At(c, "fetch") THEN Goto(c, "failed")
     ELSE step' = [step EXCEPT ![c] = [Begin(@) EXCEPT !.reopenFailed = TRUE]]
  /\ UNCHANGED <<cfg, connection, trippers, clock, issued, table>>

\* Open of the two writers: the connection is resolved; their own state is not used.
OpenWriter(c) ==
  /\ At(c, "writer")
  /\ \/ step' = [step EXCEPT ![c] = Begin(@)] /\ UNCHANGED faults
     \/ Fault /\ Goto(c, "failed")
  /\ UNCHANGED <<proxyVars, table>>

-----------------------------------------------------------------------------
AtEnd(s) == s.index >= Len(s.data)

Reading(c) == At(c, "read") /\ step[c].read < ChunkSize /\ ~AtEnd(step[c])
Hour(c) == step[c].data[step[c].index + 1]

\* Read of an hour, and Process of it.
ReadItem(c) ==
  LET s == step[c] IN
  /\ Reading(c) /\ Hour(c) \notin Unparsable
  /\ step' = [step EXCEPT ![c] = [s EXCEPT !.index = s.index + 1, !.read = s.read + 1,
                                           !.items = s.items \cup {Hour(c)}]]
  /\ UNCHANGED <<proxyVars, table, faults>>

\* The forecast processor cannot parse the time: skippable, up to the limit.
ProcessFails(c) ==
  LET s == step[c] IN
  /\ Reading(c) /\ Hour(c) \in Unparsable /\ s.kind = "forecast"
  /\ IF s.skips < SkipLimit
       THEN step' = [step EXCEPT ![c] = [s EXCEPT !.index = s.index + 1, !.read = s.read + 1,
                                                  !.skips = s.skips + 1]]
       ELSE Goto(c, "failed")
  /\ UNCHANGED <<proxyVars, table, faults>>

\* The history reader cannot: an error that is neither retryable nor skippable.
ReadFails(c) ==
  /\ Reading(c) /\ Hour(c) \in Unparsable /\ step[c].kind = "history"
  /\ Goto(c, "failed")
  /\ UNCHANGED <<proxyVars, table, faults>>

\* The forecast reader forgets its hours when it returns io.EOF.
ReadEOF(c) ==
  LET s == step[c]
      r == IF s.kind = "forecast" THEN [s EXCEPT !.data = <<>>, !.index = 0] ELSE s IN
  /\ At(c, "read") /\ s.read < ChunkSize /\ AtEnd(s)
  /\ step' = [step EXCEPT ![c] = [r EXCEPT !.pc = IF s.items # {} THEN "lastWrite" ELSE "end"]]
  /\ UNCHANGED <<proxyVars, table, faults>>

ChunkRead(c) == At(c, "read") /\ step[c].read = ChunkSize

\* Write of the two writers, and the commit of the engine.
Write(c) ==
  /\ ChunkRead(c) \/ At(c, "lastWrite")
  /\ table' = [table EXCEPT ![step[c].kind] = @ \cup step[c].items]
  /\ step' = [step EXCEPT ![c] = IF At(c, "lastWrite") THEN [@ EXCEPT !.pc = "end"] ELSE Begin(@)]
  /\ UNCHANGED <<proxyVars, faults>>

MutSave(s) == [s EXCEPT !.nested = [@ EXCEPT !["step"] = [index |-> s.index, data |-> s.data]]]

\* Close of the forecast reader saves its place under the nested key of the map it
\* was opened with.
Save(s) == [s EXCEPT !.nested = [@ EXCEPT ![s.ec] = [index |-> s.index, data |-> s.data]]]

\* The engine's chunk retry: Close, then Open with the map of the StepExecution.
Reopen(s) == Restore([Save(s) EXCEPT !.ec = "step", !.retries = @ + 1])

\* The upsert fails.  The history writer hands on the bulk writer's error, which is
\* neither retryable nor skippable; the forecast writer wraps it as retryable, and
\* the engine has the chunk read again.  This is so for item_retry.max_attempts of 1
\* or more; the split that an application with 0 gets is in ChunkStep.
WriteFails(c) ==
  LET r == Reopen(step[c]) IN
  /\ ChunkRead(c) \/ At(c, "lastWrite")
  /\ Fault
  /\ \/ /\ step[c].kind = "history"
        /\ Goto(c, "failed") /\ UNCHANGED req
     \/ /\ step[c].kind = "forecast" /\ r.data = <<>>
        /\ step' = [step EXCEPT ![c] = [r EXCEPT !.pc = "refetch"]] /\ Send(c)
     \/ /\ step[c].kind = "forecast" /\ r.data # <<>>
        /\ step' = [step EXCEPT ![c] = Begin(r)] /\ UNCHANGED req
  /\ UNCHANGED <<cfg, connection, trippers, clock, issued, table>>

\* A cancelled context: each of the calls of the loop ends with its error.
Interrupted(c) ==
  /\ step[c].pc \in {"open", "writer", "read", "lastWrite", "end"}
  /\ Fault /\ Goto(c, "failed")
  /\ UNCHANGED <<proxyVars, table>>

\* GetExecutionContext of the two, Close, COMPLETED.
Complete(c) ==
  /\ At(c, "end") /\ Goto(c, "completed")
  /\ UNCHANGED <<proxyVars, table, faults>>

\* A restart builds the job again: a new reader, and maps without a nested state.
Restart(c) ==
  /\ At(c, "failed") /\ step[c].run < MaxRuns
  /\ step' = [step EXCEPT ![c] = NewReader(@.kind, @.ref, @.run + 1)]
  /\ req' = [req EXCEPT ![c] = NoRequest]
  /\ UNCHANGED <<cfg, connection, trippers, clock, issued, table, faults>>

Work(c) ==
  \/ NewReaderOf(c) \/ Open(c) \/ FetchAnswer(c) \/ FetchFails(c) \/ OpenWriter(c)
  \/ ReadItem(c) \/ ProcessFails(c) \/ ReadFails(c) \/ ReadEOF(c) \/ Write(c) \/ Complete(c)

Next ==
  \/ \E c \in Clients :
       \/ Requesting(c) /\ UNCHANGED weatherVars
       \/ TokenRefused(c) /\ Fault /\ UNCHANGED <<step, table>>
       \/ Work(c) \/ WriteFails(c) \/ Interrupted(c) \/ Restart(c)
  \/ Tick /\ UNCHANGED weatherVars

Init == ProxyInit /\ WeatherInit

Spec == Init /\ [][Next]_vars

\* The goroutines run, the mutex goes to whoever waits for it, and the endpoints
\* answer or refuse.
FairSpec ==
  Spec /\ \A c \in Clients : WF_vars((Requesting(c) /\ UNCHANGED weatherVars) \/ Work(c))

-----------------------------------------------------------------------------
\* A step that is COMPLETED has stored every hour of what was fetched last whose time
\* can be parsed, through interruptions, restarts and one retried chunk: the first
\* chunk retry fetches again from the start.  Excepted are a second retry, which
\* resumes behind the chunk that failed, and a fetch that fails in a retry, whose
\* error the engine ignores (Open, Read, Close and Write of the weather components,
\* goto RetryChunk of the engine).
HoursStored ==
  \A c \in Clients :
    At(c, "completed") /\ ~step[c].reopenFailed /\ step[c].retries < 2 =>
      ToSet(step[c].fetched) \ Unparsable \subseteq table[step[c].kind]

\* Every request ends: no goroutine waits for ever for the connection, or for the
\* mutex of the token, whoever was refused one (GetConnection, refreshOAuth2Token).
RequestsEnd ==
  \A c \in Clients :
    req[c].pc \in {"get", "do"} ~> req[c].pc \in {"connected", "sent", "failed"}
=============================================================================
