------------------------- MODULE ApplicationProofs -------------------------
(***************************************************************************)
(* The process of an application and its asynchronous metric recorder,     *)
(* proved for any set of concurrent steps, counted metrics, size of the    *)
(* queue and number of items.                                              *)
(***************************************************************************)
EXTENDS Application, WellFoundedInduction, SequenceTheorems, TLAPS

-----------------------------------------------------------------------------
(* The sum of a queue.  What a recursive function computes is proved with  *)
(* the least number that would contradict it.                              *)

\* A set of naturals has a least element.
LEMMA Least ==
  ASSUME NEW T, T \subseteq Nat, T # {}
  PROVE  \E x \in T : \A y \in T : x <= y
<1>1. ASSUME NEW R, \A x, y \in Nat : y < x => <<y, x>> \in R,
             \E x \in T : \A y \in T : <<y, x>> \notin R
      PROVE  \E x \in T : \A y \in T : x <= y
  <2>1. PICK x \in T : \A y \in T : <<y, x>> \notin R
    BY <1>1
  <2>2. \A y \in T : x <= y
    <3>1. SUFFICES ASSUME NEW y \in T PROVE x <= y
      OBVIOUS
    <3>2. x \in Nat /\ y \in Nat
      OBVIOUS
    <3>3. y < x => <<y, x>> \in R
      BY <1>1, <3>2
    <3>4. ~(y < x)
      BY <2>1, <3>3
    <3> QED
      BY <3>2, <3>4
  <2> QED
    BY <2>2
<1>2. \A x, y \in Nat : y < x => <<y, x>> \in OpToRel(<, Nat)
  BY DEF OpToRel
<1>3. \E x \in T : \A y \in T : <<y, x>> \notin OpToRel(<, Nat)
  BY NatLessThanWellFounded, WFMin
<1> QED
  BY <1>1, <1>2, <1>3, Zenon

Names == Types \cup Events
Queues == Seq([type : Names, count : Nat])

\* f is the function of the partial sums of q up to position n.
PartialSums(f, q, t, n) ==
  f = [i \in 0 .. n |-> IF i = 0 THEN 0 ELSE f[i - 1] + Amount(q[i], t)]

\* An event counts for its own metric only.
LEMMA Amounts ==
  ASSUME NEW q \in Queues, NEW t, NEW i \in 1 .. Len(q)
  PROVE  Amount(q[i], t) \in Nat
<1>1. q[i] \in [type : Names, count : Nat]
  BY ElementOfSeq DEF Queues
<1>2. q[i].count \in Nat
  BY <1>1
<1> QED
  BY <1>2 DEF Amount

\* The partial sums of a queue are naturals.
LEMMA SumsTyped ==
  ASSUME NEW q \in Queues, NEW t, NEW n \in 0 .. Len(q), NEW f, PartialSums(f, q, t, n)
  PROVE  \A i \in 0 .. n : f[i] \in Nat
<1> DEFINE B == {i \in 0 .. n : f[i] \notin Nat}
<1>0. n \in Nat /\ Len(q) \in Nat
  BY DEF Queues
<1>1. SUFFICES ASSUME B # {} PROVE FALSE
  OBVIOUS
<1>2. B \subseteq Nat
  BY <1>0
<1>3. PICK x \in B : \A y \in B : x <= y
  BY <1>1, <1>2, Least
<1>4. x \in 0 .. n /\ f[x] \notin Nat
  OBVIOUS
<1>5. x # 0
  BY <1>0, <1>4 DEF PartialSums
<1>6. x - 1 \in 0 .. n /\ x - 1 \notin B
  BY <1>0, <1>2, <1>3, <1>4, <1>5
<1>7. f[x - 1] \in Nat
  BY <1>6
<1>8. x \in 1 .. Len(q)
  BY <1>0, <1>4, <1>5
<1>9. Amount(q[x], t) \in Nat
  BY <1>8, Amounts
<1>10. f[x] = f[x - 1] + Amount(q[x], t)
  BY <1>4, <1>5 DEF PartialSums
<1> QED
  BY <1>4, <1>7, <1>9, <1>10

\* There are no two functions of partial sums.
LEMMA SumsUnique ==
  ASSUME NEW q \in Queues, NEW t, NEW n \in 0 .. Len(q),
         NEW f, PartialSums(f, q, t, n), NEW g, PartialSums(g, q, t, n)
  PROVE  f[n] = g[n]
<1> DEFINE B == {i \in 0 .. n : f[i] # g[i]}
<1>0. n \in Nat /\ Len(q) \in Nat /\ n \in 0 .. n
  BY DEF Queues
<1>1. SUFFICES ASSUME B # {} PROVE FALSE
  BY <1>0
<1>2. B \subseteq Nat
  BY <1>0
<1>3. PICK x \in B : \A y \in B : x <= y
  BY <1>1, <1>2, Least
<1>4. x \in 0 .. n /\ f[x] # g[x]
  OBVIOUS
<1>5. x # 0
  BY <1>0, <1>4 DEF PartialSums
<1>6. x - 1 \in 0 .. n /\ x - 1 \notin B
  BY <1>0, <1>2, <1>3, <1>4, <1>5
<1>7. f[x - 1] = g[x - 1]
  BY <1>6
<1>8. f[x] = f[x - 1] + Amount(q[x], t) /\ g[x] = g[x - 1] + Amount(q[x], t)
  BY <1>4, <1>5 DEF PartialSums
<1> QED
  BY <1>4, <1>7, <1>8

\* Every queue has them.
LEMMA SumsExist ==
  ASSUME NEW q \in Queues, NEW t
  PROVE  \E f : PartialSums(f, q, t, Len(q))
<1> DEFINE B == {n \in 0 .. Len(q) : ~ \E f : PartialSums(f, q, t, n)}
<1>0. Len(q) \in Nat /\ Len(q) \in 0 .. Len(q)
  BY DEF Queues
<1>1. SUFFICES ASSUME B # {} PROVE FALSE
  BY <1>0
<1>2. B \subseteq Nat
  BY <1>0
<1>3. PICK x \in B : \A y \in B : x <= y
  BY <1>1, <1>2, Least
<1>4. x \in 0 .. Len(q) /\ ~ \E f : PartialSums(f, q, t, x)
  OBVIOUS
<1>5. x # 0
  <2>1. PartialSums([i \in 0 .. 0 |-> 0], q, t, 0)
    BY DEF PartialSums
  <2> QED
    BY <1>4, <2>1
<1>6. x - 1 \in 0 .. Len(q) /\ x - 1 \notin B
  BY <1>0, <1>2, <1>3, <1>4, <1>5
<1>7. PICK f : PartialSums(f, q, t, x - 1)
  BY <1>6
<1> DEFINE g == [i \in 0 .. x |-> IF i = x THEN f[x - 1] + Amount(q[x], t) ELSE f[i]]
<1>8. x \in Nat
  BY <1>0, <1>4
<1>9. \A i \in 0 .. x : g[i] = IF i = 0 THEN 0 ELSE g[i - 1] + Amount(q[i], t)
  BY <1>5, <1>7, <1>8 DEF PartialSums
<1>10. PartialSums(g, q, t, x)
  BY <1>9 DEF PartialSums
<1> QED
  BY <1>4, <1>10

\* The sum of a queue is the last of its partial sums.
LEMMA SumIsLast ==
  ASSUME NEW q \in Queues, NEW t, NEW f, PartialSums(f, q, t, Len(q))
  PROVE  SumOf(q, t) = f[Len(q)]
<1> DEFINE g == CHOOSE h : PartialSums(h, q, t, Len(q))
<1>1. SumOf(q, t) = g[Len(q)]
  BY DEF SumOf, PartialSums
<1>2. PartialSums(g, q, t, Len(q))
  OBVIOUS
<1>3. Len(q) \in 0 .. Len(q)
  BY DEF Queues
<1> HIDE DEF g
<1> QED
  BY <1>1, <1>2, <1>3, SumsUnique

LEMMA SumNat ==
  ASSUME NEW q \in Queues, NEW t
  PROVE  SumOf(q, t) \in Nat
<1>1. PICK f : PartialSums(f, q, t, Len(q))
  BY SumsExist
<1>2. Len(q) \in 0 .. Len(q)
  BY DEF Queues
<1>3. SumOf(q, t) = f[Len(q)]
  BY <1>1, SumIsLast
<1> QED
  BY <1>1, <1>2, <1>3, SumsTyped

LEMMA SumEmpty ==
  ASSUME NEW t
  PROVE  SumOf(<<>>, t) = 0
<1>1. <<>> \in Queues /\ Len(<<>>) = 0
  BY DEF Queues
<1>2. PICK f : PartialSums(f, <<>>, t, Len(<<>>))
  BY <1>1, SumsExist
<1>3. f[0] = 0
  BY <1>1, <1>2 DEF PartialSums
<1> QED
  BY <1>1, <1>2, <1>3, SumIsLast

\* A sent event adds its count.
LEMMA SumAppend ==
  ASSUME NEW q \in Queues, NEW t, NEW e \in [type : Names, count : Nat]
  PROVE  /\ Append(q, e) \in Queues
         /\ SumOf(Append(q, e), t) = SumOf(q, t) + Amount(e, t)
<1> DEFINE p == Append(q, e)
           n == Len(q)
<1>1. /\ p \in Queues /\ Len(p) = n + 1 /\ p[n + 1] = e /\ n \in Nat
      /\ \A i \in 1 .. n : p[i] = q[i]
  BY DEF Queues
<1>2. PICK f : PartialSums(f, p, t, Len(p))
  BY <1>1, SumsExist
<1> DEFINE g == [i \in 0 .. n |-> f[i]]
<1>3. \A i \in 0 .. n : i # 0 => p[i] = q[i] /\ i - 1 \in 0 .. n
  BY <1>1
<1> HIDE DEF p, n
<1>4. \A i \in 0 .. n : f[i] = IF i = 0 THEN 0 ELSE f[i - 1] + Amount(p[i], t)
  BY <1>1, <1>2 DEF PartialSums
<1>5. \A i \in 0 .. n : g[i] = IF i = 0 THEN 0 ELSE g[i - 1] + Amount(q[i], t)
  BY <1>3, <1>4
<1>6. PartialSums(g, q, t, n)
  BY <1>5 DEF PartialSums
<1>7. SumOf(q, t) = f[n]
  BY <1>1, <1>6, SumIsLast DEF n
<1>8. SumOf(p, t) = f[n + 1]
  BY <1>1, <1>2, SumIsLast
<1>9. f[n + 1] = f[n] + Amount(e, t)
  BY <1>1, <1>2 DEF PartialSums
<1> QED
  BY <1>1, <1>7, <1>8, <1>9 DEF p

\* The event that is received takes its count away.
LEMMA SumTail ==
  ASSUME NEW q \in Queues, NEW t, q # <<>>
  PROVE  /\ Tail(q) \in Queues /\ Head(q) \in [type : Names, count : Nat]
         /\ SumOf(q, t) = Amount(Head(q), t) + SumOf(Tail(q), t)
<1> DEFINE p == Tail(q)
           n == Len(q)
           a == Amount(q[1], t)
<1>1. /\ p \in Queues /\ n \in Nat /\ n # 0 /\ Len(p) = n - 1 /\ Head(q) = q[1]
      /\ Head(q) \in [type : Names, count : Nat]
      /\ \A i \in 1 .. n - 1 : p[i] = q[i + 1]
  <2>1. q \in Seq([type : Names, count : Nat])
    BY DEF Queues
  <2>2. /\ Head(q) \in [type : Names, count : Nat]
        /\ p \in Seq([type : Names, count : Nat])
    BY <2>1, HeadTailProperties, Zenon
  <2>3. n \in Nat /\ n # 0 /\ Len(p) = n - 1 /\ Head(q) = q[1]
    BY <2>1
  <2>4. \A i \in 1 .. n - 1 : p[i] = q[i + 1]
    BY <2>1, <2>3
  <2> QED
    BY <2>2, <2>3, <2>4 DEF Queues
<1>2. a \in Nat
  <2>1. 1 \in 1 .. Len(q)
    BY <1>1
  <2> QED
    BY <2>1, Amounts
<1>3. PICK g : PartialSums(g, p, t, Len(p))
  BY <1>1, SumsExist
<1> DEFINE f == [i \in 0 .. n |-> IF i = 0 THEN 0 ELSE a + g[i - 1]]
<1>4. \A i \in 1 .. n - 1 : p[i] = q[i + 1]
  BY <1>1
<1>41. Len(p) \in 0 .. Len(p)
  BY <1>1
<1> HIDE DEF p, n, a
<1>5. g[0] = 0 /\ \A i \in 1 .. n - 1 : g[i] = g[i - 1] + Amount(p[i], t)
  BY <1>1, <1>3 DEF PartialSums
<1>6. \A i \in 0 .. n - 1 : g[i] \in Nat
  BY <1>1, <1>3, <1>41, SumsTyped
<1>7. \A i \in 0 .. n : f[i] = IF i = 0 THEN 0 ELSE f[i - 1] + Amount(q[i], t)
  <2>0. f[0] = 0 /\ \A i \in 0 .. n : i # 0 => i \in 1 .. n
    BY <1>1
  <2> HIDE DEF f
  <2>1. SUFFICES ASSUME NEW i \in 1 .. n PROVE f[i] = f[i - 1] + Amount(q[i], t)
    BY <2>0
  <2> USE DEF f
  <2>2. CASE i = 1
    BY <1>1, <1>2, <1>5, <2>2 DEF a
  <2>3. CASE i # 1
    <3>1. i - 1 \in 1 .. n - 1 /\ i - 1 \in 1 .. n - 1 /\ i - 2 \in 0 .. n - 1 /\ i \in 1 .. n
      BY <1>1, <2>3
    <3>2. g[i - 1] = g[i - 2] + Amount(p[i - 1], t)
      BY <1>5, <3>1
    <3>3. p[i - 1] = q[i]
      BY <1>4, <3>1
    <3>4. Amount(q[i], t) \in Nat
      BY <3>1, Amounts DEF n
    <3>5. f[i] = a + g[i - 1] /\ f[i - 1] = a + g[i - 2]
      BY <1>1, <3>1
    <3> QED
      BY <1>2, <1>6, <3>1, <3>2, <3>3, <3>4, <3>5
  <2> QED
    BY <2>2, <2>3
<1>8. PartialSums(f, q, t, n)
  BY <1>7 DEF PartialSums
<1>9. SumOf(q, t) = f[n] /\ SumOf(p, t) = g[n - 1]
  BY <1>1, <1>3, <1>8, SumIsLast DEF n
<1> QED
  BY <1>1, <1>9 DEF p, a

-----------------------------------------------------------------------------
(* The inductive invariant.                                                *)

Rows == {"none", "running", "finished"}
JobAt == {"launch", "start", "steps", "after", "end", "save", "done"}
StepAt == {"new", "run", "flush", "end", "done"}

\* The variables of the recorder and of the job keep their types.
TypeOK ==
  /\ eventQueue \in Queues /\ left \in Nat /\ worker \in {"run", "drain", "done"}
  /\ counters \in [Types -> Nat] /\ outstanding \in [Names -> Int]
  /\ step \in [Steps -> StepAt] /\ items \in [Steps -> Nat] /\ job \in JobAt

\* One step at a time flushes, under the mutex; it sends one count and resets it
\* before it sends the next, and what it need not visit any more is zero.
OneFlush ==
  /\ \A s \in Steps : step[s] = "flush" => mu = s
  /\ mu # "free" => mu \in Steps /\ step[mu] = "flush"
  /\ mu = "free" => flushing = {}
  /\ flushing \subseteq Types /\ reset \subseteq flushing /\ \A t, u \in reset : t = u
  /\ mu # "free" => \A t \in Types \ flushing : counters[t] = 0

\* What is counted of a metric and not yet sent.
Pending(t) == IF t \in Types \ reset THEN counters[t] ELSE 0

\* CountsConserved, in the middle of a flush too.
Conserved == \A t \in Names : outstanding[t] = Queued(t) + Pending(t)

\* No count is left behind by the last step at work.
Flushed ==
  (\A s \in Steps : step[s] \notin {"run", "flush"}) => \A t \in Types : counters[t] = 0

\* Where the job's goroutine stands: outside of its flow no step is at work, and
\* the row is finished last, unless a promotion finished it.
JobEnds ==
  /\ job # "steps" => \A s \in Steps : step[s] \in {"new", "done"}
  /\ row = "finished" => job = "done" \/ promoted
  /\ promoted => job \notin {"launch", "start"}
  /\ monitor = "finished" => row = "finished"

\* The process stops because the job had ended.
Ended == why = "finished" /\ ~promoted

\* A stop that follows a finished job: nobody sends any more, so that the worker
\* leaves an empty queue.
StopsDrained ==
  /\ fx = "up" => why = "none" /\ stopCh = "open"
  /\ why = "finished" => monitor = "finished"
  /\ worker # "run" => stopCh = "closed"
  /\ Ended /\ worker = "drain" => left = Len(eventQueue)
  /\ Ended /\ worker = "done" => eventQueue = <<>>
  /\ "recorder" \notin hooks => worker = "done"
  /\ fx = "exited" => hooks = {}

AppInv == TypeOK /\ OneFlush /\ Conserved /\ Flushed /\ JobEnds /\ StopsDrained

-----------------------------------------------------------------------------
(* The steps of the process.                                               *)

\* An event as Record takes it.
LEMMA EventTyped ==
  ASSUME NEW t \in Names, NEW n \in Nat
  PROVE  Event(t, n) \in [type : Names, count : Nat] /\ Event(t, n).type = t
         /\ Event(t, n).count = n
BY DEF Event

\* What is recorded counts as outstanding if the queue takes it.
LEMMA AddTyped ==
  ASSUME NEW f \in [Names -> Int], NEW t \in Names, NEW n \in Int
  PROVE  /\ Add(f, Event(t, n)) \in [Names -> Int]
         /\ \A u \in Names : Add(f, Event(t, n))[u] = f[u] + (IF u = t THEN n ELSE 0)
<1>1. Event(t, n).type = t /\ Event(t, n).count = n
  BY DEF Event
<1>2. Add(f, Event(t, n)) = [f EXCEPT ![t] = f[t] + n]
  BY <1>1 DEF Add
<1> QED
  BY <1>2

\* Only events of known names are sent, one at a time.
LEMMA RecordKeeps ==
  ASSUME TypeOK, Conserved, NEW t \in Names, Record(Event(t, 1))
  PROVE  /\ eventQueue' \in Queues /\ outstanding' \in [Names -> Int] /\ Conserved'
         /\ UNCHANGED <<counters, mu, flushing, reset>>
<1>1. UNCHANGED <<counters, mu, flushing, reset>> /\ SendEvent(Event(t, 1))
  BY DEF Record
<1>2. eventQueue \in Queues /\ outstanding \in [Names -> Int]
  BY DEF TypeOK
<1>3. \A u \in Names : Pending(u)' = Pending(u)
  BY <1>1 DEF Pending
<1>4. CASE UNCHANGED <<eventQueue, outstanding>>
  BY <1>1, <1>2, <1>3, <1>4 DEF Conserved, Queued
<1>5. CASE /\ eventQueue' = Append(eventQueue, Event(t, 1))
           /\ outstanding' = Add(outstanding, Event(t, 1))
  <2>1. Event(t, 1) \in [type : Names, count : Nat] /\ Event(t, 1).type = t
        /\ Event(t, 1).count = 1
    BY EventTyped
  <2>0. 1 \in Int
    OBVIOUS
  <2>4. /\ Add(outstanding, Event(t, 1)) \in [Names -> Int]
        /\ \A u \in Names :
             Add(outstanding, Event(t, 1))[u] = outstanding[u] + (IF u = t THEN 1 ELSE 0)
    BY <1>2, <2>0, AddTyped, Zenon
  <2>2. eventQueue' \in Queues /\ outstanding' \in [Names -> Int]
    BY <1>2, <1>5, <2>1, <2>4, SumAppend, Zenon
  <2>3. ASSUME NEW u \in Names PROVE outstanding'[u] = Queued(u)' + Pending(u)'
    <3>1. outstanding[u] = Queued(u) + Pending(u)
      BY DEF Conserved
    <3>2. outstanding'[u] = outstanding[u] + (IF u = t THEN 1 ELSE 0)
      BY <1>5, <2>4
    <3>3. Queued(u)' = Queued(u) + Amount(Event(t, 1), u)
      BY <1>2, <1>5, <2>1, SumAppend DEF Queued
    <3>4. Amount(Event(t, 1), u) = IF u = t THEN 1 ELSE 0
      BY <2>1 DEF Amount
    <3>5. Queued(u) \in Nat /\ Pending(u) \in Nat
      BY <1>2, SumNat DEF Queued, Pending, TypeOK
    <3> QED
      BY <1>3, <3>1, <3>2, <3>3, <3>4, <3>5
  <2> QED
    BY <1>1, <2>2, <2>3 DEF Conserved
<1> QED
  BY <1>1, <1>4, <1>5 DEF SendEvent

\* The synchronous recorder gets what leaves the queue.
LEMMA ProcessKeeps ==
  ASSUME TypeOK, Conserved, ProcessEvent
  PROVE  /\ eventQueue' \in Queues /\ outstanding' \in [Names -> Int] /\ Conserved'
         /\ UNCHANGED <<counters, mu, flushing, reset>> /\ left' \in Nat
<1> DEFINE e == Head(eventQueue)
<1>1. /\ UNCHANGED <<counters, mu, flushing, reset>> /\ eventQueue # <<>>
      /\ eventQueue' = Tail(eventQueue)
      /\ outstanding' = Add(outstanding, Event(e.type, -e.count))
  BY DEF ProcessEvent
<1>2. eventQueue \in Queues /\ outstanding \in [Names -> Int]
  BY DEF TypeOK
<1>3. \A u \in Names : Pending(u)' = Pending(u)
  BY <1>1 DEF Pending
<1>4. eventQueue' \in Queues /\ e \in [type : Names, count : Nat]
  BY <1>1, <1>2, SumTail
<1>5. e.type \in Names /\ e.count \in Nat /\ -e.count \in Int
  BY <1>4
<1> HIDE DEF e
<1>6. outstanding' \in [Names -> Int]
  BY <1>1, <1>2, <1>5, AddTyped
<1>7. ASSUME NEW u \in Names PROVE outstanding'[u] = Queued(u)' + Pending(u)'
  <2>1. outstanding[u] = Queued(u) + Pending(u)
    BY DEF Conserved
  <2>2. outstanding'[u] = outstanding[u] + (IF u = e.type THEN -e.count ELSE 0)
    BY <1>1, <1>2, <1>5, AddTyped
  <2>3. Queued(u) = Amount(e, u) + Queued(u)'
    BY <1>1, <1>2, SumTail DEF Queued, e
  <2>4. Amount(e, u) = IF u = e.type THEN e.count ELSE 0
    BY DEF Amount
  <2>5. Queued(u) \in Nat /\ Pending(u) \in Nat /\ Queued(u)' \in Nat
    BY <1>2, <1>4, SumNat DEF Queued, Pending, TypeOK
  <2> QED
    BY <1>3, <1>5, <2>1, <2>2, <2>3, <2>4, <2>5
<1>8. left' \in Nat
  BY DEF ProcessEvent, TypeOK
<1> QED
  BY <1>1, <1>4, <1>6, <1>7, <1>8 DEF Conserved

\* What the actions of a step's goroutine do to the recorder's state.
LEMMA CountKeeps ==
  ASSUME TypeOK, OneFlush, Conserved, NEW s \in Steps, NEW t \in Types, RecordItems(s, t)
  PROVE  /\ counters' \in [Types -> Nat] /\ outstanding' \in [Names -> Int] /\ Conserved'
         /\ items' \in [Steps -> Nat]
<1>1. /\ reset = {} /\ reset' = {} /\ eventQueue' = eventQueue
      /\ counters' = [counters EXCEPT ![t] = @ + 1]
      /\ outstanding' = [outstanding EXCEPT ![t] = @ + 1]
  BY DEF RecordItems, IncrementCounter, OneFlush
<1>2. /\ eventQueue \in Queues /\ outstanding \in [Names -> Int]
      /\ counters \in [Types -> Nat] /\ t \in Names
  BY DEF TypeOK, Names
<1>3. counters' \in [Types -> Nat] /\ outstanding' \in [Names -> Int]
  BY <1>1, <1>2
<1>4. items' \in [Steps -> Nat]
  BY DEF RecordItems, TypeOK
<1>5. ASSUME NEW u \in Names PROVE outstanding'[u] = Queued(u)' + Pending(u)'
  <2>1. outstanding[u] = Queued(u) + Pending(u)
    BY DEF Conserved
  <2>2. Queued(u) \in Nat /\ Queued(u)' = Queued(u)
    BY <1>1, <1>2, SumNat DEF Queued
  <2>3. CASE u = t
    <3>1. Pending(u) = counters[t] /\ Pending(u)' = counters[t] + 1 /\ counters[t] \in Nat
      BY <1>1, <1>2, <2>3 DEF Pending
    <3> QED
      BY <1>1, <1>2, <2>1, <2>2, <2>3, <3>1
  <2>4. CASE u # t
    <3>1. Pending(u)' = Pending(u)
      BY <1>1, <1>2, <2>4 DEF Pending
    <3> QED
      BY <1>1, <1>2, <2>1, <2>2, <2>4, <3>1
  <2> QED
    BY <2>3, <2>4
<1> QED
  BY <1>3, <1>4, <1>5 DEF Conserved

LEMMA SendKeeps ==
  ASSUME TypeOK, OneFlush, Conserved, NEW s \in Steps, NEW t \in Types, FlushSend(s, t)
  PROVE  eventQueue' \in Queues /\ outstanding' \in [Names -> Int] /\ Conserved'
<1> DEFINE n == counters[t]
<1>1. reset = {} /\ reset' = {t} /\ counters' = counters
  BY DEF FlushSend
<1>2. /\ eventQueue \in Queues /\ outstanding \in [Names -> Int]
      /\ counters \in [Types -> Nat] /\ t \in Names
  BY DEF TypeOK, Names
<1>3. n \in Nat /\ -n \in Int
  BY <1>2
<1>4. /\ Pending(t) = n /\ Pending(t)' = 0
      /\ \A u \in Names : u # t => Pending(u)' = Pending(u)
  BY <1>1 DEF Pending
<1>5. \A u \in Names : Queued(u) \in Nat /\ Pending(u) \in Nat
  BY <1>2, SumNat DEF Queued, Pending
<1>6. Event(t, n) \in [type : Names, count : Nat] /\ Event(t, n).type = t
      /\ Event(t, n).count = n
  BY <1>2, <1>3, EventTyped
<1>7. CASE eventQueue' = Append(eventQueue, Event(t, n)) /\ outstanding' = outstanding
  <2>1. ASSUME NEW u \in Names PROVE outstanding'[u] = Queued(u)' + Pending(u)'
    <3>1. outstanding[u] = Queued(u) + Pending(u)
      BY DEF Conserved
    <3>2. Queued(u)' = Queued(u) + Amount(Event(t, n), u)
      BY <1>2, <1>6, <1>7, SumAppend DEF Queued
    <3>3. Amount(Event(t, n), u) = IF u = t THEN n ELSE 0
      BY <1>6 DEF Amount
    <3> HIDE DEF n
    <3> QED
      BY <1>3, <1>4, <1>5, <1>7, <3>1, <3>2, <3>3
  <2>2. eventQueue' \in Queues
    BY <1>2, <1>6, <1>7, SumAppend
  <2> QED
    BY <1>2, <1>7, <2>1, <2>2 DEF Conserved
<1>8. CASE eventQueue' = eventQueue /\ outstanding' = Add(outstanding, Event(t, -n))
  <2>1. /\ Add(outstanding, Event(t, -n)) \in [Names -> Int]
        /\ \A u \in Names :
             Add(outstanding, Event(t, -n))[u] = outstanding[u] + (IF u = t THEN -n ELSE 0)
    BY <1>2, <1>3, AddTyped, Zenon
  <2>2. ASSUME NEW u \in Names PROVE outstanding'[u] = Queued(u)' + Pending(u)'
    <3>1. outstanding[u] = Queued(u) + Pending(u)
      BY DEF Conserved
    <3>2. Queued(u)' = Queued(u)
      BY <1>8 DEF Queued
    <3>3. outstanding'[u] = outstanding[u] + (IF u = t THEN -n ELSE 0)
      BY <1>8, <2>1
    <3> HIDE DEF n
    <3> QED
      BY <1>3, <1>4, <1>5, <3>1, <3>2, <3>3
  <2> QED
    BY <1>2, <1>8, <2>1, <2>2 DEF Conserved
<1> QED
  BY <1>7, <1>8 DEF FlushSend

LEMMA ResetKeeps ==
  ASSUME TypeOK, OneFlush, Conserved, NEW s \in Steps, NEW t \in Types, FlushReset(s, t)
  PROVE  counters' \in [Types -> Nat] /\ Conserved'
<1>1. /\ reset = {t} /\ reset' = {} /\ UNCHANGED <<eventQueue, outstanding>>
      /\ counters' = [counters EXCEPT ![t] = 0]
  BY DEF FlushReset, OneFlush
<1>2. counters \in [Types -> Nat]
  BY DEF TypeOK
<1>3. \A u \in Names : Pending(u)' = Pending(u)
  BY <1>1, <1>2 DEF Pending
<1> QED
  BY <1>1, <1>2, <1>3 DEF Conserved, Queued

\* A step that works does so within the flow, before the job has ended.
LEMMA AtWork ==
  ASSUME AppInv, NEW s \in Steps, StepGoroutine(s)
  PROVE  job = "steps" /\ ~Ended
<1>1. job = "steps" \/ step[s] \in {"run", "flush", "end"}
  BY DEF StepGoroutine, RecordStepStart, RecordItemSkip, FlushLock, FlushUnlock, RecordStepEnd,
         RecordItems, FlushSend, FlushReset
<1>2. job = "steps"
  BY <1>1 DEF AppInv, JobEnds
<1> QED
  BY <1>2 DEF AppInv, JobEnds, StopsDrained, Ended

\* A step's goroutine keeps the invariant.
LEMMA StepKeeps ==
  ASSUME AppInv, NEW s \in Steps, StepGoroutine(s)
  PROVE  AppInv'
<1> USE DEF AppInv
<1>1. job = "steps" /\ ~Ended
  BY AtWork
<1>2. UNCHANGED <<workVars, job, row, cancelled, JobDone, promoted, appVars>>
  BY DEF StepGoroutine
<1>3. JobEnds'
  BY <1>1, <1>2 DEF JobEnds, appVars
<1>4. StopsDrained'
  BY <1>1, <1>2 DEF StopsDrained, Ended, appVars, workVars
<1>5. left' \in Nat /\ worker' \in {"run", "drain", "done"} /\ job' \in JobAt
  BY <1>2 DEF TypeOK, workVars
<1>6. SUFFICES TypeOK' /\ OneFlush' /\ Conserved' /\ Flushed'
  BY <1>3, <1>4
<1>7. {"step_start", "item_skip", "step_end"} \subseteq Names
  BY DEF Names, Events
<1>8. step \in [Steps -> StepAt] /\ items \in [Steps -> Nat] /\ counters \in [Types -> Nat]
  BY DEF TypeOK
<1>9. "free" \notin Steps
  BY QueueAssumption
<1>10. CASE RecordStepStart(s)
  <2>1. /\ Record(Event("step_start", 1)) /\ items' = items
        /\ step[s] = "new" /\ step' = [step EXCEPT ![s] = "run"]
    BY <1>10 DEF RecordStepStart
  <2>2. /\ eventQueue' \in Queues /\ outstanding' \in [Names -> Int] /\ Conserved'
        /\ UNCHANGED <<counters, mu, flushing, reset>>
    BY <1>7, <2>1, RecordKeeps
  <2>3. TypeOK'
    BY <1>5, <1>8, <2>1, <2>2 DEF TypeOK, StepAt
  <2>4. OneFlush'
    BY <1>8, <2>1, <2>2 DEF OneFlush
  <2>5. Flushed'
    BY <1>8, <2>1 DEF Flushed
  <2> QED
    BY <2>2, <2>3, <2>4, <2>5
<1>11. CASE RecordItemSkip(s)
  <2>1. /\ Record(Event("item_skip", 1)) /\ items' = [items EXCEPT ![s] = @ + 1] /\ step' = step
    BY <1>11 DEF RecordItemSkip
  <2>2. /\ eventQueue' \in Queues /\ outstanding' \in [Names -> Int] /\ Conserved'
        /\ UNCHANGED <<counters, mu, flushing, reset>>
    BY <1>7, <2>1, RecordKeeps
  <2>3. TypeOK'
    BY <1>5, <1>8, <2>1, <2>2 DEF TypeOK
  <2>4. OneFlush' /\ Flushed'
    BY <2>1, <2>2 DEF OneFlush, Flushed
  <2> QED
    BY <2>2, <2>3, <2>4
<1>12. CASE RecordStepEnd(s)
  <2>1. /\ Record(Event("step_end", 1)) /\ items' = items
        /\ step[s] = "end" /\ step' = [step EXCEPT ![s] = "done"]
    BY <1>12 DEF RecordStepEnd
  <2>2. /\ eventQueue' \in Queues /\ outstanding' \in [Names -> Int] /\ Conserved'
        /\ UNCHANGED <<counters, mu, flushing, reset>>
    BY <1>7, <2>1, RecordKeeps
  <2>3. TypeOK'
    BY <1>5, <1>8, <2>1, <2>2 DEF TypeOK, StepAt
  <2>4. OneFlush'
    BY <1>8, <2>1, <2>2 DEF OneFlush
  <2>5. Flushed'
    BY <1>8, <2>1, <2>2 DEF Flushed
  <2> QED
    BY <2>2, <2>3, <2>4, <2>5
<1>13. CASE FlushLock(s)
  <2>1. /\ step[s] = "run" /\ step' = [step EXCEPT ![s] = "flush"] /\ mu = "free" /\ mu' = s
        /\ flushing' = {t \in Types : counters[t] > 0} /\ reset = {} /\ flushing = {}
        /\ UNCHANGED <<eventQueue, counters, reset, outstanding, items>>
    BY <1>13 DEF FlushLock, OneFlush
  <2>2. \A u \in Steps : step[u] # "flush"
    BY <1>9, <2>1 DEF OneFlush
  <2>3. TypeOK'
    BY <1>5, <1>8, <2>1 DEF TypeOK, StepAt
  <2>4. \A t \in Types \ flushing' : counters'[t] = 0
    BY <1>8, <2>1
  <2>5. OneFlush'
    BY <1>8, <1>9, <2>1, <2>2, <2>4 DEF OneFlush
  <2>6. Conserved'
    BY <2>1 DEF Conserved, Queued, Pending
  <2>7. Flushed'
    BY <1>8, <2>1 DEF Flushed
  <2> QED
    BY <2>3, <2>5, <2>6, <2>7
<1>14. CASE FlushUnlock(s)
  <2>1. /\ step[s] = "flush" /\ step' = [step EXCEPT ![s] = "end"] /\ mu = s /\ mu' = "free"
        /\ flushing = {}
        /\ UNCHANGED <<eventQueue, counters, flushing, reset, outstanding, items>>
    BY <1>14 DEF FlushUnlock, OneFlush
  <2>2. \A u \in Steps : u # s => step[u] # "flush"
    BY <2>1 DEF OneFlush
  <2>3. TypeOK'
    BY <1>5, <1>8, <2>1 DEF TypeOK, StepAt
  <2>4. OneFlush'
    BY <1>8, <2>1, <2>2 DEF OneFlush
  <2>5. Conserved'
    BY <2>1 DEF Conserved, Queued, Pending
  <2>6. \A t \in Types : counters'[t] = 0
    BY <1>9, <2>1 DEF OneFlush
  <2> QED
    BY <2>3, <2>4, <2>5, <2>6 DEF Flushed
<1>15. ASSUME NEW t \in Types, RecordItems(s, t)
       PROVE  TypeOK' /\ OneFlush' /\ Conserved' /\ Flushed'
  <2>1. /\ counters' \in [Types -> Nat] /\ outstanding' \in [Names -> Int] /\ Conserved'
        /\ items' \in [Steps -> Nat]
    BY <1>15, CountKeeps
  <2>2. mu = "free" /\ step[s] = "run" /\ UNCHANGED <<eventQueue, mu, flushing, reset, step>>
    BY <1>15 DEF RecordItems, IncrementCounter
  <2>3. TypeOK'
    BY <1>5, <2>1, <2>2 DEF TypeOK
  <2>4. OneFlush'
    BY <2>2 DEF OneFlush
  <2>5. Flushed'
    BY <2>2 DEF Flushed
  <2> QED
    BY <2>1, <2>3, <2>4, <2>5
<1>16. ASSUME NEW t \in Types, FlushSend(s, t)
       PROVE  TypeOK' /\ OneFlush' /\ Conserved' /\ Flushed'
  <2>1. eventQueue' \in Queues /\ outstanding' \in [Names -> Int] /\ Conserved'
    BY <1>16, SendKeeps
  <2>2. /\ step[s] = "flush" /\ t \in flushing /\ reset' = {t}
        /\ UNCHANGED <<counters, mu, flushing, step, items>>
    BY <1>16 DEF FlushSend
  <2>3. TypeOK'
    BY <1>5, <2>1, <2>2 DEF TypeOK
  <2>4. OneFlush'
    BY <2>2 DEF OneFlush
  <2>5. Flushed'
    BY <2>2 DEF Flushed
  <2> QED
    BY <2>1, <2>3, <2>4, <2>5
<1>17. ASSUME NEW t \in Types, FlushReset(s, t)
       PROVE  TypeOK' /\ OneFlush' /\ Conserved' /\ Flushed'
  <2>1. counters' \in [Types -> Nat] /\ Conserved'
    BY <1>17, ResetKeeps
  <2>2. /\ step[s] = "flush" /\ reset' = {} /\ flushing' = flushing \ {t}
        /\ counters' = [counters EXCEPT ![t] = 0]
        /\ UNCHANGED <<eventQueue, mu, outstanding, step, items>>
    BY <1>17 DEF FlushReset
  <2>3. TypeOK'
    BY <1>5, <2>1, <2>2 DEF TypeOK
  <2>4. mu = s
    BY <2>2 DEF OneFlush
  <2>5. \A u \in Types \ flushing' : counters'[u] = 0
    BY <1>8, <1>9, <2>2, <2>4 DEF OneFlush
  <2>6. OneFlush'
    BY <1>9, <2>2, <2>4, <2>5 DEF OneFlush
  <2>7. Flushed'
    BY <2>2 DEF Flushed
  <2> QED
    BY <2>1, <2>3, <2>6, <2>7
<1> QED
  BY <1>10, <1>11, <1>12, <1>13, <1>14, <1>15, <1>16, <1>17 DEF StepGoroutine

\* What leaves the recorder, the steps and their counts alone keeps their part.
LEMMA StillKeeps ==
  ASSUME AppInv, UNCHANGED <<recVars, step, items>>,
         left' \in Nat, worker' \in {"run", "drain", "done"}, job' \in JobAt
  PROVE  TypeOK' /\ OneFlush' /\ Conserved' /\ Flushed'
<1> USE DEF AppInv, recVars
<1>1. TypeOK'
  BY DEF TypeOK
<1>2. OneFlush' /\ Flushed'
  BY DEF OneFlush, Flushed
<1>3. Conserved'
  BY DEF Conserved, Queued, Pending
<1> QED
  BY <1>1, <1>2, <1>3

\* The recorder's worker keeps the invariant.
LEMMA RunKeeps ==
  ASSUME AppInv, Run
  PROVE  AppInv'
<1> USE DEF AppInv
<1>1. UNCHANGED <<jobVars, appVars>>
  BY DEF Run
<1>2. CASE ProcessEvent
  <2>1. /\ eventQueue' \in Queues /\ outstanding' \in [Names -> Int] /\ Conserved'
        /\ UNCHANGED <<counters, mu, flushing, reset>> /\ left' \in Nat
    BY <1>2, ProcessKeeps
  <2>2. /\ UNCHANGED <<stopCh, worker>> /\ eventQueue # <<>> /\ worker # "done"
        /\ eventQueue' = Tail(eventQueue)
        /\ worker = "drain" => left' = left - 1
    BY <1>2 DEF ProcessEvent
  <2>3. TypeOK'
    BY <1>1, <2>1, <2>2 DEF TypeOK, jobVars
  <2>4. OneFlush' /\ Flushed' /\ JobEnds'
    BY <1>1, <2>1 DEF OneFlush, Flushed, JobEnds, jobVars, appVars
  <2>5. eventQueue \in Seq([type : Names, count : Nat])
    BY DEF TypeOK, Queues
  <2>6. Len(eventQueue') = Len(eventQueue) - 1
    BY <2>2, <2>5, HeadTailProperties
  <2>7. StopsDrained'
    BY <1>1, <2>2, <2>6 DEF StopsDrained, Ended, appVars, jobVars
  <2> QED
    BY <2>1, <2>3, <2>4, <2>7
<1>3. CASE StopReceived
  <2>1. /\ UNCHANGED <<recVars, stopCh>> /\ stopCh = "closed" /\ worker = "run"
        /\ worker' = "drain" /\ left' = Len(eventQueue)
    BY <1>3 DEF StopReceived
  <2>2. left' \in Nat
    BY <2>1 DEF TypeOK, Queues
  <2>3. TypeOK' /\ OneFlush' /\ Conserved' /\ Flushed'
    <3>1. job' \in JobAt
      BY <1>1 DEF TypeOK, jobVars
    <3> QED
      BY <1>1, <2>1, <2>2, <3>1, StillKeeps DEF jobVars
  <2>4. JobEnds'
    BY <1>1 DEF JobEnds, jobVars, appVars
  <2>5. StopsDrained'
    BY <1>1, <2>1 DEF StopsDrained, Ended, appVars, jobVars, recVars
  <2> QED
    BY <2>3, <2>4, <2>5
<1>4. CASE WorkerReturns
  <2>1. /\ UNCHANGED <<recVars, stopCh, left>> /\ worker = "drain" /\ left = 0
        /\ worker' = "done"
    BY <1>4 DEF WorkerReturns
  <2>2. TypeOK' /\ OneFlush' /\ Conserved' /\ Flushed'
    <3>1. job' \in JobAt /\ left' \in Nat
      BY <1>1, <2>1 DEF TypeOK, jobVars
    <3> QED
      BY <1>1, <2>1, <3>1, StillKeeps DEF jobVars
  <2>3. JobEnds'
    BY <1>1 DEF JobEnds, jobVars, appVars
  <2>4. Len(eventQueue) = 0 => eventQueue = <<>>
    BY EmptySeq DEF TypeOK, Queues
  <2>5. StopsDrained'
    BY <1>1, <2>1, <2>4 DEF StopsDrained, Ended, appVars, jobVars, recVars
  <2> QED
    BY <2>2, <2>3, <2>5
<1> QED
  BY <1>2, <1>3, <1>4 DEF Run

\* The job's goroutine keeps the invariant.
LEMMA JobKeeps ==
  ASSUME AppInv, JobGoroutine
  PROVE  AppInv'
<1> USE DEF AppInv
<1>1. UNCHANGED <<workVars, step, items, cancelled, appVars>>
  BY DEF JobGoroutine
<1>2. job # "done" /\ ~Ended /\ (row = "finished" => promoted) /\ promoted' \in {promoted, TRUE}
  <2>1. job # "done" /\ promoted' \in {promoted, TRUE}
    BY DEF JobGoroutine, RecordJobStart, PromoteContext, AtRest, FlowEnds, AfterJob,
           RecordJobEnd, SaveFinal
  <2> QED
    BY <2>1 DEF JobEnds, StopsDrained, Ended
<1>3. StopsDrained'
  BY <1>1, <1>2 DEF StopsDrained, Ended, appVars, workVars
<1>4. left' \in Nat /\ worker' \in {"run", "drain", "done"}
  BY <1>1 DEF TypeOK, workVars
<1>5. SUFFICES TypeOK' /\ OneFlush' /\ Conserved' /\ Flushed' /\ JobEnds'
  BY <1>3
<1>6. {"job_start", "job_end"} \subseteq Names
  BY DEF Names, Events
<1>7. ASSUME NEW t \in Names, Record(Event(t, 1)), job' \in JobAt
      PROVE  TypeOK' /\ OneFlush' /\ Conserved' /\ Flushed'
  <2>1. /\ eventQueue' \in Queues /\ outstanding' \in [Names -> Int] /\ Conserved'
        /\ UNCHANGED <<counters, mu, flushing, reset>>
    BY <1>7, RecordKeeps
  <2>2. TypeOK'
    BY <1>1, <1>4, <1>7, <2>1 DEF TypeOK
  <2>3. OneFlush' /\ Flushed'
    BY <1>1, <2>1 DEF OneFlush, Flushed
  <2> QED
    BY <2>1, <2>2, <2>3
<1>8. CASE RecordJobStart
  <2>1. Record(Event("job_start", 1)) /\ job' = "steps" /\ row' = row /\ promoted' = promoted
    BY <1>8 DEF RecordJobStart
  <2>2. JobEnds'
    BY <1>1, <1>2, <2>1 DEF JobEnds, appVars
  <2> QED
    BY <1>6, <1>7, <2>1, <2>2 DEF JobAt
<1>9. CASE FlowEnds
  <2>1. /\ \A s \in Steps : step[s] \in {"new", "done"}
        /\ job' = "after" /\ UNCHANGED <<recVars, row, JobDone, promoted>>
    BY <1>9 DEF FlowEnds
  <2>2. JobEnds'
    BY <1>1, <1>2, <2>1 DEF JobEnds, appVars
  <2> QED
    BY <1>1, <1>4, <2>1, <2>2, StillKeeps DEF JobAt
<1>10. CASE AfterJob
  <2>1. job = "after" /\ job' = "end" /\ UNCHANGED <<recVars, row, promoted>>
    BY <1>10 DEF AfterJob
  <2>2. JobEnds'
    BY <1>1, <1>2, <2>1 DEF JobEnds, appVars
  <2> QED
    BY <1>1, <1>4, <2>1, <2>2, StillKeeps DEF JobAt
<1>11. CASE RecordJobEnd
  <2>1. /\ Record(Event("job_end", 1)) /\ job = "end" /\ job' = "save"
        /\ UNCHANGED <<row, promoted>>
    BY <1>11 DEF RecordJobEnd
  <2>2. JobEnds'
    BY <1>1, <1>2, <2>1 DEF JobEnds, appVars
  <2> QED
    BY <1>6, <1>7, <2>1, <2>2 DEF JobAt
<1>12. CASE SaveFinal
  <2>1. /\ job = "save" /\ job' = "done" /\ row' \in {row, "finished"}
        /\ UNCHANGED <<recVars, promoted>>
    BY <1>12 DEF SaveFinal
  <2>2. JobEnds'
    BY <1>1, <1>2, <2>1 DEF JobEnds, appVars
  <2> QED
    BY <1>1, <1>4, <2>1, <2>2, StillKeeps DEF JobAt
<1>13. CASE PromoteContext
  <2>1. /\ job = "steps" /\ job' = job /\ row' = "finished" /\ promoted' = TRUE
        /\ UNCHANGED recVars
    BY <1>13 DEF PromoteContext, AtRest
  <2>2. JobEnds'
    BY <1>1, <2>1 DEF JobEnds, appVars
  <2> QED
    BY <1>1, <1>4, <2>1, <2>2, StillKeeps DEF JobAt
<1> QED
  BY <1>8, <1>9, <1>10, <1>11, <1>12, <1>13 DEF JobGoroutine

\* The monitor, the signal and the lifecycle of fx keep the invariant.
Others ==
  \/ Lifecycle \/ Poll \/ ContextDone \/ Signal \/ CancelAppCtx
  \/ \E ok \in BOOLEAN : Launch(ok)
LEMMA OthersKeep ==
  ASSUME AppInv, Others
  PROVE  AppInv'
<1> USE DEF AppInv
<1>1. UNCHANGED <<recVars, step, items, worker, left>>
  BY DEF Others, Lifecycle, StopApp, CloseRecorder, CloseReturns, ClosePools, Exit, Poll,
         ContextDone, Signal, CancelAppCtx, Launch, workVars, jobVars
<1>2. left' \in Nat /\ worker' \in {"run", "drain", "done"} /\ job' \in JobAt
  <2>1. job' \in {job, "start", "done"}
    BY DEF Others, Lifecycle, StopApp, CloseRecorder, CloseReturns, ClosePools, Exit, Poll,
           ContextDone, Signal, CancelAppCtx, Launch, jobVars
  <2> QED
    BY <1>1, <2>1 DEF TypeOK, JobAt
<1>3. TypeOK' /\ OneFlush' /\ Conserved' /\ Flushed'
  BY <1>1, <1>2, StillKeeps
<1>4. SUFFICES JobEnds' /\ StopsDrained'
  BY <1>3
<1>5. eventQueue' = eventQueue
  BY <1>1 DEF recVars
<1>6. CASE Lifecycle
  <2>1. UNCHANGED <<jobVars, monitor>>
    BY <1>6 DEF Lifecycle, StopApp, CloseRecorder, CloseReturns, ClosePools, Exit, appVars
  <2>2. JobEnds'
    BY <2>1 DEF JobEnds, jobVars
  <2>3. CASE StopApp
    <3>1. fx = "up" /\ fx' = "stopping" /\ why' = monitor /\ UNCHANGED <<stopCh, monitor, hooks>>
      BY <2>3 DEF StopApp, workVars
    <3>2. worker = "run"
      BY <3>1 DEF StopsDrained
    <3> QED
      BY <1>1, <2>1, <2>2, <3>1, <3>2 DEF StopsDrained, Ended, jobVars
  <2>4. CASE CloseRecorder
    BY <1>1, <1>5, <2>2, <2>4 DEF CloseRecorder, StopsDrained, Ended, jobVars, appVars
  <2>5. CASE CloseReturns
    BY <1>1, <1>5, <2>2, <2>5 DEF CloseReturns, StopsDrained, Ended, jobVars, workVars
  <2>6. CASE ClosePools
    BY <1>1, <1>5, <2>2, <2>6 DEF ClosePools, StopsDrained, Ended, jobVars, workVars
  <2>7. CASE Exit
    BY <1>1, <1>5, <2>2, <2>7 DEF Exit, StopsDrained, Ended, jobVars, workVars
  <2> QED
    BY <1>6, <2>3, <2>4, <2>5, <2>6, <2>7 DEF Lifecycle
<1>7. CASE Poll
  BY <1>1, <1>5, <1>7 DEF Poll, JobEnds, StopsDrained, Ended, jobVars, workVars
<1>8. CASE ContextDone
  BY <1>1, <1>5, <1>8 DEF ContextDone, JobEnds, StopsDrained, Ended, workVars
<1>9. CASE Signal
  BY <1>1, <1>5, <1>9 DEF Signal, JobEnds, StopsDrained, Ended, jobVars, workVars
<1>10. CASE CancelAppCtx
  BY <1>1, <1>5, <1>10 DEF CancelAppCtx, JobEnds, StopsDrained, Ended, appVars, workVars
<1>11. ASSUME NEW ok \in BOOLEAN, Launch(ok) PROVE JobEnds' /\ StopsDrained'
  <2>1. /\ job = "launch" /\ job' \in {"start", "done"} /\ row' \in {row, "running"}
        /\ monitor' \in {"poll", "shutdown"} /\ UNCHANGED <<workVars, step, fx, hooks, why>>
    BY <1>11 DEF Launch
  <2>2. /\ row # "finished" /\ monitor # "finished" /\ why # "finished"
        /\ ~promoted /\ promoted' = promoted
    BY <1>11, <2>1 DEF Launch, JobEnds, StopsDrained
  <2>3. JobEnds'
    BY <2>1, <2>2 DEF JobEnds
  <2>4. StopsDrained'
    BY <2>1, <2>2 DEF StopsDrained, Ended, workVars
  <2> QED
    BY <2>3, <2>4
<1> QED
  BY <1>6, <1>7, <1>8, <1>9, <1>10, <1>11 DEF Others

-----------------------------------------------------------------------------
(* The theorems.                                                           *)

\* The process starts in the invariant: nothing is counted, sent or at work.
LEMMA AppInit == Init => AppInv
<1> SUFFICES ASSUME Init PROVE AppInv
  OBVIOUS
<1> USE DEF Init
<1>1. eventQueue \in Queues
  BY DEF Queues
<1>2. TypeOK
  BY <1>1 DEF TypeOK, Zero, Names, StepAt, JobAt
<1>3. OneFlush
  BY DEF OneFlush
<1>4. ASSUME NEW t \in Names PROVE outstanding[t] = Queued(t) + Pending(t)
  <2>1. Queued(t) = 0
    BY SumEmpty DEF Queued
  <2>2. outstanding[t] = 0 /\ Pending(t) = 0
    BY DEF Names, Pending, Zero
  <2> QED
    BY <2>1, <2>2
<1>5. Flushed /\ JobEnds /\ StopsDrained
  BY DEF Flushed, JobEnds, StopsDrained, Zero, Hooks
<1> QED
  BY <1>2, <1>3, <1>4, <1>5 DEF AppInv, Conserved

\* The inductive invariant of the process, for any steps, metrics and queue size:
\* one flush at a time, conserved counts, no count left when the last step ends,
\* and a drained queue after a finished job.
THEOREM ApplicationKept == Spec => []AppInv
<1>1. AppInv /\ [Next]_vars => AppInv'
  <2> SUFFICES ASSUME AppInv, [Next]_vars PROVE AppInv'
    OBVIOUS
  <2>1. CASE Run
    BY <2>1, RunKeeps
  <2>2. CASE JobGoroutine
    BY <2>2, JobKeeps
  <2>3. CASE \E s \in Steps : StepGoroutine(s)
    BY <2>3, StepKeeps
  <2>4. CASE Others
    BY <2>4, OthersKeep
  <2>5. CASE UNCHANGED vars
    <3>1. UNCHANGED <<recVars, workVars, jobVars, appVars>>
      BY <2>5 DEF vars
    <3>2. TypeOK' /\ OneFlush' /\ Conserved' /\ Flushed'
      <4>1. left' \in Nat /\ worker' \in {"run", "drain", "done"} /\ job' \in JobAt
        BY <3>1 DEF AppInv, TypeOK, workVars, jobVars
      <4> QED
        BY <3>1, <4>1, StillKeeps DEF jobVars
    <3>3. JobEnds' /\ StopsDrained'
      BY <3>1 DEF AppInv, JobEnds, StopsDrained, Ended, recVars, workVars, jobVars, appVars
    <3> QED
      BY <3>2, <3>3 DEF AppInv
  <2> QED
    BY <2>1, <2>2, <2>3, <2>4, <2>5 DEF Next, Others
<1> QED
  BY <1>1, AppInit, PTL DEF Spec

\* incrementCounter and flushCounters (async_recorder.go) lose no increment and
\* count none twice, however many steps count and flush at the same time.
THEOREM CountsAreConserved == Spec => []CountsConserved
<1>1. AppInv => CountsConserved
  <2> SUFFICES ASSUME AppInv, mu = "free", NEW t \in Names
               PROVE  outstanding[t] = Queued(t) + (IF t \in Types THEN counters[t] ELSE 0)
    BY DEF CountsConserved, Names
  <2>1. reset = {}
    BY DEF AppInv, OneFlush
  <2> QED
    BY <2>1 DEF AppInv, Conserved, Pending
<1> QED
  BY <1>1, ApplicationKept, PTL

\* A process that exits because its monitor saw the job finished has handed over
\* every metric (module.go, async_recorder.go): job and steps are done, the
\* counters were flushed and the queue was drained. The exception is a row that
\* a promotion finished (flow_job.go:255), which ends the monitor too early.
THEOREM ExitKeepsEvents == Spec => []NormalExitKeepsEvents
<1>1. AppInv => NormalExitKeepsEvents
  <2> SUFFICES ASSUME AppInv, fx = "exited", Ended
               PROVE  /\ job = "done" /\ \A s \in Steps : step[s] \in {"new", "done"}
                      /\ \A t \in Names : outstanding[t] = 0
    BY DEF NormalExitKeepsEvents, Ended, Names
  <2>1. job = "done" /\ \A s \in Steps : step[s] \in {"new", "done"}
    BY DEF AppInv, JobEnds, StopsDrained, Ended
  <2>2. eventQueue = <<>>
    BY DEF AppInv, StopsDrained
  <2>3. \A t \in Types : counters[t] = 0
    BY <2>1 DEF AppInv, Flushed
  <2>4. ASSUME NEW t \in Names PROVE outstanding[t] = 0
    <3>1. Queued(t) = 0
      BY <2>2, SumEmpty DEF Queued
    <3>2. Pending(t) = 0
      BY <2>3 DEF Pending
    <3> QED
      BY <3>1, <3>2 DEF AppInv, Conserved
  <2> QED
    BY <2>1, <2>4
<1> QED
  BY <1>1, ApplicationKept, PTL
=============================================================================
