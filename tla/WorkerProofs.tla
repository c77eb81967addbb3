---------------------------- MODULE WorkerProofs ----------------------------
(***************************************************************************)
(* The worker's resources outlive its task, the queue set accounts for     *)
(* every item, and a stop comes after the commands sent before it: for     *)
(* queues of any length and any number of commands and interrupts.         *)
(***************************************************************************)
EXTENDS Worker, FiniteSetTheorems, TLAPS

Before   == {"new", "invalid"}
Alive    == {"running", "join", "take", "waitdelete", "kill"}
Finished == {"deinit", "destroyed"}

\* Where the owner stands says what exists and whether the task may run.  The
\* part that matters is Finished: the owner is past join or kill only when
\* the task is deleted.
Phase ==
    /\ owner \in Before \cup {"ready", "deleted"} \cup Alive \cup Finished
    /\ owner \in Before \cup {"ready"} => task = "none"
    /\ owner \in Alive \cup {"ready", "deinit"} => exists
    /\ owner \in Finished => task = "deleted"
    /\ owner = "deleted" => task = "none"

\* Before the worker is initialised there is no task (Worker::Worker).
LEMMA InitPhase == Init => Phase
BY DEF Init, Phase, Before, Alive, Finished

\* The calls of the owner keep the phases apart: only join after the task is
\* deleted, and kill, lead to deinit.
LEMMA OwnerPhase == Phase /\ OwnerStep => Phase'
<1> SUFFICES ASSUME Phase, OwnerStep PROVE Phase'
    OBVIOUS
<1> USE DEF Phase, Before, Alive, Finished
<1>1. CASE InitWorker
      BY <1>1 DEF InitWorker
<1>2. CASE Run
      BY <1>2 DEF Run, data
<1>3. CASE Send
      BY <1>3 DEF Send
<1>4. CASE Stop
      BY <1>4 DEF Stop
<1>5. CASE Join
      BY <1>5 DEF Join, data
<1>6. CASE JoinTake
      BY <1>6 DEF JoinTake
<1>7. CASE JoinDeleted
      BY <1>7 DEF JoinDeleted, data
<1>8. CASE JoinTimeout
      BY <1>8 DEF JoinTimeout, data
<1>9. CASE Kill
      BY <1>9 DEF Kill, data
<1>10. CASE Deinit
      BY <1>10 DEF Deinit
<1> QED
    BY <1>1, <1>2, <1>3, <1>4, <1>5, <1>6, <1>7, <1>8, <1>9, <1>10 DEF OwnerStep

\* A step of the task starts from a task that is neither absent nor deleted,
\* so the owner is in an Alive phase and stays there.
LEMMA TaskPhase == Phase /\ TaskStep => Phase'
<1> SUFFICES ASSUME Phase, TaskStep PROVE Phase'
    OBVIOUS
<1>1. task \notin {"none", "deleted"} /\ task' # "none" /\ UNCHANGED <<owner, exists>>
      BY DEF TaskStep, TaskStart, TaskSelect, TaskControl, TaskHandle, TaskGive, TaskStopped,
             TaskDelete, data
<1>2. owner \in Alive
      BY <1>1 DEF Phase, Before, Alive, Finished
<1> QED
    BY <1>1, <1>2 DEF Phase, Before, Alive, Finished

\* Every step of the specification keeps Phase; an interrupt only fills a queue.
LEMMA NextPhase == Phase /\ [Next]_vars => Phase'
<1> SUFFICES ASSUME Phase, [Next]_vars PROVE Phase'
    OBVIOUS
<1>1. CASE OwnerStep
      BY <1>1, OwnerPhase
<1>2. CASE TaskStep
      BY <1>2, TaskPhase
<1>3. CASE Interrupt
      BY <1>3 DEF Interrupt, Phase, Before, Alive, Finished
<1>4. CASE UNCHANGED vars
      BY <1>4 DEF vars, Phase, Before, Alive, Finished
<1> QED
    BY <1>1, <1>2, <1>3, <1>4 DEF Next

\* Worker::close never deletes the queues, the semaphores or the mutex while
\* the task may still use them, whether join succeeds, times out or the task
\* is killed, and whatever the lengths of the queues.
THEOREM ResourcesSafe == Spec => []ResourcesOutliveTask
<1>1. Init => Phase
      BY InitPhase
<1>2. Phase /\ [Next]_vars => Phase'
      BY NextPhase
<1>3. Phase => ResourcesOutliveTask
      BY DEF Phase, ResourcesOutliveTask, Before, Alive, Finished
<1> QED
    BY <1>1, <1>2, <1>3, PTL DEF Spec

-----------------------------------------------------------------------------
(***************************************************************************)
(* How often a queue is in the set.                                        *)
(***************************************************************************)

Where(s, q) == {i \in DOMAIN s : s[i] = q}

\* The places of a queue in the set are finitely many.
LEMMA WhereFinite ==
    ASSUME NEW S, NEW s \in Seq(S), NEW q
    PROVE  IsFiniteSet(Where(s, q)) /\ Cardinality(Where(s, q)) \in Nat
<1>1. Where(s, q) \subseteq 1 .. Len(s) /\ Len(s) \in Nat
      BY DEF Where
<1>2. IsFiniteSet(1 .. Len(s))
      BY <1>1, FS_Interval
<1>3. IsFiniteSet(Where(s, q))
      BY <1>1, <1>2, FS_Subset
<1> QED
    BY <1>3, FS_CardinalityType

\* xQueueSend adds one place, of its queue.
LEMMA WhereAppend ==
    ASSUME NEW S, NEW s \in Seq(S), NEW p \in S, NEW q
    PROVE  Cardinality(Where(Append(s, p), q)) =
               Cardinality(Where(s, q)) + IF p = q THEN 1 ELSE 0
<1>1. PICK n : n = Len(s) + 1
      OBVIOUS
<1>2. /\ DOMAIN s = 1 .. Len(s) /\ Len(s) \in Nat
      /\ DOMAIN Append(s, p) = 1 .. n
      /\ Append(s, p)[n] = p
      /\ \A i \in DOMAIN s : Append(s, p)[i] = s[i]
      BY <1>1
<1>3. /\ \A i : i \in 1 .. n <=> i \in DOMAIN s \/ i = n
      /\ n \notin DOMAIN s
      BY <1>1, <1>2
<1>4. IsFiniteSet(Where(s, q)) /\ Cardinality(Where(s, q)) \in Nat
      BY WhereFinite
<1>5. CASE p = q
    <2>1. Where(Append(s, p), q) = Where(s, q) \cup {n}
          BY <1>2, <1>3, <1>5 DEF Where
    <2>2. n \notin Where(s, q)
          BY <1>3 DEF Where
    <2> QED
        BY <1>4, <1>5, <2>1, <2>2, FS_AddElement
<1>6. CASE p # q
    <2>1. Where(Append(s, p), q) = Where(s, q)
          BY <1>2, <1>3, <1>6 DEF Where
    <2> QED
        BY <1>4, <1>6, <2>1
<1> QED
    BY <1>5, <1>6

\* xQueueSelectFromSet takes one place, of the queue it returns.
LEMMA WhereTail ==
    ASSUME NEW S, NEW s \in Seq(S), s # <<>>, NEW q
    PROVE  Cardinality(Where(s, q)) =
               Cardinality(Where(Tail(s), q)) + IF Head(s) = q THEN 1 ELSE 0
<1>1. /\ DOMAIN s = 1 .. Len(s) /\ Len(s) \in Nat /\ Len(s) > 0
      /\ Tail(s) \in Seq(S) /\ Head(s) = s[1]
      /\ DOMAIN Tail(s) = 1 .. (Len(s) - 1)
      /\ \A i \in 1 .. (Len(s) - 1) : Tail(s)[i] = s[i + 1]
      OBVIOUS
<1> DEFINE t == Where(Tail(s), q)
           u == Where(s, q) \ {1}
           f == [i \in t |-> i + 1]
<1>2. f \in Bijection(t, u)
    <2>1. \A i \in t : i \in Nat /\ i + 1 \in u
          BY <1>1 DEF Where
    <2>2. \A i \in u : i - 1 \in t /\ (i - 1) + 1 = i
          BY <1>1 DEF Where
    <2>3. \A i, j \in t : i + 1 = j + 1 => i = j
          BY <2>1
    <2> HIDE DEF t, u
    <2>4. f \in [t -> u]
          BY <2>1
    <2>5. \A i \in u : \E j \in t : f[j] = i
          BY <2>2
    <2>6. \A i, j \in t : f[i] = f[j] => i = j
          BY <2>3
    <2> HIDE DEF f
    <2> QED
        BY <2>4, <2>5, <2>6 DEF Bijection, Injection, Surjection, IsInjective
<1>3. IsFiniteSet(t) /\ Cardinality(t) \in Nat
      BY <1>1, WhereFinite
<1>4. Cardinality(u) = Cardinality(t) /\ IsFiniteSet(u)
      BY <1>2, <1>3, FS_Bijection DEF ExistsBijection
<1>5. CASE s[1] = q
    <2>1. Where(s, q) = u \cup {1} /\ 1 \notin u
          BY <1>1, <1>5 DEF Where
    <2>2. Cardinality(u \cup {1}) = Cardinality(u) + 1
          BY <1>4, <2>1, FS_AddElement
    <2>3. Head(s) = q
          BY <1>1, <1>5
    <2> HIDE DEF t, u
    <2>4. Cardinality(Where(s, q)) = Cardinality(t) + 1
          BY <1>4, <2>1, <2>2
    <2> QED
        BY <2>3, <2>4 DEF t
<1>6. CASE s[1] # q
    <2>1. Where(s, q) = u
          BY <1>6 DEF Where
    <2>2. Head(s) # q
          BY <1>1, <1>6
    <2> HIDE DEF t, u
    <2>3. Cardinality(Where(s, q)) = Cardinality(t) + 0
          BY <1>3, <1>4, <2>1
    <2> QED
        BY <2>2, <2>3 DEF t
<1> QED
    BY <1>5, <1>6

-----------------------------------------------------------------------------
(***************************************************************************)
(* The queue set, the commands and the stop.                               *)
(***************************************************************************)

DataTypes ==
    /\ queues \in [Queues -> Seq(Nat)]
    /\ queueSet \in Seq(Queues)
    /\ selected \in Queues
    /\ handled \in Seq(Nat)
    /\ sent \in Nat

\* What the task handles has been selected, and its place is not in the set
\* any more.
Handling(q) == task = "handle" /\ selected = q
Counts ==
    task # "deleted" => \A q \in Queues :
        Len(queues[q]) = Cardinality(Where(queueSet, q)) + IF Handling(q) THEN 1 ELSE 0

\* The state, where the task stands.
States ==
    /\ state \in {"Stopping", "Stopped"} => owner \notin {"new", "ready", "running"}
    /\ task = "handle" => state = "Running"
    /\ task = "select" => state \in {"Running", "Stopping"}
    /\ task = "stopped" => state = "Stopping"
    /\ owner = "destroyed" => state = "Destroyed"

\* Commands are numbered as they are sent; they are handled from the front.
Consecutive ==
    /\ \A i \in DOMAIN handled : handled[i] = i
    /\ owner # "destroyed" =>
          /\ Len(handled) + Len(queues["service"]) = sent
          /\ \A i \in DOMAIN queues["service"] : queues["service"][i] = Len(handled) + i

\* The owner sends nothing after the stop, so the set has no command behind
\* it, and none is left when it is selected.
StopLast ==
    /\ \A i \in DOMAIN queueSet : queueSet[i] = "control" =>
          /\ owner \notin {"new", "ready", "running"}
          /\ \A j \in DOMAIN queueSet : i < j => queueSet[j] # "service"
    /\ Handling("control") =>
          /\ owner \notin {"new", "ready", "running"}
          /\ \A j \in DOMAIN queueSet : queueSet[j] # "service"
    /\ state \in {"Stopping", "Stopped"} => queues["service"] = <<>>

WorkerInv == Phase /\ DataTypes /\ Counts /\ States /\ Consecutive /\ StopLast

\* What a send does to the queues (xQueueSend).
LEMMA EnqueueFacts ==
    ASSUME DataTypes, NEW p \in Queues, NEW item \in Nat, Enqueue(p, item)
    PROVE  /\ queues' \in [Queues -> Seq(Nat)]
           /\ queueSet' \in Seq(Queues)
           /\ queues'[p] = Append(queues[p], item)
           /\ Len(queues'[p]) = Len(queues[p]) + 1
           /\ \A q \in Queues : q # p => queues'[q] = queues[q]
           /\ \A q : Cardinality(Where(queueSet', q)) =
                        Cardinality(Where(queueSet, q)) + IF p = q THEN 1 ELSE 0
           /\ \A j \in DOMAIN queueSet' :
                 \/ j \in DOMAIN queueSet /\ queueSet'[j] = queueSet[j]
                 \/ j = Len(queueSet) + 1 /\ queueSet'[j] = p
           /\ DOMAIN queueSet = 1 .. Len(queueSet) /\ Len(queueSet) \in Nat
<1>1. /\ queues' = [queues EXCEPT ![p] = Append(queues[p], item)]
      /\ queueSet' = Append(queueSet, p) /\ queueSet \in Seq(Queues)
      /\ queues[p] \in Seq(Nat) /\ queues \in [Queues -> Seq(Nat)]
      BY DEF Enqueue, DataTypes
<1>2. Append(queues[p], item) \in Seq(Nat) /\ Len(Append(queues[p], item)) = Len(queues[p]) + 1
      BY <1>1
<1>3. \A q : Cardinality(Where(queueSet', q)) =
                Cardinality(Where(queueSet, q)) + IF p = q THEN 1 ELSE 0
      BY <1>1, WhereAppend
<1>4. queueSet' \in Seq(Queues)
      BY <1>1
<1>5. \A j \in DOMAIN queueSet' :
          \/ j \in DOMAIN queueSet /\ queueSet'[j] = queueSet[j]
          \/ j = Len(queueSet) + 1 /\ queueSet'[j] = p
      BY <1>1
<1>6. DOMAIN queueSet = 1 .. Len(queueSet) /\ Len(queueSet) \in Nat
      BY <1>1
<1> QED
    BY <1>1, <1>2, <1>3, <1>4, <1>5, <1>6

\* An item leaves its queue (xQueueReceive); there is one.
LEMMA DequeueFacts ==
    ASSUME DataTypes, Counts, task = "handle",
           queues' = [queues EXCEPT ![selected] = Tail(@)]
    PROVE  /\ queues[selected] # <<>>
           /\ queues' \in [Queues -> Seq(Nat)]
           /\ Len(queues'[selected]) = Len(queues[selected]) - 1
           /\ queues'[selected] = Tail(queues[selected])
           /\ \A q \in Queues : q # selected => queues'[q] = queues[q]
<1>1. selected \in Queues /\ queues \in [Queues -> Seq(Nat)] /\ queues[selected] \in Seq(Nat)
      BY DEF DataTypes
<1>2. Cardinality(Where(queueSet, selected)) \in Nat
      BY WhereFinite DEF DataTypes
<1>3. Len(queues[selected]) = Cardinality(Where(queueSet, selected)) + 1
      BY <1>1 DEF Counts, Handling
<1>4. queues[selected] # <<>>
      BY <1>1, <1>2, <1>3
<1>5. /\ Tail(queues[selected]) \in Seq(Nat)
      /\ Len(Tail(queues[selected])) = Len(queues[selected]) - 1
      BY <1>1, <1>4
<1> QED
    BY <1>1, <1>4, <1>5

\* The steps that touch the queues, the set or what is handled.
LEMMA DataChanges ==
    ASSUME Phase, [Next]_vars
    PROVE  \/ /\ UNCHANGED <<queues, queueSet, selected, handled, sent>>
              /\ task' # "deleted" => (task' = "handle" <=> task = "handle")
           \/ Send \/ Stop \/ Interrupt \/ Deinit \/ TaskSelect \/ TaskControl \/ TaskHandle
<1> DEFINE Same == UNCHANGED <<queues, queueSet, selected, handled, sent>>
<1>1. CASE InitWorker \/ Join \/ JoinTake \/ JoinDeleted \/ JoinTimeout \/ UNCHANGED vars
    <2>1. Same /\ UNCHANGED task
          BY <1>1 DEF InitWorker, Join, JoinTake, JoinDeleted, JoinTimeout, data, vars
    <2> QED
        BY <2>1
<1>2. CASE Run \/ Kill
    <2>1. Same /\ (UNCHANGED task \/ task' \in {"created", "deleted"})
          BY <1>2 DEF Run, Kill, data
    <2>2. Run => owner = "ready"
          BY DEF Run
    <2>3. task' = "created" => task # "handle"
          BY <1>2, <2>2 DEF Run, Kill, Phase, Before
    <2> QED
        BY <2>1, <2>3
<1>3. CASE TaskStart \/ TaskGive \/ TaskStopped \/ TaskDelete
    <2>1. Same /\ task # "handle" /\ task' # "handle"
          BY <1>3 DEF TaskStart, TaskGive, TaskStopped, TaskDelete, data
    <2> QED
        BY <2>1
<1> QED
    BY <1>1, <1>2, <1>3 DEF Next, OwnerStep, TaskStep

\* Queues hold items, the set holds queues.
LEMMA DataTypesStep == Phase /\ DataTypes /\ Counts /\ [Next]_vars => DataTypes'
<1> SUFFICES ASSUME Phase, DataTypes, Counts, [Next]_vars PROVE DataTypes'
    OBVIOUS
<1>1. CASE UNCHANGED <<queues, queueSet, selected, handled, sent>>
      BY <1>1 DEF DataTypes
<1>2. CASE Send
    <2>1. sent + 1 \in Nat /\ "service" \in Queues /\ Enqueue("service", sent + 1)
          /\ sent' = sent + 1 /\ UNCHANGED <<selected, handled>>
          BY <1>2 DEF Send, DataTypes, Queues
    <2>2. queues' \in [Queues -> Seq(Nat)] /\ queueSet' \in Seq(Queues)
          BY <2>1, EnqueueFacts
    <2> QED
        BY <2>1, <2>2 DEF DataTypes
<1>3. CASE Stop
    <2>1. 0 \in Nat /\ "control" \in Queues /\ Enqueue("control", 0)
          /\ UNCHANGED <<selected, handled, sent>>
          BY <1>3 DEF Stop, Queues
    <2>2. queues' \in [Queues -> Seq(Nat)] /\ queueSet' \in Seq(Queues)
          BY <2>1, EnqueueFacts
    <2> QED
        BY <2>1, <2>2 DEF DataTypes
<1>4. CASE Interrupt
    <2>1. 0 \in Nat /\ "irq" \in Queues /\ UNCHANGED <<selected, handled, sent>>
          /\ (Enqueue("irq", 0) \/ UNCHANGED <<queues, queueSet>>)
          BY <1>4 DEF Interrupt, Queues
    <2>2. queues' \in [Queues -> Seq(Nat)] /\ queueSet' \in Seq(Queues)
          BY <2>1, EnqueueFacts DEF DataTypes
    <2> QED
        BY <2>1, <2>2 DEF DataTypes
<1>5. CASE Deinit
    <2>1. queues' = [q \in Queues |-> <<>>] /\ queueSet' = <<>> /\ UNCHANGED <<selected, handled, sent>>
          BY <1>5 DEF Deinit
    <2>2. queues' \in [Queues -> Seq(Nat)] /\ queueSet' \in Seq(Queues)
          BY <2>1
    <2> QED
        BY <2>1, <2>2 DEF DataTypes
<1>6. CASE TaskSelect
    <2>1. /\ queueSet # <<>> /\ selected' = Head(queueSet) /\ queueSet' = Tail(queueSet)
          /\ UNCHANGED <<queues, handled, sent>>
          BY <1>6 DEF TaskSelect
    <2>2. selected' \in Queues /\ queueSet' \in Seq(Queues)
          BY <2>1 DEF DataTypes
    <2> QED
        BY <2>1, <2>2 DEF DataTypes
<1>7. CASE TaskControl
    <2>1. /\ task = "handle" /\ queues' = [queues EXCEPT ![selected] = Tail(@)]
          /\ UNCHANGED <<queueSet, selected, handled, sent>>
          BY <1>7 DEF TaskControl
    <2> QED
        BY <2>1, DequeueFacts DEF DataTypes
<1>8. CASE TaskHandle
    <2>1. /\ task = "handle" /\ queues' = [queues EXCEPT ![selected] = Tail(@)]
          /\ UNCHANGED <<queueSet, selected, sent>>
          BY <1>8 DEF TaskHandle
    <2>2. queues' \in [Queues -> Seq(Nat)] /\ queues[selected] # <<>>
          BY <2>1, DequeueFacts
    <2>3. selected = "service" => Head(queues["service"]) \in Nat
          BY <2>2 DEF DataTypes
    <2>4. handled' \in Seq(Nat)
          BY <1>8, <2>3 DEF TaskHandle, DataTypes
    <2> QED
        BY <2>1, <2>2, <2>4 DEF DataTypes
<1> QED
    BY <1>1, <1>2, <1>3, <1>4, <1>5, <1>6, <1>7, <1>8, DataChanges

\* The set learns of an item when it is sent and forgets it when it is
\* selected, and the task takes one item for each.
LEMMA CountsStep == Phase /\ DataTypes /\ Counts /\ [Next]_vars => Counts'
<1> SUFFICES ASSUME Phase, DataTypes, Counts, [Next]_vars PROVE Counts'
    OBVIOUS
<1> DEFINE N(q) == Cardinality(Where(queueSet, q))
<1>0. \A q \in Queues : Len(queues[q]) \in Nat /\ N(q) \in Nat
      BY WhereFinite DEF DataTypes
<1>1. CASE task' = "deleted"
      BY <1>1 DEF Counts
<1>2. CASE /\ UNCHANGED <<queues, queueSet, selected, handled, sent>>
           /\ task' # "deleted" /\ (task' = "handle" <=> task = "handle")
    <2>1. task # "deleted"
          BY <1>2 DEF Next, OwnerStep, TaskStep, InitWorker, Run, Send, Stop, Join, JoinTake,
             JoinDeleted, JoinTimeout, Kill, Deinit, Interrupt, TaskStart, TaskSelect,
             TaskControl, TaskHandle, TaskGive, TaskStopped, TaskDelete, data, vars,
             Phase, Before, Alive, Finished
    <2> QED
        BY <1>2, <2>1 DEF Counts, Handling, Where
<1>3. ASSUME NEW p \in Queues, NEW item \in Nat, Enqueue(p, item), UNCHANGED <<task, selected>>
      PROVE  Counts'
    <2>1. /\ Len(queues'[p]) = Len(queues[p]) + 1
          /\ \A q \in Queues : q # p => queues'[q] = queues[q]
          /\ \A q : Cardinality(Where(queueSet', q)) = N(q) + IF p = q THEN 1 ELSE 0
          BY <1>3, EnqueueFacts
    <2>2. \A q : Handling(q)' <=> Handling(q)
          BY <1>3 DEF Handling
    <2> SUFFICES ASSUME task # "deleted", NEW q \in Queues
                 PROVE  Len(queues'[q]) = Cardinality(Where(queueSet', q))
                                            + IF Handling(q)' THEN 1 ELSE 0
        BY <1>3 DEF Counts
    <2>3. Len(queues[q]) = N(q) + IF Handling(q) THEN 1 ELSE 0
          BY DEF Counts
    <2> HIDE DEF N
    <2>4. CASE q = p
          BY <1>0, <2>1, <2>2, <2>3, <2>4
    <2>5. CASE q # p
          BY <1>0, <2>1, <2>2, <2>3, <2>5
    <2> QED
        BY <2>4, <2>5
<1>4. CASE Send
    <2>1. sent + 1 \in Nat /\ "service" \in Queues /\ Enqueue("service", sent + 1)
          /\ UNCHANGED <<task, selected>>
          BY <1>4 DEF Send, DataTypes, Queues
    <2> QED
        BY <1>3, <2>1
<1>5. CASE Stop
    <2>1. 0 \in Nat /\ "control" \in Queues /\ Enqueue("control", 0) /\ UNCHANGED <<task, selected>>
          BY <1>5 DEF Stop, Queues
    <2> QED
        BY <1>3, <2>1
<1>6. CASE Interrupt /\ task' # "deleted"
    <2>1. 0 \in Nat /\ "irq" \in Queues /\ UNCHANGED <<task, selected, handled, sent>>
          /\ (Enqueue("irq", 0) \/ UNCHANGED <<queues, queueSet>>)
          BY <1>6 DEF Interrupt, Queues
    <2> QED
        BY <1>2, <1>3, <1>6, <2>1
<1>7. CASE Deinit
    <2>1. task' = "deleted"
          BY <1>7 DEF Deinit, Phase, Finished
    <2> QED
        BY <1>1, <2>1
<1>8. CASE TaskSelect
    <2>1. /\ task = "select" /\ task' = "handle" /\ queueSet # <<>>
          /\ selected' = Head(queueSet) /\ queueSet' = Tail(queueSet) /\ UNCHANGED queues
          BY <1>8 DEF TaskSelect
    <2>2. \A q : N(q) = Cardinality(Where(queueSet', q)) + IF selected' = q THEN 1 ELSE 0
          BY <2>1, WhereTail DEF DataTypes
    <2>3. \A q \in Queues : Len(queues[q]) = N(q)
          BY <1>0, <2>1 DEF Counts, Handling
    <2> HIDE DEF N
    <2> QED
        BY <2>1, <2>2, <2>3 DEF Counts, Handling
<1>9. CASE TaskControl \/ TaskHandle
    <2>1. /\ task = "handle" /\ task' = "select" /\ UNCHANGED <<queueSet, selected>>
          /\ queues' = [queues EXCEPT ![selected] = Tail(@)]
          BY <1>9 DEF TaskControl, TaskHandle
    <2>2. /\ Len(queues'[selected]) = Len(queues[selected]) - 1
          /\ \A q \in Queues : q # selected => queues'[q] = queues[q]
          BY <2>1, DequeueFacts
    <2>3. \A q \in Queues : Len(queues[q]) = N(q) + IF selected = q THEN 1 ELSE 0
          BY <2>1 DEF Counts, Handling
    <2>4. N(selected)' = N(selected) /\ \A q : Cardinality(Where(queueSet', q)) = N(q)
          BY <2>1
    <2> HIDE DEF N
    <2>5. ASSUME NEW q \in Queues PROVE Len(queues'[q]) = N(q)
        <3>1. CASE q = selected
            <4>1. Len(queues[q]) = N(q) + 1 /\ N(q) \in Nat
                  BY <1>0, <2>3, <3>1
            <4>2. Len(queues'[q]) = Len(queues[q]) - 1
                  BY <2>2, <3>1
            <4> QED
                BY <4>1, <4>2
        <3>2. CASE q # selected
            <4>1. Len(queues[q]) = N(q) + 0 /\ N(q) \in Nat
                  BY <1>0, <2>3, <3>2
            <4>2. queues'[q] = queues[q]
                  BY <2>2, <3>2
            <4> QED
                BY <4>1, <4>2
        <3> QED
            BY <3>1, <3>2
    <2>6. \A q \in Queues : Len(queues'[q]) =
                Cardinality(Where(queueSet', q)) + IF Handling(q)' THEN 1 ELSE 0
          BY <1>0, <2>1, <2>4, <2>5 DEF Handling
    <2> QED
        BY <2>6 DEF Counts
<1> QED
    BY <1>1, <1>2, <1>4, <1>5, <1>6, <1>7, <1>8, <1>9, DataChanges

\* The state follows the task: Running until a stop is handled, Stopping until
\* the semaphore is given (handleControlMessage, task).
LEMMA StatesStep == Phase /\ States /\ StopLast /\ [Next]_vars => States'
<1> SUFFICES ASSUME Phase, States, StopLast, [Next]_vars PROVE States'
    OBVIOUS
<1> USE DEF States, Phase, Before, Alive, Finished
<1>1. CASE InitWorker
      BY <1>1 DEF InitWorker
<1>2. CASE Run
      BY <1>2 DEF Run
<1>3. CASE Send \/ Interrupt \/ UNCHANGED vars
      BY <1>3 DEF Send, Interrupt, vars
<1>4. CASE Stop \/ Join \/ JoinTake \/ JoinDeleted \/ JoinTimeout
      BY <1>4 DEF Stop, Join, JoinTake, JoinDeleted, JoinTimeout
<1>5. CASE Kill
      BY <1>5 DEF Kill
<1>6. CASE Deinit
      BY <1>6 DEF Deinit
<1>7. CASE TaskStart
      BY <1>7 DEF TaskStart
<1>8. CASE TaskSelect \/ TaskHandle
      BY <1>8 DEF TaskSelect, TaskHandle
<1>9. CASE TaskControl
      BY <1>9 DEF TaskControl, StopLast, Handling
<1>10. CASE TaskGive
      BY <1>10 DEF TaskGive
<1>11. CASE TaskStopped \/ TaskDelete
      BY <1>11 DEF TaskStopped, TaskDelete
<1> QED
    BY <1>1, <1>2, <1>3, <1>4, <1>5, <1>6, <1>7, <1>8, <1>9, <1>10, <1>11
       DEF Next, OwnerStep, TaskStep

\* The commands keep their numbers on the way through the queue.
LEMMA ConsecutiveStep ==
    Phase /\ DataTypes /\ Counts /\ Consecutive /\ [Next]_vars => Consecutive'
<1> SUFFICES ASSUME Phase, DataTypes, Counts, Consecutive, [Next]_vars PROVE Consecutive'
    OBVIOUS
<1> DEFINE s == queues["service"]
<1>0. /\ s \in Seq(Nat) /\ handled \in Seq(Nat) /\ sent \in Nat
      /\ DOMAIN s = 1 .. Len(s) /\ Len(s) \in Nat
      /\ DOMAIN handled = 1 .. Len(handled) /\ Len(handled) \in Nat
      BY DEF DataTypes, Queues
<1>1. CASE owner = "destroyed"
    <2>1. UNCHANGED <<handled, owner>>
          BY <1>1 DEF Next, OwnerStep, TaskStep, InitWorker, Run, Send, Stop, Join, JoinTake,
             JoinDeleted, JoinTimeout, Kill, Deinit, Interrupt, TaskStart, TaskSelect,
             TaskControl, TaskHandle, TaskGive, TaskStopped, TaskDelete, data, vars,
             Phase, Before, Alive, Finished
    <2> QED
        BY <1>1, <2>1 DEF Consecutive
<1>2. CASE owner # "destroyed" /\ s' = s /\ UNCHANGED <<handled, sent>>
      BY <1>2 DEF Consecutive
<1>3. CASE UNCHANGED <<queues, queueSet, selected, handled, sent>> /\ owner # "destroyed"
      BY <1>2, <1>3
<1>4. CASE Send
    <2>1. sent + 1 \in Nat /\ "service" \in Queues /\ Enqueue("service", sent + 1)
          /\ sent' = sent + 1 /\ UNCHANGED handled /\ owner = "running"
          BY <1>4 DEF Send, DataTypes, Queues
    <2>2. s' = Append(s, sent + 1)
          BY <2>1, EnqueueFacts
    <2>3. Len(handled) + Len(s) = sent /\ \A i \in DOMAIN s : s[i] = Len(handled) + i
          BY <2>1 DEF Consecutive
    <2> HIDE DEF s
    <2>4. Len(s') = Len(s) + 1 /\ DOMAIN s' = 1 .. (Len(s) + 1) /\ s'[Len(s) + 1] = sent + 1
          /\ \A i \in DOMAIN s : s'[i] = s[i]
          BY <1>0, <2>2
    <2>5. \A i \in 1 .. (Len(s) + 1) : s'[i] = Len(handled) + i
        <3> SUFFICES ASSUME NEW i \in 1 .. (Len(s) + 1) PROVE s'[i] = Len(handled) + i
            OBVIOUS
        <3>1. CASE i = Len(s) + 1
            <4>1. s'[i] = sent + 1
                  BY <2>4, <3>1
            <4>2. Len(handled) + i = sent + 1
                  BY <1>0, <2>3, <3>1
            <4> QED
                BY <4>1, <4>2
        <3>2. CASE i # Len(s) + 1
            <4>1. i \in DOMAIN s
                  BY <1>0, <3>2
            <4> QED
                BY <2>3, <2>4, <4>1
        <3> QED
            BY <3>1, <3>2
    <2>6. Len(handled') + Len(s') = sent'
          BY <1>0, <2>1, <2>3, <2>4
    <2>7. \A i \in DOMAIN s' : s'[i] = Len(handled') + i
          BY <2>1, <2>4, <2>5
    <2>8. \A i \in DOMAIN handled' : handled'[i] = i
          BY <2>1 DEF Consecutive
    <2> QED
        BY <2>6, <2>7, <2>8 DEF Consecutive, s
<1>5. CASE Stop
    <2>1. 0 \in Nat /\ "control" \in Queues /\ Enqueue("control", 0)
          /\ UNCHANGED <<handled, sent>> /\ owner = "running" /\ "service" \in Queues
          BY <1>5 DEF Stop, Queues
    <2>2. s' = s
          BY <2>1, EnqueueFacts
    <2> QED
        BY <1>2, <2>1, <2>2
<1>6. CASE Interrupt /\ owner # "destroyed"
    <2>1. 0 \in Nat /\ "irq" \in Queues /\ UNCHANGED <<handled, sent>> /\ "service" \in Queues
          /\ (Enqueue("irq", 0) \/ UNCHANGED <<queues, queueSet>>)
          BY <1>6 DEF Interrupt, Queues
    <2>2. s' = s
          BY <2>1, EnqueueFacts
    <2> QED
        BY <1>2, <1>6, <2>1, <2>2
<1>7. CASE Deinit
      BY <1>7 DEF Deinit, Consecutive
<1>8. CASE TaskSelect /\ owner # "destroyed"
      BY <1>2, <1>8 DEF TaskSelect
<1>9. CASE TaskControl /\ owner # "destroyed"
    <2>1. /\ queues' = [queues EXCEPT !["control"] = Tail(@)] /\ UNCHANGED <<handled, sent>>
          BY <1>9 DEF TaskControl
    <2>2. s' = s
          BY <2>1 DEF DataTypes, Queues
    <2> QED
        BY <1>2, <1>9, <2>1, <2>2
<1>10. CASE TaskHandle /\ owner # "destroyed"
    <2>1. /\ task = "handle" /\ UNCHANGED <<selected, sent, owner>>
          /\ queues' = [queues EXCEPT ![selected] = Tail(@)]
          BY <1>10 DEF TaskHandle
    <2>2. /\ queues[selected] # <<>>
          /\ queues'[selected] = Tail(queues[selected])
          /\ \A q \in Queues : q # selected => queues'[q] = queues[q]
          BY <2>1, DequeueFacts
    <2>3. CASE selected # "service"
          BY <1>2, <1>10, <2>1, <2>2, <2>3 DEF TaskHandle, Queues
    <2>4. CASE selected = "service"
        <3>1. /\ s # <<>> /\ s' = Tail(s) /\ handled' = Append(handled, Head(s))
              BY <1>10, <2>2, <2>4 DEF TaskHandle
        <3>2. /\ Len(handled) + Len(s) = sent
              /\ \A i \in DOMAIN s : s[i] = Len(handled) + i
              /\ \A i \in DOMAIN handled : handled[i] = i
              BY <1>10 DEF Consecutive
        <3> HIDE DEF s
        <3>3. /\ Len(s') = Len(s) - 1 /\ DOMAIN s' = 1 .. (Len(s) - 1)
              /\ \A i \in 1 .. (Len(s) - 1) : s'[i] = s[i + 1]
              /\ Head(s) = s[1] /\ 1 \in DOMAIN s /\ s[1] \in Nat
              BY <1>0, <3>1
        <3>4. s[1] = Len(handled) + 1
              BY <3>2, <3>3
        <3>5. /\ Len(handled') = Len(handled) + 1 /\ DOMAIN handled' = 1 .. (Len(handled) + 1)
              /\ \A i \in DOMAIN handled : handled'[i] = handled[i]
              /\ handled'[Len(handled) + 1] = Len(handled) + 1
              BY <1>0, <3>1, <3>3, <3>4
        <3>6. \A i \in DOMAIN handled' : handled'[i] = i
              BY <1>0, <3>2, <3>5
        <3>7. Len(handled') + Len(s') = sent'
            <4>1. sent' = sent /\ Len(handled') = Len(handled) + 1 /\ Len(s') = Len(s) - 1
                  BY <2>1, <3>3, <3>5
            <4>2. (Len(handled) + 1) + (Len(s) - 1) = Len(handled) + Len(s)
                  BY <1>0
            <4> QED
                BY <3>2, <4>1, <4>2
        <3>8. ASSUME NEW i \in DOMAIN s' PROVE s'[i] = Len(handled') + i
            <4>1. i \in 1 .. (Len(s) - 1) /\ s'[i] = s[i + 1]
                  BY <3>3
            <4>n. \A n, h \in Nat : \A j \in 1 .. (n - 1) :
                      j + 1 \in 1 .. n /\ h + (j + 1) = (h + 1) + j
                  OBVIOUS
            <4>2. /\ i + 1 \in 1 .. Len(s)
                  /\ Len(handled) + (i + 1) = (Len(handled) + 1) + i
                  BY <1>0, <4>1, <4>n, Zenon
            <4>3. s[i + 1] = Len(handled) + (i + 1)
                  BY <1>0, <3>2, <4>2
            <4> QED
                BY <3>5, <4>1, <4>2, <4>3
        <3> QED
            BY <3>6, <3>7, <3>8 DEF Consecutive, s
    <2> QED
        BY <2>3, <2>4
<1> QED
    BY <1>1, <1>3, <1>4, <1>5, <1>6, <1>7, <1>8, <1>9, <1>10, DataChanges

\* After stop the owner sends nothing, so the stop is behind every command.
LEMMA StopLastStep ==
    Phase /\ DataTypes /\ Counts /\ States /\ StopLast /\ [Next]_vars => StopLast'
<1> SUFFICES ASSUME Phase, DataTypes, Counts, States, StopLast, [Next]_vars PROVE StopLast'
    OBVIOUS
<1> DEFINE Past == owner \notin {"new", "ready", "running"}
           Late == \A i \in DOMAIN queueSet : queueSet[i] = "control" =>
                      /\ Past
                      /\ \A j \in DOMAIN queueSet : i < j => queueSet[j] # "service"
           Gone == \A j \in DOMAIN queueSet : queueSet[j] # "service"
           Told == state \in {"Stopping", "Stopped"}
<1>0. /\ Late
      /\ Handling("control") => Past /\ Gone
      /\ Told => queues["service"] = <<>>
      BY DEF StopLast
<1>p. Past => Past'
      BY DEF Next, OwnerStep, TaskStep, InitWorker, Run, Send, Stop, Join, JoinTake,
         JoinDeleted, JoinTimeout, Kill, Deinit, Interrupt, TaskStart, TaskSelect,
         TaskControl, TaskHandle, TaskGive, TaskStopped, TaskDelete, data, vars
<1>1. CASE /\ UNCHANGED <<queues, queueSet, selected, handled, sent>>
           /\ task' # "deleted" => (task' = "handle" <=> task = "handle")
    <2>1. Late' /\ (Gone => Gone')
          BY <1>0, <1>1, <1>p
    <2>2. Handling("control")' => Handling("control")
          BY <1>1 DEF Handling
    <2>3. Told' => Told \/ queues["service"] = <<>>
        <3>1. Told' => Told \/ TaskControl
              BY DEF States, Next, OwnerStep, TaskStep, InitWorker, Run, Send, Stop, Join,
                 JoinTake, JoinDeleted, JoinTimeout, Kill, Deinit, Interrupt, TaskStart,
                 TaskSelect, TaskControl, TaskHandle, TaskGive, TaskStopped, TaskDelete,
                 data, vars
        <3>2. ~TaskControl
              BY <1>1 DEF TaskControl
        <3> QED
            BY <3>1, <3>2
    <2> QED
        BY <1>0, <1>1, <1>p, <2>1, <2>2, <2>3 DEF StopLast
<1>2. ASSUME NEW p \in Queues, NEW item \in Nat, Enqueue(p, item), p # "service",
             UNCHANGED <<task, selected, state>>, p = "control" => Past'
      PROVE  StopLast'
    <2>1. /\ queues'["service"] = queues["service"]
          /\ \A j \in DOMAIN queueSet' :
                \/ j \in DOMAIN queueSet /\ queueSet'[j] = queueSet[j]
                \/ j = Len(queueSet) + 1 /\ queueSet'[j] = p
          /\ DOMAIN queueSet = 1 .. Len(queueSet) /\ Len(queueSet) \in Nat
          BY <1>2, EnqueueFacts DEF Queues
    <2>2. Gone => Gone'
          BY <1>2, <2>1
    <2>3. Late'
          BY <1>0, <1>2, <1>p, <2>1
    <2>4. Handling("control")' <=> Handling("control")
          BY <1>2 DEF Handling
    <2>5. Told' <=> Told
          BY <1>2
    <2> QED
        BY <1>0, <1>p, <2>1, <2>2, <2>3, <2>4, <2>5 DEF StopLast
<1>3. CASE Send
    <2>1. owner = "running" /\ UNCHANGED <<owner, task, selected, state>>
          /\ sent + 1 \in Nat /\ "service" \in Queues /\ Enqueue("service", sent + 1)
          BY <1>3 DEF Send, DataTypes, Queues
    <2>2. ~Told /\ ~Handling("control") /\ \A i \in DOMAIN queueSet : queueSet[i] # "control"
          BY <1>0, <2>1 DEF States
    <2>3. \A j \in DOMAIN queueSet' :
                \/ j \in DOMAIN queueSet /\ queueSet'[j] = queueSet[j]
                \/ queueSet'[j] = "service"
          BY <2>1, EnqueueFacts
    <2>4. \A i \in DOMAIN queueSet' : queueSet'[i] # "control"
          BY <2>2, <2>3
    <2>5. ~Told' /\ ~Handling("control")'
          BY <2>1, <2>2 DEF Handling
    <2> QED
        BY <2>4, <2>5 DEF StopLast
<1>4. CASE Stop
    <2>1. 0 \in Nat /\ "control" \in Queues /\ Enqueue("control", 0) /\ Past'
          /\ UNCHANGED <<task, selected, state>>
          BY <1>4 DEF Stop, Queues
    <2> QED
        BY <1>2, <2>1
<1>5. CASE Interrupt
    <2>1. 0 \in Nat /\ "irq" \in Queues /\ UNCHANGED <<task, selected, state, handled, sent>>
          /\ (Enqueue("irq", 0) \/ UNCHANGED <<queues, queueSet>>)
          BY <1>5 DEF Interrupt, Queues
    <2> QED
        BY <1>1, <1>2, <2>1
<1>6. CASE Deinit
    <2>1. queueSet' = <<>> /\ state' = "Destroyed" /\ task' # "handle"
          BY <1>6 DEF Deinit, Phase, Finished
    <2> QED
        BY <2>1 DEF StopLast, Handling
<1>7. CASE TaskSelect
    <2>1. /\ queueSet # <<>> /\ selected' = Head(queueSet) /\ queueSet' = Tail(queueSet)
          /\ UNCHANGED <<state, queues>>
          BY <1>7 DEF TaskSelect
    <2>2. /\ queueSet \in Seq(Queues) /\ Head(queueSet) = queueSet[1] /\ 1 \in DOMAIN queueSet
          /\ \A j \in DOMAIN queueSet' : /\ j \in Nat /\ j > 0
                                         /\ j + 1 \in DOMAIN queueSet
                                         /\ queueSet'[j] = queueSet[j + 1]
          BY <2>1 DEF DataTypes
    <2>3. Late'
        <3> SUFFICES ASSUME NEW i \in DOMAIN queueSet', queueSet'[i] = "control"
                     PROVE  Past' /\ \A j \in DOMAIN queueSet' : i < j => queueSet'[j] # "service"
            OBVIOUS
        <3>1. \A j \in DOMAIN queueSet' : i < j => i + 1 < j + 1
              BY <2>2
        <3> QED
            BY <1>0, <1>p, <2>2, <3>1
    <2>4. Handling("control")' => Past' /\ Gone'
        <3>1. \A j \in DOMAIN queueSet' : 1 < j + 1
              BY <2>2
        <3> QED
            BY <1>0, <1>p, <2>1, <2>2, <3>1 DEF Handling
    <2> QED
        BY <1>0, <2>1, <2>3, <2>4 DEF StopLast
<1>8. CASE TaskControl
    <2>1. /\ Handling("control") /\ task = "handle" /\ task' = "select" /\ UNCHANGED queueSet
          /\ queues' = [queues EXCEPT !["control"] = Tail(@)]
          BY <1>8 DEF TaskControl, Handling
    <2>2. queues'["service"] = queues["service"]
          BY <2>1 DEF DataTypes, Queues
    <2>3. Where(queueSet, "service") = {}
          BY <1>0, <2>1 DEF Where
    <2>4. Len(queues["service"]) = 0
        <3>1. ~Handling("service") /\ "service" \in Queues
              BY <2>1 DEF Handling, Queues
        <3>2. Cardinality(Where(queueSet, "service")) = 0
              BY <2>3, FS_EmptySet
        <3> QED
            BY <2>1, <3>1, <3>2 DEF Counts
    <2>5. queues["service"] = <<>>
          BY <2>4 DEF DataTypes, Queues
    <2>6. ~Handling("control")' /\ Late'
          BY <1>0, <1>p, <2>1 DEF Handling
    <2> QED
        BY <2>2, <2>5, <2>6 DEF StopLast
<1>9. CASE TaskHandle
    <2>1. /\ task = "handle" /\ task' = "select" /\ UNCHANGED <<queueSet, state>>
          BY <1>9 DEF TaskHandle
    <2>2. ~Told'
          BY <2>1 DEF States
    <2>3. ~Handling("control")' /\ Late'
          BY <1>0, <1>p, <2>1 DEF Handling
    <2> QED
        BY <2>2, <2>3 DEF StopLast
<1> QED
    BY <1>1, <1>3, <1>4, <1>5, <1>6, <1>7, <1>8, <1>9, DataChanges

-----------------------------------------------------------------------------

\* The invariant holds in every state of the worker.
LEMMA WorkerInductive == Spec => []WorkerInv
<1>1. Init => WorkerInv
    <2> SUFFICES ASSUME Init PROVE WorkerInv
        OBVIOUS
    <2>1. DataTypes
          BY DEF Init, DataTypes, Queues
    <2>2. \A q : Where(queueSet, q) = {} /\ Cardinality(Where(queueSet, q)) = 0
          BY FS_EmptySet DEF Init, Where
    <2>3. Counts
          BY <2>2 DEF Init, Counts, Handling
    <2>4. States /\ StopLast
          BY DEF Init, States, StopLast, Handling
    <2>5. Consecutive
          BY DEF Init, Consecutive, Queues
    <2> QED
        BY <2>1, <2>3, <2>4, <2>5, InitPhase DEF WorkerInv
<1>2. WorkerInv /\ [Next]_vars => WorkerInv'
      BY NextPhase, DataTypesStep, CountsStep, StatesStep, ConsecutiveStep, StopLastStep
         DEF WorkerInv
<1> QED
    BY <1>1, <1>2, PTL DEF Spec

\* SetMatchesQueues: the queue set accounts for every item in every queue of
\* the worker, so that no item waits unnoticed and Worker::task never finds
\* the selected queue empty.
THEOREM SetSafe == Spec => []SetMatchesQueues
<1>1. WorkerInv => SetMatchesQueues
      BY DEF WorkerInv, Counts, SetMatchesQueues, Held, Where, Handling
<1> QED
    BY <1>1, WorkerInductive, PTL

\* StopAfterCommands: commands are handled in the order of the calls of
\* Worker::send, and the worker stops only after the last of them.
THEOREM StopIsLast == Spec => []StopAfterCommands
<1>1. WorkerInv => StopAfterCommands
    <2> SUFFICES ASSUME WorkerInv PROVE StopAfterCommands
        OBVIOUS
    <2>1. \A i \in DOMAIN handled : handled[i] = i
          BY DEF WorkerInv, Consecutive
    <2>2. ASSUME state \in {"Stopping", "Stopped"} PROVE Len(handled) = sent
        <3>1. Len(queues["service"]) = 0
              BY <2>2 DEF WorkerInv, StopLast
        <3>2. owner # "destroyed"
              BY <2>2 DEF WorkerInv, States
        <3>3. Len(handled) + Len(queues["service"]) = sent /\ Len(handled) \in Nat
              BY <3>2 DEF WorkerInv, Consecutive, DataTypes
        <3> QED
            BY <3>1, <3>3
    <2> QED
        BY <2>1, <2>2 DEF StopAfterCommands
<1> QED
    BY <1>1, WorkerInductive, PTL
=============================================================================
