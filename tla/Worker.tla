------------------------------- MODULE Worker -------------------------------
(***************************************************************************)
(* A worker: the task a service starts beside its own thread, to wait on   *)
(* several queues at once (module-sys/Service/Worker.cpp).                 *)
(*                                                                         *)
(* Two threads: the owner, which calls init, run, send and close in this   *)
(* order, and the task.  They share the state, the queues with the queue   *)
(* set that tells the task in which order items arrived, and the join      *)
(* semaphore.  getState and setState are single steps: the mutex they take *)
(* is held for one assignment.  An assertion is compiled out of release    *)
(* builds, so a failing one is recorded and execution goes on.             *)
(***************************************************************************)
EXTENDS Naturals, Sequences, FiniteSets

CONSTANTS
    SERVICE_QUEUE_LENGTH,
    CONTROL_QUEUE_LENGTH,
    IrqQueueLength,     \* the queue an interrupt handler or a timer fills
    MaxCommands,        \* bound: calls of send
    MaxInterrupts,      \* bound: items from interrupts
    TaskCreateMayFail   \* xTaskCreate may run out of memory

ASSUME WorkerAssumption ==
    /\ SERVICE_QUEUE_LENGTH \in Nat \ {0}
    /\ CONTROL_QUEUE_LENGTH \in Nat \ {0}
    /\ IrqQueueLength \in Nat \ {0}
    /\ MaxCommands \in Nat /\ MaxInterrupts \in Nat
    /\ TaskCreateMayFail \in BOOLEAN

VARIABLES
    state,      \* Worker::state
    owner,      \* where the owner stands
    task,       \* where the task stands; "none": taskHandle is null
    queues,     \* contents of the queues
    queueSet,   \* queues with an item not yet selected, in order of arrival
    selected,   \* activeMember
    joinSemaphore,
    exists,     \* the queues, the set and the semaphores exist
    sent,       \* commands sent
    interrupts, \* items from interrupts
    handled,    \* commands handled, in order
    faults      \* assertions that failed, objects used after their deletion

vars == <<state, owner, task, queues, queueSet, selected, joinSemaphore, exists,
          sent, interrupts, handled, faults>>

State == {"New", "Initiated", "Running", "Stopping", "Stopped", "Destroyed", "Invalid"}
Queues == {"control", "service", "irq"}
Length(q) ==
    CASE q = "control" -> CONTROL_QUEUE_LENGTH
      [] q = "service" -> SERVICE_QUEUE_LENGTH
      [] q = "irq"     -> IrqQueueLength

\* A command is its number; the other queues carry ControlMessage::Stop and
\* what the interrupt says, which nothing here depends on.
Items == 0 .. MaxCommands

TypeOK ==
    /\ state \in State
    /\ owner \in {"new", "ready", "running", "join", "take", "waitdelete", "kill",
                  "deinit", "destroyed", "invalid", "deleted"}
    /\ task \in {"none", "created", "select", "handle", "give", "stopped", "delete", "deleted"}
    /\ queues \in [Queues -> Seq(Items)]
    /\ \A q \in Queues : Len(queues[q]) <= Length(q)
    /\ queueSet \in Seq(Queues)
    /\ selected \in Queues
    /\ joinSemaphore \in BOOLEAN
    /\ exists \in BOOLEAN
    /\ sent \in 0 .. MaxCommands
    /\ interrupts \in 0 .. MaxInterrupts
    /\ handled \in Seq(Items)
    /\ faults \subseteq {"start", "join", "mutex", "delete"}

Init ==
    /\ state = "New"
    /\ owner = "new"
    /\ task = "none"
    /\ queues = [q \in Queues |-> <<>>]
    /\ queueSet = <<>>
    /\ selected = "control"
    /\ joinSemaphore = FALSE
    /\ exists = FALSE
    /\ sent = 0
    /\ interrupts = 0
    /\ handled = <<>>
    /\ faults = {}

\* xQueueSend to a member of the set: the set learns of it in the same step.
Enqueue(q, item) ==
    /\ queues' = [queues EXCEPT ![q] = Append(@, item)]
    /\ queueSet' = Append(queueSet, q)

\* getState or setState: takes stateMutex, which has to exist.
MutexFault == IF exists THEN {} ELSE {"mutex"}

-----------------------------------------------------------------------------
(***************************************************************************)
(* The owner.                                                              *)
(***************************************************************************)

data == <<queues, queueSet, selected, joinSemaphore, exists, sent, interrupts, handled>>

\* init; the set of queues may not be available.
InitWorker ==
    /\ owner = "new"
    /\ \/ /\ exists' = TRUE
          /\ state' = "Initiated"
          /\ owner' = "ready"
       \/ /\ state' = "Invalid"
          /\ owner' = "invalid"
          /\ UNCHANGED exists
    /\ UNCHANGED <<task, queues, queueSet, selected, joinSemaphore, sent, interrupts,
                   handled, faults>>

\* run; owners do not look at what it returns.
Run ==
    /\ owner = "ready"
    /\ owner' = "running"
    /\ \/ task' = "created"
       \/ TaskCreateMayFail /\ UNCHANGED task
    /\ UNCHANGED <<state, data, faults>>

\* send: blocks while the queue is full.
Send ==
    /\ owner = "running"
    /\ sent < MaxCommands
    /\ Len(queues["service"]) < Length("service")
    /\ faults' = faults \cup (IF state = "Running" THEN {} ELSE {"start"})
    /\ Enqueue("service", sent + 1)
    /\ sent' = sent + 1
    /\ UNCHANGED <<state, owner, task, selected, joinSemaphore, exists, interrupts, handled>>

\* close calls stop ...
Stop ==
    /\ owner = "running"
    /\ Len(queues["control"]) < Length("control")
    /\ faults' = faults \cup (IF state = "Running" THEN {} ELSE {"start"})
    /\ Enqueue("control", 0)
    /\ owner' = "join"
    /\ UNCHANGED <<state, task, selected, joinSemaphore, exists, sent, interrupts, handled>>

\* ... then join, which asserts Running or Stopped ...
Join ==
    /\ owner = "join"
    /\ faults' = faults \cup (IF state \in {"Running", "Stopped"} THEN {} ELSE {"join"})
    /\ owner' = "take"
    /\ UNCHANGED <<state, task, data>>

\* Planted defect: join returns without waiting for the task to be deleted.
JoinTake_NoWait ==
    /\ owner = "take"
    /\ joinSemaphore
    /\ joinSemaphore' = FALSE
    /\ owner' = "deinit"
    /\ UNCHANGED <<state, task, queues, queueSet, selected, exists, sent, interrupts,
                   handled, faults>>

\* ... waits for the semaphore and then for the end of the task.
JoinTake ==
    /\ owner = "take"
    /\ joinSemaphore
    /\ joinSemaphore' = FALSE
    /\ owner' = "waitdelete"
    /\ UNCHANGED <<state, task, queues, queueSet, selected, exists, sent, interrupts,
                   handled, faults>>

JoinDeleted ==
    /\ owner = "waitdelete"
    /\ task = "deleted"
    /\ owner' = "deinit"
    /\ UNCHANGED <<state, task, data, faults>>

\* Planted defect: the wait for the semaphore has no timeout.
JoinTimeout_DeleteOnly ==
    /\ owner = "waitdelete" /\ task # "deleted"
    /\ owner' = "kill"
    /\ UNCHANGED <<state, task, data, faults>>

\* Both waits end after defaultJoinTimeout.
JoinTimeout ==
    /\ owner \in {"take", "waitdelete"}
    /\ owner = "waitdelete" => task # "deleted"
    /\ owner' = "kill"
    /\ UNCHANGED <<state, task, data, faults>>

\* kill: vTaskDelete of the task, or of the caller if the handle is null.
\* The task may have deleted itself by now.
Kill ==
    /\ owner = "kill"
    /\ \/ /\ task = "none"
          /\ owner' = "deleted"
          /\ UNCHANGED <<task, faults>>
       \/ /\ task # "none"
          /\ task' = "deleted"
          /\ faults' = faults \cup (IF task = "deleted" THEN {"delete"} ELSE {})
          /\ owner' = "deinit"
    /\ UNCHANGED <<state, data>>

\* deinit: the queues, the set and the semaphores are deleted, then setState.
Deinit ==
    /\ owner = "deinit"
    /\ exists' = FALSE
    /\ queues' = [q \in Queues |-> <<>>]
    /\ queueSet' = <<>>
    /\ faults' = faults \cup {"mutex"}
    /\ state' = "Destroyed"
    /\ owner' = "destroyed"
    /\ UNCHANGED <<task, selected, joinSemaphore, sent, interrupts, handled>>

-----------------------------------------------------------------------------
(***************************************************************************)
(* Interrupts and the task.                                                *)
(***************************************************************************)

\* An item is dropped when its queue is full: EnqueueFromISR fails.
Interrupt ==
    /\ exists
    /\ interrupts < MaxInterrupts
    /\ interrupts' = interrupts + 1
    /\ IF Len(queues["irq"]) < Length("irq") THEN Enqueue("irq", 0)
       ELSE UNCHANGED <<queues, queueSet>>
    /\ UNCHANGED <<state, owner, task, selected, joinSemaphore, exists, sent, handled, faults>>

\* taskAdapter
TaskStart ==
    /\ task = "created"
    /\ state' = "Running"
    /\ task' = "select"
    /\ faults' = faults \cup MutexFault
    /\ UNCHANGED <<owner, data>>

\* Planted defect: the control queue is looked at before the set.
TaskSelect_ControlFirst ==
    /\ task = "select" /\ state = "Running"
    /\ queueSet # <<>>
    /\ IF queues["control"] # <<>>
       THEN selected' = "control" /\ queueSet' = SelectSeq(queueSet, LAMBDA q : q # "control")
       ELSE selected' = Head(queueSet) /\ queueSet' = Tail(queueSet)
    /\ task' = "handle"
    /\ UNCHANGED <<state, owner, queues, joinSemaphore, exists, sent, interrupts, handled, faults>>

\* xQueueSelectFromSet returns the queue whose item came first.
TaskSelect ==
    /\ task = "select" /\ state = "Running"
    /\ queueSet # <<>>
    /\ selected' = Head(queueSet)
    /\ queueSet' = Tail(queueSet)
    /\ task' = "handle"
    /\ UNCHANGED <<state, owner, queues, joinSemaphore, exists, sent, interrupts, handled, faults>>

\* handleControlMessage
TaskControl ==
    /\ task = "handle" /\ selected = "control"
    /\ queues' = [queues EXCEPT !["control"] = Tail(@)]
    /\ state' = "Stopping"
    /\ task' = "select"
    /\ faults' = faults \cup MutexFault
    /\ UNCHANGED <<owner, queueSet, selected, joinSemaphore, exists, sent, interrupts, handled>>

\* Planted defect: the handler drains its queue.
TaskHandle_Drain ==
    /\ task = "handle" /\ selected # "control"
    /\ queues' = [queues EXCEPT ![selected] = <<>>]
    /\ handled' = IF selected = "service" THEN handled \o queues["service"] ELSE handled
    /\ task' = "select"
    /\ UNCHANGED <<state, owner, queueSet, selected, joinSemaphore, exists, sent, interrupts, faults>>

\* handleMessage of the derived class takes one item from the queue.
TaskHandle ==
    /\ task = "handle" /\ selected # "control"
    /\ queues' = [queues EXCEPT ![selected] = Tail(@)]
    /\ handled' = IF selected = "service" THEN Append(handled, Head(queues["service"]))
                  ELSE handled
    /\ task' = "select"
    /\ UNCHANGED <<state, owner, queueSet, selected, joinSemaphore, exists, sent, interrupts, faults>>

\* The end of task: the semaphore first, then the state, then the deletion.
TaskGive ==
    /\ task = "select" /\ state # "Running"
    /\ joinSemaphore' = TRUE
    /\ task' = "stopped"
    /\ faults' = faults \cup MutexFault
    /\ UNCHANGED <<state, owner, queues, queueSet, selected, exists, sent, interrupts, handled>>

TaskStopped ==
    /\ task = "stopped"
    /\ state' = "Stopped"
    /\ task' = "delete"
    /\ faults' = faults \cup MutexFault
    /\ UNCHANGED <<owner, data>>

TaskDelete ==
    /\ task = "delete"
    /\ task' = "deleted"
    /\ UNCHANGED <<state, owner, data, faults>>

-----------------------------------------------------------------------------

OwnerStep ==
    \/ InitWorker
    \/ Run
    \/ Send
    \/ Stop
    \/ Join
    \/ JoinTake
    \/ JoinDeleted
    \/ JoinTimeout
    \/ Kill
    \/ Deinit

TaskStep ==
    \/ TaskStart
    \/ TaskSelect
    \/ TaskControl
    \/ TaskHandle
    \/ TaskGive
    \/ TaskStopped
    \/ TaskDelete

Next == OwnerStep \/ TaskStep \/ Interrupt

Spec == Init /\ [][Next]_vars

\* The owner runs on while it closes; the task may be stuck in a handler.
FairSpec == Spec /\ WF_vars(Join \/ JoinTake \/ JoinDeleted \/ JoinTimeout \/ Kill \/ Deinit)

-----------------------------------------------------------------------------
(***************************************************************************)
(* Properties.                                                             *)
(***************************************************************************)

\* deinit deletes queues, semaphores and mutex only when the task that uses
\* them is no more: join waits for eDeleted after the semaphore, since the
\* task still sets the state between giving it and its end.
ResourcesOutliveTask ==
    exists \/ task \in {"none", "deleted"}

\* What is selected or still in the set accounts for every item in every
\* queue, so that no item waits unnoticed and no select finds an empty queue.
Held(q) ==
    Cardinality({i \in DOMAIN queueSet : queueSet[i] = q})
      + IF task = "handle" /\ selected = q THEN 1 ELSE 0
SetMatchesQueues ==
    task # "deleted" => \A q \in Queues : Len(queues[q]) = Held(q)

\* Commands are handled in the order they were sent, and a task that stops
\* because it was told to has handled all that were sent before.
StopAfterCommands ==
    /\ \A i \in DOMAIN handled : handled[i] = i
    /\ state \in {"Stopping", "Stopped"} => Len(handled) = sent

\* If run has created the task, close returns, after deinit, although the task
\* never looks at its queues again.  Without a task it does not: kill deletes
\* its caller, which is then not even "destroyed".
CloseReturns == owner = "join" /\ task # "none" ~> owner = "destroyed"
=============================================================================
