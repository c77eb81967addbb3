------------------------------ MODULE Mailbox ------------------------------
(***************************************************************************)
(* The mailbox of a service: a deque under a mutex, and a condition        *)
(* variable made of a list of waiting threads and one binary semaphore per *)
(* thread.                                                                 *)
(*                                                                         *)
(*   module-sys/Service/include/Service/Mailbox.hpp                        *)
(*   module-os/RTOSWrapper/ccondition_variable.cpp, cthread.cpp            *)
(*                                                                         *)
(* Every thread may push; only the thread of the service pops.  The        *)
(* service pushes to its own mailbox too, between two pops (Bus.cpp,       *)
(* restoreMessagess).  A wait that timed out leaves its entry in the list, *)
(* and the semaphore may be given when nobody waits.                       *)
(***************************************************************************)
EXTENDS Naturals, Sequences, FiniteSets

CONSTANTS Thread,       \* the thread of the service, the only one that pops
          Others,       \* threads that push
          None,         \* no owner of the mutex
          MaxItems,     \* bound: messages pushed
          MaxTimeouts   \* bound: waits that run out

ASSUME MailboxAssumption ==
    /\ Thread \notin Others
    /\ None \notin Others \cup {Thread}
    /\ MaxItems \in Nat
    /\ MaxTimeouts \in Nat

VARIABLES queue_,         \* Mailbox::queue_
          mutex_,         \* owner of Mailbox::mutex_
          WaitList,       \* ConditionVariable::WaitList
          ThreadWaitSem,  \* Thread::ThreadWaitSem of the service
          pc,             \* where the service is in pop
          limited,        \* history: this pop has a time limit
          result,         \* what the last pop returned, 0 for nullptr
          push,           \* where each thread is in push
          item,           \* what each thread pushes
          pushed,         \* number of pushes begun
          timedOut        \* number of waits that ran out

mailboxVars == <<queue_, mutex_, WaitList, ThreadWaitSem, pc, limited, result,
          push, item, pushed, timedOut>>
reader == <<pc, limited, result, timedOut>>
writers == <<push, item, pushed>>

Pushers == Others \cup {Thread}
NoItem == 0
Items == 1..MaxItems

\* The critical sections of mutex_.
Locked(p) == push[p] = "append" \/ (p = Thread /\ pc \in {"check", "unlock"})

\* The variables have their types and the mutex is held by the thread that
\* is inside a critical section of push or pop.
MailboxTypeOK ==
    /\ queue_ \in Seq(Items)
    /\ mutex_ \in Pushers \cup {None}
    /\ WaitList \in Seq({Thread})
    /\ ThreadWaitSem \in BOOLEAN
    /\ pc \in {"idle", "lock", "check", "unlock", "take", "signaled", "expired"}
    /\ limited \in BOOLEAN
    /\ result \in Items \cup {NoItem}
    /\ push \in [Pushers -> {"idle", "lock", "append", "signal"}]
    /\ item \in [Pushers -> Items \cup {NoItem}]
    /\ pushed \in 0..MaxItems
    /\ timedOut \in 0..MaxTimeouts
    /\ \A p \in Pushers : Locked(p) <=> mutex_ = p

MailboxInit ==
    /\ queue_ = <<>>
    /\ mutex_ = None
    /\ WaitList = <<>>
    /\ ThreadWaitSem = FALSE
    /\ pc = "idle"
    /\ limited = FALSE
    /\ result = NoItem
    /\ push = [p \in Pushers |-> "idle"]
    /\ item = [p \in Pushers |-> NoItem]
    /\ pushed = 0
    /\ timedOut = 0

-----------------------------------------------------------------------------
(***************************************************************************)
(* push.                                                                   *)
(***************************************************************************)

BeginPush(p) ==
    /\ push[p] = "idle"
    /\ p = Thread => pc = "idle"
    /\ pushed < MaxItems
    /\ pushed' = pushed + 1
    /\ item' = [item EXCEPT ![p] = pushed + 1]
    /\ push' = [push EXCEPT ![p] = "lock"]
    /\ UNCHANGED <<queue_, mutex_, WaitList, ThreadWaitSem, reader>>

PushLock(p) ==
    /\ push[p] = "lock"
    /\ mutex_ = None
    /\ mutex_' = p
    /\ push' = [push EXCEPT ![p] = "append"]
    /\ UNCHANGED <<queue_, WaitList, ThreadWaitSem, reader, item, pushed>>

\* Planted defect: the message is put in front.
PushAppend_Front(p) ==
    /\ push[p] = "append"
    /\ queue_' = <<item[p]>> \o queue_
    /\ mutex_' = None
    /\ push' = [push EXCEPT ![p] = "signal"]
    /\ UNCHANGED <<WaitList, ThreadWaitSem, reader, item, pushed>>

\* push_back and Unlock.
PushAppend(p) ==
    /\ push[p] = "append"
    /\ queue_' = Append(queue_, item[p])
    /\ mutex_' = None
    /\ push' = [push EXCEPT ![p] = "signal"]
    /\ UNCHANGED <<WaitList, ThreadWaitSem, reader, item, pushed>>

\* Planted defect: the entry of the woken thread stays in the list.
Signal_Keep ==
    /\ ThreadWaitSem' = (ThreadWaitSem \/ WaitList # <<>>)
    /\ UNCHANGED WaitList

\* Planted defect: a signal that comes before the thread blocks is lost.
Signal_NoMemory ==
    /\ ThreadWaitSem' = (ThreadWaitSem \/ (WaitList # <<>> /\ pc = "take"))
    /\ WaitList' = IF WaitList = <<>> THEN <<>> ELSE Tail(WaitList)

\* ConditionVariable::Signal: under the lock of the condition variable the
\* first entry is removed and the semaphore of its thread given.
Signal ==
    /\ ThreadWaitSem' = (ThreadWaitSem \/ WaitList # <<>>)
    /\ WaitList' = IF WaitList = <<>> THEN <<>> ELSE Tail(WaitList)

PushSignal(p) ==
    /\ push[p] = "signal"
    /\ Signal
    /\ push' = [push EXCEPT ![p] = "idle"]
    /\ item' = [item EXCEPT ![p] = NoItem]
    /\ UNCHANGED <<queue_, mutex_, reader, pushed>>

-----------------------------------------------------------------------------
(***************************************************************************)
(* pop.                                                                    *)
(***************************************************************************)

BeginPop ==
    /\ pc = "idle"
    /\ push[Thread] = "idle"
    /\ pc' = "lock"
    /\ limited' \in BOOLEAN
    /\ limited' => timedOut < MaxTimeouts
    /\ UNCHANGED <<queue_, mutex_, WaitList, ThreadWaitSem, result, timedOut,
                   writers>>

PopLock ==
    /\ pc = "lock"
    /\ mutex_ = None
    /\ mutex_' = Thread
    /\ pc' = "check"
    /\ UNCHANGED <<queue_, WaitList, ThreadWaitSem, limited, result, timedOut,
                   writers>>

\* The queue is not empty: take the first message, and ~LockGuard.
PopFront ==
    /\ pc = "check"
    /\ queue_ # <<>>
    /\ result' = Head(queue_)
    /\ queue_' = Tail(queue_)
    /\ mutex_' = None
    /\ pc' = "idle"
    /\ UNCHANGED <<WaitList, ThreadWaitSem, limited, timedOut, writers>>

\* The queue is empty: Thread::Wait begins with AddToWaitList.
PopAddToWaitList ==
    /\ pc = "check"
    /\ queue_ = <<>>
    /\ WaitList' = Append(WaitList, Thread)
    /\ pc' = "unlock"
    /\ UNCHANGED <<queue_, mutex_, ThreadWaitSem, limited, result, timedOut,
                   writers>>

PopUnlock ==
    /\ pc = "unlock"
    /\ mutex_' = None
    /\ pc' = "take"
    /\ UNCHANGED <<queue_, WaitList, ThreadWaitSem, limited, result, timedOut,
                   writers>>

\* ThreadWaitSem.Take: a semaphore given before the wait counts as well.
PopTake ==
    /\ pc = "take"
    /\ ThreadWaitSem
    /\ ThreadWaitSem' = FALSE
    /\ pc' = "signaled"
    /\ UNCHANGED <<queue_, mutex_, WaitList, limited, result, timedOut, writers>>

\* Planted defect: pop waits without its time limit.
PopTimeout_Forever == FALSE /\ UNCHANGED mailboxVars

\* The time runs out.  The entry stays in WaitList.
PopTimeout ==
    /\ pc = "take"
    /\ limited
    /\ ~ThreadWaitSem
    /\ timedOut' = timedOut + 1
    /\ pc' = "expired"
    /\ UNCHANGED <<queue_, mutex_, WaitList, ThreadWaitSem, limited, result,
                   writers>>

\* Wait locks the mutex again; signaled, pop tests the queue once more.
PopRelock ==
    /\ pc = "signaled"
    /\ mutex_ = None
    /\ mutex_' = Thread
    /\ pc' = "check"
    /\ UNCHANGED <<queue_, WaitList, ThreadWaitSem, limited, result, timedOut,
                   writers>>

\* Expired, pop locks and returns nullptr at once, without a look at the
\* queue; ~LockGuard drops the lock.
PopReturnNull ==
    /\ pc = "expired"
    /\ mutex_ = None
    /\ result' = NoItem
    /\ pc' = "idle"
    /\ UNCHANGED <<queue_, mutex_, WaitList, ThreadWaitSem, limited, timedOut,
                   writers>>

PushStep(p) == PushLock(p) \/ PushAppend(p) \/ PushSignal(p)
PopStep ==
    \/ PopLock
    \/ PopFront
    \/ PopAddToWaitList
    \/ PopUnlock
    \/ PopTake
    \/ PopTimeout
    \/ PopRelock
    \/ PopReturnNull

MailboxNext ==
    \/ \E p \in Pushers : BeginPush(p) \/ PushStep(p)
    \/ BeginPop
    \/ PopStep

MailboxSpec == MailboxInit /\ [][MailboxNext]_mailboxVars

\* Threads that are inside push or pop are scheduled.  A mutex is held for a
\* few statements and messages are finite, so weak fairness is enough.
MailboxFairSpec == MailboxSpec /\ WF_mailboxVars(PopStep) /\ \A p \in Pushers : WF_mailboxVars(PushStep(p))

-----------------------------------------------------------------------------
(***************************************************************************)
(* Properties.                                                             *)
(***************************************************************************)

\* Waiting for the semaphore, or about to.
Waiting == pc \in {"unlock", "take"}

\* No lost wake-up: a service that waits although its mailbox is not empty
\* has been signaled, or somebody is on the way to Signal and will find an
\* entry for it, whatever stale entries and old signals there are.
NoLostWakeup ==
    Waiting /\ ~ThreadWaitSem =>
        /\ WaitList # <<>>
        /\ queue_ # <<>> => \E p \in Pushers : push[p] = "signal"

\* The wait list holds one entry per wait that ran out besides the one of
\* the present wait: it grows with every blocking call that times out and
\* shrinks only with later messages, never by itself.
StaleOnlyFromTimeouts ==
    Len(WaitList) <= timedOut + IF Waiting THEN 1 ELSE 0

\* The mailbox is the abstract one: a message is in the queue from
\* push_back to pop_front.
Abstract == INSTANCE AbstractMailbox WITH
    queue  <- queue_,
    reader <- IF pc = "idle" THEN "idle"
              ELSE IF limited THEN "limited" ELSE "forever"

\* The mailbox implements the queue the bus relies on: messages leave in
\* the order in which they were appended, none is lost when a pop times
\* out (Mailbox.hpp push and pop).
ImplementsQueue == Abstract!Spec

\* It does so with its fairness: a pop returns when there is a message for it
\* or when it has a time limit, although the wake-up may be meant for an
\* earlier wait (Thread::Wait).
PopReturns == Abstract!FairSpec
=============================================================================
