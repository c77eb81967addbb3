-------------------------- MODULE AbstractMailbox --------------------------
(***************************************************************************)
(* What a mailbox promises to the bus and to the message loop of a service *)
(* (module-sys/Service/include/Service/Mailbox.hpp): a first-in first-out  *)
(* queue with many writers and one reader.  A push and a pop are single    *)
(* steps; a pop with a time limit may return with nothing, even though a   *)
(* message has just come; a pop that can return does return.               *)
(***************************************************************************)
EXTENDS Naturals, Sequences

CONSTANTS Items,     \* what is pushed
          NoItem     \* the nullptr of a pop that timed out

VARIABLES queue,     \* the messages
          reader,    \* "idle", or in a pop: "forever", "limited"
          result     \* what the last pop returned

vars == <<queue, reader, result>>

TypeOK ==
    /\ queue \in Seq(Items)
    /\ reader \in {"idle", "forever", "limited"}
    /\ result \in Items \cup {NoItem}

Init == queue = <<>> /\ reader = "idle" /\ result = NoItem

Push(item) ==
    /\ queue' = Append(queue, item)
    /\ UNCHANGED <<reader, result>>

StartPop ==
    /\ reader = "idle"
    /\ reader' \in {"forever", "limited"}
    /\ UNCHANGED <<queue, result>>

PopItem ==
    /\ reader # "idle"
    /\ queue # <<>>
    /\ result' = Head(queue)
    /\ queue' = Tail(queue)
    /\ reader' = "idle"

PopNothing ==
    /\ reader = "limited"
    /\ result' = NoItem
    /\ reader' = "idle"
    /\ UNCHANGED queue

Next ==
    \/ \E item \in Items : Push(item)
    \/ StartPop
    \/ PopItem
    \/ PopNothing

Spec == Init /\ [][Next]_vars

\* A pop returns if there is a message or a time limit.
FairSpec == Spec /\ WF_vars(PopItem \/ PopNothing)
=============================================================================
