-------------------------- MODULE ServiceBusProofs --------------------------
(***************************************************************************)
(* Proofs about ServiceBus for any number of services, requests, group     *)
(* sends and starts.                                                       *)
(***************************************************************************)
EXTENDS ServiceBus, FiniteSetTheorems, TLAPS

\* The elements of a sequence after Append.
LEMMA ElemsAppend ==
    ASSUME NEW S, NEW q \in Seq(S), NEW e \in S
    PROVE  /\ Append(q, e) \in Seq(S)
           /\ Elems(Append(q, e)) = Elems(q) \cup {e}
<1>1. /\ Append(q, e) \in Seq(S)
      /\ DOMAIN Append(q, e) = 1 .. (Len(q) + 1)
      /\ DOMAIN q = 1 .. Len(q)
      /\ Len(q) \in Nat
      /\ Append(q, e)[Len(q) + 1] = e
      /\ \A i \in 1 .. Len(q) : Append(q, e)[i] = q[i]
  OBVIOUS
<1>2. \A i \in 1 .. (Len(q) + 1) : i \in 1 .. Len(q) \/ i = Len(q) + 1
  BY <1>1
<1>3. Elems(Append(q, e)) \subseteq Elems(q) \cup {e}
  BY <1>1, <1>2 DEF Elems
<1>4. Elems(q) \cup {e} \subseteq Elems(Append(q, e))
  <2>1. Len(q) + 1 \in DOMAIN Append(q, e)
    BY <1>1
  <2>2. \A i \in 1 .. Len(q) : i \in 1 .. (Len(q) + 1)
    BY <1>1
  <2> QED
    BY <1>1, <2>1, <2>2 DEF Elems
<1> QED
  BY <1>1, <1>3, <1>4

\* Taking the head of a non-empty sequence adds no elements.
LEMMA ElemsHeadTail ==
    ASSUME NEW S, NEW q \in Seq(S), q # <<>>
    PROVE  /\ Head(q) \in S
           /\ Tail(q) \in Seq(S)
           /\ Head(q) \in Elems(q)
           /\ Elems(Tail(q)) \subseteq Elems(q)
  BY DEF Elems

\* The elements of a sequence over S are in S.
LEMMA ElemsType ==
    ASSUME NEW S, NEW q \in Seq(S)
    PROVE  Elems(q) \subseteq S
  BY DEF Elems

\* An empty mailbox holds no message.
LEMMA ElemsEmpty == Elems(<<>>) = {}
  BY DEF Elems

-----------------------------------------------------------------------------
(***************************************************************************)
(* Type correctness.                                                       *)
(***************************************************************************)

\* Pushing a message to some services keeps the mailboxes well typed.
LEMMA PushType ==
    ASSUME NEW box \in [Services -> Seq(Message)], NEW T, NEW m \in Message
    PROVE  Push(box, T, m) \in [Services -> Seq(Message)]
  BY ElemsAppend DEF Push

\* It adds the message to the mailboxes of these services only.
LEMMA PushElems ==
    \A box \in [Services -> Seq(Message)] : \A m \in Message : \A T : \A x \in Services :
        /\ x \in T => Elems(Push(box, T, m)[x]) = Elems(box[x]) \cup {m}
        /\ x \notin T => Push(box, T, m)[x] = box[x]
<1> SUFFICES ASSUME NEW box \in [Services -> Seq(Message)], NEW m \in Message, NEW T,
                    NEW x \in Services
             PROVE  /\ x \in T => Elems(Push(box, T, m)[x]) = Elems(box[x]) \cup {m}
                    /\ x \notin T => Push(box, T, m)[x] = box[x]
  OBVIOUS
<1>1. box[x] \in Seq(Message)
  OBVIOUS
<1>2. Elems(Append(box[x], m)) = Elems(box[x]) \cup {m}
  BY <1>1, ElemsAppend
<1>3. Push(box, T, m)[x] = IF x \in T THEN Append(box[x], m) ELSE box[x]
  BY DEF Push
<1> QED
  BY <1>2, <1>3

\* Recording a push in the history keeps the history well typed.
LEMMA MarkPendingType ==
    ASSUME TypeOK, NEW T, NEW m \in Message
    PROVE  MarkPending(T, m) \in [Services -> SUBSET Message]
  BY DEF TypeOK, MarkPending

\* What TypeOK needs to be inductive: uniIDs are handed out no faster than
\* requests are sent, and a waiting service has a request.
TypeInv ==
    /\ TypeOK
    /\ unicastMsgId <= sentRequests
    /\ \A s \in Services : pc[s] \in {"wait", "restore"} => call[s].msg \in Message

\* A request made within the bounds of the counters is a message.
LEMMA RequestType ==
    ASSUME TypeInv, sentRequests < MaxRequests, NEW s \in Services, NEW type \in Type
    PROVE  /\ UnicastRequest(s, type) \in Message
           /\ \A tt \in TransmissionType : Request(s, type, tt, invalidMessageUid) \in Message
  BY ServiceBusAssumption DEF TypeInv, TypeOK, UnicastRequest, Request, Message, Type,
     TransmissionType, invalidMessageUid

\* The counters of a new request stay within their bounds.
LEMMA CountersType ==
    ASSUME TypeInv, NewUnicast \/ NewGroupSend
    PROVE  /\ sentRequests' \in 0 .. MaxRequests
           /\ unicastMsgId' \in 0 .. MaxRequests
           /\ unicastMsgId' <= sentRequests'
           /\ groupSends' \in Nat /\ starts' \in Nat
  BY ServiceBusAssumption DEF TypeInv, TypeOK, NewUnicast, NewGroupSend

\* What Bus::SendResponse builds from a message is a message.
LEMMA ResponseType ==
    ASSUME NEW s \in Services, NEW type \in Type, NEW m \in Message
    PROVE  Response(s, type, m) \in Message
  BY ServiceBusAssumption DEF Response, Message, TransmissionType, invalidMessageUid

\* The values that stand for no result and for no call are well typed.
LEMMA NoResultType == NoResult \in SendResult /\ NoCall \in [msg : Message \cup {NoMsg}, target : Services]
  BY ServiceBusAssumption DEF NoResult, SendResult, Codes, NoCall

\* The initial state is well typed.
LEMMA InitTypeInv == Init => TypeInv
<1> SUFFICES ASSUME Init PROVE TypeInv
  OBVIOUS
<1>1. <<>> \in Seq(Message)
  OBVIOUS
<1>2. TypeOK
  BY <1>1, ServiceBusAssumption, NoResultType DEF Init, TypeOK
<1> QED
  BY <1>2, ServiceBusAssumption DEF Init, TypeInv

\* The end of Service::processBus, with its response if there is one, keeps the
\* state well typed.
LEMMA FinishType ==
    ASSUME TypeInv, NEW s \in Services, Executing(s),
           NEW type \in Type \cup {"null"}, Finish(s, type)
    PROVE  /\ mailbox' \in [Services -> Seq(Message)]
           /\ pending' \in [Services -> SUBSET Message]
           /\ pc' \in [Services -> {"off", "loop", "exec", "wait", "restore"}]
           /\ currentlyProcessing' \in [Services -> Message \cup {NoMsg}]
           /\ result' \in [Services -> SendResult]
           /\ \A x \in Services : pc'[x] \in {"wait", "restore"} => pc[x] = pc'[x]
<1> DEFINE m  == currentlyProcessing[s]
           r  == Response(s, type, m)
           to == IF type # "null" /\ Respond(s, m)
                 THEN {m.sender} \cap servicesRegistered ELSE {}
<1>1. m \in Message
  BY DEF TypeInv, TypeOK, Executing
<1>2. /\ mailbox' = Push(mailbox, to, r)
      /\ pending' = MarkPending(to, r)
      /\ pc' = [pc EXCEPT ![s] = "loop"]
      /\ currentlyProcessing' = [currentlyProcessing EXCEPT ![s] = NoMsg]
      /\ result' = [result EXCEPT ![s] = NoResult]
  BY DEF Finish
<1>3. CASE type = "null"
  <2>1. to = {}
    BY <1>3
  <2>2. mailbox' = mailbox /\ pending' = pending
    BY <1>2, <2>1 DEF TypeInv, TypeOK, Push, MarkPending
  <2> QED
    BY <1>2, <2>2, NoResultType DEF TypeInv, TypeOK
<1>4. CASE type # "null"
  <2>1. r \in Message
    BY <1>1, <1>4, ResponseType
  <2>2. /\ mailbox' \in [Services -> Seq(Message)]
        /\ pending' \in [Services -> SUBSET Message]
    <3> HIDE DEF to, r
    <3> QED
      BY <1>2, <2>1, PushType, MarkPendingType DEF TypeInv, TypeOK
  <2> QED
    BY <1>2, <2>2, NoResultType DEF TypeInv, TypeOK
<1> QED
  BY <1>3, <1>4

\* Every step keeps the state well typed.
LEMMA NextTypeInv == TypeInv /\ [Next]_vars => TypeInv'
<1> SUFFICES ASSUME TypeInv, [Next]_vars PROVE TypeInv'
  OBVIOUS
<1> USE DEF TypeInv
<1>0. <<>> \in Seq(Message)
  OBVIOUS
<1>1. ASSUME NEW s \in Services, NEW t \in Services, SendUnicast(s, t)
      PROVE  TypeInv'
  <2>1. UnicastRequest(s, "Data") \in Message
    BY <1>1, RequestType DEF SendUnicast, NewUnicast, Type
  <2>2. /\ mailbox' \in [Services -> Seq(Message)]
        /\ pending' \in [Services -> SUBSET Message]
    BY <1>1, <2>1, PushType, MarkPendingType DEF SendUnicast, TypeOK
  <2>3. NewUnicast /\ UNCHANGED threads
    BY <1>1 DEF SendUnicast
  <2> QED
    BY <2>2, <2>3, CountersType DEF threads, TypeOK
<1>2. ASSUME NEW s \in Services, SendMulticast(s)
      PROVE  TypeInv'
  <2>1. Request(s, "Data", "Multicast", invalidMessageUid) \in Message
    BY <1>2, RequestType DEF SendMulticast, NewGroupSend, Type, TransmissionType
  <2>2. /\ mailbox' \in [Services -> Seq(Message)]
        /\ pending' \in [Services -> SUBSET Message]
    BY <1>2, <2>1, PushType, MarkPendingType DEF SendMulticast, TypeOK
  <2>3. NewGroupSend /\ UNCHANGED threads
    BY <1>2 DEF SendMulticast
  <2> QED
    BY <2>2, <2>3, CountersType DEF threads, TypeOK
<1>3. ASSUME NEW s \in Services, SendBroadcast(s)
      PROVE  TypeInv'
  <2>1. Request(s, "Data", "Broadcast", invalidMessageUid) \in Message
    BY <1>3, RequestType DEF SendBroadcast, NewGroupSend, Type, TransmissionType
  <2>2. /\ mailbox' \in [Services -> Seq(Message)]
        /\ pending' \in [Services -> SUBSET Message]
    BY <1>3, <2>1, PushType, MarkPendingType DEF SendBroadcast, TypeOK
  <2>3. NewGroupSend /\ UNCHANGED threads
    BY <1>3 DEF SendBroadcast
  <2> QED
    BY <2>2, <2>3, CountersType DEF threads, TypeOK
<1>4. ASSUME NEW s \in Services, NEW t \in Services, NEW type \in SyncTypes(s),
             SendUnicastSync(s, t, type)
      PROVE  TypeInv'
  <2> DEFINE m == UnicastRequest(s, type)
  <2>1. m \in Message
    BY <1>4, RequestType DEF SendUnicastSync, NewUnicast, SyncTypes, Type
  <2>2. /\ sentRequests' \in 0 .. MaxRequests
        /\ unicastMsgId' \in 0 .. MaxRequests
        /\ unicastMsgId' <= sentRequests'
        /\ groupSends' \in Nat /\ starts' \in Nat
    BY <1>4, CountersType DEF SendUnicastSync
  <2>3. CASE t \in servicesRegistered
    <3>1. /\ mailbox' \in [Services -> Seq(Message)]
          /\ pending' \in [Services -> SUBSET Message]
      <4>1. /\ mailbox' = Push(mailbox, {t}, m)
            /\ pending' = MarkPending({t}, m)
        BY <1>4, <2>3 DEF SendUnicastSync
      <4> HIDE DEF m
      <4> QED
        BY <2>1, <4>1, PushType, MarkPendingType DEF TypeOK
    <3>2. /\ call' = [call EXCEPT ![s] = [msg |-> m, target |-> t]]
          /\ tempMsg' = [tempMsg EXCEPT ![s] = <<>>]
          /\ pc' = [pc EXCEPT ![s] = "wait"]
          /\ UNCHANGED result
      BY <1>4, <2>3 DEF SendUnicastSync
    <3> HIDE DEF m
    <3> QED
      BY <1>0, <1>4, <2>1, <2>2, <3>1, <3>2 DEF SendUnicastSync, TypeOK
  <2>4. CASE t \notin servicesRegistered
    <3>1. [code |-> "ServiceDoesntExist", msg |-> NoMsg, req |-> m.req, target |-> t]
             \in SendResult
      BY <2>1 DEF Message, SendResult, Codes
    <3>2. /\ result' = [result EXCEPT ![s] =
                 [code |-> "ServiceDoesntExist", msg |-> NoMsg, req |-> m.req, target |-> t]]
          /\ UNCHANGED <<mailbox, pending, call, tempMsg, pc>>
      BY <1>4, <2>4 DEF SendUnicastSync
    <3> HIDE DEF m
    <3> QED
      BY <1>4, <2>2, <3>1, <3>2 DEF SendUnicastSync, TypeOK
  <2> QED
    BY <2>3, <2>4
<1>5. ASSUME NEW s \in Services, StartService(s)
      PROVE  TypeInv'
  BY <1>0, <1>5, NoResultType DEF StartService, TypeOK
<1>6. ASSUME NEW s \in Services, ProcessBus(s)
      PROVE  TypeInv'
  <2>1. Head(mailbox[s]) \in Message /\ Tail(mailbox[s]) \in Seq(Message)
    BY <1>6, ElemsHeadTail DEF ProcessBus, TypeOK
  <2> QED
    BY <1>6, <2>1 DEF ProcessBus, counters, TypeOK
<1>7. ASSUME NEW s \in Services, UnicastSyncPop(s)
      PROVE  TypeInv'
  <2> DEFINE rxmsg == Head(mailbox[s])
  <2>1. rxmsg \in Message /\ Tail(mailbox[s]) \in Seq(Message)
    BY <1>7, ElemsHeadTail DEF UnicastSyncPop, TypeOK
  <2>2. mailbox' \in [Services -> Seq(Message)]
    BY <1>7, <2>1 DEF UnicastSyncPop, TypeOK
  <2>3. call[s].msg \in Message
    BY <1>7 DEF UnicastSyncPop
  <2>4. [code |-> "Success", msg |-> rxmsg, req |-> call[s].msg.req,
         target |-> call[s].target] \in SendResult
    BY <2>1, <2>3 DEF SendResult, Codes, Message, TypeOK
  <2>5. Append(tempMsg[s], rxmsg) \in Seq(Message)
    BY <2>1, ElemsAppend DEF TypeOK
  <2>6. CASE IsAnswer(s, rxmsg)
    <3> HIDE DEF rxmsg
    <3>1. /\ ReturnSync(s, "Success", rxmsg)
          /\ pending' = [pending EXCEPT ![s] = @ \ {rxmsg}]
          /\ UNCHANGED tempMsg
      BY <1>7, <2>6 DEF UnicastSyncPop, rxmsg
    <3> QED
      BY <1>7, <2>2, <2>3, <2>4, <3>1 DEF UnicastSyncPop, ReturnSync, counters, TypeOK
  <2>7. CASE ~ IsAnswer(s, rxmsg)
    <3> HIDE DEF rxmsg
    <3>1. /\ tempMsg' = [tempMsg EXCEPT ![s] = Append(@, rxmsg)]
          /\ UNCHANGED <<result, pc, pending>>
      BY <1>7, <2>7 DEF UnicastSyncPop, rxmsg
    <3> QED
      BY <1>7, <2>2, <2>5, <3>1 DEF UnicastSyncPop, counters, TypeOK
  <2> QED
    BY <2>6, <2>7
<1>8. ASSUME NEW s \in Services, UnicastSyncTimeout(s)
      PROVE  TypeInv'
  <2>1. call[s].msg \in Message
    BY <1>8 DEF UnicastSyncTimeout
  <2>2. [code |-> "Timeout", msg |-> NoMsg, req |-> call[s].msg.req,
         target |-> call[s].target] \in SendResult
    BY <2>1 DEF SendResult, Codes, Message, TypeOK
  <2> QED
    BY <1>8, <2>1, <2>2 DEF UnicastSyncTimeout, ReturnSync, counters, TypeOK
<1>9. ASSUME NEW s \in Services, RestoreMessages(s)
      PROVE  TypeInv'
  <2>1. CASE tempMsg[s] # <<>>
    <3>1. Head(tempMsg[s]) \in Message /\ Tail(tempMsg[s]) \in Seq(Message)
      BY <2>1, ElemsHeadTail DEF TypeOK
    <3>2. Append(mailbox[s], Head(tempMsg[s])) \in Seq(Message)
      BY <3>1, ElemsAppend DEF TypeOK
    <3>3. /\ mailbox' = [mailbox EXCEPT ![s] = Append(@, Head(tempMsg[s]))]
          /\ tempMsg' = [tempMsg EXCEPT ![s] = Tail(@)]
          /\ UNCHANGED <<pc, call>>
      BY <1>9, <2>1 DEF RestoreMessages
    <3> QED
      BY <1>9, <3>1, <3>2, <3>3 DEF RestoreMessages, counters, TypeOK
  <2>2. CASE tempMsg[s] = <<>>
    <3>1. /\ pc' = [pc EXCEPT ![s] = "exec"]
          /\ call' = [call EXCEPT ![s] = NoCall]
          /\ UNCHANGED <<mailbox, tempMsg>>
      BY <1>9, <2>2 DEF RestoreMessages
    <3> QED
      BY <1>9, <3>1, NoResultType DEF RestoreMessages, counters, TypeOK
  <2> QED
    BY <2>1, <2>2
<1>10. ASSUME NEW s \in Services, HandleStart(s)
       PROVE  TypeInv'
  BY <1>10, FinishType DEF HandleStart, counters, TypeOK, Type
<1>11. ASSUME NEW s \in Services, HandleExit(s)
       PROVE  TypeInv'
  BY <1>11, FinishType DEF HandleExit, counters, TypeOK, Type
<1>12. ASSUME NEW s \in Services, HandleMessage(s)
       PROVE  TypeInv'
  <2>1. PICK type \in Outcomes(s) : Finish(s, type)
    BY <1>12 DEF HandleMessage
  <2>2. type \in Type \cup {"null"}
    BY <2>1 DEF Outcomes, Type
  <2> QED
    BY <1>12, <2>1, <2>2, FinishType DEF HandleMessage, counters, TypeOK
<1>13. ASSUME NEW s \in Services, CloseService(s)
       PROVE  TypeInv'
  BY <1>13 DEF CloseService, counters, TypeOK
<1>14. ASSUME EnterLoop
       PROVE  TypeInv'
  BY <1>14, NoResultType, ServiceBusAssumption DEF EnterLoop, counters, TypeOK
<1>15. CASE UNCHANGED vars
  BY <1>15 DEF vars, TypeOK
<1> QED
  BY <1>1, <1>2, <1>3, <1>4, <1>5, <1>6, <1>7, <1>8, <1>9, <1>10, <1>11, <1>12, <1>13,
     <1>14, <1>15 DEF Next, ThreadStep

\* The bus is type correct in every reachable state, whatever the number of
\* services and requests (ServiceBus!TypeOK).
THEOREM TypeCorrect == Spec => []TypeOK
<1>1. TypeInv => TypeOK
  BY DEF TypeInv
<1> QED
  BY <1>1, InitTypeInv, NextTypeInv, PTL DEF Spec

-----------------------------------------------------------------------------
(***************************************************************************)
(* A blocking call returns the answer to its own request.                  *)
(***************************************************************************)

\* Message m, new at service x, answers message q of service y.
Answers(x, m, y, q) ==
    /\ q \in At(y)
    /\ m.uniID = q.uniID
    /\ m.req = q.req
    /\ m.sender = y
    /\ q.sender = x

\* A message that a step may put at service x.
Admissible(x, m) ==
    \/ m \in At(x)
    \/ m.uniID = unicastMsgId /\ unicastMsgId < unicastMsgId'
    \/ m.uniID = invalidMessageUid
    \/ \E y \in Services : \E q \in At(y) : Answers(x, m, y, q)

\* Everything in the hands of a service is a message.
LEMMA AtType == TypeInv => \A x \in Services : At(x) \subseteq Message
  BY ElemsType DEF TypeInv, TypeOK, At

\* Routing is kept by a step that begins no call and puts only admissible
\* messages anywhere.
LEMMA RoutingStep ==
    ASSUME TypeInv, TypeInv', Routing,
           unicastMsgId <= unicastMsgId',
           \A s \in Services : pc'[s] = "wait" => pc[s] = "wait" /\ call'[s] = call[s],
           \A x \in Services : \A m \in At(x)' : Admissible(x, m)
    PROVE  Routing'
<1>0. /\ unicastMsgId \in Nat /\ unicastMsgId' \in Nat
      /\ unicastMsgId <= invalidMessageUid
      /\ \A x \in Services : At(x)' \subseteq Message
      /\ \A x \in Services : At(x) \subseteq Message
      /\ \A m \in Message : m.uniID \in Nat
      /\ invalidMessageUid \in Nat
  <2>1. \A x \in Services : At(x)' \subseteq Message
    BY ElemsType DEF TypeInv, TypeOK, At
  <2>2. \A x \in Services : At(x) \subseteq Message
    BY AtType
  <2>3. \A m \in Message : m.uniID \in Nat
    BY ServiceBusAssumption DEF Message
  <2> QED
    BY <2>1, <2>2, <2>3, ServiceBusAssumption DEF TypeInv, TypeOK, invalidMessageUid
<1>1. ASSUME NEW x \in Services, NEW m \in At(x)'
      PROVE  m.uniID < unicastMsgId' \/ m.uniID = invalidMessageUid
  <2>1. \/ m.uniID < unicastMsgId \/ m.uniID = invalidMessageUid
        \/ m.uniID = unicastMsgId /\ unicastMsgId < unicastMsgId'
    BY <1>1 DEF Admissible, Answers, Routing
  <2> QED
    BY <1>0, <2>1
<1>2. ASSUME NEW s \in Services, pc'[s] = "wait"
      PROVE  /\ call'[s].msg.uniID < unicastMsgId'
             /\ call'[s].msg.sender = s
             /\ call'[s].target # s
  <2>1. /\ call'[s] = call[s]
        /\ call[s].msg.uniID < unicastMsgId
        /\ call[s].msg.sender = s
        /\ call[s].target # s
        /\ call[s].msg \in Message
    BY <1>2 DEF Routing, TypeInv
  <2> QED
    BY <1>0, <2>1
<1>3. ASSUME NEW s \in Services, NEW x \in Services, NEW m \in At(x)',
             pc'[s] = "wait", m.uniID = call'[s].msg.uniID
      PROVE  /\ m.req = call'[s].msg.req
             /\ \/ x = s /\ m.sender = call'[s].target
                \/ x = call'[s].target /\ m.sender = s
  <2>1. /\ pc[s] = "wait" /\ call'[s] = call[s]
        /\ call[s].msg \in Message
        /\ call[s].msg.uniID < unicastMsgId
        /\ call[s].target \in Services
    BY <1>3 DEF Routing, TypeInv, TypeOK
  <2>2. m.uniID # unicastMsgId /\ m.uniID # invalidMessageUid
    BY <1>0, <1>3, <2>1
  <2>3. CASE m \in At(x)
    BY <1>3, <2>1, <2>3 DEF Routing
  <2>4. CASE \E y \in Services : \E q \in At(y) : Answers(x, m, y, q)
    <3>0. PICK y \in Services : \E q \in At(y) : Answers(x, m, y, q)
      BY <2>4
    <3>1. PICK q \in At(y) : Answers(x, m, y, q)
      BY <3>0
    <3>2. /\ q.req = call[s].msg.req
          /\ \/ y = s /\ q.sender = call[s].target
             \/ y = call[s].target /\ q.sender = s
      BY <1>3, <2>1, <3>1 DEF Routing, Answers
    <3> QED
      BY <2>1, <3>1, <3>2 DEF Answers
  <2> QED
    BY <2>2, <2>3, <2>4, <1>3 DEF Admissible
<1> QED
  BY <1>1, <1>2, <1>3 DEF Routing

IInv == TypeInv /\ Routing /\ SyncMatches

\* Before the first send no message exists and no call is in progress.
LEMMA InitIInv == Init => IInv
<1> SUFFICES ASSUME Init PROVE IInv
  OBVIOUS
<1>1. TypeInv
  BY InitTypeInv
<1>2. \A x \in Services : At(x) = {}
  BY ElemsEmpty DEF Init, At
<1>3. \A s \in Services : pc[s] # "wait"
  BY DEF Init
<1>4. Routing
  BY <1>2, <1>3 DEF Routing
<1>5. SyncMatches
  BY DEF Init, SyncMatches, NoResult
<1> QED
  BY <1>1, <1>4, <1>5 DEF IInv

\* A push of message m to the services in to, when nothing else moves.
LEMMA PushAt ==
    ASSUME TypeInv, NEW to, NEW m \in Message,
           mailbox' = Push(mailbox, to, m), UNCHANGED tempMsg,
           \A x \in Services : currentlyProcessing'[x] \in {currentlyProcessing[x], NoMsg}
    PROVE  \A x \in Services : \A n \in At(x)' : n \in At(x) \/ (x \in to /\ n = m)
<1>1. \A x \in Services :
         /\ x \in to => Elems(mailbox'[x]) = Elems(mailbox[x]) \cup {m}
         /\ x \notin to => mailbox'[x] = mailbox[x]
  <2>1. mailbox \in [Services -> Seq(Message)]
    BY DEF TypeInv, TypeOK
  <2>2. \A x \in Services :
           /\ x \in to => Elems(Push(mailbox, to, m)[x]) = Elems(mailbox[x]) \cup {m}
           /\ x \notin to => Push(mailbox, to, m)[x] = mailbox[x]
    BY <2>1, PushElems, Zenon
  <2> QED
    BY <2>2
<1>2. ASSUME NEW x \in Services, NEW n \in At(x)'
      PROVE  n \in At(x) \/ (x \in to /\ n = m)
  <2>1. \/ n \in Elems(mailbox'[x])
        \/ n \in Elems(tempMsg[x])
        \/ n = currentlyProcessing'[x] /\ n # NoMsg
    BY <1>2 DEF At
  <2>2. n \in Elems(mailbox'[x]) => n \in Elems(mailbox[x]) \/ (x \in to /\ n = m)
    BY <1>1
  <2>3. n = currentlyProcessing'[x] /\ n # NoMsg => n = currentlyProcessing[x]
    OBVIOUS
  <2> QED
    BY <2>1, <2>2, <2>3 DEF At
<1> QED
  BY <1>2

\* The end of a handler puts at most an answer to the executed message
\* anywhere.
LEMMA FinishAdmissible ==
    ASSUME TypeInv, NEW s \in Services, Executing(s), UNCHANGED tempMsg,
           NEW type \in Type \cup {"null"}, Finish(s, type)
    PROVE  \A x \in Services : \A n \in At(x)' : Admissible(x, n)
<1> DEFINE m  == currentlyProcessing[s]
           r  == Response(s, type, m)
           to == IF type # "null" /\ Respond(s, m)
                 THEN {m.sender} \cap servicesRegistered ELSE {}
<1>1. m \in Message /\ m \in At(s)
  BY DEF TypeInv, TypeOK, Executing, At
<1>2. mailbox' = Push(mailbox, to, r)
  BY DEF Finish
<1>3. \A x \in Services : currentlyProcessing'[x] \in {currentlyProcessing[x], NoMsg}
  BY DEF Finish, TypeInv, TypeOK
<1>4. CASE type = "null"
  <2>1. mailbox' = mailbox
    BY <1>2, <1>4 DEF Push, TypeInv, TypeOK
  <2>2. \A x \in Services : At(x)' \subseteq At(x)
    BY <1>3, <2>1 DEF At
  <2> QED
    BY <2>2 DEF Admissible
<1>5. CASE type # "null"
  <2>1. r \in Message
    BY <1>1, <1>5, ResponseType
  <2>2. \A x \in Services : \A n \in At(x)' : n \in At(x) \/ (x \in to /\ n = r)
    <3> HIDE DEF to, r
    <3> QED
      BY <1>2, <1>3, <2>1, PushAt
  <2>3. ASSUME NEW x \in Services, x \in to
        PROVE  Admissible(x, r)
    <3>1. x = m.sender
      BY <2>3
    <3>2. r.req = m.req /\ r.sender = s
      BY DEF Response
    <3>3. r.uniID = m.uniID \/ r.uniID = invalidMessageUid
      BY DEF Response
    <3> QED
      BY <1>1, <3>1, <3>2, <3>3 DEF Admissible, Answers
  <2> QED
    BY <2>2, <2>3 DEF Admissible
<1> QED
  BY <1>4, <1>5

\* A handler that ends keeps the invariant.
LEMMA FinishIInv ==
    ASSUME IInv, TypeInv', NEW s \in Services, Executing(s),
           UNCHANGED <<tempMsg, call, counters>>,
           NEW type \in Type \cup {"null"}, Finish(s, type)
    PROVE  IInv'
<1>1. \A x \in Services : \A n \in At(x)' : Admissible(x, n)
  BY FinishAdmissible DEF IInv
<1>2. \A x \in Services : pc'[x] = "wait" => pc[x] = "wait" /\ call'[x] = call[x]
  BY DEF Finish, IInv, TypeInv, TypeOK
<1>3. unicastMsgId <= unicastMsgId'
  BY DEF counters, IInv, TypeInv, TypeOK
<1>4. Routing'
  BY <1>1, <1>2, <1>3, RoutingStep DEF IInv
<1>5. SyncMatches'
  BY DEF Finish, SyncMatches, NoResult, IInv, TypeInv, TypeOK
<1> QED
  BY <1>4, <1>5 DEF IInv

\* A non-blocking send of a new message keeps the invariant.
LEMMA SendIInv ==
    ASSUME IInv, TypeInv', UNCHANGED threads, NEW to, NEW m \in Message,
           mailbox' = Push(mailbox, to, m),
           unicastMsgId <= unicastMsgId',
           \/ m.uniID = unicastMsgId /\ unicastMsgId < unicastMsgId'
           \/ m.uniID = invalidMessageUid
    PROVE  IInv'
<1>1. \A x \in Services : \A n \in At(x)' : n \in At(x) \/ (x \in to /\ n = m)
  <2>1. \A x \in Services : currentlyProcessing'[x] \in {currentlyProcessing[x], NoMsg}
    BY DEF threads
  <2> QED
    BY <2>1, PushAt DEF IInv, threads
<1>2. \A x \in Services : \A n \in At(x)' : Admissible(x, n)
  BY <1>1 DEF Admissible
<1>3. Routing'
  BY <1>2, RoutingStep DEF IInv, threads
<1>4. SyncMatches'
  BY DEF threads, SyncMatches, IInv
<1> QED
  BY <1>3, <1>4 DEF IInv

\* A blocking call begins: the new uniID is unused everywhere else.
LEMMA SyncIInv ==
    ASSUME IInv, TypeInv', NEW s \in Services, NEW t \in Services,
           NEW type \in SyncTypes(s), SendUnicastSync(s, t, type)
    PROVE  IInv'
<1> DEFINE m == UnicastRequest(s, type)
<1>0. /\ m \in Message
      /\ m.uniID = unicastMsgId
      /\ m.sender = s
      /\ unicastMsgId' = unicastMsgId + 1
      /\ unicastMsgId \in Nat
      /\ unicastMsgId < invalidMessageUid
  <2>1. sentRequests < MaxRequests /\ type \in Type
    BY DEF SendUnicastSync, NewUnicast, SyncTypes, Type
  <2>2. m \in Message
    BY <2>1, RequestType DEF IInv
  <2> QED
    BY <2>1, <2>2, ServiceBusAssumption DEF UnicastRequest, Request, SendUnicastSync,
       NewUnicast, IInv, TypeInv, TypeOK, invalidMessageUid
<1>t. /\ \A x \in Services : At(x) \subseteq Message
      /\ \A n \in Message : n.uniID \in Nat
      /\ TypeInv
      /\ invalidMessageUid \in Nat
  BY AtType, ServiceBusAssumption DEF IInv, Message, invalidMessageUid
<1>1. CASE t \notin servicesRegistered
  <2>1. \A x \in Services : At(x)' = At(x)
    BY <1>1 DEF SendUnicastSync, At
  <2>2. \A x \in Services : \A n \in At(x)' : Admissible(x, n)
    BY <2>1 DEF Admissible
  <2>3. \A x \in Services : pc'[x] = "wait" => pc[x] = "wait" /\ call'[x] = call[x]
    BY <1>1 DEF SendUnicastSync
  <2>4. unicastMsgId <= unicastMsgId'
    BY <1>0
  <2>5. Routing'
    BY <2>2, <2>3, <2>4, RoutingStep DEF IInv
  <2>6. SyncMatches'
    <3>1. /\ result'[s].code = "ServiceDoesntExist"
          /\ \A x \in Services \ {s} : result'[x] = result[x]
      BY <1>1 DEF SendUnicastSync, IInv, TypeInv, TypeOK
    <3> QED
      BY <3>1 DEF SyncMatches, IInv
  <2> QED
    BY <2>5, <2>6 DEF IInv
<1>2. CASE t \in servicesRegistered
  <2>1. /\ mailbox' = Push(mailbox, {t}, m)
        /\ call' = [call EXCEPT ![s] = [msg |-> m, target |-> t]]
        /\ tempMsg' = [tempMsg EXCEPT ![s] = <<>>]
        /\ pc' = [pc EXCEPT ![s] = "wait"]
        /\ UNCHANGED <<result, currentlyProcessing>>
        /\ t # s
    BY <1>2 DEF SendUnicastSync
  <2> HIDE DEF m
  <2>2. \A x \in Services : \A n \in At(x)' : n \in At(x) \/ (x = t /\ n = m)
    <3>1. \A x \in Services :
             /\ x \in {t} => Elems(mailbox'[x]) = Elems(mailbox[x]) \cup {m}
             /\ x \notin {t} => mailbox'[x] = mailbox[x]
      <4>1. mailbox \in [Services -> Seq(Message)]
        BY DEF IInv, TypeInv, TypeOK
      <4>2. \A x \in Services :
               /\ x \in {t} => Elems(Push(mailbox, {t}, m)[x]) = Elems(mailbox[x]) \cup {m}
               /\ x \notin {t} => Push(mailbox, {t}, m)[x] = mailbox[x]
        BY <1>0, <4>1, PushElems, Zenon
      <4> QED
        BY <2>1, <4>2
    <3>2. \A x \in Services : Elems(tempMsg'[x]) \subseteq Elems(tempMsg[x])
      <4>1. ASSUME NEW x \in Services PROVE Elems(tempMsg'[x]) \subseteq Elems(tempMsg[x])
        <5>1. CASE x = s
          BY <2>1, <5>1, ElemsEmpty DEF IInv, TypeInv, TypeOK
        <5>2. CASE x # s
          BY <2>1, <5>2 DEF IInv, TypeInv, TypeOK
        <5> QED
          BY <5>1, <5>2
      <4> QED
        BY <4>1
    <3>3. ASSUME NEW x \in Services, NEW n \in At(x)'
          PROVE  n \in At(x) \/ (x = t /\ n = m)
      <4>1. \/ n \in Elems(mailbox'[x])
            \/ n \in Elems(tempMsg'[x])
            \/ n = currentlyProcessing[x] /\ n # NoMsg
        BY <2>1, <3>3 DEF At
      <4>2. n \in Elems(mailbox'[x]) => n \in Elems(mailbox[x]) \/ (x = t /\ n = m)
        BY <3>1
      <4>3. n \in Elems(tempMsg'[x]) => n \in Elems(tempMsg[x])
        BY <3>2
      <4> QED
        BY <4>1, <4>2, <4>3 DEF At
    <3> QED
      BY <3>3
  <2>3. /\ call'[s] = [msg |-> m, target |-> t]
        /\ \A x \in Services \ {s} : call'[x] = call[x] /\ pc'[x] = pc[x]
    BY <2>1 DEF IInv, TypeInv, TypeOK
  <2>4. \A x \in Services : \A n \in At(x)' :
           n.uniID < unicastMsgId' \/ n.uniID = invalidMessageUid
    <3>1. \A x \in Services : \A n \in At(x) :
             n.uniID < unicastMsgId \/ n.uniID = invalidMessageUid
      BY DEF IInv, Routing
    <3> QED
      BY <1>0, <1>t, <2>2, <3>1
  <2>5. \A x \in Services : pc'[x] = "wait" =>
           /\ call'[x].msg.uniID < unicastMsgId'
           /\ call'[x].msg.sender = x
           /\ call'[x].target # x
    <3>1. \A x \in Services \ {s} : pc[x] = "wait" =>
             /\ call[x].msg.uniID < unicastMsgId
             /\ call[x].msg.sender = x
             /\ call[x].target # x
             /\ call[x].msg \in Message
      BY DEF IInv, Routing, TypeInv
    <3> QED
      BY <1>0, <1>t, <2>1, <2>3, <3>1
  <2>6. ASSUME NEW u \in Services, NEW x \in Services, NEW n \in At(x)',
               pc'[u] = "wait", n.uniID = call'[u].msg.uniID
        PROVE  /\ n.req = call'[u].msg.req
               /\ \/ x = u /\ n.sender = call'[u].target
                  \/ x = call'[u].target /\ n.sender = u
    <3>1. CASE u = s
      <4>1. n \notin At(x)
        BY <1>0, <1>t, <2>3, <2>6, <3>1 DEF IInv, Routing
      <4> QED
        BY <1>0, <2>2, <2>3, <3>1, <4>1
    <3>2. CASE u # s
      <4>1. /\ pc[u] = "wait" /\ call'[u] = call[u]
            /\ call[u].msg.uniID < unicastMsgId
            /\ call[u].msg \in Message
        BY <2>3, <2>6, <3>2 DEF IInv, Routing, TypeInv
      <4>2. n # m
        BY <1>0, <1>t, <2>6, <4>1
      <4> QED
        BY <2>2, <2>6, <4>1, <4>2 DEF IInv, Routing
    <3> QED
      BY <3>1, <3>2
  <2>7. Routing'
    BY <2>4, <2>5, <2>6 DEF Routing
  <2>8. SyncMatches'
    BY <2>1 DEF SyncMatches, IInv
  <2> QED
    BY <2>7, <2>8 DEF IInv
<1> QED
  BY <1>1, <1>2

\* A step that only moves messages between the places of their service, begins
\* no call and sets no result.
LEMMA QuietIInv ==
    ASSUME IInv, TypeInv', UNCHANGED <<unicastMsgId>>,
           \A x \in Services : At(x)' \subseteq At(x),
           \A x \in Services : pc'[x] = "wait" => pc[x] = "wait" /\ call'[x] = call[x],
           SyncMatches'
    PROVE  IInv'
<1>1. \A x \in Services : \A n \in At(x)' : Admissible(x, n)
  BY DEF Admissible
<1>2. unicastMsgId <= unicastMsgId'
  BY DEF IInv, TypeInv, TypeOK
<1> QED
  BY <1>1, <1>2, RoutingStep DEF IInv

\* Every step of the bus and of its services keeps the inductive invariant.
LEMMA NextIInv == IInv /\ [Next]_vars => IInv'
<1> SUFFICES ASSUME IInv, [Next]_vars PROVE IInv'
  OBVIOUS
<1>0. /\ TypeInv' /\ TypeInv
      /\ unicastMsgId \in Nat
  <2>1. TypeInv /\ TypeInv'
    BY NextTypeInv DEF IInv
  <2> QED
    BY <2>1 DEF TypeInv, TypeOK
<1>1. ASSUME NEW s \in Services, NEW t \in Services, SendUnicast(s, t)
      PROVE  IInv'
  <2>1. /\ UnicastRequest(s, "Data") \in Message
        /\ UnicastRequest(s, "Data").uniID = unicastMsgId
    BY <1>0, <1>1, RequestType DEF SendUnicast, NewUnicast, Type, UnicastRequest, Request
  <2>2. /\ mailbox' = Push(mailbox, {t} \cap servicesRegistered, UnicastRequest(s, "Data"))
        /\ UNCHANGED threads
        /\ unicastMsgId' = unicastMsgId + 1
    BY <1>1 DEF SendUnicast, NewUnicast
  <2> QED
    BY <1>0, <2>1, <2>2, SendIInv
<1>2. ASSUME NEW s \in Services, SendMulticast(s)
      PROVE  IInv'
  <2> DEFINE m == Request(s, "Data", "Multicast", invalidMessageUid)
  <2>1. m \in Message /\ m.uniID = invalidMessageUid
    BY <1>0, <1>2, RequestType DEF SendMulticast, NewGroupSend, Type, TransmissionType, Request
  <2>2. /\ mailbox' = Push(mailbox, Subscribers \cap servicesRegistered, m)
        /\ UNCHANGED threads
        /\ unicastMsgId' = unicastMsgId
    BY <1>2 DEF SendMulticast, NewGroupSend
  <2> HIDE DEF m
  <2> QED
    BY <1>0, <2>1, <2>2, SendIInv
<1>3. ASSUME NEW s \in Services, SendBroadcast(s)
      PROVE  IInv'
  <2> DEFINE m == Request(s, "Data", "Broadcast", invalidMessageUid)
  <2>1. m \in Message /\ m.uniID = invalidMessageUid
    BY <1>0, <1>3, RequestType DEF SendBroadcast, NewGroupSend, Type, TransmissionType, Request
  <2>2. /\ mailbox' = Push(mailbox, servicesRegistered, m)
        /\ UNCHANGED threads
        /\ unicastMsgId' = unicastMsgId
    BY <1>3 DEF SendBroadcast, NewGroupSend
  <2> HIDE DEF m
  <2> QED
    BY <1>0, <2>1, <2>2, SendIInv
<1>4. ASSUME NEW s \in Services, NEW t \in Services, NEW type \in SyncTypes(s),
             SendUnicastSync(s, t, type)
      PROVE  IInv'
  BY <1>0, <1>4, SyncIInv
<1>5. ASSUME NEW s \in Services, StartService(s)
      PROVE  IInv'
  <2>1. \A x \in Services : /\ Elems(mailbox'[x]) \subseteq Elems(mailbox[x])
                            /\ Elems(tempMsg'[x]) \subseteq Elems(tempMsg[x])
    <3>1. ASSUME NEW x \in Services
          PROVE  /\ Elems(mailbox'[x]) \subseteq Elems(mailbox[x])
                 /\ Elems(tempMsg'[x]) \subseteq Elems(tempMsg[x])
      <4>1. CASE x = s
        BY <1>0, <1>5, <4>1, ElemsEmpty DEF StartService, TypeInv, TypeOK
      <4>2. CASE x # s
        BY <1>0, <1>5, <4>2 DEF StartService, TypeInv, TypeOK
      <4> QED
        BY <4>1, <4>2
    <3> QED
      BY <3>1
  <2>2. \A x \in Services : At(x)' \subseteq At(x)
    BY <1>5, <2>1 DEF At, StartService
  <2>3. \A x \in Services : pc'[x] = "wait" => pc[x] = "wait" /\ call'[x] = call[x]
    BY <1>0, <1>5 DEF StartService, TypeInv, TypeOK
  <2>4. /\ result'[s].code = "None"
        /\ \A x \in Services \ {s} : result'[x] = result[x]
    BY <1>0, <1>5 DEF StartService, TypeInv, TypeOK, NoResult
  <2>5. SyncMatches'
    BY <2>4 DEF IInv, SyncMatches
  <2> QED
    BY <1>0, <1>5, <2>2, <2>3, <2>5, QuietIInv DEF StartService
<1>6. ASSUME NEW s \in Services, ProcessBus(s)
      PROVE  IInv'
  <2>1. /\ Head(mailbox[s]) \in Elems(mailbox[s])
        /\ Elems(Tail(mailbox[s])) \subseteq Elems(mailbox[s])
    BY <1>0, <1>6, ElemsHeadTail DEF ProcessBus, TypeInv, TypeOK
  <2>2. \A x \in Services : At(x)' \subseteq At(x)
    <3>1. /\ mailbox'[s] = Tail(mailbox[s])
          /\ currentlyProcessing'[s] = Head(mailbox[s])
          /\ \A x \in Services \ {s} : /\ mailbox'[x] = mailbox[x]
                                       /\ currentlyProcessing'[x] = currentlyProcessing[x]
          /\ tempMsg' = tempMsg
      BY <1>0, <1>6 DEF ProcessBus, TypeInv, TypeOK
    <3> QED
      BY <2>1, <3>1 DEF At
  <2>3. \A x \in Services : pc'[x] = "wait" => pc[x] = "wait" /\ call'[x] = call[x]
    BY <1>0, <1>6 DEF ProcessBus, TypeInv, TypeOK
  <2>4. SyncMatches'
    BY <1>6 DEF IInv, SyncMatches, ProcessBus
  <2> QED
    BY <1>0, <1>6, <2>2, <2>3, <2>4, QuietIInv DEF ProcessBus, counters
<1>7. ASSUME NEW s \in Services, UnicastSyncPop(s)
      PROVE  IInv'
  <2> DEFINE rxmsg == Head(mailbox[s])
  <2>1. /\ rxmsg \in Elems(mailbox[s]) /\ rxmsg \in Message
        /\ Elems(Tail(mailbox[s])) \subseteq Elems(mailbox[s])
        /\ mailbox'[s] = Tail(mailbox[s])
        /\ \A x \in Services \ {s} : mailbox'[x] = mailbox[x]
        /\ currentlyProcessing' = currentlyProcessing
        /\ call' = call
        /\ unicastMsgId' = unicastMsgId
    BY <1>0, <1>7, ElemsHeadTail DEF UnicastSyncPop, counters, TypeInv, TypeOK
  <2>2. CASE IsAnswer(s, rxmsg)
    <3>1. /\ result' = [result EXCEPT ![s] =
                [code |-> "Success", msg |-> rxmsg, req |-> call[s].msg.req,
                 target |-> call[s].target]]
          /\ pc' = [pc EXCEPT ![s] = "restore"]
          /\ tempMsg' = tempMsg
      BY <1>7, <2>2 DEF UnicastSyncPop, ReturnSync
    <3>2. \A x \in Services : At(x)' \subseteq At(x)
      BY <2>1, <3>1 DEF At
    <3>3. \A x \in Services : pc'[x] = "wait" => pc[x] = "wait" /\ call'[x] = call[x]
      BY <1>0, <2>1, <3>1 DEF TypeInv, TypeOK
    <3>4. rxmsg.req = call[s].msg.req /\ rxmsg.sender = call[s].target
      <4>1. pc[s] = "wait" /\ rxmsg \in At(s) /\ rxmsg.uniID = call[s].msg.uniID
        BY <1>7, <2>1, <2>2 DEF UnicastSyncPop, IsAnswer, At
      <4> HIDE DEF rxmsg
      <4> QED
        BY <4>1 DEF IInv, Routing
    <3>5. SyncMatches'
      <4> HIDE DEF rxmsg
      <4>1. /\ result'[s] = [code |-> "Success", msg |-> rxmsg, req |-> call[s].msg.req,
                             target |-> call[s].target]
            /\ \A x \in Services \ {s} : result'[x] = result[x]
        BY <1>0, <3>1 DEF TypeInv, TypeOK
      <4> QED
        BY <2>1, <3>4, <4>1, ServiceBusAssumption DEF IInv, SyncMatches
    <3> QED
      BY <1>0, <2>1, <3>2, <3>3, <3>5, QuietIInv
  <2>3. CASE ~ IsAnswer(s, rxmsg)
    <3> HIDE DEF rxmsg
    <3>1. /\ tempMsg' = [tempMsg EXCEPT ![s] = Append(@, rxmsg)]
          /\ UNCHANGED <<result, pc>>
      BY <1>7, <2>3 DEF UnicastSyncPop, rxmsg
    <3>2. Elems(Append(tempMsg[s], rxmsg)) = Elems(tempMsg[s]) \cup {rxmsg}
      BY <1>0, <2>1, ElemsAppend DEF TypeInv, TypeOK
    <3>3. /\ Elems(tempMsg'[s]) = Elems(tempMsg[s]) \cup {rxmsg}
          /\ \A x \in Services \ {s} : tempMsg'[x] = tempMsg[x]
      BY <1>0, <3>1, <3>2 DEF TypeInv, TypeOK
    <3>4. \A x \in Services : At(x)' \subseteq At(x)
      BY <2>1, <3>3 DEF At
    <3>5. SyncMatches'
      BY <3>1 DEF IInv, SyncMatches
    <3> QED
      BY <1>0, <2>1, <3>1, <3>4, <3>5, QuietIInv
  <2> QED
    BY <2>2, <2>3
<1>8. ASSUME NEW s \in Services, UnicastSyncTimeout(s)
      PROVE  IInv'
  <2>1. \A x \in Services : At(x)' \subseteq At(x)
    BY <1>8 DEF UnicastSyncTimeout, At
  <2>2. \A x \in Services : pc'[x] = "wait" => pc[x] = "wait" /\ call'[x] = call[x]
    BY <1>0, <1>8 DEF UnicastSyncTimeout, ReturnSync, TypeInv, TypeOK
  <2>3. /\ result'[s].code = "Timeout"
        /\ \A x \in Services \ {s} : result'[x] = result[x]
    BY <1>0, <1>8 DEF UnicastSyncTimeout, ReturnSync, TypeInv, TypeOK
  <2>4. SyncMatches'
    BY <2>3 DEF IInv, SyncMatches
  <2> QED
    BY <1>0, <1>8, <2>1, <2>2, <2>4, QuietIInv DEF UnicastSyncTimeout, counters
<1>9. ASSUME NEW s \in Services, RestoreMessages(s)
      PROVE  IInv'
  <2>1. SyncMatches'
    BY <1>9 DEF RestoreMessages, IInv, SyncMatches
  <2>2. \A x \in Services : pc'[x] = "wait" => pc[x] = "wait" /\ call'[x] = call[x]
    BY <1>0, <1>9 DEF RestoreMessages, TypeInv, TypeOK
  <2>3. CASE tempMsg[s] = <<>>
    <3>1. mailbox' = mailbox /\ tempMsg' = tempMsg /\ currentlyProcessing' = currentlyProcessing
      BY <1>9, <2>3 DEF RestoreMessages
    <3>2. \A x \in Services : At(x)' \subseteq At(x)
      BY <3>1 DEF At
    <3> QED
      BY <1>0, <1>9, <2>1, <2>2, <3>2, QuietIInv DEF RestoreMessages, counters
  <2>4. CASE tempMsg[s] # <<>>
    <3> DEFINE m == Head(tempMsg[s])
    <3>1. /\ m \in Message /\ m \in Elems(tempMsg[s])
          /\ Elems(Tail(tempMsg[s])) \subseteq Elems(tempMsg[s])
      BY <1>0, <2>4, ElemsHeadTail DEF TypeInv, TypeOK
    <3>2. /\ mailbox' = [mailbox EXCEPT ![s] = Append(@, m)]
          /\ tempMsg' = [tempMsg EXCEPT ![s] = Tail(@)]
          /\ currentlyProcessing' = currentlyProcessing
      BY <1>9, <2>4 DEF RestoreMessages
    <3> HIDE DEF m
    <3>3. Elems(Append(mailbox[s], m)) = Elems(mailbox[s]) \cup {m}
      BY <1>0, <3>1, ElemsAppend DEF TypeInv, TypeOK
    <3>4. /\ Elems(mailbox'[s]) = Elems(mailbox[s]) \cup {m}
          /\ Elems(tempMsg'[s]) \subseteq Elems(tempMsg[s])
          /\ \A x \in Services \ {s} : mailbox'[x] = mailbox[x] /\ tempMsg'[x] = tempMsg[x]
      BY <1>0, <3>1, <3>2, <3>3 DEF TypeInv, TypeOK
    <3>5. \A x \in Services : At(x)' \subseteq At(x)
      BY <3>1, <3>2, <3>4 DEF At
    <3> QED
      BY <1>0, <1>9, <2>1, <2>2, <3>5, QuietIInv DEF RestoreMessages, counters
  <2> QED
    BY <2>3, <2>4
<1>10. ASSUME NEW s \in Services, HandleStart(s)
       PROVE  IInv'
  BY <1>0, <1>10, FinishIInv DEF HandleStart, Type
<1>11. ASSUME NEW s \in Services, HandleExit(s)
       PROVE  IInv'
  BY <1>0, <1>11, FinishIInv DEF HandleExit, Type
<1>12. ASSUME NEW s \in Services, HandleMessage(s)
       PROVE  IInv'
  <2>1. PICK type \in Outcomes(s) : Finish(s, type)
    BY <1>12 DEF HandleMessage
  <2>2. type \in Type \cup {"null"}
    BY <2>1 DEF Outcomes, Type
  <2> QED
    BY <1>0, <1>12, <2>1, <2>2, FinishIInv DEF HandleMessage
<1>13. ASSUME NEW s \in Services, CloseService(s)
       PROVE  IInv'
  <2>1. \A x \in Services : At(x)' \subseteq At(x)
    BY <1>13 DEF CloseService, At
  <2>2. \A x \in Services : pc'[x] = "wait" => pc[x] = "wait" /\ call'[x] = call[x]
    BY <1>0, <1>13 DEF CloseService, TypeInv, TypeOK
  <2>3. SyncMatches'
    BY <1>13 DEF CloseService, IInv, SyncMatches
  <2> QED
    BY <1>0, <1>13, <2>1, <2>2, <2>3, QuietIInv DEF CloseService, counters
<1>14. ASSUME EnterLoop
       PROVE  IInv'
  <2>1. \A x \in Services : At(x)' \subseteq At(x)
    BY <1>14 DEF EnterLoop, At
  <2>2. \A x \in Services : pc'[x] = "wait" => pc[x] = "wait" /\ call'[x] = call[x]
    BY <1>0, <1>14 DEF EnterLoop, TypeInv, TypeOK
  <2>3. \A x \in Services : result'[x] = result[x] \/ result'[x].code = "None"
    BY <1>0, <1>14 DEF EnterLoop, TypeInv, TypeOK, NoResult
  <2>4. SyncMatches'
    BY <2>3 DEF IInv, SyncMatches
  <2> QED
    BY <1>0, <1>14, <2>1, <2>2, <2>4, QuietIInv DEF EnterLoop, counters
<1>15. CASE UNCHANGED vars
  <2>1. \A x \in Services : At(x)' \subseteq At(x)
    BY <1>15 DEF vars, At
  <2>2. SyncMatches'
    BY <1>15 DEF vars, IInv, SyncMatches
  <2> QED
    BY <1>0, <1>15, <2>1, <2>2, QuietIInv DEF vars
<1> QED
  BY <1>1, <1>2, <1>3, <1>4, <1>5, <1>6, <1>7, <1>8, <1>9, <1>10, <1>11, <1>12, <1>13,
     <1>14, <1>15 DEF Next, ThreadStep

\* A blocking call that succeeds returns the answer of the called service to
\* this very request, for any number of services, calls, timeouts, late
\* answers and restarts (ServiceBus!SyncMatches, Bus::UnicastSync).
THEOREM SyncCallsMatch == Spec => []SyncMatches
<1>1. IInv => SyncMatches
  BY DEF IInv
<1> QED
  BY <1>1, InitIInv, NextIInv, PTL DEF Spec

\* A uniID that a blocking call waits for is shared by no message but the
\* request of that call and its answers, and these are nowhere but with the
\* two services of the call (ServiceBus!Routing, getNext and SendResponse).
THEOREM CallsAreRouted == Spec => []Routing
<1>1. IInv => Routing
  BY DEF IInv
<1> QED
  BY <1>1, InitIInv, NextIInv, PTL DEF Spec

-----------------------------------------------------------------------------
(***************************************************************************)
(* Nothing is lost or duplicated in a mailbox.                             *)
(***************************************************************************)

\* No element comes twice.
Distinct(q) == \A i, j \in DOMAIN q : q[i] = q[j] => i = j

\* A sequence gets a new element at its end.
LEMMA DistinctAppend ==
    ASSUME NEW q \in Seq(Message), NEW e \in Message, Distinct(q), e \notin Elems(q)
    PROVE  Distinct(Append(q, e))
<1>1. PICK n \in Nat : n = Len(q) /\ DOMAIN q = 1 .. n
  OBVIOUS
<1>2. PICK r : r = Append(q, e)
  OBVIOUS
<1>3. /\ DOMAIN r = 1 .. (n + 1)
      /\ r[n + 1] = e
      /\ \A i \in 1 .. n : r[i] = q[i]
  BY <1>1, <1>2
<1>4. \A i \in 1 .. n : r[i] # e
  BY <1>1, <1>3 DEF Elems
<1>5. \A i \in 1 .. (n + 1) : i \in 1 .. n \/ i = n + 1
  BY <1>1
<1>6. ASSUME NEW i \in 1 .. (n + 1), NEW j \in 1 .. (n + 1), r[i] = r[j]
      PROVE  i = j
  <2>1. CASE i \in 1 .. n /\ j \in 1 .. n
    BY <1>1, <1>3, <1>6, <2>1 DEF Distinct
  <2>2. CASE i = n + 1 \/ j = n + 1
    BY <1>3, <1>4, <1>5, <1>6, <2>2
  <2> QED
    BY <1>5, <2>1, <2>2
<1> QED
  BY <1>2, <1>3, <1>6 DEF Distinct

\* A sequence loses its first element, and only that.
LEMMA DistinctTail ==
    ASSUME NEW q \in Seq(Message), q # <<>>, Distinct(q)
    PROVE  /\ Distinct(Tail(q))
           /\ Head(q) \notin Elems(Tail(q))
           /\ Elems(q) = Elems(Tail(q)) \cup {Head(q)}
<1>1. PICK n \in Nat : n = Len(q) /\ DOMAIN q = 1 .. n /\ n > 0
  OBVIOUS
<1>2. PICK r : r = Tail(q)
  OBVIOUS
<1>3. /\ DOMAIN r = 1 .. (n - 1)
      /\ Head(q) = q[1]
      /\ \A i \in 1 .. (n - 1) : i + 1 \in 1 .. n /\ i + 1 # 1 /\ r[i] = q[i + 1]
  BY <1>1, <1>2
<1>4. Distinct(r)
  <2>1. \A i, j \in 1 .. (n - 1) : i + 1 = j + 1 => i = j
    OBVIOUS
  <2>2. ASSUME NEW i \in 1 .. (n - 1), NEW j \in 1 .. (n - 1), r[i] = r[j]
        PROVE  i = j
    <3>1. q[i + 1] = q[j + 1] /\ i + 1 \in DOMAIN q /\ j + 1 \in DOMAIN q
      BY <1>1, <1>3, <2>2
    <3>2. i + 1 = j + 1
      BY <3>1 DEF Distinct
    <3> QED
      BY <2>1, <3>2
  <2> QED
    BY <1>3, <2>2 DEF Distinct
<1>5. 1 \in DOMAIN q
  BY <1>1
<1>6. Head(q) \notin Elems(r)
  <2> SUFFICES ASSUME NEW i \in 1 .. (n - 1), r[i] = q[1] PROVE FALSE
    BY <1>3 DEF Elems
  <2>1. q[i + 1] = q[1] /\ i + 1 \in DOMAIN q /\ i + 1 # 1
    BY <1>1, <1>3
  <2> QED
    BY <1>5, <2>1 DEF Distinct
<1>7. ASSUME NEW e \in Elems(q) PROVE e \in Elems(r) \cup {Head(q)}
  <2>1. PICK i \in 1 .. n : e = q[i]
    BY <1>1 DEF Elems
  <2>2. CASE i = 1
    BY <1>3, <2>1, <2>2
  <2>3. CASE i # 1
    <3>1. i - 1 \in 1 .. (n - 1) /\ (i - 1) + 1 = i
      BY <2>3
    <3>2. r[i - 1] = e
      BY <1>3, <2>1, <3>1
    <3> QED
      BY <1>3, <3>1, <3>2 DEF Elems
  <2> QED
    BY <2>2, <2>3
<1>8. Elems(r) \subseteq Elems(q) /\ Head(q) \in Elems(q)
  BY <1>2, ElemsHeadTail
<1> QED
  BY <1>2, <1>4, <1>6, <1>7, <1>8

\* Without repetitions the length is the number of elements.
LEMMA LenIsNumber ==
    ASSUME NEW q \in Seq(Message), Distinct(q)
    PROVE  IsFiniteSet(Elems(q)) /\ Cardinality(Elems(q)) = Len(q)
<1>1. PICK n \in Nat : n = Len(q) /\ DOMAIN q = 1 .. n
  OBVIOUS
<1>2. q \in Bijection(1 .. n, Elems(q))
  <2>1. q \in [1 .. n -> Elems(q)]
    BY <1>1 DEF Elems
  <2>2. \A i, j \in 1 .. n : q[i] = q[j] => i = j
    BY <1>1 DEF Distinct
  <2>3. \A e \in Elems(q) : \E i \in 1 .. n : q[i] = e
    BY <1>1 DEF Elems
  <2> QED
    BY <2>1, <2>2, <2>3 DEF Bijection, Injection, Surjection, IsInjective
<1>3. IsFiniteSet(1 .. n) /\ Cardinality(1 .. n) = n
  <2>1. IsFiniteSet(1 .. n) /\ Cardinality(1 .. n) = IF 1 > n THEN 0 ELSE n - 1 + 1
    BY FS_Interval
  <2>2. (IF 1 > n THEN 0 ELSE n - 1 + 1) = n
    OBVIOUS
  <2> QED
    BY <2>1, <2>2
<1>4. ExistsBijection(1 .. n, Elems(q))
  BY <1>2 DEF ExistsBijection
<1> QED
  BY <1>1, <1>3, <1>4, FS_Bijection

\* Each message pushed to a service and not yet taken, the history p, is once
\* in its mailbox b or among what was put aside t, and the message c that is
\* executed is not there.
OnceOf(b, t, c, p) ==
    /\ Distinct(b) /\ Distinct(t)
    /\ Elems(b) \cap Elems(t) = {}
    /\ c \notin Elems(b) \cup Elems(t)
    /\ Elems(b) \cup Elems(t) = p

\* A push of a message that is not there.
LEMMA OncePush ==
    ASSUME NEW b \in Seq(Message), NEW t \in Seq(Message), NEW c, NEW p,
           OnceOf(b, t, c, p), NEW m \in Message,
           m \notin Elems(b), m \notin Elems(t), m # c
    PROVE  OnceOf(Append(b, m), t, c, p \cup {m})
<1>1. PICK r : r = Append(b, m)
  OBVIOUS
<1>2. Distinct(r) /\ Elems(r) = Elems(b) \cup {m}
  BY <1>1, DistinctAppend, ElemsAppend DEF OnceOf
<1>3. OnceOf(r, t, c, p \cup {m})
  BY <1>2 DEF OnceOf
<1> QED
  BY <1>1, <1>3

\* Mailbox::pop: the message taken is the executed one, or the result of a
\* blocking call.
LEMMA OncePop ==
    ASSUME NEW b \in Seq(Message), NEW t \in Seq(Message), NEW c, NEW p,
           OnceOf(b, t, c, p), b # <<>>
    PROVE  /\ OnceOf(Tail(b), t, Head(b), p \ {Head(b)})
           /\ OnceOf(Tail(b), t, c, p \ {Head(b)})
<1>1. PICK r, h : r = Tail(b) /\ h = Head(b)
  OBVIOUS
<1>2. Distinct(r) /\ h \notin Elems(r) /\ Elems(b) = Elems(r) \cup {h}
  BY <1>1, DistinctTail DEF OnceOf
<1>3. OnceOf(r, t, h, p \ {h}) /\ OnceOf(r, t, c, p \ {h})
  BY <1>2 DEF OnceOf
<1> QED
  BY <1>1, <1>3

\* UnicastSync puts a message aside.
LEMMA OnceAside ==
    ASSUME NEW b \in Seq(Message), NEW t \in Seq(Message), NEW c, NEW p,
           OnceOf(b, t, c, p), b # <<>>
    PROVE  OnceOf(Tail(b), Append(t, Head(b)), c, p)
<1>1. PICK r, h, u : r = Tail(b) /\ h = Head(b) /\ u = Append(t, h)
  OBVIOUS
<1>2. Distinct(r) /\ h \notin Elems(r) /\ Elems(b) = Elems(r) \cup {h}
  BY <1>1, DistinctTail DEF OnceOf
<1>3. h \in Message /\ h \notin Elems(t)
  BY <1>1, <1>2 DEF OnceOf
<1>4. Distinct(u) /\ Elems(u) = Elems(t) \cup {h}
  BY <1>1, <1>3, DistinctAppend, ElemsAppend DEF OnceOf
<1>5. OnceOf(r, u, c, p)
  BY <1>2, <1>4 DEF OnceOf
<1> QED
  BY <1>1, <1>5

\* restoreMessagess pushes it back.
LEMMA OnceRestore ==
    ASSUME NEW b \in Seq(Message), NEW t \in Seq(Message), NEW c, NEW p,
           OnceOf(b, t, c, p), t # <<>>
    PROVE  OnceOf(Append(b, Head(t)), Tail(t), c, p)
<1>1. OnceOf(t, b, c, p)
  BY DEF OnceOf
<1>2. PICK r, u : r = Tail(t) /\ u = Append(b, Head(t))
  OBVIOUS
<1>3. OnceOf(r, u, c, p)
  BY <1>1, <1>2, OnceAside
<1> QED
  BY <1>2, <1>3 DEF OnceOf

OnceAt(x) == OnceOf(mailbox[x], tempMsg[x], currentlyProcessing[x], pending[x])
Once == \A x \in Services : OnceAt(x)

\* Nothing is put aside when no blocking call is in progress.
Aside == \A x \in Services : pc[x] \notin {"wait", "restore"} => tempMsg[x] = <<>>

\* Message m at service x and message n at service y belong to the exchange
\* of the same two services about the same request.
SameExchange(x, m, y, n) == m.req = n.req /\ {x, m.sender} = {y, n.sender}

\* Of a request and the answers to it, one message exists at a time.
OneMessage ==
    \A x, y \in Services : \A m \in At(x), n \in At(y) :
        SameExchange(x, m, y, n) => x = y /\ m = n

\* The number of the next request is unused.
Fresh == \A x \in Services : \A m \in At(x) : m.req < sentRequests

Account == Once /\ Aside /\ OneMessage /\ Fresh

\* Before the first send.
LEMMA InitAccount == Init => Account
<1> SUFFICES ASSUME Init PROVE Account
  OBVIOUS
<1>1. OnceOf(<<>>, <<>>, NoMsg, {})
  BY ElemsEmpty DEF OnceOf, Distinct
<1>2. Once
  BY <1>1 DEF Init, Once, OnceAt
<1>3. Aside
  BY DEF Init, Aside
<1>4. \A x \in Services : At(x) = {}
  BY ElemsEmpty DEF Init, At
<1>5. OneMessage /\ Fresh
  BY <1>4 DEF OneMessage, Fresh
<1> QED
  BY <1>2, <1>3, <1>5 DEF Account

\* The messages at hand lie in the three places of a service.
LEMMA AtParts ==
    ASSUME NEW x \in Services, NEW m \in Message
    PROVE  m \notin At(x) =>
              /\ m \notin Elems(mailbox[x]) /\ m \notin Elems(tempMsg[x])
              /\ m # currentlyProcessing[x]
<1>1. m # NoMsg
  BY ServiceBusAssumption
<1> QED
  BY <1>1 DEF At

\* A step that adds no message anywhere.
LEMMA FewerKeeps ==
    ASSUME TypeInv, TypeInv', OneMessage, Fresh,
           \A x \in Services : At(x)' \subseteq At(x),
           sentRequests <= sentRequests'
    PROVE  OneMessage' /\ Fresh'
<1>1. OneMessage'
  BY DEF OneMessage, SameExchange
<1>2. ASSUME NEW x \in Services, NEW m \in At(x)' PROVE m.req < sentRequests'
  <2>1. m \in Message /\ m \in At(x)
    BY AtType
  <2>2. m.req \in Nat /\ sentRequests \in Nat /\ sentRequests' \in Nat
    BY <2>1, ServiceBusAssumption DEF Message, TypeInv, TypeOK
  <2>3. m.req < sentRequests
    BY <2>1 DEF Fresh
  <2> QED
    BY <2>2, <2>3
<1> QED
  BY <1>1, <1>2 DEF Fresh

\* A step that moves messages between the places of one service s, and
\* perhaps takes some of them.
LEMMA LocalKeeps ==
    ASSUME TypeInv, TypeInv', Account, NEW s \in Services,
           \A x \in Services \ {s} :
              /\ mailbox'[x] = mailbox[x] /\ tempMsg'[x] = tempMsg[x]
              /\ currentlyProcessing'[x] = currentlyProcessing[x] /\ pending'[x] = pending[x],
           OnceOf(mailbox'[s], tempMsg'[s], currentlyProcessing'[s], pending'[s]),
           At(s)' \subseteq At(s),
           Aside',
           sentRequests <= sentRequests'
    PROVE  Account'
<1>1. Once'
  BY DEF Account, Once, OnceAt
<1>2. \A x \in Services : At(x)' \subseteq At(x)
  BY DEF At
<1>3. OneMessage' /\ Fresh'
  BY <1>2, FewerKeeps DEF Account
<1> QED
  BY <1>1, <1>3 DEF Account

\* A push of a message that its receivers do not have.
LEMMA PushOnce ==
    ASSUME TypeInv, Once, NEW to, NEW m \in Message,
           mailbox' = Push(mailbox, to, m), pending' = MarkPending(to, m),
           UNCHANGED tempMsg,
           \A x \in Services : currentlyProcessing'[x] \in {currentlyProcessing[x], NoMsg},
           \A x \in Services : x \in to => m \notin At(x)
    PROVE  Once'
<1> SUFFICES ASSUME NEW x \in Services
             PROVE  OnceOf(mailbox'[x], tempMsg'[x], currentlyProcessing'[x], pending'[x])
  BY DEF Once, OnceAt
<1>1. /\ mailbox[x] \in Seq(Message) /\ tempMsg[x] \in Seq(Message)
      /\ OnceOf(mailbox[x], tempMsg[x], currentlyProcessing[x], pending[x])
  BY DEF TypeInv, TypeOK, Once, OnceAt
<1>2. OnceOf(mailbox'[x], tempMsg[x], currentlyProcessing[x], pending'[x])
  <2>1. CASE x \in to
    <3>1. mailbox'[x] = Append(mailbox[x], m) /\ pending'[x] = pending[x] \cup {m}
      BY <2>1 DEF Push, MarkPending
    <3>2. /\ m \notin Elems(mailbox[x]) /\ m \notin Elems(tempMsg[x])
          /\ m # currentlyProcessing[x]
      BY <2>1, AtParts
    <3>3. OnceOf(Append(mailbox[x], m), tempMsg[x], currentlyProcessing[x], pending[x] \cup {m})
      BY <1>1, <3>2, OncePush
    <3> QED
      BY <3>1, <3>3, Zenon
  <2>2. CASE x \notin to
    BY <1>1, <2>2 DEF Push, MarkPending
  <2> QED
    BY <2>1, <2>2
<1>3. NoMsg \notin Elems(mailbox'[x]) \cup Elems(tempMsg[x])
  <2>1. mailbox'[x] \in Seq(Message)
    BY PushType DEF TypeInv, TypeOK
  <2> QED
    BY <1>1, <2>1, ElemsType, ServiceBusAssumption
<1>4. OnceOf(mailbox'[x], tempMsg[x], currentlyProcessing'[x], pending'[x])
  BY <1>2, <1>3 DEF OnceOf
<1> QED
  BY <1>4

\* A new request, to any number of services: its number is unused.
LEMMA RequestKeeps ==
    ASSUME TypeInv, TypeInv', Account, NEW to, NEW m \in Message,
           m.req = sentRequests, sentRequests' = sentRequests + 1,
           mailbox' = Push(mailbox, to, m), pending' = MarkPending(to, m),
           UNCHANGED <<tempMsg, currentlyProcessing>>,
           Aside'
    PROVE  Account'
<1>0. sentRequests \in Nat /\ \A n \in Message : n.req \in Nat
  BY ServiceBusAssumption DEF TypeInv, TypeOK, Message
<1>1. \A x \in Services : \A n \in At(x) : n.req < sentRequests /\ n.req # sentRequests
  <2>1. \A x \in Services : \A n \in At(x) : n.req < sentRequests /\ n.req \in Nat
    BY <1>0, AtType DEF Account, Fresh
  <2> QED
    BY <1>0, <2>1
<1>2. \A x \in Services : m \notin At(x)
  BY <1>1
<1>3. Once'
  BY <1>2, PushOnce DEF Account
<1>4. \A x \in Services : \A n \in At(x)' : n \in At(x) \/ (x \in to /\ n = m)
  <2>1. \A x \in Services : currentlyProcessing'[x] \in {currentlyProcessing[x], NoMsg}
    OBVIOUS
  <2> QED
    BY <2>1, PushAt
<1>5. ASSUME NEW x \in Services, NEW y \in Services, NEW p \in At(x)', NEW q \in At(y)',
             SameExchange(x, p, y, q)
      PROVE  x = y /\ p = q
  <2>1. CASE p \in At(x) /\ q \in At(y)
    BY <1>5, <2>1 DEF Account, OneMessage
  <2>2. CASE p = m /\ q = m
    BY <1>5, <2>2 DEF SameExchange
  <2>3. p.req = q.req
    BY <1>5 DEF SameExchange
  <2> QED
    BY <1>1, <1>4, <2>1, <2>2, <2>3
<1>6. OneMessage'
  BY <1>5 DEF OneMessage, SameExchange
<1>7. ASSUME NEW x \in Services, NEW n \in At(x)' PROVE n.req < sentRequests'
  <2>1. n.req \in Nat /\ (n.req < sentRequests \/ n.req = sentRequests)
    <3>1. n \in At(x) \/ n = m
      BY <1>4
    <3> QED
      BY <1>0, <1>1, <3>1, AtType
  <2> QED
    BY <1>0, <2>1
<1> QED
  BY <1>3, <1>6, <1>7 DEF Account, Fresh

\* The end of Service::processBus: the answer takes the place of the message
\* it answers.
LEMMA FinishKeeps ==
    ASSUME TypeInv, TypeInv', Account, NEW s \in Services, Executing(s),
           UNCHANGED <<tempMsg, counters>>,
           NEW type \in Type \cup {"null"}, Finish(s, type)
    PROVE  Account'
<1> DEFINE m  == currentlyProcessing[s]
           r  == Response(s, type, m)
           to == IF type # "null" /\ Respond(s, m)
                 THEN {m.sender} \cap servicesRegistered ELSE {}
<1>1. m \in Message /\ m \in At(s)
  BY DEF TypeInv, TypeOK, Executing, At
<1>2. mailbox' = Push(mailbox, to, r) /\ pending' = MarkPending(to, r)
  BY DEF Finish
<1>3. /\ currentlyProcessing'[s] = NoMsg
      /\ \A x \in Services \ {s} : currentlyProcessing'[x] = currentlyProcessing[x]
  BY DEF Finish, TypeInv, TypeOK
<1>4. Aside'
  <2>1. pc'[s] = "loop" /\ \A x \in Services \ {s} : pc'[x] = pc[x]
    BY DEF Finish, TypeInv, TypeOK
  <2>2. pc[s] \notin {"wait", "restore"}
    BY DEF Executing
  <2> QED
    BY <2>1, <2>2 DEF Account, Aside
<1>5. sentRequests' = sentRequests /\ sentRequests \in Nat
  BY DEF counters, TypeInv, TypeOK
<1>6. CASE to = {}
  <2>1. mailbox' = mailbox /\ pending' = pending
    BY <1>2, <1>6 DEF Push, MarkPending, TypeInv, TypeOK
  <2>2. OnceOf(mailbox[s], tempMsg[s], NoMsg, pending[s])
    <3>1. NoMsg \notin Elems(mailbox[s]) \cup Elems(tempMsg[s])
      BY ElemsType, ServiceBusAssumption DEF TypeInv, TypeOK
    <3> QED
      BY <3>1 DEF Account, Once, OnceAt, OnceOf
  <2>3. At(s)' \subseteq At(s)
    BY <1>3, <2>1 DEF At
  <2> HIDE DEF to, r, m
  <2> QED
    BY <1>3, <1>4, <1>5, <2>1, <2>2, <2>3, LocalKeeps
<1>7. CASE to # {}
  <2>1. type # "null" /\ m.sender # s /\ to = {m.sender} /\ m.sender \in Services
    BY <1>1, <1>7 DEF Respond, Message
  <2>2. r \in Message /\ r.req = m.req /\ r.sender = s
    BY <1>1, <2>1, ResponseType DEF Response
  <2> HIDE DEF to, r
  \* The only message of the exchange is m.
  <2>3. \A x \in Services : \A n \in At(x) :
           n.req = m.req /\ {x, n.sender} = {m.sender, s} => x = s /\ n = m
    <3>1. \A x \in Services : \A n \in At(x) : SameExchange(x, n, s, m) => x = s /\ n = m
      BY <1>1 DEF Account, OneMessage
    <3> QED
      BY <3>1 DEF SameExchange
  <2>4. r \notin At(m.sender)
    BY <2>1, <2>2, <2>3
  <2>5. Once'
    <3>1. \A x \in Services : x \in to => r \notin At(x)
      BY <2>1, <2>4
    <3>2. \A x \in Services : currentlyProcessing'[x] \in {currentlyProcessing[x], NoMsg}
      BY <1>3
    <3> QED
      BY <1>2, <2>2, <3>1, <3>2, PushOnce DEF Account
  <2>6. m \notin At(s)'
    <3>1. mailbox'[s] = mailbox[s]
      BY <1>2, <2>1 DEF Push
    <3>2. m \notin Elems(mailbox[s]) \cup Elems(tempMsg[s])
      BY DEF Account, Once, OnceAt, OnceOf
    <3> QED
      BY <1>1, <1>3, <3>1, <3>2, ServiceBusAssumption DEF At
  <2>7. \A x \in Services : \A n \in At(x)' :
           \/ n \in At(x) /\ ~(x = s /\ n = m)
           \/ x = m.sender /\ n = r
    <3>1. \A x \in Services : currentlyProcessing'[x] \in {currentlyProcessing[x], NoMsg}
      BY <1>3
    <3>2. \A x \in Services : \A n \in At(x)' : n \in At(x) \/ (x \in to /\ n = r)
      BY <1>2, <2>2, <3>1, PushAt
    <3> QED
      BY <2>1, <2>6, <3>2
  <2> HIDE DEF m
  <2>8. ASSUME NEW x \in Services, NEW y \in Services, NEW p \in At(x)', NEW q \in At(y)',
               SameExchange(x, p, y, q)
        PROVE  x = y /\ p = q
    <3>1. p.req = q.req /\ {x, p.sender} = {y, q.sender}
      BY <2>8 DEF SameExchange
    <3>2. CASE p \in At(x) /\ q \in At(y)
      BY <2>8, <3>2 DEF Account, OneMessage
    <3>3. CASE x = m.sender /\ p = r /\ q \in At(y) /\ ~(y = s /\ q = m)
      <4>1. q.req = m.req /\ {y, q.sender} = {m.sender, s}
        BY <2>2, <3>1, <3>3
      <4> QED
        BY <2>3, <3>3, <4>1
    <3>4. CASE y = m.sender /\ q = r /\ p \in At(x) /\ ~(x = s /\ p = m)
      <4>1. p.req = m.req /\ {x, p.sender} = {m.sender, s}
        BY <2>2, <3>1, <3>4
      <4> QED
        BY <2>3, <3>4, <4>1
    <3> QED
      BY <2>7, <3>2, <3>3, <3>4
  <2>9. OneMessage'
    BY <2>8 DEF OneMessage, SameExchange
  <2>10. Fresh'
    <3>1. r.req < sentRequests
      BY <1>1, <2>2 DEF Account, Fresh
    <3> QED
      BY <1>5, <2>7, <3>1 DEF Account, Fresh
  <2> QED
    BY <1>4, <2>5, <2>9, <2>10 DEF Account
<1> QED
  BY <1>6, <1>7

\* A step that leaves all messages where they are.
LEMMA StillKeeps ==
    ASSUME TypeInv, TypeInv', Account,
           UNCHANGED <<mailbox, tempMsg, currentlyProcessing, pending>>,
           Aside', sentRequests <= sentRequests'
    PROVE  Account'
<1>1. Once'
  BY DEF Account, Once, OnceAt
<1>2. \A x \in Services : At(x)' \subseteq At(x)
  BY DEF At
<1>3. OneMessage' /\ Fresh'
  BY <1>2, FewerKeeps DEF Account
<1> QED
  BY <1>1, <1>3 DEF Account

\* The sends of the bus.
LEMMA SendKeeps ==
    ASSUME TypeInv, TypeInv', Account, NEW s \in Services,
           \/ \E t \in Services : SendUnicast(s, t)
           \/ SendMulticast(s) \/ SendBroadcast(s)
    PROVE  Account'
<1>1. UNCHANGED threads /\ sentRequests' = sentRequests + 1 /\ sentRequests < MaxRequests
  BY DEF SendUnicast, SendMulticast, SendBroadcast, NewUnicast, NewGroupSend
<1>2. Aside'
  BY <1>1 DEF threads, Account, Aside
<1>3. \E to : \E m \in Message :
         /\ m.req = sentRequests
         /\ mailbox' = Push(mailbox, to, m)
         /\ pending' = MarkPending(to, m)
  <2>1. CASE \E t \in Services : SendUnicast(s, t)
    <3>1. PICK t \in Services : SendUnicast(s, t)
      BY <2>1
    <3>2. UnicastRequest(s, "Data") \in Message /\ UnicastRequest(s, "Data").req = sentRequests
      BY <1>1, RequestType DEF Type, UnicastRequest, Request
    <3>3. /\ mailbox' = Push(mailbox, {t} \cap servicesRegistered, UnicastRequest(s, "Data"))
          /\ pending' = MarkPending({t} \cap servicesRegistered, UnicastRequest(s, "Data"))
      BY <3>1 DEF SendUnicast
    <3> QED
      BY <3>2, <3>3
  <2>2. CASE SendMulticast(s)
    <3> DEFINE m == Request(s, "Data", "Multicast", invalidMessageUid)
    <3>1. m \in Message /\ m.req = sentRequests
      BY <1>1, RequestType DEF Type, TransmissionType, Request
    <3>2. /\ mailbox' = Push(mailbox, Subscribers \cap servicesRegistered, m)
          /\ pending' = MarkPending(Subscribers \cap servicesRegistered, m)
      BY <2>2 DEF SendMulticast
    <3> HIDE DEF m
    <3> QED
      BY <3>1, <3>2
  <2>3. CASE SendBroadcast(s)
    <3> DEFINE m == Request(s, "Data", "Broadcast", invalidMessageUid)
    <3>1. m \in Message /\ m.req = sentRequests
      BY <1>1, RequestType DEF Type, TransmissionType, Request
    <3>2. /\ mailbox' = Push(mailbox, servicesRegistered, m)
          /\ pending' = MarkPending(servicesRegistered, m)
      BY <2>3 DEF SendBroadcast
    <3> HIDE DEF m
    <3> QED
      BY <3>1, <3>2
  <2> QED
    BY <2>1, <2>2, <2>3
<1> QED
  BY <1>1, <1>2, <1>3, RequestKeeps DEF threads

\* A blocking call begins; nothing was put aside, so clearing tempMsg loses
\* nothing.
LEMMA SyncKeeps ==
    ASSUME TypeInv, TypeInv', Account, NEW s \in Services, NEW t \in Services,
           NEW type \in SyncTypes(s), SendUnicastSync(s, t, type)
    PROVE  Account'
<1>1. /\ pc[s] = "exec" /\ UNCHANGED currentlyProcessing
      /\ sentRequests' = sentRequests + 1 /\ sentRequests < MaxRequests
      /\ sentRequests \in Nat
  BY DEF SendUnicastSync, NewUnicast, TypeInv, TypeOK
<1>2. tempMsg[s] = <<>>
  BY <1>1 DEF Account, Aside
<1>3. CASE t \in servicesRegistered
  <2>1. /\ mailbox' = Push(mailbox, {t}, UnicastRequest(s, type))
        /\ pending' = MarkPending({t}, UnicastRequest(s, type))
        /\ tempMsg' = [tempMsg EXCEPT ![s] = <<>>]
        /\ pc' = [pc EXCEPT ![s] = "wait"]
    BY <1>3 DEF SendUnicastSync
  <2>2. tempMsg' = tempMsg
    BY <1>2, <2>1 DEF TypeInv, TypeOK
  <2>3. Aside'
    BY <2>1, <2>2 DEF Account, Aside, TypeInv, TypeOK
  <2>4. UnicastRequest(s, type) \in Message /\ UnicastRequest(s, type).req = sentRequests
    <3>1. type \in Type
      BY DEF SyncTypes, Type
    <3> QED
      BY <1>1, <3>1, RequestType DEF UnicastRequest, Request
  <2> QED
    BY <1>1, <2>1, <2>2, <2>3, <2>4, RequestKeeps
<1>4. CASE t \notin servicesRegistered
  <2>1. UNCHANGED <<mailbox, pending, tempMsg, pc>>
    BY <1>4 DEF SendUnicastSync
  <2>2. Aside'
    BY <2>1 DEF Account, Aside
  <2> QED
    BY <1>1, <2>1, <2>2, StillKeeps
<1> QED
  BY <1>3, <1>4

\* The pops of a blocking call and its return.
LEMMA SyncPopKeeps ==
    ASSUME TypeInv, TypeInv', Account, NEW s \in Services, UnicastSyncPop(s)
    PROVE  Account'
<1>1. /\ pc[s] = "wait" /\ mailbox[s] # <<>>
      /\ mailbox[s] \in Seq(Message) /\ tempMsg[s] \in Seq(Message)
      /\ OnceOf(mailbox[s], tempMsg[s], currentlyProcessing[s], pending[s])
      /\ currentlyProcessing' = currentlyProcessing
      /\ sentRequests' = sentRequests /\ sentRequests \in Nat
      /\ mailbox'[s] = Tail(mailbox[s])
      /\ \A x \in Services \ {s} : mailbox'[x] = mailbox[x]
  BY DEF UnicastSyncPop, counters, TypeInv, TypeOK, Account, Once, OnceAt
<1>2. PICK h : h = Head(mailbox[s])
  OBVIOUS
<1>3. /\ h \in Elems(mailbox[s]) /\ h \in Message
      /\ Elems(Tail(mailbox[s])) \subseteq Elems(mailbox[s])
  BY <1>1, <1>2, ElemsHeadTail
<1>4. CASE IsAnswer(s, h)
  <2>1. /\ tempMsg' = tempMsg
        /\ pending' = [pending EXCEPT ![s] = @ \ {h}]
        /\ pc' = [pc EXCEPT ![s] = "restore"]
    BY <1>2, <1>4 DEF UnicastSyncPop, ReturnSync
  <2>2. OnceOf(mailbox'[s], tempMsg'[s], currentlyProcessing'[s], pending'[s])
    <3>1. OnceOf(Tail(mailbox[s]), tempMsg[s], currentlyProcessing[s], pending[s] \ {h})
      BY <1>1, <1>2, OncePop
    <3>2. pending'[s] = pending[s] \ {h}
      BY <2>1 DEF TypeInv, TypeOK
    <3> QED
      BY <1>1, <2>1, <3>1, <3>2
  <2>3. At(s)' \subseteq At(s)
    BY <1>1, <1>3, <2>1 DEF At
  <2>4. Aside'
    BY <2>1 DEF Account, Aside, TypeInv, TypeOK
  <2>5. \A x \in Services \ {s} : pending'[x] = pending[x]
    BY <2>1 DEF TypeInv, TypeOK
  <2>6. /\ \A x \in Services \ {s} :
              /\ mailbox'[x] = mailbox[x] /\ tempMsg'[x] = tempMsg[x]
              /\ currentlyProcessing'[x] = currentlyProcessing[x] /\ pending'[x] = pending[x]
        /\ sentRequests <= sentRequests'
    BY <1>1, <2>1, <2>5
  <2> QED
    BY <2>2, <2>3, <2>4, <2>6, LocalKeeps
<1>5. CASE ~IsAnswer(s, h)
  <2>1. /\ tempMsg' = [tempMsg EXCEPT ![s] = Append(@, h)]
        /\ UNCHANGED <<pc, pending>>
    BY <1>2, <1>5 DEF UnicastSyncPop
  <2>2. /\ tempMsg'[s] = Append(tempMsg[s], h)
        /\ \A x \in Services \ {s} : tempMsg'[x] = tempMsg[x]
    BY <2>1 DEF TypeInv, TypeOK
  <2>3. OnceOf(mailbox'[s], tempMsg'[s], currentlyProcessing'[s], pending'[s])
    <3>1. OnceOf(Tail(mailbox[s]), Append(tempMsg[s], h), currentlyProcessing[s], pending[s])
      BY <1>1, <1>2, OnceAside
    <3> QED
      BY <1>1, <2>1, <2>2, <3>1
  <2>4. At(s)' \subseteq At(s)
    <3>1. Elems(tempMsg'[s]) = Elems(tempMsg[s]) \cup {h}
      BY <1>1, <1>3, <2>2, ElemsAppend
    <3> QED
      BY <1>1, <1>3, <3>1 DEF At
  <2>5. Aside'
    BY <1>1, <2>1, <2>2 DEF Account, Aside
  <2>6. /\ \A x \in Services \ {s} :
              /\ mailbox'[x] = mailbox[x] /\ tempMsg'[x] = tempMsg[x]
              /\ currentlyProcessing'[x] = currentlyProcessing[x] /\ pending'[x] = pending[x]
        /\ sentRequests <= sentRequests'
    BY <1>1, <2>1, <2>2
  <2> QED
    BY <2>3, <2>4, <2>5, <2>6, LocalKeeps
<1> QED
  BY <1>4, <1>5

\* restoreMessagess pushes back what was put aside, one by one.
LEMMA RestoreKeeps ==
    ASSUME TypeInv, TypeInv', Account, NEW s \in Services, RestoreMessages(s)
    PROVE  Account'
<1>1. /\ pc[s] = "restore"
      /\ mailbox[s] \in Seq(Message) /\ tempMsg[s] \in Seq(Message)
      /\ OnceOf(mailbox[s], tempMsg[s], currentlyProcessing[s], pending[s])
      /\ UNCHANGED <<currentlyProcessing, pending>>
      /\ sentRequests' = sentRequests /\ sentRequests \in Nat
  BY DEF RestoreMessages, counters, TypeInv, TypeOK, Account, Once, OnceAt
<1>2. CASE tempMsg[s] # <<>>
  <2>1. PICK h : h = Head(tempMsg[s])
    OBVIOUS
  <2>2. /\ mailbox' = [mailbox EXCEPT ![s] = Append(@, h)]
        /\ tempMsg' = [tempMsg EXCEPT ![s] = Tail(@)]
        /\ pc' = pc
    BY <1>2, <2>1 DEF RestoreMessages
  <2>3. /\ mailbox'[s] = Append(mailbox[s], h)
        /\ tempMsg'[s] = Tail(tempMsg[s])
        /\ \A x \in Services \ {s} : mailbox'[x] = mailbox[x] /\ tempMsg'[x] = tempMsg[x]
    BY <2>2 DEF TypeInv, TypeOK
  <2>4. OnceOf(mailbox'[s], tempMsg'[s], currentlyProcessing'[s], pending'[s])
    <3>1. OnceOf(Append(mailbox[s], h), Tail(tempMsg[s]), currentlyProcessing[s], pending[s])
      BY <1>1, <1>2, <2>1, OnceRestore
    <3> QED
      BY <1>1, <2>3, <3>1
  <2>5. At(s)' \subseteq At(s)
    <3>1. /\ h \in Message /\ h \in Elems(tempMsg[s])
          /\ Elems(Tail(tempMsg[s])) \subseteq Elems(tempMsg[s])
      BY <1>1, <1>2, <2>1, ElemsHeadTail
    <3>2. Elems(mailbox'[s]) = Elems(mailbox[s]) \cup {h}
      BY <1>1, <2>3, <3>1, ElemsAppend
    <3> QED
      BY <1>1, <2>3, <3>1, <3>2 DEF At
  <2>6. Aside'
    BY <1>1, <2>2, <2>3 DEF Account, Aside
  <2>7. /\ \A x \in Services \ {s} :
              /\ mailbox'[x] = mailbox[x] /\ tempMsg'[x] = tempMsg[x]
              /\ currentlyProcessing'[x] = currentlyProcessing[x] /\ pending'[x] = pending[x]
        /\ sentRequests <= sentRequests'
    BY <1>1, <2>3
  <2> QED
    BY <2>4, <2>5, <2>6, <2>7, LocalKeeps
<1>3. CASE tempMsg[s] = <<>>
  <2>1. UNCHANGED <<mailbox, tempMsg>> /\ pc' = [pc EXCEPT ![s] = "exec"]
    BY <1>3 DEF RestoreMessages
  <2>2. Aside'
    BY <1>3, <2>1 DEF Account, Aside, TypeInv, TypeOK
  <2> QED
    BY <1>1, <2>1, <2>2, StillKeeps
<1> QED
  BY <1>2, <1>3

\* Run takes the next message to execute it.
LEMMA ProcessKeeps ==
    ASSUME TypeInv, TypeInv', Account, NEW s \in Services, ProcessBus(s)
    PROVE  Account'
<1>1. /\ pc[s] = "loop" /\ mailbox[s] # <<>>
      /\ mailbox[s] \in Seq(Message) /\ tempMsg[s] \in Seq(Message)
      /\ OnceOf(mailbox[s], tempMsg[s], currentlyProcessing[s], pending[s])
      /\ tempMsg' = tempMsg
      /\ sentRequests' = sentRequests /\ sentRequests \in Nat
  BY DEF ProcessBus, counters, TypeInv, TypeOK, Account, Once, OnceAt
<1>2. PICK h : h = Head(mailbox[s])
  OBVIOUS
<1>3. /\ mailbox' = [mailbox EXCEPT ![s] = Tail(@)]
      /\ currentlyProcessing' = [currentlyProcessing EXCEPT ![s] = h]
      /\ pending' = [pending EXCEPT ![s] = @ \ {h}]
      /\ pc' = [pc EXCEPT ![s] = "exec"]
  BY <1>2 DEF ProcessBus
<1>4. /\ mailbox'[s] = Tail(mailbox[s]) /\ currentlyProcessing'[s] = h
      /\ pending'[s] = pending[s] \ {h}
      /\ \A x \in Services \ {s} :
            /\ mailbox'[x] = mailbox[x] /\ tempMsg'[x] = tempMsg[x]
            /\ currentlyProcessing'[x] = currentlyProcessing[x] /\ pending'[x] = pending[x]
      /\ sentRequests <= sentRequests'
  BY <1>1, <1>3 DEF TypeInv, TypeOK
<1>5. OnceOf(mailbox'[s], tempMsg'[s], currentlyProcessing'[s], pending'[s])
  <2>1. OnceOf(Tail(mailbox[s]), tempMsg[s], h, pending[s] \ {h})
    BY <1>1, <1>2, OncePop
  <2> QED
    BY <1>1, <1>4, <2>1
<1>6. At(s)' \subseteq At(s)
  <2>1. /\ h \in Elems(mailbox[s]) /\ h \in Message
        /\ Elems(Tail(mailbox[s])) \subseteq Elems(mailbox[s])
    BY <1>1, <1>2, ElemsHeadTail
  <2> QED
    BY <1>1, <1>4, <2>1 DEF At
<1>7. Aside'
  BY <1>1, <1>3 DEF Account, Aside, TypeInv, TypeOK
<1> QED
  BY <1>4, <1>5, <1>6, <1>7, LocalKeeps

\* A service that starts has nothing; what its name had before is gone.
LEMMA StartKeeps ==
    ASSUME TypeInv, TypeInv', Account, NEW s \in Services, StartService(s)
    PROVE  Account'
<1>1. /\ mailbox'[s] = <<>> /\ tempMsg'[s] = <<>> /\ pending'[s] = {}
      /\ currentlyProcessing' = currentlyProcessing
      /\ \A x \in Services \ {s} :
            /\ mailbox'[x] = mailbox[x] /\ tempMsg'[x] = tempMsg[x]
            /\ currentlyProcessing'[x] = currentlyProcessing[x] /\ pending'[x] = pending[x]
      /\ sentRequests <= sentRequests'
  BY DEF StartService, TypeInv, TypeOK
<1>2. OnceOf(mailbox'[s], tempMsg'[s], currentlyProcessing'[s], pending'[s])
  BY <1>1, ElemsEmpty DEF OnceOf, Distinct
<1>3. At(s)' \subseteq At(s)
  BY <1>1, ElemsEmpty DEF At
<1>4. Aside'
  BY <1>1 DEF StartService, Account, Aside, TypeInv, TypeOK
<1> QED
  BY <1>1, <1>2, <1>3, <1>4, LocalKeeps

\* Every step of the bus and of its services.
LEMMA NextAccount == TypeInv /\ TypeInv' /\ Account /\ [Next]_vars => Account'
<1> SUFFICES ASSUME TypeInv, TypeInv', Account, [Next]_vars PROVE Account'
  OBVIOUS
<1>0. sentRequests \in Nat
  BY DEF TypeInv, TypeOK
<1>1. ASSUME NEW s \in Services,
             \/ \E t \in Services : SendUnicast(s, t)
             \/ SendMulticast(s) \/ SendBroadcast(s)
      PROVE  Account'
  BY <1>1, SendKeeps
<1>2. ASSUME NEW s \in Services, NEW t \in Services, NEW type \in SyncTypes(s),
             SendUnicastSync(s, t, type)
      PROVE  Account'
  BY <1>2, SyncKeeps
<1>3. ASSUME NEW s \in Services, StartService(s) PROVE Account'
  BY <1>3, StartKeeps
<1>4. ASSUME NEW s \in Services, ProcessBus(s) PROVE Account'
  BY <1>4, ProcessKeeps
<1>5. ASSUME NEW s \in Services, UnicastSyncPop(s) PROVE Account'
  BY <1>5, SyncPopKeeps
<1>6. ASSUME NEW s \in Services, UnicastSyncTimeout(s) PROVE Account'
  <2>1. /\ UNCHANGED <<mailbox, tempMsg, currentlyProcessing, pending>>
        /\ sentRequests' = sentRequests
        /\ pc[s] = "wait" /\ pc' = [pc EXCEPT ![s] = "restore"]
    BY <1>6 DEF UnicastSyncTimeout, ReturnSync, counters
  <2>2. Aside'
    BY <2>1 DEF Account, Aside, TypeInv, TypeOK
  <2> QED
    BY <1>0, <2>1, <2>2, StillKeeps
<1>7. ASSUME NEW s \in Services, RestoreMessages(s) PROVE Account'
  BY <1>7, RestoreKeeps
<1>8. ASSUME NEW s \in Services, HandleStart(s) \/ HandleExit(s) \/ HandleMessage(s)
      PROVE  Account'
  <2>1. PICK type \in Type \cup {"null"} : Finish(s, type)
    <3>1. CASE HandleStart(s) \/ HandleExit(s)
      <4>1. Finish(s, "Response")
        BY <3>1 DEF HandleStart, HandleExit
      <4> QED
        BY <4>1 DEF Type
    <3>2. CASE HandleMessage(s)
      <4>1. PICK type \in Outcomes(s) : Finish(s, type)
        BY <3>2 DEF HandleMessage
      <4>2. type \in Type \cup {"null"}
        BY <4>1 DEF Outcomes, Type
      <4> QED
        BY <4>1, <4>2
    <3> QED
      BY <1>8, <3>1, <3>2
  <2>2. Executing(s) /\ UNCHANGED <<tempMsg, counters>>
    BY <1>8 DEF HandleStart, HandleExit, HandleMessage
  <2> QED
    BY <2>1, <2>2, FinishKeeps
<1>9. ASSUME NEW s \in Services, CloseService(s) PROVE Account'
  <2>1. /\ UNCHANGED <<mailbox, tempMsg, currentlyProcessing, pending>>
        /\ sentRequests' = sentRequests
        /\ pc[s] = "loop" /\ pc' = [pc EXCEPT ![s] = "off"]
    BY <1>9 DEF CloseService, counters
  <2>2. Aside'
    BY <2>1 DEF Account, Aside, TypeInv, TypeOK
  <2> QED
    BY <1>0, <2>1, <2>2, StillKeeps
<1>10. ASSUME EnterLoop PROVE Account'
  <2>1. /\ UNCHANGED <<mailbox, tempMsg, currentlyProcessing, pending>>
        /\ sentRequests' = sentRequests
        /\ pc[SysMgr] = "exec" /\ pc' = [pc EXCEPT ![SysMgr] = "loop"]
    BY <1>10 DEF EnterLoop, counters
  <2>2. Aside'
    BY <2>1 DEF Account, Aside, TypeInv, TypeOK
  <2> QED
    BY <1>0, <2>1, <2>2, StillKeeps
<1>11. CASE UNCHANGED vars
  <2>1. /\ UNCHANGED <<mailbox, tempMsg, currentlyProcessing, pending>>
        /\ sentRequests' = sentRequests /\ pc' = pc
    BY <1>11 DEF vars
  <2>2. Aside'
    BY <2>1 DEF Account, Aside
  <2> QED
    BY <1>0, <2>1, <2>2, StillKeeps
<1> QED
  BY <1>1, <1>2, <1>3, <1>4, <1>5, <1>6, <1>7, <1>8, <1>9, <1>10, <1>11 DEF Next, ThreadStep

\* What was pushed to a service and not taken is once in its mailbox or
\* among what UnicastSync put aside, for any number of services, requests,
\* timeouts and restarts (Mailbox.hpp, Bus::UnicastSync, restoreMessagess).
THEOREM NoMessageLost == Spec => []NothingLost
<1>1. TypeInv /\ Account => NothingLost
  <2> SUFFICES ASSUME TypeInv, Account, NEW s \in Services
               PROVE  /\ Elems(mailbox[s]) \cup Elems(tempMsg[s]) = pending[s]
                      /\ Len(mailbox[s]) + Len(tempMsg[s]) = Cardinality(pending[s])
    BY DEF NothingLost
  <2>1. PICK b \in Seq(Message), t \in Seq(Message) : b = mailbox[s] /\ t = tempMsg[s]
    BY DEF TypeInv, TypeOK
  <2>2. /\ Distinct(b) /\ Distinct(t) /\ Elems(b) \cap Elems(t) = {}
        /\ Elems(b) \cup Elems(t) = pending[s]
    BY <2>1 DEF Account, Once, OnceAt, OnceOf
  <2>3. /\ IsFiniteSet(Elems(b)) /\ Cardinality(Elems(b)) = Len(b)
        /\ IsFiniteSet(Elems(t)) /\ Cardinality(Elems(t)) = Len(t)
    BY <2>2, LenIsNumber
  <2>4. Cardinality(Elems(b) \cup Elems(t)) =
            Cardinality(Elems(b)) + Cardinality(Elems(t)) - Cardinality({})
    BY <2>2, <2>3, FS_Union
  <2>5. Cardinality({}) = 0
    BY FS_EmptySet
  <2>6. Len(b) + Len(t) = Cardinality(pending[s])
    <3>1. Len(b) \in Nat /\ Len(t) \in Nat
      OBVIOUS
    <3>2. Cardinality(pending[s]) = Len(b) + Len(t) - 0
      BY <2>2, <2>3, <2>4, <2>5
    <3> QED
      BY <3>1, <3>2
  <2> QED
    BY <2>1, <2>2, <2>6
<1> QED
  BY <1>1, InitTypeInv, NextTypeInv, InitAccount, NextAccount, PTL DEF Spec
=============================================================================
