----------------------------- MODULE ServiceBus -----------------------------
(***************************************************************************)
(* The message bus of module-sys and the message loop of every service on  *)
(* it: Bus.cpp, BusProxy.cpp, Service.cpp, Message.cpp and, at the level   *)
(* of whole pushes and pops, Mailbox.hpp.                                  *)
(*                                                                         *)
(* A service is a thread with a mailbox.  It pops a message, executes it,  *)
(* and may answer the sender.  While it executes it may make a blocking    *)
(* call (SendUnicastSync): it then pops its own mailbox until the message  *)
(* with the request's uniID arrives or the timeout passes, keeps what else *)
(* it popped in tempMsg, and pushes that back before it returns.           *)
(*                                                                         *)
(* Time is abstracted: a timeout may strike at any point of the wait, also *)
(* when the answer is already in the mailbox, which is what                *)
(* Mailbox::pop(timeout) can do.  Payloads are left out.  uniqueMsgId      *)
(* (Message::id) is only logged and validated; the field req stands for    *)
(* it: the number of the request a message belongs to.  The code has no    *)
(* such field in a response, and nothing below decides anything by it.     *)
(***************************************************************************)
EXTENDS Naturals, Sequences, FiniteSets

CONSTANTS
    Services,       \* the names of the services on the bus
    SysMgr,         \* service::name::system_manager
    Subscribers,    \* services subscribed to the modelled multicast channel
    NoMsg,          \* nullptr
    Started,        \* services already started when the behaviour begins
    MaxRequests,    \* bound: requests (non-responses) sent in a behaviour
    MaxGroupSends,  \* bound: multicasts and broadcasts among them
    MaxStarts       \* bound: services started in a behaviour

VARIABLES
    servicesRegistered, \* Bus.cpp: names in the map servicesRegistered
    mailbox,            \* Service::mailbox
    pc,                 \* where the thread of each service stands
    enableRunLoop,      \* services with enableRunLoop = true
    isReady,            \* services with isReady = true
    currentlyProcessing,\* the message processBus is executing
    call,               \* the message UnicastSync waits an answer for
    tempMsg,            \* what UnicastSync popped and put aside
    result,             \* what the last SendUnicastSync returned
    unicastMsgId,       \* Bus.cpp: next uniID
    sentRequests,       \* number of requests sent so far
    groupSends,         \* number of multicasts and broadcasts sent so far
    starts,             \* number of services started so far
    pending             \* history: messages pushed and not yet taken

vars == <<servicesRegistered, mailbox, pc, enableRunLoop, isReady,
          currentlyProcessing, call, tempMsg, result, unicastMsgId,
          sentRequests, groupSends, starts, pending>>

counters == <<unicastMsgId, sentRequests, groupSends, starts>>

-----------------------------------------------------------------------------

\* The largest value of the counter, which getNext never returns: the uniID
\* of a message that was not sent as a unicast.
invalidMessageUid == MaxRequests

\* What a Message is, for the bus: System messages by their subtype, Data, the
\* msg::Response that has Type::Data too, and ResponseMessage.
Type == {"Start", "Exit", "Data", "DataResponse", "Response"}
TransmissionType == {"Unicast", "Multicast", "Broadcast"}

Message == [type      : Type,
            transType : TransmissionType,
            uniID     : 0 .. MaxRequests,
            sender    : Services,
            req       : 0 .. MaxRequests]

ASSUME ServiceBusAssumption ==
    /\ SysMgr \in Services
    /\ Subscribers \subseteq Services
    /\ Started \subseteq Services
    /\ MaxGroupSends \in Nat
    /\ MaxStarts \in Nat
    /\ MaxRequests \in Nat \ {0}
    /\ NoMsg \notin Message

Codes == {"None", "Success", "Timeout", "ServiceDoesntExist"}
NoResult == [code |-> "None", msg |-> NoMsg, req |-> MaxRequests, target |-> SysMgr]
SendResult == [code   : Codes,
               msg    : Message \cup {NoMsg},
               req    : 0 .. MaxRequests,
               target : Services]

Elems(seq) == {seq[i] : i \in DOMAIN seq}

TypeOK ==
    /\ servicesRegistered \subseteq Services
    /\ enableRunLoop \subseteq Services
    /\ isReady \subseteq Services
    /\ mailbox \in [Services -> Seq(Message)]
    /\ tempMsg \in [Services -> Seq(Message)]
    /\ pc \in [Services -> {"off", "loop", "exec", "wait", "restore"}]
    /\ currentlyProcessing \in [Services -> Message \cup {NoMsg}]
    /\ call \in [Services -> [msg : Message \cup {NoMsg}, target : Services]]
    /\ result \in [Services -> SendResult]
    /\ unicastMsgId \in 0 .. MaxRequests
    /\ sentRequests \in 0 .. MaxRequests
    /\ groupSends \in Nat
    /\ starts \in Nat
    /\ pending \in [Services -> SUBSET Message]

NoCall == [msg |-> NoMsg, target |-> SysMgr]

\* With Started = {}, the system boots: SystemManagerCommon::Run is executing
\* before anything else exists, it is on the bus and starts the system
\* services from its own thread.  With other values it has done so already.
Init ==
    /\ servicesRegistered = {SysMgr} \cup Started
    /\ enableRunLoop = {SysMgr} \cup Started
    /\ isReady = {SysMgr} \cup Started
    /\ mailbox = [s \in Services |-> <<>>]
    /\ tempMsg = [s \in Services |-> <<>>]
    /\ pc = [s \in Services |-> IF s = SysMgr THEN "exec"
                               ELSE IF s \in Started THEN "loop" ELSE "off"]
    /\ currentlyProcessing = [s \in Services |-> NoMsg]
    /\ call = [s \in Services |-> NoCall]
    /\ result = [s \in Services |-> NoResult]
    /\ unicastMsgId = 0
    /\ sentRequests = 0
    /\ groupSends = 0
    /\ starts = 0
    /\ pending = [s \in Services |-> {}]

-----------------------------------------------------------------------------
(***************************************************************************)
(* Messages and their delivery.                                            *)
(***************************************************************************)

\* The request that s sends next.
Request(s, type, transType, uniID) ==
    [type |-> type, transType |-> transType, uniID |-> uniID,
     sender |-> s, req |-> sentRequests]

UnicastRequest(s, type) == Request(s, type, "Unicast", unicastMsgId)

\* The response of s to request m: it takes over the uniID of a unicast
\* request only; otherwise the field keeps its initial invalid value.
Response(s, type, m) ==
    [type |-> type, transType |-> "Unicast",
     uniID |-> IF m.transType = "Unicast" THEN m.uniID ELSE invalidMessageUid,
     sender |-> s, req |-> m.req]

\* The mailboxes box after a push of m to every service in targets.
Push(box, targets, m) ==
    [t \in Services |-> IF t \in targets THEN Append(box[t], m) ELSE box[t]]

MarkPending(targets, m) ==
    [t \in Services |-> IF t \in targets THEN pending[t] \cup {m} ELSE pending[t]]

\* Planted defect: getNext returns the counter without advancing it.
NewUnicast_NoAdvance ==
    /\ sentRequests < MaxRequests
    /\ sentRequests' = sentRequests + 1
    /\ UNCHANGED <<unicastMsgId, groupSends, starts>>

\* getNext; the bound on requests keeps the counter from wrapping.
NewUnicast ==
    /\ sentRequests < MaxRequests
    /\ sentRequests' = sentRequests + 1
    /\ unicastMsgId' = unicastMsgId + 1
    /\ UNCHANGED <<groupSends, starts>>

NewGroupSend ==
    /\ sentRequests < MaxRequests
    /\ groupSends < MaxGroupSends
    /\ sentRequests' = sentRequests + 1
    /\ groupSends' = groupSends + 1
    /\ UNCHANGED <<unicastMsgId, starts>>

-----------------------------------------------------------------------------
(***************************************************************************)
(* Sending.  The non-blocking sends may come from a handler or from a      *)
(* worker thread of the service, so they are possible wherever the         *)
(* service's own thread stands.                                            *)
(***************************************************************************)

threads == <<servicesRegistered, pc, enableRunLoop, isReady,
             currentlyProcessing, call, tempMsg, result>>

SendUnicast(s, t) ==
    /\ pc[s] # "off"
    /\ NewUnicast
    /\ LET m == UnicastRequest(s, "Data")
           to == {t} \cap servicesRegistered
       IN  /\ mailbox' = Push(mailbox, to, m)
           /\ pending' = MarkPending(to, m)
    /\ UNCHANGED threads

SendMulticast(s) ==
    /\ pc[s] # "off"
    /\ NewGroupSend
    /\ LET m == Request(s, "Data", "Multicast", invalidMessageUid)
           to == Subscribers \cap servicesRegistered
       IN  /\ mailbox' = Push(mailbox, to, m)
           /\ pending' = MarkPending(to, m)
    /\ UNCHANGED threads

SendBroadcast(s) ==
    /\ pc[s] # "off"
    /\ NewGroupSend
    /\ LET m == Request(s, "Data", "Broadcast", invalidMessageUid)
       IN  /\ mailbox' = Push(mailbox, servicesRegistered, m)
           /\ pending' = MarkPending(servicesRegistered, m)
    /\ UNCHANGED threads

\* A blocking call from inside a handler.  No service calls itself this way.
SendUnicastSync(s, t, type) ==
    /\ pc[s] = "exec"
    /\ t # s
    /\ NewUnicast
    /\ LET m == UnicastRequest(s, type)
       IN  \/ /\ t \in servicesRegistered
              /\ mailbox' = Push(mailbox, {t}, m)
              /\ pending' = MarkPending({t}, m)
              /\ call' = [call EXCEPT ![s] = [msg |-> m, target |-> t]]
              /\ tempMsg' = [tempMsg EXCEPT ![s] = <<>>]
              /\ pc' = [pc EXCEPT ![s] = "wait"]
              /\ UNCHANGED result
           \/ /\ t \notin servicesRegistered
              /\ result' = [result EXCEPT ![s] =
                    [code |-> "ServiceDoesntExist", msg |-> NoMsg,
                     req |-> m.req, target |-> t]]
              /\ UNCHANGED <<mailbox, pending, call, tempMsg, pc>>
    /\ UNCHANGED <<servicesRegistered, enableRunLoop, isReady, currentlyProcessing>>

-----------------------------------------------------------------------------
(***************************************************************************)
(* UnicastSync.                                                            *)
(***************************************************************************)

ReturnSync(s, code, m) ==
    /\ result' = [result EXCEPT ![s] =
          [code |-> code, msg |-> m, req |-> call[s].msg.req, target |-> call[s].target]]
    /\ pc' = [pc EXCEPT ![s] = "restore"]

\* Planted defect: the first ResponseMessage is taken for the answer.
IsAnswer_AnyResponse(s, m) == m.type = "Response"

\* rxmsg->uniID == message->uniID && message->sender == sender->GetName()
IsAnswer(s, m) ==
    /\ m.uniID = call[s].msg.uniID
    /\ call[s].msg.sender = s

UnicastSyncPop(s) ==
    /\ pc[s] = "wait"
    /\ mailbox[s] # <<>>
    /\ LET rxmsg == Head(mailbox[s])
       IN  \/ /\ IsAnswer(s, rxmsg)
              /\ ReturnSync(s, "Success", rxmsg)
              /\ pending' = [pending EXCEPT ![s] = @ \ {rxmsg}]
              /\ UNCHANGED tempMsg
           \/ /\ ~ IsAnswer(s, rxmsg)
              /\ tempMsg' = [tempMsg EXCEPT ![s] = Append(@, rxmsg)]
              /\ UNCHANGED <<result, pc, pending>>
    /\ mailbox' = [mailbox EXCEPT ![s] = Tail(@)]
    /\ UNCHANGED <<servicesRegistered, enableRunLoop, isReady, currentlyProcessing,
                   call, counters>>

\* Planted defect: the call waits with portMAX_DELAY.
UnicastSyncTimeout_Never(s) ==
    /\ pc[s] = "wait"
    /\ FALSE
    /\ UNCHANGED vars

UnicastSyncTimeout(s) ==
    /\ pc[s] = "wait"
    /\ ReturnSync(s, "Timeout", NoMsg)
    /\ UNCHANGED <<servicesRegistered, mailbox, enableRunLoop, isReady,
                   currentlyProcessing, call, tempMsg, counters,
                   pending>>

\* Planted defect: what was put aside is dropped on return.
RestoreMessages_Drop(s) ==
    /\ pc[s] = "restore"
    /\ pc' = [pc EXCEPT ![s] = "exec"]
    /\ call' = [call EXCEPT ![s] = NoCall]
    /\ tempMsg' = [tempMsg EXCEPT ![s] = <<>>]
    /\ UNCHANGED <<servicesRegistered, mailbox, enableRunLoop, isReady,
                   currentlyProcessing, result, counters, pending>>

\* restoreMessagess: one push per message, others may push in between.
RestoreMessages(s) ==
    /\ pc[s] = "restore"
    /\ \/ /\ tempMsg[s] # <<>>
          /\ mailbox' = [mailbox EXCEPT ![s] = Append(@, Head(tempMsg[s]))]
          /\ tempMsg' = [tempMsg EXCEPT ![s] = Tail(@)]
          /\ UNCHANGED <<pc, call>>
       \/ /\ tempMsg[s] = <<>>
          /\ pc' = [pc EXCEPT ![s] = "exec"]
          /\ call' = [call EXCEPT ![s] = NoCall]
          /\ UNCHANGED <<mailbox, tempMsg>>
    /\ UNCHANGED <<servicesRegistered, enableRunLoop, isReady, currentlyProcessing,
                   result, counters, pending>>

-----------------------------------------------------------------------------
(***************************************************************************)
(* The service thread.                                                     *)
(***************************************************************************)

\* StartService, called by the system manager: a new service object, with an
\* empty mailbox, is put on the bus and its thread started.
StartService(s) ==
    /\ pc[SysMgr] = "exec"
    /\ pc[s] = "off"
    /\ starts < MaxStarts
    /\ servicesRegistered' = servicesRegistered \cup {s}
    /\ enableRunLoop' = enableRunLoop \cup {s}
    /\ isReady' = isReady \ {s}
    /\ pc' = [pc EXCEPT ![s] = "loop"]
    /\ mailbox' = [mailbox EXCEPT ![s] = <<>>]
    /\ tempMsg' = [tempMsg EXCEPT ![s] = <<>>]
    /\ result' = [result EXCEPT ![s] = NoResult]
    /\ pending' = [pending EXCEPT ![s] = {}]
    /\ starts' = starts + 1
    /\ UNCHANGED <<currentlyProcessing, call, unicastMsgId, sentRequests, groupSends>>

\* Run: pop the next message and start executing it.
ProcessBus(s) ==
    /\ pc[s] = "loop"
    /\ s \in enableRunLoop
    /\ mailbox[s] # <<>>
    /\ currentlyProcessing' = [currentlyProcessing EXCEPT ![s] = Head(mailbox[s])]
    /\ mailbox' = [mailbox EXCEPT ![s] = Tail(@)]
    /\ pending' = [pending EXCEPT ![s] = @ \ {Head(mailbox[s])}]
    /\ pc' = [pc EXCEPT ![s] = "exec"]
    /\ UNCHANGED <<servicesRegistered, enableRunLoop, isReady, call, tempMsg, result,
                   counters>>

\* Planted defect: responses are answered as well.
Respond_Always(s, m) == m.sender # s

\* processBus: a response is never answered, nor is a message to oneself.
Respond(s, m) == m.type # "Response" /\ m.sender # s

\* Planted defect: the nullptr check is missing.
Finish_NoNullCheck(s, type) ==
    LET m  == currentlyProcessing[s]
        r  == Response(s, type, m)
        to == IF Respond(s, m) THEN {m.sender} \cap servicesRegistered ELSE {}
    IN  /\ mailbox' = Push(mailbox, to, r)
        /\ pending' = MarkPending(to, r)
        /\ pc' = [pc EXCEPT ![s] = "loop"]
        /\ currentlyProcessing' = [currentlyProcessing EXCEPT ![s] = NoMsg]
        /\ result' = [result EXCEPT ![s] = NoResult]

\* The end of processBus: Execute returned a response of this type, or
\* nullptr ("null").  SendResponse pushes a response if the sender of the
\* message is still on the bus.
Finish(s, type) ==
    LET m  == currentlyProcessing[s]
        r  == Response(s, type, m)
        to == IF type # "null" /\ Respond(s, m)
              THEN {m.sender} \cap servicesRegistered ELSE {}
    IN  /\ mailbox' = Push(mailbox, to, r)
        /\ pending' = MarkPending(to, r)
        /\ pc' = [pc EXCEPT ![s] = "loop"]
        /\ currentlyProcessing' = [currentlyProcessing EXCEPT ![s] = NoMsg]
        /\ result' = [result EXCEPT ![s] = NoResult]

Executing(s) == pc[s] = "exec" /\ currentlyProcessing[s] # NoMsg

\* Proxy::handleSystemMessage, Start: InitHandler succeeds or fails.
HandleStart(s) ==
    /\ Executing(s)
    /\ currentlyProcessing[s].type = "Start"
    /\ isReady' \in {isReady \cup {s}, isReady}
    /\ Finish(s, "Response")
    /\ UNCHANGED <<servicesRegistered, enableRunLoop, call, tempMsg, counters>>

\* Exit: DeinitHandler, then CloseHandler ends the loop.
HandleExit(s) ==
    /\ Executing(s)
    /\ currentlyProcessing[s].type = "Exit"
    /\ enableRunLoop' = enableRunLoop \ {s}
    /\ Finish(s, "Response")
    /\ UNCHANGED <<servicesRegistered, isReady, call, tempMsg, counters>>

\* What Proxy::handleMessage may return: a service that is not ready answers
\* ServiceDoesntExist without calling a handler; a handler returns nullptr or
\* a ResponseMessage, and to a request also a msg::Response of type Data.
Outcomes(s) ==
    IF s \notin isReady
    THEN {"Response"}
    ELSE {"null", "Response"} \cup
         (IF currentlyProcessing[s].type = "Data" THEN {"DataResponse"} ELSE {})

HandleMessage(s) ==
    /\ Executing(s)
    /\ currentlyProcessing[s].type \in {"Data", "DataResponse", "Response"}
    /\ \E type \in Outcomes(s) : Finish(s, type)
    /\ UNCHANGED <<servicesRegistered, enableRunLoop, isReady, call, tempMsg, counters>>

\* SystemManagerCommon::Run: initialize() returned, the message loop begins.
EnterLoop ==
    /\ pc[SysMgr] = "exec"
    /\ currentlyProcessing[SysMgr] = NoMsg
    /\ pc' = [pc EXCEPT ![SysMgr] = "loop"]
    /\ result' = [result EXCEPT ![SysMgr] = NoResult]
    /\ UNCHANGED <<servicesRegistered, mailbox, enableRunLoop, isReady,
                   currentlyProcessing, call, tempMsg, counters, pending>>

\* Run leaves its loop: CloseService takes the service off the bus.  What is
\* still in its mailbox goes with it.
CloseService(s) ==
    /\ pc[s] = "loop"
    /\ s \notin enableRunLoop
    /\ servicesRegistered' = servicesRegistered \ {s}
    /\ pc' = [pc EXCEPT ![s] = "off"]
    /\ UNCHANGED <<mailbox, enableRunLoop, isReady, currentlyProcessing, call,
                   tempMsg, result, counters, pending>>

-----------------------------------------------------------------------------

\* Who sends what in a blocking call: Start and Exit come from the system
\* manager only.
SyncTypes(s) == IF s = SysMgr THEN {"Start", "Exit", "Data"} ELSE {"Data"}

\* The steps of the thread of service s.
ThreadStep(s) ==
    \/ ProcessBus(s)
    \/ UnicastSyncPop(s)
    \/ UnicastSyncTimeout(s)
    \/ RestoreMessages(s)
    \/ HandleStart(s)
    \/ HandleExit(s)
    \/ HandleMessage(s)
    \/ CloseService(s)

Next ==
    \/ \E s, t \in Services :
          \/ SendUnicast(s, t)
          \/ \E type \in SyncTypes(s) : SendUnicastSync(s, t, type)
    \/ \E s \in Services :
          \/ SendMulticast(s)
          \/ SendBroadcast(s)
          \/ StartService(s)
          \/ ThreadStep(s)
    \/ EnterLoop

\* Every thread keeps running, handlers return, and every blocking call has a
\* finite timeout.  Nothing is assumed about when anyone sends.
Fairness ==
    /\ WF_vars(EnterLoop)
    /\ \A s \in Services :
          /\ WF_vars(ProcessBus(s))
          /\ WF_vars(UnicastSyncTimeout(s))
          /\ WF_vars(RestoreMessages(s))
          /\ WF_vars(HandleStart(s) \/ HandleExit(s) \/ HandleMessage(s))
          /\ WF_vars(CloseService(s))

Spec == Init /\ [][Next]_vars

FairSpec == Spec /\ Fairness

-----------------------------------------------------------------------------
(***************************************************************************)
(* Properties.                                                             *)
(***************************************************************************)

\* A blocking call that returns Success returns a message that belongs to
\* this very request and was sent by the service it was sent to: never the
\* late answer to an earlier call that timed out, never another service's
\* message (Bus::UnicastSync compares only uniIDs).
SyncMatches ==
    \A s \in Services :
        result[s].code = "Success" =>
            /\ result[s].msg # NoMsg
            /\ result[s].msg.req = result[s].req
            /\ result[s].msg.sender = result[s].target

\* The messages in the hands of service x.
At(x) ==
    Elems(mailbox[x]) \cup Elems(tempMsg[x]) \cup ({currentlyProcessing[x]} \ {NoMsg})

\* Where the messages that share the uniID of a blocking call in progress can
\* be: only at the two services of the call, sent by the other one, and all
\* belonging to the same request.  uniIDs of new requests (getNext under the
\* critical section) are unused, and those of group messages are never
\* waited for.
Routing ==
    /\ \A x \in Services : \A m \in At(x) :
          m.uniID < unicastMsgId \/ m.uniID = invalidMessageUid
    /\ \A s \in Services : pc[s] = "wait" =>
          /\ call[s].msg.uniID < unicastMsgId
          /\ call[s].msg.sender = s
          /\ call[s].target # s
    /\ \A s, x \in Services : \A m \in At(x) :
          pc[s] = "wait" /\ m.uniID = call[s].msg.uniID =>
             /\ m.req = call[s].msg.req
             /\ \/ x = s /\ m.sender = call[s].target
                \/ x = call[s].target /\ m.sender = s

\* Nothing is lost or duplicated on the way through a mailbox: what was
\* pushed to a service and not yet executed or returned to a caller is
\* exactly once in its mailbox or among the messages UnicastSync put aside,
\* also when the call times out (restoreMessagess on every return).
NothingLost ==
    \A s \in Services :
        /\ Elems(mailbox[s]) \cup Elems(tempMsg[s]) = pending[s]
        /\ Len(mailbox[s]) + Len(tempMsg[s]) = Cardinality(pending[s])

\* Every blocking call returns, also when services call each other in a
\* circle and when the called service closes or answers with nullptr.
SyncReturns ==
    \A s \in Services : pc[s] = "wait" ~> pc[s] \in {"exec", "loop"}

\* Conversations end: once requests stop, every service on the bus runs out
\* of messages.  In particular answers are not answered for ever, not even
\* between two services that are not ready (processBus, respond).
Quiescence ==
    <>[](\A s \in Services : pc[s] = "off" \/ mailbox[s] = <<>>)
=============================================================================
