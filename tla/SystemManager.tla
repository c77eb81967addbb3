--------------------------- MODULE SystemManager ---------------------------
(***************************************************************************)
(* Closing the system: SystemManagerCommon.cpp, the SystemManager of the   *)
(* two products, and what a service does with the two messages it gets     *)
(* while the system closes (Service.cpp).                                  *)
(*                                                                         *)
(* The manager asks the services one after the other, newest first, to     *)
(* prepare for closing (ServiceCloseReason); each says ReadyToClose.  A    *)
(* single-shot timer bounds the wait for each of them.  When all are ready *)
(* or the timer expires it sends Exit to each service in turn, waits for   *)
(* the response, kills the service if none comes in time, and destroys the *)
(* object.                                                                 *)
(*                                                                         *)
(* The manager's mailbox is a sequence.  While it waits for the response   *)
(* to Exit other messages stay there; that UnicastSync may put them in     *)
(* another order is the subject of ServiceBus.  Left out: frequency        *)
(* requests, statistics and logs, which the handlers touch on the way.     *)
(***************************************************************************)
EXTENDS Naturals, Sequences, FiniteSets

CONSTANTS
    Created,          \* the system services in the order of their creation
    EvtMgr,           \* service::name::evt_manager
    CloseWhiteList,   \* getWhiteListFor(RegularClose) and (Update)
    RestoreWhiteList, \* getWhiteListFor(Restore)
    Product,          \* "PurePhone" or "BellHybrid": which handleShutdown
    Requesters,       \* the services that may ask for Close or Restore
    Reasons,          \* the close reasons they may give
    MaxCloseRequests, \* bound: requests to close the system
    MaxLowBattery,    \* bound: reports of a battery at shutdown level
    MaxRestores,      \* bound: Restore commands
    MaxKeys,          \* bound: keys pressed
    MaxCharger,       \* bound: times the charger is plugged or unplugged
    MaxKinds          \* bound: which of these three happen in one behaviour

Services == {Created[i] : i \in DOMAIN Created}

CloseReason == {"RegularPowerDown", "LowBattery", "SystemBrownout", "Reboot", "RebootMSC",
                "RebootToRecovery", "FactoryReset", "OnboardingPowerDown"}

ASSUME SystemManagerAssumption ==
    /\ Created \in Seq(Services) /\ Created # <<>>
    /\ Cardinality(Services) = Len(Created)
    /\ EvtMgr \in Services
    /\ Requesters \subseteq Services /\ Reasons \subseteq CloseReason
    /\ Product \in {"PurePhone", "BellHybrid"}
    /\ {MaxCloseRequests, MaxLowBattery, MaxRestores, MaxKeys, MaxCharger,
        MaxKinds} \subseteq Nat

VARIABLES
    state,               \* SystemManagerCommon::state
    pc,                  \* where the manager's thread stands
    mailbox,             \* the manager's mailbox
    servicesList,        \* services whose objects exist
    serviceListReversed,
    servicesToClose,
    closeReason,
    timer,               \* serviceCloseTimer
    lowBatteryActive,    \* lowBatteryShutdownDelay.isActive()
    destroy,             \* the pass of DestroyServices in progress
    inbox,               \* what each service has still to handle
    thread,              \* how far the thread of each service is
    replied,             \* services whose response to Exit is under way
    discharging,         \* Store::Battery state
    notices,             \* BatteryStatusChange messages the event manager sent itself
    used                 \* requests made so far, for the bounds

vars == <<state, pc, mailbox, servicesList, serviceListReversed, servicesToClose,
          closeReason, timer, lowBatteryActive, destroy, inbox, thread, replied,
          discharging, notices, used>>

State == {"Running", "Shutdown", "ShutdownReady", "Reboot", "RebootToRecovery", "RebootMSC"}
Kinds == {"Close", "ReadyToClose", "CloseTimer", "LowBattery", "LowBatteryTimer",
          "Restore", "BatteryStatus", "Kbd"}

\* sender is the service a message comes from; a timer's message comes from
\* the manager itself.
Self == "system_manager"
Msg(kind, sender) == [kind |-> kind, sender |-> sender, reason |-> "none", timer |-> 0]

NoPass == [whitelist |-> {}, pos |-> 0, next |-> "Running"]

TypeOK ==
    /\ state \in State
    /\ pc \in {"loop", "pop", "destroy", "exitwait", "evtwait", "off"}
    /\ \A i \in DOMAIN mailbox : /\ mailbox[i].kind \in Kinds
                                 /\ mailbox[i].sender \in Services \cup {Self}
                                 /\ mailbox[i].reason \in CloseReason \cup {"none"}
                                 /\ mailbox[i].timer \in Nat
    /\ servicesList \in Seq(Services)
    /\ serviceListReversed \in BOOLEAN
    /\ servicesToClose \in Seq(Services)
    /\ closeReason \in CloseReason
    /\ timer \in [object : Nat, active : BOOLEAN, armed : BOOLEAN]
    /\ lowBatteryActive \in BOOLEAN
    /\ destroy \in [whitelist : SUBSET Services, pos : Nat, next : State]
    /\ inbox \in [Services -> Seq({"ServiceCloseReason", "Exit"})]
    /\ thread \in [Services -> {"loop", "leaving", "ended"}]
    /\ replied \subseteq Services
    /\ discharging \in BOOLEAN
    /\ notices \in Nat
    /\ used \in [close : Nat, low : Nat, restore : Nat, keys : Nat, charger : Nat]

Elems(seq) == {seq[i] : i \in DOMAIN seq}
Reverse(seq) == [i \in 1 .. Len(seq) |-> seq[Len(seq) + 1 - i]]
RemoveAt(seq, n) == SubSeq(seq, 1, n - 1) \o SubSeq(seq, n + 1, Len(seq))
\* find_if and erase.
Without(seq, s) ==
    LET at == {i \in DOMAIN seq : seq[i] = s}
    IN  IF at = {} THEN seq ELSE RemoveAt(seq, CHOOSE i \in at : \A j \in at : i <= j)
\* std::remove and erase.
IsNot(seq, s) == SelectSeq(seq, LAMBDA x : x # s)

\* All system services are started and the message loop runs.
Init ==
    /\ state = "Running"
    /\ pc = "loop"
    /\ mailbox = <<>>
    /\ servicesList = Created
    /\ serviceListReversed = FALSE
    /\ servicesToClose = <<>>
    /\ closeReason = "RegularPowerDown"
    /\ timer = [object |-> 0, active |-> FALSE, armed |-> FALSE]
    /\ lowBatteryActive = FALSE
    /\ destroy = NoPass
    /\ inbox = [s \in Services |-> <<>>]
    /\ thread = [s \in Services |-> "loop"]
    /\ replied = {}
    /\ discharging \in BOOLEAN
    /\ notices = 0
    /\ used = [close |-> 0, low |-> 0, restore |-> 0, keys |-> 0, charger |-> 0]

-----------------------------------------------------------------------------
(***************************************************************************)
(* What happens around the manager.                                        *)
(***************************************************************************)

manager == <<state, servicesList, serviceListReversed, servicesToClose, closeReason,
             timer, lowBatteryActive, destroy>>

environment == <<thread, replied, discharging, notices, used>>

\* A message for the manager: the service is still on the bus.
Post(m) == mailbox' = Append(mailbox, m)

\* A user, an application or the battery asks for the system to be closed.
RequestClose(s, reason) ==
    /\ used.close < MaxCloseRequests
    /\ thread[s] # "ended"
    /\ Post([Msg("Close", s) EXCEPT !.reason = reason])
    /\ used' = [used EXCEPT !.close = @ + 1]
    /\ UNCHANGED <<pc, manager, inbox, thread, replied, discharging, notices>>

\* An event of this kind may happen besides the others.
Happens(kind) ==
    Cardinality({k \in {"restore", "keys", "charger"} \ {kind} : used[k] > 0}) < MaxKinds

RequestRestore(s) ==
    /\ used.restore < MaxRestores /\ Happens("restore")
    /\ thread[s] # "ended"
    /\ Post(Msg("Restore", s))
    /\ used' = [used EXCEPT !.restore = @ + 1]
    /\ UNCHANGED <<pc, manager, inbox, thread, replied, discharging, notices>>

\* The event manager reports the battery level, the charger, a key.
ReportLowBattery ==
    /\ used.low < MaxLowBattery
    /\ thread[EvtMgr] # "ended"
    /\ Post(Msg("LowBattery", EvtMgr))
    /\ used' = [used EXCEPT !.low = @ + 1]
    /\ UNCHANGED <<pc, manager, inbox, thread, replied, discharging, notices>>

\* The charger is plugged or unplugged: BatteryController::update stores the
\* new state, then the event manager sends itself BatteryStatusChange ...
ChargerChanges ==
    /\ used.charger < MaxCharger /\ Happens("charger")
    /\ thread[EvtMgr] # "ended"
    /\ discharging' = ~ discharging
    /\ notices' = notices + 1
    /\ used' = [used EXCEPT !.charger = @ + 1]
    /\ UNCHANGED <<pc, manager, mailbox, inbox, thread, replied>>

\* Planted defect: the test of the battery state is inverted.
ForwardBatteryStatus_Inverted ==
    /\ notices > 0
    /\ thread[EvtMgr] = "loop"
    /\ notices' = notices - 1
    /\ IF discharging THEN UNCHANGED mailbox ELSE Post(Msg("BatteryStatus", EvtMgr))
    /\ UNCHANGED <<pc, manager, inbox, thread, replied, discharging, used>>

\* ... and forwards it to the manager if the battery is discharging by then.
\* It does so during the closing, too: its ProcessCloseReasonHandler leaves
\* isReady alone.
ForwardBatteryStatus ==
    /\ notices > 0
    /\ thread[EvtMgr] = "loop"
    /\ notices' = notices - 1
    /\ IF discharging THEN Post(Msg("BatteryStatus", EvtMgr)) ELSE UNCHANGED mailbox
    /\ UNCHANGED <<pc, manager, inbox, thread, replied, discharging, used>>

PressKey ==
    /\ used.keys < MaxKeys /\ Happens("keys")
    /\ thread[EvtMgr] # "ended"
    /\ Post(Msg("Kbd", EvtMgr))
    /\ used' = [used EXCEPT !.keys = @ + 1]
    /\ UNCHANGED <<pc, manager, inbox, thread, replied, discharging, notices>>

\* SystemTimer::Run in the timer daemon, for the two timers of the manager.
CloseTimerExpires ==
    /\ timer.armed
    /\ timer' = [timer EXCEPT !.armed = FALSE]
    /\ Post([Msg("CloseTimer", Self) EXCEPT !.timer = timer.object])
    /\ UNCHANGED <<state, pc, servicesList, serviceListReversed, servicesToClose,
                   closeReason, lowBatteryActive, destroy, inbox, environment>>

LowBatteryTimerExpires ==
    /\ lowBatteryActive
    /\ \A i \in DOMAIN mailbox : mailbox[i].kind # "LowBatteryTimer"
    /\ Post(Msg("LowBatteryTimer", Self))
    /\ UNCHANGED <<pc, manager, inbox, environment>>

\* A service handles ServiceCloseReason: sendCloseReadyMessage.
ServiceProcessCloseReason(s) ==
    /\ thread[s] = "loop"
    /\ inbox[s] # <<>> /\ Head(inbox[s]) = "ServiceCloseReason"
    /\ inbox' = [inbox EXCEPT ![s] = Tail(@)]
    /\ Post(Msg("ReadyToClose", s))
    /\ UNCHANGED <<pc, manager, environment>>

\* A service handles Exit: DeinitHandler, CloseHandler, and the response.
ServiceExit(s) ==
    /\ thread[s] = "loop"
    /\ inbox[s] # <<>> /\ Head(inbox[s]) = "Exit"
    /\ inbox' = [inbox EXCEPT ![s] = Tail(@)]
    /\ thread' = [thread EXCEPT ![s] = "leaving"]
    /\ replied' = replied \cup {s}
    /\ UNCHANGED <<pc, manager, mailbox, discharging, notices, used>>

\* Its thread leaves Run: bus.disconnect() and the end.
ServiceCloseService(s) ==
    /\ thread[s] = "leaving"
    /\ thread' = [thread EXCEPT ![s] = "ended"]
    /\ UNCHANGED <<pc, manager, mailbox, inbox, replied, discharging, notices, used>>

-----------------------------------------------------------------------------
(***************************************************************************)
(* The manager's handlers.                                                 *)
(***************************************************************************)

\* The manager takes message m from its mailbox and executes it: in
\* processBus while Running, and in handleShutdown of PurePhone, where only
\* messages of the event manager count.
Pops(m) ==
    /\ \/ pc = "loop" /\ state = "Running"
       \/ pc = "pop" /\ m.sender = EvtMgr
    /\ mailbox # <<>> /\ m = Head(mailbox)
    /\ mailbox' = Tail(mailbox)

\* Afterwards it goes round the loop of Run.
Return == pc' = "loop"

\* handleShutdown: "Ignored msg from".
HandleIgnored ==
    /\ pc = "pop"
    /\ mailbox # <<>> /\ Head(mailbox).sender # EvtMgr
    /\ mailbox' = Tail(mailbox)
    /\ Return
    /\ UNCHANGED <<manager, inbox, environment>>

\* bus.sendUnicast of a system message to a service.
SendTo(s, message) ==
    inbox' = IF thread[s] = "ended" THEN inbox
             ELSE [inbox EXCEPT ![s] = Append(@, message)]

\* Planted defect: serviceListReversed is not looked at.
ReverseOnce_Always ==
    /\ servicesList' = Reverse(servicesList)
    /\ serviceListReversed' = TRUE

ReverseOnce ==
    /\ servicesList' = IF serviceListReversed THEN servicesList ELSE Reverse(servicesList)
    /\ serviceListReversed' = TRUE

\* CloseSystemHandler and InitiateSystemCloseSequence.  The list is appended
\* to, not replaced; the timer is a new object.
CloseSystemHandler(reason) ==
    /\ lowBatteryActive' = FALSE
    /\ ReverseOnce
    /\ servicesToClose' = servicesToClose \o servicesList'
    /\ closeReason' = reason
    /\ timer' = [object |-> timer.object + 1, active |-> TRUE, armed |-> TRUE]
    /\ SendTo(Head(servicesToClose'), "ServiceCloseReason")
    /\ Return
    /\ UNCHANGED <<state, destroy, environment>>

HandleClose ==
    \E m \in Elems(mailbox) :
        /\ Pops(m)
        /\ m.kind = "Close"
        /\ CloseSystemHandler(m.reason)

\* batteryShutdownLevelAction
HandleLowBattery ==
    \E m \in Elems(mailbox) :
        /\ Pops(m)
        /\ m.kind = "LowBattery"
        /\ lowBatteryActive' = TRUE
        /\ Return
        /\ UNCHANGED <<state, servicesList, serviceListReversed, servicesToClose,
                       closeReason, timer, destroy, inbox, environment>>

HandleLowBatteryTimer ==
    \E m \in Elems(mailbox) :
        /\ Pops(m)
        /\ m.kind = "LowBatteryTimer"
        /\ \/ lowBatteryActive /\ CloseSystemHandler("LowBattery")
           \/ ~ lowBatteryActive /\ Return /\ UNCHANGED <<manager, inbox, environment>>

\* The state DestroyServices leads to.
NextState(reason) ==
    CASE reason = "Reboot"    -> "Reboot"
      [] reason = "RebootMSC" -> "RebootMSC"
      [] reason \in {"RebootToRecovery", "FactoryReset"} -> "RebootToRecovery"
      [] OTHER -> "Shutdown"

\* The beginning of CloseServices; the pass of DestroyServices follows.
CloseServices ==
    /\ servicesToClose' = <<>>
    /\ destroy' = [whitelist |-> CloseWhiteList, pos |-> 1, next |-> NextState(closeReason)]
    /\ pc' = "destroy"

\* What ServiceReadyToCloseHandler does with the news that service s is
\* ready.  The timer is stopped before anything else is looked at.
Ignored ==
    /\ servicesToClose = <<>> \/ ~ timer.active
    /\ Return
    /\ UNCHANGED <<servicesToClose, timer, destroy, inbox>>

NotOnTheList(s) ==
    /\ servicesToClose # <<>> /\ timer.active
    /\ s \notin Elems(servicesToClose)
    /\ timer' = [timer EXCEPT !.active = FALSE, !.armed = FALSE]
    /\ Return
    /\ UNCHANGED <<servicesToClose, destroy, inbox>>

LastReady(s) ==
    /\ servicesToClose # <<>> /\ timer.active
    /\ IsNot(servicesToClose, s) = <<>>
    /\ timer' = [timer EXCEPT !.active = FALSE, !.armed = FALSE]
    /\ CloseServices
    /\ UNCHANGED inbox

\* Planted defect: the timer is not started again.
NextAsked_NoTimer(s) ==
    /\ timer.active
    /\ s \in Elems(servicesToClose)
    /\ servicesToClose' = IsNot(servicesToClose, s)
    /\ servicesToClose' # <<>>
    /\ timer' = [timer EXCEPT !.active = FALSE, !.armed = FALSE]
    /\ SendTo(Head(servicesToClose'), "ServiceCloseReason")
    /\ Return
    /\ UNCHANGED destroy

NextAsked(s) ==
    /\ timer.active
    /\ s \in Elems(servicesToClose)
    /\ servicesToClose' = IsNot(servicesToClose, s)
    /\ servicesToClose' # <<>>
    /\ timer' = [timer EXCEPT !.active = TRUE, !.armed = TRUE]
    /\ SendTo(Head(servicesToClose'), "ServiceCloseReason")
    /\ Return
    /\ UNCHANGED destroy

ServiceReadyToCloseHandler(s) ==
    /\ Ignored \/ NotOnTheList(s) \/ LastReady(s) \/ NextAsked(s)
    /\ UNCHANGED <<state, servicesList, serviceListReversed, closeReason, lowBatteryActive>>

HandleReadyToClose ==
    \E m \in Elems(mailbox) :
        /\ Pops(m)
        /\ m.kind = "ReadyToClose"
        /\ ServiceReadyToCloseHandler(m.sender)
        /\ UNCHANGED environment

\* TimerHandle and SystemTimer::onTimeout: the message of a timer that was
\* deleted or stopped has no effect.
HandleCloseTimer ==
    \E m \in Elems(mailbox) :
        /\ Pops(m)
        /\ m.kind = "CloseTimer"
        /\ \/ /\ m.timer = timer.object /\ timer.active
              /\ timer' = [timer EXCEPT !.active = FALSE, !.armed = FALSE]
              /\ CloseServices
              /\ UNCHANGED <<state, servicesList, serviceListReversed, closeReason,
                             lowBatteryActive, inbox>>
           \/ /\ m.timer # timer.object \/ ~ timer.active
              /\ Return
              /\ UNCHANGED <<manager, inbox>>
        /\ UNCHANGED environment

\* Planted defect: a set(State::Shutdown) copied from CloseServices.
HandleRestore_Shutdown ==
    \E m \in Elems(mailbox) :
        /\ Pops(m)
        /\ m.kind = "Restore"
        /\ ReverseOnce
        /\ destroy' = [whitelist |-> RestoreWhiteList, pos |-> 1, next |-> "Shutdown"]
        /\ pc' = "destroy"
        /\ UNCHANGED <<state, servicesToClose, closeReason, timer, lowBatteryActive, inbox,
                       environment>>

\* RestoreSystemHandler
HandleRestore ==
    \E m \in Elems(mailbox) :
        /\ Pops(m)
        /\ m.kind = "Restore"
        /\ ReverseOnce
        /\ destroy' = [whitelist |-> RestoreWhiteList, pos |-> 1, next |-> state]
        /\ pc' = "destroy"
        /\ UNCHANGED <<state, servicesToClose, closeReason, timer, lowBatteryActive, inbox,
                       environment>>

\* The handlers of BatteryStatusChangeMessage and KbdMessage.
HandleBatteryStatus ==
    \E m \in Elems(mailbox) :
        /\ Pops(m)
        /\ m.kind = "BatteryStatus"
        /\ state' = IF state = "Shutdown" /\ discharging THEN "ShutdownReady" ELSE state
        /\ Return
        /\ UNCHANGED <<servicesList, serviceListReversed, servicesToClose, closeReason,
                       timer, lowBatteryActive, destroy, inbox, environment>>

HandleKbd ==
    \E m \in Elems(mailbox) :
        /\ Pops(m)
        /\ m.kind = "Kbd"
        /\ state' = IF state = "Shutdown" THEN "Reboot" ELSE state
        /\ Return
        /\ UNCHANGED <<servicesList, serviceListReversed, servicesToClose, closeReason,
                       timer, lowBatteryActive, destroy, inbox, environment>>

-----------------------------------------------------------------------------
(***************************************************************************)
(* DestroyServices, one step per service and per answer.                   *)
(***************************************************************************)

rest == <<mailbox, serviceListReversed, servicesToClose, closeReason, timer,
          lowBatteryActive, discharging, notices, used>>

\* The service the pass is at.
Victim == servicesList[destroy.pos]

DestroySkip ==
    /\ pc = "destroy"
    /\ destroy.pos <= Len(servicesList)
    /\ Victim \in destroy.whitelist
    /\ destroy' = [destroy EXCEPT !.pos = @ + 1]
    /\ UNCHANGED <<state, pc, servicesList, inbox, thread, replied, rest>>

\* RequestServiceClose: Exit is sent, the manager waits.
DestroyRequest ==
    /\ pc = "destroy"
    /\ destroy.pos <= Len(servicesList)
    /\ Victim \notin destroy.whitelist
    /\ SendTo(Victim, "Exit")
    /\ pc' = "exitwait"
    /\ UNCHANGED <<state, servicesList, destroy, thread, replied, rest>>

\* servicesList.erase: the last reference goes, the object is destroyed.
Erase ==
    /\ servicesList' = RemoveAt(servicesList, destroy.pos)
    /\ pc' = "destroy"
    /\ UNCHANGED <<state, destroy, inbox, rest>>

ExitResponse ==
    /\ pc = "exitwait"
    /\ Victim \in replied
    /\ replied' = replied \ {Victim}
    /\ Erase
    /\ UNCHANGED thread

\* No response in time, or a failure: kill runs CloseHandler, so that the
\* thread leaves its loop when its present handler returns.
ExitTimeout ==
    /\ pc = "exitwait"
    /\ thread' = [thread EXCEPT ![Victim] = IF @ = "loop" THEN "leaving" ELSE @]
    /\ Erase
    /\ UNCHANGED replied

\* Planted defect: the loop ends one element too early.
DestroyDone_Early ==
    /\ pc = "destroy"
    /\ destroy.pos >= Len(servicesList)
    /\ state' = destroy.next
    /\ pc' = "loop"
    /\ destroy' = NoPass
    /\ UNCHANGED <<servicesList, inbox, thread, replied, rest>>

DestroyDone ==
    /\ pc = "destroy"
    /\ destroy.pos > Len(servicesList)
    /\ state' = destroy.next
    /\ pc' = "loop"
    /\ destroy' = NoPass
    /\ UNCHANGED <<servicesList, inbox, thread, replied, rest>>

\* handleShutdown: Bell is ready at once.  Pure destroys the event manager
\* when the battery is discharging, and else waits for a message.
HandleShutdown ==
    /\ pc = "loop"
    /\ state = "Shutdown"
    /\ \/ /\ Product = "BellHybrid"
          /\ state' = "ShutdownReady"
          /\ UNCHANGED <<pc, inbox>>
       \/ /\ Product = "PurePhone" /\ discharging
          /\ state' = "ShutdownReady"
          /\ SendTo(EvtMgr, "Exit")
          /\ pc' = "evtwait"
       \/ /\ Product = "PurePhone" /\ ~ discharging
          /\ pc' = "pop"
          /\ UNCHANGED <<state, inbox>>
    /\ UNCHANGED <<servicesList, destroy, thread, replied, rest>>

\* DestroySystemService for the event manager: no response, no kill.
EvtMgrResponse ==
    /\ pc = "evtwait"
    /\ EvtMgr \in replied
    /\ replied' = replied \ {EvtMgr}
    /\ servicesList' = Without(servicesList, EvtMgr)
    /\ pc' = "loop"
    /\ UNCHANGED <<state, destroy, inbox, thread, rest>>

EvtMgrTimeout ==
    /\ pc = "evtwait"
    /\ pc' = "loop"
    /\ UNCHANGED <<state, servicesList, destroy, inbox, thread, replied, rest>>

\* Run leaves its loops and calls PowerOff.
PowerOff ==
    /\ pc = "loop"
    /\ state \notin {"Running", "Shutdown"}
    /\ pc' = "off"
    /\ UNCHANGED <<state, servicesList, destroy, inbox, thread, replied, rest>>

-----------------------------------------------------------------------------

\* The steps of the manager's thread.
ManagerStep ==
    \/ HandleIgnored
    \/ HandleClose
    \/ HandleLowBattery
    \/ HandleLowBatteryTimer
    \/ HandleReadyToClose
    \/ HandleCloseTimer
    \/ HandleRestore
    \/ HandleBatteryStatus
    \/ HandleKbd
    \/ DestroySkip
    \/ DestroyRequest
    \/ ExitResponse
    \/ ExitTimeout
    \/ DestroyDone
    \/ HandleShutdown
    \/ EvtMgrResponse
    \/ EvtMgrTimeout
    \/ PowerOff

ServiceStep(s) ==
    \/ ServiceProcessCloseReason(s)
    \/ ServiceExit(s)
    \/ ServiceCloseService(s)

Next ==
    \/ ManagerStep
    \/ CloseTimerExpires
    \/ LowBatteryTimerExpires
    \/ ForwardBatteryStatus
    \/ \E s \in Services : ServiceStep(s)
    \/ \E s \in Requesters :
          \/ RequestRestore(s)
          \/ \E reason \in Reasons : RequestClose(s, reason)
    \/ ReportLowBattery
    \/ ChargerChanges
    \/ PressKey

Spec == Init /\ [][Next]_vars

\* The manager's thread runs and a started timer expires.  Nothing is assumed
\* of the services but that the event manager forwards what it is told.
FairSpec ==
    /\ Spec
    /\ WF_vars(ManagerStep)
    /\ WF_vars(CloseTimerExpires)
    /\ WF_vars(LowBatteryTimerExpires)
    /\ WF_vars(ForwardBatteryStatus)

\* All services do their work as well.
FairServicesSpec ==
    /\ FairSpec
    /\ \A s \in Services : WF_vars(ServiceStep(s))

-----------------------------------------------------------------------------
(***************************************************************************)
(* Properties.                                                             *)
(***************************************************************************)

\* When the manager has left Running, only services of the whitelist are
\* left: DestroyServices reaches every element of the list although it
\* erases from it, also when some of them were destroyed by Restore before,
\* did not answer, or were asked to close twice.
NonWhitelistedGone ==
    state # "Running" => Elems(servicesList) \subseteq CloseWhiteList

\* When a service was created.
Age(s) == CHOOSE i \in DOMAIN Created : Created[i] = s

\* "We are going to remove services in reversed order of creation": when
\* DestroyServices destroys a service, whatever was created after it, and may
\* depend on it, is gone or on the whitelist of this pass.
DestroyOrder ==
    [][ \A a \in Elems(servicesList) \ Elems(servicesList') :
          pc = "exitwait" =>
             \A b \in Elems(servicesList) : Age(b) > Age(a) => b \in destroy.whitelist ]_vars

\* Once services are asked to prepare for closing the system does close,
\* whatever the services do: a service that does not answer is waited for no
\* longer than the timer, and not at all at its Exit beyond the timeout.
CloseCompletes ==
    servicesToClose # <<>> ~> state # "Running"

\* A closed system that is not charged powers off, or reboots: also when the
\* charger is unplugged just before or while handleShutdown waits for a
\* message.
ShutdownCompletes ==
    (state = "Shutdown" /\ []discharging) ~> pc = "off"
=============================================================================
