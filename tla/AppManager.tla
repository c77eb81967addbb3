----------------------------- MODULE AppManager -----------------------------
(***************************************************************************)
(* The application manager (ApplicationManagerCommon.cpp, the products'    *)
(* ApplicationManager, ApplicationStack, ActionsRegistry, ApplicationHandle*)
(* and ApplicationLauncher) together with the applications it switches     *)
(* (ApplicationCommon.cpp).                                                *)
(*                                                                         *)
(* The manager and every application are services of their own: each       *)
(* handles its mailbox in its own thread.  To change the application on    *)
(* the screen the manager pushes the new one onto its stack, asks the      *)
(* focused one to close or to give up the focus, and starts the new one    *)
(* when the answer comes.  Requests come as actions, which wait in a       *)
(* registry while another one is in progress.  The state of an application *)
(* is one field of its object which both threads write.                    *)
(*                                                                         *)
(* Requests come at any time.  Most of them wait for one another, in the   *)
(* mailbox or in the registry; but some are carried out at once, also in   *)
(* the middle of the switch before them.  The variable crossings counts    *)
(* these: it is a history variable which no handler reads, and the         *)
(* properties say of what they hold with it.  The model stops at the first *)
(* fault, after which the program may do anything.                         *)
(*                                                                         *)
(* Windows, the data passed along and the language are left out, so is the *)
(* start in the background.  RunService and RequestServiceClose block the  *)
(* manager until the application has answered; their time limits are the   *)
(* subject of ServiceBus.                                                  *)
(***************************************************************************)
EXTENDS Naturals, Sequences, SequencesExt

CONSTANTS
    Apps,             \* the registered applications
    Root,             \* rootApplicationName
    Closeable,        \* applications whose launcher is Closeable::True
    Blocking,         \* those that may have callbacks to await before they close
    InBackground,     \* applications that take their action in the background
    NoApp,            \* a null ApplicationHandle
    Product,          \* "PurePhone" or "BellHybrid": which startApplication
    MaxRequests,      \* bound: requests, a crossing counted as one
    MaxCrossings      \* bound: switches begun in the middle of another one

\* The action Home is Launch of Root: handleHomeAction and handleLaunchAction do
\* the same.
RequestKinds == {"Launch", "Popup", "Custom", "CustomKeep", "Switch", "SwitchBack"}

ASSUME AppManagerAssumption ==
    /\ Root \in Apps /\ NoApp \notin Apps
    /\ Closeable \subseteq Apps \ {Root}
    /\ Blocking \subseteq Closeable /\ InBackground \subseteq Apps
    /\ Product \in {"PurePhone", "BellHybrid"}
    /\ MaxRequests \in Nat /\ MaxCrossings \in Nat

VARIABLES
    state,       \* ApplicationManagerBase::state
    stack,       \* ApplicationStack, the newest first
    object,      \* the ApplicationCommon object of each application
    wait,        \* the application whose answer to Start or Exit is awaited
    mailbox,     \* the manager's mailbox
    actions,     \* ActionsRegistry::actions
    pending,     \* position of actionInProgress, 0 for none
    it,          \* position of notifyAboutNextAction, 0 outside of it
    fault,       \* what was looked into where there was none, or made twice
    requests,    \* requests made so far
    crossings    \* history: switches begun in the middle of another one

vars == <<state, stack, object, wait, mailbox, fault, actions, pending, it, requests,
          crossings>>

registry == <<actions, pending, it>>

ManagerState == {"Running", "AwaitingFocusConfirmation", "AwaitingLostFocusConfirmation",
                 "AwaitingCloseConfirmation"}
AppState == {"DEACTIVATED", "INITIALIZING", "ACTIVATING", "ACTIVE_FORGROUND",
             "ACTIVE_BACKGROUND", "FINALIZING_CLOSE", "DEACTIVATING"}
AppMessages == {"Start", "Exit", "Switch", "Close", "LostFocus", "Action"}
ManagerMessages == RequestKinds \cup
    {"Initialised", "SwitchConfirmation", "CloseConfirmation", "FinalizingClose",
     "CloseRequest", "ActionHandled"}

\* An object is alive from the start of its thread to its end; in between the
\* launcher's handle points to it and the bus knows it under its name.
NoObject == [state |-> "DEACTIVATED", inbox |-> <<>>, alive |-> FALSE]
Msg(type, a) == [type |-> type, app |-> a]

TypeOK ==
    /\ state \in ManagerState
    /\ stack \in Seq([app : Apps, closeable : BOOLEAN])
    /\ object \in [Apps -> [state : AppState, inbox : Seq(AppMessages), alive : BOOLEAN]]
    /\ wait \in Apps \cup {NoApp}
    /\ mailbox \in Seq([type : ManagerMessages, app : Apps \cup {NoApp}])
    /\ actions \in Seq([kind : RequestKinds, app : Apps])
    /\ pending \in 0 .. Len(actions)
    /\ it \in 0 .. Len(actions)
    /\ fault \subseteq {"action", "handle", "object"}
    /\ requests \in 0 .. MaxRequests
    /\ crossings \in 0 .. MaxCrossings

\* The manager has just been allowed to start and has sent itself Home.
Init ==
    /\ state = "Running"
    /\ stack = <<>>
    /\ object = [a \in Apps |-> NoObject]
    /\ wait = NoApp
    /\ mailbox = <<Msg("Launch", Root)>>
    /\ actions = <<>>
    /\ pending = 0
    /\ it = 0
    /\ fault = {}
    /\ requests = 0
    /\ crossings = 0

-----------------------------------------------------------------------------
(***************************************************************************)
(* The parts of a handler, each from a state w of the manager and its      *)
(* applications to the next one.                                           *)
(***************************************************************************)

Now == [state |-> state, stack |-> stack, object |-> object, wait |-> wait,
        mailbox |-> mailbox, fault |-> fault]

Become(w) ==
    /\ state' = w.state
    /\ stack' = w.stack
    /\ object' = w.object
    /\ wait' = w.wait
    /\ mailbox' = w.mailbox
    /\ fault' = w.fault

\* ApplicationHandle::state
StateOf(w, a) == IF w.object[a].alive THEN w.object[a].state ELSE "NONE"

SetState(w, a, s) ==
    IF w.object[a].alive THEN [w EXCEPT !.object[a].state = s] ELSE w

\* A unicast to an application.
SendTo(w, a, m) ==
    IF w.object[a].alive THEN [w EXCEPT !.object[a].inbox = Append(@, m)] ELSE w

FirstInStack(w, Test(_)) ==
    LET found == {i \in DOMAIN w.stack : Test(w.stack[i].app)}
    IN  IF found = {} THEN NoApp
        ELSE w.stack[CHOOSE i \in found : \A j \in found : i <= j].app

GetFocusedApplication(w) == FirstInStack(w, LAMBDA a : StateOf(w, a) = "ACTIVE_FORGROUND")

IsApplicationStarting(w, a) == StateOf(w, a) \in {"INITIALIZING", "ACTIVATING"}

GetStartingApplication(w) == FirstInStack(w, LAMBDA a : IsApplicationStarting(w, a))

GetLaunchingApplication(w) ==
    IF w.stack = <<>> \/ StateOf(w, w.stack[1].app) = "ACTIVE_FORGROUND" THEN NoApp
    ELSE w.stack[1].app

\* ApplicationHandle::closeable looks into the object without a test: what it
\* finds where there is none is any value.
HandleCloseable(w, a) ==
    IF a \notin Closeable THEN {FALSE}
    ELSE IF ~ w.object[a].alive THEN BOOLEAN
    ELSE {StateOf(w, a) # "FINALIZING_CLOSE"}

IsApplicationCloseable(w, a) ==
    {c /\ (\A i \in DOMAIN w.stack : w.stack[i].app = a => w.stack[i].closeable) :
         c \in HandleCloseable(w, a)}

\* ApplicationLauncherT::run: a new object with a thread of its own.  The
\* code makes it although an older one of the same name may still run; that
\* is recorded.
Run(w, a) ==
    [w EXCEPT !.object[a] = [NoObject EXCEPT !.inbox = <<"Start">>, !.alive = TRUE],
              !.wait = a,
              !.fault = IF w.object[a].alive THEN @ \cup {"object"} ELSE @]

StartApplication(w, a) ==
    IF StateOf(w, a) = "ACTIVE_BACKGROUND"
    THEN [SendTo(w, a, "Switch") EXCEPT !.state = "AwaitingFocusConfirmation"]
    ELSE IF Product = "PurePhone" /\ IsApplicationStarting(w, a) THEN w
    ELSE Run(w, a)

StartLaunching(w) ==
    LET a == GetLaunchingApplication(w)
    IN  IF a = NoApp THEN w ELSE StartApplication(w, a)

RequestApplicationClose(w, a, closeable) ==
    IF closeable THEN [SendTo(w, a, "Close") EXCEPT !.state = "AwaitingCloseConfirmation"]
    ELSE [SendTo(w, a, "LostFocus") EXCEPT !.state = "AwaitingLostFocusConfirmation"]

OnApplicationSwitch(w, a) ==
    [w EXCEPT !.stack = <<[app |-> a, closeable |-> TRUE]>> \o (IF a = Root THEN <<>> ELSE @)]

\* Planted defect: an application in front is not told from another one.
HandleSwitchApplication_Again(w, a, closeFocused) ==
    LET focused == GetFocusedApplication(w)
        pushed  == OnApplicationSwitch([w EXCEPT !.stack[1].closeable = closeFocused], a)
    IN  IF focused = NoApp
        THEN IF GetStartingApplication(w) # NoApp THEN w
             ELSE StartApplication(OnApplicationSwitch(w, a), a)
        ELSE RequestApplicationClose(pushed, focused,
                                     TRUE \in IsApplicationCloseable(pushed, focused))

\* handleSwitchApplication.  The focused application has an object, so that
\* its being closeable has one value.
HandleSwitchApplication(w, a, closeFocused) ==
    LET focused == GetFocusedApplication(w)
        pushed  == OnApplicationSwitch([w EXCEPT !.stack[1].closeable = closeFocused], a)
    IN  IF focused = NoApp
        THEN IF GetStartingApplication(w) # NoApp THEN w
             ELSE StartApplication(OnApplicationSwitch(w, a), a)
        ELSE IF a = focused THEN SendTo(pushed, a, "Switch")
        ELSE RequestApplicationClose(pushed, focused,
                                     TRUE \in IsApplicationCloseable(pushed, focused))

\* Its result: the focused application was asked to make room.
SwitchBegins(w, a) == GetFocusedApplication(w) \notin {NoApp, a}

\* It leaves everything as it is while an application starts.
SwitchHeard(w) == GetFocusedApplication(w) # NoApp \/ GetStartingApplication(w) = NoApp

\* onApplicationSwitchToPrev
PopStack(w) == [w EXCEPT !.stack = Tail(@)]

\* Somebody has still to do his part of a switch.
SwitchUnderWay ==
    \/ state # "Running"
    \/ \E i \in DOMAIN mailbox : mailbox[i].type \notin RequestKinds \cup {"ActionHandled"}
    \/ \E a \in Apps :
          /\ object[a].alive
          /\ \/ object[a].state = "FINALIZING_CLOSE"
             \/ \E i \in DOMAIN object[a].inbox : object[a].inbox[i] # "Action"

\* The step begins a switch if begins holds.
Crossing(begins) ==
    IF begins /\ SwitchUnderWay
    THEN crossings < MaxCrossings /\ crossings' = crossings + 1
    ELSE UNCHANGED crossings

-----------------------------------------------------------------------------
(***************************************************************************)
(* The actions registry.                                                   *)
(***************************************************************************)

Position(n, seq) == IF n <= Len(seq) THEN n ELSE 0

\* Planted defect: actionInProgress is not set.
Accepted_NotNoted ==
    /\ pending' = 0
    /\ it' = 0
    /\ UNCHANGED actions

\* The action at position it is accepted, dropped or skipped.
Accepted == /\ pending' = it
            /\ it' = 0
            /\ UNCHANGED actions
Dropped  == /\ actions' = RemoveAt(actions, it)
            /\ it' = Position(it, actions')
            /\ UNCHANGED pending
Skipped  == /\ it' = Position(it + 1, actions)
            /\ UNCHANGED <<actions, pending>>

\* notifyAboutNextAction: one turn of its loop.
NotifyAboutNextAction ==
    /\ it # 0
    /\ wait = NoApp /\ fault = {}
    /\ LET act == actions[it]
           target == act.app
           focused == GetFocusedApplication(Now)
       IN  \/ /\ act.kind = "Launch"
              /\ Become(HandleSwitchApplication(Now, target, TRUE))
              /\ IF SwitchBegins(Now, target) THEN Accepted ELSE Dropped
              /\ Crossing(SwitchHeard(Now))
           \/ /\ act.kind = "Popup"
              /\ IF focused = NoApp THEN Skipped /\ Become(Now)
                 ELSE Accepted /\ Become(SendTo(Now, focused, "Action"))
              /\ UNCHANGED crossings
           \/ /\ act.kind \in {"Custom", "CustomKeep"}
              /\ IF \/ StateOf(Now, target) = "ACTIVE_FORGROUND"
                    \/ StateOf(Now, target) = "ACTIVE_BACKGROUND" /\ target \in InBackground
                 THEN /\ Accepted
                      /\ Become(SendTo(Now, target, "Action"))
                      /\ UNCHANGED crossings
                 ELSE /\ Skipped
                      /\ Become(HandleSwitchApplication(Now, target, act.kind = "Custom"))
                      /\ Crossing(SwitchHeard(Now))
    /\ UNCHANGED requests

\* finished: the action in progress leaves, and with it those that are older
\* than 30 seconds.
Finished ==
    LET rest == RemoveAt(actions, pending)
    IN  /\ \E n \in 0 .. Len(rest) : actions' = SubSeq(rest, n + 1, Len(rest))
        /\ pending' = 0
        /\ it' = Position(1, actions')

-----------------------------------------------------------------------------
(***************************************************************************)
(* The manager's handlers.                                                 *)
(***************************************************************************)

Received == [Now EXCEPT !.mailbox = Tail(@)]

Handles(type) ==
    /\ it = 0 /\ wait = NoApp /\ fault = {}
    /\ mailbox # <<>>
    /\ Head(mailbox).type = type
    /\ UNCHANGED requests
    /\ type \notin {"Switch", "SwitchBack"} => UNCHANGED crossings

HandleActionRequest(kind) ==
    /\ Handles(kind)
    /\ actions' = Append(actions, [kind |-> kind, app |-> Head(mailbox).app])
    /\ it' = IF pending = 0 THEN 1 ELSE 0
    /\ Become(Received)
    /\ UNCHANGED pending

HandleSwitchRequest ==
    /\ Handles("Switch")
    /\ Become(HandleSwitchApplication(Received, Head(mailbox).app, TRUE))
    /\ Crossing(SwitchHeard(Now))
    /\ UNCHANGED registry

\* A request may ask to be ignored unless the previous application is its
\* sender.
HandleSwitchBack ==
    /\ Handles("SwitchBack")
    /\ LET focused == GetFocusedApplication(Now)
           popped  == PopStack(Received)
           previous == stack[2].app
       IN  \E matches \in BOOLEAN :
           /\ Become(IF Len(stack) < 2 \/ ~ matches THEN Received
                     ELSE IF focused = NoApp THEN StartApplication(popped, previous)
                     ELSE IF previous = focused THEN popped
                     ELSE RequestApplicationClose(popped, focused,
                              TRUE \in IsApplicationCloseable(popped, focused)))
           /\ Crossing(Len(stack) >= 2 /\ matches)
    /\ UNCHANGED registry

HandleInitApplication ==
    /\ Handles("Initialised")
    /\ LET a == Head(mailbox).app
       IN  Become(IF GetLaunchingApplication(Now) # a
                  THEN SetState(Received, a, "ACTIVE_BACKGROUND")
                  ELSE [SendTo(SetState(Received, a, "ACTIVATING"), a, "Switch")
                            EXCEPT !.state = "AwaitingFocusConfirmation"])
    /\ UNCHANGED registry

\* Planted defect: the registry is told only about an action in progress.
OnLaunchFinished_NoNotify(a) ==
    IF pending # 0 /\ actions[pending].kind = "Launch" /\ actions[pending].app = a
    THEN Finished
    ELSE UNCHANGED registry

\* onLaunchFinished
OnLaunchFinished(a) ==
    IF pending = 0 THEN it' = Position(1, actions) /\ UNCHANGED <<actions, pending>>
    ELSE IF actions[pending].kind = "Launch" /\ actions[pending].app = a
    THEN Finished
    ELSE UNCHANGED registry

HandleSwitchConfirmation ==
    /\ Handles("SwitchConfirmation")
    /\ LET a == Head(mailbox).app
       IN  \/ /\ state \in {"AwaitingFocusConfirmation", "Running"}
              /\ Become([SetState(Received, a, "ACTIVE_FORGROUND") EXCEPT !.state = "Running"])
              /\ OnLaunchFinished(a)
           \/ /\ state \in {"AwaitingLostFocusConfirmation", "AwaitingCloseConfirmation"}
              /\ LET launching == GetLaunchingApplication(Now)
                 IN  Become(IF state = "AwaitingCloseConfirmation" \/ launching = NoApp
                            THEN Received
                            ELSE StartApplication(SetState(Received, a, "ACTIVE_BACKGROUND"),
                                                  launching))
              /\ UNCHANGED registry

StartPendingApplicationOnCurrentClose(w) ==
    IF w.state = "AwaitingCloseConfirmation" THEN StartLaunching(w) ELSE w

HandleFinalizingClose ==
    /\ Handles("FinalizingClose")
    /\ Become(StartPendingApplicationOnCurrentClose(Received))
    /\ UNCHANGED registry

HandleCloseConfirmation ==
    /\ Handles("CloseConfirmation")
    /\ LET a == Head(mailbox).app
           w == [Received EXCEPT !.fault =
                     IF a \in Closeable /\ ~ object[a].alive THEN @ \cup {"handle"} ELSE @]
           closing == [SetState(w, a, "DEACTIVATED")
                           EXCEPT !.mailbox = Append(@, Msg("CloseRequest", a))]
       IN  \E c \in IsApplicationCloseable(Now, a) :
               Become(StartPendingApplicationOnCurrentClose(
                   IF c THEN closing ELSE SetState(w, a, "ACTIVE_BACKGROUND")))
    /\ UNCHANGED registry

\* closeApplication: an application that the bus does not know any more has
\* nothing to answer.
HandleCloseRequest ==
    /\ Handles("CloseRequest")
    /\ LET a == Head(mailbox).app
       IN  Become(IF object[a].alive THEN [SendTo(Received, a, "Exit") EXCEPT !.wait = a]
                  ELSE Received)
    /\ UNCHANGED registry

HandleActionHandled ==
    /\ Handles("ActionHandled")
    /\ Become([Received EXCEPT !.fault = IF pending = 0 THEN @ \cup {"action"} ELSE @])
    /\ IF pending = 0 THEN UNCHANGED registry ELSE Finished

-----------------------------------------------------------------------------
(***************************************************************************)
(* The thread of an application.                                           *)
(***************************************************************************)

Receives(a, m) ==
    /\ object[a].alive /\ fault = {}
    /\ object[a].inbox # <<>>
    /\ Head(object[a].inbox) = m
    /\ UNCHANGED <<state, stack, registry, fault, requests, crossings>>

\* It takes the message, enters state s and sends the manager the messages ms.
Answers(a, s, ms) ==
    /\ object' = [object EXCEPT ![a].state = s, ![a].inbox = Tail(@)]
    /\ mailbox' = mailbox \o ms

AppStart(a) ==
    /\ Receives(a, "Start")
    /\ Answers(a, "INITIALIZING", <<Msg("Initialised", a)>>)
    /\ wait' = NoApp

\* handleApplicationSwitch
AppSwitch(a) ==
    /\ Receives(a, "Switch")
    /\ IF object[a].state \in {"ACTIVATING", "INITIALIZING", "ACTIVE_BACKGROUND"}
       THEN Answers(a, "ACTIVE_FORGROUND", <<Msg("SwitchConfirmation", a)>>)
       ELSE Answers(a, object[a].state, <<>>)
    /\ UNCHANGED wait

\* handleAppFocusLost
AppLostFocus(a) ==
    /\ Receives(a, "LostFocus")
    /\ IF object[a].state = "ACTIVE_FORGROUND"
       THEN Answers(a, "ACTIVE_BACKGROUND", <<Msg("SwitchConfirmation", a)>>)
       ELSE Answers(a, object[a].state, <<>>)
    /\ UNCHANGED wait

\* handleAppClose: callbacks that must be awaited delay the confirmation.
AppClose(a) ==
    /\ Receives(a, "Close")
    /\ \/ Answers(a, "DEACTIVATING", <<Msg("CloseConfirmation", a)>>)
       \/ /\ a \in Blocking
          /\ Answers(a, "FINALIZING_CLOSE", <<Msg("FinalizingClose", a)>>)
    /\ UNCHANGED wait

\* Planted defect: an application without the focus does not look.
CheckBlockingRequests_InFocus(a) ==
    /\ a = GetFocusedApplication(Now) /\ fault = {}
    /\ object[a].state = "FINALIZING_CLOSE"
    /\ object' = [object EXCEPT ![a].state = "DEACTIVATING"]
    /\ mailbox' = Append(mailbox, Msg("CloseConfirmation", a))
    /\ UNCHANGED <<state, stack, wait, registry, fault, requests, crossings>>

\* checkBlockingRequests: the last callback has been called.
CheckBlockingRequests(a) ==
    /\ object[a].alive /\ fault = {}
    /\ object[a].state = "FINALIZING_CLOSE"
    /\ object' = [object EXCEPT ![a].state = "DEACTIVATING"]
    /\ mailbox' = Append(mailbox, Msg("CloseConfirmation", a))
    /\ UNCHANGED <<state, stack, wait, registry, fault, requests, crossings>>

\* handleAction: the response is an ActionHandledResponse.
AppAction(a) ==
    /\ Receives(a, "Action")
    /\ Answers(a, object[a].state, <<Msg("ActionHandled", NoApp)>>)
    /\ UNCHANGED wait

\* The application answers and leaves the bus; the manager goes on and
\* forgets the object.
AppExit(a) ==
    /\ Receives(a, "Exit")
    /\ object' = [object EXCEPT ![a] = NoObject]
    /\ wait' = NoApp
    /\ UNCHANGED mailbox

-----------------------------------------------------------------------------
(***************************************************************************)
(* Requests of users, applications and services.                           *)
(***************************************************************************)

\* sendAction and switchBack: whoever wants, whenever he wants.
Request(kind, a) ==
    /\ requests + crossings < MaxRequests /\ fault = {}
    /\ kind \in {"Popup", "SwitchBack"} => a = Root
    /\ mailbox' = Append(mailbox, Msg(kind, a))
    /\ requests' = requests + 1
    /\ UNCHANGED <<state, stack, object, wait, registry, fault, crossings>>

Manager ==
    \/ NotifyAboutNextAction
    \/ \E kind \in {"Launch", "Popup", "Custom", "CustomKeep"} : HandleActionRequest(kind)
    \/ HandleSwitchRequest
    \/ HandleSwitchBack
    \/ HandleInitApplication
    \/ HandleSwitchConfirmation
    \/ HandleFinalizingClose
    \/ HandleCloseConfirmation
    \/ HandleCloseRequest
    \/ HandleActionHandled

App(a) ==
    \/ AppStart(a)
    \/ AppSwitch(a)
    \/ AppLostFocus(a)
    \/ AppClose(a)
    \/ CheckBlockingRequests(a)
    \/ AppAction(a)
    \/ AppExit(a)

Next ==
    \/ Manager
    \/ \E a \in Apps : App(a)
    \/ \E kind \in RequestKinds : \E a \in Apps : Request(kind, a)

Spec == Init /\ [][Next]_vars

\* Of the manager and the applications, one that has something to do does it;
\* that each of them does so is not needed.
FairSpec == Spec /\ WF_vars(Manager \/ \E a \in Apps : App(a))

-----------------------------------------------------------------------------
(***************************************************************************)
(* Properties.                                                             *)
(***************************************************************************)

InForeground == {a \in Apps : StateOf(Now, a) = "ACTIVE_FORGROUND"}

\* Nobody has anything left to do.
Settled ==
    /\ wait = NoApp /\ it = 0 /\ mailbox = <<>>
    /\ \A a \in Apps :
           object[a].alive => /\ object[a].inbox = <<>>
                              /\ object[a].state # "FINALIZING_CLOSE"

\* The handler of ActionHandledResponse looks into the action in progress
\* without a test: whatever requests come at whatever time, also such as cross
\* one another, every answer of an application meets an action in progress.
ActionAnswered == "action" \notin fault

\* ApplicationHandle::closeable looks into the object of the application
\* without a test, and run overwrites the handle: as long as no switch was begun
\* in the middle of another one, a confirmation never comes for an application
\* that has been destroyed, and none is started that exists.
HandlesExist == crossings = 0 => fault \cap {"handle", "object"} = {}

\* When nobody has anything left to do, exactly the application on top of the
\* stack has the focus, and no action was left in the registry, in whatever
\* order launches, switches, steps back, custom actions and popups came, as
\* long as no switch was begun in the middle of another one.
FocusSettles ==
    Settled /\ crossings = 0 =>
        /\ InForeground = {stack[1].app}
        /\ actions = <<>>

\* The requests that have come are done with in the end: unless a switch was
\* begun in the middle of another one, the manager does not switch to and fro
\* for ever, and no request leaves it waiting.
Settles == <>[](crossings # 0 \/ Settled)

\* ACTIVE_FORGROUND: "Application is working and has focus and can render", and
\* ACTIVE_BACKGROUND: "Application lost focus but it is still working".  Whatever
\* requests came, when nobody has anything left to do the focus is with one
\* application and all others have lost it.
OneHasFocus == Settled => \E a \in Apps : InForeground = {a}
=============================================================================
