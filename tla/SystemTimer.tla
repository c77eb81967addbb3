---------------------------- MODULE SystemTimer ----------------------------
(***************************************************************************)
(* The timers of a service: SystemTimer.cpp, TimerHandle.cpp, the list of  *)
(* timers in Service.cpp, and the wrapper of the FreeRTOS timer they are   *)
(* built on (ctimer.cpp).                                                  *)
(*                                                                         *)
(* Two threads.  The service's thread starts, stops and destroys timers,   *)
(* and runs a callback when it takes a TimerMessage from its mailbox.  The *)
(* timer daemon of FreeRTOS carries out the commands start, stop and       *)
(* delete in the order they were sent, and when a timer expires calls Run, *)
(* which sends the message.  The daemon has the lowest priority, so it can *)
(* be interrupted between any two of its steps; commands are sent with no  *)
(* wait for room in its queue, and nobody looks at the result.             *)
(*                                                                         *)
(* A timer is known by its address, which a later timer may be given       *)
(* again.  Each start has a number, its epoch; the code has nothing of     *)
(* the kind.                                                               *)
(***************************************************************************)
EXTENDS Naturals, Sequences

CONSTANTS
    Timers,             \* addresses of timers
    Periodic,           \* those of type Periodic, the others are SingleShot
    TimerQueueLength,   \* configTIMER_QUEUE_LENGTH
    MaxStarts,          \* bound: starts of each timer
    MaxStops,           \* bound: stops of each timer, by its owner
    MaxMessages         \* bound: timer messages in the mailbox

ASSUME SystemTimerAssumption ==
    /\ Periodic \subseteq Timers
    /\ {TimerQueueLength, MaxMessages} \subseteq Nat \ {0}
    /\ {MaxStarts, MaxStops} \subseteq Nat

VARIABLES
    attached,  \* the list of the service: timers that exist
    active,    \* SystemTimer::active
    epoch,     \* number of the last start
    stops,     \* stops so far
    commands,  \* the queue of the daemon
    armed,     \* per FreeRTOS timer: the epoch it runs for, 0 if dormant
    running,   \* what the daemon has begun to call Run for
    mailbox,   \* TimerMessages of the service
    dropped,   \* timers that lost a command to a full queue
    faults

vars == <<attached, active, epoch, stops, commands, armed, running, mailbox, dropped, faults>>

Expiry == [timer : Timers, epoch : Nat]
Command == [op : {"start", "stop", "delete"}, timer : Timers, epoch : Nat]
Idle == <<>>

TypeOK ==
    /\ attached \subseteq Timers
    /\ active \subseteq attached
    /\ epoch \in [Timers -> Nat]
    /\ stops \in [Timers -> Nat]
    /\ commands \in Seq(Command)
    /\ Len(commands) <= TimerQueueLength
    /\ armed \in [Timers -> Nat]
    /\ running \in Seq(Expiry) /\ Len(running) <= 1
    /\ mailbox \in Seq(Expiry)
    /\ dropped \subseteq Timers
    /\ faults \subseteq {"stale callback", "Run of a destroyed timer"}

Init ==
    /\ attached = Timers
    /\ active = {}
    /\ epoch = [t \in Timers |-> 0]
    /\ stops = [t \in Timers |-> 0]
    /\ commands = <<>>
    /\ armed = [t \in Timers |-> 0]
    /\ running = Idle
    /\ mailbox = <<>>
    /\ dropped = {}
    /\ faults = {}

Cmd(op, t, e) == [op |-> op, timer |-> t, epoch |-> e]
Elems(seq) == {seq[i] : i \in DOMAIN seq}
Pending(t) == \E c \in Elems(commands) : c.timer = t

-----------------------------------------------------------------------------
(***************************************************************************)
(* The service's thread.                                                   *)
(***************************************************************************)

\* xTimerStart and xTimerStop with a wait of 0: what finds no room is lost.
SendCommands(t, cmds) ==
    LET room == TimerQueueLength - Len(commands)
        fit  == IF Len(cmds) <= room THEN Len(cmds) ELSE room
    IN  /\ commands' = commands \o SubSeq(cmds, 1, fit)
        /\ dropped' = IF fit < Len(cmds) THEN dropped \cup {t} ELSE dropped

\* stopTimerIfActive
StopIfActive(t) == IF t \in active THEN <<Cmd("stop", t, 0)>> ELSE <<>>

\* Planted defect: the FreeRTOS timer is stopped after it was started.
Launch_StopLast(t, start) ==
    /\ t \in attached
    /\ epoch[t] < MaxStarts
    /\ epoch' = [epoch EXCEPT ![t] = @ + 1]
    /\ SendCommands(t, start \o StopIfActive(t))
    /\ active' = active \cup {t}
    /\ UNCHANGED <<attached, stops, armed, running, mailbox, faults>>

\* stopTimerIfActive, the commands given, and startTimer sets active.
Launch(t, start) ==
    /\ t \in attached
    /\ epoch[t] < MaxStarts
    /\ epoch' = [epoch EXCEPT ![t] = @ + 1]
    /\ SendCommands(t, StopIfActive(t) \o start)
    /\ active' = active \cup {t}
    /\ UNCHANGED <<attached, stops, armed, running, mailbox, faults>>

Start(t) == Launch(t, <<Cmd("start", t, epoch[t] + 1)>>)

\* xTimerChangePeriod in setInterval starts the timer, too.
Restart(t) == Launch(t, <<Cmd("start", t, epoch[t] + 1), Cmd("start", t, epoch[t] + 1)>>)

\* stop
Stop(t) ==
    /\ t \in attached
    /\ stops[t] < MaxStops
    /\ stops' = [stops EXCEPT ![t] = @ + 1]
    /\ active' = active \ {t}
    /\ SendCommands(t, <<Cmd("stop", t, 0)>>)
    /\ UNCHANGED <<attached, epoch, armed, running, mailbox, faults>>

\* TimerHandle::reset and the destructors.  The deletion waits for room in
\* the queue of the daemon; what Run may be at is not waited for.
Destroy(t) ==
    /\ t \in attached
    /\ Len(commands) < TimerQueueLength
    /\ attached' = attached \ {t}
    /\ active' = active \ {t}
    /\ commands' = Append(commands, Cmd("delete", t, 0))
    /\ UNCHANGED <<epoch, stops, armed, running, mailbox, dropped, faults>>

\* A new timer at an address that is free again.
Create(t) ==
    /\ t \notin attached
    /\ ~ Pending(t)
    /\ epoch[t] < MaxStarts
    /\ attached' = attached \cup {t}
    /\ dropped' = dropped \ {t}
    /\ UNCHANGED <<active, epoch, stops, commands, armed, running, mailbox, faults>>

\* Planted defect: the message is dropped.
OnTimeout_Drop ==
    /\ mailbox # <<>>
    /\ mailbox' = Tail(mailbox)
    /\ UNCHANGED <<attached, active, epoch, stops, commands, armed, running, dropped, faults>>

\* TimerHandle and onTimeout: the timer is looked up by its address; unless
\* it is unknown or not active its callback runs, a single-shot timer being
\* stopped first.
OnTimeout ==
    /\ mailbox # <<>>
    /\ LET m == Head(mailbox)
           t == m.timer
       IN  \/ /\ t \notin attached \/ t \notin active
              /\ UNCHANGED <<active, commands, dropped, faults>>
           \/ /\ t \in attached /\ t \in active
              /\ faults' = IF m.epoch = epoch[t] THEN faults ELSE faults \cup {"stale callback"}
              /\ \/ /\ t \notin Periodic
                    /\ active' = active \ {t}
                    /\ SendCommands(t, <<Cmd("stop", t, 0)>>)
                 \/ /\ t \in Periodic
                    /\ UNCHANGED <<active, commands, dropped>>
    /\ mailbox' = Tail(mailbox)
    /\ UNCHANGED <<attached, epoch, stops, armed, running>>

-----------------------------------------------------------------------------
(***************************************************************************)
(* The timer daemon.                                                       *)
(***************************************************************************)

\* External, FreeRTOS: the next command is carried out.
DaemonCommand ==
    /\ running = Idle
    /\ commands # <<>>
    /\ LET c == Head(commands)
       IN  armed' = [armed EXCEPT ![c.timer] = IF c.op = "start" THEN c.epoch ELSE 0]
    /\ commands' = Tail(commands)
    /\ UNCHANGED <<attached, active, epoch, stops, running, mailbox, dropped, faults>>

\* A timer expires; TimerCallbackFunctionAdapter reads its id, which the
\* destructor of the timer has set to null.
DaemonExpire(t) ==
    /\ running = Idle
    /\ armed[t] # 0
    /\ Len(mailbox) < MaxMessages
    /\ running' = IF t \in attached THEN << [timer |-> t, epoch |-> armed[t]] >> ELSE Idle
    /\ armed' = IF t \in Periodic THEN armed ELSE [armed EXCEPT ![t] = 0]
    /\ UNCHANGED <<attached, active, epoch, stops, commands, mailbox, dropped, faults>>

\* Run sends the message.  A unicast that fails loses the expiry, but it fails
\* only for a service that is not registered, and such a service has stopped
\* its timers (CloseHandler): this is left out.
DaemonRun ==
    /\ running # Idle
    /\ LET x == running[1]
       IN  \/ /\ x.timer \in attached
              /\ mailbox' = Append(mailbox, x)
              /\ UNCHANGED faults
           \/ /\ x.timer \notin attached
              /\ faults' = faults \cup {"Run of a destroyed timer"}
              /\ UNCHANGED mailbox
    /\ running' = Idle
    /\ UNCHANGED <<attached, active, epoch, stops, commands, armed, dropped>>

-----------------------------------------------------------------------------

Daemon == DaemonCommand \/ DaemonRun \/ \E t \in Timers : DaemonExpire(t)

Next ==
    \/ \E t \in Timers : Start(t) \/ Restart(t) \/ Stop(t) \/ Destroy(t) \/ Create(t)
    \/ OnTimeout
    \/ Daemon

Spec == Init /\ [][Next]_vars

\* The daemon looks at its timers and at its queue in turn, a timer that is
\* left alone expires, and the service takes messages from its mailbox.
FairSpec ==
    /\ Spec
    /\ SF_vars(DaemonCommand)
    /\ WF_vars(DaemonRun)
    /\ WF_vars(OnTimeout)
    /\ \A t \in Timers : SF_vars(DaemonExpire(t))

-----------------------------------------------------------------------------
(***************************************************************************)
(* Properties.                                                             *)
(***************************************************************************)

OnItsWay(t) ==
    \/ running # Idle /\ running[1].timer = t
    \/ \E m \in Elems(mailbox) : m.timer = t

\* The flag active and the FreeRTOS timer agree once the daemon has caught
\* up, although every start and stop reaches it late: a timer that is not
\* active is dormant, and one that is active runs or its expiry is on its way
\* to the service.  Only a command that found the queue full breaks this.
FlagMatchesTimer ==
    \A t \in attached \ dropped : ~ Pending(t) =>
        /\ armed[t] # 0 => t \in active
        /\ t \in active => armed[t] # 0 \/ OnItsWay(t)

\* A started single-shot timer is stopped or calls back.
StartedFires ==
    \A t \in Timers \ Periodic :
        t \in active ~> t \notin active \/ t \in dropped
=============================================================================
