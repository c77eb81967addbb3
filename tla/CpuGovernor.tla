---------------------------- MODULE CpuGovernor ----------------------------
(***************************************************************************)
(* The frequency of the CPU: sentinels ask for a minimum, the manager's    *)
(* thread collects the requests in CpuGovernor and sets the frequency by   *)
(* PowerManager, and the logger's thread waits for a speed at which it may *)
(* write to the disk.                                                      *)
(*                                                                         *)
(*   module-sys/SystemManager: CpuSentinel.cpp, CpuGovernor.cpp,           *)
(*   GovernorSentinelOperations.cpp, PowerManager.cpp, LogSentinel.cpp,    *)
(*   cpu/, and the handlers of SystemManagerCommon.cpp                     *)
(*   module-bsp/board/rt1051: RT1051LPMCommon.cpp, WfiController.cpp       *)
(*                                                                         *)
(* A sentinel is known by its name; a service that is started again makes  *)
(* a new object of the same name (generation).  Left out: the manager's    *)
(* own sentinel, which asks for nothing until the system closes;           *)
(* TimedCpuSentinel, which no service uses; statistics.                    *)
(***************************************************************************)
EXTENDS Integers, Sequences, FiniteSets, FiniteSetsExt

CONSTANTS Sentinels,        \* names of the sentinels
          Apps,             \* those of applications, which end, and block WFI
          HoldLevels,       \* the levels services ask for
          Loads,            \* loads of the CPU against the two thresholds
          MinimalFrequency, \* PowerProfile::minimalFrequency
          MaxAbove,         \* PowerProfile::maxAboveThresholdCount
          MaxBelow,         \* PowerProfile::maxBelowThresholdCount
          MaxBelowInRow,    \* PowerProfile::maxBelowThresholdInRowCount
          MaxRequests,      \* bound: calls of Hold, Release and BlockWfiMode
          MaxEvents         \* bound: waits of 100 ms without an answer, services
                            \* that end, dumps, and frequencies held for ever

Levels == 0..6              \* bsp::CpuFrequencyMHz

\* No service asks for Level_1.  It would be refused: stepDown goes from
\* Level_2 to the minimal level.
ASSUME CpuGovernorAssumption ==
    /\ IsFiniteSet(Sentinels)
    /\ Apps \subseteq Sentinels
    /\ HoldLevels \subseteq 2..6
    /\ "low" \in Loads /\ Loads \subseteq {"low", "middle", "high"}
    /\ MinimalFrequency \in 0..1
    /\ MaxAbove \in Nat \ {0} /\ MaxBelow \in Nat \ {0}
    /\ MaxBelowInRow \in 1..MaxBelow
    /\ {MaxRequests, MaxEvents} \subseteq Nat

VARIABLES
    alive,            \* the sentinel's object exists
    generation,       \* which object of this name
    hold,             \* CpuSentinel::currentFrequencyToHold
    block,            \* CpuSentinel::blockWfiMode
    known,            \* CpuSentinel::currentFrequency
    waiting,          \* its task is in ulTaskNotifyTake
    notified,         \* the notification value of its task is not zero
    tainted,          \* history: a wait ended without its answer
    mailbox,          \* the manager's mailbox
    sentinels,        \* CpuGovernor::sentinels; the order does not matter
    pc,               \* the manager's thread
    target,           \* the argument of SetCpuFrequency
    reply,            \* the message whose handler runs, if one does
    frequency,        \* LowPowerMode::currentFrequency
    wfiAllowed,       \* wfiModeAllowed of WfiController
    permanent,        \* FrequencyHold::toHold, or NoLevel
    held,             \* history: no update since a frequency was held for ever
    stepping,         \* the counters of FrequencyStepping
    load,             \* the load of the CPU against the thresholds
    log,              \* the logger's thread
    frequencyRequest, \* LogSentinel::frequencyRequest
    dumpPermission,   \* LogSentinel::dumpPermission
    mutex,            \* who has LogSentinel::mutex
    stolen,           \* history: it was given by a task that did not have it
    used              \* what was used of the bounds

NoLevel == -1
NoStepping == [above |-> 0, below |-> 0, inProgress |-> FALSE]

Msg(kind, s, value) ==
    [kind |-> kind, name |-> s, generation |-> generation[s], value |-> value]
Tick == [kind |-> "Tick"]   \* the message of freqTimer
Wake == [kind |-> "Wake"]   \* the end of that handler, after WFI
Messages ==
    [kind : {"Register"}, name : Sentinels, generation : Nat, value : {0}]
      \cup [kind : {"Hold"}, name : Sentinels, generation : Nat, value : HoldLevels]
      \cup [kind : {"Release"}, name : Sentinels, generation : Nat, value : {0}]
      \cup [kind : {"BlockWfi"}, name : Sentinels, generation : Nat, value : BOOLEAN]

\* GovernorSentinel of a new sentinel.
Entry(s) == [name |-> s, generation |-> generation[s], requested |-> 0,
             wfiBlocked |-> FALSE]

TypeOK ==
    /\ alive \in [Sentinels -> BOOLEAN]
    /\ generation \in [Sentinels -> Nat]
    /\ hold \in [Sentinels -> HoldLevels \cup {0}]
    /\ block \in [Sentinels -> BOOLEAN]
    /\ known \in [Sentinels -> Levels]
    /\ waiting \in [Sentinels -> BOOLEAN]
    /\ notified \in [Sentinels -> BOOLEAN]
    /\ tainted \in [Sentinels -> BOOLEAN]
    /\ mailbox \in Seq(Messages)
    /\ sentinels \subseteq
          [name : Sentinels, generation : Nat, requested : HoldLevels \cup {0},
           wfiBlocked : BOOLEAN]
    /\ pc \in {"loop", "set", "publish", "done"}
    /\ target \in Levels
    /\ reply \in Messages \cup {Tick, Wake}
    /\ frequency \in Levels
    /\ wfiAllowed \in BOOLEAN
    /\ permanent \in Levels \cup {NoLevel}
    /\ held \in BOOLEAN
    /\ stepping \in [above : 0..(MaxAbove - 1), below : 0..MaxBelow, inProgress : BOOLEAN]
    /\ load \in Loads
    /\ log \in {"idle", "want", "dump", "dumpWithoutMutex"}
    /\ frequencyRequest \in BOOLEAN /\ dumpPermission \in BOOLEAN
    /\ mutex \in {"free", "log", "manager"}
    /\ stolen \in BOOLEAN
    /\ used \in [requests : 0..MaxRequests, events : 0..MaxEvents]

sentinelVars == <<alive, generation, hold, block, waiting, notified, tainted>>
governorVars == <<sentinels, known>>
powerVars == <<target, frequency, wfiAllowed, permanent, held, stepping>>
logVars == <<log, frequencyRequest, dumpPermission, mutex, stolen>>
vars == <<sentinelVars, governorVars, powerVars, logVars, mailbox, pc, reply,
          load, used>>

\* Every sentinel is registered; the device boots at the highest level.
Init ==
    /\ alive = [s \in Sentinels |-> TRUE]
    /\ generation = [s \in Sentinels |-> 0]
    /\ hold = [s \in Sentinels |-> 0]
    /\ block = [s \in Sentinels |-> FALSE]
    /\ known = [s \in Sentinels |-> 6]
    /\ waiting = [s \in Sentinels |-> FALSE]
    /\ notified = [s \in Sentinels |-> FALSE]
    /\ tainted = [s \in Sentinels |-> FALSE]
    /\ mailbox = <<>>
    /\ sentinels = {Entry(s) : s \in Sentinels}
    /\ pc = "loop"
    /\ target = 6
    /\ reply = Tick
    /\ frequency = 6
    /\ wfiAllowed = FALSE
    /\ permanent = NoLevel
    /\ held = FALSE
    /\ stepping = NoStepping
    /\ load = "low"
    /\ log = "idle"
    /\ frequencyRequest = FALSE
    /\ dumpPermission = TRUE
    /\ mutex = "free"
    /\ stolen = FALSE
    /\ used = [requests |-> 0, events |-> 0]

-----------------------------------------------------------------------------
(***************************************************************************)
(* Sentinels, in the tasks of their services.                              *)
(***************************************************************************)

UseRequest ==
    /\ used.requests < MaxRequests
    /\ used' = [used EXCEPT !.requests = @ + 1]
UseEvent ==
    /\ used.events < MaxEvents
    /\ used' = [used EXCEPT !.events = @ + 1]

Post(m) == mailbox' = Append(mailbox, m)

Call(s) ==
    /\ alive[s]
    /\ ~waiting[s]
    /\ UseRequest

\* Planted defect: the task does not wait.
HoldMinimumFrequency_NoWait(s, level) ==
    /\ Call(s)
    /\ hold[s] # level
    /\ Post(Msg("Hold", s, level))
    /\ hold' = [hold EXCEPT ![s] = level]
    /\ UNCHANGED <<alive, generation, block, waiting, notified, tainted,
                   governorVars, powerVars, logVars, pc, reply, load>>

HoldMinimumFrequency(s, level) ==
    /\ Call(s)
    /\ hold[s] # level
    /\ Post(Msg("Hold", s, level))
    /\ hold' = [hold EXCEPT ![s] = level]
    /\ waiting' = [waiting EXCEPT ![s] = TRUE]
    /\ UNCHANGED <<alive, generation, block, notified, tainted, governorVars,
                   powerVars, logVars, pc, reply, load>>

\* Planted defect: the request is forgotten before the guard looks at it.
ReleaseMinimumFrequency_NotSent(s) ==
    /\ Call(s)
    /\ hold[s] # 0
    /\ hold' = [hold EXCEPT ![s] = 0]
    /\ UNCHANGED <<alive, generation, block, waiting, notified, tainted, mailbox,
                   governorVars, powerVars, logVars, pc, reply, load>>

ReleaseMinimumFrequency(s) ==
    /\ Call(s)
    /\ hold[s] # 0
    /\ Post(Msg("Release", s, 0))
    /\ hold' = [hold EXCEPT ![s] = 0]
    /\ UNCHANGED <<alive, generation, block, waiting, notified, tainted,
                   governorVars, powerVars, logVars, pc, reply, load>>

BlockWfiMode(s) ==
    /\ s \in Apps
    /\ Call(s)
    /\ Post(Msg("BlockWfi", s, ~block[s]))
    /\ block' = [block EXCEPT ![s] = ~@]
    /\ waiting' = [waiting EXCEPT ![s] = TRUE]
    /\ UNCHANGED <<alive, generation, hold, notified, tainted, governorVars,
                   powerVars, logVars, pc, reply, load>>

\* ulTaskNotifyTake returns with a notification, or after 100 ms without.
Notified(s) ==
    /\ waiting[s]
    /\ notified[s]
    /\ waiting' = [waiting EXCEPT ![s] = FALSE]
    /\ notified' = [notified EXCEPT ![s] = FALSE]
    /\ UNCHANGED <<alive, generation, hold, block, tainted, mailbox, governorVars,
                   powerVars, logVars, pc, reply, load, used>>

NotNotified(s) ==
    /\ waiting[s]
    /\ ~notified[s]
    /\ UseEvent
    /\ waiting' = [waiting EXCEPT ![s] = FALSE]
    /\ tainted' = [tainted EXCEPT ![s] = TRUE]
    /\ UNCHANGED <<alive, generation, hold, block, notified, mailbox, governorVars,
                   powerVars, logVars, pc, reply, load>>

\* The service ends, and with it the object; the governor has a weak pointer.
Destroy(s) ==
    /\ s \in Apps
    /\ alive[s]
    /\ ~waiting[s]
    /\ UseEvent
    /\ alive' = [alive EXCEPT ![s] = FALSE]
    /\ hold' = [hold EXCEPT ![s] = 0]
    /\ block' = [block EXCEPT ![s] = FALSE]
    /\ notified' = [notified EXCEPT ![s] = FALSE]
    /\ known' = [known EXCEPT ![s] = 0]
    /\ UNCHANGED <<generation, waiting, tainted, mailbox, sentinels, powerVars,
                   logVars, pc, reply, load>>

Create(s) ==
    /\ ~alive[s]
    /\ alive' = [alive EXCEPT ![s] = TRUE]
    /\ generation' = [generation EXCEPT ![s] = @ + 1]
    /\ mailbox' = Append(mailbox, [kind |-> "Register", name |-> s,
                                   generation |-> generation'[s], value |-> 0])
    /\ UNCHANGED <<hold, block, waiting, notified, tainted, governorVars, powerVars,
                   logVars, pc, reply, load, used>>

-----------------------------------------------------------------------------
(***************************************************************************)
(* CpuGovernor and the algorithms.                                         *)
(***************************************************************************)

\* The weak pointer has not expired.
Live(e) == alive[e.name] /\ e.generation = generation[e.name]

clean(entries) == {e \in entries : Live(e)}

LogLevel == 4

\* LogSentinel::GetRequestedFrequency
LogRequest ==
    IF frequencyRequest \/ (dumpPermission /\ mutex # "free") THEN LogLevel ELSE 0

GetMinimumFrequencyRequested(entries) ==
    Max({0, LogRequest} \cup {e.requested : e \in clean(entries)})

stepDown(f) == IF f > 2 THEN f - 1 ELSE MinimalFrequency

\* The counters for this measurement of the load.  belowThresholdCounter goes
\* on while a request keeps the frequency up; it is only compared with
\* MaxBelow and stays there.
Counted ==
    LET above == IF load = "high" /\ frequency < 6 THEN stepping.above + 1 ELSE 0
        below == IF load = "low" /\ frequency > MinimalFrequency
                 THEN IF stepping.below < MaxBelow THEN stepping.below + 1 ELSE MaxBelow
                 ELSE 0
    IN [above |-> above, below |-> below,
        inProgress |-> stepping.inProgress /\ below # 0]

Reset(counters) == [counters EXCEPT !.above = 0, !.below = 0]

NoChange(counters) == [value |-> frequency, stepping |-> counters]
Change(level, counters) == [value |-> level, stepping |-> Reset(counters)]

\* Planted defect: the minimum is not looked at on the way down.
FrequencyStepping_NoMinimum(minimum) ==
    LET c == Counted
    IN CASE c.above >= MaxAbove -> Change(IF frequency < 4 THEN 4 ELSE 6, c)
         [] c.above < MaxAbove
              /\ c.below >= (IF c.inProgress THEN MaxBelowInRow ELSE MaxBelow) ->
                  Change(stepDown(frequency), [c EXCEPT !.inProgress = TRUE])
         [] OTHER -> NoChange(c)

\* Planted defect: the threshold for further steps is off by one.
FrequencyStepping_Never(minimum) ==
    LET c == Counted
    IN CASE c.above >= MaxAbove -> Change(IF frequency < 4 THEN 4 ELSE 6, c)
         [] c.above < MaxAbove /\ frequency > minimum
              /\ c.below > (IF c.inProgress THEN MaxBelowInRow ELSE MaxBelow) ->
                  Change(stepDown(frequency), [c EXCEPT !.inProgress = TRUE])
         [] OTHER -> NoChange(c)

FrequencyStepping(minimum) ==
    LET c == Counted
    IN CASE c.above >= MaxAbove -> Change(IF frequency < 4 THEN 4 ELSE 6, c)
         [] c.above < MaxAbove /\ frequency > minimum
              /\ c.below >= (IF c.inProgress THEN MaxBelowInRow ELSE MaxBelow) ->
                  Change(stepDown(frequency), [c EXCEPT !.inProgress = TRUE])
         [] OTHER -> NoChange(c)

FrequencyHold ==
    IF permanent = frequency THEN NoChange(stepping)
    ELSE Change(Max({permanent, MinimalFrequency}), stepping)

\* AlgorithmFactory::calculate with FrequencyHold, ImmediateUpscale and
\* FrequencyStepping, and the reset after a change.
Calculate(minimum) ==
    CASE permanent # NoLevel -> FrequencyHold
      [] permanent = NoLevel /\ minimum > frequency -> Change(minimum, stepping)
      [] OTHER -> FrequencyStepping(minimum)

-----------------------------------------------------------------------------
(***************************************************************************)
(* The manager's thread.                                                   *)
(***************************************************************************)

\* UpdateCpuFrequency up to SetCpuFrequency, in the handler of message m.
UpdateCpuFrequency(entries, m) ==
    LET result == Calculate(GetMinimumFrequencyRequested(entries))
    IN /\ sentinels' = clean(entries)
       /\ stepping' = result.stepping
       /\ held' = (held /\ permanent # NoLevel)
       /\ target' = result.value
       /\ pc' = IF result.value = frequency THEN "done" ELSE "set"
       /\ reply' = m
       /\ UNCHANGED <<sentinelVars, known, frequency, wfiAllowed, permanent,
                      logVars, load, used>>

\* SetCpuFrequencyRequest and ResetCpuFrequencyRequest of CpuGovernor.
SetRequested(m) ==
    {IF Live(e) /\ e.name = m.name THEN [e EXCEPT !.requested = m.value] ELSE e :
       e \in sentinels}

Pop(m) ==
    /\ pc = "loop"
    /\ mailbox # <<>>
    /\ m = Head(mailbox)
    /\ mailbox' = Tail(mailbox)

HandleHoldRelease ==
    \E m \in {Head(mailbox) : i \in DOMAIN mailbox} :
        /\ Pop(m)
        /\ m.kind \in {"Hold", "Release"}
        /\ UpdateCpuFrequency(SetRequested(m), m)

\* xTaskNotifyGive.  The handle of a task that has ended is freed memory, in
\* which the task of a new service may be.
Notify(m) ==
    IF alive[m.name] /\ m.generation = generation[m.name]
    THEN notified' = [notified EXCEPT ![m.name] = TRUE]
    ELSE \E hit \in BOOLEAN :
           notified' = [notified EXCEPT ![m.name] = @ \/ (hit /\ alive[m.name])]

\* Planted defect: the task is told, the governor is not.
HandleBlockWfi_OnlyNotify ==
    \E m \in {Head(mailbox) : i \in DOMAIN mailbox} :
        /\ Pop(m)
        /\ m.kind = "BlockWfi"
        /\ Notify(m)
        /\ UNCHANGED <<alive, generation, hold, block, waiting, tainted, governorVars,
                       powerVars, logVars, pc, reply, load, used>>

HandleBlockWfi ==
    \E m \in {Head(mailbox) : i \in DOMAIN mailbox} :
        /\ Pop(m)
        /\ m.kind = "BlockWfi"
        /\ sentinels' = {IF Live(e) /\ e.name = m.name
                         THEN [e EXCEPT !.wfiBlocked = m.value] ELSE e :
                           e \in sentinels}
        /\ Notify(m)
        /\ UNCHANGED <<alive, generation, hold, block, waiting, tainted, known,
                       powerVars, logVars, pc, reply, load, used>>

\* Planted defect: a new sentinel is not told the frequency.
HandleRegister_NotTold ==
    \E m \in {Head(mailbox) : i \in DOMAIN mailbox} :
        /\ Pop(m)
        /\ m.kind = "Register"
        /\ \A e \in clean(sentinels) : e.name # m.name
        /\ sentinels' = clean(sentinels) \cup
               {[Entry(m.name) EXCEPT !.generation = m.generation]}
        /\ UNCHANGED <<sentinelVars, known, powerVars, logVars, pc, reply, load, used>>

\* RegisterNewSentinel and ReadRegistrationData.
HandleRegister ==
    \E m \in {Head(mailbox) : i \in DOMAIN mailbox} :
        /\ Pop(m)
        /\ m.kind = "Register"
        /\ \A e \in clean(sentinels) : e.name # m.name
        /\ sentinels' = clean(sentinels) \cup
               {[Entry(m.name) EXCEPT !.generation = m.generation]}
        /\ known' = [known EXCEPT ![m.name] = frequency]
        /\ UNCHANGED <<sentinelVars, powerVars, logVars, pc, reply, load, used>>

\* FreqUpdateTick, every 100 ms.
FreqUpdateTick ==
    /\ pc = "loop"
    /\ UpdateCpuFrequency(sentinels, Tick)
    /\ UNCHANGED mailbox

\* lowPowerControl->SetCpuFrequency, with onChangeUp and onChangeDown.
SetFrequency ==
    /\ pc = "set"
    /\ frequency' = target
    /\ wfiAllowed' = CASE frequency <= 1 /\ target > 1 -> FALSE
                       [] target < frequency /\ target <= 1 -> TRUE
                       [] OTHER -> wfiAllowed
    /\ pc' = "publish"
    /\ UNCHANGED <<sentinelVars, governorVars, target, permanent, held, stepping,
                   logVars, mailbox, reply, load, used>>

\* Planted defect: permission is withdrawn although the mutex was not taken.
UpdateCurrentFrequency_Ignored ==
    LET newPermission == target >= LogLevel
    IN /\ mutex' = CASE dumpPermission = newPermission -> mutex
                     [] ~dumpPermission /\ newPermission -> "free"
                     [] OTHER -> IF mutex = "free" THEN "manager" ELSE mutex
       /\ dumpPermission' = newPermission

\* LogSentinel::UpdateCurrentFrequency
UpdateCurrentFrequency ==
    LET newPermission == target >= LogLevel
        failed == dumpPermission /\ ~newPermission /\ mutex # "free"
    IN /\ mutex' = CASE failed \/ dumpPermission = newPermission -> mutex
                     [] ~failed /\ ~dumpPermission /\ newPermission -> "free"
                     [] OTHER -> "manager"
       /\ dumpPermission' = (newPermission \/ failed)

\* The rest of SetCpuFrequency: InformSentinelsAboutCpuFrequencyChange.
Publish ==
    /\ pc = "publish"
    /\ UpdateCurrentFrequency
    /\ sentinels' = clean(sentinels)
    /\ known' = [s \in Sentinels |->
                   IF \E e \in clean(sentinels) : e.name = s THEN target ELSE known[s]]
    /\ pc' = "done"
    /\ UNCHANGED <<sentinelVars, powerVars, log, frequencyRequest, stolen, mailbox,
                   reply, load, used>>

\* The end of a handler: HoldCpuFrequencyMessage is answered.
Answer ==
    /\ pc = "done"
    /\ reply.kind \in {"Hold", "Release", "Wake"}
    /\ pc' = "loop"
    /\ reply' = Tick
    /\ IF reply.kind = "Hold" THEN Notify(reply) ELSE UNCHANGED notified
    /\ UNCHANGED <<alive, generation, hold, block, waiting, tainted, governorVars,
                   powerVars, logVars, mailbox, load, used>>

\* EnterWfiIfReady: blocked, not allowed, or a timer is due soon.
StayAwake ==
    /\ pc = "done"
    /\ reply = Tick
    /\ pc' = "loop"
    /\ \/ /\ (\E e \in sentinels : e.wfiBlocked) \/ ~wfiAllowed
          /\ UNCHANGED wfiAllowed
       \/ /\ \A e \in sentinels : ~e.wfiBlocked
          /\ wfiAllowed
          /\ wfiAllowed' = FALSE
    /\ UNCHANGED <<sentinelVars, governorVars, target, frequency, permanent, held,
                   stepping, logVars, mailbox, reply, load, used>>

\* The CPU stops until an interrupt; then the frequency is raised.
EnterWfi ==
    /\ pc = "done"
    /\ reply = Tick
    /\ \A e \in sentinels : ~e.wfiBlocked
    /\ wfiAllowed
    /\ target' = 4
    /\ pc' = "set"
    /\ reply' = Wake
    /\ UNCHANGED <<sentinelVars, governorVars, frequency, wfiAllowed, permanent,
                   held, stepping, logVars, mailbox, load, used>>

SetPermanentFrequency(level) ==
    /\ pc = "loop"
    /\ UseEvent
    /\ permanent' = level
    /\ held' = TRUE
    /\ UNCHANGED <<sentinelVars, governorVars, target, frequency, wfiAllowed,
                   stepping, logVars, mailbox, pc, reply, load>>

ResetPermanentFrequency ==
    /\ pc = "loop"
    /\ permanent # NoLevel
    /\ permanent' = NoLevel
    /\ UNCHANGED <<sentinelVars, governorVars, target, frequency, wfiAllowed, held,
                   stepping, logVars, mailbox, pc, reply, load, used>>

-----------------------------------------------------------------------------
(***************************************************************************)
(* The logger's thread: preDumpToFile and postDumpToFile.                  *)
(***************************************************************************)

logRest == <<sentinelVars, governorVars, powerVars, mailbox, pc, reply, load>>

LogHold ==
    /\ log = "idle"
    /\ UseEvent
    /\ log' = "want"
    /\ frequencyRequest' = TRUE
    /\ UNCHANGED <<dumpPermission, mutex, stolen, logRest>>

LogTake ==
    /\ log = "want"
    /\ mutex = "free"
    /\ mutex' = "log"
    /\ log' = "dump"
    /\ frequencyRequest' = FALSE
    /\ UNCHANGED <<dumpPermission, stolen, used, logRest>>

\* No mutex in 100 s, a thousand ticks: only if a frequency is held for ever.
LogTimeout ==
    /\ log = "want"
    /\ mutex # "free"
    /\ held
    /\ log' = "dumpWithoutMutex"
    /\ frequencyRequest' = FALSE
    /\ UNCHANGED <<dumpPermission, mutex, stolen, used, logRest>>

LogRelease ==
    /\ log \in {"dump", "dumpWithoutMutex"}
    /\ log' = "idle"
    /\ stolen' = (stolen \/ (log = "dumpWithoutMutex" /\ mutex # "free"))
    /\ mutex' = "free"
    /\ UNCHANGED <<frequencyRequest, dumpPermission, used, logRest>>

\* The load of the CPU changes.
ChangeLoad ==
    /\ load' \in Loads \ {load}
    /\ UNCHANGED <<sentinelVars, governorVars, powerVars, logVars, mailbox, pc,
                   reply, used>>

HandleMessage == HandleHoldRelease \/ HandleBlockWfi \/ HandleRegister

\* The manager inside a handler.
HandlerStep == SetFrequency \/ Publish \/ Answer \/ StayAwake \/ EnterWfi

SentinelStep(s) ==
    \/ \E level \in HoldLevels : HoldMinimumFrequency(s, level)
    \/ ReleaseMinimumFrequency(s)
    \/ BlockWfiMode(s)
    \/ Notified(s)
    \/ NotNotified(s)
    \/ Destroy(s)
    \/ Create(s)

Next ==
    \/ HandleMessage
    \/ FreqUpdateTick
    \/ HandlerStep
    \/ \E level \in HoldLevels : SetPermanentFrequency(level)
    \/ ResetPermanentFrequency
    \/ \E s \in Sentinels : SentinelStep(s)
    \/ LogHold \/ LogTake \/ LogTimeout \/ LogRelease
    \/ ChangeLoad

Spec == Init /\ [][Next]_vars

\* The manager's thread runs.  The messages of the sentinels and of freqTimer
\* wait in one queue, so neither keeps the other from being handled.
FairSpec ==
    /\ Spec
    /\ WF_vars(HandlerStep)
    /\ SF_vars(HandleMessage)
    /\ SF_vars(FreqUpdateTick)

-----------------------------------------------------------------------------
(***************************************************************************)
(* Properties.                                                             *)
(***************************************************************************)

\* What sentinel s asked for last, according to the messages under way.
LastAsked(s, kinds, default) ==
    LET mine == {i \in DOMAIN mailbox : /\ mailbox[i].kind \in kinds
                                        /\ mailbox[i].name = s
                                        /\ mailbox[i].generation = generation[s]}
    IN IF mine = {} THEN default ELSE mailbox[Max(mine)].value

\* The governor and the sentinel agree once the messages under way are
\* handled, although the sentinel sends only changes, its answers may be
\* late and its name may have belonged to another object: a request is
\* neither lost nor kept too long.
RequestsReach ==
    \A s \in Sentinels : alive[s] =>
        LET mine == {e \in sentinels : Live(e) /\ e.name = s}
            requested == IF mine = {} THEN 0 ELSE (CHOOSE e \in mine : TRUE).requested
            blocked == mine # {} /\ (CHOOSE e \in mine : TRUE).wfiBlocked
        IN /\ Cardinality(mine) <= 1
           /\ LastAsked(s, {"Register", "Hold", "Release"}, requested) = hold[s]
           /\ LastAsked(s, {"BlockWfi"}, blocked) = block[s]

\* Between two messages the CPU is at least as fast as every sentinel the
\* governor knows asked for, unless a frequency is held for ever.
RequestsHonoured ==
    pc = "loop" /\ ~held => \A e \in sentinels : Live(e) => frequency >= e.requested

\* "After changing CPU frequency, all sentinels must be synchronously
\* updated": between two messages every registered one knows the frequency.
SentinelsInformed ==
    pc = "loop" => \A e \in sentinels : Live(e) => known[e.name] = frequency

\* Between two messages the manager has the logger's mutex exactly when it
\* has withdrawn the permission to dump, so that it gives only what it took:
\* also if the logger took the mutex while the frequency was going down.
MutexMatchesPermission ==
    pc = "loop" /\ ~stolen => (dumpPermission <=> mutex # "manager")

\* HoldMinimumFrequency and BlockWfiMode do what they say before they
\* return, unless this task did not get an answer in time once, after which
\* the late answer is taken for that of the next call.
AnsweredMeansDone ==
    [][ \A s \in Sentinels :
          waiting[s] /\ ~waiting'[s] /\ ~tainted'[s] =>
             /\ \A e \in sentinels : Live(e) /\ e.name = s =>
                   e.requested = hold[s] /\ e.wfiBlocked = block[s]
             /\ held \/ pc # "loop" \/ frequency >= hold[s] ]_vars

\* The handle of a task in a message is valid, unless that task gave up
\* waiting for the answer.
HandlesValid ==
    \A i \in DOMAIN mailbox :
        mailbox[i].kind \in {"Hold", "BlockWfi"} =>
            \/ alive[mailbox[i].name] /\ mailbox[i].generation = generation[mailbox[i].name]
            \/ tainted[mailbox[i].name]

\* Without load and requests the CPU comes down to its lowest level.
Quiet ==
    /\ load = "low"
    /\ log = "idle"
    /\ ~held
    /\ \A s \in Sentinels : hold[s] = 0
DropsToMinimum == <>[]Quiet => []<>(frequency = MinimalFrequency)
=============================================================================
