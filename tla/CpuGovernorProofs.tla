------------------------- MODULE CpuGovernorProofs -------------------------
(***************************************************************************)
(* The CPU governor keeps its promises for any set of sentinels, any       *)
(* levels they ask for, any thresholds, and any number of calls, missed    *)
(* answers and restarted services.                                         *)
(***************************************************************************)
EXTENDS CpuGovernor, FiniteSetTheorems, WellFoundedInduction, TLAPS

-----------------------------------------------------------------------------
(***************************************************************************)
(* The parts of the inductive invariant.                                   *)
(***************************************************************************)

\* What the other parts need to know of the kinds of values.
SentinelTypes ==
    /\ alive \in [Sentinels -> BOOLEAN]
    /\ generation \in [Sentinels -> Nat]
    /\ hold \in [Sentinels -> HoldLevels \cup {0}]
    /\ block \in [Sentinels -> BOOLEAN]
    /\ waiting \in [Sentinels -> BOOLEAN]
    /\ notified \in [Sentinels -> BOOLEAN]
    /\ tainted \in [Sentinels -> BOOLEAN]

MailTypes ==
    /\ mailbox \in Seq(Messages)
    /\ reply \in Messages \cup {Tick, Wake}
    /\ pc = "loop" => reply = Tick

EntryOK(e) ==
    e \in [name : Sentinels, generation : Nat, requested : HoldLevels \cup {0},
          wfiBlocked : BOOLEAN]

PowerTypes ==
    /\ pc \in {"loop", "set", "publish", "done"}
    /\ target \in Levels
    /\ frequency \in Levels
    /\ wfiAllowed \in BOOLEAN
    /\ permanent \in Levels \cup {NoLevel}
    /\ held \in BOOLEAN
    /\ known \in [Sentinels -> Levels]
    /\ stepping \in [above : Nat, below : Nat, inProgress : BOOLEAN]

\* An entry of the governor is of this or of an earlier object of its name,
\* and of this one there is at most one.
Entries ==
    /\ \A e \in sentinels : EntryOK(e) /\ e.generation <= generation[e.name]
    /\ \A d, e \in sentinels : Live(d) /\ Live(e) /\ d.name = e.name => d = e

Generations ==
    \A i \in DOMAIN mailbox : mailbox[i].generation <= generation[mailbox[i].name]

\* The governor has an entry of the object of this name.
Present(s) == \E e \in sentinels : Live(e) /\ e.name = s

\* The sentinel of this name is known to the governor; the messages of
\* earlier objects are all handled.
Registered(s) ==
    /\ Present(s)
    /\ \A j \in DOMAIN mailbox : mailbox[j].name = s =>
          mailbox[j].generation = generation[s] /\ mailbox[j].kind # "Register"

\* Its registration is message i: what an earlier object sent is before it,
\* what this one sent is behind it.
Registering(s, i) ==
    /\ ~Present(s)
    /\ mailbox[i].kind = "Register"
    /\ mailbox[i].name = s
    /\ mailbox[i].generation = generation[s]
    /\ \A j \in DOMAIN mailbox : mailbox[j].name = s =>
          /\ j < i => mailbox[j].generation < generation[s]
          /\ j > i => mailbox[j].generation = generation[s] /\ mailbox[j].kind # "Register"

Registration ==
    \A s \in Sentinels : alive[s] =>
        Registered(s) \/ \E i \in DOMAIN mailbox : Registering(s, i)

\* Message i is the last of these kinds that the object of this name sent.
Mine(s, kinds, i) ==
    /\ mailbox[i].kind \in kinds
    /\ mailbox[i].name = s
    /\ mailbox[i].generation = generation[s]
Newest(s, kinds, i) ==
    /\ Mine(s, kinds, i)
    /\ \A j \in DOMAIN mailbox : j > i => ~Mine(s, kinds, j)

HoldKinds == {"Register", "Hold", "Release"}
BlockKinds == {"BlockWfi"}

\* The newest message, or the entry if there is none, has the sentinel's
\* value.
HoldReaches(s) ==
    /\ \A i \in DOMAIN mailbox : Newest(s, HoldKinds, i) => mailbox[i].value = hold[s]
    /\ (\A i \in DOMAIN mailbox : ~Mine(s, HoldKinds, i)) =>
          \A e \in sentinels : Live(e) /\ e.name = s => e.requested = hold[s]
BlockReaches(s) ==
    /\ \A i \in DOMAIN mailbox : Newest(s, BlockKinds, i) => mailbox[i].value = block[s]
    /\ (\A i \in DOMAIN mailbox : ~Mine(s, BlockKinds, i)) =>
          /\ \A e \in sentinels : Live(e) /\ e.name = s => e.wfiBlocked = block[s]
          /\ ~Present(s) => ~block[s]
Reaches ==
    \A s \in Sentinels : /\ alive[s] => HoldReaches(s) /\ BlockReaches(s)
                         /\ ~alive[s] => hold[s] = 0 /\ ~block[s]

Asks == {"Hold", "BlockWfi"}

\* One call at a time: a task that never missed an answer waits for the
\* message it asked with last, for the answer in the making, or for the
\* notification it has not seen.
OneCall(s) ==
    /\ notified[s] => waiting[s] /\ \A i \in DOMAIN mailbox : mailbox[i].name # s
    /\ reply.kind = "Hold" /\ reply.name = s =>
          /\ waiting[s] /\ ~notified[s]
          /\ reply.generation = generation[s]
          /\ \A i \in DOMAIN mailbox : mailbox[i].name # s
    /\ \A i \in DOMAIN mailbox : mailbox[i].name = s /\ mailbox[i].kind \in Asks =>
          /\ waiting[s] /\ ~notified[s]
          /\ mailbox[i].generation = generation[s]
          /\ \A j \in DOMAIN mailbox : mailbox[j].name = s => j <= i

Calls ==
    \A s \in Sentinels : (waiting[s] => alive[s]) /\ (~tainted[s] => OneCall(s))

\* The frequency against the requests, also inside a handler.
Honoured ==
    /\ permanent # NoLevel => held
    /\ wfiAllowed => frequency <= 1
    /\ ~held => \A e \in sentinels : Live(e) =>
          IF pc = "set" THEN target >= e.requested ELSE frequency >= e.requested

\* The frequency that was set and the one the sentinels know.
Informed ==
    /\ pc = "publish" => target = frequency
    /\ pc # "publish" => \A e \in sentinels : Live(e) => known[e.name] = frequency

\* The logger's mutex and the permission to dump, also inside a handler.
MutexInv ==
    ~stolen => /\ dumpPermission <=> mutex # "manager"
               /\ log = "dump" => mutex = "log"

CpuInv ==
    /\ SentinelTypes /\ MailTypes /\ PowerTypes /\ Entries /\ Generations
    /\ Registration /\ Reaches /\ Calls /\ Honoured /\ Informed /\ MutexInv

-----------------------------------------------------------------------------
(***************************************************************************)
(* The logger's mutex.                                                     *)
(***************************************************************************)

\* The mutex and the permission change hands together, whatever the manager
\* (UpdateCurrentFrequency) and the logger do.
LEMMA MutexStep == MutexInv /\ [Next]_vars => MutexInv'
<1> SUFFICES ASSUME MutexInv, [Next]_vars PROVE MutexInv'
    OBVIOUS
<1> USE DEF MutexInv
<1>1. CASE UNCHANGED logVars
      BY <1>1 DEF logVars
<1>2. CASE Publish
      BY <1>2 DEF Publish, UpdateCurrentFrequency
<1>3. CASE LogHold \/ LogTake \/ LogTimeout \/ LogRelease
      BY <1>3 DEF LogHold, LogTake, LogTimeout, LogRelease
<1>4. UNCHANGED logVars \/ Publish \/ LogHold \/ LogTake \/ LogTimeout \/ LogRelease
      BY DEF Next, HandleMessage, HandleHoldRelease, HandleBlockWfi, HandleRegister,
             UpdateCpuFrequency, FreqUpdateTick, HandlerStep, SetFrequency, Answer,
             StayAwake, EnterWfi, SetPermanentFrequency, ResetPermanentFrequency,
             SentinelStep, HoldMinimumFrequency, ReleaseMinimumFrequency, BlockWfiMode,
             Notified, NotNotified, Destroy, Create, ChangeLoad, vars
<1> QED
    BY <1>1, <1>2, <1>3, <1>4

-----------------------------------------------------------------------------
(***************************************************************************)
(* Types.                                                                  *)
(***************************************************************************)

\* The fields of a message (sys::Message and its descendants).
LEMMA MessageFields ==
    ASSUME NEW m \in Messages
    PROVE  /\ m.kind \in {"Register", "Hold", "Release", "BlockWfi"}
           /\ m.name \in Sentinels
           /\ m.generation \in Nat
           /\ m.kind = "Register" => m.value = 0
           /\ m.kind = "Hold" => m.value \in HoldLevels
           /\ m.kind = "Release" => m.value = 0
           /\ m.kind = "BlockWfi" => m.value \in BOOLEAN
BY DEF Messages

\* The handlers take the first message and leave the others in order.
LEMMA PopFacts ==
    ASSUME mailbox \in Seq(Messages), NEW m, Pop(m)
    PROVE  /\ pc = "loop"
           /\ m \in Messages /\ 1 \in DOMAIN mailbox /\ m = mailbox[1]
           /\ mailbox' \in Seq(Messages)
           /\ DOMAIN mailbox = 1..Len(mailbox) /\ Len(mailbox) \in Nat
           /\ DOMAIN mailbox' = 1..(Len(mailbox) - 1)
           /\ \A i \in DOMAIN mailbox' : i + 1 \in DOMAIN mailbox /\ mailbox'[i] = mailbox[i + 1]
           /\ \A i \in DOMAIN mailbox : i > 1 =>
                 i - 1 \in DOMAIN mailbox' /\ mailbox'[i - 1] = mailbox[i]
BY DEF Pop

\* A message is sent behind the others.
LEMMA PostFacts ==
    ASSUME mailbox \in Seq(Messages), NEW m \in Messages, mailbox' = Append(mailbox, m)
    PROVE  /\ mailbox' \in Seq(Messages)
           /\ DOMAIN mailbox = 1..Len(mailbox) /\ Len(mailbox) \in Nat
           /\ DOMAIN mailbox' = 1..(Len(mailbox) + 1)
           /\ \A i \in DOMAIN mailbox : mailbox'[i] = mailbox[i]
           /\ mailbox'[Len(mailbox) + 1] = m
OBVIOUS

\* What the sentinels send is a message.
LEMMA SentMessages ==
    ASSUME SentinelTypes, NEW s \in Sentinels
    PROVE  /\ \A level \in HoldLevels : Msg("Hold", s, level) \in Messages
           /\ Msg("Release", s, 0) \in Messages
           /\ Msg("BlockWfi", s, ~block[s]) \in Messages
BY DEF SentinelTypes, Msg, Messages

\* A notification changes the value of one task.
LEMMA NotifyFacts ==
    ASSUME SentinelTypes, NEW m \in Messages, Notify(m)
    PROVE  /\ notified' \in [Sentinels -> BOOLEAN]
           /\ \A s \in Sentinels \ {m.name} : notified'[s] = notified[s]
<1>1. m.name \in Sentinels
      BY MessageFields
<1>2. CASE notified' = [notified EXCEPT ![m.name] = TRUE]
      BY <1>1, <1>2 DEF SentinelTypes
<1>3. ASSUME NEW hit \in BOOLEAN,
             notified' = [notified EXCEPT ![m.name] = @ \/ (hit /\ alive[m.name])]
      PROVE  /\ notified' \in [Sentinels -> BOOLEAN]
             /\ \A s \in Sentinels \ {m.name} : notified'[s] = notified[s]
      BY <1>1, <1>3 DEF SentinelTypes
<1> QED
    BY <1>2, <1>3 DEF Notify

\* The sentinels' variables keep their types.
LEMMA SentinelTypesStep == SentinelTypes /\ MailTypes /\ [Next]_vars => SentinelTypes'
<1> SUFFICES ASSUME SentinelTypes, MailTypes, [Next]_vars PROVE SentinelTypes'
    OBVIOUS
<1> USE DEF SentinelTypes
<1>1. CASE UNCHANGED sentinelVars
      BY <1>1 DEF sentinelVars
<1>2. CASE HandleBlockWfi
  <2>1. PICK m : Pop(m) /\ Notify(m)
        BY <1>2 DEF HandleBlockWfi
  <2>2. m \in Messages
        BY <2>1, PopFacts DEF MailTypes
  <2>3. notified' \in [Sentinels -> BOOLEAN]
        BY <2>1, <2>2, NotifyFacts
  <2> QED
      BY <1>2, <2>3 DEF HandleBlockWfi
<1>3. CASE Answer
  <2>1. notified' \in [Sentinels -> BOOLEAN]
    <3>1. CASE reply.kind = "Hold"
      <4>1. reply \in Messages
            BY <3>1 DEF MailTypes, Tick, Wake
      <4> QED
          BY <1>3, <3>1, <4>1, NotifyFacts DEF Answer
    <3>2. CASE reply.kind # "Hold"
          BY <1>3, <3>2 DEF Answer
    <3> QED
        BY <3>1, <3>2
  <2> QED
      BY <1>3, <2>1 DEF Answer
<1>4. ASSUME NEW s \in Sentinels, SentinelStep(s)
      PROVE  SentinelTypes'
  <2>1. CASE \E level \in HoldLevels : HoldMinimumFrequency(s, level)
        BY <2>1 DEF HoldMinimumFrequency
  <2>2. CASE ReleaseMinimumFrequency(s)
        BY <2>2 DEF ReleaseMinimumFrequency
  <2>3. CASE BlockWfiMode(s)
        BY <2>3 DEF BlockWfiMode
  <2>4. CASE Notified(s)
        BY <2>4 DEF Notified
  <2>5. CASE NotNotified(s)
        BY <2>5 DEF NotNotified
  <2>6. CASE Destroy(s)
        BY <2>6 DEF Destroy
  <2>7. CASE Create(s)
        BY <2>7 DEF Create
  <2> QED
      BY <1>4, <2>1, <2>2, <2>3, <2>4, <2>5, <2>6, <2>7 DEF SentinelStep
<1>5. \/ UNCHANGED sentinelVars
      \/ HandleBlockWfi
      \/ Answer
      \/ \E s \in Sentinels : SentinelStep(s)
      BY DEF Next, HandleMessage, HandleHoldRelease, HandleRegister, UpdateCpuFrequency,
             FreqUpdateTick, HandlerStep, SetFrequency, Publish, StayAwake, EnterWfi,
             SetPermanentFrequency, ResetPermanentFrequency, LogHold, LogTake, LogTimeout,
             LogRelease, logRest, ChangeLoad, vars
<1> QED
    BY <1>1, <1>2, <1>3, <1>4, <1>5

\* So do the manager's mailbox and the message whose handler runs.
LEMMA MailTypesStep == SentinelTypes /\ MailTypes /\ [Next]_vars => MailTypes'
<1> SUFFICES ASSUME SentinelTypes, MailTypes, [Next]_vars PROVE MailTypes'
    OBVIOUS
<1> USE DEF MailTypes
<1>1. CASE UNCHANGED <<mailbox, pc, reply>>
      BY <1>1
<1>2. CASE HandleHoldRelease
      BY <1>2, PopFacts DEF HandleHoldRelease, UpdateCpuFrequency
<1>3. CASE HandleBlockWfi
      BY <1>3, PopFacts DEF HandleBlockWfi
<1>4. CASE HandleRegister
      BY <1>4, PopFacts DEF HandleRegister
<1>5. CASE FreqUpdateTick
      BY <1>5 DEF FreqUpdateTick, UpdateCpuFrequency
<1>6. CASE HandlerStep
      BY <1>6 DEF HandlerStep, SetFrequency, Publish, Answer, StayAwake, EnterWfi
<1>7. ASSUME NEW s \in Sentinels, SentinelStep(s)
      PROVE  MailTypes'
  <2>1. CASE \E level \in HoldLevels : HoldMinimumFrequency(s, level)
        BY <2>1, SentMessages DEF HoldMinimumFrequency, Post
  <2>2. CASE ReleaseMinimumFrequency(s)
        BY <2>2, SentMessages DEF ReleaseMinimumFrequency, Post
  <2>3. CASE BlockWfiMode(s)
        BY <2>3, SentMessages DEF BlockWfiMode, Post
  <2>4. CASE Notified(s) \/ NotNotified(s) \/ Destroy(s)
        BY <2>4 DEF Notified, NotNotified, Destroy
  <2>5. CASE Create(s)
    <3>1. generation'[s] \in Nat
          BY <2>5 DEF Create, SentinelTypes
    <3>2. [kind |-> "Register", name |-> s, generation |-> generation'[s], value |-> 0]
              \in Messages
          BY <3>1 DEF Messages
    <3> QED
        BY <2>5, <3>2 DEF Create
  <2> QED
      BY <1>7, <2>1, <2>2, <2>3, <2>4, <2>5 DEF SentinelStep
<1>8. \/ UNCHANGED <<mailbox, pc, reply>>
      \/ HandleMessage \/ FreqUpdateTick \/ HandlerStep
      \/ \E s \in Sentinels : SentinelStep(s)
      BY DEF Next, SetPermanentFrequency, ResetPermanentFrequency, LogHold, LogTake, LogTimeout,
             LogRelease, logRest, ChangeLoad, vars
<1> QED
    BY <1>1, <1>2, <1>3, <1>4, <1>5, <1>6, <1>7, <1>8 DEF HandleMessage

-----------------------------------------------------------------------------
(***************************************************************************)
(* The frequency that the governor asks for and the algorithms choose.     *)
(***************************************************************************)

\* The greatest level of a set of levels.
LEMMA MaxLevel ==
    ASSUME NEW S \in SUBSET Levels, S # {}
    PROVE  Max(S) \in S /\ \A x \in S : Max(S) >= x
<1>1. \E x \in S : \A y \in S : x >= y
  <2>1. CASE 6 \in S
        BY <2>1 DEF Levels
  <2>2. CASE 6 \notin S /\ 5 \in S
        BY <2>2 DEF Levels
  <2>3. CASE 6 \notin S /\ 5 \notin S /\ 4 \in S
        BY <2>3 DEF Levels
  <2>4. CASE S \subseteq 0..3
    <3>1. CASE 3 \in S
          BY <2>4, <3>1
    <3>2. CASE 3 \notin S /\ 2 \in S
          BY <2>4, <3>2
    <3>3. CASE 3 \notin S /\ 2 \notin S /\ 1 \in S
          BY <2>4, <3>3
    <3>4. CASE 3 \notin S /\ 2 \notin S /\ 1 \notin S
      <4>1. \A y \in S : y = 0
            BY <2>4, <3>4
      <4> QED
          BY <4>1
    <3> QED
        BY <3>1, <3>2, <3>3, <3>4
  <2>5. 6 \notin S /\ 5 \notin S /\ 4 \notin S => S \subseteq 0..3
        BY DEF Levels
  <2> QED
      BY <2>1, <2>2, <2>3, <2>4, <2>5
<1> QED
    BY <1>1 DEF Max

\* GetMinimumFrequencyRequested is a level a sentinel may ask for, and at
\* least what every living one of these entries asks for.
LEMMA MinimumFacts ==
    ASSUME NEW entries, \A e \in entries : EntryOK(e)
    PROVE  /\ GetMinimumFrequencyRequested(entries) \in {0, LogLevel} \cup HoldLevels
           /\ \A e \in entries : Live(e) => GetMinimumFrequencyRequested(entries) >= e.requested
<1> DEFINE S == {0, LogRequest} \cup {e.requested : e \in clean(entries)}
<1>1. S \subseteq {0, LogLevel} \cup HoldLevels
      BY DEF EntryOK, clean, LogRequest
<1>2. {0, LogLevel} \cup HoldLevels \subseteq Levels
      BY CpuGovernorAssumption DEF Levels, LogLevel
<1>3. S \in SUBSET Levels /\ S # {}
      BY <1>1, <1>2
<1> HIDE DEF S
<1>4. Max(S) \in S /\ \A x \in S : Max(S) >= x
      BY <1>3, MaxLevel
<1>5. \A e \in entries : Live(e) => e.requested \in S
      BY DEF S, clean
<1> QED
    BY <1>1, <1>4, <1>5 DEF GetMinimumFrequencyRequested, S

\* The algorithms choose a level, and one that is at least the minimum unless
\* a frequency is held for ever: on the way down because no sentinel asks for
\* a level that stepDown passes over.
LEMMA CalculateFacts ==
    ASSUME PowerTypes, NEW minimum \in {0, LogLevel} \cup HoldLevels
    PROVE  /\ Calculate(minimum).value \in Levels
           /\ permanent = NoLevel => Calculate(minimum).value >= minimum
<1> USE CpuGovernorAssumption DEF PowerTypes, Levels, NoLevel, LogLevel
<1>1. CASE permanent # NoLevel
  <2>1. Max({permanent, MinimalFrequency}) \in {permanent, MinimalFrequency}
        BY <1>1, MaxLevel
  <2>2. FrequencyHold.value \in Levels
        BY <1>1, <2>1 DEF FrequencyHold, NoChange, Change
  <2> QED
      BY <1>1, <2>2 DEF Calculate
<1>2. CASE permanent = NoLevel /\ minimum > frequency
      BY <1>2 DEF Calculate, Change
<1>3. CASE permanent = NoLevel /\ ~(minimum > frequency)
  <2>1. Calculate(minimum) = FrequencyStepping(minimum)
        BY <1>3 DEF Calculate
  <2> DEFINE c == Counted
             down == c.above < MaxAbove /\ frequency > minimum
                       /\ c.below >= (IF c.inProgress THEN MaxBelowInRow ELSE MaxBelow)
  <2>2. c.above >= MaxAbove => frequency < 6
        BY DEF Counted
  <2>3. FrequencyStepping(minimum).value =
            CASE c.above >= MaxAbove -> IF frequency < 4 THEN 4 ELSE 6
              [] down -> stepDown(frequency)
              [] OTHER -> frequency
        BY DEF FrequencyStepping, Change, NoChange
  <2>4. down => stepDown(frequency) \in Levels /\ stepDown(frequency) >= minimum
        BY DEF stepDown
  <2>6. c.above >= MaxAbove => ~down
    <3>1. c.above \in Nat
          BY DEF Counted
    <3> QED
        BY <3>1
  <2> HIDE DEF c, down
  <2>5. CASE c.above >= MaxAbove
        BY <1>3, <2>1, <2>2, <2>3, <2>5, <2>6
  <2> QED
      BY <1>3, <2>1, <2>3, <2>4, <2>5
<1> QED
    BY <1>1, <1>2, <1>3

\* What UpdateCpuFrequency does up to SetCpuFrequency.
LEMMA UpdateFacts ==
    ASSUME PowerTypes, NEW entries, NEW m, \A e \in entries : EntryOK(e),
           UpdateCpuFrequency(entries, m)
    PROVE  /\ target' \in Levels
           /\ stepping' \in [above : Nat, below : Nat, inProgress : BOOLEAN]
           /\ (pc' = "done" /\ target' = frequency) \/ pc' = "set"
           /\ permanent = NoLevel =>
                 \A e \in entries : Live(e) => target' >= e.requested
<1> DEFINE min == GetMinimumFrequencyRequested(entries)
<1>1. min \in {0, LogLevel} \cup HoldLevels /\ \A e \in entries : Live(e) => min >= e.requested
      BY MinimumFacts
<1> HIDE DEF min
<1>2. Calculate(min).value \in Levels /\ (permanent = NoLevel => Calculate(min).value >= min)
      BY <1>1, CalculateFacts
<1>3. target' = Calculate(min).value /\ stepping' = Calculate(min).stepping
      BY DEF UpdateCpuFrequency, min
<1>4. Calculate(min).stepping \in [above : Nat, below : Nat, inProgress : BOOLEAN]
  <2> DEFINE T == [above : Nat, below : Nat, inProgress : BOOLEAN]
  <2>1. \A c \in T : \A v : NoChange(c).stepping \in T /\ Change(v, c).stepping \in T
        BY DEF NoChange, Change, Reset
  <2>2. Counted \in T
        BY CpuGovernorAssumption DEF Counted, PowerTypes
  <2>3. stepping \in T /\ [Counted EXCEPT !.inProgress = TRUE] \in T
        BY <2>2 DEF PowerTypes
  <2>4. FrequencyHold.stepping \in T
        BY <2>1, <2>3 DEF FrequencyHold
  <2>5. FrequencyStepping(min).stepping \in T
    <3> HIDE DEF T
    <3> QED
        BY <2>1, <2>2, <2>3 DEF FrequencyStepping
  <2> QED
      BY <2>1, <2>3, <2>4, <2>5 DEF Calculate
<1>5. \A e \in entries : Live(e) => e.requested \in Levels
  <2>1. HoldLevels \cup {0} \subseteq Levels
        BY CpuGovernorAssumption DEF Levels
  <2> QED
      BY <2>1 DEF EntryOK
<1>6. (pc' = "done" /\ target' = frequency) \/ pc' = "set"
      BY DEF UpdateCpuFrequency
<1>7. permanent = NoLevel => \A e \in entries : Live(e) => target' >= e.requested
      BY <1>1, <1>2, <1>3, <1>5, CpuGovernorAssumption DEF Levels, LogLevel
<1> QED
    BY <1>2, <1>3, <1>4, <1>6, <1>7

\* The requests after SetCpuFrequencyRequest or ResetCpuFrequencyRequest are
\* those of the same sentinels.
LEMMA SetRequestedFacts ==
    ASSUME Entries, NEW m \in Messages, m.kind \in {"Hold", "Release"}
    PROVE  \A e \in SetRequested(m) :
              /\ EntryOK(e)
              /\ \E d \in sentinels :
                    /\ e = IF Live(d) /\ d.name = m.name
                           THEN [d EXCEPT !.requested = m.value] ELSE d
                    /\ e.name = d.name /\ e.generation = d.generation
                    /\ e.wfiBlocked = d.wfiBlocked
                    /\ e.requested = IF Live(d) /\ d.name = m.name THEN m.value ELSE d.requested
                    /\ Live(e) <=> Live(d)
<1>1. m.name \in Sentinels /\ m.value \in HoldLevels \cup {0}
      BY MessageFields
<1>2. ASSUME NEW d \in sentinels
      PROVE  LET e == IF Live(d) /\ d.name = m.name
                      THEN [d EXCEPT !.requested = m.value] ELSE d
             IN /\ EntryOK(e)
                /\ e.name = d.name /\ e.generation = d.generation
                /\ e.wfiBlocked = d.wfiBlocked
                /\ e.requested = IF Live(d) /\ d.name = m.name THEN m.value ELSE d.requested
  <2>1. EntryOK(d)
        BY DEF Entries
  <2> QED
      BY <1>1, <2>1 DEF EntryOK
<1> QED
    BY <1>2 DEF SetRequested, Live

\* The same for BlockWfiModeRequest.
LEMMA SetBlockedFacts ==
    ASSUME Entries, NEW m \in Messages, m.kind = "BlockWfi"
    PROVE  \A e \in {IF Live(d) /\ d.name = m.name
                      THEN [d EXCEPT !.wfiBlocked = m.value] ELSE d : d \in sentinels} :
              /\ EntryOK(e)
              /\ \E d \in sentinels :
                    /\ e = IF Live(d) /\ d.name = m.name
                           THEN [d EXCEPT !.wfiBlocked = m.value] ELSE d
                    /\ e.name = d.name /\ e.generation = d.generation
                    /\ e.requested = d.requested
                    /\ e.wfiBlocked = IF Live(d) /\ d.name = m.name THEN m.value ELSE d.wfiBlocked
                    /\ Live(e) <=> Live(d)
<1>1. m.name \in Sentinels /\ m.value \in BOOLEAN
      BY MessageFields
<1>2. ASSUME NEW d \in sentinels
      PROVE  LET e == IF Live(d) /\ d.name = m.name
                      THEN [d EXCEPT !.wfiBlocked = m.value] ELSE d
             IN /\ EntryOK(e)
                /\ e.name = d.name /\ e.generation = d.generation
                /\ e.requested = d.requested
                /\ e.wfiBlocked = IF Live(d) /\ d.name = m.name THEN m.value ELSE d.wfiBlocked
  <2>1. EntryOK(d)
        BY DEF Entries
  <2> QED
      BY <1>1, <2>1 DEF EntryOK
<1> QED
    BY <1>2 DEF Live

\* An entry whose object is gone stays without one: a new object of the name
\* has a generation of its own.
LEMMA LiveStep ==
    ASSUME SentinelTypes, MailTypes, Entries, [Next]_vars,
           NEW e, EntryOK(e), e.generation <= generation[e.name]
    PROVE  /\ Live(e)' => Live(e)
           /\ generation[e.name] <= generation'[e.name]
<1> USE DEF SentinelTypes, EntryOK
<1>1. CASE UNCHANGED <<alive, generation>>
      BY <1>1 DEF Live
<1>2. ASSUME NEW s \in Sentinels, Destroy(s) \/ Create(s)
      PROVE  /\ Live(e)' => Live(e)
             /\ generation[e.name] <= generation'[e.name]
  <2>1. CASE e.name = s
        BY <1>2, <2>1 DEF Destroy, Create, Live
  <2>2. CASE e.name # s
        BY <1>2, <2>2 DEF Destroy, Create, Live
  <2> QED
      BY <2>1, <2>2
<1>3. UNCHANGED <<alive, generation>> \/ \E s \in Sentinels : Destroy(s) \/ Create(s)
      BY DEF Next, HandleMessage, HandleHoldRelease, HandleBlockWfi, HandleRegister,
             UpdateCpuFrequency, FreqUpdateTick, HandlerStep, SetFrequency, Publish, Answer,
             StayAwake, EnterWfi, SetPermanentFrequency, ResetPermanentFrequency,
             SentinelStep, HoldMinimumFrequency, ReleaseMinimumFrequency, BlockWfiMode,
             Notified, NotNotified, LogHold, LogTake, LogTimeout, LogRelease, logRest,
             ChangeLoad, sentinelVars, vars
<1> QED
    BY <1>1, <1>2, <1>3

\* The four ways in which the governor's list changes.
LEMMA EntryChanges ==
    ASSUME [Next]_vars
    PROVE  \/ sentinels' \subseteq sentinels
           \/ HandleHoldRelease
           \/ HandleBlockWfi
           \/ HandleRegister
BY DEF Next, HandleMessage, UpdateCpuFrequency, FreqUpdateTick, HandlerStep, SetFrequency,
       Publish, Answer, StayAwake, EnterWfi, SetPermanentFrequency, ResetPermanentFrequency,
       SentinelStep, HoldMinimumFrequency, ReleaseMinimumFrequency, BlockWfiMode, Notified,
       NotNotified, Destroy, Create, LogHold, LogTake, LogTimeout, LogRelease, logRest,
       ChangeLoad, clean, governorVars, vars

\* A new entry (GovernorSentinel of RegisterNewSentinel).
LEMMA NewEntry ==
    ASSUME NEW m \in Messages
    PROVE  LET e == [Entry(m.name) EXCEPT !.generation = m.generation]
           IN /\ EntryOK(e)
              /\ e.name = m.name /\ e.generation = m.generation
              /\ e.requested = 0 /\ e.wfiBlocked = FALSE
BY MessageFields DEF Entry, EntryOK

\* The governor has one entry for an object.
LEMMA EntriesStep ==
    SentinelTypes /\ MailTypes /\ Entries /\ Generations /\ [Next]_vars => Entries'
<1> SUFFICES ASSUME SentinelTypes, MailTypes, Entries, Generations, [Next]_vars
             PROVE  Entries'
    OBVIOUS
<1>1. \A e \in sentinels : /\ EntryOK(e) /\ e.generation <= generation'[e.name]
                           /\ Live(e)' => Live(e)
  <2> SUFFICES ASSUME NEW e \in sentinels
               PROVE  /\ EntryOK(e) /\ e.generation <= generation'[e.name]
                      /\ Live(e)' => Live(e)
      OBVIOUS
  <2>1. EntryOK(e) /\ e.generation <= generation[e.name]
        BY DEF Entries
  <2>2. (Live(e)' => Live(e)) /\ generation[e.name] <= generation'[e.name]
        BY <2>1, LiveStep
  <2>3. e.generation \in Nat /\ generation[e.name] \in Nat /\ generation'[e.name] \in Nat
        BY <2>1, SentinelTypesStep DEF EntryOK, SentinelTypes
  <2> QED
      BY <2>1, <2>2, <2>3
<1>2. CASE sentinels' \subseteq sentinels
      BY <1>1, <1>2 DEF Entries, EntryOK
<1>3. CASE HandleHoldRelease
  <2>1. PICK m : Pop(m) /\ m.kind \in {"Hold", "Release"} /\ UpdateCpuFrequency(SetRequested(m), m)
        BY <1>3 DEF HandleHoldRelease
  <2>2. m \in Messages
        BY <2>1, PopFacts DEF MailTypes
  <2>3. UNCHANGED <<alive, generation>> /\ sentinels' \subseteq SetRequested(m)
        BY <2>1 DEF UpdateCpuFrequency, clean, sentinelVars
  <2>4. \A e \in sentinels' : EntryOK(e) /\ e.generation <= generation'[e.name]
        BY <2>1, <2>2, <2>3, SetRequestedFacts DEF Entries
  <2>5. ASSUME NEW d \in sentinels', NEW e \in sentinels', Live(d)', Live(e)', d.name = e.name
        PROVE  d = e
    <3>1. Live(d) /\ Live(e)
          BY <2>3, <2>5 DEF Live
    <3> QED
        BY <2>1, <2>2, <2>3, <2>5, <3>1, SetRequestedFacts DEF Entries
  <2> QED
      BY <2>4, <2>5 DEF Entries, EntryOK
<1>4. CASE HandleBlockWfi
  <2>1. PICK m : /\ Pop(m) /\ m.kind = "BlockWfi"
                 /\ sentinels' = {IF Live(d) /\ d.name = m.name
                                  THEN [d EXCEPT !.wfiBlocked = m.value] ELSE d :
                                    d \in sentinels}
        BY <1>4 DEF HandleBlockWfi
  <2>2. m \in Messages
        BY <2>1, PopFacts DEF MailTypes
  <2>3. UNCHANGED <<alive, generation>>
        BY <1>4 DEF HandleBlockWfi
  <2>4. \A e \in sentinels' : EntryOK(e) /\ e.generation <= generation'[e.name]
        BY <2>1, <2>2, <2>3, SetBlockedFacts DEF Entries
  <2>5. ASSUME NEW d \in sentinels', NEW e \in sentinels', Live(d)', Live(e)', d.name = e.name
        PROVE  d = e
    <3>1. Live(d) /\ Live(e)
          BY <2>3, <2>5 DEF Live
    <3> QED
        BY <2>1, <2>2, <2>3, <2>5, <3>1, SetBlockedFacts DEF Entries
  <2> QED
      BY <2>4, <2>5 DEF Entries, EntryOK
<1>5. CASE HandleRegister
  <2>1. PICK m : /\ Pop(m)
                 /\ \A e \in clean(sentinels) : e.name # m.name
                 /\ sentinels' = clean(sentinels) \cup
                        {[Entry(m.name) EXCEPT !.generation = m.generation]}
        BY <1>5 DEF HandleRegister
  <2>2. m \in Messages /\ m.generation <= generation[m.name]
        BY <2>1, PopFacts DEF MailTypes, Generations
  <2>3. UNCHANGED <<alive, generation>>
        BY <1>5 DEF HandleRegister, sentinelVars
  <2>4. \A e \in sentinels' : EntryOK(e) /\ e.generation <= generation'[e.name]
        BY <2>1, <2>2, <2>3, NewEntry DEF Entries, clean
  <2>5. ASSUME NEW d \in sentinels', NEW e \in sentinels', Live(d)', Live(e)', d.name = e.name
        PROVE  d = e
    <3> DEFINE new == [Entry(m.name) EXCEPT !.generation = m.generation]
    <3>1. Live(d) /\ Live(e)
          BY <2>3, <2>5 DEF Live
    <3>2. new.name = m.name
          BY <2>2, NewEntry
    <3> HIDE DEF new
    <3>3. d \in clean(sentinels) \cup {new} /\ e \in clean(sentinels) \cup {new}
          BY <2>1 DEF new
    <3>4. \A x \in clean(sentinels) : x.name # m.name /\ x \in sentinels
          BY <2>1 DEF clean
    <3>5. CASE d \in clean(sentinels) /\ e \in clean(sentinels)
          BY <2>5, <3>1, <3>4, <3>5 DEF Entries
    <3> QED
        BY <2>5, <3>2, <3>3, <3>4, <3>5
  <2> QED
      BY <2>4, <2>5 DEF Entries, EntryOK
<1> QED
    BY <1>2, <1>3, <1>4, <1>5, EntryChanges

\* The frequencies stay levels of the CPU.
LEMMA PowerTypesStep ==
    MailTypes /\ PowerTypes /\ Entries /\ [Next]_vars => PowerTypes'
<1> SUFFICES ASSUME MailTypes, PowerTypes, Entries, [Next]_vars PROVE PowerTypes'
    OBVIOUS
<1> USE DEF PowerTypes
<1>1. CASE UNCHANGED <<powerVars, pc, known>>
      BY <1>1 DEF powerVars
<1>2. ASSUME NEW entries, NEW m, \A e \in entries : EntryOK(e), UpdateCpuFrequency(entries, m)
      PROVE  PowerTypes'
  <2>1. /\ target' \in Levels
        /\ stepping' \in [above : Nat, below : Nat, inProgress : BOOLEAN]
        /\ pc' \in {"done", "set"}
        BY <1>2, UpdateFacts
  <2>2. UNCHANGED <<frequency, wfiAllowed, permanent, known>> /\ held' \in BOOLEAN
        BY <1>2 DEF UpdateCpuFrequency
  <2> QED
      BY <2>1, <2>2
<1>3. CASE HandleHoldRelease
  <2>1. PICK m : Pop(m) /\ m.kind \in {"Hold", "Release"} /\ UpdateCpuFrequency(SetRequested(m), m)
        BY <1>3 DEF HandleHoldRelease
  <2>2. m \in Messages
        BY <2>1, PopFacts DEF MailTypes
  <2>3. \A e \in SetRequested(m) : EntryOK(e)
        BY <2>1, <2>2, SetRequestedFacts
  <2> QED
      BY <1>2, <2>1, <2>3
<1>4. CASE FreqUpdateTick
  <2>1. \A e \in sentinels : EntryOK(e)
        BY DEF Entries
  <2> QED
      BY <1>2, <1>4, <2>1 DEF FreqUpdateTick
<1>5. CASE HandleRegister
      BY <1>5 DEF HandleRegister, powerVars
<1>6. CASE SetFrequency \/ Publish \/ Answer \/ StayAwake \/ EnterWfi
  <2>1. CASE SetFrequency
        BY <2>1 DEF SetFrequency, governorVars
  <2>2. CASE Publish
        BY <2>2 DEF Publish, powerVars
  <2>3. CASE Answer
        BY <2>3 DEF Answer, powerVars, governorVars
  <2>4. CASE StayAwake
        BY <2>4 DEF StayAwake, governorVars
  <2>5. CASE EnterWfi
        BY <2>5 DEF EnterWfi, governorVars, Levels
  <2> QED
      BY <1>6, <2>1, <2>2, <2>3, <2>4, <2>5
<1>7. CASE ResetPermanentFrequency \/ \E level \in HoldLevels : SetPermanentFrequency(level)
  <2>1. HoldLevels \subseteq Levels
        BY CpuGovernorAssumption DEF Levels
  <2>2. CASE ResetPermanentFrequency
        BY <2>2 DEF ResetPermanentFrequency, governorVars
  <2>3. ASSUME NEW level \in HoldLevels, SetPermanentFrequency(level)
        PROVE  PowerTypes'
        BY <2>1, <2>3 DEF SetPermanentFrequency, governorVars
  <2> QED
      BY <1>7, <2>2, <2>3
<1>8. ASSUME NEW s \in Sentinels, Destroy(s)
      PROVE  PowerTypes'
      BY <1>8 DEF Destroy, powerVars, Levels
<1>9. \/ UNCHANGED <<powerVars, pc, known>>
      \/ HandleHoldRelease \/ FreqUpdateTick \/ HandleRegister
      \/ SetFrequency \/ Publish \/ Answer \/ StayAwake \/ EnterWfi
      \/ ResetPermanentFrequency \/ \E level \in HoldLevels : SetPermanentFrequency(level)
      \/ \E s \in Sentinels : Destroy(s)
      BY DEF Next, HandleMessage, HandleBlockWfi, HandlerStep, SentinelStep,
             HoldMinimumFrequency, ReleaseMinimumFrequency, BlockWfiMode, Notified,
             NotNotified, Create, LogHold, LogTake, LogTimeout, LogRelease, logRest,
             ChangeLoad, governorVars, vars
<1> QED
    BY <1>1, <1>3, <1>4, <1>5, <1>6, <1>7, <1>8, <1>9

-----------------------------------------------------------------------------
(***************************************************************************)
(* The requests are honoured.                                              *)
(***************************************************************************)

\* The invariant of the entries that live on.
LEMMA KeptEntries ==
    ASSUME SentinelTypes, MailTypes, Entries, [Next]_vars
    PROVE  \A e \in sentinels : Live(e)' => Live(e)
<1> SUFFICES ASSUME NEW e \in sentinels PROVE Live(e)' => Live(e)
    OBVIOUS
<1>1. EntryOK(e) /\ e.generation <= generation[e.name]
      BY DEF Entries
<1> QED
    BY <1>1, LiveStep

\* After UpdateCpuFrequency the target is at least what is asked for.
LEMMA HonouredUpdate ==
    ASSUME PowerTypes, Honoured, NEW entries, NEW m, \A e \in entries : EntryOK(e),
           UpdateCpuFrequency(entries, m)
    PROVE  Honoured'
<1>1. UNCHANGED <<frequency, wfiAllowed, permanent, alive, generation>>
      BY DEF UpdateCpuFrequency, sentinelVars
<1>2. held' = (held /\ permanent # NoLevel)
      BY DEF UpdateCpuFrequency
<1>3. sentinels' \subseteq entries
      BY DEF UpdateCpuFrequency, clean
<1>4. /\ (pc' = "done" /\ target' = frequency) \/ pc' = "set"
      /\ permanent = NoLevel => \A e \in entries : Live(e) => target' >= e.requested
      BY UpdateFacts
<1>5. permanent # NoLevel => held
      BY DEF Honoured
<1>6. permanent # NoLevel => held'
      BY <1>2, <1>5
<1>7. ~held' => permanent = NoLevel
      BY <1>2, <1>5
<1>8. ~held' => \A e \in sentinels' : Live(e)' =>
          IF pc' = "set" THEN target' >= e.requested ELSE frequency' >= e.requested
      BY <1>1, <1>3, <1>4, <1>7 DEF Live
<1> QED
    BY <1>1, <1>6, <1>8 DEF Honoured

\* Every other step keeps the frequency, or sets the target, or drops or adds
\* an entry that asks for nothing.
LEMMA HonouredStep ==
    /\ SentinelTypes /\ MailTypes /\ PowerTypes /\ Entries /\ Honoured /\ [Next]_vars
    => Honoured'
<1> SUFFICES ASSUME SentinelTypes, MailTypes, PowerTypes, Entries, Honoured, [Next]_vars
             PROVE  Honoured'
    OBVIOUS
<1>k. \A e \in sentinels : Live(e)' => Live(e)
      BY KeptEntries
<1>1. CASE UNCHANGED <<powerVars, pc, sentinels>>
      BY <1>1, <1>k DEF Honoured, powerVars
<1>2. CASE HandleHoldRelease
  <2>1. PICK m : Pop(m) /\ m.kind \in {"Hold", "Release"} /\ UpdateCpuFrequency(SetRequested(m), m)
        BY <1>2 DEF HandleHoldRelease
  <2>2. m \in Messages
        BY <2>1, PopFacts DEF MailTypes
  <2>3. \A e \in SetRequested(m) : EntryOK(e)
        BY <2>1, <2>2, SetRequestedFacts
  <2> QED
      BY <2>1, <2>3, HonouredUpdate
<1>3. CASE FreqUpdateTick
  <2>1. \A e \in sentinels : EntryOK(e)
        BY DEF Entries
  <2> QED
      BY <1>3, <2>1, HonouredUpdate DEF FreqUpdateTick
<1>4. CASE HandleBlockWfi
  <2>1. PICK m : /\ Pop(m) /\ m.kind = "BlockWfi"
                 /\ sentinels' = {IF Live(d) /\ d.name = m.name
                                  THEN [d EXCEPT !.wfiBlocked = m.value] ELSE d :
                                    d \in sentinels}
        BY <1>4 DEF HandleBlockWfi
  <2>2. m \in Messages
        BY <2>1, PopFacts DEF MailTypes
  <2>3. UNCHANGED <<alive, generation, powerVars, pc>>
        BY <1>4 DEF HandleBlockWfi
  <2>4. \A e \in sentinels' : \E d \in sentinels :
           e.requested = d.requested /\ (Live(e) <=> Live(d))
        BY <2>1, <2>2, SetBlockedFacts
  <2>5. \A e \in sentinels' : Live(e)' <=> Live(e)
        BY <2>3 DEF Live
  <2> QED
      BY <2>3, <2>4, <2>5 DEF Honoured, powerVars
<1>5. CASE HandleRegister
  <2>1. PICK m : /\ Pop(m)
                 /\ sentinels' = clean(sentinels) \cup
                        {[Entry(m.name) EXCEPT !.generation = m.generation]}
        BY <1>5 DEF HandleRegister
  <2>2. m \in Messages
        BY <2>1, PopFacts DEF MailTypes
  <2>3. UNCHANGED <<powerVars, pc>>
        BY <1>5 DEF HandleRegister
  <2>4. \A e \in sentinels' : e \in sentinels \/ e.requested = 0
        BY <2>1, <2>2, NewEntry DEF clean
  <2>5. frequency >= 0 /\ target >= 0
        BY DEF PowerTypes, Levels
  <2> QED
      BY <1>k, <2>3, <2>4, <2>5 DEF Honoured, powerVars
<1>6. CASE SetFrequency
  <2>1. frequency' = target /\ pc = "set" /\ pc' = "publish"
        /\ UNCHANGED <<permanent, held, sentinels, alive, generation>>
        BY <1>6 DEF SetFrequency, governorVars, sentinelVars
  <2>2. wfiAllowed' => frequency' <= 1
    <3>1. frequency \in 0..6 /\ target \in 0..6
          BY DEF PowerTypes, Levels
    <3>2. CASE frequency <= 1 /\ target > 1
      <4>1. ~(target < frequency /\ target <= 1)
            BY <3>1, <3>2
      <4>2. wfiAllowed' = FALSE
            BY <1>6, <3>2, <4>1, Zenon DEF SetFrequency
      <4> QED
          BY <4>2
    <3>3. CASE target <= 1
          BY <2>1, <3>3
    <3>4. CASE frequency > 1 /\ target > 1
      <4>1. ~(frequency <= 1 /\ target > 1) /\ ~(target < frequency /\ target <= 1)
            BY <3>1, <3>4
      <4>2. wfiAllowed' = wfiAllowed
            BY <1>6, <4>1, Zenon DEF SetFrequency
      <4> QED
          BY <3>1, <3>4, <4>2 DEF Honoured
    <3> QED
        BY <3>1, <3>2, <3>3, <3>4
  <2> QED
      BY <1>k, <2>1, <2>2 DEF Honoured
<1>7. CASE Publish
      BY <1>7, <1>k DEF Publish, Honoured, powerVars, clean
<1>8. CASE Answer
      BY <1>8, <1>k DEF Answer, Honoured, powerVars, governorVars
<1>9. CASE StayAwake
      BY <1>9, <1>k DEF StayAwake, Honoured, governorVars
<1>10. CASE EnterWfi
  <2>1. pc = "done" /\ pc' = "set" /\ target' = 4 /\ wfiAllowed
        /\ UNCHANGED <<frequency, wfiAllowed, permanent, held, sentinels>>
        BY <1>10 DEF EnterWfi, governorVars
  <2>2. frequency <= 1
        BY <2>1 DEF Honoured
  <2>3. ~held => \A e \in sentinels : Live(e) => target' >= e.requested
    <3> SUFFICES ASSUME ~held, NEW e \in sentinels, Live(e) PROVE target' >= e.requested
        OBVIOUS
    <3>1. frequency >= e.requested
          BY <2>1 DEF Honoured
    <3>2. e.requested = 0 \/ e.requested \in HoldLevels
          BY DEF Entries, EntryOK
    <3>3. e.requested # 0 => e.requested \in 2..6
          BY <3>2, CpuGovernorAssumption
    <3>4. frequency \in 0..6
          BY DEF PowerTypes, Levels
    <3> QED
        BY <2>1, <2>2, <3>1, <3>3, <3>4
  <2> QED
      BY <1>k, <2>1, <2>3 DEF Honoured
<1>11. CASE ResetPermanentFrequency
      BY <1>11, <1>k DEF ResetPermanentFrequency, Honoured, governorVars
<1>12. ASSUME NEW level \in HoldLevels, SetPermanentFrequency(level)
       PROVE  Honoured'
      BY <1>12, <1>k DEF SetPermanentFrequency, Honoured, governorVars
<1>13. \/ UNCHANGED <<powerVars, pc, sentinels>>
       \/ HandleMessage \/ FreqUpdateTick \/ HandlerStep
       \/ ResetPermanentFrequency \/ \E level \in HoldLevels : SetPermanentFrequency(level)
      BY DEF Next, SentinelStep, HoldMinimumFrequency, ReleaseMinimumFrequency, BlockWfiMode,
             Notified, NotNotified, Destroy, Create, LogHold, LogTake, LogTimeout, LogRelease,
             logRest, ChangeLoad, governorVars, vars
<1> QED
    BY <1>1, <1>2, <1>3, <1>4, <1>5, <1>6, <1>7, <1>8, <1>9, <1>10, <1>11, <1>12, <1>13
    DEF HandleMessage, HandlerStep

\* Every sentinel of the list is told the frequency before the handler ends
\* (InformSentinelsAboutCpuFrequencyChange, ReadRegistrationData).
LEMMA InformedStep ==
    /\ SentinelTypes /\ MailTypes /\ PowerTypes /\ Entries /\ Informed /\ [Next]_vars
    => Informed'
<1> SUFFICES ASSUME SentinelTypes, MailTypes, PowerTypes, Entries, Informed, [Next]_vars
             PROVE  Informed'
    OBVIOUS
<1>k. \A e \in sentinels : Live(e)' => Live(e)
      BY KeptEntries
<1>1. CASE UNCHANGED <<frequency, target, pc, sentinels, known>>
      BY <1>1, <1>k DEF Informed
<1>2. ASSUME NEW entries, NEW m, UpdateCpuFrequency(entries, m), pc = "loop",
             \A e \in entries : \E d \in sentinels : e.name = d.name /\ (Live(e) <=> Live(d))
      PROVE  Informed'
  <2>1. UNCHANGED <<frequency, known, alive, generation>> /\ sentinels' \subseteq entries
        BY <1>2 DEF UpdateCpuFrequency, sentinelVars, clean
  <2>2. pc' # "publish"
        BY <1>2 DEF UpdateCpuFrequency
  <2>3. \A e \in entries : Live(e)' <=> Live(e)
        BY <2>1 DEF Live
  <2> QED
      BY <1>2, <2>1, <2>2, <2>3 DEF Informed
<1>3. CASE HandleHoldRelease
  <2>1. PICK m : Pop(m) /\ m.kind \in {"Hold", "Release"} /\ UpdateCpuFrequency(SetRequested(m), m)
        BY <1>3 DEF HandleHoldRelease
  <2>2. m \in Messages /\ pc = "loop"
        BY <2>1, PopFacts DEF MailTypes
  <2> QED
      BY <1>2, <2>1, <2>2, SetRequestedFacts
<1>4. CASE FreqUpdateTick
      BY <1>2, <1>4 DEF FreqUpdateTick
<1>5. CASE HandleBlockWfi
  <2>1. PICK m : /\ Pop(m) /\ m.kind = "BlockWfi"
                 /\ sentinels' = {IF Live(d) /\ d.name = m.name
                                  THEN [d EXCEPT !.wfiBlocked = m.value] ELSE d :
                                    d \in sentinels}
        BY <1>5 DEF HandleBlockWfi
  <2>2. m \in Messages
        BY <2>1, PopFacts DEF MailTypes
  <2>3. UNCHANGED <<alive, generation, target, frequency, known, pc>>
        BY <1>5 DEF HandleBlockWfi, powerVars
  <2>4. \A e \in sentinels' : \E d \in sentinels : e.name = d.name /\ (Live(e) <=> Live(d))
        BY <2>1, <2>2, SetBlockedFacts
  <2>5. \A e \in sentinels' : Live(e)' <=> Live(e)
        BY <2>3 DEF Live
  <2> QED
      BY <2>3, <2>4, <2>5 DEF Informed
<1>6. CASE HandleRegister
  <2>1. PICK m : /\ Pop(m)
                 /\ sentinels' = clean(sentinels) \cup
                        {[Entry(m.name) EXCEPT !.generation = m.generation]}
                 /\ known' = [known EXCEPT ![m.name] = frequency]
        BY <1>6 DEF HandleRegister
  <2>2. m \in Messages /\ pc = "loop" /\ m.name \in Sentinels
        BY <2>1, PopFacts, MessageFields DEF MailTypes
  <2>3. UNCHANGED <<target, frequency, pc>>
        BY <1>6 DEF HandleRegister, powerVars
  <2>4. \A e \in sentinels' : e \in sentinels \/ e.name = m.name
        BY <2>1, <2>2, NewEntry DEF clean
  <2>5. \A e \in sentinels : e.name \in Sentinels
        BY DEF Entries, EntryOK
  <2> QED
      BY <1>k, <2>1, <2>2, <2>3, <2>4, <2>5 DEF Informed, PowerTypes
<1>7. CASE SetFrequency
      BY <1>7 DEF SetFrequency, Informed
<1>8. CASE Publish
  <2>1. sentinels' = clean(sentinels) /\ pc' = "done" /\ frequency' = target
        /\ UNCHANGED <<alive, generation>>
        BY <1>8 DEF Publish, powerVars, Informed, sentinelVars
  <2>2. \A e \in sentinels' : e.name \in Sentinels
        BY <2>1 DEF Entries, EntryOK, clean
  <2>3. \A e \in sentinels' : known'[e.name] = target
        BY <1>8, <2>1, <2>2 DEF Publish
  <2> QED
      BY <2>1, <2>3 DEF Informed
<1>9. CASE Answer \/ StayAwake \/ EnterWfi
      BY <1>9, <1>k DEF Answer, StayAwake, EnterWfi, Informed, powerVars, governorVars
<1>10. ASSUME NEW s \in Sentinels, Destroy(s)
       PROVE  Informed'
  <2>1. /\ known' = [known EXCEPT ![s] = 0] /\ alive' = [alive EXCEPT ![s] = FALSE]
        /\ UNCHANGED <<sentinels, target, frequency, pc>>
        BY <1>10 DEF Destroy, powerVars
  <2>2. \A e \in sentinels : Live(e)' => e.name \in Sentinels \ {s}
        BY <2>1 DEF Live, Entries, EntryOK, SentinelTypes
  <2> QED
      BY <1>k, <2>1, <2>2 DEF Informed, PowerTypes
<1>11. \/ UNCHANGED <<frequency, target, pc, sentinels, known>>
       \/ HandleMessage \/ FreqUpdateTick \/ HandlerStep
       \/ \E s \in Sentinels : Destroy(s)
      BY DEF Next, ResetPermanentFrequency, SetPermanentFrequency, SentinelStep,
             HoldMinimumFrequency, ReleaseMinimumFrequency, BlockWfiMode, Notified,
             NotNotified, Create, LogHold, LogTake, LogTimeout, LogRelease, logRest,
             ChangeLoad, governorVars, powerVars, vars
<1> QED
    BY <1>1, <1>3, <1>4, <1>5, <1>6, <1>7, <1>8, <1>9, <1>10, <1>11
    DEF HandleMessage, HandlerStep

-----------------------------------------------------------------------------
(***************************************************************************)
(* The messages under way.                                                 *)
(***************************************************************************)

\* How a step of a sentinel changes what the invariants of the messages look
\* at: it sends one, begins or ends.
LEMMA MailChanges ==
    ASSUME [Next]_vars
    PROVE  \/ HandleHoldRelease \/ HandleBlockWfi \/ HandleRegister
           \/ \E s \in Sentinels : \/ \E level \in HoldLevels : HoldMinimumFrequency(s, level)
                                   \/ ReleaseMinimumFrequency(s) \/ BlockWfiMode(s)
                                   \/ Destroy(s) \/ Create(s)
           \/ /\ UNCHANGED <<alive, generation, hold, block, mailbox>>
              /\ sentinels' = sentinels \/ sentinels' = clean(sentinels)
BY DEF Next, HandleMessage, UpdateCpuFrequency, FreqUpdateTick, HandlerStep, SetFrequency,
       Publish, Answer, StayAwake, EnterWfi, SetPermanentFrequency, ResetPermanentFrequency,
       SentinelStep, Notified, NotNotified, LogHold, LogTake, LogTimeout, LogRelease, logRest,
       ChangeLoad, governorVars, sentinelVars, vars

\* A call of a sentinel sends a message of this object behind the others.
LEMMA SendFacts ==
    ASSUME SentinelTypes, MailTypes, NEW s \in Sentinels,
           \/ \E level \in HoldLevels : HoldMinimumFrequency(s, level)
           \/ ReleaseMinimumFrequency(s)
           \/ BlockWfiMode(s)
    PROVE  /\ alive[s] /\ ~waiting[s]
           /\ \E m \in Messages :
                 /\ mailbox' = Append(mailbox, m)
                 /\ m.name = s /\ m.generation = generation[s] /\ m.kind # "Register"
                 /\ m.kind \in HoldKinds =>
                       hold' = [hold EXCEPT ![s] = m.value] /\ UNCHANGED block
                 /\ m.kind \notin HoldKinds =>
                       /\ m.kind = "BlockWfi" /\ UNCHANGED hold
                       /\ block' = [block EXCEPT ![s] = m.value]
                 /\ m.kind \in Asks => waiting' = [waiting EXCEPT ![s] = TRUE]
                 /\ m.kind \notin Asks => UNCHANGED waiting
           /\ UNCHANGED <<alive, generation, sentinels, notified, tainted, reply, pc>>
<1> USE SentMessages DEF Msg, Post, Call, HoldKinds, Asks, governorVars
<1>1. CASE \E level \in HoldLevels : HoldMinimumFrequency(s, level)
  <2>1. PICK level \in HoldLevels : HoldMinimumFrequency(s, level)
        BY <1>1
  <2> QED
      BY <2>1 DEF HoldMinimumFrequency
<1>2. CASE ReleaseMinimumFrequency(s)
      BY <1>2 DEF ReleaseMinimumFrequency
<1>3. CASE BlockWfiMode(s)
      BY <1>3 DEF BlockWfiMode
<1> QED
    BY <1>1, <1>2, <1>3

\* A new object registers itself, with a generation no message has.
LEMMA CreateFacts ==
    ASSUME SentinelTypes, NEW s \in Sentinels, Create(s)
    PROVE  /\ ~alive[s]
           /\ alive' = [alive EXCEPT ![s] = TRUE]
           /\ generation' = [generation EXCEPT ![s] = generation[s] + 1]
           /\ generation'[s] = generation[s] + 1
           /\ \E m \in Messages :
                 /\ mailbox' = Append(mailbox, m)
                 /\ m.kind = "Register" /\ m.name = s
                 /\ m.generation = generation'[s] /\ m.value = 0
           /\ UNCHANGED <<hold, block, waiting, notified, tainted, sentinels, reply, pc>>
<1> DEFINE m == [kind |-> "Register", name |-> s, generation |-> generation'[s], value |-> 0]
<1>1. ~alive[s] /\ alive' = [alive EXCEPT ![s] = TRUE]
      /\ generation' = [generation EXCEPT ![s] = generation[s] + 1]
      /\ mailbox' = Append(mailbox, m)
      /\ UNCHANGED <<hold, block, waiting, notified, tainted, sentinels, reply, pc>>
      BY DEF Create, governorVars
<1>2. generation'[s] = generation[s] + 1 /\ generation'[s] \in Nat
      BY <1>1 DEF SentinelTypes
<1>3. m \in Messages
      BY <1>2 DEF Messages
<1> QED
    BY <1>1, <1>2, <1>3

\* A step that handles a message.
LEMMA HandleFacts ==
    ASSUME MailTypes, HandleHoldRelease \/ HandleBlockWfi \/ HandleRegister
    PROVE  /\ \E m \in Messages : Pop(m) /\ m = Head(mailbox)
           /\ UNCHANGED <<alive, generation, hold, block, waiting, tainted>>
<1>1. ASSUME NEW m, Pop(m)
      PROVE  m \in Messages /\ m = Head(mailbox)
      BY <1>1, PopFacts DEF MailTypes, Pop
<1>2. CASE HandleHoldRelease
      BY <1>1, <1>2 DEF HandleHoldRelease, UpdateCpuFrequency, sentinelVars
<1>3. CASE HandleBlockWfi
      BY <1>1, <1>3 DEF HandleBlockWfi
<1>4. CASE HandleRegister
      BY <1>1, <1>4 DEF HandleRegister, sentinelVars
<1> QED
    BY <1>2, <1>3, <1>4

\* No message is of a generation to come.
LEMMA GenerationsStep ==
    SentinelTypes /\ MailTypes /\ Generations /\ [Next]_vars => Generations'
<1> SUFFICES ASSUME SentinelTypes, MailTypes, Generations, [Next]_vars PROVE Generations'
    OBVIOUS
<1>0. /\ mailbox \in Seq(Messages)
      /\ \A i \in DOMAIN mailbox : mailbox[i] \in Messages
      BY DEF MailTypes
<1>1. CASE UNCHANGED <<mailbox, generation>>
      BY <1>1 DEF Generations
<1>2. CASE HandleHoldRelease \/ HandleBlockWfi \/ HandleRegister
  <2>1. PICK m \in Messages : Pop(m)
        BY <1>2, HandleFacts
  <2>2. UNCHANGED generation
        BY <1>2, HandleFacts
  <2>3. \A i \in DOMAIN mailbox' : i + 1 \in DOMAIN mailbox /\ mailbox'[i] = mailbox[i + 1]
        BY <1>0, <2>1, PopFacts
  <2> QED
      BY <2>2, <2>3 DEF Generations
<1>3. ASSUME NEW s \in Sentinels,
             \/ \E level \in HoldLevels : HoldMinimumFrequency(s, level)
             \/ ReleaseMinimumFrequency(s)
             \/ BlockWfiMode(s)
      PROVE  Generations'
  <2>1. PICK m \in Messages : /\ mailbox' = Append(mailbox, m)
                              /\ m.name = s /\ m.generation = generation[s]
        BY <1>3, SendFacts
  <2>2. UNCHANGED generation /\ generation[s] \in Nat
        BY <1>3, SendFacts DEF SentinelTypes
  <2>3. /\ DOMAIN mailbox = 1..Len(mailbox) /\ Len(mailbox) \in Nat
        /\ DOMAIN mailbox' = 1..(Len(mailbox) + 1)
        /\ \A i \in DOMAIN mailbox : mailbox'[i] = mailbox[i]
        /\ mailbox'[Len(mailbox) + 1] = m
        BY <1>0, <2>1, PostFacts
  <2>4. \A i \in DOMAIN mailbox' : i \in DOMAIN mailbox \/ i = Len(mailbox) + 1
        BY <2>3
  <2> QED
      BY <2>1, <2>2, <2>3, <2>4 DEF Generations
<1>4. ASSUME NEW s \in Sentinels, Create(s)
      PROVE  Generations'
  <2>1. PICK m \in Messages : /\ mailbox' = Append(mailbox, m)
                              /\ m.name = s /\ m.generation = generation'[s]
        BY <1>4, CreateFacts
  <2>2. /\ generation' = [generation EXCEPT ![s] = generation[s] + 1]
        /\ generation'[s] = generation[s] + 1
        BY <1>4, CreateFacts
  <2>3. /\ DOMAIN mailbox = 1..Len(mailbox) /\ Len(mailbox) \in Nat
        /\ DOMAIN mailbox' = 1..(Len(mailbox) + 1)
        /\ \A i \in DOMAIN mailbox : mailbox'[i] = mailbox[i]
        /\ mailbox'[Len(mailbox) + 1] = m
        BY <1>0, <2>1, PostFacts
  <2>4. \A i \in DOMAIN mailbox' : i \in DOMAIN mailbox \/ i = Len(mailbox) + 1
        BY <2>3
  <2>5. \A t \in Sentinels : generation[t] <= generation'[t] /\ generation[t] \in Nat
                             /\ generation'[t] \in Nat
        BY <2>2 DEF SentinelTypes
  <2>6. \A i \in DOMAIN mailbox : mailbox[i].name \in Sentinels /\ mailbox[i].generation \in Nat
        BY <1>0, MessageFields
  <2>7. \A i \in DOMAIN mailbox : mailbox[i].generation <= generation'[mailbox[i].name]
        BY <2>5, <2>6 DEF Generations
  <2> QED
      BY <2>1, <2>3, <2>4, <2>5, <2>7 DEF Generations
<1>5. ASSUME NEW s \in Sentinels, Destroy(s)
      PROVE  Generations'
      BY <1>5 DEF Destroy, Generations
<1> QED
    BY <1>1, <1>2, <1>3, <1>4, <1>5, MailChanges

\* The newest message when the first is handled ...
LEMMA NewestPop ==
    ASSUME MailTypes, NEW m, Pop(m), UNCHANGED generation, NEW t, NEW kinds
    PROVE  /\ \A i \in DOMAIN mailbox' :
                 /\ i + 1 \in DOMAIN mailbox /\ mailbox'[i] = mailbox[i + 1]
                 /\ Newest(t, kinds, i)' => Newest(t, kinds, i + 1)
           /\ (\A i \in DOMAIN mailbox' : ~Mine(t, kinds, i)') /\ Mine(t, kinds, 1) =>
                 Newest(t, kinds, 1)
           /\ (\A i \in DOMAIN mailbox' : ~Mine(t, kinds, i)') /\ ~Mine(t, kinds, 1) =>
                 \A i \in DOMAIN mailbox : ~Mine(t, kinds, i)
<1>1. /\ DOMAIN mailbox = 1..Len(mailbox) /\ Len(mailbox) \in Nat
      /\ DOMAIN mailbox' = 1..(Len(mailbox) - 1)
      /\ \A i \in DOMAIN mailbox' : i + 1 \in DOMAIN mailbox /\ mailbox'[i] = mailbox[i + 1]
      /\ \A i \in DOMAIN mailbox : i > 1 => i - 1 \in DOMAIN mailbox' /\ mailbox'[i - 1] = mailbox[i]
      BY PopFacts DEF MailTypes
<1>2. \A i \in DOMAIN mailbox' : Mine(t, kinds, i)' <=> Mine(t, kinds, i + 1)
      BY <1>1 DEF Mine
<1>3. \A i \in DOMAIN mailbox : i > 1 => (Mine(t, kinds, i - 1)' <=> Mine(t, kinds, i))
      BY <1>1 DEF Mine
<1>4. ASSUME NEW i \in DOMAIN mailbox', Newest(t, kinds, i)'
      PROVE  Newest(t, kinds, i + 1)
  <2>1. ASSUME NEW j \in DOMAIN mailbox, j > i + 1 PROVE ~Mine(t, kinds, j)
    <3>1. j - 1 \in DOMAIN mailbox' /\ j - 1 > i /\ j > 1
          BY <1>1, <2>1
    <3> QED
        BY <1>3, <1>4, <3>1 DEF Newest
  <2> QED
      BY <1>2, <1>4, <2>1 DEF Newest
<1>5. ASSUME \A i \in DOMAIN mailbox' : ~Mine(t, kinds, i)'
      PROVE  \A i \in DOMAIN mailbox : i > 1 => ~Mine(t, kinds, i)
      BY <1>1, <1>3, <1>5
<1>6. \A i \in DOMAIN mailbox : i = 1 \/ i > 1
      BY <1>1
<1> QED
    BY <1>1, <1>4, <1>5, <1>6 DEF Newest

\* ... and when one is sent.
LEMMA NewestPost ==
    ASSUME MailTypes, NEW m \in Messages, mailbox' = Append(mailbox, m), NEW t, NEW kinds,
           generation'[t] = generation[t]
    PROVE  /\ ~(m.kind \in kinds /\ m.name = t /\ m.generation = generation[t]) =>
                 \A i \in DOMAIN mailbox' : Newest(t, kinds, i)' =>
                    i \in DOMAIN mailbox /\ mailbox'[i] = mailbox[i] /\ Newest(t, kinds, i)
           /\ (\A i \in DOMAIN mailbox' : ~Mine(t, kinds, i)') =>
                 /\ ~(m.kind \in kinds /\ m.name = t /\ m.generation = generation[t])
                 /\ \A i \in DOMAIN mailbox : ~Mine(t, kinds, i)
<1>0. PICK n : n = Len(mailbox) + 1
      OBVIOUS
<1> DEFINE mine == m.kind \in kinds /\ m.name = t /\ m.generation = generation[t]
<1>1. /\ DOMAIN mailbox = 1..Len(mailbox) /\ Len(mailbox) \in Nat
      /\ DOMAIN mailbox' = 1..n
      /\ \A i \in DOMAIN mailbox : mailbox'[i] = mailbox[i]
      /\ mailbox'[n] = m
      BY <1>0, PostFacts DEF MailTypes
<1>2. Mine(t, kinds, n)' <=> mine
      BY <1>1 DEF Mine
<1>3. \A i \in DOMAIN mailbox : Mine(t, kinds, i)' <=> Mine(t, kinds, i)
      BY <1>1 DEF Mine
<1>4. n \in DOMAIN mailbox' /\ \A i \in DOMAIN mailbox' : i = n \/ (i < n /\ i \in DOMAIN mailbox)
  <2>1. n \in 1..n /\ \A i \in 1..n : i = n \/ (i < n /\ i \in 1..Len(mailbox))
        BY <1>0, <1>1
  <2> QED
      BY <1>1, <2>1, Zenon
<1>5. \A i \in DOMAIN mailbox : i \in DOMAIN mailbox'
      BY <1>0, <1>1
<1> HIDE DEF mine
<1>7. ~mine => \A i \in DOMAIN mailbox' : Newest(t, kinds, i)' =>
          i \in DOMAIN mailbox /\ mailbox'[i] = mailbox[i] /\ Newest(t, kinds, i)
      BY <1>1, <1>2, <1>3, <1>4, <1>5 DEF Newest
<1>8. (\A i \in DOMAIN mailbox' : ~Mine(t, kinds, i)') =>
          ~mine /\ \A i \in DOMAIN mailbox : ~Mine(t, kinds, i)
      BY <1>2, <1>3, <1>4, <1>5
<1> QED
    BY <1>7, <1>8 DEF mine

\* If it is one of these, it is the newest.
LEMMA NewestIsSent ==
    ASSUME MailTypes, NEW m \in Messages, mailbox' = Append(mailbox, m), NEW t, NEW kinds,
           generation'[t] = generation[t],
           m.kind \in kinds, m.name = t, m.generation = generation[t],
           NEW i \in DOMAIN mailbox', Newest(t, kinds, i)'
    PROVE  mailbox'[i] = m
<1>1. PICK n : n = Len(mailbox) + 1
      OBVIOUS
<1>2. /\ Len(mailbox) \in Nat /\ DOMAIN mailbox' = 1..n
      /\ mailbox'[n] = m
      BY <1>1, PostFacts DEF MailTypes
<1>3. n \in DOMAIN mailbox' /\ (i = n \/ n > i)
      BY <1>1, <1>2
<1>4. Mine(t, kinds, n)'
      BY <1>2 DEF Mine
<1> QED
    BY <1>2, <1>3, <1>4 DEF Newest

\* A message of another object, or one that does not register, leaves the
\* registration of t where it is.
LEMMA RegistrationPop ==
    ASSUME MailTypes, NEW m, Pop(m), UNCHANGED generation, NEW t \in Sentinels,
           Present(t)' <=> Present(t),
           m.name = t /\ m.generation = generation[t] => m.kind # "Register",
           Registered(t) \/ \E i \in DOMAIN mailbox : Registering(t, i)
    PROVE  (Registered(t) \/ \E i \in DOMAIN mailbox : Registering(t, i))'
<1>1. /\ DOMAIN mailbox = 1..Len(mailbox) /\ Len(mailbox) \in Nat
      /\ DOMAIN mailbox' = 1..(Len(mailbox) - 1)
      /\ \A i \in DOMAIN mailbox' : i + 1 \in DOMAIN mailbox /\ mailbox'[i] = mailbox[i + 1]
      /\ \A i \in DOMAIN mailbox : i > 1 => i - 1 \in DOMAIN mailbox' /\ mailbox'[i - 1] = mailbox[i]
      /\ m = mailbox[1]
      BY PopFacts DEF MailTypes
<1>2. CASE Registered(t)
      BY <1>1, <1>2 DEF Registered
<1>3. ASSUME NEW i \in DOMAIN mailbox, Registering(t, i)
      PROVE  \E k \in DOMAIN mailbox' : Registering(t, k)'
  <2>1. i > 1
        BY <1>1, <1>3 DEF Registering
  <2>2. i - 1 \in DOMAIN mailbox' /\ mailbox'[i - 1] = mailbox[i]
        BY <1>1, <2>1
  <2>3. \A j \in DOMAIN mailbox' : mailbox'[j].name = t =>
           /\ j < i - 1 => mailbox'[j].generation < generation[t]
           /\ j > i - 1 => mailbox'[j].generation = generation[t] /\ mailbox'[j].kind # "Register"
    <3> SUFFICES ASSUME NEW j \in DOMAIN mailbox', mailbox'[j].name = t
                 PROVE  /\ j < i - 1 => mailbox'[j].generation < generation[t]
                        /\ j > i - 1 => /\ mailbox'[j].generation = generation[t]
                                        /\ mailbox'[j].kind # "Register"
        OBVIOUS
    <3>1. j + 1 \in DOMAIN mailbox /\ mailbox'[j] = mailbox[j + 1]
          BY <1>1
    <3>2. (j < i - 1 => j + 1 < i) /\ (j > i - 1 => j + 1 > i)
          BY <1>1
    <3> QED
        BY <1>3, <3>1, <3>2 DEF Registering
  <2> QED
      BY <1>3, <2>2, <2>3 DEF Registering
<1> QED
    BY <1>2, <1>3

\* Nor does a message that t does not send, or sends as a registered or
\* registering object.
LEMMA RegistrationPost ==
    ASSUME MailTypes, NEW m \in Messages, mailbox' = Append(mailbox, m), NEW t \in Sentinels,
           generation'[t] = generation[t],
           Present(t)' <=> Present(t),
           m.name = t => m.generation = generation[t] /\ m.kind # "Register",
           Registered(t) \/ \E i \in DOMAIN mailbox : Registering(t, i)
    PROVE  (Registered(t) \/ \E i \in DOMAIN mailbox : Registering(t, i))'
<1>1. /\ DOMAIN mailbox = 1..Len(mailbox) /\ Len(mailbox) \in Nat
      /\ DOMAIN mailbox' = 1..(Len(mailbox) + 1)
      /\ \A i \in DOMAIN mailbox : mailbox'[i] = mailbox[i]
      /\ mailbox'[Len(mailbox) + 1] = m
      BY PostFacts DEF MailTypes
<1>2. \A i \in DOMAIN mailbox' : i \in DOMAIN mailbox \/ i = Len(mailbox) + 1
      BY <1>1
<1>3. CASE Registered(t)
      BY <1>1, <1>2, <1>3 DEF Registered
<1>4. ASSUME NEW i \in DOMAIN mailbox, Registering(t, i)
      PROVE  \E k \in DOMAIN mailbox' : Registering(t, k)'
  <2>1. i \in DOMAIN mailbox' /\ Len(mailbox) + 1 > i /\ ~(Len(mailbox) + 1 < i)
        BY <1>1
  <2> QED
      BY <1>1, <1>2, <1>4, <2>1 DEF Registering
<1> QED
    BY <1>3, <1>4

\* The entries of t after the handler of a request, ...
LEMMA HoldEntries ==
    ASSUME SentinelTypes, MailTypes, Entries, HandleHoldRelease, NEW t \in Sentinels
    PROVE  \E m \in Messages :
             /\ Pop(m) /\ m.kind \in {"Hold", "Release"}
             /\ reply' = m /\ UNCHANGED notified
             /\ Present(t)' <=> Present(t)
             /\ \A e \in sentinels' : Live(e)' /\ e.name = t =>
                   \E d \in sentinels :
                      /\ Live(d) /\ d.name = t /\ e.wfiBlocked = d.wfiBlocked
                      /\ e.requested = IF m.name = t THEN m.value ELSE d.requested
<1>1. PICK m : Pop(m) /\ m.kind \in {"Hold", "Release"} /\ UpdateCpuFrequency(SetRequested(m), m)
      BY DEF HandleHoldRelease
<1>2. m \in Messages
      BY <1>1, PopFacts DEF MailTypes
<1>3. /\ UNCHANGED <<alive, generation, notified>> /\ reply' = m
      /\ sentinels' = clean(SetRequested(m))
      BY <1>1 DEF UpdateCpuFrequency, sentinelVars
<1>4. \A e : Live(e)' <=> Live(e)
      BY <1>3 DEF Live
<1>5. \A e \in sentinels' : e \in SetRequested(m) /\ Live(e)
      BY <1>3 DEF clean
<1>6. \A e \in sentinels' : Live(e)' /\ e.name = t =>
          \E d \in sentinels :
             /\ Live(d) /\ d.name = t /\ e.wfiBlocked = d.wfiBlocked
             /\ e.requested = IF m.name = t THEN m.value ELSE d.requested
      BY <1>1, <1>2, <1>5, SetRequestedFacts
<1>7. Present(t)' => Present(t)
      BY <1>6 DEF Present
<1>8. ASSUME NEW d \in sentinels, Live(d), d.name = t
      PROVE  \E e \in sentinels' : Live(e) /\ e.name = t
  <2> DEFINE e == IF Live(d) /\ d.name = m.name THEN [d EXCEPT !.requested = m.value] ELSE d
  <2>1. e.name = d.name /\ e.generation = d.generation
    <3>1. EntryOK(d)
          BY DEF Entries
    <3> QED
        BY <3>1 DEF EntryOK
  <2>2. Live(e)
        BY <1>8, <2>1 DEF Live
  <2>3. e \in SetRequested(m)
        BY DEF SetRequested
  <2> HIDE DEF e
  <2>4. e \in sentinels'
        BY <1>3, <2>2, <2>3 DEF clean
  <2> QED
      BY <1>8, <2>1, <2>2, <2>4
<1>9. Present(t) => Present(t)'
      BY <1>4, <1>8 DEF Present
<1> QED
    BY <1>1, <1>2, <1>3, <1>6, <1>7, <1>9

\* ... after that of BlockWfiMode, ...
LEMMA BlockEntries ==
    ASSUME SentinelTypes, MailTypes, Entries, HandleBlockWfi, NEW t \in Sentinels
    PROVE  \E m \in Messages :
             /\ Pop(m) /\ m.kind = "BlockWfi" /\ Notify(m)
             /\ UNCHANGED reply
             /\ Present(t)' <=> Present(t)
             /\ \A e \in sentinels' : Live(e)' /\ e.name = t =>
                   \E d \in sentinels :
                      /\ Live(d) /\ d.name = t /\ e.requested = d.requested
                      /\ e.wfiBlocked = IF m.name = t THEN m.value ELSE d.wfiBlocked
<1>1. PICK m : /\ Pop(m) /\ m.kind = "BlockWfi" /\ Notify(m)
               /\ sentinels' = {IF Live(d) /\ d.name = m.name
                                THEN [d EXCEPT !.wfiBlocked = m.value] ELSE d :
                                  d \in sentinels}
      BY DEF HandleBlockWfi
<1>2. m \in Messages
      BY <1>1, PopFacts DEF MailTypes
<1>3. UNCHANGED <<alive, generation, reply>>
      BY DEF HandleBlockWfi
<1>4. \A e : Live(e)' <=> Live(e)
      BY <1>3 DEF Live
<1>5. \A e \in sentinels' : \E d \in sentinels :
         /\ e.name = d.name /\ e.requested = d.requested /\ (Live(e) <=> Live(d))
         /\ e.wfiBlocked = IF Live(d) /\ d.name = m.name THEN m.value ELSE d.wfiBlocked
      BY <1>1, <1>2, SetBlockedFacts
<1>6. \A e \in sentinels' : Live(e)' /\ e.name = t =>
          \E d \in sentinels :
             /\ Live(d) /\ d.name = t /\ e.requested = d.requested
             /\ e.wfiBlocked = IF m.name = t THEN m.value ELSE d.wfiBlocked
      BY <1>4, <1>5
<1>7. Present(t)' => Present(t)
      BY <1>6 DEF Present
<1>8. ASSUME NEW d \in sentinels, Live(d), d.name = t
      PROVE  \E e \in sentinels' : Live(e) /\ e.name = t
  <2> DEFINE e == IF Live(d) /\ d.name = m.name THEN [d EXCEPT !.wfiBlocked = m.value] ELSE d
  <2>1. e.name = d.name /\ e.generation = d.generation
    <3>1. EntryOK(d)
          BY DEF Entries
    <3> QED
        BY <3>1 DEF EntryOK
  <2>2. Live(e)
        BY <1>8, <2>1 DEF Live
  <2>3. e \in sentinels'
        BY <1>1
  <2> HIDE DEF e
  <2> QED
      BY <1>8, <2>1, <2>2, <2>3
<1>9. Present(t) => Present(t)'
      BY <1>4, <1>8 DEF Present
<1> QED
    BY <1>1, <1>2, <1>3, <1>6, <1>7, <1>9

\* ... and after that of a registration.
LEMMA RegisterEntries ==
    ASSUME SentinelTypes, MailTypes, Entries, HandleRegister, NEW t \in Sentinels
    PROVE  \E m \in Messages :
             /\ Pop(m) /\ m.kind = "Register"
             /\ UNCHANGED <<notified, reply>>
             /\ ~(m.name = t /\ m.generation = generation[t]) =>
                   /\ Present(t)' <=> Present(t)
                   /\ \A e \in sentinels' : Live(e)' /\ e.name = t => e \in sentinels /\ Live(e)
             /\ m.name = t /\ m.generation = generation[t] /\ alive[t] =>
                   /\ Present(t)'
                   /\ \A e \in sentinels' : Live(e)' /\ e.name = t =>
                         e.requested = 0 /\ e.wfiBlocked = FALSE
<1>1. PICK m : /\ Pop(m) /\ m.kind = "Register"
               /\ \A e \in clean(sentinels) : e.name # m.name
               /\ sentinels' = clean(sentinels) \cup
                      {[Entry(m.name) EXCEPT !.generation = m.generation]}
      BY DEF HandleRegister
<1>2. m \in Messages
      BY <1>1, PopFacts DEF MailTypes
<1>3. UNCHANGED <<alive, generation, reply, notified>>
      BY DEF HandleRegister, sentinelVars
<1>4. \A e : Live(e)' <=> Live(e)
      BY <1>3 DEF Live
<1> DEFINE new == [Entry(m.name) EXCEPT !.generation = m.generation]
<1>5. /\ new.name = m.name /\ new.generation = m.generation
      /\ new.requested = 0 /\ new.wfiBlocked = FALSE
      BY <1>2, NewEntry
<1>6. sentinels' = clean(sentinels) \cup {new}
      BY <1>1
<1> HIDE DEF new
<1>7. \A e \in sentinels : Live(e) => e \in sentinels'
      BY <1>6 DEF clean
<1>8. \A e \in sentinels' : e = new \/ (e \in sentinels /\ Live(e) /\ e.name # m.name)
      BY <1>1, <1>6 DEF clean
<1>9. ASSUME ~(m.name = t /\ m.generation = generation[t])
      PROVE  /\ Present(t)' <=> Present(t)
             /\ \A e \in sentinels' : Live(e)' /\ e.name = t => e \in sentinels /\ Live(e)
  <2>1. ~(Live(new) /\ new.name = t)
        BY <1>5, <1>9 DEF Live
  <2> QED
      BY <1>4, <1>7, <1>8, <2>1 DEF Present
<1>10. ASSUME m.name = t, m.generation = generation[t], alive[t]
       PROVE  /\ Present(t)'
              /\ \A e \in sentinels' : Live(e)' /\ e.name = t =>
                    e.requested = 0 /\ e.wfiBlocked = FALSE
  <2>1. Live(new) /\ new.name = t /\ new \in sentinels'
        BY <1>5, <1>6, <1>10 DEF Live
  <2> QED
      BY <1>4, <1>5, <1>8, <1>10, <2>1 DEF Present
<1> QED
    BY <1>1, <1>2, <1>3, <1>9, <1>10

\* The entries of t when nothing happens to them.
LEMMA OtherEntries ==
    ASSUME NEW t, alive'[t] = alive[t], generation'[t] = generation[t],
           sentinels' = sentinels \/ sentinels' = clean(sentinels)
    PROVE  /\ Present(t)' <=> Present(t)
           /\ \A e \in sentinels' : Live(e)' /\ e.name = t => e \in sentinels /\ Live(e)
BY DEF Present, Live, clean

\* A new object of the name s has no entry yet.
LEMMA NotPresent ==
    ASSUME SentinelTypes, Entries, NEW s \in Sentinels, Create(s)
    PROVE  \A e \in sentinels' : ~(Live(e)' /\ e.name = s)
<1>1. generation'[s] = generation[s] + 1 /\ sentinels' = sentinels
      BY CreateFacts
<1>2. \A e \in sentinels : e.name = s => e.generation <= generation[s] /\ e.generation \in Nat
      BY DEF Entries, EntryOK
<1>3. generation[s] \in Nat
      BY DEF SentinelTypes
<1>4. \A e \in sentinels : e.name = s => e.generation # generation'[s]
      BY <1>1, <1>2, <1>3
<1> QED
    BY <1>1, <1>4 DEF Live

\* Create and Destroy touch one name.
LEMMA OneName ==
    ASSUME SentinelTypes, NEW s \in Sentinels, Create(s) \/ Destroy(s), NEW t \in Sentinels, t # s
    PROVE  /\ alive'[t] = alive[t] /\ generation'[t] = generation[t]
           /\ hold'[t] = hold[t] /\ block'[t] = block[t]
           /\ waiting'[t] = waiting[t] /\ notified'[t] = notified[t] /\ tainted'[t] = tainted[t]
           /\ UNCHANGED <<sentinels, reply>>
<1>1. CASE Create(s)
      BY <1>1, CreateFacts DEF SentinelTypes
<1>2. CASE Destroy(s)
      BY <1>2 DEF Destroy, SentinelTypes
<1> QED
    BY <1>1, <1>2

\* An object is registered once, ahead of what it asks for and behind what
\* earlier objects of its name asked for.
LEMMA RegistrationStep ==
    /\ SentinelTypes /\ MailTypes /\ Entries /\ Generations /\ Registration /\ [Next]_vars
    => Registration'
<1> SUFFICES ASSUME SentinelTypes, MailTypes, Entries, Generations, Registration, [Next]_vars,
                    NEW t \in Sentinels, alive'[t]
             PROVE  (Registered(t) \/ \E i \in DOMAIN mailbox : Registering(t, i))'
    BY DEF Registration
<1> DEFINE Done(x) == Registered(x) \/ \E i \in DOMAIN mailbox : Registering(x, i)
<1>d. alive[t] => Done(t)
      BY DEF Registration
<1>1. CASE /\ UNCHANGED <<alive, generation, hold, block, mailbox>>
           /\ sentinels' = sentinels \/ sentinels' = clean(sentinels)
  <2>1. Present(t)' <=> Present(t)
        BY <1>1, OtherEntries
  <2> QED
      BY <1>1, <1>d, <2>1 DEF Registered, Registering
<1>2. CASE HandleHoldRelease
  <2>1. PICK m \in Messages : /\ Pop(m) /\ m.kind \in {"Hold", "Release"}
                              /\ Present(t)' <=> Present(t)
        BY <1>2, HoldEntries
  <2>2. UNCHANGED <<alive, generation>>
        BY <1>2, HandleFacts
  <2> QED
      BY <1>d, <2>1, <2>2, RegistrationPop
<1>3. CASE HandleBlockWfi
  <2>1. PICK m \in Messages : /\ Pop(m) /\ m.kind = "BlockWfi"
                              /\ Present(t)' <=> Present(t)
        BY <1>3, BlockEntries
  <2>2. UNCHANGED <<alive, generation>>
        BY <1>3, HandleFacts
  <2> QED
      BY <1>d, <2>1, <2>2, RegistrationPop
<1>4. CASE HandleRegister
  <2>1. PICK m \in Messages :
             /\ Pop(m) /\ m.kind = "Register"
             /\ ~(m.name = t /\ m.generation = generation[t]) => (Present(t)' <=> Present(t))
             /\ m.name = t /\ m.generation = generation[t] /\ alive[t] => Present(t)'
        BY <1>4, RegisterEntries
  <2>2. UNCHANGED <<alive, generation>>
        BY <1>4, HandleFacts
  <2>3. CASE ~(m.name = t /\ m.generation = generation[t])
        BY <1>d, <2>1, <2>2, <2>3, RegistrationPop
  <2>4. CASE m.name = t /\ m.generation = generation[t]
    <3>1. /\ m = mailbox[1] /\ 1 \in DOMAIN mailbox
          /\ DOMAIN mailbox = 1..Len(mailbox) /\ Len(mailbox) \in Nat
          /\ DOMAIN mailbox' = 1..(Len(mailbox) - 1)
          /\ \A i \in DOMAIN mailbox' : i + 1 \in DOMAIN mailbox /\ mailbox'[i] = mailbox[i + 1]
          BY <2>1, PopFacts DEF MailTypes
    <3>2. ~Registered(t)
          BY <2>1, <2>4, <3>1 DEF Registered
    <3>3. PICK i \in DOMAIN mailbox : Registering(t, i)
          BY <1>d, <2>2, <3>2
    <3>4. i = 1
      <4>1. ~(1 < i) \/ mailbox[1].generation < generation[t]
            BY <2>4, <3>1, <3>3 DEF Registering
      <4>2. generation[t] \in Nat
            BY DEF SentinelTypes
      <4> QED
          BY <2>4, <3>1, <4>1, <4>2
    <3>5. \A j \in DOMAIN mailbox' : j + 1 > 1
          BY <3>1
    <3> QED
        BY <2>1, <2>2, <2>4, <3>1, <3>3, <3>4, <3>5 DEF Registering, Registered
  <2> QED
      BY <2>3, <2>4
<1>5. ASSUME NEW s \in Sentinels,
             \/ \E level \in HoldLevels : HoldMinimumFrequency(s, level)
             \/ ReleaseMinimumFrequency(s)
             \/ BlockWfiMode(s)
      PROVE  Done(t)'
  <2>1. PICK m \in Messages : /\ mailbox' = Append(mailbox, m)
                              /\ m.name = s /\ m.generation = generation[s] /\ m.kind # "Register"
        BY <1>5, SendFacts
  <2>2. UNCHANGED <<alive, generation, sentinels>>
        BY <1>5, SendFacts
  <2>3. Present(t)' <=> Present(t)
        BY <2>2, OtherEntries
  <2> QED
      BY <1>d, <2>1, <2>2, <2>3, RegistrationPost
<1>6. ASSUME NEW s \in Sentinels, Create(s)
      PROVE  Done(t)'
  <2>1. PICK m \in Messages : /\ mailbox' = Append(mailbox, m)
                              /\ m.kind = "Register" /\ m.name = s
                              /\ m.generation = generation'[s]
        BY <1>6, CreateFacts
  <2>2. CASE t # s
    <3>1. alive'[t] = alive[t] /\ generation'[t] = generation[t] /\ UNCHANGED sentinels
          BY <1>6, <2>2, OneName
    <3>2. Present(t)' <=> Present(t)
          BY <3>1, OtherEntries
    <3> QED
        BY <1>d, <2>1, <2>2, <3>1, <3>2, RegistrationPost
  <2>3. CASE t = s
    <3>1. ~Present(t)'
          BY <1>6, <2>3, NotPresent DEF Present
    <3>2. /\ DOMAIN mailbox = 1..Len(mailbox) /\ Len(mailbox) \in Nat
          /\ DOMAIN mailbox' = 1..(Len(mailbox) + 1)
          /\ \A i \in DOMAIN mailbox : mailbox'[i] = mailbox[i]
          /\ mailbox'[Len(mailbox) + 1] = m
          BY <2>1, PostFacts DEF MailTypes
    <3>3. PICK n : n = Len(mailbox) + 1
          OBVIOUS
    <3>4. n \in DOMAIN mailbox' /\ \A j \in DOMAIN mailbox' : ~(j > n) /\ (j < n => j \in DOMAIN mailbox)
          BY <3>2, <3>3
    <3>5. generation'[t] = generation[t] + 1 /\ generation[t] \in Nat
          BY <1>6, <2>3, CreateFacts DEF SentinelTypes
    <3>6. \A j \in DOMAIN mailbox : mailbox[j].name = t =>
             mailbox[j].generation <= generation[t] /\ mailbox[j].generation \in Nat
          BY MessageFields DEF Generations, MailTypes
    <3>7. \A j \in DOMAIN mailbox : mailbox[j].name = t => mailbox[j].generation < generation'[t]
          BY <3>5, <3>6
    <3>8. Registering(t, n)'
          BY <2>1, <2>3, <3>1, <3>2, <3>3, <3>4, <3>7 DEF Registering
    <3> QED
        BY <3>4, <3>8
  <2> QED
      BY <2>2, <2>3
<1>7. ASSUME NEW s \in Sentinels, Destroy(s)
      PROVE  Done(t)'
  <2>1. t # s
        BY <1>7 DEF Destroy, SentinelTypes
  <2>2. /\ alive'[t] = alive[t] /\ generation'[t] = generation[t]
        /\ UNCHANGED <<sentinels, mailbox>>
        BY <1>7, <2>1, OneName DEF Destroy
  <2>3. Present(t)' <=> Present(t)
        BY <2>2, OtherEntries
  <2> QED
      BY <1>d, <2>2, <2>3 DEF Registered, Registering
<1> QED
    BY <1>1, <1>2, <1>3, <1>4, <1>5, <1>6, <1>7, MailChanges

\* The first message of t is of this object exactly if t is registered or
\* that message registers it.
LEMMA FirstMessage ==
    ASSUME SentinelTypes, MailTypes, Registration, NEW m, Pop(m), NEW t \in Sentinels,
           alive[t], m.name = t
    PROVE  /\ m.generation # generation[t] => ~Present(t)
           /\ m.generation = generation[t] /\ m.kind # "Register" => Present(t)
           /\ m.generation = generation[t] /\ m.kind = "Register" => ~Present(t)
<1>1. m = mailbox[1] /\ 1 \in DOMAIN mailbox /\ DOMAIN mailbox = 1..Len(mailbox)
      BY PopFacts DEF MailTypes
<1>2. CASE Registered(t)
      BY <1>1, <1>2 DEF Registered
<1>3. ASSUME NEW i \in DOMAIN mailbox, Registering(t, i)
      PROVE  /\ ~Present(t)
             /\ m.generation = generation[t] => m.kind = "Register"
  <2>1. i = 1 \/ 1 < i
        BY <1>1
  <2>2. 1 < i => m.generation < generation[t]
        BY <1>1, <1>3 DEF Registering
  <2>3. generation[t] \in Nat
        BY DEF SentinelTypes
  <2>4. 1 < i => m.generation # generation[t]
        BY <2>2, <2>3
  <2> QED
      BY <1>1, <1>3, <2>1, <2>4 DEF Registering
<1> QED
    BY <1>2, <1>3 DEF Registration

\* What a sentinel holds reaches the governor.
LEMMA HoldReachesStep ==
    ASSUME SentinelTypes, MailTypes, Entries, Generations, Registration, Reaches, [Next]_vars,
           NEW t \in Sentinels, alive'[t]
    PROVE  HoldReaches(t)'
<1>d. alive[t] => HoldReaches(t)
      BY DEF Reaches
<1>1. CASE /\ UNCHANGED <<alive, generation, hold, block, mailbox>>
           /\ sentinels' = sentinels \/ sentinels' = clean(sentinels)
  <2>1. \A e \in sentinels' : Live(e)' /\ e.name = t => e \in sentinels /\ Live(e)
        BY <1>1, OtherEntries
  <2> QED
      BY <1>1, <1>d, <2>1 DEF HoldReaches, Newest, Mine
<1>2. ASSUME HandleHoldRelease \/ HandleBlockWfi \/ HandleRegister,
             NEW m \in Messages, Pop(m),
             \/ ~Mine(t, HoldKinds, 1) /\ \A e \in sentinels' : Live(e)' /\ e.name = t =>
                    \E d \in sentinels : Live(d) /\ d.name = t /\ e.requested = d.requested
             \/ Mine(t, HoldKinds, 1) /\ \A e \in sentinels' : Live(e)' /\ e.name = t =>
                    e.requested = mailbox[1].value
      PROVE  HoldReaches(t)'
  <2>1. UNCHANGED <<alive, generation, hold>>
        BY <1>2, HandleFacts
  <2>2. /\ \A i \in DOMAIN mailbox' :
              /\ i + 1 \in DOMAIN mailbox /\ mailbox'[i] = mailbox[i + 1]
              /\ Newest(t, HoldKinds, i)' => Newest(t, HoldKinds, i + 1)
        /\ (\A i \in DOMAIN mailbox' : ~Mine(t, HoldKinds, i)') /\ Mine(t, HoldKinds, 1) =>
              Newest(t, HoldKinds, 1)
        /\ (\A i \in DOMAIN mailbox' : ~Mine(t, HoldKinds, i)') /\ ~Mine(t, HoldKinds, 1) =>
              \A i \in DOMAIN mailbox : ~Mine(t, HoldKinds, i)
        BY <1>2, <2>1, NewestPop
  <2>3. 1 \in DOMAIN mailbox
        BY <1>2, PopFacts DEF MailTypes
  <2> QED
      BY <1>2, <1>d, <2>1, <2>2, <2>3 DEF HoldReaches
<1>3. CASE HandleHoldRelease
  <2>1. PICK m \in Messages :
             /\ Pop(m) /\ m.kind \in {"Hold", "Release"}
             /\ Present(t)' <=> Present(t)
             /\ \A e \in sentinels' : Live(e)' /\ e.name = t =>
                   \E d \in sentinels :
                      /\ Live(d) /\ d.name = t
                      /\ e.requested = IF m.name = t THEN m.value ELSE d.requested
        BY <1>3, HoldEntries
  <2>2. m = mailbox[1] /\ UNCHANGED <<alive, generation>>
        BY <1>3, <2>1, PopFacts, HandleFacts DEF MailTypes
  <2>3. CASE m.name = t /\ m.generation = generation[t]
    <3>1. Mine(t, HoldKinds, 1)
          BY <2>1, <2>2, <2>3 DEF Mine, HoldKinds
    <3> QED
        BY <1>2, <1>3, <2>1, <2>2, <2>3, <3>1
  <2>4. CASE m.name = t /\ m.generation # generation[t]
    <3>1. ~Mine(t, HoldKinds, 1)
          BY <2>2, <2>4 DEF Mine
    <3>2. ~Present(t)'
          BY <2>1, <2>2, <2>4, FirstMessage
    <3> QED
        BY <1>2, <1>3, <2>1, <3>1, <3>2 DEF Present
  <2>5. CASE m.name # t
    <3>1. ~Mine(t, HoldKinds, 1)
          BY <2>2, <2>5 DEF Mine
    <3> QED
        BY <1>2, <1>3, <2>1, <2>5, <3>1
  <2> QED
      BY <2>3, <2>4, <2>5
<1>4. CASE HandleBlockWfi
  <2>1. PICK m \in Messages :
             /\ Pop(m) /\ m.kind = "BlockWfi"
             /\ \A e \in sentinels' : Live(e)' /\ e.name = t =>
                   \E d \in sentinels : Live(d) /\ d.name = t /\ e.requested = d.requested
        BY <1>4, BlockEntries
  <2>2. m = mailbox[1]
        BY <2>1, PopFacts DEF MailTypes
  <2>3. ~Mine(t, HoldKinds, 1)
        BY <2>1, <2>2 DEF Mine, HoldKinds
  <2> QED
      BY <1>2, <1>4, <2>1, <2>3
<1>5. CASE HandleRegister
  <2>1. PICK m \in Messages :
             /\ Pop(m) /\ m.kind = "Register"
             /\ ~(m.name = t /\ m.generation = generation[t]) =>
                   \A e \in sentinels' : Live(e)' /\ e.name = t => e \in sentinels /\ Live(e)
             /\ m.name = t /\ m.generation = generation[t] /\ alive[t] =>
                   \A e \in sentinels' : Live(e)' /\ e.name = t => e.requested = 0
        BY <1>5, RegisterEntries
  <2>2. m = mailbox[1] /\ UNCHANGED <<alive, generation>>
        BY <1>5, <2>1, PopFacts, HandleFacts DEF MailTypes
  <2>3. CASE m.name = t /\ m.generation = generation[t]
    <3>1. Mine(t, HoldKinds, 1) /\ m.value = 0
          BY <2>1, <2>2, <2>3, MessageFields DEF Mine, HoldKinds
    <3> QED
        BY <1>2, <1>5, <2>1, <2>2, <2>3, <3>1
  <2>4. CASE ~(m.name = t /\ m.generation = generation[t])
    <3>1. ~Mine(t, HoldKinds, 1)
          BY <2>2, <2>4 DEF Mine
    <3> QED
        BY <1>2, <1>5, <2>1, <2>4, <3>1
  <2> QED
      BY <2>3, <2>4
<1>6. ASSUME NEW s \in Sentinels,
             \/ \E level \in HoldLevels : HoldMinimumFrequency(s, level)
             \/ ReleaseMinimumFrequency(s)
             \/ BlockWfiMode(s)
      PROVE  HoldReaches(t)'
  <2>1. PICK m \in Messages : /\ mailbox' = Append(mailbox, m)
                              /\ m.name = s /\ m.generation = generation[s]
                              /\ m.kind \in HoldKinds => hold' = [hold EXCEPT ![s] = m.value]
                              /\ m.kind \notin HoldKinds => UNCHANGED hold
        BY <1>6, SendFacts
  <2>2. UNCHANGED <<alive, generation, sentinels>>
        BY <1>6, SendFacts
  <2>3. \A e \in sentinels' : Live(e)' /\ e.name = t => e \in sentinels /\ Live(e)
        BY <2>2, OtherEntries
  <2>4. CASE s = t /\ m.kind \in HoldKinds
    <3>1. hold'[t] = m.value
          BY <2>1, <2>4 DEF SentinelTypes
    <3>2. /\ \A i \in DOMAIN mailbox' : Newest(t, HoldKinds, i)' => mailbox'[i] = m
          /\ ~(\A i \in DOMAIN mailbox' : ~Mine(t, HoldKinds, i)')
      <4>1. m.kind \in HoldKinds /\ m.name = t /\ m.generation = generation[t]
            BY <2>1, <2>4
      <4>2. mailbox' = Append(mailbox, m) /\ generation'[t] = generation[t]
            BY <2>1, <2>2
      <4>3. \A i \in DOMAIN mailbox' : Newest(t, HoldKinds, i)' => mailbox'[i] = m
            BY <4>1, <4>2, NewestIsSent
      <4>4. (\A i \in DOMAIN mailbox' : ~Mine(t, HoldKinds, i)') =>
               ~(m.kind \in HoldKinds /\ m.name = t /\ m.generation = generation[t])
            BY <4>2, NewestPost
      <4> QED
          BY <4>1, <4>3, <4>4
    <3> QED
        BY <3>1, <3>2 DEF HoldReaches
  <2>5. CASE ~(s = t /\ m.kind \in HoldKinds)
    <3>1. hold'[t] = hold[t]
          BY <2>1, <2>5 DEF SentinelTypes
    <3>2. /\ \A i \in DOMAIN mailbox' : Newest(t, HoldKinds, i)' =>
                i \in DOMAIN mailbox /\ mailbox'[i] = mailbox[i] /\ Newest(t, HoldKinds, i)
          /\ (\A i \in DOMAIN mailbox' : ~Mine(t, HoldKinds, i)') =>
                \A i \in DOMAIN mailbox : ~Mine(t, HoldKinds, i)
      <4>1. ~(m.kind \in HoldKinds /\ m.name = t /\ m.generation = generation[t])
            BY <2>1, <2>5
      <4>2. mailbox' = Append(mailbox, m) /\ generation'[t] = generation[t]
            BY <2>1, <2>2
      <4> QED
          BY <4>1, <4>2, NewestPost
    <3> QED
        BY <1>d, <2>2, <2>3, <3>1, <3>2 DEF HoldReaches
  <2> QED
      BY <2>4, <2>5
<1>7. ASSUME NEW s \in Sentinels, Create(s)
      PROVE  HoldReaches(t)'
  <2>1. PICK m \in Messages : /\ mailbox' = Append(mailbox, m)
                              /\ m.kind = "Register" /\ m.name = s
                              /\ m.generation = generation'[s] /\ m.value = 0
        BY <1>7, CreateFacts
  <2>2. CASE t # s
    <3>1. /\ alive'[t] = alive[t] /\ generation'[t] = generation[t] /\ hold'[t] = hold[t]
          /\ UNCHANGED sentinels
          BY <1>7, <2>2, OneName
    <3>2. \A e \in sentinels' : Live(e)' /\ e.name = t => e \in sentinels /\ Live(e)
          BY <3>1, OtherEntries
    <3>3. /\ \A i \in DOMAIN mailbox' : Newest(t, HoldKinds, i)' =>
                i \in DOMAIN mailbox /\ mailbox'[i] = mailbox[i] /\ Newest(t, HoldKinds, i)
          /\ (\A i \in DOMAIN mailbox' : ~Mine(t, HoldKinds, i)') =>
                \A i \in DOMAIN mailbox : ~Mine(t, HoldKinds, i)
      <4>1. ~(m.kind \in HoldKinds /\ m.name = t /\ m.generation = generation[t])
            BY <2>1, <2>2
      <4>2. mailbox' = Append(mailbox, m) /\ generation'[t] = generation[t]
            BY <2>1, <3>1
      <4> QED
          BY <4>1, <4>2, NewestPost
    <3> QED
        BY <1>d, <3>1, <3>2, <3>3 DEF HoldReaches
  <2>3. CASE t = s
    <3>1. hold'[t] = 0
          BY <1>7, <2>3, CreateFacts DEF Reaches
    <3>2. \A e \in sentinels' : ~(Live(e)' /\ e.name = t)
          BY <1>7, <2>3, NotPresent
    <3>3. /\ DOMAIN mailbox = 1..Len(mailbox) /\ Len(mailbox) \in Nat
          /\ DOMAIN mailbox' = 1..(Len(mailbox) + 1)
          /\ mailbox'[Len(mailbox) + 1] = m
          BY <2>1, PostFacts DEF MailTypes
    <3>4. PICK n : n = Len(mailbox) + 1
          OBVIOUS
    <3>5. n \in DOMAIN mailbox' /\ \A j \in DOMAIN mailbox' : j = n \/ n > j
          BY <3>3, <3>4
    <3>6. Mine(t, HoldKinds, n)'
          BY <2>1, <2>3, <3>3, <3>4 DEF Mine, HoldKinds
    <3>7. \A i \in DOMAIN mailbox' : Newest(t, HoldKinds, i)' => mailbox'[i] = m
          BY <3>3, <3>4, <3>5, <3>6 DEF Newest
    <3> QED
        BY <2>1, <3>1, <3>2, <3>7 DEF HoldReaches
  <2> QED
      BY <2>2, <2>3
<1>8. ASSUME NEW s \in Sentinels, Destroy(s)
      PROVE  HoldReaches(t)'
  <2>1. t # s
        BY <1>8 DEF Destroy, SentinelTypes
  <2>2. /\ alive'[t] = alive[t] /\ generation'[t] = generation[t] /\ hold'[t] = hold[t]
        /\ UNCHANGED <<sentinels, mailbox>>
        BY <1>8, <2>1, OneName DEF Destroy
  <2>3. \A e \in sentinels' : Live(e)' /\ e.name = t => e \in sentinels /\ Live(e)
        BY <2>2, OtherEntries
  <2> QED
      BY <1>d, <2>2, <2>3 DEF HoldReaches, Newest, Mine
<1> QED
    BY <1>1, <1>3, <1>4, <1>5, <1>6, <1>7, <1>8, MailChanges

\* Whether it blocks WFI does, too.
LEMMA BlockReachesStep ==
    ASSUME SentinelTypes, MailTypes, Entries, Generations, Registration, Reaches, [Next]_vars,
           NEW t \in Sentinels, alive'[t]
    PROVE  BlockReaches(t)'
<1>d. alive[t] => BlockReaches(t)
      BY DEF Reaches
<1>1. CASE /\ UNCHANGED <<alive, generation, hold, block, mailbox>>
           /\ sentinels' = sentinels \/ sentinels' = clean(sentinels)
  <2>1. /\ Present(t)' <=> Present(t)
        /\ \A e \in sentinels' : Live(e)' /\ e.name = t => e \in sentinels /\ Live(e)
        BY <1>1, OtherEntries
  <2> QED
      BY <1>1, <1>d, <2>1 DEF BlockReaches, Newest, Mine
<1>2. ASSUME HandleHoldRelease \/ HandleBlockWfi \/ HandleRegister,
             NEW m \in Messages, Pop(m),
             \/ /\ ~Mine(t, BlockKinds, 1) /\ (Present(t)' <=> Present(t))
                /\ \A e \in sentinels' : Live(e)' /\ e.name = t =>
                      \E d \in sentinels : Live(d) /\ d.name = t /\ e.wfiBlocked = d.wfiBlocked
             \/ /\ ~Mine(t, BlockKinds, 1) /\ ~Present(t) /\ Present(t)'
                /\ \A e \in sentinels' : Live(e)' /\ e.name = t => e.wfiBlocked = FALSE
             \/ /\ Mine(t, BlockKinds, 1) /\ Present(t)'
                /\ \A e \in sentinels' : Live(e)' /\ e.name = t =>
                      e.wfiBlocked = mailbox[1].value
      PROVE  BlockReaches(t)'
  <2>1. UNCHANGED <<alive, generation, block>> /\ block[t] \in BOOLEAN
        BY <1>2, HandleFacts DEF SentinelTypes
  <2>2. /\ \A i \in DOMAIN mailbox' :
              /\ i + 1 \in DOMAIN mailbox /\ mailbox'[i] = mailbox[i + 1]
              /\ Newest(t, BlockKinds, i)' => Newest(t, BlockKinds, i + 1)
        /\ (\A i \in DOMAIN mailbox' : ~Mine(t, BlockKinds, i)') /\ Mine(t, BlockKinds, 1) =>
              Newest(t, BlockKinds, 1)
        /\ (\A i \in DOMAIN mailbox' : ~Mine(t, BlockKinds, i)') /\ ~Mine(t, BlockKinds, 1) =>
              \A i \in DOMAIN mailbox : ~Mine(t, BlockKinds, i)
        BY <1>2, <2>1, NewestPop
  <2>3. 1 \in DOMAIN mailbox
        BY <1>2, PopFacts DEF MailTypes
  <2>4. \A i \in DOMAIN mailbox' : Newest(t, BlockKinds, i)' => mailbox'[i].value = block'[t]
        BY <1>d, <2>1, <2>2 DEF BlockReaches
  <2>5. ASSUME \A i \in DOMAIN mailbox' : ~Mine(t, BlockKinds, i)'
        PROVE  /\ \A e \in sentinels' : Live(e)' /\ e.name = t => e.wfiBlocked = block'[t]
               /\ ~Present(t)' => ~block'[t]
    <3>1. CASE Mine(t, BlockKinds, 1)
          BY <1>2, <1>d, <2>1, <2>2, <2>3, <2>5, <3>1 DEF BlockReaches
    <3>2. CASE ~Mine(t, BlockKinds, 1)
      <4>1. \A i \in DOMAIN mailbox : ~Mine(t, BlockKinds, i)
            BY <2>2, <2>5, <3>2
      <4>2. /\ \A e \in sentinels : Live(e) /\ e.name = t => e.wfiBlocked = block[t]
            /\ ~Present(t) => ~block[t]
            BY <1>d, <2>1, <4>1 DEF BlockReaches
      <4>3. ~Present(t) => block[t] = FALSE
            BY <2>1, <4>2
      <4> QED
          BY <1>2, <2>1, <3>2, <4>2, <4>3
    <3> QED
        BY <3>1, <3>2
  <2> QED
      BY <2>4, <2>5 DEF BlockReaches
<1>3. CASE HandleHoldRelease
  <2>1. PICK m \in Messages :
             /\ Pop(m) /\ m.kind \in {"Hold", "Release"}
             /\ Present(t)' <=> Present(t)
             /\ \A e \in sentinels' : Live(e)' /\ e.name = t =>
                   \E d \in sentinels : Live(d) /\ d.name = t /\ e.wfiBlocked = d.wfiBlocked
        BY <1>3, HoldEntries
  <2>2. m = mailbox[1]
        BY <2>1, PopFacts DEF MailTypes
  <2>3. ~Mine(t, BlockKinds, 1)
        BY <2>1, <2>2 DEF Mine, BlockKinds
  <2> QED
      BY <1>2, <1>3, <2>1, <2>3
<1>4. CASE HandleBlockWfi
  <2>1. PICK m \in Messages :
             /\ Pop(m) /\ m.kind = "BlockWfi"
             /\ Present(t)' <=> Present(t)
             /\ \A e \in sentinels' : Live(e)' /\ e.name = t =>
                   \E d \in sentinels :
                      /\ Live(d) /\ d.name = t
                      /\ e.wfiBlocked = IF m.name = t THEN m.value ELSE d.wfiBlocked
        BY <1>4, BlockEntries
  <2>2. m = mailbox[1] /\ UNCHANGED <<alive, generation>>
        BY <1>4, <2>1, PopFacts, HandleFacts DEF MailTypes
  <2>3. CASE m.name = t /\ m.generation = generation[t]
    <3>1. Mine(t, BlockKinds, 1)
          BY <2>1, <2>2, <2>3 DEF Mine, BlockKinds
    <3>2. Present(t)'
          BY <2>1, <2>2, <2>3, FirstMessage
    <3> QED
        BY <1>2, <1>4, <2>1, <2>2, <2>3, <3>1, <3>2
  <2>4. CASE m.name = t /\ m.generation # generation[t]
    <3>1. ~Mine(t, BlockKinds, 1)
          BY <2>2, <2>4 DEF Mine
    <3>2. ~Present(t)'
          BY <2>1, <2>2, <2>4, FirstMessage
    <3>3. \A e \in sentinels' : ~(Live(e)' /\ e.name = t)
          BY <3>2 DEF Present
    <3> QED
        BY <1>2, <1>4, <2>1, <3>1, <3>3
  <2>5. CASE m.name # t
    <3>1. ~Mine(t, BlockKinds, 1)
          BY <2>2, <2>5 DEF Mine
    <3> QED
        BY <1>2, <1>4, <2>1, <2>5, <3>1
  <2> QED
      BY <2>3, <2>4, <2>5
<1>5. CASE HandleRegister
  <2>1. PICK m \in Messages :
             /\ Pop(m) /\ m.kind = "Register"
             /\ ~(m.name = t /\ m.generation = generation[t]) =>
                   /\ Present(t)' <=> Present(t)
                   /\ \A e \in sentinels' : Live(e)' /\ e.name = t => e \in sentinels /\ Live(e)
             /\ m.name = t /\ m.generation = generation[t] /\ alive[t] =>
                   /\ Present(t)'
                   /\ \A e \in sentinels' : Live(e)' /\ e.name = t => e.wfiBlocked = FALSE
        BY <1>5, RegisterEntries
  <2>2. m = mailbox[1] /\ UNCHANGED <<alive, generation>>
        BY <1>5, <2>1, PopFacts, HandleFacts DEF MailTypes
  <2>3. ~Mine(t, BlockKinds, 1)
        BY <2>1, <2>2 DEF Mine, BlockKinds
  <2>4. CASE m.name = t /\ m.generation = generation[t]
    <3>1. ~Present(t)
          BY <2>1, <2>2, <2>4, FirstMessage
    <3> QED
        BY <1>2, <1>5, <2>1, <2>2, <2>3, <2>4, <3>1
  <2>5. CASE ~(m.name = t /\ m.generation = generation[t])
        BY <1>2, <1>5, <2>1, <2>3, <2>5
  <2> QED
      BY <2>4, <2>5
<1>6. ASSUME NEW s \in Sentinels,
             \/ \E level \in HoldLevels : HoldMinimumFrequency(s, level)
             \/ ReleaseMinimumFrequency(s)
             \/ BlockWfiMode(s)
      PROVE  BlockReaches(t)'
  <2>1. PICK m \in Messages : /\ mailbox' = Append(mailbox, m)
                              /\ m.name = s /\ m.generation = generation[s]
                              /\ m.kind \in BlockKinds => block' = [block EXCEPT ![s] = m.value]
                              /\ m.kind \notin BlockKinds => UNCHANGED block
    <3>1. \A k : k \in BlockKinds => k \notin HoldKinds
          BY DEF BlockKinds, HoldKinds
    <3>2. \A k \in {"BlockWfi"} : k \in BlockKinds
          BY DEF BlockKinds
    <3> QED
        BY <1>6, <3>1, <3>2, SendFacts
  <2>2. UNCHANGED <<alive, generation, sentinels>>
        BY <1>6, SendFacts
  <2>3. /\ Present(t)' <=> Present(t)
        /\ \A e \in sentinels' : Live(e)' /\ e.name = t => e \in sentinels /\ Live(e)
        BY <2>2, OtherEntries
  <2>4. CASE s = t /\ m.kind \in BlockKinds
    <3>1. block'[t] = m.value
          BY <2>1, <2>4 DEF SentinelTypes
    <3>2. /\ \A i \in DOMAIN mailbox' : Newest(t, BlockKinds, i)' => mailbox'[i] = m
          /\ ~(\A i \in DOMAIN mailbox' : ~Mine(t, BlockKinds, i)')
      <4>1. m.kind \in BlockKinds /\ m.name = t /\ m.generation = generation[t]
            BY <2>1, <2>4
      <4>2. mailbox' = Append(mailbox, m) /\ generation'[t] = generation[t]
            BY <2>1, <2>2
      <4>3. \A i \in DOMAIN mailbox' : Newest(t, BlockKinds, i)' => mailbox'[i] = m
            BY <4>1, <4>2, NewestIsSent
      <4>4. (\A i \in DOMAIN mailbox' : ~Mine(t, BlockKinds, i)') =>
               ~(m.kind \in BlockKinds /\ m.name = t /\ m.generation = generation[t])
            BY <4>2, NewestPost
      <4> QED
          BY <4>1, <4>3, <4>4
    <3> QED
        BY <3>1, <3>2 DEF BlockReaches
  <2>5. CASE ~(s = t /\ m.kind \in BlockKinds)
    <3>1. block'[t] = block[t]
          BY <2>1, <2>5 DEF SentinelTypes
    <3>2. /\ \A i \in DOMAIN mailbox' : Newest(t, BlockKinds, i)' =>
                i \in DOMAIN mailbox /\ mailbox'[i] = mailbox[i] /\ Newest(t, BlockKinds, i)
          /\ (\A i \in DOMAIN mailbox' : ~Mine(t, BlockKinds, i)') =>
                \A i \in DOMAIN mailbox : ~Mine(t, BlockKinds, i)
      <4>1. ~(m.kind \in BlockKinds /\ m.name = t /\ m.generation = generation[t])
            BY <2>1, <2>5
      <4>2. mailbox' = Append(mailbox, m) /\ generation'[t] = generation[t]
            BY <2>1, <2>2
      <4> QED
          BY <4>1, <4>2, NewestPost
    <3> QED
        BY <1>d, <2>2, <2>3, <3>1, <3>2 DEF BlockReaches
  <2> QED
      BY <2>4, <2>5
<1>7. ASSUME NEW s \in Sentinels, Create(s)
      PROVE  BlockReaches(t)'
  <2>1. PICK m \in Messages : /\ mailbox' = Append(mailbox, m)
                              /\ m.kind = "Register" /\ m.name = s
                              /\ m.generation = generation'[s] /\ m.value = 0
        BY <1>7, CreateFacts
  <2>2. CASE t # s
    <3>1. /\ alive'[t] = alive[t] /\ generation'[t] = generation[t] /\ block'[t] = block[t]
          /\ UNCHANGED sentinels
          BY <1>7, <2>2, OneName
    <3>2. /\ Present(t)' <=> Present(t)
          /\ \A e \in sentinels' : Live(e)' /\ e.name = t => e \in sentinels /\ Live(e)
          BY <3>1, OtherEntries
    <3>3. /\ \A i \in DOMAIN mailbox' : Newest(t, BlockKinds, i)' =>
                i \in DOMAIN mailbox /\ mailbox'[i] = mailbox[i] /\ Newest(t, BlockKinds, i)
          /\ (\A i \in DOMAIN mailbox' : ~Mine(t, BlockKinds, i)') =>
                \A i \in DOMAIN mailbox : ~Mine(t, BlockKinds, i)
      <4>1. ~(m.kind \in BlockKinds /\ m.name = t /\ m.generation = generation[t])
            BY <2>1, <2>2
      <4>2. mailbox' = Append(mailbox, m) /\ generation'[t] = generation[t]
            BY <2>1, <3>1
      <4> QED
          BY <4>1, <4>2, NewestPost
    <3> QED
        BY <1>d, <3>1, <3>2, <3>3 DEF BlockReaches
  <2>3. CASE t = s
    <3>1. ~block'[t]
          BY <1>7, <2>3, CreateFacts DEF Reaches
    <3>2. \A e \in sentinels' : ~(Live(e)' /\ e.name = t)
          BY <1>7, <2>3, NotPresent
    <3>3. /\ DOMAIN mailbox = 1..Len(mailbox) /\ Len(mailbox) \in Nat
          /\ DOMAIN mailbox' = 1..(Len(mailbox) + 1)
          /\ \A i \in DOMAIN mailbox : mailbox'[i] = mailbox[i]
          /\ mailbox'[Len(mailbox) + 1] = m
          BY <2>1, PostFacts DEF MailTypes
    <3>4. generation'[t] = generation[t] + 1 /\ generation[t] \in Nat
          BY <1>7, <2>3, CreateFacts DEF SentinelTypes
    <3>5. \A j \in DOMAIN mailbox : mailbox[j].name = t =>
             mailbox[j].generation <= generation[t] /\ mailbox[j].generation \in Nat
          BY MessageFields DEF Generations, MailTypes
    <3>6. \A j \in DOMAIN mailbox : mailbox[j].name = t => mailbox[j].generation # generation'[t]
          BY <3>4, <3>5
    <3>7. \A i \in DOMAIN mailbox' : i \in DOMAIN mailbox \/ i = Len(mailbox) + 1
          BY <3>3
    <3>8. \A i \in DOMAIN mailbox' : ~Mine(t, BlockKinds, i)'
          BY <2>1, <3>3, <3>6, <3>7 DEF Mine, BlockKinds
    <3> QED
        BY <3>1, <3>2, <3>8 DEF BlockReaches, Newest
  <2> QED
      BY <2>2, <2>3
<1>8. ASSUME NEW s \in Sentinels, Destroy(s)
      PROVE  BlockReaches(t)'
  <2>1. t # s
        BY <1>8 DEF Destroy, SentinelTypes
  <2>2. /\ alive'[t] = alive[t] /\ generation'[t] = generation[t] /\ block'[t] = block[t]
        /\ UNCHANGED <<sentinels, mailbox>>
        BY <1>8, <2>1, OneName DEF Destroy
  <2>3. /\ Present(t)' <=> Present(t)
        /\ \A e \in sentinels' : Live(e)' /\ e.name = t => e \in sentinels /\ Live(e)
        BY <2>2, OtherEntries
  <2> QED
      BY <1>d, <2>2, <2>3 DEF BlockReaches, Newest, Mine
<1> QED
    BY <1>1, <1>3, <1>4, <1>5, <1>6, <1>7, <1>8, MailChanges

\* So whatever a sentinel asks for reaches the governor in order.
LEMMA ReachesStep ==
    /\ SentinelTypes /\ MailTypes /\ Entries /\ Generations /\ Registration /\ Reaches
    /\ [Next]_vars
    => Reaches'
<1> SUFFICES ASSUME SentinelTypes, MailTypes, Entries, Generations, Registration, Reaches,
                    [Next]_vars, NEW t \in Sentinels
             PROVE  /\ alive'[t] => HoldReaches(t)' /\ BlockReaches(t)'
                    /\ ~alive'[t] => hold'[t] = 0 /\ ~block'[t]
    BY DEF Reaches
<1>1. alive'[t] => HoldReaches(t)' /\ BlockReaches(t)'
      BY HoldReachesStep, BlockReachesStep
<1>2. ASSUME ~alive'[t]
      PROVE  hold'[t] = 0 /\ ~block'[t]
  <2>d. ~alive[t] => hold[t] = 0 /\ ~block[t]
        BY DEF Reaches
  <2>1. CASE UNCHANGED <<alive, hold, block>>
        BY <1>2, <2>1, <2>d
  <2>2. CASE HandleHoldRelease \/ HandleBlockWfi \/ HandleRegister
        BY <2>1, <2>2, HandleFacts
  <2>3. ASSUME NEW s \in Sentinels,
               \/ \E level \in HoldLevels : HoldMinimumFrequency(s, level)
               \/ ReleaseMinimumFrequency(s)
               \/ BlockWfiMode(s)
        PROVE  hold'[t] = 0 /\ ~block'[t]
    <3>1. alive[s] /\ UNCHANGED alive
          BY <2>3, SendFacts
    <3>2. t # s
          BY <1>2, <3>1
    <3>3. hold'[t] = hold[t] /\ block'[t] = block[t]
          BY <2>3, <3>2 DEF HoldMinimumFrequency, ReleaseMinimumFrequency, BlockWfiMode,
                            SentinelTypes
    <3> QED
        BY <1>2, <2>d, <3>1, <3>3
  <2>4. ASSUME NEW s \in Sentinels, Create(s) \/ Destroy(s)
        PROVE  hold'[t] = 0 /\ ~block'[t]
    <3>1. CASE t # s
          BY <1>2, <2>4, <2>d, <3>1, OneName
    <3>2. CASE t = s
          BY <1>2, <2>4, <3>2, CreateFacts DEF Destroy, SentinelTypes
    <3> QED
        BY <3>1, <3>2
  <2> QED
      BY <2>1, <2>2, <2>3, <2>4, MailChanges
<1> QED
    BY <1>1, <1>2

-----------------------------------------------------------------------------
(***************************************************************************)
(* The calls that wait for an answer.                                      *)
(***************************************************************************)

\* A call of t when a message is handled that is not its request.
LEMMA OneCallPop ==
    ASSUME MailTypes, NEW m, Pop(m), UNCHANGED <<generation, waiting>>, NEW t,
           OneCall(t), notified'[t] = notified[t],
           ~(reply'.kind = "Hold" /\ reply'.name = t)
    PROVE  OneCall(t)'
<1>1. /\ DOMAIN mailbox = 1..Len(mailbox) /\ Len(mailbox) \in Nat
      /\ DOMAIN mailbox' = 1..(Len(mailbox) - 1)
      /\ \A i \in DOMAIN mailbox' : i + 1 \in DOMAIN mailbox /\ mailbox'[i] = mailbox[i + 1]
      BY PopFacts DEF MailTypes
<1>2. notified'[t] => waiting'[t] /\ \A i \in DOMAIN mailbox' : mailbox'[i].name # t
      BY <1>1 DEF OneCall
<1>3. ASSUME NEW i \in DOMAIN mailbox', mailbox'[i].name = t, mailbox'[i].kind \in Asks
      PROVE  /\ waiting'[t] /\ ~notified'[t]
             /\ mailbox'[i].generation = generation'[t]
             /\ \A j \in DOMAIN mailbox' : mailbox'[j].name = t => j <= i
  <2>1. /\ waiting[t] /\ ~notified[t] /\ mailbox[i + 1].generation = generation[t]
        /\ \A j \in DOMAIN mailbox : mailbox[j].name = t => j <= i + 1
        BY <1>1, <1>3 DEF OneCall
  <2>2. \A j \in DOMAIN mailbox' : mailbox'[j].name = t => j + 1 <= i + 1
        BY <1>1, <2>1
  <2> QED
      BY <1>1, <1>3, <2>1, <2>2
<1> QED
    BY <1>2, <1>3 DEF OneCall

\* A call of t when its request is the first message: it is the last one, too.
LEMMA OneCallAsked ==
    ASSUME MailTypes, NEW m, Pop(m), NEW t, OneCall(t), m.name = t, m.kind \in Asks
    PROVE  /\ waiting[t] /\ ~notified[t] /\ m.generation = generation[t]
           /\ \A i \in DOMAIN mailbox' : mailbox'[i].name # t
<1>1. /\ m = mailbox[1] /\ 1 \in DOMAIN mailbox
      /\ DOMAIN mailbox = 1..Len(mailbox) /\ Len(mailbox) \in Nat
      /\ DOMAIN mailbox' = 1..(Len(mailbox) - 1)
      /\ \A i \in DOMAIN mailbox' : i + 1 \in DOMAIN mailbox /\ mailbox'[i] = mailbox[i + 1]
      BY PopFacts DEF MailTypes
<1>2. /\ waiting[t] /\ ~notified[t] /\ m.generation = generation[t]
      /\ \A j \in DOMAIN mailbox : mailbox[j].name = t => j <= 1
      BY <1>1 DEF OneCall
<1>3. \A i \in DOMAIN mailbox' : ~(i + 1 <= 1)
      BY <1>1
<1> QED
    BY <1>1, <1>2, <1>3

\* A call of t when a message is sent.
LEMMA OneCallPost ==
    ASSUME MailTypes, NEW m \in Messages, mailbox' = Append(mailbox, m), NEW t,
           OneCall(t), generation'[t] = generation[t], UNCHANGED reply,
           notified'[t] = notified[t],
           m.name # t => waiting'[t] = waiting[t],
           m.name = t => ~waiting[t],
           m.name = t /\ m.kind \in Asks => waiting'[t] /\ m.generation = generation[t],
           m.name = t /\ m.kind \notin Asks => waiting'[t] = waiting[t]
    PROVE  OneCall(t)'
<1>1. PICK n : n = Len(mailbox) + 1
      OBVIOUS
<1>2. /\ DOMAIN mailbox = 1..Len(mailbox) /\ Len(mailbox) \in Nat
      /\ DOMAIN mailbox' = 1..n
      /\ \A i \in DOMAIN mailbox : mailbox'[i] = mailbox[i]
      /\ mailbox'[n] = m
      BY <1>1, PostFacts DEF MailTypes
<1>3. \A i \in DOMAIN mailbox' : i \in DOMAIN mailbox \/ i = n
      BY <1>1, <1>2
<1>4. \A i \in DOMAIN mailbox' : i <= n
      BY <1>1, <1>2
<1>5. CASE m.name # t
      BY <1>2, <1>3, <1>5 DEF OneCall
<1>6. CASE m.name = t
  <2>1. ~waiting[t] /\ ~notified'[t] /\ ~(reply.kind = "Hold" /\ reply.name = t)
        BY <1>6 DEF OneCall
  <2>2. \A i \in DOMAIN mailbox : ~(mailbox[i].name = t /\ mailbox[i].kind \in Asks)
        BY <2>1 DEF OneCall
  <2>3. \A i \in DOMAIN mailbox' : mailbox'[i].name = t /\ mailbox'[i].kind \in Asks => i = n
        BY <1>2, <1>3, <2>2
  <2> QED
      BY <1>2, <1>4, <1>6, <2>1, <2>3 DEF OneCall
<1> QED
    BY <1>5, <1>6

\* The kinds of steps that matter for the calls.
LEMMA CallChanges ==
    ASSUME [Next]_vars
    PROVE  \/ HandleHoldRelease \/ HandleBlockWfi \/ HandleRegister \/ Answer
           \/ \E s \in Sentinels : SentinelStep(s)
           \/ /\ UNCHANGED <<alive, generation, mailbox, waiting, notified, tainted>>
              /\ reply' \in {reply, Tick, Wake}
BY DEF Next, HandleMessage, UpdateCpuFrequency, FreqUpdateTick, HandlerStep, SetFrequency,
       Publish, StayAwake, EnterWfi, SetPermanentFrequency, ResetPermanentFrequency,
       LogHold, LogTake, LogTimeout, LogRelease, logRest, ChangeLoad, sentinelVars, vars

\* A task waits for one answer at a time, unless it missed one.
LEMMA OneCallStep ==
    ASSUME SentinelTypes, MailTypes, Entries, Calls, [Next]_vars, NEW t \in Sentinels, ~tainted'[t]
    PROVE  OneCall(t)'
<1>t. ~tainted[t]
  <2>1. CASE UNCHANGED tainted
        BY <2>1
  <2>2. ASSUME NEW s \in Sentinels, NotNotified(s) PROVE ~tainted[t]
        BY <2>2 DEF NotNotified, SentinelTypes
  <2>3. UNCHANGED tainted \/ \E s \in Sentinels : NotNotified(s)
    <3>1. CASE HandleHoldRelease \/ HandleBlockWfi \/ HandleRegister
          BY <3>1, HandleFacts
    <3>2. CASE Answer
          BY <3>2 DEF Answer
    <3>3. ASSUME NEW s \in Sentinels, SentinelStep(s)
          PROVE  UNCHANGED tainted \/ NotNotified(s)
          BY <3>3 DEF SentinelStep, HoldMinimumFrequency, ReleaseMinimumFrequency,
                      BlockWfiMode, Notified, Destroy, Create
    <3> QED
        BY <3>1, <3>2, <3>3, CallChanges
  <2> QED
      BY <2>1, <2>2, <2>3
<1>o. OneCall(t) /\ (waiting[t] => alive[t])
      BY <1>t DEF Calls
<1>1. CASE /\ UNCHANGED <<alive, generation, mailbox, waiting, notified, tainted>>
           /\ reply' \in {reply, Tick, Wake}
      BY <1>1, <1>o DEF OneCall, Tick, Wake
<1>2. CASE HandleHoldRelease
  <2>1. PICK m \in Messages : /\ Pop(m) /\ m.kind \in {"Hold", "Release"}
                              /\ reply' = m /\ UNCHANGED notified
        BY <1>2, HoldEntries
  <2>2. UNCHANGED <<generation, waiting>>
        BY <1>2, HandleFacts
  <2>3. CASE ~(m.kind = "Hold" /\ m.name = t)
        BY <1>o, <2>1, <2>2, <2>3, OneCallPop
  <2>4. CASE m.kind = "Hold" /\ m.name = t
    <3>1. /\ waiting[t] /\ ~notified[t] /\ m.generation = generation[t]
          /\ \A i \in DOMAIN mailbox' : mailbox'[i].name # t
          BY <1>o, <2>1, <2>4, OneCallAsked DEF Asks
    <3> QED
        BY <2>1, <2>2, <3>1 DEF OneCall
  <2> QED
      BY <2>3, <2>4
<1>3. CASE HandleBlockWfi
  <2>1. PICK m \in Messages : /\ Pop(m) /\ m.kind = "BlockWfi" /\ Notify(m)
                              /\ UNCHANGED reply
        BY <1>3, BlockEntries
  <2>2. UNCHANGED <<generation, waiting>>
        BY <1>3, HandleFacts
  <2>3. reply' = Tick /\ ~(reply'.kind = "Hold" /\ reply'.name = t)
        BY <2>1, PopFacts DEF MailTypes, Tick
  <2>4. CASE m.name # t
    <3>1. notified'[t] = notified[t]
          BY <2>1, <2>4, NotifyFacts
    <3> QED
        BY <1>o, <2>1, <2>2, <2>3, <3>1, OneCallPop
  <2>5. CASE m.name = t
    <3>1. /\ waiting[t] /\ ~notified[t] /\ m.generation = generation[t]
          /\ \A i \in DOMAIN mailbox' : mailbox'[i].name # t
          BY <1>o, <2>1, <2>5, OneCallAsked DEF Asks
    <3> QED
        BY <2>2, <2>3, <3>1 DEF OneCall
  <2> QED
      BY <2>4, <2>5
<1>4. CASE HandleRegister
  <2>1. PICK m \in Messages : Pop(m) /\ UNCHANGED <<notified, reply>>
        BY <1>4, RegisterEntries
  <2>2. UNCHANGED <<generation, waiting>>
        BY <1>4, HandleFacts
  <2>3. ~(reply'.kind = "Hold" /\ reply'.name = t)
        BY <2>1, PopFacts DEF MailTypes, Tick
  <2> QED
      BY <1>o, <2>1, <2>2, <2>3, OneCallPop
<1>5. CASE Answer
  <2>1. /\ UNCHANGED <<alive, generation, mailbox, waiting>> /\ reply' = Tick
        /\ ~(reply'.kind = "Hold")
        BY <1>5 DEF Answer, Tick
  <2>2. CASE reply.kind = "Hold" /\ reply.name = t
        BY <1>o, <2>1, <2>2 DEF OneCall
  <2>3. CASE ~(reply.kind = "Hold" /\ reply.name = t)
    <3>1. notified'[t] = notified[t]
      <4>1. CASE reply.kind = "Hold"
        <5>1. reply \in Messages
              BY <4>1 DEF MailTypes, Tick, Wake
        <5> QED
            BY <1>5, <2>3, <4>1, <5>1, NotifyFacts DEF Answer
      <4>2. CASE reply.kind # "Hold"
            BY <1>5, <4>2 DEF Answer
      <4> QED
          BY <4>1, <4>2
    <3> QED
        BY <1>o, <2>1, <3>1 DEF OneCall
  <2> QED
      BY <2>2, <2>3
<1>6. ASSUME NEW s \in Sentinels,
             \/ \E level \in HoldLevels : HoldMinimumFrequency(s, level)
             \/ ReleaseMinimumFrequency(s)
             \/ BlockWfiMode(s)
      PROVE  OneCall(t)'
  <2>1. PICK m \in Messages :
             /\ mailbox' = Append(mailbox, m)
             /\ m.name = s /\ m.generation = generation[s]
             /\ m.kind \in Asks => waiting' = [waiting EXCEPT ![s] = TRUE]
             /\ m.kind \notin Asks => UNCHANGED waiting
        BY <1>6, SendFacts
  <2>2. ~waiting[s] /\ UNCHANGED <<generation, notified, reply>>
        BY <1>6, SendFacts
  <2>3. /\ m.name # t => waiting'[t] = waiting[t]
        /\ m.name = t /\ m.kind \in Asks => waiting'[t]
        BY <2>1 DEF SentinelTypes
  <2> QED
      BY <1>o, <2>1, <2>2, <2>3, OneCallPost
<1>7. ASSUME NEW s \in Sentinels, Create(s)
      PROVE  OneCall(t)'
  <2>1. PICK m \in Messages : /\ mailbox' = Append(mailbox, m)
                              /\ m.kind = "Register" /\ m.name = s
        BY <1>7, CreateFacts
  <2>2. ~alive[s] /\ UNCHANGED <<waiting, notified, reply>>
        BY <1>7, CreateFacts
  <2>3. CASE t # s
    <3>1. generation'[t] = generation[t]
          BY <1>7, <2>3, OneName
    <3> QED
        BY <1>o, <2>1, <2>2, <2>3, <3>1, OneCallPost
  <2>4. CASE t = s
    <3>1. /\ ~waiting[t] /\ ~notified[t] /\ ~(reply.kind = "Hold" /\ reply.name = t)
          /\ \A i \in DOMAIN mailbox : ~(mailbox[i].name = t /\ mailbox[i].kind \in Asks)
          BY <1>o, <2>2, <2>4 DEF OneCall
    <3>2. /\ DOMAIN mailbox = 1..Len(mailbox) /\ Len(mailbox) \in Nat
          /\ DOMAIN mailbox' = 1..(Len(mailbox) + 1)
          /\ \A i \in DOMAIN mailbox : mailbox'[i] = mailbox[i]
          /\ mailbox'[Len(mailbox) + 1] = m
          BY <2>1, PostFacts DEF MailTypes
    <3>3. \A i \in DOMAIN mailbox' : i \in DOMAIN mailbox \/ i = Len(mailbox) + 1
          BY <3>2
    <3>4. \A i \in DOMAIN mailbox' : ~(mailbox'[i].name = t /\ mailbox'[i].kind \in Asks)
          BY <2>1, <3>1, <3>2, <3>3 DEF Asks
    <3> QED
        BY <2>2, <3>1, <3>4 DEF OneCall
  <2> QED
      BY <2>3, <2>4
<1>8. ASSUME NEW s \in Sentinels, Destroy(s)
      PROVE  OneCall(t)'
  <2>1. UNCHANGED <<generation, waiting, mailbox, reply>>
        BY <1>8 DEF Destroy
  <2>2. CASE t # s
        BY <1>8, <1>o, <2>1, <2>2, OneName DEF OneCall
  <2>3. CASE t = s
        BY <1>8, <1>o, <2>1, <2>3 DEF Destroy, SentinelTypes, OneCall
  <2> QED
      BY <2>2, <2>3
<1>9. ASSUME NEW s \in Sentinels, Notified(s) \/ NotNotified(s)
      PROVE  OneCall(t)'
  <2>1. UNCHANGED <<generation, mailbox, reply>>
        BY <1>9 DEF Notified, NotNotified
  <2>2. CASE t # s
    <3>1. waiting'[t] = waiting[t] /\ notified'[t] = notified[t]
          BY <1>9, <2>2 DEF Notified, NotNotified, SentinelTypes
    <3> QED
        BY <1>o, <2>1, <3>1 DEF OneCall
  <2>3. CASE t = s /\ NotNotified(s)
        BY <2>3 DEF NotNotified, SentinelTypes
  <2>4. CASE t = s /\ Notified(s)
    <3>1. notified[t] /\ ~notified'[t]
          BY <2>4 DEF Notified, SentinelTypes
    <3> QED
        BY <1>o, <2>1, <3>1 DEF OneCall
  <2> QED
      BY <1>9, <2>2, <2>3, <2>4
<1> QED
    BY <1>1, <1>2, <1>3, <1>4, <1>5, <1>6, <1>7, <1>8, <1>9, CallChanges DEF SentinelStep

\* Only a living object waits.
LEMMA CallsStep == SentinelTypes /\ MailTypes /\ Entries /\ Calls /\ [Next]_vars => Calls'
<1> SUFFICES ASSUME SentinelTypes, MailTypes, Entries, Calls, [Next]_vars, NEW t \in Sentinels
             PROVE  (waiting'[t] => alive'[t]) /\ (~tainted'[t] => OneCall(t)')
    BY DEF Calls
<1>1. ~tainted'[t] => OneCall(t)'
      BY OneCallStep
<1>2. waiting'[t] => alive'[t]
  <2>o. waiting[t] => alive[t]
        BY DEF Calls
  <2>1. CASE UNCHANGED <<alive, waiting>>
        BY <2>1, <2>o
  <2>2. CASE HandleHoldRelease \/ HandleBlockWfi \/ HandleRegister
        BY <2>1, <2>2, HandleFacts
  <2>3. CASE Answer
        BY <2>1, <2>3 DEF Answer
  <2>4. ASSUME NEW s \in Sentinels, SentinelStep(s)
        PROVE  waiting'[t] => alive'[t]
    <3>1. CASE \/ \E level \in HoldLevels : HoldMinimumFrequency(s, level)
               \/ ReleaseMinimumFrequency(s)
               \/ BlockWfiMode(s)
          BY <2>o, <3>1 DEF HoldMinimumFrequency, ReleaseMinimumFrequency, BlockWfiMode, Call,
                            SentinelTypes
    <3>2. CASE Notified(s) \/ NotNotified(s)
          BY <2>o, <3>2 DEF Notified, NotNotified, SentinelTypes
    <3>3. CASE Destroy(s) \/ Create(s)
          BY <2>o, <3>3 DEF Destroy, Create, SentinelTypes
    <3> QED
        BY <2>4, <3>1, <3>2, <3>3 DEF SentinelStep
  <2> QED
      BY <2>1, <2>2, <2>3, <2>4, CallChanges
<1> QED
    BY <1>1, <1>2

-----------------------------------------------------------------------------
(***************************************************************************)
(* The invariant and the theorems.                                         *)
(***************************************************************************)

\* At the start every sentinel is registered and the CPU is at its highest
\* level (SystemManagerCommon::InitHandler).
LEMMA InitInv == Init => CpuInv
<1> SUFFICES ASSUME Init PROVE CpuInv
    OBVIOUS
<1> USE CpuGovernorAssumption
<1>1. SentinelTypes
      BY DEF Init, SentinelTypes
<1>2. MailTypes
      BY DEF Init, MailTypes
<1>3. PowerTypes
  <2>1. stepping \in [above : Nat, below : Nat, inProgress : BOOLEAN]
        BY DEF Init, NoStepping
  <2>2. known \in [Sentinels -> Levels] /\ target \in Levels /\ frequency \in Levels
        BY DEF Init, Levels
  <2>3. /\ pc \in {"loop", "set", "publish", "done"} /\ wfiAllowed \in BOOLEAN
        /\ permanent \in Levels \cup {NoLevel} /\ held \in BOOLEAN
        BY DEF Init
  <2> QED
      BY <2>1, <2>2, <2>3 DEF PowerTypes
<1>4. \A s \in Sentinels :
         /\ EntryOK(Entry(s)) /\ Entry(s).name = s /\ Entry(s).generation = generation[s]
         /\ Entry(s).requested = 0 /\ Entry(s).wfiBlocked = FALSE
      BY <1>1 DEF SentinelTypes, Entry, EntryOK
<1>5. \A e \in sentinels : \E s \in Sentinels :
         /\ e = Entry(s) /\ EntryOK(e) /\ e.name = s /\ e.generation = generation[s]
         /\ e.requested = 0 /\ e.wfiBlocked = FALSE
      BY <1>4 DEF Init
<1>6. Entries
  <2>1. \A e \in sentinels : EntryOK(e) /\ e.generation <= generation[e.name]
        BY <1>5 DEF EntryOK
  <2>2. \A d, e \in sentinels : d.name = e.name => d = e
        BY <1>5
  <2> QED
      BY <2>1, <2>2 DEF Entries
<1>7. mailbox = <<>> /\ DOMAIN mailbox = {}
      BY DEF Init
<1>8. Generations
      BY <1>7 DEF Generations
<1>9. \A s \in Sentinels : Present(s)
  <2> SUFFICES ASSUME NEW s \in Sentinels PROVE Present(s)
      OBVIOUS
  <2>1. Entry(s) \in sentinels
        BY DEF Init
  <2>2. Live(Entry(s)) /\ Entry(s).name = s
        BY <1>4 DEF Init, Live
  <2> QED
      BY <2>1, <2>2 DEF Present
<1>10. Registration
      BY <1>7, <1>9 DEF Registration, Registered
<1>11. Reaches
  <2>1. \A s \in Sentinels : hold[s] = 0 /\ block[s] = FALSE
        BY DEF Init
  <2> QED
      BY <1>5, <1>7, <2>1 DEF Reaches, HoldReaches, BlockReaches
<1>12. Calls
      BY <1>7 DEF Init, Calls, OneCall, Tick
<1>13. Honoured
  <2>1. frequency = 6 /\ permanent = NoLevel /\ wfiAllowed = FALSE /\ pc = "loop"
        BY DEF Init
  <2> QED
      BY <1>5, <2>1 DEF Honoured
<1>14. Informed
      BY <1>5 DEF Informed, Init
<1>15. MutexInv
      BY DEF Init, MutexInv
<1> QED
    BY <1>1, <1>2, <1>3, <1>6, <1>8, <1>10, <1>11, <1>12, <1>13, <1>14, <1>15 DEF CpuInv

\* Every step keeps the invariant.
LEMMA NextInv == CpuInv /\ [Next]_vars => CpuInv'
BY SentinelTypesStep, MailTypesStep, PowerTypesStep, EntriesStep, GenerationsStep,
   RegistrationStep, ReachesStep, CallsStep, HonouredStep, InformedStep, MutexStep
DEF CpuInv

\* So it holds always.
LEMMA CpuInvariant == Spec => []CpuInv
BY InitInv, NextInv, PTL DEF Spec

\* Between two messages the manager has the logger's mutex exactly when it
\* has withdrawn the permission to dump (LogSentinel::UpdateCurrentFrequency).
THEOREM MutexSafe == Spec => []MutexMatchesPermission
<1>1. CpuInv => MutexMatchesPermission
      BY DEF CpuInv, MutexInv, MutexMatchesPermission
<1> QED
    BY <1>1, CpuInvariant, PTL

\* Between two messages no living sentinel's request is above the frequency,
\* unless one is held for ever (CpuGovernor, AlgorithmFactory, WfiController).
THEOREM FrequencySafe == Spec => []RequestsHonoured
<1>1. CpuInv => RequestsHonoured
      BY DEF CpuInv, Honoured, RequestsHonoured
<1> QED
    BY <1>1, CpuInvariant, PTL

\* Between two messages every registered sentinel knows the frequency
\* (InformSentinelsAboutCpuFrequencyChange).
THEOREM SentinelsKnow == Spec => []SentinelsInformed
<1>1. CpuInv => SentinelsInformed
      BY DEF CpuInv, Informed, SentinelsInformed
<1> QED
    BY <1>1, CpuInvariant, PTL

\* A message holds the handle of a task that runs, unless that task gave up
\* waiting (CpuSentinel::HoldMinimumFrequency, BlockWfiMode).
THEOREM HandlesSafe == Spec => []HandlesValid
<1>1. ASSUME CpuInv, NEW i \in DOMAIN mailbox, mailbox[i].kind \in {"Hold", "BlockWfi"},
             ~tainted[mailbox[i].name]
      PROVE  alive[mailbox[i].name] /\ mailbox[i].generation = generation[mailbox[i].name]
  <2>1. mailbox[i].name \in Sentinels
        BY <1>1, MessageFields DEF CpuInv, MailTypes
  <2> QED
      BY <1>1, <2>1 DEF CpuInv, Calls, OneCall, Asks
<1>2. CpuInv => HandlesValid
      BY <1>1 DEF HandlesValid
<1> QED
    BY <1>2, CpuInvariant, PTL

\* The last position of a set of positions of a queue.
LEMMA LastPosition ==
    ASSUME NEW n \in Nat, NEW S \in SUBSET (1..n), S # {}
    PROVE  Max(S) \in S /\ \A x \in S : Max(S) >= x
<1> DEFINE T == {k \in Nat : \E x \in S : k = n - x}
           R == OpToRel(<, Nat)
<1>1. T # {} /\ T \subseteq Nat
  <2>1. PICK x \in S : TRUE
        OBVIOUS
  <2>2. n - x \in Nat
        BY <2>1
  <2> QED
      BY <2>1, <2>2
<1>2. IsWellFoundedOn(R, Nat)
      BY NatLessThanWellFounded
<1> HIDE DEF R
<1>3. PICK k \in T : \A j \in T : ~(<<j, k>> \in R)
  <2> HIDE DEF T
  <2> QED
      BY <1>1, <1>2, WFMin
<1>4. \A j \in T : ~(j < k)
      BY <1>1, <1>3 DEF R, OpToRel
<1>5. PICK x \in S : k = n - x
      BY <1>3
<1>6. \A y \in S : x >= y
  <2> SUFFICES ASSUME NEW y \in S PROVE x >= y
      OBVIOUS
  <2>1. n - y \in T /\ k \in Nat /\ x \in 1..n /\ y \in 1..n
        BY <1>3
  <2>2. ~(n - y < k)
        BY <1>4, <2>1
  <2> QED
      BY <1>5, <2>1, <2>2
<1> QED
    BY <1>6 DEF Max

\* LastAsked is the value of the newest message.
LEMMA LastAskedFacts ==
    ASSUME MailTypes, NEW s, NEW kinds, NEW default
    PROVE  \/ /\ \A i \in DOMAIN mailbox : ~Mine(s, kinds, i)
              /\ LastAsked(s, kinds, default) = default
           \/ \E i \in DOMAIN mailbox :
                 Newest(s, kinds, i) /\ LastAsked(s, kinds, default) = mailbox[i].value
<1> DEFINE mine == {i \in DOMAIN mailbox : Mine(s, kinds, i)}
<1>1. LastAsked(s, kinds, default) = IF mine = {} THEN default ELSE mailbox[Max(mine)].value
      BY DEF LastAsked, Mine
<1>2. CASE mine = {}
      BY <1>1, <1>2
<1>3. CASE mine # {}
  <2>1. DOMAIN mailbox = 1..Len(mailbox) /\ Len(mailbox) \in Nat
        BY DEF MailTypes
  <2>2. mine \in SUBSET (1..Len(mailbox))
        BY <2>1
  <2>3. Max(mine) \in mine /\ \A x \in mine : Max(mine) >= x
    <3> HIDE DEF mine
    <3> QED
        BY <1>3, <2>1, <2>2, LastPosition
  <2>4. PICK k \in mine : k = Max(mine) /\ \A x \in mine : k >= x
    <3> HIDE DEF mine
    <3> QED
        BY <2>3
  <2>5. ASSUME NEW j \in DOMAIN mailbox, j > k PROVE ~Mine(s, kinds, j)
    <3>1. k \in 1..Len(mailbox) /\ j \in 1..Len(mailbox)
          BY <2>1, <2>4
    <3>2. ~(k >= j)
          BY <2>1, <2>5, <3>1
    <3>3. j \notin mine
      <4> HIDE DEF mine
      <4> QED
          BY <2>4, <3>2
    <3> QED
        BY <3>3
  <2>6. Newest(s, kinds, k)
        BY <2>4, <2>5 DEF Newest
  <2>7. LastAsked(s, kinds, default) = mailbox[k].value
    <3> HIDE DEF mine
    <3> QED
        BY <1>1, <1>3, <2>4
  <2> QED
      BY <2>4, <2>6, <2>7
<1> QED
    BY <1>2, <1>3

\* What a sentinel asked for last and what the governor knows agree, counting
\* the messages under way: nothing is lost or kept too long (CpuSentinel,
\* CpuGovernor).
THEOREM RequestsArrive == Spec => []RequestsReach
<1>1. ASSUME CpuInv, NEW s \in Sentinels, alive[s]
      PROVE  LET mine == {e \in sentinels : Live(e) /\ e.name = s}
                 requested == IF mine = {} THEN 0 ELSE (CHOOSE e \in mine : TRUE).requested
                 blocked == mine # {} /\ (CHOOSE e \in mine : TRUE).wfiBlocked
             IN /\ Cardinality(mine) <= 1
                /\ LastAsked(s, {"Register", "Hold", "Release"}, requested) = hold[s]
                /\ LastAsked(s, {"BlockWfi"}, blocked) = block[s]
  <2> DEFINE mine == {e \in sentinels : Live(e) /\ e.name = s}
             requested == IF mine = {} THEN 0 ELSE (CHOOSE e \in mine : TRUE).requested
             blocked == mine # {} /\ (CHOOSE e \in mine : TRUE).wfiBlocked
  <2>1. \A d, e \in mine : d = e
        BY <1>1 DEF CpuInv, Entries
  <2>2. Cardinality(mine) <= 1
    <3> HIDE DEF mine
    <3>1. CASE mine = {}
          BY <3>1, FS_EmptySet
    <3>2. CASE mine # {}
      <4>1. PICK e \in mine : TRUE
            BY <3>2
      <4>2. mine = {e}
            BY <2>1, <4>1
      <4>3. Cardinality({e}) = 1
            BY FS_Singleton
      <4> QED
          BY <4>2, <4>3
    <3> QED
        BY <3>1, <3>2
  <2>3. mine # {} => (CHOOSE e \in mine : TRUE) \in mine
        OBVIOUS
  <2>4. HoldReaches(s) /\ BlockReaches(s) /\ MailTypes
        BY <1>1 DEF CpuInv, Reaches
  <2>5. Registered(s) \/ \E i \in DOMAIN mailbox : Registering(s, i)
        BY <1>1 DEF CpuInv, Registration
  <2>6. Present(s) <=> mine # {}
        BY DEF Present
  <2>7. LastAsked(s, HoldKinds, requested) = hold[s]
    <3>1. CASE \A i \in DOMAIN mailbox : ~Mine(s, HoldKinds, i)
      <4>1. mine # {}
            BY <2>5, <2>6, <3>1 DEF Registered, Registering, Mine, HoldKinds
      <4>2. requested = hold[s]
            BY <2>3, <2>4, <3>1, <4>1 DEF HoldReaches
      <4> HIDE DEF requested
      <4> QED
          BY <2>4, <3>1, <4>2, LastAskedFacts DEF Newest
    <3>2. CASE \E i \in DOMAIN mailbox : Mine(s, HoldKinds, i)
      <4> HIDE DEF requested
      <4> QED
          BY <2>4, <3>2, LastAskedFacts DEF HoldReaches
    <3> QED
        BY <3>1, <3>2
  <2>8. LastAsked(s, BlockKinds, blocked) = block[s]
    <3>1. CASE \A i \in DOMAIN mailbox : ~Mine(s, BlockKinds, i)
      <4>1. block[s] \in BOOLEAN
            BY <1>1 DEF CpuInv, SentinelTypes
      <4>2. CASE mine = {}
        <5>1. block[s] = FALSE
              BY <2>4, <2>6, <3>1, <4>1, <4>2 DEF BlockReaches
        <5>2. blocked = FALSE
              BY <4>2
        <5> HIDE DEF blocked
        <5> QED
            BY <2>4, <3>1, <5>1, <5>2, LastAskedFacts DEF Newest
      <4>3. CASE mine # {}
        <5>1. (CHOOSE e \in mine : TRUE).wfiBlocked = block[s]
              BY <2>3, <2>4, <3>1, <4>3 DEF BlockReaches
        <5>2. blocked = block[s]
              BY <4>1, <4>3, <5>1
        <5> HIDE DEF blocked
        <5> QED
            BY <2>4, <3>1, <5>2, LastAskedFacts DEF Newest
      <4> QED
          BY <4>2, <4>3
    <3>2. CASE \E i \in DOMAIN mailbox : Mine(s, BlockKinds, i)
      <4> HIDE DEF blocked
      <4> QED
          BY <2>4, <3>2, LastAskedFacts DEF BlockReaches
    <3> QED
        BY <3>1, <3>2
  <2> QED
      BY <2>2, <2>7, <2>8 DEF HoldKinds, BlockKinds
<1>2. CpuInv => RequestsReach
      BY <1>1 DEF RequestsReach
<1> QED
    BY <1>2, CpuInvariant, PTL

\* A call that returns with its answer has been done: the governor has what
\* the sentinel holds, and between two messages the CPU runs at it
\* (CpuSentinel::HoldMinimumFrequency, BlockWfiMode).
THEOREM AnswersAreTrue == Spec => AnsweredMeansDone
<1>1. ASSUME CpuInv, [Next]_vars, NEW s \in Sentinels,
             waiting[s], ~waiting'[s], ~tainted'[s]
      PROVE  /\ \A e \in sentinels : Live(e) /\ e.name = s =>
                    e.requested = hold[s] /\ e.wfiBlocked = block[s]
             /\ held \/ pc # "loop" \/ frequency >= hold[s]
  <2> USE DEF CpuInv
  <2>1. Notified(s) /\ ~tainted[s]
    <3>1. waiting' # waiting
          BY <1>1
    <3>2. ~(HandleHoldRelease \/ HandleBlockWfi \/ HandleRegister)
          BY <1>1, <3>1, HandleFacts
    <3>3. ~Answer
          BY <3>1 DEF Answer
    <3>4. PICK t \in Sentinels : SentinelStep(t)
          BY <1>1, <3>1, <3>2, <3>3, CallChanges
    <3>5. Notified(t) \/ NotNotified(t)
          BY <1>1, <3>1, <3>4 DEF SentinelStep, HoldMinimumFrequency, ReleaseMinimumFrequency,
             BlockWfiMode, Destroy, Create, SentinelTypes
    <3>6. s = t /\ Notified(t)
          BY <1>1, <3>5 DEF Notified, NotNotified, SentinelTypes
    <3>7. ~tainted[s]
          BY <1>1, <3>6 DEF Notified
    <3> QED
        BY <3>6, <3>7
  <2>2. notified[s] /\ alive[s] /\ \A i \in DOMAIN mailbox : mailbox[i].name # s
        BY <1>1, <2>1 DEF Notified, Calls, OneCall
  <2>3. \A kinds : \A i \in DOMAIN mailbox : ~Mine(s, kinds, i)
        BY <2>2 DEF Mine
  <2>4. \A e \in sentinels : Live(e) /\ e.name = s =>
           e.requested = hold[s] /\ e.wfiBlocked = block[s]
        BY <1>1, <2>2, <2>3 DEF Reaches, HoldReaches, BlockReaches
  <2>5. PICK e \in sentinels : Live(e) /\ e.name = s
        BY <1>1, <2>2 DEF Registration, Registered, Registering, Present
  <2>6. ~held /\ pc = "loop" => frequency >= e.requested
        BY <1>1, <2>5 DEF Honoured
  <2> QED
      BY <2>4, <2>5, <2>6
<1>2. CpuInv /\ [Next]_vars =>
      [ \A s \in Sentinels :
          waiting[s] /\ ~waiting'[s] /\ ~tainted'[s] =>
             /\ \A e \in sentinels : Live(e) /\ e.name = s =>
                   e.requested = hold[s] /\ e.wfiBlocked = block[s]
             /\ held \/ pc # "loop" \/ frequency >= hold[s] ]_vars
      BY <1>1
<1> QED
    BY <1>2, CpuInvariant, PTL DEF Spec, AnsweredMeansDone
=============================================================================
