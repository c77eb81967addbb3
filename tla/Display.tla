------------------------------ MODULE Display ------------------------------
(***************************************************************************)
(* From a draw request to the screen: service-gui and service-eink.        *)
(*                                                                         *)
(* Three threads.  The GUI service takes draw requests, of which only the  *)
(* latest is kept, and has its worker render them into one of the contexts *)
(* of a pool.  A rendered context goes to the E Ink service, one at a      *)
(* time; what is rendered meanwhile is cached, and the refresh under way   *)
(* is cancelled.  The E Ink service updates the memory of the display when *)
(* it gets the image, and refreshes the screen when it gets the message it *)
(* then sends itself.  A timer releases the context if no notification     *)
(* comes back.                                                             *)
(*                                                                         *)
(* A frame is a value; a context the worker is at holds Torn.  Left out:   *)
(* the preparation of the display, power-off and frequency, the geometry   *)
(* of the frames, and the suspension of the E Ink service, which nothing   *)
(* in the repository asks for.                                             *)
(***************************************************************************)
EXTENDS Naturals, Sequences, FiniteSets

CONSTANTS
    ContextsCount,     \* contexts in the pool
    Frames,            \* what may be drawn
    Torn, Blank,       \* half-rendered contents; contents before the first frame
    MaxDraws,          \* bound: draw requests
    MaxSchemes,        \* bound: changes of the colour scheme
    MaxTimeouts,       \* bound: release timers that expire
    MaxErrors,         \* bound: errors of the display
    MaxCloses,         \* bound: ServiceCloseReason messages
    MaxEvents          \* bound: draws, changes, errors and closes together

ASSUME DisplayAssumption ==
    /\ ContextsCount \in Nat \ {0}
    /\ Torn \notin Frames /\ Blank \notin Frames /\ Torn # Blank
    /\ {MaxDraws, MaxSchemes, MaxTimeouts, MaxErrors, MaxCloses, MaxEvents} \subseteq Nat

VARIABLES
    \* the GUI service
    mailbox, guiPc, rendering, displaying, serviceState, cache, timer,
    \* shared by the GUI service and its worker
    commandsQueue, signal, free, locked, content,
    \* the worker
    worker,
    \* the E Ink service and the display
    einkMailbox, einkDisplayState, previousContext, previousRefreshMode,
    isRefreshFramesSumValid, memory, screen,
    \* what was asked for
    latest, readySent, used

gui     == <<mailbox, guiPc, rendering, displaying, serviceState, cache, timer, readySent>>
shared  == <<commandsQueue, signal, free, locked, content>>
eink    == <<einkMailbox, einkDisplayState, previousContext, previousRefreshMode,
             isRefreshFramesSumValid, memory, screen>>
asked   == <<latest, used>>
vars    == <<gui, shared, worker, eink, asked>>

Contexts == 1 .. ContextsCount
Contents == Frames \cup {Torn, Blank}

NONE == 0
FAST == 1
DEEP == 2
RefreshModes == {FAST, DEEP}

\* One record type for the messages of both services.
Msg(kind, frame, ctx, mode) == [kind |-> kind, frame |-> frame, ctx |-> ctx, mode |-> mode]

NoRender == [ctx |-> 0, mode |-> NONE]

MsgType(kinds) == [kind : kinds, frame : Contents, ctx : Nat, mode : 0 .. 2]

TypeOK ==
    /\ mailbox \in Seq(MsgType({"Draw", "ChangeColorScheme", "RenderingFinished",
                                "ImageDisplayed", "Timeout", "CloseReason"}))
    /\ guiPc \in {"loop", "next"}
    /\ rendering \in BOOLEAN
    /\ displaying \in BOOLEAN
    /\ serviceState \in {"Running", "Closing", "Closed"}
    /\ cache \in [ctx : 0 .. ContextsCount, mode : 0 .. 2]
    /\ timer \in [object : Nat, ctx : 0 .. ContextsCount, active : BOOLEAN, armed : BOOLEAN]
    /\ commandsQueue \in Seq([frame : Frames, mode : RefreshModes]) /\ Len(commandsQueue) <= 1
    /\ signal \in {"none", "Render", "ChangeColorScheme"}
    /\ free \in Seq(Contexts) /\ locked \subseteq Contexts
    /\ content \in [Contexts -> Contents]
    /\ worker \in [pc : {"idle", "borrow", "render"}, frame : Contents, mode : 0 .. 2,
                   ctx : 0 .. ContextsCount]
    /\ einkMailbox \in Seq(MsgType({"Image", "Refresh", "CancelRefresh"}))
    /\ einkDisplayState \in {"Idle", "NeedRefresh", "Canceled"}
    /\ previousContext \in Contents
    /\ previousRefreshMode \in 0 .. 2
    /\ isRefreshFramesSumValid \in BOOLEAN
    /\ memory \in Contents /\ screen \in Contents
    /\ latest \in Contents /\ readySent \in Nat
    /\ used \in [draws : Nat, schemes : Nat, timeouts : Nat, errors : Nat, closes : Nat]

IdleWorker == [pc |-> "idle", frame |-> Blank, mode |-> NONE, ctx |-> 0]

Init ==
    /\ mailbox = <<>> /\ guiPc = "loop"
    /\ rendering = FALSE /\ displaying = FALSE /\ serviceState = "Running"
    /\ cache = NoRender
    /\ timer = [object |-> 0, ctx |-> 0, active |-> FALSE, armed |-> FALSE]
    /\ commandsQueue = <<>> /\ signal = "none"
    /\ free = [i \in Contexts |-> i] /\ locked = {}
    /\ content = [c \in Contexts |-> Blank]
    /\ worker = IdleWorker
    /\ einkMailbox = <<>> /\ einkDisplayState = "Idle"
    /\ previousContext = Blank /\ previousRefreshMode = NONE
    /\ isRefreshFramesSumValid = FALSE
    /\ memory = Blank /\ screen = Blank
    /\ latest = Blank /\ readySent = 0
    /\ used = [draws |-> 0, schemes |-> 0, timeouts |-> 0, errors |-> 0, closes |-> 0]

-----------------------------------------------------------------------------
(***************************************************************************)
(* Requests.                                                               *)
(***************************************************************************)

Post(m) == mailbox' = Append(mailbox, m)

guiRest == <<guiPc, rendering, displaying, serviceState, cache, readySent>>

\* One more event is within the bound.
Happens == used.draws + used.schemes + used.errors + used.closes < MaxEvents

RequestDraw(frame, mode) ==
    /\ used.draws < MaxDraws /\ Happens
    /\ Post(Msg("Draw", frame, 0, mode))
    /\ used' = [used EXCEPT !.draws = @ + 1]
    /\ UNCHANGED <<guiRest, timer, shared, worker, eink, latest>>

RequestScheme ==
    /\ used.schemes < MaxSchemes /\ Happens
    /\ Post(Msg("ChangeColorScheme", Blank, 0, NONE))
    /\ used' = [used EXCEPT !.schemes = @ + 1]
    /\ UNCHANGED <<guiRest, timer, shared, worker, eink, latest>>

RequestClose ==
    /\ used.closes < MaxCloses /\ Happens
    /\ Post(Msg("CloseReason", Blank, 0, NONE))
    /\ used' = [used EXCEPT !.closes = @ + 1]
    /\ UNCHANGED <<guiRest, timer, shared, worker, eink, latest>>

\* The release timer expires before the notification arrives.
TimerExpires ==
    /\ timer.armed
    /\ used.timeouts < MaxTimeouts
    /\ timer' = [timer EXCEPT !.armed = FALSE]
    /\ Post(Msg("Timeout", Blank, timer.object, NONE))
    /\ used' = [used EXCEPT !.timeouts = @ + 1]
    /\ UNCHANGED <<guiRest, shared, worker, eink, latest>>

-----------------------------------------------------------------------------
(***************************************************************************)
(* The pool: ContextPool.                                                  *)
(***************************************************************************)

Elems(seq) == {seq[i] : i \in DOMAIN seq}

\* removeContextId of an id that is in the sequence, where it is once.
Without(seq, c) ==
    LET i == CHOOSE i \in DOMAIN seq : seq[i] = c
    IN  SubSeq(seq, 1, i - 1) \o SubSeq(seq, i + 1, Len(seq))

LockContext(c) ==
    /\ free' = Without(free, c)
    /\ locked' = locked \cup {c}

ReturnContext(c) ==
    /\ free' = IF c \in Elems(free) THEN free ELSE Append(free, c)
    /\ locked' = locked \ {c}

-----------------------------------------------------------------------------
(***************************************************************************)
(* The GUI service.                                                        *)
(***************************************************************************)

Pops(kind) ==
    /\ guiPc = "loop"
    /\ mailbox # <<>> /\ Head(mailbox).kind = kind
    /\ mailbox' = Tail(mailbox)

\* handleDrawMessage, notifyRenderer, enqueueDrawCommands, notify.
HandleDraw ==
    /\ Pops("Draw")
    /\ LET m == Head(mailbox)
           deep == m.mode = DEEP \/ \E x \in Elems(commandsQueue) : x.mode = DEEP
       IN  /\ commandsQueue' = << [frame |-> m.frame, mode |-> IF deep THEN DEEP ELSE m.mode] >>
           /\ latest' = m.frame
    /\ rendering' = TRUE
    /\ signal' = "Render"
    /\ UNCHANGED <<guiPc, displaying, serviceState, cache, timer, readySent, free, locked,
                   content, worker, eink, used>>

\* handleChangeColorScheme: the signal overwrites what the worker has not
\* yet seen.
HandleScheme ==
    /\ Pops("ChangeColorScheme")
    /\ signal' = "ChangeColorScheme"
    /\ UNCHANGED <<guiRest, timer, commandsQueue, free, locked, content, worker, eink, asked>>

\* Planted defect: no timer is started for the frame.
SendOnDisplay_NoTimer(c, mode) ==
    /\ displaying' = TRUE
    /\ einkMailbox' = Append(einkMailbox, Msg("Image", Blank, c, mode))
    /\ UNCHANGED timer

\* sendOnDisplay and scheduleContextRelease: the timer is a new object.
SendOnDisplay(c, mode) ==
    /\ displaying' = TRUE
    /\ einkMailbox' = Append(einkMailbox, Msg("Image", Blank, c, mode))
    /\ timer' = [object |-> timer.object + 1, ctx |-> c, active |-> TRUE, armed |-> TRUE]

einkRest == <<einkDisplayState, previousContext, previousRefreshMode,
              isRefreshFramesSumValid, memory, screen>>

\* RenderCache::cache keeps a deep refresh.
Cached(c, mode) ==
    [ctx |-> c, mode |-> IF cache.mode = DEEP THEN DEEP ELSE mode]

\* Planted defect: the context is returned when it is sent, not when it is shown.
HandleFinishedIdle_Return ==
    /\ Pops("RenderingFinished")
    /\ ~ displaying
    /\ LET m == Head(mailbox)
       IN  /\ SendOnDisplay(m.ctx, IF cache.mode = DEEP THEN DEEP ELSE m.mode)
           /\ ReturnContext(m.ctx)
    /\ rendering' = FALSE
    /\ cache' = NoRender
    /\ UNCHANGED <<guiPc, serviceState, readySent, commandsQueue, signal, content, worker,
                   einkRest, asked>>

\* handleGUIRenderingFinished while the display is idle.
HandleFinishedIdle ==
    /\ Pops("RenderingFinished")
    /\ ~ displaying
    /\ LET m == Head(mailbox)
       IN  SendOnDisplay(m.ctx, IF cache.mode = DEEP THEN DEEP ELSE m.mode)
    /\ rendering' = FALSE
    /\ cache' = NoRender
    /\ UNCHANGED <<guiPc, serviceState, readySent, shared, worker, einkRest, asked>>

\* Planted defect: a busy display drops the frame instead of caching it.
HandleFinishedBusy_Drop ==
    /\ Pops("RenderingFinished")
    /\ displaying
    /\ ReturnContext(Head(mailbox).ctx)
    /\ einkMailbox' = Append(einkMailbox, Msg("CancelRefresh", Blank, 0, NONE))
    /\ rendering' = FALSE
    /\ UNCHANGED <<guiPc, displaying, serviceState, cache, timer, readySent, commandsQueue,
                   signal, content, worker, einkRest, asked>>

\* ... and while it is busy: the frame is cached, its context returned, the
\* refresh under way cancelled.
HandleFinishedBusy ==
    /\ Pops("RenderingFinished")
    /\ displaying
    /\ cache' = Cached(Head(mailbox).ctx, Head(mailbox).mode)
    /\ ReturnContext(Head(mailbox).ctx)
    /\ einkMailbox' = Append(einkMailbox, Msg("CancelRefresh", Blank, 0, NONE))
    /\ rendering' = FALSE
    /\ UNCHANGED <<guiPc, displaying, serviceState, timer, readySent, commandsQueue, signal,
                   content, worker, einkRest, asked>>

\* handleImageDisplayedNotification up to trySendNextFrame.  Whether any
\* context is locked is looked at before the cached one is borrowed.
ImageDisplayed(c) ==
    /\ displaying' = FALSE
    /\ ReturnContext(c)
    /\ timer' = [timer EXCEPT !.active = FALSE, !.armed = FALSE]
    /\ \/ /\ cache # NoRender /\ locked' = {}
          /\ guiPc' = "next"
          /\ UNCHANGED <<serviceState, readySent>>
       \/ /\ cache = NoRender \/ locked' # {}
          /\ readySent' = IF serviceState = "Closing" THEN readySent + 1 ELSE readySent
          /\ serviceState' = IF serviceState = "Closing" THEN "Closed" ELSE serviceState
          /\ UNCHANGED guiPc
    /\ UNCHANGED <<rendering, cache, commandsQueue, signal, content, worker, eink, asked>>

HandleImageDisplayed ==
    /\ Pops("ImageDisplayed")
    /\ ImageDisplayed(Head(mailbox).ctx)

\* The release timer's callback, unless the timer was stopped or replaced.
HandleTimeout ==
    /\ Pops("Timeout")
    /\ \/ /\ Head(mailbox).ctx = timer.object /\ timer.active
          /\ ImageDisplayed(timer.ctx)
       \/ /\ Head(mailbox).ctx # timer.object \/ ~ timer.active
          /\ UNCHANGED <<guiRest, timer, shared, worker, eink, asked>>

\* Planted defect: the cached context is sent without being borrowed.
TrySendNextFrame_Peek ==
    /\ guiPc = "next"
    /\ guiPc' = "loop"
    /\ cache' = NoRender
    /\ SendOnDisplay(cache.ctx, cache.mode)
    /\ UNCHANGED <<mailbox, rendering, serviceState, readySent, shared, worker, einkRest, asked>>

\* trySendNextFrame: the worker may have taken the cached context by now.
TrySendNextFrame ==
    /\ guiPc = "next"
    /\ guiPc' = "loop"
    /\ cache' = NoRender
    /\ \/ /\ cache.ctx \in Elems(free)
          /\ LockContext(cache.ctx)
          /\ SendOnDisplay(cache.ctx, cache.mode)
       \/ /\ cache.ctx \notin Elems(free)
          /\ UNCHANGED <<free, locked, displaying, einkMailbox, timer>>
    /\ UNCHANGED <<mailbox, rendering, serviceState, readySent, commandsQueue, signal, content,
                   worker, einkRest, asked>>

\* ProcessCloseReason; Closed is final.
ProcessCloseReason ==
    /\ Pops("CloseReason")
    /\ \/ /\ ~ rendering /\ ~ displaying
          /\ readySent' = readySent + 1
          /\ serviceState' = "Closed"
       \/ /\ rendering \/ displaying
          /\ UNCHANGED readySent
          /\ serviceState' = IF serviceState = "Closed" THEN "Closed" ELSE "Closing"
    /\ UNCHANGED <<guiPc, rendering, displaying, cache, timer, shared, worker, eink, asked>>

-----------------------------------------------------------------------------
(***************************************************************************)
(* The worker: WorkerGUI.                                                  *)
(***************************************************************************)

\* handleMessage: a Render signal takes the commands, if there are any.
WorkerSignal ==
    /\ worker.pc = "idle"
    /\ signal # "none"
    /\ signal' = "none"
    /\ \/ /\ signal = "Render" /\ commandsQueue # <<>>
          /\ worker' = [pc |-> "borrow", frame |-> commandsQueue[1].frame,
                        mode |-> commandsQueue[1].mode, ctx |-> 0]
          /\ commandsQueue' = <<>>
       \/ /\ signal = "ChangeColorScheme" \/ commandsQueue = <<>>
          /\ UNCHANGED <<worker, commandsQueue>>
    /\ UNCHANGED <<gui, free, locked, content, eink, asked>>

\* borrowContext waits until a context is free.
WorkerBorrow ==
    /\ worker.pc = "borrow"
    /\ free # <<>>
    /\ LockContext(Head(free))
    /\ content' = [content EXCEPT ![Head(free)] = Torn]
    /\ worker' = [worker EXCEPT !.pc = "render", !.ctx = Head(free)]
    /\ UNCHANGED <<gui, commandsQueue, signal, eink, asked>>

WorkerRender ==
    /\ worker.pc = "render"
    /\ content' = [content EXCEPT ![worker.ctx] = worker.frame]
    /\ Post(Msg("RenderingFinished", Blank, worker.ctx, worker.mode))
    /\ worker' = IdleWorker
    /\ UNCHANGED <<guiRest, timer, commandsQueue, signal, free, locked, eink, asked>>

-----------------------------------------------------------------------------
(***************************************************************************)
(* The E Ink service.                                                      *)
(***************************************************************************)

EinkPops(kind) == einkMailbox # <<>> /\ Head(einkMailbox).kind = kind

\* The display may fail to take an update or to refresh.
Status ==
    \/ UNCHANGED used
    \/ used.errors < MaxErrors /\ Happens /\ used' = [used EXCEPT !.errors = @ + 1]
Failed == used' # used

\* handleImageMessage.  The first image, and one after an error, updates the
\* whole display; an unchanged one is refreshed only if it asks for more than
\* the one before, or if a refresh was cancelled.
HandleImage ==
    /\ EinkPops("Image")
    /\ LET m == Head(einkMailbox)
           new == content[m.ctx]
           update == previousContext = Blank \/ new # previousContext
           required == update \/ m.mode > previousRefreshMode
       IN  /\ IF update THEN Status ELSE UNCHANGED used
           /\ memory' = IF update /\ ~ Failed THEN new ELSE memory
           /\ previousContext' = IF Failed THEN Blank ELSE new
           /\ previousRefreshMode' = IF Failed THEN NONE ELSE m.mode
           /\ \/ /\ required \/ isRefreshFramesSumValid
                 /\ isRefreshFramesSumValid' = TRUE
                 /\ einkDisplayState' = "NeedRefresh"
                 /\ einkMailbox' = Append(Tail(einkMailbox), Msg("Refresh", Blank, m.ctx, m.mode))
                 /\ UNCHANGED mailbox
              \/ /\ ~ required /\ ~ isRefreshFramesSumValid
                 /\ einkDisplayState' = "Idle"
                 /\ einkMailbox' = Tail(einkMailbox)
                 /\ Post(Msg("ImageDisplayed", Blank, m.ctx, NONE))
                 /\ UNCHANGED isRefreshFramesSumValid
    /\ UNCHANGED <<guiRest, timer, shared, worker, screen, latest>>

\* handleRefreshMessage; a notification is sent in any case.  The mode the
\* display is told to use for the refresh is left out.
HandleRefresh ==
    /\ EinkPops("Refresh")
    /\ \/ /\ einkDisplayState = "NeedRefresh"
          /\ Status
          /\ screen' = IF Failed THEN screen ELSE memory
          /\ previousContext' = IF Failed THEN Blank ELSE previousContext
          /\ previousRefreshMode' = IF Failed THEN NONE ELSE previousRefreshMode
          /\ einkDisplayState' = "Idle"
          /\ isRefreshFramesSumValid' = FALSE
       \/ /\ einkDisplayState # "NeedRefresh"
          /\ UNCHANGED <<einkRest, used>>
    /\ einkMailbox' = Tail(einkMailbox)
    /\ Post(Msg("ImageDisplayed", Blank, Head(einkMailbox).ctx, NONE))
    /\ UNCHANGED <<guiRest, timer, shared, worker, memory, latest>>

\* handleCancelRefreshMessage
HandleCancel ==
    /\ EinkPops("CancelRefresh")
    /\ einkDisplayState' = IF einkDisplayState = "NeedRefresh" THEN "Canceled"
                           ELSE einkDisplayState
    /\ einkMailbox' = Tail(einkMailbox)
    /\ UNCHANGED <<gui, shared, worker, previousContext, previousRefreshMode,
                   isRefreshFramesSumValid, memory, screen, asked>>

-----------------------------------------------------------------------------

GuiStep ==
    \/ HandleDraw
    \/ HandleScheme
    \/ HandleFinishedIdle
    \/ HandleFinishedBusy
    \/ HandleImageDisplayed
    \/ HandleTimeout
    \/ TrySendNextFrame
    \/ ProcessCloseReason

WorkerStep == WorkerSignal \/ WorkerBorrow \/ WorkerRender

EinkStep == HandleImage \/ HandleRefresh \/ HandleCancel

Next ==
    \/ GuiStep
    \/ WorkerStep
    \/ EinkStep
    \/ TimerExpires
    \/ RequestScheme
    \/ RequestClose
    \/ \E frame \in Frames, mode \in RefreshModes : RequestDraw(frame, mode)

Spec == Init /\ [][Next]_vars

\* The GUI service and its worker run and a started release timer expires.
\* The E Ink service, which waits for the hardware, may stop at any time.
FairSpec ==
    /\ Spec
    /\ WF_vars(GuiStep)
    /\ WF_vars(WorkerStep)
    /\ WF_vars(TimerExpires)

EinkRuns == WF_vars(EinkStep)

-----------------------------------------------------------------------------
(***************************************************************************)
(* Properties.                                                             *)
(***************************************************************************)

\* "The pool of contexts provides exclusive access to a context": the E Ink
\* service never puts a context on the display that the worker is rendering
\* into, unless the release timer has taken a context back from it.
NoTornFrame == used.timeouts = 0 => memory # Torn

\* Every context is free or locked, once, also when it is returned both by
\* the release timer and by the late notification.  Until the timer strikes,
\* what the worker renders into and what the E Ink service has still to read
\* is locked.
PoolConsistent ==
    /\ Elems(free) \cup locked = Contexts
    /\ Elems(free) \cap locked = {}
    /\ Len(free) = Cardinality(Elems(free))
    /\ used.timeouts = 0 =>
          /\ worker.pc = "render" => worker.ctx \in locked
          /\ \A i \in DOMAIN einkMailbox :
                einkMailbox[i].kind = "Image" => einkMailbox[i].ctx \in locked

\* If the E Ink service runs, too, then what was drawn last is what
\* the screen shows when requests stop: no frame is lost between dropped
\* requests, the cache, cancelled refreshes and the race for the cached
\* context.  An error of the display and a change of the colour scheme, which
\* may replace the signal for the worker to render, are excepted.
LatestShown ==
    EinkRuns => <>[](screen = latest \/ used.schemes > 0 \/ used.errors > 0)

\* The GUI service says ReadyToClose when rendering and displaying are over,
\* although the E Ink service may be silent: the release timer ends the wait.
\* Here, too, a change of the colour scheme is excepted.
CloseAnswered ==
    serviceState = "Closing" ~> (serviceState = "Closed" \/ used.schemes > 0)
=============================================================================
