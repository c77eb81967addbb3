--------------------------- MODULE DisplayProofs ---------------------------
(***************************************************************************)
(* The pool of contexts keeps its contexts and the display never shows one *)
(* the worker is at, for pools of any size and any number of requests.     *)
(***************************************************************************)
EXTENDS Display, FiniteSetTheorems, SequenceTheorems, TLAPS

-----------------------------------------------------------------------------
(***************************************************************************)
(* The parts of the inductive invariant.                                   *)
(***************************************************************************)

\* Messages: the ones that carry a context carry one of the pool.
Carriers == {"RenderingFinished", "ImageDisplayed", "Image", "Refresh"}
Kinds ==
    Carriers \cup {"Draw", "ChangeColorScheme", "CloseReason", "Timeout", "CancelRefresh"}
Messages ==
    {m \in [kind : Kinds, frame : Contents, ctx : Nat, mode : 0 .. 2] :
        /\ m.kind \in Carriers => m.ctx \in Contexts
        /\ m.kind = "Draw" => m.frame \in Frames}

Commands == [frame : Frames, mode : 0 .. 2]

MailTypes ==
    /\ mailbox \in Seq(Messages)
    /\ einkMailbox \in Seq(Messages)
    /\ commandsQueue \in Seq(Commands)

Timers == [object : Nat, ctx : 0 .. ContextsCount, active : BOOLEAN, armed : BOOLEAN]

StateTypes ==
    /\ guiPc \in {"loop", "next"}
    /\ cache \in [ctx : 0 .. ContextsCount, mode : 0 .. 2]
    /\ cache # NoRender => cache.ctx \in Contexts
    /\ guiPc = "next" => cache # NoRender
    /\ timer \in Timers
    /\ timer.active => timer.ctx \in Contexts
    /\ used \in [draws : Nat, schemes : Nat, timeouts : Nat, errors : Nat, closes : Nat]

Rendering(c) == worker.pc = "render" /\ worker.ctx = c

\* A context is torn only while the worker is at it.
WorkerOK ==
    /\ worker \in [pc : {"idle", "borrow", "render"}, frame : Contents, mode : 0 .. 2,
                   ctx : 0 .. ContextsCount]
    /\ worker.pc # "idle" => worker.frame \in Frames
    /\ worker.pc = "render" => worker.ctx \in Contexts
    /\ content \in [Contexts -> Contents]
    /\ \A c \in Contexts : content[c] = Torn => Rendering(c)

\* Every context is free or locked, once.
Distinct(seq) == \A i, j \in DOMAIN seq : seq[i] = seq[j] => i = j
Pool ==
    /\ free \in Seq(Contexts)
    /\ Distinct(free)
    /\ Elems(free) \cup locked = Contexts
    /\ Elems(free) \cap locked = {}

\* The messages that own a context: in the mailbox of the GUI service ...
Finished(i) == i \in DOMAIN mailbox /\ mailbox[i].kind = "RenderingFinished"
Shown(i)    == i \in DOMAIN mailbox /\ mailbox[i].kind = "ImageDisplayed"
\* ... and in that of the E Ink service.
OnEink(k)   == k \in DOMAIN einkMailbox /\ einkMailbox[k].kind \in {"Image", "Refresh"}

\* Until the release timer strikes, a locked context has one owner: the
\* worker, the message that it is rendered, or what stands for the frame on
\* its way to the screen and back, of which there is one.
Quiet == \A i \in DOMAIN mailbox : mailbox[i].kind # "Timeout"
WorkerOwns == worker.pc = "render" => worker.ctx \in locked
FinishedOwns ==
    \A i : Finished(i) =>
        /\ mailbox[i].ctx \in locked /\ ~Rendering(mailbox[i].ctx)
        /\ \A j : Finished(j) /\ mailbox[j].ctx = mailbox[i].ctx => j = i
EinkOwns ==
    \A k : OnEink(k) =>
        /\ displaying
        /\ einkMailbox[k].ctx \in locked /\ ~Rendering(einkMailbox[k].ctx)
        /\ \A l : OnEink(l) => l = k
        /\ \A i : ~Shown(i) /\ (Finished(i) => mailbox[i].ctx # einkMailbox[k].ctx)
ShownOwns ==
    \A i : Shown(i) =>
        /\ displaying
        /\ mailbox[i].ctx \in locked /\ ~Rendering(mailbox[i].ctx)
        /\ \A j : /\ Shown(j) => j = i
                  /\ Finished(j) => mailbox[j].ctx # mailbox[i].ctx
NextIdle == guiPc = "next" => ~displaying

Owned ==
    /\ Quiet /\ WorkerOwns /\ FinishedOwns /\ EinkOwns /\ ShownOwns /\ NextIdle
    /\ memory # Torn
Owners == used.timeouts = 0 => Owned

DisplayInv == MailTypes /\ StateTypes /\ WorkerOK /\ Pool /\ Owners

-----------------------------------------------------------------------------
(***************************************************************************)
(* Messages and their fields.                                              *)
(***************************************************************************)

\* The fields of a message (GUIMessage, EinkMessage and their descendants).
LEMMA MessageFields ==
    ASSUME NEW m \in Messages
    PROVE  /\ m.ctx \in Nat /\ m.mode \in 0 .. 2
           /\ m.kind \in Carriers => m.ctx \in Contexts
           /\ m.kind = "Draw" => m.frame \in Frames
BY DEF Messages

\* Every message the services build is one (sendOnDisplay, WorkerGUI::render,
\* handleImageMessage, handleRefreshMessage and the requests).
LEMMA Built ==
    ASSUME NEW frame \in Contents, NEW mode \in 0 .. 2, NEW c \in Nat
    PROVE  /\ Msg("CancelRefresh", frame, c, mode) \in Messages
           /\ Msg("ChangeColorScheme", frame, c, mode) \in Messages
           /\ Msg("CloseReason", frame, c, mode) \in Messages
           /\ Msg("Timeout", frame, c, mode) \in Messages
           /\ frame \in Frames => Msg("Draw", frame, c, mode) \in Messages
           /\ c \in Contexts =>
                 /\ Msg("RenderingFinished", frame, c, mode) \in Messages
                 /\ Msg("ImageDisplayed", frame, c, mode) \in Messages
                 /\ Msg("Image", frame, c, mode) \in Messages
                 /\ Msg("Refresh", frame, c, mode) \in Messages
BY DEF Messages, Msg, Kinds, Carriers

\* Blank is a content, the modes are numbers.
LEMMA Constants ==
    /\ Blank \in Contents /\ Frames \subseteq Contents /\ Torn \notin Frames
    /\ NONE \in 0 .. 2 /\ FAST \in 0 .. 2 /\ DEEP \in 0 .. 2
    /\ Contexts \subseteq Nat /\ 0 \notin Contexts /\ Contexts \subseteq 0 .. ContextsCount
BY DisplayAssumption DEF Contents, NONE, FAST, DEEP, Contexts

\* The first message is taken, the others move up (Mailbox::pop).
LEMMA TailFacts ==
    ASSUME NEW S, NEW s \in Seq(S), s # <<>>
    PROVE  /\ Head(s) = s[1] /\ Head(s) \in S /\ 1 \in DOMAIN s
           /\ Tail(s) \in Seq(S)
           /\ DOMAIN s = 1 .. Len(s) /\ Len(s) \in Nat
           /\ DOMAIN Tail(s) = 1 .. (Len(s) - 1)
           /\ \A i \in DOMAIN Tail(s) : i \in Nat /\ i + 1 \in DOMAIN s /\ Tail(s)[i] = s[i + 1]
OBVIOUS

\* A message goes behind the others (Mailbox::push).
LEMMA AppendFacts ==
    ASSUME NEW S, NEW s \in Seq(S), NEW m \in S
    PROVE  /\ Append(s, m) \in Seq(S)
           /\ DOMAIN s = 1 .. Len(s) /\ Len(s) \in Nat
           /\ DOMAIN Append(s, m) = 1 .. (Len(s) + 1)
           /\ Append(s, m)[Len(s) + 1] = m
           /\ \A i \in DOMAIN s : Append(s, m)[i] = s[i]
           /\ \A i \in DOMAIN Append(s, m) : i \in DOMAIN s \/ i = Len(s) + 1
OBVIOUS

-----------------------------------------------------------------------------
(***************************************************************************)
(* Types.                                                                  *)
(***************************************************************************)

\* The head of a mailbox is a message and what is left is a mailbox.
LEMMA PopTypes ==
    ASSUME MailTypes, NEW kind, Pops(kind)
    PROVE  /\ Head(mailbox) \in Messages /\ Head(mailbox).kind = kind
           /\ mailbox' \in Seq(Messages) /\ guiPc = "loop"
BY TailFacts DEF MailTypes, Pops

\* The same of the E Ink service's mailbox.
LEMMA EinkPopTypes ==
    ASSUME MailTypes, NEW kind, EinkPops(kind)
    PROVE  /\ Head(einkMailbox) \in Messages /\ Head(einkMailbox).kind = kind
           /\ Tail(einkMailbox) \in Seq(Messages)
BY TailFacts DEF MailTypes, EinkPops

\* What a service sends or takes is a message; the commands are commands.
LEMMA MailTypesStep ==
    MailTypes /\ StateTypes /\ WorkerOK /\ [Next]_vars => MailTypes'
<1> SUFFICES ASSUME MailTypes, StateTypes, WorkerOK, [Next]_vars PROVE MailTypes'
    OBVIOUS
<1> USE Constants DEF MailTypes
<1>1. ASSUME NEW frame \in Frames, NEW mode \in RefreshModes, RequestDraw(frame, mode)
      PROVE  MailTypes'
    <2>1. Msg("Draw", frame, 0, mode) \in Messages
          BY <1>1, Built DEF RefreshModes
    <2> QED
        BY <1>1, <2>1 DEF RequestDraw, Post, shared, eink
<1>2. CASE RequestScheme \/ RequestClose
    <2>1. /\ Msg("ChangeColorScheme", Blank, 0, NONE) \in Messages
          /\ Msg("CloseReason", Blank, 0, NONE) \in Messages
          BY Built
    <2>2. /\ Append(mailbox, Msg("ChangeColorScheme", Blank, 0, NONE)) \in Seq(Messages)
          /\ Append(mailbox, Msg("CloseReason", Blank, 0, NONE)) \in Seq(Messages)
          BY <2>1, AppendFacts
    <2> QED
        BY <1>2, <2>2 DEF RequestScheme, RequestClose, Post, shared, eink
<1>3. CASE TimerExpires
    <2>1. Msg("Timeout", Blank, timer.object, NONE) \in Messages
          BY Built DEF StateTypes, Timers
    <2> QED
        BY <1>3, <2>1 DEF TimerExpires, Post, shared, eink
<1>4. CASE HandleDraw
    <2> DEFINE m == Head(mailbox)
    <2>1. m \in Messages /\ m.kind = "Draw" /\ mailbox' \in Seq(Messages)
          BY <1>4, PopTypes DEF HandleDraw
    <2>2. m.frame \in Frames /\ m.mode \in 0 .. 2
          BY <2>1, MessageFields
    <2>3. PICK x \in 0 .. 2 : commandsQueue' = << [frame |-> m.frame, mode |-> x] >>
          BY <1>4, <2>2 DEF HandleDraw
    <2>4. [frame |-> m.frame, mode |-> x] \in Commands
          BY <2>2 DEF Commands
    <2>5. commandsQueue' \in Seq(Commands)
          BY <2>3, <2>4
    <2> QED
        BY <1>4, <2>1, <2>5 DEF HandleDraw, eink
<1>5. CASE HandleScheme \/ HandleImageDisplayed \/ HandleTimeout \/ ProcessCloseReason
    <2>1. mailbox' \in Seq(Messages)
          BY <1>5, PopTypes DEF HandleScheme, HandleImageDisplayed, HandleTimeout,
             ProcessCloseReason
    <2> QED
        BY <1>5, <2>1 DEF HandleScheme, HandleImageDisplayed, HandleTimeout, ImageDisplayed,
           ProcessCloseReason, shared, eink
<1>6. CASE HandleFinishedIdle
    <2> DEFINE m == Head(mailbox)
    <2>1. m \in Messages /\ m.kind = "RenderingFinished" /\ mailbox' \in Seq(Messages)
          BY <1>6, PopTypes DEF HandleFinishedIdle
    <2>2. m.ctx \in Contexts /\ m.mode \in 0 .. 2
          BY <2>1, MessageFields DEF Carriers
    <2>3. PICK x \in 0 .. 2 : einkMailbox' = Append(einkMailbox, Msg("Image", Blank, m.ctx, x))
          BY <1>6, <2>2 DEF HandleFinishedIdle, SendOnDisplay
    <2>4. Msg("Image", Blank, m.ctx, x) \in Messages
          BY <2>2, Built
    <2> QED
        BY <1>6, <2>1, <2>3, <2>4 DEF HandleFinishedIdle, shared
<1>7. CASE HandleFinishedBusy
    <2>1. mailbox' \in Seq(Messages)
          BY <1>7, PopTypes DEF HandleFinishedBusy
    <2>2. Msg("CancelRefresh", Blank, 0, NONE) \in Messages
          BY Built
    <2> QED
        BY <1>7, <2>1, <2>2 DEF HandleFinishedBusy
<1>8. CASE TrySendNextFrame
    <2>1. cache.ctx \in Contexts /\ cache.mode \in 0 .. 2
          BY <1>8 DEF TrySendNextFrame, StateTypes
    <2>2. Msg("Image", Blank, cache.ctx, cache.mode) \in Messages
          BY <2>1, Built
    <2> QED
        BY <1>8, <2>2 DEF TrySendNextFrame, SendOnDisplay
<1>9. CASE WorkerSignal
    <2>1. commandsQueue' \in Seq(Commands)
          BY <1>9, EmptySeq DEF WorkerSignal
    <2> QED
        BY <1>9, <2>1 DEF WorkerSignal, gui, eink
<1>10. CASE WorkerBorrow
      BY <1>10 DEF WorkerBorrow, gui, eink
<1>11. CASE WorkerRender
    <2>1. worker.ctx \in Contexts /\ worker.mode \in 0 .. 2
          BY <1>11 DEF WorkerRender, WorkerOK
    <2>2. Msg("RenderingFinished", Blank, worker.ctx, worker.mode) \in Messages
          BY <2>1, Built
    <2> QED
        BY <1>11, <2>2 DEF WorkerRender, Post, eink
<1>12. CASE HandleImage
    <2> DEFINE m == Head(einkMailbox)
    <2>1. m \in Messages /\ m.kind = "Image" /\ Tail(einkMailbox) \in Seq(Messages)
          BY <1>12, EinkPopTypes DEF HandleImage
    <2>2. m.ctx \in Contexts /\ m.mode \in 0 .. 2
          BY <2>1, MessageFields DEF Carriers
    <2>3. /\ Msg("Refresh", Blank, m.ctx, m.mode) \in Messages
          /\ Msg("ImageDisplayed", Blank, m.ctx, NONE) \in Messages
          BY <2>2, Built
    <2>4. \/ /\ einkMailbox' = Append(Tail(einkMailbox), Msg("Refresh", Blank, m.ctx, m.mode))
             /\ UNCHANGED mailbox
          \/ /\ einkMailbox' = Tail(einkMailbox)
             /\ mailbox' = Append(mailbox, Msg("ImageDisplayed", Blank, m.ctx, NONE))
          BY <1>12 DEF HandleImage, Post
    <2>5. UNCHANGED commandsQueue
          BY <1>12 DEF HandleImage, shared
    <2>6. /\ Append(Tail(einkMailbox), Msg("Refresh", Blank, m.ctx, m.mode)) \in Seq(Messages)
          /\ Append(mailbox, Msg("ImageDisplayed", Blank, m.ctx, NONE)) \in Seq(Messages)
          BY <2>1, <2>3, AppendFacts
    <2> QED
        BY <2>1, <2>4, <2>5, <2>6, Zenon
<1>13. CASE HandleRefresh
    <2> DEFINE m == Head(einkMailbox)
    <2>1. m \in Messages /\ m.kind = "Refresh" /\ Tail(einkMailbox) \in Seq(Messages)
          BY <1>13, EinkPopTypes DEF HandleRefresh
    <2>2. m.ctx \in Contexts
          BY <2>1, MessageFields DEF Carriers
    <2>3. Msg("ImageDisplayed", Blank, m.ctx, NONE) \in Messages
          BY <2>2, Built
    <2> QED
        BY <1>13, <2>1, <2>3 DEF HandleRefresh, Post, shared
<1>14. CASE HandleCancel
    <2>1. Tail(einkMailbox) \in Seq(Messages)
          BY <1>14, EinkPopTypes DEF HandleCancel
    <2> QED
        BY <1>14, <2>1 DEF HandleCancel, gui, shared
<1>15. CASE UNCHANGED vars
      BY <1>15 DEF vars, gui, shared, eink
<1> QED
    BY <1>1, <1>2, <1>3, <1>4, <1>5, <1>6, <1>7, <1>8, <1>9, <1>10, <1>11, <1>12, <1>13,
       <1>14, <1>15 DEF Next, GuiStep, WorkerStep, EinkStep

\* The context of the first message, when it carries one.
LEMMA HeadContext ==
    ASSUME MailTypes
    PROVE  /\ Pops("RenderingFinished") \/ Pops("ImageDisplayed") =>
                 Head(mailbox).ctx \in Contexts /\ Head(mailbox).mode \in 0 .. 2
           /\ EinkPops("Image") \/ EinkPops("Refresh") =>
                 Head(einkMailbox).ctx \in Contexts /\ Head(einkMailbox).mode \in 0 .. 2
<1>1. ASSUME NEW kind \in {"RenderingFinished", "ImageDisplayed"}, Pops(kind)
      PROVE  Head(mailbox).ctx \in Contexts /\ Head(mailbox).mode \in 0 .. 2
    <2>1. Head(mailbox) \in Messages /\ Head(mailbox).kind = kind
          BY <1>1, PopTypes
    <2> QED
        BY <1>1, <2>1, MessageFields DEF Carriers
<1>2. ASSUME NEW kind \in {"Image", "Refresh"}, EinkPops(kind)
      PROVE  Head(einkMailbox).ctx \in Contexts /\ Head(einkMailbox).mode \in 0 .. 2
    <2>1. Head(einkMailbox) \in Messages /\ Head(einkMailbox).kind = kind
          BY <1>2, EinkPopTypes
    <2> QED
        BY <1>2, <2>1, MessageFields DEF Carriers
<1> QED
    BY <1>1, <1>2

\* The counters of the bounds only grow, and the one of the release timer
\* only with TimerExpires.
LEMMA UsedStep ==
    ASSUME StateTypes, [Next]_vars
    PROVE  /\ used' \in [draws : Nat, schemes : Nat, timeouts : Nat, errors : Nat, closes : Nat]
           /\ ~TimerExpires => used'.timeouts = used.timeouts
           /\ TimerExpires => used'.timeouts > 0
<1> USE DEF StateTypes
<1>1. ASSUME NEW frame \in Frames, NEW mode \in RefreshModes, RequestDraw(frame, mode)
      PROVE  used' = [used EXCEPT !.draws = @ + 1]
      BY <1>1 DEF RequestDraw
<1>2. CASE RequestScheme
      BY <1>2 DEF RequestScheme, TimerExpires
<1>3. CASE RequestClose
      BY <1>3 DEF RequestClose, TimerExpires
<1>4. CASE TimerExpires
      BY <1>4 DEF TimerExpires
<1>5. CASE HandleImage \/ HandleRefresh
    <2>1. UNCHANGED used \/ used' = [used EXCEPT !.errors = @ + 1]
          BY <1>5 DEF HandleImage, HandleRefresh, Status
    <2>2. UNCHANGED timer
          BY <1>5 DEF HandleImage, HandleRefresh
    <2> QED
        BY <2>1, <2>2 DEF TimerExpires
<1>6. CASE UNCHANGED used
      BY <1>6 DEF TimerExpires
<1>7. \/ UNCHANGED used \/ RequestScheme \/ RequestClose \/ TimerExpires
      \/ HandleImage \/ HandleRefresh
      \/ \E frame \in Frames, mode \in RefreshModes : RequestDraw(frame, mode)
      BY DEF Next, GuiStep, WorkerStep, EinkStep, HandleDraw, HandleScheme,
         HandleFinishedIdle, HandleFinishedBusy, HandleImageDisplayed, HandleTimeout,
         ImageDisplayed, TrySendNextFrame, ProcessCloseReason, WorkerSignal, WorkerBorrow,
         WorkerRender, HandleCancel, asked, vars
<1>8. CASE \E frame \in Frames, mode \in RefreshModes : RequestDraw(frame, mode)
    <2>1. used' = [used EXCEPT !.draws = @ + 1]
          BY <1>8, <1>1
    <2> QED
        BY <2>1 DEF TimerExpires
<1> QED
    BY <1>2, <1>3, <1>4, <1>5, <1>6, <1>7, <1>8

\* The steps that touch the cache, the timer or the GUI service's position.
LEMMA StateChanges ==
    ASSUME [Next]_vars
    PROVE  \/ UNCHANGED <<guiPc, cache, timer>>
           \/ HandleFinishedIdle \/ HandleFinishedBusy \/ HandleImageDisplayed
           \/ HandleTimeout \/ TrySendNextFrame \/ TimerExpires
BY DEF Next, GuiStep, WorkerStep, EinkStep, HandleDraw, HandleScheme, ProcessCloseReason,
   WorkerSignal, WorkerBorrow, WorkerRender, HandleImage, HandleRefresh, HandleCancel,
   RequestScheme, RequestClose, RequestDraw, guiRest, gui, vars

\* scheduleContextRelease makes a timer.
LEMMA NewTimer ==
    ASSUME NEW t \in Timers, NEW c \in Contexts
    PROVE  [object |-> t.object + 1, ctx |-> c, active |-> TRUE, armed |-> TRUE] \in Timers
<1>1. c \in 0 .. ContextsCount
      BY Constants
<1>2. t.object + 1 \in Nat
      BY DEF Timers
<1> QED
    BY <1>1, <1>2 DEF Timers

\* The cache holds a context of the pool when it holds one, the timer too.
LEMMA StateTypesStep == MailTypes /\ StateTypes /\ [Next]_vars => StateTypes'
<1> SUFFICES ASSUME MailTypes, StateTypes, [Next]_vars PROVE StateTypes'
    OBVIOUS
<1>u. used' \in [draws : Nat, schemes : Nat, timeouts : Nat, errors : Nat, closes : Nat]
      BY UsedStep
<1> USE <1>u, Constants DEF StateTypes
<1>0. NoRender \in [ctx : 0 .. ContextsCount, mode : 0 .. 2]
      BY DisplayAssumption DEF NoRender
<1>1. CASE UNCHANGED <<guiPc, cache, timer>>
      BY <1>1
<1>2. CASE HandleFinishedIdle
    <2>1. Head(mailbox).ctx \in Contexts /\ Head(mailbox).mode \in 0 .. 2
          BY <1>2, HeadContext DEF HandleFinishedIdle
    <2>2. guiPc' = "loop" /\ guiPc' # "next" /\ cache' = NoRender
          BY <1>2 DEF HandleFinishedIdle, Pops
    <2>3. timer' = [object |-> timer.object + 1, ctx |-> Head(mailbox).ctx,
                    active |-> TRUE, armed |-> TRUE]
          BY <1>2 DEF HandleFinishedIdle, SendOnDisplay
    <2>4. timer' \in Timers /\ timer'.ctx \in Contexts
          BY <2>1, <2>3, NewTimer
    <2> QED
        BY <1>0, <2>2, <2>4, Zenon DEF Timers
<1>3. CASE HandleFinishedBusy
    <2>1. Head(mailbox).ctx \in Contexts /\ Head(mailbox).mode \in 0 .. 2
          BY <1>3, HeadContext DEF HandleFinishedBusy
    <2>2. guiPc = "loop" /\ UNCHANGED <<guiPc, timer>>
          BY <1>3 DEF HandleFinishedBusy, Pops
    <2>3. PICK x \in 0 .. 2 : cache' = [ctx |-> Head(mailbox).ctx, mode |-> x]
          BY <1>3, <2>1 DEF HandleFinishedBusy, Cached
    <2> QED
        BY <2>1, <2>2, <2>3
<1>4. CASE HandleImageDisplayed \/ HandleTimeout
    <2>1. UNCHANGED cache
          BY <1>4 DEF HandleImageDisplayed, HandleTimeout, ImageDisplayed, guiRest
    <2>2. UNCHANGED timer \/ timer' = [timer EXCEPT !.active = FALSE, !.armed = FALSE]
          BY <1>4 DEF HandleImageDisplayed, HandleTimeout, ImageDisplayed
    <2> USE DEF Timers
    <2>3. UNCHANGED guiPc \/ (guiPc' = "next" /\ cache # NoRender)
          BY <1>4 DEF HandleImageDisplayed, HandleTimeout, ImageDisplayed, guiRest
    <2> QED
        BY <2>1, <2>2, <2>3
<1>5. CASE TrySendNextFrame
    <2>1. cache.ctx \in Contexts /\ guiPc' = "loop" /\ cache' = NoRender
          BY <1>5 DEF TrySendNextFrame
    <2>2. \/ UNCHANGED timer
          \/ timer' = [object |-> timer.object + 1, ctx |-> cache.ctx,
                       active |-> TRUE, armed |-> TRUE]
          BY <1>5 DEF TrySendNextFrame, SendOnDisplay
    <2>3. timer' \in Timers /\ (timer'.active => timer'.ctx \in Contexts)
          BY <2>1, <2>2, NewTimer
    <2>4. guiPc' # "next"
          BY <2>1
    <2> QED
        BY <1>0, <2>1, <2>3, <2>4, Zenon DEF Timers
<1>6. CASE TimerExpires
    <2>1. UNCHANGED <<guiPc, cache>> /\ timer' = [timer EXCEPT !.armed = FALSE]
          BY <1>6 DEF TimerExpires, guiRest
    <2> QED
        BY <2>1 DEF Timers
<1> QED
    BY <1>1, <1>2, <1>3, <1>4, <1>5, <1>6, StateChanges

\* WorkerGUI: a context is torn from borrowContext to the end of render.
LEMMA WorkerOKStep == MailTypes /\ Pool /\ WorkerOK /\ [Next]_vars => WorkerOK'
<1> SUFFICES ASSUME MailTypes, Pool, WorkerOK, [Next]_vars PROVE WorkerOK'
    OBVIOUS
<1> USE Constants DEF WorkerOK, Rendering
<1>1. CASE UNCHANGED <<worker, content>>
      BY <1>1
<1>2. CASE WorkerSignal
    <2>1. UNCHANGED content /\ worker.pc = "idle"
          BY <1>2 DEF WorkerSignal
    <2>2. CASE UNCHANGED worker
          BY <2>1, <2>2
    <2>3. CASE /\ commandsQueue # <<>>
               /\ worker' = [pc |-> "borrow", frame |-> commandsQueue[1].frame,
                             mode |-> commandsQueue[1].mode, ctx |-> 0]
        <3>1. commandsQueue[1] \in Commands
              BY <2>3, TailFacts DEF MailTypes
        <3>2. commandsQueue[1].frame \in Frames /\ commandsQueue[1].mode \in 0 .. 2
              BY <3>1 DEF Commands
        <3>3. worker'.pc = "borrow" /\ worker'.frame \in Frames
              BY <2>3, <3>2
        <3>4. worker' \in [pc : {"idle", "borrow", "render"}, frame : Contents, mode : 0 .. 2,
                           ctx : 0 .. ContextsCount]
              BY <2>3, <3>2, DisplayAssumption
        <3> QED
            BY <2>1, <3>3, <3>4
    <2> QED
        BY <1>2, <2>2, <2>3 DEF WorkerSignal
<1>3. CASE WorkerBorrow
    <2>1. Head(free) \in Contexts
          BY <1>3, TailFacts DEF WorkerBorrow, Pool
    <2>2. /\ worker.pc = "borrow"
          /\ worker' = [worker EXCEPT !.pc = "render", !.ctx = Head(free)]
          /\ content' = [content EXCEPT ![Head(free)] = Torn]
          BY <1>3 DEF WorkerBorrow
    <2>3. Torn \in Contents
          BY DEF Contents
    <2> QED
        BY <2>1, <2>2, <2>3
<1>4. CASE WorkerRender
    <2>1. worker.pc = "render" /\ worker.ctx \in Contexts /\ worker.frame \in Frames
          BY <1>4 DEF WorkerRender
    <2>2. content' = [content EXCEPT ![worker.ctx] = worker.frame] /\ worker' = IdleWorker
          BY <1>4 DEF WorkerRender
    <2>3. worker' \in [pc : {"idle", "borrow", "render"}, frame : Contents, mode : 0 .. 2,
                       ctx : 0 .. ContextsCount] /\ worker'.pc = "idle"
          BY <2>2, DisplayAssumption DEF IdleWorker
    <2> QED
        BY <2>1, <2>2, <2>3
<1>5. UNCHANGED <<worker, content>> \/ WorkerSignal \/ WorkerBorrow \/ WorkerRender
      BY DEF Next, GuiStep, WorkerStep, EinkStep, HandleDraw, HandleScheme,
         HandleFinishedIdle, HandleFinishedBusy, HandleImageDisplayed, HandleTimeout,
         ImageDisplayed, TrySendNextFrame, ProcessCloseReason, HandleImage, HandleRefresh,
         HandleCancel, RequestDraw, RequestScheme, RequestClose, TimerExpires, shared, vars
<1> QED
    BY <1>1, <1>2, <1>3, <1>4, <1>5

-----------------------------------------------------------------------------
(***************************************************************************)
(* The pool.                                                               *)
(***************************************************************************)

\* removeContextId takes the context out and keeps the others, once each.
LEMMA WithoutFacts ==
    ASSUME NEW S, NEW s \in Seq(S), Distinct(s), NEW c \in Elems(s)
    PROVE  /\ Without(s, c) \in Seq(S)
           /\ Distinct(Without(s, c))
           /\ Elems(Without(s, c)) = Elems(s) \ {c}
<1> DEFINE i == CHOOSE i \in DOMAIN s : s[i] = c
           a == SubSeq(s, 1, i - 1)
           b == SubSeq(s, i + 1, Len(s))
           n == Len(s)
<1>1. DOMAIN s = 1 .. n /\ n \in Nat
      OBVIOUS
<1>2. i \in 1 .. n /\ s[i] = c
      BY <1>1 DEF Elems
<1>3. Without(s, c) = a \o b
      BY DEF Without
<1> HIDE DEF i
<1>4. a \in Seq(S) /\ Len(a) = i - 1 /\ \A k \in 1 .. i - 1 : a[k] = s[k]
    <2>1. \A k \in 1 .. i - 1 : s[k] \in S
          BY <1>1, <1>2
    <2> QED
        BY <1>2, <2>1, SubSeqProperties
<1>5. b \in Seq(S) /\ Len(b) = n - i /\ \A k \in 1 .. n - i : b[k] = s[i + k]
    <2>1. \A k \in i + 1 .. n : s[k] \in S
          BY <1>1, <1>2
    <2>2. i + 1 \in Int /\ n \in Int
          BY <1>1, <1>2
    <2>3. /\ b \in Seq(S)
          /\ Len(b) = IF i + 1 <= n THEN n - (i + 1) + 1 ELSE 0
          /\ \A k \in 1 .. n - (i + 1) + 1 : b[k] = s[(i + 1) + k - 1]
          BY <2>1, <2>2, SubSeqProperties
    <2> HIDE DEF b, n
    <2>4. Len(b) = n - i
          BY <1>1, <1>2, <2>3
    <2>5. ASSUME NEW k \in 1 .. n - i PROVE b[k] = s[i + k]
        <3>1. k \in 1 .. n - (i + 1) + 1 /\ (i + 1) + k - 1 = i + k
              BY <1>1, <1>2
        <3> QED
            BY <2>3, <3>1
    <2> QED
        BY <2>3, <2>4, <2>5
<1> DEFINE w == a \o b
<1> HIDE DEF a, b
<1>6. /\ w \in Seq(S) /\ Len(w) = n - 1
      /\ \A k \in 1 .. n - 1 : w[k] = IF k <= i - 1 THEN a[k] ELSE b[k - (i - 1)]
    <2>1. /\ w \in Seq(S) /\ Len(w) = Len(a) + Len(b)
          /\ \A k \in 1 .. Len(a) + Len(b) : w[k] = IF k <= Len(a) THEN a[k] ELSE b[k - Len(a)]
          BY <1>4, <1>5, ConcatProperties
    <2>2. Len(a) + Len(b) = n - 1 /\ Len(a) = i - 1
          BY <1>1, <1>2, <1>4, <1>5
    <2> QED
        BY <2>1, <2>2
<1> HIDE DEF w
<1>7. \A k \in 1 .. n - 1 : w[k] = IF k < i THEN s[k] ELSE s[k + 1]
    <2> SUFFICES ASSUME NEW k \in 1 .. n - 1
                 PROVE  w[k] = IF k < i THEN s[k] ELSE s[k + 1]
        OBVIOUS
    <2>1. CASE k < i
        <3>1. k <= i - 1 /\ k \in 1 .. i - 1
              BY <1>1, <1>2, <2>1
        <3> QED
            BY <1>4, <1>6, <2>1, <3>1
    <2>2. CASE ~(k < i)
        <3>1. ~(k <= i - 1) /\ k - (i - 1) \in 1 .. n - i /\ i + (k - (i - 1)) = k + 1
              BY <1>1, <1>2, <2>2
        <3>2. w[k] = b[k - (i - 1)] /\ b[k - (i - 1)] = s[i + (k - (i - 1))]
              BY <1>5, <1>6, <3>1
        <3> QED
            BY <2>2, <3>1, <3>2
    <2> QED
        BY <2>1, <2>2
<1>8. DOMAIN w = 1 .. n - 1
      BY <1>1, <1>6
<1>9. Distinct(w)
    <2> SUFFICES ASSUME NEW j \in DOMAIN w, NEW k \in DOMAIN w, w[j] = w[k] PROVE j = k
        BY DEF Distinct
    <2> DEFINE at(x) == IF x < i THEN x ELSE x + 1
    <2>1. j \in 1 .. n - 1 /\ k \in 1 .. n - 1
          BY <1>8
    <2>2. w[j] = s[at(j)] /\ w[k] = s[at(k)]
          BY <1>7, <2>1
    <2>3. at(j) \in DOMAIN s /\ at(k) \in DOMAIN s
          BY <1>1, <1>2, <2>1
    <2>4. at(j) = at(k)
          BY <2>2, <2>3 DEF Distinct
    <2> QED
        BY <1>1, <1>2, <2>1, <2>4
<1>10. ASSUME NEW k \in DOMAIN w PROVE w[k] \in Elems(s) /\ w[k] # c
    <2>1. k \in 1 .. n - 1 /\ k \in Nat
          BY <1>1, <1>8
    <2>2. k \in DOMAIN s /\ k + 1 \in DOMAIN s
          BY <1>1, <2>1
    <2>3. k < i => w[k] = s[k] /\ k # i
          BY <1>2, <1>7, <2>1
    <2>4. ~(k < i) => w[k] = s[k + 1] /\ k + 1 # i
          BY <1>2, <1>7, <2>1
    <2> QED
        BY <1>1, <1>2, <2>2, <2>3, <2>4 DEF Distinct, Elems
<1>11. ASSUME NEW j \in DOMAIN s, s[j] # c PROVE s[j] \in Elems(w)
    <2>1. j \in 1 .. n /\ j # i
          BY <1>1, <1>2, <1>11
    <2>2. CASE j < i
        <3>1. j \in 1 .. n - 1
              BY <1>1, <1>2, <2>1, <2>2
        <3> QED
            BY <1>7, <1>8, <2>2, <3>1 DEF Elems
    <2>3. CASE j > i
        <3>1. j - 1 \in 1 .. n - 1 /\ ~(j - 1 < i) /\ (j - 1) + 1 = j
              BY <1>1, <1>2, <2>1, <2>3
        <3> QED
            BY <1>7, <1>8, <3>1 DEF Elems
    <2> QED
        BY <1>1, <1>2, <2>1, <2>2, <2>3
<1>12. Elems(w) = Elems(s) \ {c}
      BY <1>10, <1>11 DEF Elems
<1>13. Without(s, c) = w
      BY <1>3 DEF w
<1> QED
    BY <1>6, <1>9, <1>12, <1>13

\* ReturnContext and LockContext move one context between the two parts.
LEMMA LockStep ==
    ASSUME Pool, NEW c \in Elems(free), LockContext(c)
    PROVE  Pool' /\ c \in Contexts /\ c \notin locked
<1>1. /\ free' \in Seq(Contexts) /\ Distinct(free')
      /\ Elems(free') = Elems(free) \ {c}
      BY WithoutFacts DEF Pool, LockContext
<1>2. locked' = locked \cup {c}
      BY DEF LockContext
<1>3. /\ Elems(free) \cup locked = Contexts
      /\ Elems(free) \cap locked = {}
      BY DEF Pool
<1>4. Elems(free') \cup locked' = Contexts /\ Elems(free') \cap locked' = {}
      BY <1>1, <1>2, <1>3
<1>5. c \in Contexts /\ c \notin locked
      BY <1>3
<1> QED
    BY <1>1, <1>4, <1>5, Zenon DEF Pool, Distinct, Elems

\* ContextPool::returnContext keeps the pool consistent, also when the context
\* comes back a second time.
LEMMA ReturnStep ==
    ASSUME Pool, NEW c \in Contexts, ReturnContext(c)
    PROVE  Pool'
<1>1. /\ free \in Seq(Contexts) /\ Distinct(free)
      /\ Elems(free) \cup locked = Contexts
      /\ Elems(free) \cap locked = {}
      BY DEF Pool
<1>2. locked' = locked \ {c}
      BY DEF ReturnContext
<1>3. CASE c \in Elems(free)
    <2>1. free' = free
          BY <1>3 DEF ReturnContext
    <2>2. locked' = locked
          BY <1>1, <1>2, <1>3
    <2> QED
        BY <1>1, <2>1, <2>2 DEF Pool, Distinct, Elems
<1>4. CASE c \notin Elems(free)
    <2>1. free' = Append(free, c)
          BY <1>4 DEF ReturnContext
    <2>2. /\ free' \in Seq(Contexts)
          /\ DOMAIN free = 1 .. Len(free) /\ Len(free) \in Nat
          /\ DOMAIN free' = 1 .. (Len(free) + 1)
          /\ free'[Len(free) + 1] = c
          /\ \A i \in DOMAIN free : free'[i] = free[i]
          /\ \A i \in DOMAIN free' : i \in DOMAIN free \/ i = Len(free) + 1
          BY <1>1, <2>1, AppendFacts
    <2>3. Elems(free') = Elems(free) \cup {c}
        <3>1. Len(free) + 1 \in DOMAIN free' /\ DOMAIN free \subseteq DOMAIN free'
              BY <2>2
        <3> QED
            BY <2>2, <3>1 DEF Elems
    <2>4. \A i \in DOMAIN free : free[i] # c
          BY <1>4 DEF Elems
    <2>5. Distinct(free')
          BY <1>1, <2>2, <2>4 DEF Distinct
    <2>6. Elems(free') \cup locked' = Contexts /\ Elems(free') \cap locked' = {}
          BY <1>1, <1>2, <1>4, <2>3
    <2> QED
        BY <2>2, <2>5, <2>6, Zenon DEF Pool, Distinct, Elems
<1> QED
    BY <1>3, <1>4

\* The steps that use the pool.
LEMMA PoolChanges ==
    ASSUME [Next]_vars
    PROVE  \/ UNCHANGED <<free, locked>>
           \/ HandleFinishedBusy \/ HandleImageDisplayed \/ HandleTimeout
           \/ TrySendNextFrame \/ WorkerBorrow
BY DEF Next, GuiStep, WorkerStep, EinkStep, HandleDraw, HandleScheme, HandleFinishedIdle,
   ProcessCloseReason, WorkerSignal, WorkerRender, HandleImage, HandleRefresh,
   HandleCancel, RequestDraw, RequestScheme, RequestClose, TimerExpires, shared, vars

\* The pool loses no context and has none twice, also when the release timer
\* and the notification both return one.
LEMMA PoolStep == MailTypes /\ StateTypes /\ Pool /\ [Next]_vars => Pool'
<1> SUFFICES ASSUME MailTypes, StateTypes, Pool, [Next]_vars PROVE Pool'
    OBVIOUS
<1>1. CASE UNCHANGED <<free, locked>>
      BY <1>1 DEF Pool, Distinct, Elems
<1>2. CASE HandleFinishedBusy
    <2>1. Head(mailbox).ctx \in Contexts
          BY <1>2, HeadContext DEF HandleFinishedBusy
    <2> QED
        BY <1>2, <2>1, ReturnStep DEF HandleFinishedBusy
<1>3. CASE HandleImageDisplayed
    <2>1. Head(mailbox).ctx \in Contexts
          BY <1>3, HeadContext DEF HandleImageDisplayed
    <2> QED
        BY <1>3, <2>1, ReturnStep DEF HandleImageDisplayed, ImageDisplayed
<1>4. CASE HandleTimeout
    <2>1. CASE timer.active /\ ReturnContext(timer.ctx)
        <3>1. timer.ctx \in Contexts
              BY <2>1 DEF StateTypes
        <3> QED
            BY <2>1, <3>1, ReturnStep
    <2>2. (timer.active /\ ReturnContext(timer.ctx)) \/ UNCHANGED <<free, locked>>
          BY <1>4 DEF HandleTimeout, ImageDisplayed, shared
    <2> QED
        BY <1>1, <2>1, <2>2
<1>5. CASE TrySendNextFrame
    <2>1. \/ UNCHANGED <<free, locked>>
          \/ cache.ctx \in Elems(free) /\ LockContext(cache.ctx)
          BY <1>5 DEF TrySendNextFrame
    <2> QED
        BY <1>1, <2>1, LockStep
<1>6. CASE WorkerBorrow
    <2>1. Head(free) \in Elems(free)
          BY <1>6, TailFacts DEF WorkerBorrow, Pool, Elems
    <2> QED
        BY <1>6, <2>1, LockStep DEF WorkerBorrow
<1> QED
    BY <1>1, <1>2, <1>3, <1>4, <1>5, <1>6, PoolChanges

-----------------------------------------------------------------------------
(***************************************************************************)
(* Who owns a locked context until the release timer strikes.              *)
(***************************************************************************)

\* What is left in the mailbox of the GUI service when it takes a message.
LEMMA PopFacts ==
    ASSUME MailTypes, NEW kind, Pops(kind)
    PROVE  /\ 1 \in DOMAIN mailbox /\ mailbox[1].kind = kind /\ Head(mailbox) = mailbox[1]
           /\ kind = "RenderingFinished" => Finished(1)
           /\ kind = "ImageDisplayed" => Shown(1)
           /\ \A i \in DOMAIN mailbox' : mailbox'[i] = mailbox[i + 1] /\ i + 1 \in DOMAIN mailbox
           /\ \A i : Finished(i)' =>
                 i + 1 # 1 /\ i \in Nat /\ Finished(i + 1) /\ mailbox'[i] = mailbox[i + 1]
           /\ \A i : Shown(i)' =>
                 i + 1 # 1 /\ i \in Nat /\ Shown(i + 1) /\ mailbox'[i] = mailbox[i + 1]
<1>1. mailbox \in Seq(Messages) /\ mailbox # <<>> /\ mailbox' = Tail(mailbox)
      /\ Head(mailbox).kind = kind
      BY DEF MailTypes, Pops
<1>2. /\ Head(mailbox) = mailbox[1] /\ 1 \in DOMAIN mailbox
      /\ DOMAIN mailbox = 1 .. Len(mailbox) /\ Len(mailbox) \in Nat
      /\ DOMAIN mailbox' = 1 .. (Len(mailbox) - 1)
      /\ \A i \in DOMAIN mailbox' :
            i \in Nat /\ i + 1 \in DOMAIN mailbox /\ mailbox'[i] = mailbox[i + 1]
      BY <1>1, TailFacts
<1>3. \A i \in DOMAIN mailbox' : i + 1 # 1
      BY <1>2
<1> QED
    BY <1>1, <1>2, <1>3 DEF Finished, Shown

\* ... and when one is sent to it.
LEMMA PostFacts ==
    ASSUME MailTypes, NEW m \in Messages, mailbox' = Append(mailbox, m)
    PROVE  \E n : /\ n \notin DOMAIN mailbox /\ n \in DOMAIN mailbox' /\ mailbox'[n] = m
                  /\ \A i \in DOMAIN mailbox' :
                        i = n \/ (i \in DOMAIN mailbox /\ mailbox'[i] = mailbox[i])
                  /\ \A i : Finished(i)' =>
                        \/ i = n /\ m.kind = "RenderingFinished"
                        \/ i # n /\ Finished(i) /\ mailbox'[i] = mailbox[i]
                  /\ \A i : Shown(i)' =>
                        \/ i = n /\ m.kind = "ImageDisplayed"
                        \/ i # n /\ Shown(i) /\ mailbox'[i] = mailbox[i]
<1>0. PICK n : n = Len(mailbox) + 1
      OBVIOUS
<1>1. /\ DOMAIN mailbox = 1 .. Len(mailbox) /\ Len(mailbox) \in Nat
      /\ DOMAIN mailbox' = 1 .. n
      /\ mailbox'[n] = m
      /\ \A i \in DOMAIN mailbox : mailbox'[i] = mailbox[i]
      /\ \A i \in DOMAIN mailbox' : i \in DOMAIN mailbox \/ i = n
      BY <1>0, AppendFacts DEF MailTypes
<1>2. n \notin DOMAIN mailbox /\ n \in DOMAIN mailbox'
      BY <1>0, <1>1
<1>3. \A i : Finished(i)' =>
            \/ i = n /\ m.kind = "RenderingFinished"
            \/ i # n /\ Finished(i) /\ mailbox'[i] = mailbox[i]
      BY <1>1, <1>2 DEF Finished
<1>4. \A i : Shown(i)' =>
            \/ i = n /\ m.kind = "ImageDisplayed"
            \/ i # n /\ Shown(i) /\ mailbox'[i] = mailbox[i]
      BY <1>1, <1>2 DEF Shown
<1> QED
    BY <1>1, <1>2, <1>3, <1>4

\* The same for the E Ink service.
LEMMA EinkPopFacts ==
    ASSUME MailTypes, NEW kind, EinkPops(kind)
    PROVE  /\ Head(einkMailbox) = einkMailbox[1] /\ einkMailbox[1].kind = kind
           /\ kind \in {"Image", "Refresh"} => OnEink(1)
           /\ Tail(einkMailbox) \in Seq(Messages)
           /\ einkMailbox' = Tail(einkMailbox) => \A k : OnEink(k)' =>
                 k + 1 # 1 /\ k \in Nat /\ OnEink(k + 1) /\ einkMailbox'[k] = einkMailbox[k + 1]
<1>1. einkMailbox \in Seq(Messages) /\ einkMailbox # <<>> /\ Head(einkMailbox).kind = kind
      BY DEF MailTypes, EinkPops
<1>2. /\ Head(einkMailbox) = einkMailbox[1] /\ 1 \in DOMAIN einkMailbox
      /\ Tail(einkMailbox) \in Seq(Messages)
      /\ DOMAIN einkMailbox = 1 .. Len(einkMailbox) /\ Len(einkMailbox) \in Nat
      /\ DOMAIN Tail(einkMailbox) = 1 .. (Len(einkMailbox) - 1)
      /\ \A i \in DOMAIN Tail(einkMailbox) :
            i \in Nat /\ i + 1 \in DOMAIN einkMailbox /\ Tail(einkMailbox)[i] = einkMailbox[i + 1]
      BY <1>1, TailFacts
<1>3. \A i \in DOMAIN Tail(einkMailbox) : i + 1 # 1
      BY <1>2
<1> QED
    BY <1>1, <1>2, <1>3 DEF OnEink

\* What the E Ink service has still to show after another message came.
LEMMA EinkPostFacts ==
    ASSUME MailTypes, NEW m \in Messages, einkMailbox' = Append(einkMailbox, m),
           NEW n, n = Len(einkMailbox) + 1
    PROVE  /\ einkMailbox'[n] = m
           /\ \A k : OnEink(k)' =>
                 \/ k = n /\ m.kind \in {"Image", "Refresh"}
                 \/ k # n /\ OnEink(k) /\ einkMailbox'[k] = einkMailbox[k]
<1>1. /\ DOMAIN einkMailbox = 1 .. Len(einkMailbox) /\ Len(einkMailbox) \in Nat
      /\ einkMailbox'[n] = m
      /\ \A i \in DOMAIN einkMailbox : einkMailbox'[i] = einkMailbox[i]
      /\ \A i \in DOMAIN einkMailbox' : i \in DOMAIN einkMailbox \/ i = n
      BY AppendFacts DEF MailTypes
<1>2. n \notin DOMAIN einkMailbox
      BY <1>1
<1> QED
    BY <1>1, <1>2 DEF OnEink

\* Messages that own no context may come ...
LEMMA PlainPost ==
    ASSUME MailTypes, Owned, UNCHANGED <<worker, locked, displaying, guiPc, memory, einkMailbox>>,
           NEW m \in Messages, mailbox' = Append(mailbox, m),
           m.kind \notin Carriers, m.kind # "Timeout"
    PROVE  Owned'
<1>k. \A k : OnEink(k)' <=> OnEink(k)
      BY DEF OnEink
<1>r. \A c : Rendering(c)' <=> Rendering(c)
      BY DEF Rendering
<1>1. PICK n : /\ n \notin DOMAIN mailbox /\ n \in DOMAIN mailbox' /\ mailbox'[n] = m
               /\ \A i \in DOMAIN mailbox' :
                     i = n \/ (i \in DOMAIN mailbox /\ mailbox'[i] = mailbox[i])
               /\ \A i : Finished(i)' =>
                     \/ i = n /\ m.kind = "RenderingFinished"
                     \/ i # n /\ Finished(i) /\ mailbox'[i] = mailbox[i]
               /\ \A i : Shown(i)' =>
                     \/ i = n /\ m.kind = "ImageDisplayed"
                     \/ i # n /\ Shown(i) /\ mailbox'[i] = mailbox[i]
      BY PostFacts
<1>2. m.kind # "RenderingFinished" /\ m.kind # "ImageDisplayed"
      BY DEF Carriers
<1>3. /\ \A i : Finished(i)' => Finished(i) /\ mailbox'[i] = mailbox[i]
      /\ \A i : Shown(i)' => Shown(i) /\ mailbox'[i] = mailbox[i]
      BY <1>1, <1>2
<1>4. Quiet' /\ WorkerOwns' /\ NextIdle' /\ (memory # Torn)'
      BY <1>1 DEF Owned, Quiet, WorkerOwns, NextIdle
<1>5. FinishedOwns'
      BY <1>r, <1>3 DEF Owned, FinishedOwns
<1>6. EinkOwns'
      BY <1>k, <1>r, <1>3 DEF Owned, EinkOwns
<1>7. ShownOwns'
      BY <1>r, <1>3 DEF Owned, ShownOwns
<1> QED
    BY <1>4, <1>5, <1>6, <1>7 DEF Owned

\* ... and go.
LEMMA PlainPop ==
    ASSUME MailTypes, Owned, UNCHANGED <<worker, locked, displaying, guiPc, memory, einkMailbox>>,
           NEW kind, Pops(kind)
    PROVE  Owned'
<1>k. \A k : OnEink(k)' <=> OnEink(k)
      BY DEF OnEink
<1>r. \A c : Rendering(c)' <=> Rendering(c)
      BY DEF Rendering
<1>i. \A i, j \in Nat : i + 1 = j + 1 => i = j
      OBVIOUS
<1>1. /\ \A i \in DOMAIN mailbox' :
            mailbox'[i] = mailbox[i + 1] /\ i + 1 \in DOMAIN mailbox
      /\ \A i : Finished(i)' =>
            i \in Nat /\ Finished(i + 1) /\ mailbox'[i] = mailbox[i + 1]
      /\ \A i : Shown(i)' => i \in Nat /\ Shown(i + 1) /\ mailbox'[i] = mailbox[i + 1]
      BY PopFacts
<1>2. Quiet' /\ WorkerOwns' /\ NextIdle' /\ (memory # Torn)'
      BY <1>1 DEF Owned, Quiet, WorkerOwns, NextIdle
<1>3. FinishedOwns'
      BY <1>r, <1>1, <1>i DEF Owned, FinishedOwns
<1>4. EinkOwns'
      BY <1>k, <1>r, <1>1 DEF Owned, EinkOwns
<1>5. ShownOwns'
      BY <1>r, <1>1, <1>i DEF Owned, ShownOwns
<1> QED
    BY <1>2, <1>3, <1>4, <1>5 DEF Owned

\* handleGUIRenderingFinished: what was rendered is on its way ...
LEMMA FinishedIdleOwned ==
    ASSUME MailTypes, StateTypes, Owned, HandleFinishedIdle
    PROVE  Owned'
<1>1. /\ Finished(1) /\ Head(mailbox) = mailbox[1]
      /\ \A i \in DOMAIN mailbox' : mailbox'[i] = mailbox[i + 1] /\ i + 1 \in DOMAIN mailbox
      /\ \A i : Finished(i)' =>
            i + 1 # 1 /\ i \in Nat /\ Finished(i + 1) /\ mailbox'[i] = mailbox[i + 1]
      /\ \A i : Shown(i)' => Shown(i + 1)
      BY PopFacts DEF HandleFinishedIdle
<1>2. /\ ~displaying /\ displaying' /\ guiPc' = "loop"
      /\ UNCHANGED <<worker, locked, memory>>
      BY DEF HandleFinishedIdle, SendOnDisplay, Pops, shared, einkRest
<1>3. Head(mailbox).ctx \in Contexts /\ Head(mailbox).mode \in 0 .. 2
      BY HeadContext DEF HandleFinishedIdle
<1>4. PICK x \in 0 .. 2 :
          einkMailbox' = Append(einkMailbox, Msg("Image", Blank, mailbox[1].ctx, x))
      BY <1>1, <1>3, Constants DEF HandleFinishedIdle, SendOnDisplay
<1>5. Msg("Image", Blank, mailbox[1].ctx, x) \in Messages
      BY <1>1, <1>3, Built, Constants
<1>6. PICK n : n = Len(einkMailbox) + 1
      OBVIOUS
<1>7. /\ \A k : OnEink(k)' => k = n \/ OnEink(k)
      /\ einkMailbox'[n] = Msg("Image", Blank, mailbox[1].ctx, x)
      BY <1>4, <1>5, <1>6, EinkPostFacts
<1>8. /\ \A k : OnEink(k)' => k = n
      /\ einkMailbox'[n].ctx = mailbox[1].ctx
      BY <1>2, <1>7 DEF Owned, EinkOwns, Msg
<1>9. \A i : ~Shown(i)'
      BY <1>1, <1>2 DEF Owned, ShownOwns
<1>i. \A i, j \in Nat : i + 1 = j + 1 => i = j
      OBVIOUS
<1>r. \A c : Rendering(c)' <=> Rendering(c)
      BY <1>2 DEF Rendering
<1>10. Quiet' /\ WorkerOwns' /\ NextIdle' /\ (memory # Torn)'
      BY <1>1, <1>2 DEF Owned, Quiet, WorkerOwns, NextIdle
<1>11. FinishedOwns'
      BY <1>1, <1>2, <1>i, <1>r DEF Owned, FinishedOwns
<1>12. EinkOwns'
      BY <1>1, <1>2, <1>8, <1>9, <1>r DEF Owned, EinkOwns, FinishedOwns
<1>13. ShownOwns'
      BY <1>9 DEF ShownOwns
<1> QED
    BY <1>10, <1>11, <1>12, <1>13 DEF Owned

\* ... or, while the display is busy, is returned.
LEMMA FinishedBusyOwned ==
    ASSUME MailTypes, Owned, HandleFinishedBusy
    PROVE  Owned'
<1>1. /\ Finished(1) /\ Head(mailbox) = mailbox[1]
      /\ \A i \in DOMAIN mailbox' : mailbox'[i] = mailbox[i + 1] /\ i + 1 \in DOMAIN mailbox
      /\ \A i : Finished(i)' =>
            i + 1 # 1 /\ i \in Nat /\ Finished(i + 1) /\ mailbox'[i] = mailbox[i + 1]
      /\ \A i : Shown(i)' =>
            i + 1 # 1 /\ i \in Nat /\ Shown(i + 1) /\ mailbox'[i] = mailbox[i + 1]
      BY PopFacts DEF HandleFinishedBusy
<1>2. /\ displaying /\ displaying' /\ guiPc' = "loop"
      /\ UNCHANGED <<worker, memory>> /\ locked' = locked \ {mailbox[1].ctx}
      BY <1>1 DEF HandleFinishedBusy, Pops, ReturnContext, einkRest
<1>3. Msg("CancelRefresh", Blank, 0, NONE) \in Messages
      BY Built, Constants
<1>4. PICK n : n = Len(einkMailbox) + 1
      OBVIOUS
<1>5. \A k : OnEink(k)' => OnEink(k) /\ einkMailbox'[k] = einkMailbox[k]
    <2> DEFINE m == Msg("CancelRefresh", Blank, 0, NONE)
    <2>1. m.kind \notin {"Image", "Refresh"}
          BY DEF Msg
    <2>2. einkMailbox' = Append(einkMailbox, m)
          BY DEF HandleFinishedBusy
    <2> HIDE DEF m
    <2> QED
        BY <1>3, <1>4, <2>1, <2>2, EinkPostFacts DEF m
<1>i. \A i, j \in Nat : i + 1 = j + 1 => i = j
      OBVIOUS
<1>r. \A c : Rendering(c)' <=> Rendering(c)
      BY <1>2 DEF Rendering
<1>10. Quiet' /\ WorkerOwns' /\ NextIdle' /\ (memory # Torn)'
      BY <1>1, <1>2 DEF Owned, Quiet, WorkerOwns, NextIdle, FinishedOwns, Rendering
<1>11. FinishedOwns'
      BY <1>1, <1>2, <1>i, <1>r DEF Owned, FinishedOwns
<1>12. EinkOwns'
      BY <1>1, <1>2, <1>5, <1>r DEF Owned, EinkOwns
<1>13. ShownOwns'
      BY <1>1, <1>2, <1>i, <1>r DEF Owned, ShownOwns
<1> QED
    BY <1>10, <1>11, <1>12, <1>13 DEF Owned

\* handleImageDisplayedNotification: the way is over.
LEMMA ImageDisplayedOwned ==
    ASSUME MailTypes, Owned, HandleImageDisplayed
    PROVE  Owned'
<1>1. /\ Shown(1) /\ Head(mailbox) = mailbox[1]
      /\ \A i \in DOMAIN mailbox' : mailbox'[i] = mailbox[i + 1] /\ i + 1 \in DOMAIN mailbox
      /\ \A i : Finished(i)' =>
            i + 1 # 1 /\ i \in Nat /\ Finished(i + 1) /\ mailbox'[i] = mailbox[i + 1]
      /\ \A i : Shown(i)' => i + 1 # 1 /\ Shown(i + 1)
      BY PopFacts DEF HandleImageDisplayed
<1>2. /\ ~displaying' /\ locked' = locked \ {mailbox[1].ctx}
      /\ UNCHANGED <<worker, memory, einkMailbox>>
      BY <1>1 DEF HandleImageDisplayed, ImageDisplayed, ReturnContext, eink
<1>3. \A i : ~Shown(i)'
      BY <1>1 DEF Owned, ShownOwns
<1>4. \A k : ~OnEink(k)'
      BY <1>1, <1>2 DEF Owned, EinkOwns, OnEink
<1>i. \A i, j \in Nat : i + 1 = j + 1 => i = j
      OBVIOUS
<1>r. \A c : Rendering(c)' <=> Rendering(c)
      BY <1>2 DEF Rendering
<1>10. Quiet' /\ WorkerOwns' /\ NextIdle' /\ (memory # Torn)'
      BY <1>1, <1>2 DEF Owned, Quiet, WorkerOwns, NextIdle, ShownOwns, Rendering
<1>11. FinishedOwns'
      BY <1>1, <1>2, <1>i, <1>r DEF Owned, FinishedOwns, ShownOwns
<1>12. EinkOwns' /\ ShownOwns'
      BY <1>3, <1>4 DEF EinkOwns, ShownOwns
<1> QED
    BY <1>10, <1>11, <1>12 DEF Owned

\* trySendNextFrame: the cached context is borrowed before it is sent.
LEMMA TrySendOwned ==
    ASSUME MailTypes, StateTypes, Pool, Owned, TrySendNextFrame
    PROVE  Owned'
<1>1. /\ ~displaying /\ guiPc' = "loop" /\ UNCHANGED <<mailbox, worker, memory>>
      BY DEF Owned, NextIdle, TrySendNextFrame, einkRest
<1>2. /\ \A k : ~OnEink(k)
      /\ \A i : ~Shown(i)
      BY <1>1 DEF Owned, EinkOwns, ShownOwns
<1>m. \A i : (Finished(i)' <=> Finished(i)) /\ (Shown(i)' <=> Shown(i))
      BY <1>1 DEF Finished, Shown
<1>r. \A c : Rendering(c)' <=> Rendering(c)
      BY <1>1 DEF Rendering
<1>3. Quiet' /\ NextIdle' /\ (memory # Torn)'
      BY <1>1 DEF Owned, Quiet, NextIdle
<1>4. CASE UNCHANGED <<locked, displaying, einkMailbox>>
    <2>1. \A k : ~OnEink(k)'
          BY <1>2, <1>4 DEF OnEink
    <2> QED
        BY <1>1, <1>2, <1>3, <1>4, <1>m, <1>r, <2>1
           DEF Owned, WorkerOwns, FinishedOwns, EinkOwns, ShownOwns
<1>5. CASE /\ cache.ctx \in Elems(free) /\ LockContext(cache.ctx)
           /\ SendOnDisplay(cache.ctx, cache.mode)
    <2> DEFINE m == Msg("Image", Blank, cache.ctx, cache.mode)
    <2>1. cache.ctx \in Contexts /\ cache.ctx \notin locked /\ cache.mode \in 0 .. 2
          BY <1>5, LockStep DEF StateTypes
    <2>2. m \in Messages /\ m.ctx = cache.ctx
          BY <2>1, Built, Constants DEF Msg
    <2>3. /\ locked' = locked \cup {cache.ctx} /\ displaying'
          /\ einkMailbox' = Append(einkMailbox, m)
          BY <1>5 DEF LockContext, SendOnDisplay
    <2> HIDE DEF m
    <2>4. PICK n : n = Len(einkMailbox) + 1
          OBVIOUS
    <2>5. /\ einkMailbox'[n] = m
          /\ \A k : OnEink(k)' => k = n
          BY <1>2, <2>2, <2>3, <2>4, EinkPostFacts
    <2>6. WorkerOwns'
          BY <1>1, <2>3 DEF Owned, WorkerOwns
    <2>7. FinishedOwns'
          BY <1>1, <1>m, <1>r, <2>3 DEF Owned, FinishedOwns
    <2>8. EinkOwns'
        <3>1. ~Rendering(cache.ctx)
              BY <2>1 DEF Owned, WorkerOwns, Rendering
        <3>2. \A i : Finished(i)' => mailbox'[i].ctx # cache.ctx
              BY <1>1, <1>m, <2>1 DEF Owned, FinishedOwns
        <3> QED
            BY <1>2, <1>m, <1>r, <2>2, <2>3, <2>5, <3>1, <3>2 DEF EinkOwns
    <2>9. ShownOwns'
          BY <1>2, <1>m DEF ShownOwns
    <2> QED
        BY <1>3, <2>6, <2>7, <2>8, <2>9 DEF Owned
<1> QED
    BY <1>4, <1>5 DEF TrySendNextFrame

\* borrowContext: no one else has the context the worker gets.
LEMMA WorkerBorrowOwned ==
    ASSUME Pool, Owned, WorkerBorrow
    PROVE  Owned'
<1>1. /\ worker.pc = "borrow" /\ LockContext(Head(free))
      /\ worker' = [worker EXCEPT !.pc = "render", !.ctx = Head(free)]
      /\ UNCHANGED <<mailbox, guiPc, displaying, einkMailbox, memory>>
      BY DEF WorkerBorrow, gui, eink
<1>2. Head(free) \in Elems(free)
      BY TailFacts DEF WorkerBorrow, Pool, Elems
<1>3. Head(free) \notin locked /\ locked' = locked \cup {Head(free)}
      BY <1>1, <1>2, LockStep DEF LockContext
<1>4. \A c : Rendering(c)' => c = Head(free)
      BY <1>1 DEF Rendering, WorkerBorrow
<1>5. \A i : (Finished(i)' <=> Finished(i)) /\ (Shown(i)' <=> Shown(i)) /\ (OnEink(i)' <=> OnEink(i))
      BY <1>1 DEF Finished, Shown, OnEink
<1>6. Quiet' /\ NextIdle' /\ (memory # Torn)'
      BY <1>1 DEF Owned, Quiet, NextIdle
<1>7. WorkerOwns'
      BY <1>3, <1>4 DEF WorkerOwns, Rendering
<1>8. FinishedOwns'
      BY <1>1, <1>3, <1>4, <1>5 DEF Owned, FinishedOwns
<1>9. EinkOwns'
      BY <1>1, <1>3, <1>4, <1>5 DEF Owned, EinkOwns
<1>10. ShownOwns'
      BY <1>1, <1>3, <1>4, <1>5 DEF Owned, ShownOwns
<1> QED
    BY <1>6, <1>7, <1>8, <1>9, <1>10 DEF Owned

\* WorkerGUI::render: the worker hands its context to the message.
LEMMA WorkerRenderOwned ==
    ASSUME MailTypes, WorkerOK, Owned, WorkerRender
    PROVE  Owned'
<1> DEFINE m == Msg("RenderingFinished", Blank, worker.ctx, worker.mode)
<1>1. /\ worker.pc = "render" /\ mailbox' = Append(mailbox, m)
      /\ worker' = IdleWorker
      /\ UNCHANGED <<guiPc, displaying, einkMailbox, memory, locked>>
      BY DEF WorkerRender, Post, guiRest, eink
<1>2. worker.ctx \in Contexts /\ worker.mode \in 0 .. 2
      BY <1>1 DEF WorkerOK
<1>3. m \in Messages /\ m.kind = "RenderingFinished" /\ m.ctx = worker.ctx
      BY <1>2, Built, Constants DEF Msg
<1>4. \A c : ~Rendering(c)'
      BY <1>1 DEF Rendering, IdleWorker
<1>5. Rendering(worker.ctx)
      BY <1>1 DEF Rendering
<1> HIDE DEF m
<1>6. PICK n : /\ n \notin DOMAIN mailbox /\ n \in DOMAIN mailbox' /\ mailbox'[n] = m
               /\ \A i \in DOMAIN mailbox' :
                     i = n \/ (i \in DOMAIN mailbox /\ mailbox'[i] = mailbox[i])
               /\ \A i : Finished(i)' =>
                     \/ i = n /\ m.kind = "RenderingFinished"
                     \/ i # n /\ Finished(i) /\ mailbox'[i] = mailbox[i]
               /\ \A i : Shown(i)' =>
                     \/ i = n /\ m.kind = "ImageDisplayed"
                     \/ i # n /\ Shown(i) /\ mailbox'[i] = mailbox[i]
      BY <1>1, <1>3, PostFacts
<1>7. \A i : Shown(i)' => Shown(i) /\ i # n /\ mailbox'[i] = mailbox[i]
      BY <1>3, <1>6
<1>8. \A k : OnEink(k)' <=> OnEink(k)
      BY <1>1 DEF OnEink
<1>9. WorkerOwns' /\ NextIdle' /\ (memory # Torn)'
      BY <1>1, <1>4 DEF Owned, WorkerOwns, NextIdle, Rendering
<1>10. Quiet'
      BY <1>3, <1>6 DEF Owned, Quiet
<1>11. worker.ctx \in locked /\ \A i : Finished(i) => mailbox[i].ctx # worker.ctx
      BY <1>1, <1>5 DEF Owned, WorkerOwns, FinishedOwns
<1>12. FinishedOwns'
    <2>1. \A i : Finished(i)' => mailbox'[i].ctx \in locked /\ ~Rendering(mailbox[i].ctx)'
          BY <1>3, <1>4, <1>6, <1>11 DEF Owned, FinishedOwns
    <2>2. \A i, j : Finished(i)' /\ Finished(j)' /\ mailbox'[j].ctx = mailbox'[i].ctx => j = i
          BY <1>3, <1>6, <1>11 DEF Owned, FinishedOwns
    <2> QED
        BY <1>1, <2>1, <2>2 DEF FinishedOwns
<1>13. EinkOwns'
    <2>1. \A k : OnEink(k) => worker.ctx # einkMailbox[k].ctx /\ \A i : ~Shown(i)'
          BY <1>5, <1>7 DEF Owned, EinkOwns
    <2>2. \A k, i : OnEink(k) /\ Finished(i)' => mailbox'[i].ctx # einkMailbox[k].ctx
          BY <1>3, <1>6, <2>1 DEF Owned, EinkOwns
    <2>3. \A k : ~Rendering(einkMailbox[k].ctx)'
          BY <1>4
    <2> QED
        BY <1>1, <1>8, <2>1, <2>2, <2>3 DEF Owned, EinkOwns
<1>14. ShownOwns'
    <2>1. \A i : Shown(i) => worker.ctx # mailbox[i].ctx
          BY <1>5 DEF Owned, ShownOwns
    <2>2. \A i, j : Shown(i)' /\ Finished(j)' => mailbox'[j].ctx # mailbox'[i].ctx
          BY <1>3, <1>6, <1>7, <2>1 DEF Owned, ShownOwns
    <2>3. \A i : ~Rendering(mailbox[i].ctx)'
          BY <1>4
    <2> QED
        BY <1>1, <1>7, <2>2, <2>3 DEF Owned, ShownOwns
<1> QED
    BY <1>9, <1>10, <1>12, <1>13, <1>14 DEF Owned

\* A frame on its way goes from one message of the E Ink service to the next
\* (handleImageMessage) ...
LEMMA RefreshNext ==
    ASSUME MailTypes, Owned, NEW kind \in {"Image", "Refresh"}, EinkPops(kind),
           UNCHANGED <<mailbox, worker, locked, displaying, guiPc>>,
           NEW m \in Messages, m.ctx = einkMailbox[1].ctx, memory' # Torn,
           einkMailbox' = Append(Tail(einkMailbox), m)
    PROVE  Owned'
<1>1. OnEink(1) /\ Tail(einkMailbox) \in Seq(Messages)
      BY EinkPopFacts
<1>2. /\ DOMAIN einkMailbox = 1 .. Len(einkMailbox) /\ Len(einkMailbox) \in Nat
      /\ DOMAIN Tail(einkMailbox) = 1 .. (Len(einkMailbox) - 1)
      /\ \A i \in DOMAIN Tail(einkMailbox) :
            i + 1 \in DOMAIN einkMailbox /\ Tail(einkMailbox)[i] = einkMailbox[i + 1]
      BY TailFacts DEF MailTypes, EinkPops
<1>3. PICK n : n = Len(Tail(einkMailbox)) + 1
      OBVIOUS
<1>4. /\ einkMailbox'[n] = m
      /\ \A i \in DOMAIN Tail(einkMailbox) : einkMailbox'[i] = Tail(einkMailbox)[i]
      /\ \A i \in DOMAIN einkMailbox' : i \in DOMAIN Tail(einkMailbox) \/ i = n
      BY <1>1, <1>3, AppendFacts
<1>5. \A i \in DOMAIN Tail(einkMailbox) :
            einkMailbox[i + 1].kind \notin {"Image", "Refresh"}
    <2> SUFFICES ASSUME NEW i \in DOMAIN Tail(einkMailbox), OnEink(i + 1) PROVE FALSE
        BY <1>2 DEF OnEink
    <2>1. i + 1 = 1
          BY <1>1 DEF Owned, EinkOwns
    <2> QED
        BY <1>2, <2>1
<1>6. \A k : OnEink(k)' => k = n
      BY <1>2, <1>4, <1>5 DEF OnEink
<1>m. \A i : (Finished(i)' <=> Finished(i)) /\ (Shown(i)' <=> Shown(i))
      BY DEF Finished, Shown
<1>r. \A c : Rendering(c)' <=> Rendering(c)
      BY DEF Rendering
<1>7. Quiet' /\ WorkerOwns' /\ NextIdle' /\ (memory # Torn)'
      BY DEF Owned, Quiet, WorkerOwns, NextIdle
<1>8. FinishedOwns'
      BY <1>m, <1>r DEF Owned, FinishedOwns
<1>9. EinkOwns'
      BY <1>1, <1>4, <1>6, <1>m, <1>r DEF Owned, EinkOwns
<1>10. ShownOwns'
    <2>1. \A i : ~Shown(i)'
          BY <1>1, <1>m DEF Owned, EinkOwns
    <2> QED
        BY <2>1 DEF ShownOwns
<1> QED
    BY <1>7, <1>8, <1>9, <1>10 DEF Owned

\* ... and back to the GUI service (handleImageMessage, handleRefreshMessage).
LEMMA NotifyShown ==
    ASSUME MailTypes, Owned, NEW kind \in {"Image", "Refresh"}, EinkPops(kind),
           UNCHANGED <<worker, locked, displaying, guiPc>>, memory' # Torn,
           einkMailbox' = Tail(einkMailbox),
           NEW m \in Messages, m.ctx = einkMailbox[1].ctx, m.kind = "ImageDisplayed",
           mailbox' = Append(mailbox, m)
    PROVE  Owned'
<1>1. /\ OnEink(1)
      /\ \A k : OnEink(k)' => k + 1 # 1 /\ OnEink(k + 1)
      BY EinkPopFacts
<1>2. \A k : ~OnEink(k)'
      BY <1>1 DEF Owned, EinkOwns
<1>3. /\ displaying /\ m.ctx \in locked /\ ~Rendering(m.ctx)
      /\ \A i : ~Shown(i) /\ (Finished(i) => mailbox[i].ctx # m.ctx)
      BY <1>1 DEF Owned, EinkOwns
<1>4. PICK n : /\ n \notin DOMAIN mailbox /\ n \in DOMAIN mailbox' /\ mailbox'[n] = m
               /\ \A i \in DOMAIN mailbox' :
                     i = n \/ (i \in DOMAIN mailbox /\ mailbox'[i] = mailbox[i])
               /\ \A i : Finished(i)' =>
                     \/ i = n /\ m.kind = "RenderingFinished"
                     \/ i # n /\ Finished(i) /\ mailbox'[i] = mailbox[i]
               /\ \A i : Shown(i)' =>
                     \/ i = n /\ m.kind = "ImageDisplayed"
                     \/ i # n /\ Shown(i) /\ mailbox'[i] = mailbox[i]
      BY PostFacts
<1>5. /\ \A i : Shown(i)' => i = n
      /\ \A i : Finished(i)' => i # n /\ Finished(i) /\ mailbox'[i] = mailbox[i]
      BY <1>3, <1>4
<1>r. \A c : Rendering(c)' <=> Rendering(c)
      BY DEF Rendering
<1>6. Quiet' /\ WorkerOwns' /\ NextIdle' /\ (memory # Torn)'
      BY <1>4 DEF Owned, Quiet, WorkerOwns, NextIdle
<1>7. FinishedOwns'
      BY <1>5, <1>r DEF Owned, FinishedOwns
<1>8. EinkOwns'
      BY <1>2 DEF EinkOwns
<1>9. ShownOwns'
    <2>1. \A i : Shown(i)' => /\ displaying' /\ mailbox'[i].ctx \in locked'
                              /\ ~Rendering(mailbox[i].ctx)'
          BY <1>3, <1>4, <1>5, <1>r
    <2>2. \A i, j : Shown(i)' /\ Shown(j)' => j = i
          BY <1>5
    <2>3. \A i, j : Shown(i)' /\ Finished(j)' => mailbox'[j].ctx # mailbox'[i].ctx
        <3> SUFFICES ASSUME NEW i, NEW j, Shown(i)', Finished(j)'
                     PROVE  mailbox'[j].ctx # mailbox'[i].ctx
            OBVIOUS
        <3>1. mailbox'[i] = m
              BY <1>4, <1>5
        <3>2. Finished(j) /\ mailbox'[j] = mailbox[j]
              BY <1>5
        <3> QED
            BY <1>3, <3>1, <3>2
    <2> QED
        BY <2>1, <2>2, <2>3 DEF ShownOwns
<1> QED
    BY <1>6, <1>7, <1>8, <1>9 DEF Owned

\* handleImageMessage reads a context no one renders into.
LEMMA HandleImageOwned ==
    ASSUME MailTypes, WorkerOK, Owned, HandleImage
    PROVE  Owned'
<1> DEFINE m == Head(einkMailbox)
<1>1. EinkPops("Image") /\ OnEink(1) /\ m = einkMailbox[1]
      BY EinkPopFacts DEF HandleImage
<1>2. m.ctx \in Contexts /\ m.mode \in 0 .. 2
      BY <1>1, HeadContext
<1>3. content[m.ctx] # Torn
      BY <1>1, <1>2 DEF WorkerOK, Owned, EinkOwns
<1>4. memory' # Torn
    <2>1. memory' = content[m.ctx] \/ memory' = memory
          BY DEF HandleImage
    <2> QED
        BY <1>3, <2>1 DEF Owned
<1>5. UNCHANGED <<worker, locked, displaying, guiPc>>
      BY DEF HandleImage, guiRest, shared
<1>6. \/ /\ einkMailbox' = Append(Tail(einkMailbox), Msg("Refresh", Blank, m.ctx, m.mode))
         /\ UNCHANGED mailbox
      \/ /\ einkMailbox' = Tail(einkMailbox)
         /\ mailbox' = Append(mailbox, Msg("ImageDisplayed", Blank, m.ctx, NONE))
      BY DEF HandleImage, Post
<1> DEFINE r == Msg("Refresh", Blank, m.ctx, m.mode)
           s == Msg("ImageDisplayed", Blank, m.ctx, NONE)
<1>7. /\ r \in Messages /\ r.ctx = einkMailbox[1].ctx
      /\ s \in Messages /\ s.ctx = einkMailbox[1].ctx /\ s.kind = "ImageDisplayed"
      BY <1>1, <1>2, Built, Constants DEF Msg
<1>8. \/ einkMailbox' = Append(Tail(einkMailbox), r) /\ UNCHANGED mailbox
      \/ einkMailbox' = Tail(einkMailbox) /\ mailbox' = Append(mailbox, s)
      BY <1>6
<1> HIDE DEF r, s
<1>9. CASE einkMailbox' = Append(Tail(einkMailbox), r) /\ UNCHANGED mailbox
      BY <1>1, <1>4, <1>5, <1>7, <1>9, RefreshNext
<1>10. CASE einkMailbox' = Tail(einkMailbox) /\ mailbox' = Append(mailbox, s)
      BY <1>1, <1>4, <1>5, <1>7, <1>10, NotifyShown
<1> QED
    BY <1>8, <1>9, <1>10

\* The Refresh message of ServiceEink: the refreshed context is handed back to the GUI
\* service with ImageDisplayed.
LEMMA HandleRefreshOwned ==
    ASSUME MailTypes, Owned, HandleRefresh
    PROVE  Owned'
<1> DEFINE s == Msg("ImageDisplayed", Blank, Head(einkMailbox).ctx, NONE)
<1>1. EinkPops("Refresh") /\ Head(einkMailbox) = einkMailbox[1]
      BY EinkPopFacts DEF HandleRefresh
<1>2. Head(einkMailbox).ctx \in Contexts
      BY <1>1, HeadContext
<1>3. s \in Messages /\ s.ctx = einkMailbox[1].ctx /\ s.kind = "ImageDisplayed"
      BY <1>1, <1>2, Built, Constants DEF Msg
<1>4. /\ einkMailbox' = Tail(einkMailbox) /\ mailbox' = Append(mailbox, s)
      /\ UNCHANGED <<worker, locked, displaying, guiPc, memory>>
      BY DEF HandleRefresh, Post, guiRest, shared
<1> HIDE DEF s
<1>5. memory' # Torn
      BY <1>4 DEF Owned
<1> QED
    BY <1>1, <1>3, <1>4, <1>5, NotifyShown

\* A cancellation owns nothing (handleCancelRefreshMessage).
LEMMA HandleCancelOwned ==
    ASSUME MailTypes, Owned, HandleCancel
    PROVE  Owned'
<1>1. /\ einkMailbox' = Tail(einkMailbox)
      /\ UNCHANGED <<mailbox, worker, locked, displaying, guiPc, memory>>
      BY DEF HandleCancel, gui, shared
<1>2. \A k : OnEink(k)' => k \in Nat /\ OnEink(k + 1) /\ einkMailbox'[k] = einkMailbox[k + 1]
      BY <1>1, EinkPopFacts DEF HandleCancel
<1>i. \A i, j \in Nat : i + 1 = j + 1 => i = j
      OBVIOUS
<1>m. \A i : (Finished(i)' <=> Finished(i)) /\ (Shown(i)' <=> Shown(i))
      BY <1>1 DEF Finished, Shown
<1>r. \A c : Rendering(c)' <=> Rendering(c)
      BY <1>1 DEF Rendering
<1>3. Quiet' /\ WorkerOwns' /\ NextIdle' /\ (memory # Torn)'
      BY <1>1 DEF Owned, Quiet, WorkerOwns, NextIdle
<1>4. FinishedOwns'
      BY <1>1, <1>m, <1>r DEF Owned, FinishedOwns
<1>5. EinkOwns'
    <2>1. \A k : OnEink(k)' => /\ displaying' /\ einkMailbox'[k].ctx \in locked'
                               /\ ~Rendering(einkMailbox[k].ctx)'
          BY <1>1, <1>2, <1>r DEF Owned, EinkOwns
    <2>2. \A k, l : OnEink(k)' /\ OnEink(l)' => l = k
          BY <1>2, <1>i DEF Owned, EinkOwns
    <2>3. \A k, i : OnEink(k)' => /\ ~Shown(i)'
                                  /\ Finished(i)' => mailbox'[i].ctx # einkMailbox'[k].ctx
        <3> SUFFICES ASSUME NEW k, NEW i, OnEink(k)'
                     PROVE  ~Shown(i)' /\ (Finished(i)' => mailbox'[i].ctx # einkMailbox'[k].ctx)
            OBVIOUS
        <3>1. OnEink(k + 1) /\ einkMailbox'[k] = einkMailbox[k + 1]
              BY <1>2
        <3>2. ~Shown(i) /\ (Finished(i) => mailbox[i].ctx # einkMailbox[k + 1].ctx)
              BY <3>1 DEF Owned, EinkOwns
        <3> QED
            BY <1>1, <1>m, <3>1, <3>2
    <2> QED
        BY <2>1, <2>2, <2>3 DEF EinkOwns
<1>6. ShownOwns'
      BY <1>1, <1>m, <1>r DEF Owned, ShownOwns
<1> QED
    BY <1>3, <1>4, <1>5, <1>6 DEF Owned

\* The owners change with the steps above; every other step leaves them.
LEMMA OwnersStep ==
    ASSUME MailTypes, StateTypes, WorkerOK, Pool, Owners, [Next]_vars
    PROVE  Owners'
<1> SUFFICES ASSUME used'.timeouts = 0 PROVE Owned'
    BY DEF Owners
<1>1. ~TimerExpires /\ used.timeouts = 0
      BY UsedStep DEF StateTypes
<1>2. Owned
      BY <1>1 DEF Owners
<1>3. CASE UNCHANGED <<mailbox, worker, locked, displaying, guiPc, memory, einkMailbox>>
      BY <1>2, <1>3 DEF Owned, Quiet, WorkerOwns, FinishedOwns, EinkOwns, ShownOwns, NextIdle,
         Finished, Shown, OnEink, Rendering
<1>4. ASSUME NEW frame \in Frames, NEW mode \in RefreshModes, RequestDraw(frame, mode)
      PROVE  Owned'
    <2> DEFINE m == Msg("Draw", frame, 0, mode)
    <2>1. m \in Messages /\ m.kind \notin Carriers /\ m.kind # "Timeout"
        <3>1. m \in Messages
              BY <1>4, Built, Constants DEF RefreshModes
        <3>2. m.kind = "Draw"
              BY DEF Msg
        <3> QED
            BY <3>1, <3>2 DEF Carriers
    <2>2. /\ mailbox' = Append(mailbox, m)
          /\ UNCHANGED <<worker, locked, displaying, guiPc, memory, einkMailbox>>
          BY <1>4 DEF RequestDraw, Post, guiRest, shared, eink
    <2> HIDE DEF m
    <2> QED
        BY <1>2, <2>1, <2>2, PlainPost
<1>5. CASE RequestScheme
    <2> DEFINE m == Msg("ChangeColorScheme", Blank, 0, NONE)
    <2>1. m \in Messages /\ m.kind \notin Carriers /\ m.kind # "Timeout"
        <3>1. m \in Messages
              BY Built, Constants
        <3>2. m.kind = "ChangeColorScheme"
              BY DEF Msg
        <3> QED
            BY <3>1, <3>2 DEF Carriers
    <2>2. /\ mailbox' = Append(mailbox, m)
          /\ UNCHANGED <<worker, locked, displaying, guiPc, memory, einkMailbox>>
          BY <1>5 DEF RequestScheme, Post, guiRest, shared, eink
    <2> HIDE DEF m
    <2> QED
        BY <1>2, <2>1, <2>2, PlainPost
<1>6. CASE RequestClose
    <2> DEFINE m == Msg("CloseReason", Blank, 0, NONE)
    <2>1. m \in Messages /\ m.kind \notin Carriers /\ m.kind # "Timeout"
        <3>1. m \in Messages
              BY Built, Constants
        <3>2. m.kind = "CloseReason"
              BY DEF Msg
        <3> QED
            BY <3>1, <3>2 DEF Carriers
    <2>2. /\ mailbox' = Append(mailbox, m)
          /\ UNCHANGED <<worker, locked, displaying, guiPc, memory, einkMailbox>>
          BY <1>6 DEF RequestClose, Post, guiRest, shared, eink
    <2> HIDE DEF m
    <2> QED
        BY <1>2, <2>1, <2>2, PlainPost
<1>7. CASE HandleDraw \/ HandleScheme \/ ProcessCloseReason
    <2>1. UNCHANGED <<worker, locked, displaying, guiPc, memory, einkMailbox>>
          BY <1>7 DEF HandleDraw, HandleScheme, ProcessCloseReason, guiRest, shared, eink
    <2>2. Pops("Draw") \/ Pops("ChangeColorScheme") \/ Pops("CloseReason")
          BY <1>7 DEF HandleDraw, HandleScheme, ProcessCloseReason
    <2> QED
        BY <1>2, <2>1, <2>2, PlainPop
<1>8. CASE HandleTimeout
    <2>1. 1 \in DOMAIN mailbox /\ mailbox[1].kind = "Timeout"
          BY <1>8, PopFacts DEF HandleTimeout
    <2> QED
        BY <1>2, <2>1 DEF Owned, Quiet
<1>9. CASE WorkerSignal
    <2>1. /\ UNCHANGED <<mailbox, locked, displaying, guiPc, memory, einkMailbox>>
          /\ worker.pc = "idle" /\ (UNCHANGED worker \/ worker'.pc = "borrow")
          BY <1>9 DEF WorkerSignal, gui, eink
    <2>2. worker'.pc # "render"
          BY <2>1
    <2> QED
        BY <1>2, <2>1, <2>2 DEF Owned, Quiet, WorkerOwns, FinishedOwns, EinkOwns, ShownOwns,
           NextIdle, Finished, Shown, OnEink, Rendering
<1>10. CASE HandleFinishedIdle
      BY <1>2, <1>10, FinishedIdleOwned
<1>11. CASE HandleFinishedBusy
      BY <1>2, <1>11, FinishedBusyOwned
<1>12. CASE HandleImageDisplayed
      BY <1>2, <1>12, ImageDisplayedOwned
<1>13. CASE TrySendNextFrame
      BY <1>2, <1>13, TrySendOwned
<1>14. CASE WorkerBorrow
      BY <1>2, <1>14, WorkerBorrowOwned
<1>15. CASE WorkerRender
      BY <1>2, <1>15, WorkerRenderOwned
<1>16. CASE HandleImage
      BY <1>2, <1>16, HandleImageOwned
<1>17. CASE HandleRefresh
      BY <1>2, <1>17, HandleRefreshOwned
<1>18. CASE HandleCancel
      BY <1>2, <1>18, HandleCancelOwned
<1>19. CASE UNCHANGED vars
      BY <1>3, <1>19 DEF vars, gui, shared, eink
<1> QED
    BY <1>1, <1>4, <1>5, <1>6, <1>7, <1>8, <1>9, <1>10, <1>11, <1>12, <1>13, <1>14, <1>15,
       <1>16, <1>17, <1>18, <1>19 DEF Next, GuiStep, WorkerStep, EinkStep

-----------------------------------------------------------------------------
(***************************************************************************)
(* The invariant and what follows from it.                                 *)
(***************************************************************************)

\* At the start all contexts are free and blank, and no one has one.
LEMMA DisplayInit == Init => DisplayInv
<1> SUFFICES ASSUME Init PROVE DisplayInv
    OBVIOUS
<1>0. ContextsCount \in Nat /\ Torn # Blank
      BY DisplayAssumption
<1>1. MailTypes
      BY EmptySeq DEF Init, MailTypes
<1>2. StateTypes
    <2>1. timer \in Timers /\ ~timer.active /\ cache = NoRender
          BY <1>0 DEF Init, Timers
    <2>2. cache \in [ctx : 0 .. ContextsCount, mode : 0 .. 2]
          BY <1>0, <2>1 DEF NoRender, NONE
    <2>3. used \in [draws : Nat, schemes : Nat, timeouts : Nat, errors : Nat, closes : Nat]
          BY DEF Init
    <2> QED
        BY <2>1, <2>2, <2>3 DEF Init, StateTypes
<1>3. WorkerOK
    <2>1. worker \in [pc : {"idle", "borrow", "render"}, frame : Contents, mode : 0 .. 2,
                      ctx : 0 .. ContextsCount] /\ worker.pc = "idle"
          BY <1>0, Constants DEF Init, IdleWorker, NONE
    <2> QED
        BY <1>0, <2>1, Constants DEF Init, WorkerOK
<1>4. Pool
    <2>1. free = [i \in 1 .. ContextsCount |-> i] /\ locked = {}
          BY DEF Init, Contexts
    <2>2. free \in Seq(Contexts) /\ DOMAIN free = Contexts
          BY <1>0, <2>1 DEF Contexts
    <2>3. Distinct(free) /\ Elems(free) = Contexts
          BY <2>1, <2>2 DEF Distinct, Elems, Contexts
    <2> QED
        BY <2>1, <2>2, <2>3 DEF Pool
<1>5. Owners
    <2>1. mailbox = <<>> /\ einkMailbox = <<>> /\ worker.pc = "idle" /\ guiPc = "loop"
          /\ memory # Torn
          BY <1>0 DEF Init, IdleWorker
    <2>2. \A i : ~Finished(i) /\ ~Shown(i) /\ ~OnEink(i)
          BY <2>1 DEF Finished, Shown, OnEink
    <2>3. Quiet /\ WorkerOwns /\ NextIdle
          BY <2>1 DEF Quiet, WorkerOwns, NextIdle
    <2> QED
        BY <2>1, <2>2, <2>3 DEF Owners, Owned, FinishedOwns, EinkOwns, ShownOwns
<1> QED
    BY <1>1, <1>2, <1>3, <1>4, <1>5 DEF DisplayInv

\* DisplayInv holds in every reachable state.
LEMMA DisplayInductive == Spec => []DisplayInv
<1>1. DisplayInv /\ [Next]_vars => DisplayInv'
      BY MailTypesStep, StateTypesStep, WorkerOKStep, PoolStep, OwnersStep DEF DisplayInv
<1> QED
    BY <1>1, DisplayInit, PTL DEF Spec

\* A sequence without repetitions is as long as its set of elements is large
\* (the contexts of ContextPool).
LEMMA LenIsCardinality ==
    ASSUME NEW S, NEW s \in Seq(S), Distinct(s)
    PROVE  Len(s) = Cardinality(Elems(s))
<1>1. DOMAIN s = 1 .. Len(s) /\ Len(s) \in Nat
      OBVIOUS
<1>2. IsFiniteSet(1 .. Len(s)) /\ Cardinality(1 .. Len(s)) = Len(s)
    <2>1. Cardinality(1 .. Len(s)) = IF 1 > Len(s) THEN 0 ELSE Len(s) - 1 + 1
          BY <1>1, FS_Interval
    <2> QED
        BY <1>1, <2>1, FS_Interval
<1> DEFINE f == [i \in 1 .. Len(s) |-> s[i]]
<1>3. f \in Bijection(1 .. Len(s), Elems(s))
    <2>1. f \in [1 .. Len(s) -> Elems(s)]
          BY <1>1 DEF Elems
    <2>2. \A i, j \in 1 .. Len(s) : f[i] = f[j] => i = j
          BY <1>1 DEF Distinct
    <2>3. \A c \in Elems(s) : \E i \in 1 .. Len(s) : f[i] = c
          BY <1>1 DEF Elems
    <2> HIDE DEF f
    <2> QED
        BY <2>1, <2>2, <2>3 DEF Bijection, Injection, Surjection, IsInjective
<1>4. ExistsBijection(1 .. Len(s), Elems(s))
      BY <1>3 DEF ExistsBijection
<1> QED
    BY <1>2, <1>4, FS_Bijection

\* PoolConsistent: ContextPool loses no context and hands out none twice, for
\* a pool of any size, also when the release timer and the late notification
\* both return one; until the timer strikes, what the worker renders into and
\* what the E Ink service has still to read is locked.
THEOREM PoolSafe == Spec => []PoolConsistent
<1>1. DisplayInv => PoolConsistent
    <2> SUFFICES ASSUME DisplayInv PROVE PoolConsistent
        OBVIOUS
    <2>1. /\ Elems(free) \cup locked = Contexts
          /\ Elems(free) \cap locked = {}
          /\ Len(free) = Cardinality(Elems(free))
          BY LenIsCardinality DEF DisplayInv, Pool
    <2>2. ASSUME used.timeouts = 0
          PROVE  /\ worker.pc = "render" => worker.ctx \in locked
                 /\ \A i \in DOMAIN einkMailbox :
                       einkMailbox[i].kind = "Image" => einkMailbox[i].ctx \in locked
          BY <2>2 DEF DisplayInv, Owners, Owned, WorkerOwns, EinkOwns, OnEink
    <2> QED
        BY <2>1, <2>2 DEF PoolConsistent
<1> QED
    BY <1>1, DisplayInductive, PTL

\* NoTornFrame: the E Ink service never reads a context the worker is
\* rendering into before the release timer has taken one back
\* (ServiceGUI, WorkerGUI::render, ServiceEink::handleImageMessage).
THEOREM NeverTorn == Spec => []NoTornFrame
<1>1. DisplayInv => NoTornFrame
      BY DEF DisplayInv, Owners, Owned, NoTornFrame
<1> QED
    BY <1>1, DisplayInductive, PTL
=============================================================================
