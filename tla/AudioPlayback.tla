--------------------------- MODULE AudioPlayback ---------------------------
(***************************************************************************)
(* Playing a file: the audio service's thread with its PlaybackOperation,  *)
(* the task of DecoderWorker which fills the stream, and the interrupt of  *)
(* the SAI device which sends the stream's blocks by DMA, straight from    *)
(* the buffer.                                                             *)
(*                                                                         *)
(*   module-audio/Audio/Operation/PlaybackOperation.cpp, Endpoint.cpp      *)
(*   module-audio/Audio/decoder/DecoderWorker.cpp, Decoder.cpp             *)
(*   module-audio/Audio/StreamQueuedEventsListener.cpp                     *)
(*   module-audio/board/rt1051/SAIAudioDevice.cpp                          *)
(*                                                                         *)
(* The task takes events of the stream and commands of the service from    *)
(* one queue set, in the order in which they came (see Worker).            *)
(***************************************************************************)
EXTENDS AudioStream, FiniteSets

CONSTANTS EventCapacity,   \* DecoderWorker::listenerQueueCapacity
          MaxOperations    \* bound: calls of the service

ASSUME AudioPlaybackAssumption ==
    /\ EventCapacity \in Nat \ {0}
    /\ MaxOperations \in Nat

VARIABLES state,            \* Operation::state
          owner,            \* the service's thread: "loop", or what it waits in
          connected,        \* outputConnection exists
          enabled,          \* StreamConnection::enabled
          items,            \* the queue set of the worker
          worker,           \* the task: "none", "select", "push", "stuck"
          playbackEnabled,  \* DecoderWorker::playbackEnabled
          stateSemaphore,   \* DecoderWorker::stateSemaphore
          txEnabled,        \* SAIAudioDevice::txEnabled
          dma,              \* transfers queued in the DMA engine, oldest first
          overtaken,        \* history: a transfer was started besides another
          operations        \* calls so far

vars == <<stream, count, sent, state, owner, connected, enabled, items, worker,
          playbackEnabled, stateSemaphore, txEnabled, dma, overtaken, operations>>

Events == {"StreamHalfUsed", "StreamEmpty", "StreamFull", "StreamUnderFlow"}
Commands == {"EnablePlayback", "DisablePlayback"}

\* A transfer: the position it reads and the block that was there when it
\* was queued.  Null spans read _emptyBuffer.
NullSpan == [position |-> BlockCount, block |-> Silence]
Spans == [position : 0..BlockCount, block : Blocks \cup {Silence}]

QueuedEvents(q) == Cardinality({i \in DOMAIN q : q[i] \in Events})

TypeOK ==
    /\ stream \in Streams
    /\ count \in 0..MaxBlocks
    /\ sent \in Seq(Blocks)
    /\ state \in {"Idle", "Active", "Paused"}
    /\ owner \in {"loop", "enable", "pause", "stop", "switch", "restart"}
    /\ connected \in BOOLEAN /\ enabled \in BOOLEAN
    /\ items \in Seq(Events \cup Commands)
    /\ QueuedEvents(items) <= EventCapacity
    /\ worker \in {"none", "select", "push", "stuck"}
    /\ playbackEnabled \in BOOLEAN /\ stateSemaphore \in BOOLEAN
    /\ txEnabled \in BOOLEAN
    /\ dma \in Seq(Spans)
    /\ overtaken \in BOOLEAN
    /\ operations \in 0..MaxOperations

Init ==
    /\ stream = NewStream
    /\ count = 0
    /\ sent = <<>>
    /\ state = "Idle"
    /\ owner = "loop"
    /\ connected = FALSE
    /\ enabled = FALSE
    /\ items = <<>>
    /\ worker = "none"
    /\ playbackEnabled = FALSE
    /\ stateSemaphore = FALSE
    /\ txEnabled = FALSE
    /\ dma = <<>>
    /\ overtaken = FALSE
    /\ operations = 0

operation == <<state, owner, connected, enabled, operations>>
task == <<worker, playbackEnabled, stateSemaphore>>
device == <<txEnabled, dma, overtaken>>

-----------------------------------------------------------------------------
(***************************************************************************)
(* The interrupt at the end of a transfer.                                 *)
(***************************************************************************)

\* EnqueueFromISR drops what does not fit.
EnqueueFromISR(events) ==
    LET room == EventCapacity - QueuedEvents(items)
    IN items \o SubSeq(events, 1, IF room < Len(events) THEN room ELSE Len(events))

UnderFlow(s) == IF CanPeek(s) THEN <<>> ELSE <<"StreamUnderFlow">>

SpanOf(s) ==
    IF CanPeek(s)
    THEN [position |-> s.peekPosition, block |-> s.buffer[s.peekPosition]]
    ELSE NullSpan

\* SAI_TransferSendEDMA takes up to SAI_XFER_QUEUE_SIZE transfers.
SAI_XFER_QUEUE_SIZE == 4
Send(queue, span) ==
    IF Len(queue) < SAI_XFER_QUEUE_SIZE THEN Append(queue, span) ELSE queue

\* Planted defect: the next block is peeked before the last one is consumed.
onDataSend_PeekFirst ==
    /\ dma # <<>>
    /\ txEnabled
    /\ connected
    /\ LET s == Peek(stream)
       IN /\ stream' = Consume(s)
          /\ items' = EnqueueFromISR(UnderFlow(stream) \o StateEvents(s))
          /\ dma' = Send(Tail(dma), SpanOf(stream))
          /\ sent' = IF CanPeek(stream) THEN Append(sent, SpanOf(stream).block)
                     ELSE sent
    /\ UNCHANGED <<count, operation, task, txEnabled, overtaken>>

\* Planted defect: consume tells the listeners nothing.
onDataSend_Silent ==
    /\ dma # <<>>
    /\ txEnabled
    /\ connected
    /\ LET s == Consume(stream)
       IN /\ stream' = Peek(s)
          /\ items' = EnqueueFromISR(UnderFlow(s))
          /\ dma' = Send(Tail(dma), SpanOf(s))
          /\ sent' = IF CanPeek(s) THEN Append(sent, SpanOf(s).block) ELSE sent
    /\ UNCHANGED <<count, operation, task, txEnabled, overtaken>>

\* "pop previous read and peek next"
onDataSend ==
    /\ dma # <<>>
    /\ txEnabled
    /\ connected
    /\ LET s == Consume(stream)
       IN /\ stream' = Peek(s)
          /\ items' = EnqueueFromISR(StateEvents(s) \o UnderFlow(s))
          /\ dma' = Send(Tail(dma), SpanOf(s))
          /\ sent' = IF CanPeek(s) THEN Append(sent, SpanOf(s).block) ELSE sent
    /\ UNCHANGED <<count, operation, task, txEnabled, overtaken>>

\* The early return: the chain of transfers ends.
onDataSendDisabled ==
    /\ dma # <<>>
    /\ ~(txEnabled /\ connected)
    /\ dma' = Tail(dma)
    /\ UNCHANGED <<stream, count, sent, operation, items, task, txEnabled,
                   overtaken>>

-----------------------------------------------------------------------------
(***************************************************************************)
(* DecoderWorker.                                                          *)
(***************************************************************************)

HandleEvent ==
    /\ worker = "select"
    /\ items # <<>>
    /\ Head(items) \in Events
    /\ items' = Tail(items)
    /\ worker' = IF Head(items) \in {"StreamHalfUsed", "StreamEmpty"}
                 THEN "push" ELSE "select"
    /\ UNCHANGED <<stream, count, sent, operation, playbackEnabled,
                   stateSemaphore, device>>

\* Planted defect: the service is told only when playback is enabled.
HandleCommand_NoGive ==
    /\ worker = "select"
    /\ items # <<>>
    /\ Head(items) \in Commands
    /\ items' = Tail(items)
    /\ playbackEnabled' = (Head(items) = "EnablePlayback")
    /\ stateSemaphore' = (stateSemaphore \/ playbackEnabled')
    /\ worker' = IF playbackEnabled' THEN "push" ELSE "select"
    /\ UNCHANGED <<stream, count, sent, operation, device>>

HandleCommand ==
    /\ worker = "select"
    /\ items # <<>>
    /\ Head(items) \in Commands
    /\ items' = Tail(items)
    /\ playbackEnabled' = (Head(items) = "EnablePlayback")
    /\ stateSemaphore' = TRUE
    /\ worker' = IF playbackEnabled' THEN "push" ELSE "select"
    /\ UNCHANGED <<stream, count, sent, operation, device>>

\* One round of the loop of pushAudioData.  The task enqueues the events of
\* its own push and waits when the queue is full; it is the only one that
\* takes from the queue, so it waits for ever.
PushBlock ==
    /\ worker = "push"
    /\ playbackEnabled
    /\ ~isFull(stream)
    /\ count < MaxBlocks
    /\ CanPush(stream)
    /\ count' = count + 1
    /\ stream' = Push(stream, count + 1)
    /\ LET events == StateEvents(stream')
       IN IF QueuedEvents(items) + Len(events) <= EventCapacity
          THEN items' = items \o events /\ UNCHANGED worker
          ELSE worker' = "stuck" /\ UNCHANGED items
    /\ UNCHANGED <<sent, operation, playbackEnabled, stateSemaphore, device>>

\* The stream is full or playback disabled.
PushEnd ==
    /\ worker = "push"
    /\ isFull(stream) \/ ~playbackEnabled
    /\ worker' = "select"
    /\ UNCHANGED <<stream, count, sent, operation, items, playbackEnabled,
                   stateSemaphore, device>>

\* endOfFileCallback and fileDeletedCallback: the operation becomes idle and
\* the service gets a message, on which it stops the operation.
EndOfFile ==
    /\ worker = "push"
    /\ playbackEnabled
    /\ ~isFull(stream)
    /\ count = MaxBlocks
    /\ state' = "Idle"
    /\ worker' = "select"
    /\ UNCHANGED <<stream, count, sent, owner, connected, enabled, operations,
                   items, playbackEnabled, stateSemaphore, device>>

-----------------------------------------------------------------------------
(***************************************************************************)
(* PlaybackOperation, in the service's thread.                             *)
(***************************************************************************)

Call ==
    /\ owner = "loop"
    /\ operations < MaxOperations
    /\ operations' = operations + 1

\* StreamConnection::enable up to the wait for the worker.  The stream is
\* reset and empty, so the first transfer sends silence.
EnableConnection(queue) ==
    /\ stream' = Reset(stream)
    /\ sent' = <<>>
    /\ txEnabled' = TRUE
    /\ dma' = Send(queue, NullSpan)
    /\ owner' = "enable"

\* Start makes a new stream, worker and connection.
Start ==
    /\ ~connected
    /\ connected' = TRUE
    /\ worker' = "select"
    /\ playbackEnabled' = FALSE
    /\ stateSemaphore' = FALSE
    /\ items' = <<"StreamUnderFlow", "EnablePlayback">>
    /\ EnableConnection(dma)
    /\ overtaken' = (dma # <<>>)
    /\ UNCHANGED <<count, enabled>>

CallStart ==
    /\ Call
    /\ state = "Idle"
    /\ Start
    /\ UNCHANGED state

\* Resume, with the connection or, after a change of profile, without it.
CallResume ==
    /\ Call
    /\ state = "Paused"
    /\ \/ Start /\ UNCHANGED state
       \/ /\ connected
          /\ state' = "Active"
          /\ QueuedEvents(items) < EventCapacity
          /\ items' = items \o <<"StreamUnderFlow", "EnablePlayback">>
          /\ EnableConnection(dma)
          /\ overtaken' = (dma # <<>>)
          /\ UNCHANGED <<count, connected, enabled, task>>

\* The worker has answered: the connection is enabled.
Enabled ==
    /\ owner = "enable"
    /\ stateSemaphore
    /\ stateSemaphore' = FALSE
    /\ enabled' = TRUE
    /\ state' = "Active"
    /\ owner' = "loop"
    /\ UNCHANGED <<stream, count, sent, connected, operations, items, worker,
                   playbackEnabled, device>>

\* StreamConnection::disable up to the wait.
DisableConnection(next) ==
    /\ items' = Append(items, "DisablePlayback")
    /\ owner' = next

CallPause ==
    /\ Call
    /\ state = "Active"
    /\ connected
    /\ enabled
    /\ state' = "Paused"
    /\ DisableConnection("pause")
    /\ UNCHANGED <<stream, count, sent, connected, enabled, task, device>>

Paused ==
    /\ owner = "pause"
    /\ stateSemaphore
    /\ stateSemaphore' = FALSE
    /\ txEnabled' = FALSE
    /\ stream' = Reset(stream)
    /\ sent' = <<>>
    /\ enabled' = FALSE
    /\ owner' = "loop"
    /\ UNCHANGED <<count, state, connected, operations, items, worker,
                   playbackEnabled, dma, overtaken>>

\* The connection is destroyed, the worker closed, the stream freed and the
\* device stopped, which ends its transfers.
Shutdown ==
    /\ connected' = FALSE
    /\ enabled' = FALSE
    /\ worker' = "none"
    /\ items' = <<>>
    /\ playbackEnabled' = FALSE
    /\ stateSemaphore' = FALSE
    /\ txEnabled' = FALSE
    /\ stream' = NewStream
    /\ sent' = <<>>
    /\ dma' = <<>>
    /\ overtaken' = FALSE

CallStop ==
    /\ Call
    /\ connected
    /\ state' = "Idle"
    /\ \/ /\ enabled
          /\ DisableConnection("stop")
          /\ UNCHANGED <<stream, count, sent, connected, enabled, task, device>>
       \/ ~enabled /\ Shutdown /\ UNCHANGED <<count, owner>>

\* SwitchProfile: as Stop, with a new device and the state kept.  It is called
\* with another profile that exists, and the new device can be made and takes
\* the format: the returns before, which change nothing, and the failures after
\* the old device is gone are left out.
CallSwitchProfile ==
    /\ Call
    /\ connected
    /\ \/ /\ enabled
          /\ DisableConnection("switch")
          /\ UNCHANGED <<stream, count, sent, state, connected, enabled, task,
                         device>>
       \/ ~enabled /\ Shutdown /\ UNCHANGED <<count, state, owner>>

Stopped ==
    /\ owner \in {"stop", "switch"}
    /\ stateSemaphore
    /\ Shutdown
    /\ owner' = IF owner = "switch" /\ state = "Active" THEN "restart" ELSE "loop"
    /\ UNCHANGED <<count, state, operations>>

\* The end of SwitchProfile: a playback in progress starts again.
Restart ==
    /\ owner = "restart"
    /\ Start
    /\ UNCHANGED <<state, operations>>

WorkerStep ==
    HandleEvent \/ HandleCommand \/ PushBlock \/ PushEnd \/ EndOfFile
OwnerStep == Enabled \/ Paused \/ Stopped \/ Restart
DeviceStep == onDataSend \/ onDataSendDisabled

Next ==
    \/ WorkerStep
    \/ OwnerStep
    \/ DeviceStep
    \/ CallStart \/ CallResume \/ CallPause \/ CallStop \/ CallSwitchProfile

Spec == Init /\ [][Next]_vars

\* Threads are scheduled and the DMA engine completes its transfers.
FairSpec ==
    Spec /\ WF_vars(WorkerStep) /\ WF_vars(OwnerStep) /\ WF_vars(DeviceStep)

-----------------------------------------------------------------------------
(***************************************************************************)
(* Properties.                                                             *)
(***************************************************************************)

\* A block that is being sent or waits for it is not overwritten by the
\* decoder, as long as there is one chain of transfers: onDataSend pops the
\* "previous read" only.
NoTornBlock ==
    ~overtaken => \A i \in 1..Len(dma) :
        dma[i] # NullSpan => stream.buffer[dma[i].position] = dma[i].block

\* A sink that runs dry gets data again, unless playback ends or the task
\* has locked itself out (PushBlock).
KeepsPlaying ==
    (isEmpty(stream) /\ txEnabled /\ playbackEnabled) ~>
        (~isEmpty(stream) \/ ~playbackEnabled \/ count = MaxBlocks
           \/ worker = "stuck")

\* Start, Pause, Resume, Stop and SwitchProfile return, although each waits
\* without a time limit for the worker, unless the task has locked itself
\* out.
CallsReturn == (owner # "loop") ~> (owner = "loop" \/ worker = "stuck")
=============================================================================
