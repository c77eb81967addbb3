---------------------------- MODULE AudioStream ----------------------------
(***************************************************************************)
(* The ring buffer of an audio stream (module-audio/Audio/Stream.cpp).     *)
(* Every operation runs in one critical section, so each is a function     *)
(* from the stream to the stream; what an operation tells the caller and   *)
(* the listeners are functions too.  The source of this stream pushes      *)
(* blocks, so reserve and commit, by which a recording device writes, are  *)
(* left out.                                                               *)
(***************************************************************************)
EXTENDS Naturals, Sequences

CONSTANTS BlockCount,   \* Stream::_blockCount
          SizeT,        \* number of values of std::size_t
          MaxBlocks     \* bound: blocks of data

ASSUME AudioStreamAssumption ==
    /\ BlockCount \in Nat \ {0}
    /\ SizeT \in Nat
    /\ SizeT > 2 * BlockCount
    /\ MaxBlocks \in Nat

VARIABLES stream,       \* the stream
          count,        \* blocks decoded so far
          sent          \* history: the blocks of this connection the sink saw

Silence == 0            \* _emptyBuffer, and a block nobody wrote
Blocks == 1..MaxBlocks
Positions == 0..(BlockCount - 1)

\* RawBlockIterator::operator++.
Step(p) == (p + 1) % BlockCount

NewStream ==
    [buffer |-> [p \in Positions |-> Silence],
     dataStart |-> 0, dataEnd |-> 0,
     peekPosition |-> 0, writeReservationPosition |-> 0,
     blocksUsed |-> 0, peekCount |-> 0, reserveCount |-> 0]

Streams ==
    [buffer : [Positions -> Blocks \cup {Silence}],
     dataStart : Positions, dataEnd : Positions,
     peekPosition : Positions, writeReservationPosition : Positions,
     blocksUsed : 0..(SizeT - 1), peekCount : 0..(SizeT - 1),
     reserveCount : 0..(SizeT - 1)]

isEmpty(s) == s.blocksUsed = 0
isFull(s) == s.blocksUsed = BlockCount

\* broadcastStateEvents, as the sequence of events sent.
StateEvents(s) ==
    CASE s.blocksUsed = BlockCount \div 2 -> <<"StreamHalfUsed">>
      [] s.blocksUsed # BlockCount \div 2 /\ isEmpty(s) -> <<"StreamEmpty">>
      [] s.blocksUsed # BlockCount \div 2 /\ isFull(s) -> <<"StreamFull">>
      [] OTHER -> <<>>

-----------------------------------------------------------------------------
CanPush(s) == s.dataEnd = s.writeReservationPosition /\ ~isFull(s)

Push(s, b) ==
    [s EXCEPT !.buffer[s.dataEnd] = b,
              !.dataEnd = Step(s.dataEnd),
              !.blocksUsed = @ + 1,
              !.writeReservationPosition = Step(s.dataEnd)]

\* Planted defect: the position of the data is not moved.
Consume_KeepStart(s) ==
    [s EXCEPT !.blocksUsed = (@ + SizeT - s.peekCount) % SizeT,
              !.peekCount = 0]

Consume(s) ==
    [s EXCEPT !.blocksUsed = (@ + SizeT - s.peekCount) % SizeT,
              !.peekCount = 0,
              !.dataStart = s.peekPosition]

CanPeek(s) == s.peekCount < s.blocksUsed

\* Without a block to show peek leaves the stream alone.
Peek(s) ==
    IF CanPeek(s)
    THEN [s EXCEPT !.peekPosition = Step(@), !.peekCount = @ + 1]
    ELSE s

\* reset moves the positions; the data stays in the buffer.
Reset(s) == [NewStream EXCEPT !.buffer = s.buffer]

-----------------------------------------------------------------------------
(***************************************************************************)
(* Properties.                                                             *)
(***************************************************************************)

\* The abstract queue: the used blocks in their order.
Queue == INSTANCE BlockQueue WITH
    Capacity <- BlockCount,
    data     <- [i \in 1..stream.blocksUsed |->
                   stream.buffer[(stream.dataStart + i - 1) % BlockCount]],
    peeked   <- stream.peekCount,
    out      <- sent

\* "The data is stored in blocks and accessed just like in a regular FIFO"
\* (AbstractStream.hpp): every operation of the stream is one of the queue.
IsFifo == Queue!Spec
=============================================================================
