------------------------- MODULE AudioPlaybackProofs -------------------------
(***************************************************************************)
(* The ring buffer of an audio stream is a queue, and the decoder does not *)
(* overwrite the block that is being sent, for any number of blocks in the *)
(* buffer, any length of the event queue, any file and any sequence of     *)
(* Start, Pause, Resume, Stop and SwitchProfile.                           *)
(***************************************************************************)
EXTENDS AudioPlayback, FiniteSetTheorems, SequenceTheorems, TLAPS

-----------------------------------------------------------------------------
(***************************************************************************)
(* The parts of the inductive invariant.                                   *)
(***************************************************************************)

Data == Blocks \cup {Silence}

\* The positions follow from the first one and the counts, and the reader
\* has seen one block at most: onDataSend gives one back before it looks at
\* the next.
RingOf(s) ==
    /\ s \in Streams
    /\ s.blocksUsed <= BlockCount
    /\ s.peekCount <= s.blocksUsed /\ s.peekCount <= 1
    /\ s.dataEnd = (s.dataStart + s.blocksUsed) % BlockCount
    /\ s.writeReservationPosition = s.dataEnd
    /\ s.peekPosition = (s.dataStart + s.peekCount) % BlockCount
Ring == RingOf(stream)

Items == Events \cup Commands
Types ==
    /\ count \in 0..MaxBlocks
    /\ sent \in Seq(Data)
    /\ owner \in {"loop", "enable", "pause", "stop", "switch", "restart"}
    /\ playbackEnabled \in BOOLEAN /\ stateSemaphore \in BOOLEAN
    /\ items \in Seq(Items)
    /\ dma \in Seq(Spans)

\* The commands of the service that the task has not yet seen.
NoCommand == \A i \in DOMAIN items : items[i] \in Events
OneCommand(c) ==
    \E i \in DOMAIN items : /\ items[i] = c
                            /\ \A j \in DOMAIN items : j # i => items[j] \in Events

\* The service sends a command and waits for the task: the semaphore stands
\* for the command it waits for and for no other.
Handshake ==
    CASE owner \in {"loop", "restart"} -> NoCommand /\ ~stateSemaphore
      [] owner = "enable" ->
            \/ OneCommand("EnablePlayback") /\ ~stateSemaphore
            \/ NoCommand /\ stateSemaphore
      [] OTHER ->
            \/ OneCommand("DisablePlayback") /\ ~stateSemaphore
            \/ NoCommand /\ stateSemaphore /\ ~playbackEnabled

\* The decoder writes nothing until it is told to.
NoEnable == \A i \in DOMAIN items : items[i] # "EnablePlayback"
Silent == ~playbackEnabled /\ NoEnable

\* The block of the only transfer is in the buffer, and is the one the reader
\* has seen or the decoder writes nothing.
Transfer ==
    \/ dma = <<>>
    \/ /\ Len(dma) = 1
       /\ \/ dma[1] = NullSpan
          \/ /\ dma[1].position \in Positions
             /\ stream.buffer[dma[1].position] = dma[1].block
             /\ \/ stream.peekCount = 1 /\ dma[1].position = stream.dataStart
                \/ Silent

PlaybackInv == Ring /\ Types /\ Handshake /\ (~overtaken => Transfer)

-----------------------------------------------------------------------------
(***************************************************************************)
(* The ring buffer.                                                        *)
(***************************************************************************)

\* A position goes once round the buffer at most.
LEMMA Wrap ==
    ASSUME NEW n \in Nat \ {0}, NEW a \in Nat, a < 2 * n
    PROVE  /\ a < n => a % n = a
           /\ a >= n => a % n = a - n
           /\ a % n \in 0 .. (n - 1)
OBVIOUS

\* The blocks in use, in their order.
DataOf(s) ==
    [i \in 1..s.blocksUsed |->
        s.buffer[(s.dataStart + i - 1) % BlockCount]]

\* What the fields of a stream range over.
LEMMA Fields ==
    ASSUME NEW s \in Streams
    PROVE  /\ s.buffer \in [Positions -> Data]
           /\ s.dataStart \in Positions /\ s.dataEnd \in Positions
           /\ s.peekPosition \in Positions
           /\ s.writeReservationPosition \in Positions
           /\ s.blocksUsed \in 0..(SizeT - 1) /\ s.peekCount \in 0..(SizeT - 1)
           /\ s.reserveCount \in 0..(SizeT - 1)
           /\ s.blocksUsed \in Nat /\ s.peekCount \in Nat
BY AudioStreamAssumption DEF Streams, Data

\* The blocks in use are a sequence as long as blocksUsed says.
LEMMA DataIsSeq ==
    ASSUME NEW s \in Streams, s.blocksUsed <= BlockCount
    PROVE  /\ DataOf(s) \in Seq(Data)
           /\ Len(DataOf(s)) = s.blocksUsed
           /\ DOMAIN DataOf(s) = 1 .. s.blocksUsed
           /\ \A i \in 1 .. s.blocksUsed :
                 /\ DataOf(s)[i] = s.buffer[(s.dataStart + i - 1) % BlockCount]
                 /\ DataOf(s)[i] \in Data
<1>1. /\ s.buffer \in [Positions -> Data]
      /\ s.dataStart \in Positions /\ s.blocksUsed \in Nat
      BY Fields
<1>2. BlockCount \in Nat \ {0}
      BY AudioStreamAssumption
<1>3. ASSUME NEW i \in 1 .. s.blocksUsed
      PROVE  (s.dataStart + i - 1) % BlockCount \in Positions
    <2>1. /\ s.dataStart + i - 1 \in Nat
          /\ s.dataStart + i - 1 < 2 * BlockCount
          BY <1>1, <1>2 DEF Positions
    <2> QED
        BY <1>2, <2>1, Wrap DEF Positions
<1>4. DataOf(s) \in [1 .. s.blocksUsed -> Data]
      BY <1>1, <1>3 DEF DataOf
<1>5. DataOf(s) \in Seq(Data) /\ Len(DataOf(s)) = s.blocksUsed
      BY <1>1, <1>4
<1> QED
    BY <1>3, <1>4, <1>5 DEF DataOf

\* push: the block goes behind the others, and not over one the reader sees.
LEMMA PushFacts ==
    ASSUME NEW s, RingOf(s), CanPush(s), NEW b \in Blocks, NEW n, n = Push(s, b)
    PROVE  /\ RingOf(n)
           /\ s.blocksUsed < BlockCount
           /\ DataOf(n) = Append(DataOf(s), b)
           /\ n.peekCount = s.peekCount
           /\ n.dataStart = s.dataStart
           /\ \A p \in Positions : p # s.dataEnd => n.buffer[p] = s.buffer[p]
           /\ s.peekCount = 1 => s.dataEnd # s.dataStart
<1>1. /\ s.buffer \in [Positions -> Data]
      /\ s.dataStart \in Positions /\ s.dataEnd \in Positions
      /\ s.peekPosition \in Positions
      /\ s.blocksUsed \in Nat /\ s.peekCount \in Nat
      BY Fields DEF RingOf
<1>2. BlockCount \in Nat \ {0} /\ SizeT \in Nat /\ SizeT > 2 * BlockCount
      BY AudioStreamAssumption
<1>3. /\ n.buffer = [s.buffer EXCEPT ![s.dataEnd] = b]
      /\ n.dataEnd = Step(s.dataEnd)
      /\ n.writeReservationPosition = Step(s.dataEnd)
      /\ n.blocksUsed = s.blocksUsed + 1
      /\ n.peekCount = s.peekCount
      /\ n.peekPosition = s.peekPosition
      /\ n.dataStart = s.dataStart
      /\ n.reserveCount = s.reserveCount
      BY DEF Push, RingOf, Streams
<1>4. s.blocksUsed < BlockCount
      BY <1>1, <1>2 DEF CanPush, isFull, RingOf
<1>5. PICK d \in Nat, u \in Nat, e \in Nat :
          d = s.dataStart /\ u = s.blocksUsed /\ e = s.dataEnd
      BY <1>1 DEF Positions
<1>6. d < BlockCount /\ u < BlockCount /\ e < BlockCount /\ e = (d + u) % BlockCount
      BY <1>1, <1>2, <1>4, <1>5 DEF Positions, RingOf
<1>7. \E a \in Nat : /\ a = d + u
                     /\ a < BlockCount => e = a
                     /\ a >= BlockCount => e = a - BlockCount
    <2>1. PICK a \in Nat : a = d + u /\ a < 2 * BlockCount
          BY <1>2, <1>6
    <2>2. /\ a < BlockCount => a % BlockCount = a
          /\ a >= BlockCount => a % BlockCount = a - BlockCount
          BY <1>2, <2>1, Wrap
    <2>3. e = a % BlockCount
          BY <1>6, <2>1, Zenon
    <2>4. /\ a < BlockCount => e = a
          /\ a >= BlockCount => e = a - BlockCount
          BY <2>2, <2>3, Zenon
    <2>5. a = d + u
          BY <2>1
    <2> QED
        BY <2>4, <2>5, Zenon
<1>8. Step(e) = (d + (u + 1)) % BlockCount /\ Step(e) \in 0 .. (BlockCount - 1)
    <2>1. PICK a \in Nat, c \in Nat :
              /\ a = e + 1 /\ a < 2 * BlockCount
              /\ c = d + (u + 1) /\ c < 2 * BlockCount
          BY <1>2, <1>6
    <2>2. /\ a < BlockCount => a % BlockCount = a
          /\ a >= BlockCount => a % BlockCount = a - BlockCount
          /\ a % BlockCount \in 0 .. (BlockCount - 1)
          BY <1>2, <2>1, Wrap
    <2>3. /\ c < BlockCount => c % BlockCount = c
          /\ c >= BlockCount => c % BlockCount = c - BlockCount
          BY <1>2, <2>1, Wrap
    <2>4. a % BlockCount = c % BlockCount
          BY <1>2, <1>6, <1>7, <2>1, <2>2, <2>3
    <2>5. Step(e) = a % BlockCount
          BY <2>1 DEF Step
    <2> QED
        BY <2>1, <2>2, <2>4, <2>5
<1>9. RingOf(n)
    <2>1. n \in Streams
        <3>1. n.buffer \in [Positions -> Blocks \cup {Silence}]
              BY <1>1, <1>3 DEF Data
        <3>2. n.blocksUsed \in 0 .. (SizeT - 1)
              BY <1>1, <1>2, <1>3, <1>4
        <3>3. n.dataEnd \in Positions /\ n.writeReservationPosition \in Positions
              BY <1>3, <1>5, <1>8 DEF Positions
        <3> QED
            BY <1>3, <3>1, <3>2, <3>3 DEF Push, RingOf, Streams
    <2>2. n.dataEnd = (n.dataStart + n.blocksUsed) % BlockCount
          BY <1>3, <1>5, <1>8
    <2> QED
        BY <1>1, <1>2, <1>3, <1>4, <2>1, <2>2 DEF RingOf
<1>10. s.peekCount = 1 => s.dataEnd # s.dataStart
    <2> SUFFICES ASSUME s.peekCount = 1 PROVE e # d
        BY <1>5
    <2>1. u >= 1
          BY <1>1, <1>5 DEF RingOf
    <2> QED
        BY <1>2, <1>6, <1>7, <2>1
<1>11. \A i \in 1 .. u : (d + i - 1) % BlockCount \in Positions /\ (d + i - 1) % BlockCount # e
    <2> SUFFICES ASSUME NEW i \in 1 .. u
                 PROVE  (d + i - 1) % BlockCount \in Positions /\ (d + i - 1) % BlockCount # e
        OBVIOUS
    <2>1. PICK a \in Nat : a = d + i - 1 /\ a < d + u /\ a >= d /\ a < 2 * BlockCount
          BY <1>2, <1>6
    <2>2. /\ a < BlockCount => a % BlockCount = a
          /\ a >= BlockCount => a % BlockCount = a - BlockCount
          /\ a % BlockCount \in Positions
          BY <1>2, <2>1, Wrap DEF Positions
    <2>3. a % BlockCount # e
          BY <1>2, <1>6, <1>7, <2>1, <2>2
    <2> QED
        BY <2>1, <2>2, <2>3
<1>12. DataOf(n) = Append(DataOf(s), b)
    <2>1. /\ DataOf(s) \in Seq(Data) /\ Len(DataOf(s)) = u
          /\ \A i \in 1 .. u : DataOf(s)[i] = s.buffer[(d + i - 1) % BlockCount]
          BY <1>5, DataIsSeq DEF RingOf
    <2>2. /\ DataOf(n) \in Seq(Data) /\ Len(DataOf(n)) = u + 1
          /\ \A i \in 1 .. (u + 1) : DataOf(n)[i] = n.buffer[(d + i - 1) % BlockCount]
        <3>1. n \in Streams /\ n.blocksUsed <= BlockCount
              BY <1>9 DEF RingOf
        <3>2. /\ DataOf(n) \in Seq(Data) /\ Len(DataOf(n)) = n.blocksUsed
              /\ \A i \in 1 .. n.blocksUsed :
                    DataOf(n)[i] = n.buffer[(n.dataStart + i - 1) % BlockCount]
              BY <3>1, DataIsSeq
        <3>3. n.blocksUsed = u + 1 /\ n.dataStart = d
              BY <1>3, <1>5
        <3> QED
            BY <3>2, <3>3, Zenon
    <2>3. b \in Data
          BY DEF Data
    <2>4. PICK t : t = Append(DataOf(s), b)
          OBVIOUS
    <2>5. /\ t \in Seq(Data) /\ Len(t) = u + 1
          /\ \A i \in 1 .. u : t[i] = DataOf(s)[i]
          /\ t[u + 1] = b
          BY <2>1, <2>3, <2>4, AppendProperties
    <2>6. ASSUME NEW i \in 1 .. (u + 1) PROVE DataOf(n)[i] = t[i]
        <3>1. CASE i \in 1 .. u
            <4>1. n.buffer[(d + i - 1) % BlockCount] = s.buffer[(d + i - 1) % BlockCount]
                  BY <1>1, <1>3, <1>5, <1>11, <3>1
            <4> QED
                BY <2>1, <2>2, <2>5, <3>1, <4>1
        <3>2. CASE i = u + 1
            <4>1. d + i - 1 = d + u
                  BY <3>2
            <4>2. DataOf(n)[i] = n.buffer[e]
                  BY <1>6, <2>2, <4>1
            <4>3. n.buffer[e] = b
                  BY <1>1, <1>3, <1>5
            <4> QED
                BY <2>5, <3>2, <4>2, <4>3
        <3> QED
            BY <3>1, <3>2
    <2>7. DataOf(n) = t
          BY <2>2, <2>5, <2>6, SeqEqual
    <2> QED
        BY <2>4, <2>7
<1> QED
    BY <1>1, <1>3, <1>4, <1>9, <1>10, <1>12

\* consume and peek: the blocks the reader had seen go, the next one is the
\* one it sees, and the data stays where it is.
LEMMA ReadFacts ==
    ASSUME NEW s, RingOf(s), NEW c, c = Consume(s), NEW n, n = Peek(c)
    PROVE  /\ RingOf(n)
           /\ n.buffer = s.buffer
           /\ DataOf(n) = SubSeq(DataOf(s), s.peekCount + 1, Len(DataOf(s)))
           /\ CanPeek(c) <=> n.blocksUsed # 0
           /\ n.blocksUsed = 0 => n.peekCount = 0
           /\ CanPeek(c) =>
                 /\ n.peekCount = 1
                 /\ c.peekPosition = n.dataStart /\ n.dataStart \in Positions
                 /\ c.buffer = s.buffer
                 /\ DataOf(n)[1] = s.buffer[n.dataStart]
<1>1. /\ s.buffer \in [Positions -> Data]
      /\ s.dataStart \in Positions /\ s.dataEnd \in Positions
      /\ s.peekPosition \in Positions
      /\ s.blocksUsed \in Nat /\ s.peekCount \in Nat
      BY Fields DEF RingOf
<1>2. BlockCount \in Nat \ {0} /\ SizeT \in Nat \ {0} /\ SizeT > 2 * BlockCount
      BY AudioStreamAssumption
<1>3. PICK d \in Nat, u \in Nat, k \in Nat, e \in Nat, q \in Nat :
          /\ d = s.dataStart /\ u = s.blocksUsed /\ k = s.peekCount
          /\ e = s.dataEnd /\ q = s.peekPosition
      BY <1>1 DEF Positions
<1>4. /\ d < BlockCount /\ e < BlockCount /\ q < BlockCount
      /\ u <= BlockCount /\ k <= u /\ k <= 1
      BY <1>1, <1>2, <1>3 DEF Positions, RingOf
<1>5. PICK r \in Nat : r = u - k
      BY <1>4
<1>6. (u + SizeT - k) % SizeT = r
    <2>1. PICK a \in Nat : a = u + SizeT - k /\ a >= SizeT /\ a < 2 * SizeT /\ a - SizeT = r
          BY <1>2, <1>4, <1>5
    <2>2. a % SizeT = a - SizeT
          BY <1>2, <2>1, Wrap
    <2> QED
        BY <2>1, <2>2, Zenon
<1>7. /\ c.buffer = s.buffer /\ c.dataEnd = s.dataEnd
      /\ c.writeReservationPosition = s.writeReservationPosition
      /\ c.blocksUsed = r /\ c.peekCount = 0
      /\ c.peekPosition = q /\ c.dataStart = q
      /\ c.reserveCount = s.reserveCount
    <2>1. /\ c.blocksUsed = (s.blocksUsed + SizeT - s.peekCount) % SizeT
          /\ c.buffer = s.buffer /\ c.dataEnd = s.dataEnd
          /\ c.writeReservationPosition = s.writeReservationPosition
          /\ c.peekCount = 0 /\ c.peekPosition = s.peekPosition
          /\ c.dataStart = s.peekPosition /\ c.reserveCount = s.reserveCount
          BY DEF Consume, RingOf, Streams
    <2>2. c.blocksUsed = r
          BY <1>3, <1>6, <2>1, Zenon
    <2> QED
        BY <1>3, <2>1, <2>2, Zenon
<1>8. CanPeek(c) <=> r # 0
      BY <1>7 DEF CanPeek
<1>9. /\ n.buffer = s.buffer /\ n.dataEnd = e
      /\ n.writeReservationPosition = s.writeReservationPosition
      /\ n.blocksUsed = r /\ n.dataStart = q
      /\ n.reserveCount = s.reserveCount
      /\ r # 0 => n.peekCount = 1 /\ n.peekPosition = Step(q)
      /\ r = 0 => n.peekCount = 0 /\ n.peekPosition = q
    <2>1. CASE r # 0
        <3>1. n = [c EXCEPT !.peekPosition = Step(@), !.peekCount = @ + 1]
              BY <1>8, <2>1 DEF Peek
        <3>2. c = [buffer |-> c.buffer, dataStart |-> c.dataStart, dataEnd |-> c.dataEnd,
                   peekPosition |-> c.peekPosition,
                   writeReservationPosition |-> c.writeReservationPosition,
                   blocksUsed |-> c.blocksUsed, peekCount |-> c.peekCount,
                   reserveCount |-> c.reserveCount]
              BY DEF Consume, RingOf, Streams
        <3>3. /\ n.buffer = c.buffer /\ n.dataEnd = c.dataEnd
              /\ n.writeReservationPosition = c.writeReservationPosition
              /\ n.blocksUsed = c.blocksUsed /\ n.dataStart = c.dataStart
              /\ n.reserveCount = c.reserveCount
              /\ n.peekCount = c.peekCount + 1 /\ n.peekPosition = Step(c.peekPosition)
              BY <3>1, <3>2
        <3> QED
            BY <1>3, <1>7, <2>1, <3>3
    <2>2. CASE r = 0
        <3>1. n = c
              BY <1>8, <2>2 DEF Peek
        <3> QED
            BY <1>3, <1>7, <2>2, <3>1
    <2> QED
        BY <2>1, <2>2
<1>10. /\ k = 0 => q = d
       /\ k = 1 => q = Step(d)
       /\ r = u \/ (r = u - 1 /\ k = 1)
    <2>1. q = (d + k) % BlockCount
          BY <1>3 DEF RingOf
    <2>2. k = 0 => q = d
        <3>1. d + 0 = d /\ d % BlockCount = d
              BY <1>2, <1>4, Wrap
        <3> QED
            BY <2>1, <3>1
    <2>3. k = 1 => q = Step(d)
          BY <2>1 DEF Step
    <2>4. r = u \/ (r = u - 1 /\ k = 1)
          BY <1>4, <1>5
    <2> QED
        BY <2>2, <2>3, <2>4
<1>11. ASSUME NEW x \in Nat, x < BlockCount
       PROVE  /\ x + 1 < BlockCount => Step(x) = x + 1
              /\ x + 1 >= BlockCount => Step(x) = 0
              /\ Step(x) \in 0 .. (BlockCount - 1)
    <2>1. PICK a \in Nat : a = x + 1 /\ a < 2 * BlockCount /\ (a >= BlockCount => a = BlockCount)
          BY <1>2, <1>11
    <2>2. /\ a < BlockCount => a % BlockCount = a
          /\ a >= BlockCount => a % BlockCount = a - BlockCount
          /\ a % BlockCount \in 0 .. (BlockCount - 1)
          BY <1>2, <2>1, Wrap
    <2>3. Step(x) = a % BlockCount
          BY <2>1 DEF Step
    <2> QED
        BY <1>2, <2>1, <2>2, <2>3
<1>12. ASSUME NEW i \in Nat, i < r + 1, i # 0
       PROVE  (q + i - 1) % BlockCount = (d + (k + i) - 1) % BlockCount
    <2>1. PICK a \in Nat, b \in Nat : a = q + i - 1 /\ b = d + (k + i) - 1
          BY <1>12
    <2>2. a < 2 * BlockCount /\ b < 2 * BlockCount
          BY <1>2, <1>4, <1>5, <1>12, <2>1
    <2>3. /\ a < BlockCount => a % BlockCount = a
          /\ a >= BlockCount => a % BlockCount = a - BlockCount
          BY <1>2, <2>2, Wrap
    <2>4. /\ b < BlockCount => b % BlockCount = b
          /\ b >= BlockCount => b % BlockCount = b - BlockCount
          BY <1>2, <2>2, Wrap
    <2>5. a = b \/ (b >= BlockCount /\ a = b - BlockCount)
        <3>1. CASE k = 0
              BY <1>10, <2>1, <3>1
        <3>2. CASE k = 1
            <4>1. q = Step(d)
                  BY <1>10, <3>2
            <4>2. CASE d + 1 < BlockCount
                  BY <1>4, <1>11, <2>1, <3>2, <4>1, <4>2
            <4>3. CASE d + 1 >= BlockCount
                  BY <1>2, <1>4, <1>11, <1>12, <2>1, <3>2, <4>1, <4>3
            <4> QED
                BY <1>2, <4>2, <4>3
        <3> QED
            BY <1>4, <3>1, <3>2
    <2>6. a % BlockCount = b % BlockCount
          BY <1>2, <2>2, <2>3, <2>4, <2>5
    <2> QED
        BY <2>1, <2>6
<1>13. RingOf(n)
    <2>1. n.dataEnd = (q + r) % BlockCount
        <3>1. e = (d + u) % BlockCount
              BY <1>3 DEF RingOf
        <3>2. CASE k = 0
            <4>1. q = d /\ r = u
                  BY <1>5, <1>10, <3>2
            <4> QED
                BY <1>9, <3>1, <4>1, Zenon
        <3>3. CASE k = 1
            <4>1. PICK a \in Nat, b \in Nat : a = q + r /\ b = d + u
                  OBVIOUS
            <4>2. a < 2 * BlockCount /\ b < 2 * BlockCount
                  BY <1>2, <1>4, <1>5, <4>1
            <4>3. /\ a < BlockCount => a % BlockCount = a
                  /\ a >= BlockCount => a % BlockCount = a - BlockCount
                  BY <1>2, <4>2, Wrap
            <4>4. /\ b < BlockCount => b % BlockCount = b
                  /\ b >= BlockCount => b % BlockCount = b - BlockCount
                  BY <1>2, <4>2, Wrap
            <4>5. q = Step(d)
                  BY <1>10, <3>3
            <4>6. /\ d + 1 < BlockCount => q = d + 1
                  /\ d + 1 >= BlockCount => q = 0
                  BY <1>4, <1>11, <4>5
            <4>7. a = b \/ (b >= BlockCount /\ a = b - BlockCount)
                  BY <1>2, <1>4, <1>5, <3>3, <4>1, <4>6
            <4>8. a % BlockCount = b % BlockCount
                  BY <1>2, <4>2, <4>3, <4>4, <4>7
            <4>9. e = b % BlockCount
                  BY <3>1, <4>1
            <4> QED
                BY <1>9, <4>1, <4>8, <4>9
        <3> QED
            BY <1>4, <3>2, <3>3
    <2>2. n.peekPosition = (q + n.peekCount) % BlockCount /\ n.peekPosition \in Positions
        <3>1. CASE r # 0
            <4>1. n.peekPosition = Step(q) /\ n.peekCount = 1
                  BY <1>9, <3>1
            <4> QED
                BY <1>4, <1>11, <4>1 DEF Step, Positions
        <3>2. CASE r = 0
            <4>1. n.peekPosition = q /\ n.peekCount = 0
                  BY <1>9, <3>2
            <4>2. q + 0 = q /\ q % BlockCount = q
                  BY <1>2, <1>4, Wrap
            <4> QED
                BY <1>1, <1>3, <4>1, <4>2
        <3> QED
            BY <3>1, <3>2
    <2>3. /\ n.peekCount \in Nat /\ n.peekCount <= r /\ n.peekCount <= 1
          /\ r <= BlockCount
        <3>1. n.peekCount = 0 \/ (n.peekCount = 1 /\ r # 0)
              BY <1>9
        <3>2. \A w : w = 0 \/ (w = 1 /\ r # 0) => w \in Nat /\ w <= r /\ w <= 1
              OBVIOUS
        <3>3. r <= BlockCount
              BY <1>2, <1>4, <1>5
        <3> QED
            BY <3>1, <3>2, <3>3, Zenon
    <2>4. n.blocksUsed \in 0..(SizeT - 1) /\ n.peekCount \in 0..(SizeT - 1)
          BY <1>2, <1>9, <2>3
    <2>5. n \in Streams
        <3>1. /\ n.buffer \in [Positions -> Blocks \cup {Silence}]
              /\ n.dataStart \in Positions /\ n.dataEnd \in Positions
              /\ n.writeReservationPosition \in Positions
              /\ n.reserveCount \in 0..(SizeT - 1)
              BY <1>1, <1>3, <1>9, Fields DEF RingOf, Data
        <3>2. n = [buffer |-> n.buffer, dataStart |-> n.dataStart, dataEnd |-> n.dataEnd,
                   peekPosition |-> n.peekPosition,
                   writeReservationPosition |-> n.writeReservationPosition,
                   blocksUsed |-> n.blocksUsed, peekCount |-> n.peekCount,
                   reserveCount |-> n.reserveCount]
            <4>1. CASE CanPeek(c)
                  BY <4>1 DEF Peek, Consume, RingOf, Streams
            <4>2. CASE ~CanPeek(c)
                  BY <4>2 DEF Peek, Consume, RingOf, Streams
            <4> QED
                BY <4>1, <4>2
        <3> QED
            BY <2>2, <2>4, <3>1, <3>2 DEF Streams
    <2> QED
        BY <1>3, <1>9, <2>1, <2>2, <2>3, <2>5 DEF RingOf
<1>14. DataOf(n) = SubSeq(DataOf(s), k + 1, Len(DataOf(s)))
    <2>1. s \in Streams /\ s.blocksUsed <= BlockCount /\ n \in Streams /\ n.blocksUsed <= BlockCount
          BY <1>13 DEF RingOf
    <2>2. /\ DataOf(s) \in Seq(Data) /\ Len(DataOf(s)) = u
          /\ \A i \in 1 .. u : /\ DataOf(s)[i] = s.buffer[(d + i - 1) % BlockCount]
                               /\ DataOf(s)[i] \in Data
          BY <1>3, <2>1, DataIsSeq
    <2>3. /\ DataOf(n) \in Seq(Data) /\ Len(DataOf(n)) = r
          /\ \A i \in 1 .. r : DataOf(n)[i] = s.buffer[(q + i - 1) % BlockCount]
          BY <1>9, <2>1, DataIsSeq
    <2>4. PICK t : t = SubSeq(DataOf(s), k + 1, u)
          OBVIOUS
    <2>5. /\ t \in Seq(Data)
          /\ Len(t) = IF k + 1 <= u THEN u - (k + 1) + 1 ELSE 0
          /\ \A i \in 1 .. u - (k + 1) + 1 : t[i] = DataOf(s)[(k + 1) + i - 1]
        <3>1. \A i \in (k + 1) .. u : DataOf(s)[i] \in Data
              BY <2>2
        <3> QED
            BY <2>4, <3>1, SubSeqProperties
    <2>6. u - (k + 1) + 1 = r /\ Len(t) = r
          BY <1>4, <1>5, <2>5
    <2>7. ASSUME NEW i \in 1 .. r PROVE DataOf(n)[i] = t[i]
        <3>1. (k + 1) + i - 1 = k + i /\ k + i \in 1 .. u
              BY <1>4, <1>5
        <3>2. t[i] = s.buffer[(d + (k + i) - 1) % BlockCount]
              BY <2>2, <2>5, <2>6, <3>1
        <3>3. i \in Nat /\ i < r + 1 /\ i # 0
              OBVIOUS
        <3>4. (q + i - 1) % BlockCount = (d + (k + i) - 1) % BlockCount
              BY <1>12, <3>3
        <3> QED
            BY <2>3, <3>2, <3>4
    <2>8. DataOf(n) = t
          BY <2>3, <2>5, <2>6, <2>7, SeqEqual
    <2> QED
        BY <2>2, <2>4, <2>8
<1>15. r # 0 => DataOf(n)[1] = s.buffer[q]
    <2> SUFFICES ASSUME r # 0 PROVE DataOf(n)[1] = s.buffer[q]
        OBVIOUS
    <2>1. n \in Streams /\ n.blocksUsed <= BlockCount /\ 1 \in 1 .. n.blocksUsed
          BY <1>9, <1>13 DEF RingOf
    <2>2. DataOf(n)[1] = n.buffer[(n.dataStart + 1 - 1) % BlockCount]
          BY <2>1, DataIsSeq
    <2>3. n.dataStart + 1 - 1 = q
          BY <1>9
    <2>4. q % BlockCount = q
          BY <1>2, <1>4, Wrap
    <2> QED
        BY <1>9, <2>2, <2>3, <2>4
<1> QED
    BY <1>1, <1>3, <1>7, <1>8, <1>9, <1>13, <1>14, <1>15

\* reset, and a new stream: nothing is left.
LEMMA ResetFacts ==
    ASSUME NEW s, RingOf(s), NEW n, n \in {Reset(s), NewStream}
    PROVE  /\ RingOf(n) /\ DataOf(n) = <<>> /\ n.peekCount = 0
           /\ n = Reset(s) => n.buffer = s.buffer
<1>1. BlockCount \in Nat \ {0} /\ SizeT \in Nat /\ SizeT > 2 * BlockCount
      BY AudioStreamAssumption
<1>2. s.buffer \in [Positions -> Data]
      BY Fields DEF RingOf
<1>3. PICK b \in [Positions -> Data] :
          /\ n = [buffer |-> b, dataStart |-> 0, dataEnd |-> 0,
                  peekPosition |-> 0, writeReservationPosition |-> 0,
                  blocksUsed |-> 0, peekCount |-> 0, reserveCount |-> 0]
          /\ n = Reset(s) => b = s.buffer
    <2>1. CASE n = Reset(s)
          BY <1>2, <2>1 DEF Reset, NewStream
    <2>2. CASE n # Reset(s)
        <3>1. [p \in Positions |-> Silence] \in [Positions -> Data]
              BY DEF Data
        <3>2. n = NewStream
              BY <2>2
        <3> QED
            BY <2>2, <3>1, <3>2 DEF NewStream
    <2> QED
        BY <2>1, <2>2
<1>4. 0 \in Positions /\ 0 \in 0 .. (SizeT - 1)
      BY <1>1 DEF Positions
<1>5. n \in Streams
      BY <1>3, <1>4 DEF Streams, Data
<1>6. (0 + 0) % BlockCount = 0
      BY <1>1
<1>7. RingOf(n)
      BY <1>1, <1>3, <1>5, <1>6 DEF RingOf
<1>8. DataOf(n) \in Seq(Data) /\ Len(DataOf(n)) = 0
      BY <1>1, <1>3, <1>5, DataIsSeq
<1>9. DataOf(n) = <<>>
      BY <1>8
<1> QED
    BY <1>3, <1>7, <1>9

-----------------------------------------------------------------------------
(***************************************************************************)
(* The queue set of the task.                                              *)
(***************************************************************************)

\* The empty queues have their types.
LEMMA EmptySeqs ==
    <<>> \in Seq(Items) /\ <<>> \in Seq(Spans) /\ <<>> \in Seq(Data)
BY EmptySeq

\* No event is a command.
LEMMA Kinds ==
    /\ Events \cap Commands = {}
    /\ Commands = {"EnablePlayback", "DisablePlayback"}
    /\ \A e \in Events : e # "EnablePlayback"
BY DEF Events, Commands

\* What comes last in a queue.
LEMMA Concatenated ==
    ASSUME items \in Seq(Items), NEW k \in Seq(Items), items' = items \o k
    PROVE  /\ items' \in Seq(Items)
           /\ \A i \in DOMAIN items : i \in DOMAIN items' /\ items'[i] = items[i]
           /\ \A i \in DOMAIN items' :
                 \/ i \in DOMAIN items /\ items'[i] = items[i]
                 \/ i \notin DOMAIN items /\ i - Len(items) \in DOMAIN k
                    /\ items'[i] = k[i - Len(items)]
           /\ \A j \in DOMAIN k : /\ Len(items) + j \in DOMAIN items'
                                  /\ Len(items) + j \notin DOMAIN items
                                  /\ items'[Len(items) + j] = k[j]
<1>1. PICK n, l : n = Len(items) /\ l = Len(k)
      OBVIOUS
<1>2. /\ n \in Nat /\ l \in Nat
      /\ DOMAIN items = 1 .. n /\ DOMAIN k = 1 .. l
      BY <1>1
<1>3. /\ items' \in Seq(Items)
      /\ DOMAIN items' = 1 .. (n + l)
      /\ \A i \in 1 .. (n + l) : items'[i] = IF i <= n THEN items[i] ELSE k[i - n]
      BY <1>1, <1>2, ConcatProperties, LenProperties
<1>4. \A i \in 1 .. (n + l) : i <= n => i \in 1 .. n /\ items'[i] = items[i]
      BY <1>2, <1>3
<1>5. \A i \in 1 .. (n + l) : ~(i <= n) =>
          i \notin 1 .. n /\ i - n \in 1 .. l /\ items'[i] = k[i - n]
      BY <1>2, <1>3
<1>6. \A i \in 1 .. n : i \in 1 .. (n + l) /\ i <= n
      BY <1>2
<1>7. \A j \in 1 .. l : /\ n + j \in 1 .. (n + l) /\ ~(n + j <= n) /\ (n + j) - n = j
                        /\ n + j \notin 1 .. n
      BY <1>2
<1>8. \A j \in 1 .. l : items'[n + j] = k[j]
      BY <1>5, <1>7
<1>9. \A i \in DOMAIN items : i \in DOMAIN items' /\ items'[i] = items[i]
      BY <1>2, <1>3, <1>4, <1>6
<1> QED
    BY <1>1, <1>2, <1>3, <1>4, <1>5, <1>7, <1>8, <1>9

\* Events are put behind the rest.
LEMMA EventsBehind ==
    ASSUME items \in Seq(Items), NEW k \in Seq(Events), items' = items \o k
    PROVE  /\ items' \in Seq(Items)
           /\ NoCommand => NoCommand'
           /\ \A c : OneCommand(c) => OneCommand(c)'
           /\ NoEnable => NoEnable'
<1>1. k \in Seq(Items)
      BY SeqMonotonic DEF Items
<1>2. /\ items' \in Seq(Items)
      /\ \A i \in DOMAIN items : i \in DOMAIN items' /\ items'[i] = items[i]
      /\ \A i \in DOMAIN items' :
            \/ i \in DOMAIN items /\ items'[i] = items[i]
            \/ i \notin DOMAIN items /\ i - Len(items) \in DOMAIN k
               /\ items'[i] = k[i - Len(items)]
      BY <1>1, Concatenated
<1>3. \A j \in DOMAIN k : k[j] \in Events
      OBVIOUS
<1>4. \A i \in DOMAIN items' :
          \/ i \in DOMAIN items /\ items'[i] = items[i]
          \/ items'[i] \in Events
      BY <1>2, <1>3
<1>5. NoCommand => NoCommand'
      BY <1>4 DEF NoCommand
<1>6. NoEnable => NoEnable'
      BY <1>4, Kinds DEF NoEnable
<1>7. ASSUME NEW c, OneCommand(c) PROVE OneCommand(c)'
    <2>1. PICK i \in DOMAIN items :
              items[i] = c /\ \A j \in DOMAIN items : j # i => items[j] \in Events
          BY <1>7 DEF OneCommand
    <2> QED
        BY <1>2, <1>4, <2>1 DEF OneCommand
<1> QED
    BY <1>2, <1>5, <1>6, <1>7

\* A command is put behind the rest, perhaps with an event before it.
LEMMA CommandBehind ==
    ASSUME items \in Seq(Items), NEW c \in Commands, NEW k,
           k \in {<<c>>, <<"StreamUnderFlow", c>>}, items' = items \o k
    PROVE  /\ items' \in Seq(Items)
           /\ NoCommand => OneCommand(c)'
           /\ NoEnable /\ c # "EnablePlayback" => NoEnable'
<1>1. /\ k \in Seq(Items) /\ Len(k) \in Nat /\ Len(k) \in DOMAIN k /\ k[Len(k)] = c
      /\ \A j \in DOMAIN k : j # Len(k) => k[j] \in Events
      /\ \A j \in DOMAIN k : k[j] # c => k[j] \in Events
    <2>1. CASE k = <<c>>
          BY <2>1 DEF Items
    <2>2. CASE k = <<"StreamUnderFlow", c>>
          BY <2>2 DEF Items, Events
    <2> QED
        BY <2>1, <2>2
<1>2. /\ items' \in Seq(Items)
      /\ \A i \in DOMAIN items : i \in DOMAIN items' /\ items'[i] = items[i]
      /\ \A i \in DOMAIN items' :
            \/ i \in DOMAIN items /\ items'[i] = items[i]
            \/ i \notin DOMAIN items /\ i - Len(items) \in DOMAIN k
               /\ items'[i] = k[i - Len(items)]
      /\ \A j \in DOMAIN k : /\ Len(items) + j \in DOMAIN items'
                             /\ Len(items) + j \notin DOMAIN items
                             /\ items'[Len(items) + j] = k[j]
      BY <1>1, Concatenated
<1>3. ASSUME NoCommand PROVE OneCommand(c)'
    <2>1. PICK x : x = Len(items) + Len(k)
          OBVIOUS
    <2>2. x \in DOMAIN items' /\ x \notin DOMAIN items /\ items'[x] = c
          BY <1>1, <1>2, <2>1
    <2>3. ASSUME NEW j \in DOMAIN items', j # x PROVE items'[j] \in Events
        <3>1. CASE j \in DOMAIN items
              BY <1>2, <1>3, <3>1 DEF NoCommand
        <3>2. CASE j \notin DOMAIN items
            <4>1. j - Len(items) \in DOMAIN k /\ items'[j] = k[j - Len(items)]
                  BY <1>2, <3>2
            <4>2. j \in Nat /\ Len(items) \in Nat
                  BY <1>2
            <4>3. j - Len(items) # Len(k)
                  BY <1>1, <2>1, <2>3, <4>2
            <4> QED
                BY <1>1, <4>1, <4>3
        <3> QED
            BY <3>1, <3>2
    <2> QED
        BY <2>2, <2>3 DEF OneCommand
<1>4. ASSUME NoEnable, c # "EnablePlayback" PROVE NoEnable'
      BY <1>1, <1>2, <1>4, Kinds DEF NoEnable
<1> QED
    BY <1>2, <1>3, <1>4

\* Start makes the queue anew.
LEMMA FreshQueue ==
    ASSUME items' = <<"StreamUnderFlow", "EnablePlayback">>
    PROVE  items' \in Seq(Items) /\ OneCommand("EnablePlayback")'
<1>1. /\ DOMAIN items' = {1, 2}
      /\ items'[1] = "StreamUnderFlow" /\ items'[2] = "EnablePlayback"
      OBVIOUS
<1>2. items' \in Seq(Items)
      BY DEF Items, Events, Commands
<1>3. "StreamUnderFlow" \in Events
      BY DEF Events
<1>4. /\ 2 \in DOMAIN items'
      /\ \A j \in DOMAIN items' : j # 2 => items'[j] \in Events
      BY <1>1, <1>3
<1> QED
    BY <1>1, <1>2, <1>4 DEF OneCommand

\* The task takes an item; if it is a command there was one, and none is left.
LEMMA ItemTaken ==
    ASSUME items \in Seq(Items), items # <<>>, items' = Tail(items)
    PROVE  /\ Head(items) \in Items
           /\ items' \in Seq(Items)
           /\ NoEnable => NoEnable' /\ Head(items) # "EnablePlayback"
           /\ NoCommand => NoCommand' /\ Head(items) \in Events
           /\ \A c \in Commands : OneCommand(c) =>
                 /\ Head(items) \in Events => OneCommand(c)'
                 /\ Head(items) \in Commands => Head(items) = c /\ NoCommand'
<1>1. /\ Head(items) = items[1] /\ 1 \in DOMAIN items /\ Head(items) \in Items
      /\ items' \in Seq(Items)
      /\ DOMAIN items = 1 .. Len(items) /\ Len(items) \in Nat
      /\ DOMAIN items' = 1 .. (Len(items) - 1)
      /\ \A i \in DOMAIN items' :
            i \in Nat /\ i + 1 \in DOMAIN items /\ i + 1 # 1 /\ items'[i] = items[i + 1]
      OBVIOUS
<1>2. \A j \in DOMAIN items : j # 1 =>
          /\ j - 1 \in DOMAIN items' /\ items'[j - 1] = items[j]
          /\ \A i \in DOMAIN items' : i # j - 1 => i + 1 # j
    <2> SUFFICES ASSUME NEW j \in DOMAIN items, j # 1
                 PROVE  /\ j - 1 \in DOMAIN items' /\ items'[j - 1] = items[j]
                        /\ \A i \in DOMAIN items' : i # j - 1 => i + 1 # j
        OBVIOUS
    <2>1. j \in Nat /\ j - 1 \in 1 .. (Len(items) - 1) /\ (j - 1) + 1 = j
          BY <1>1
    <2>2. \A i \in DOMAIN items' : i # j - 1 => i + 1 # j
          BY <1>1, <2>1
    <2> QED
        BY <1>1, <2>1, <2>2
<1>3. NoEnable => NoEnable' /\ Head(items) # "EnablePlayback"
      BY <1>1 DEF NoEnable
<1>4. NoCommand => NoCommand' /\ Head(items) \in Events
      BY <1>1 DEF NoCommand
<1>5. ASSUME NEW c \in Commands, OneCommand(c)
      PROVE  /\ Head(items) \in Events => OneCommand(c)'
             /\ Head(items) \in Commands => Head(items) = c /\ NoCommand'
    <2>1. PICK p \in DOMAIN items :
              items[p] = c /\ \A j \in DOMAIN items : j # p => items[j] \in Events
          BY <1>5 DEF OneCommand
    <2>2. CASE p = 1
        <3>1. Head(items) = c
              BY <1>1, <2>1, <2>2
        <3>2. NoCommand'
              BY <1>1, <2>1, <2>2 DEF NoCommand
        <3>3. Head(items) \notin Events
              BY <3>1, Kinds
        <3> QED
            BY <3>1, <3>2, <3>3
    <2>3. CASE p # 1
        <3>1. Head(items) \in Events
              BY <1>1, <2>1, <2>3
        <3>2. OneCommand(c)'
            <4>1. p - 1 \in DOMAIN items' /\ items'[p - 1] = c
                  BY <1>2, <2>1, <2>3
            <4>2. \A i \in DOMAIN items' : i # p - 1 => items'[i] \in Events
                  BY <1>1, <1>2, <2>1, <2>3
            <4> QED
                BY <4>1, <4>2 DEF OneCommand
        <3>3. Head(items) \notin Commands
              BY <3>1, Kinds
        <3> QED
            BY <3>1, <3>2, <3>3
    <2> QED
        BY <2>2, <2>3
<1> QED
    BY <1>1, <1>3, <1>4, <1>5

\* What broadcastStateEvents and peek send are events.
LEMMA EventSeqs ==
    ASSUME NEW s PROVE StateEvents(s) \in Seq(Events) /\ UnderFlow(s) \in Seq(Events)
<1>1. /\ "StreamHalfUsed" \in Events /\ "StreamEmpty" \in Events
      /\ "StreamFull" \in Events /\ "StreamUnderFlow" \in Events
      BY DEF Events
<1>2. \A e \in Events : <<e>> \in Seq(Events)
      OBVIOUS
<1>3. <<>> \in Seq(Events)
      OBVIOUS
<1>4. StateEvents(s) \in {<<"StreamHalfUsed">>, <<"StreamEmpty">>, <<"StreamFull">>, <<>>}
      BY DEF StateEvents
<1>5. UnderFlow(s) \in {<<"StreamUnderFlow">>, <<>>}
      BY DEF UnderFlow
<1> QED
    BY <1>1, <1>2, <1>3, <1>4, <1>5

\* EnqueueFromISR puts events behind the rest, as many as there is room for.
LEMMA Enqueued ==
    ASSUME items \in Seq(Items), NEW es \in Seq(Events)
    PROVE  \E k \in Seq(Events) : EnqueueFromISR(es) = items \o k
<1>1. QueuedEvents(items) \in Nat
    <2>1. DOMAIN items = 1 .. Len(items) /\ Len(items) \in Nat
          OBVIOUS
    <2>2. IsFiniteSet(DOMAIN items)
          BY <2>1, FS_Interval
    <2>3. IsFiniteSet({i \in DOMAIN items : items[i] \in Events})
          BY <2>2, FS_Subset
    <2> QED
        BY <2>3, FS_CardinalityType DEF QueuedEvents
<1>2. PICK n \in Int : /\ n <= Len(es)
                       /\ EnqueueFromISR(es) = items \o SubSeq(es, 1, n)
    <2> DEFINE room == EventCapacity - QueuedEvents(items)
               f == IF room < Len(es) THEN room ELSE Len(es)
    <2>1. room \in Int /\ Len(es) \in Nat
          BY <1>1, AudioPlaybackAssumption
    <2>2. EnqueueFromISR(es) = items \o SubSeq(es, 1, f)
          BY DEF EnqueueFromISR
    <2> HIDE DEF room
    <2>3. f \in Int /\ f <= Len(es)
          BY <2>1
    <2> HIDE DEF f
    <2> QED
        BY <2>2, <2>3
<1>3. \A i \in 1 .. n : es[i] \in Events
      BY <1>2
<1>4. SubSeq(es, 1, n) \in Seq(Events)
      BY <1>3, SubSeqProperties
<1> QED
    BY <1>2, <1>4

-----------------------------------------------------------------------------
(***************************************************************************)
(* The transfer and the handshake in steps that leave them alone.          *)
(***************************************************************************)

\* The step changes neither the stream nor the transfers, and a silent
\* decoder stays silent.
LEMMA TransferKept ==
    ASSUME Transfer, dma' = dma, stream' = stream, Silent => Silent'
    PROVE  Transfer'
BY DEF Transfer

\* The queue has more events or fewer, but the same commands.
LEMMA HandshakeKept ==
    ASSUME Handshake, owner' = owner, stateSemaphore' = stateSemaphore,
           playbackEnabled' = playbackEnabled,
           NoCommand => NoCommand', \A c \in Commands : OneCommand(c) => OneCommand(c)'
    PROVE  Handshake'
<1>1. "EnablePlayback" \in Commands /\ "DisablePlayback" \in Commands
      BY DEF Commands
<1>2. CASE owner \in {"loop", "restart"}
      BY <1>2 DEF Handshake
<1>3. CASE owner = "enable"
      BY <1>1, <1>3 DEF Handshake
<1>4. CASE owner \notin {"loop", "restart", "enable"}
      BY <1>1, <1>4 DEF Handshake
<1> QED
    BY <1>2, <1>3, <1>4

\* Whether the handshake is at rest, for each place of the service's thread.
LEMMA HandshakeCases ==
    ASSUME Types, Handshake
    PROVE  /\ owner \in {"loop", "restart"} => NoCommand /\ ~stateSemaphore
           /\ owner = "enable" =>
                 \/ OneCommand("EnablePlayback") /\ ~stateSemaphore
                 \/ NoCommand /\ stateSemaphore
           /\ owner \in {"pause", "stop", "switch"} =>
                 \/ OneCommand("DisablePlayback") /\ ~stateSemaphore
                 \/ NoCommand /\ stateSemaphore /\ ~playbackEnabled
<1>1. owner \in {"loop", "restart"} => NoCommand /\ ~stateSemaphore
      BY DEF Handshake
<1>2. owner = "enable" =>
          \/ OneCommand("EnablePlayback") /\ ~stateSemaphore
          \/ NoCommand /\ stateSemaphore
      BY DEF Handshake
<1>3. owner \in {"pause", "stop", "switch"} =>
          \/ OneCommand("DisablePlayback") /\ ~stateSemaphore
          \/ NoCommand /\ stateSemaphore /\ ~playbackEnabled
      BY DEF Handshake
<1> QED
    BY <1>1, <1>2, <1>3

\* A step to one of these places.
LEMMA HandshakeAt ==
    ASSUME \/ owner' \in {"loop", "restart"} /\ NoCommand' /\ ~stateSemaphore'
           \/ /\ owner' = "enable"
              /\ \/ OneCommand("EnablePlayback")' /\ ~stateSemaphore'
                 \/ NoCommand' /\ stateSemaphore'
           \/ /\ owner' \in {"pause", "stop", "switch"}
              /\ \/ OneCommand("DisablePlayback")' /\ ~stateSemaphore'
                 \/ NoCommand' /\ stateSemaphore' /\ ~playbackEnabled'
    PROVE  Handshake'
<1>1. CASE owner' \in {"loop", "restart"} /\ NoCommand' /\ ~stateSemaphore'
      BY <1>1 DEF Handshake
<1>2. CASE /\ owner' = "enable"
           /\ \/ OneCommand("EnablePlayback")' /\ ~stateSemaphore'
              \/ NoCommand' /\ stateSemaphore'
      BY <1>2 DEF Handshake
<1>3. CASE /\ owner' \in {"pause", "stop", "switch"}
           /\ \/ OneCommand("DisablePlayback")' /\ ~stateSemaphore'
              \/ NoCommand' /\ stateSemaphore' /\ ~playbackEnabled'
      BY <1>3 DEF Handshake
<1> QED
    BY <1>1, <1>2, <1>3

-----------------------------------------------------------------------------
(***************************************************************************)
(* The interrupt.                                                          *)
(***************************************************************************)

\* The span of a block.
LEMMA SpanType ==
    ASSUME NEW c, CanPeek(c) => /\ c.peekPosition \in Positions
                                /\ c.buffer[c.peekPosition] \in Data
    PROVE  SpanOf(c) \in Spans
<1>1. BlockCount \in Nat \ {0}
      BY AudioStreamAssumption
<1>2. NullSpan \in Spans
      BY <1>1 DEF NullSpan, Spans, Silence
<1>3. CASE CanPeek(c)
    <2>1. c.peekPosition \in 0 .. BlockCount
          BY <1>1, <1>3 DEF Positions
    <2> QED
        BY <1>3, <2>1 DEF SpanOf, Spans, Data
<1> QED
    BY <1>2, <1>3 DEF SpanOf

\* onDataSend: the transfer that has ended was the only one, and the next one
\* sends the block the reader sees now.
LEMMA SendKeeps ==
    ASSUME PlaybackInv, onDataSend
    PROVE  PlaybackInv'
<1>1. PICK c : c = Consume(stream)
      OBVIOUS
<1>2. /\ dma # <<>> /\ stream' = Peek(c)
      /\ items' = EnqueueFromISR(StateEvents(c) \o UnderFlow(c))
      /\ dma' = Send(Tail(dma), SpanOf(c))
      /\ sent' = IF CanPeek(c) THEN Append(sent, SpanOf(c).block) ELSE sent
      /\ count' = count /\ owner' = owner /\ overtaken' = overtaken
      /\ playbackEnabled' = playbackEnabled /\ stateSemaphore' = stateSemaphore
      BY <1>1 DEF onDataSend, operation, task
<1>3. RingOf(stream)
      BY DEF PlaybackInv, Ring
<1>4. /\ RingOf(stream')
      /\ stream'.buffer = stream.buffer
      /\ CanPeek(c) => /\ stream'.peekCount = 1
                       /\ c.peekPosition = stream'.dataStart /\ stream'.dataStart \in Positions
                       /\ c.buffer = stream.buffer
      BY <1>1, <1>2, <1>3, ReadFacts
<1>5. stream.buffer \in [Positions -> Data]
      BY <1>3, Fields DEF RingOf
<1>6. CanPeek(c) => /\ c.peekPosition \in Positions
                    /\ c.buffer[c.peekPosition] \in Data
      BY <1>4, <1>5
<1>7. SpanOf(c) \in Spans
      BY <1>6, SpanType
<1>8. CanPeek(c) => /\ SpanOf(c).position = c.peekPosition
                    /\ SpanOf(c).block = c.buffer[c.peekPosition]
      BY DEF SpanOf
<1>9. PICK k \in Seq(Events) : items' = items \o k
    <2>1. PICK es : es = StateEvents(c) \o UnderFlow(c)
          OBVIOUS
    <2>2. es \in Seq(Events)
          BY <2>1, EventSeqs, ConcatProperties
    <2> QED
        BY <1>2, <2>1, <2>2, Enqueued DEF PlaybackInv, Types
<1>10. /\ items' \in Seq(Items)
       /\ NoCommand => NoCommand'
       /\ \A x : OneCommand(x) => OneCommand(x)'
       /\ NoEnable => NoEnable'
      BY <1>9, EventsBehind DEF PlaybackInv, Types
<1>11. Handshake'
      BY <1>2, <1>10, HandshakeKept DEF PlaybackInv
<1>12. dma' \in Seq(Spans)
    <2>1. Tail(dma) \in Seq(Spans)
          BY <1>2 DEF PlaybackInv, Types
    <2> QED
        BY <1>2, <1>7, <2>1 DEF Send
<1>13. sent' \in Seq(Data)
    <2>1. CASE CanPeek(c)
        <3>1. SpanOf(c).block \in Data
              BY <1>6, <1>8, <2>1
        <3> QED
            BY <1>2, <2>1, <3>1 DEF PlaybackInv, Types
    <2>2. CASE ~CanPeek(c)
          BY <1>2, <2>2 DEF PlaybackInv, Types
    <2> QED
        BY <2>1, <2>2
<1>14. Types'
      BY <1>2, <1>10, <1>12, <1>13 DEF PlaybackInv, Types
<1>15. ASSUME ~overtaken' PROVE Transfer'
    <2>1. Len(dma) = 1
          BY <1>2, <1>15 DEF PlaybackInv, Transfer
    <2>2. PICK t \in Seq(Spans) : t = Tail(dma) /\ Len(t) = 0 /\ t = <<>>
        <3>1. dma \in Seq(Spans)
              BY DEF PlaybackInv, Types
        <3>2. Tail(dma) \in Seq(Spans) /\ Len(Tail(dma)) = Len(dma) - 1
              BY <1>2, <3>1, HeadTailProperties
        <3>n. \A a : a = 1 => a - 1 = 0
              OBVIOUS
        <3>0. Len(Tail(dma)) = 0
              BY <2>1, <3>2, <3>n, Zenon
        <3>3. PICK t \in Seq(Spans) : t = Tail(dma) /\ Len(t) = 0
              BY <3>0, <3>2, Zenon
        <3>4. t = <<>>
              BY <3>3, EmptySeq
        <3> QED
            BY <3>3, <3>4
    <2>3. PICK x \in Spans : x = SpanOf(c)
          BY <1>7
    <2>4. dma' = Append(<<>>, x)
        <3>1. dma' = Send(t, x)
              BY <1>2, <2>2, <2>3
        <3>0. 0 < SAI_XFER_QUEUE_SIZE
              BY DEF SAI_XFER_QUEUE_SIZE
        <3>2. Len(t) < SAI_XFER_QUEUE_SIZE
              BY <2>2, <3>0, Zenon
        <3>3. dma' = Append(t, x)
              BY <3>1, <3>2, Zenon DEF Send
        <3> QED
            BY <2>2, <3>3, Zenon
    <2>5. Len(dma') = 1 /\ dma'[1] = x
          BY <2>4
    <2>6. CASE CanPeek(c)
          BY <1>4, <1>8, <2>3, <2>5, <2>6 DEF Transfer
    <2>7. CASE ~CanPeek(c)
        <3>1. x = NullSpan
              BY <2>3, <2>7 DEF SpanOf
        <3> QED
            BY <2>5, <3>1 DEF Transfer, NullSpan
    <2> QED
        BY <2>6, <2>7
<1> QED
    BY <1>4, <1>11, <1>14, <1>15 DEF PlaybackInv, Ring

\* The early return of onDataSend.
LEMMA SendDisabledKeeps ==
    ASSUME PlaybackInv, onDataSendDisabled
    PROVE  PlaybackInv'
<1>1. /\ dma # <<>> /\ dma' = Tail(dma)
      /\ stream' = stream /\ count' = count /\ sent' = sent /\ items' = items
      /\ owner' = owner /\ overtaken' = overtaken
      /\ playbackEnabled' = playbackEnabled /\ stateSemaphore' = stateSemaphore
      BY DEF onDataSendDisabled, operation, task
<1>2. dma' \in Seq(Spans)
      BY <1>1 DEF PlaybackInv, Types
<1>3. Types'
      BY <1>1, <1>2 DEF PlaybackInv, Types
<1>4. Handshake'
      BY <1>1, HandshakeKept DEF PlaybackInv, NoCommand, OneCommand
<1>5. ASSUME ~overtaken' PROVE Transfer'
    <2>1. Len(dma) = 1
          BY <1>1, <1>5 DEF PlaybackInv, Transfer
    <2>2. dma' = <<>>
          BY <1>1, <2>1 DEF PlaybackInv, Types
    <2> QED
        BY <2>2 DEF Transfer
<1> QED
    BY <1>1, <1>3, <1>4, <1>5 DEF PlaybackInv, Ring

-----------------------------------------------------------------------------
(***************************************************************************)
(* The task.                                                               *)
(***************************************************************************)

\* An event is taken.
LEMMA HandleEventKeeps ==
    ASSUME PlaybackInv, HandleEvent
    PROVE  PlaybackInv'
<1>1. /\ items # <<>> /\ items' = Tail(items) /\ Head(items) \in Events
      /\ stream' = stream /\ count' = count /\ sent' = sent /\ dma' = dma
      /\ owner' = owner /\ overtaken' = overtaken
      /\ playbackEnabled' = playbackEnabled /\ stateSemaphore' = stateSemaphore
      BY DEF HandleEvent, operation, device
<1>2. /\ items' \in Seq(Items)
      /\ NoEnable => NoEnable'
      /\ NoCommand => NoCommand'
      /\ \A c \in Commands : OneCommand(c) => OneCommand(c)'
      BY <1>1, ItemTaken DEF PlaybackInv, Types
<1>3. Types'
      BY <1>1, <1>2 DEF PlaybackInv, Types
<1>4. Handshake'
      BY <1>1, <1>2, HandshakeKept DEF PlaybackInv
<1>5. Silent => Silent'
      BY <1>1, <1>2 DEF Silent
<1>6. ~overtaken' => Transfer'
      BY <1>1, <1>5, TransferKept DEF PlaybackInv
<1> QED
    BY <1>1, <1>3, <1>4, <1>6 DEF PlaybackInv, Ring

\* A command is taken, and the semaphore given: the service is waiting for
\* this command.
LEMMA HandleCommandKeeps ==
    ASSUME PlaybackInv, HandleCommand
    PROVE  PlaybackInv'
<1>1. /\ items # <<>> /\ items' = Tail(items) /\ Head(items) \in Commands
      /\ playbackEnabled' = (Head(items) = "EnablePlayback")
      /\ stateSemaphore' = TRUE
      /\ stream' = stream /\ count' = count /\ sent' = sent /\ dma' = dma
      /\ owner' = owner /\ overtaken' = overtaken
      BY DEF HandleCommand, operation, device
<1>2. /\ items' \in Seq(Items)
      /\ NoEnable => NoEnable' /\ Head(items) # "EnablePlayback"
      /\ NoCommand => Head(items) \in Events
      /\ \A c \in Commands : OneCommand(c) => Head(items) = c /\ NoCommand'
      BY <1>1, ItemTaken DEF PlaybackInv, Types
<1>3. ~NoCommand
      BY <1>1, <1>2, Kinds
<1>4. Types'
      BY <1>1, <1>2 DEF PlaybackInv, Types
<1>5. /\ owner \notin {"loop", "restart"}
      /\ owner = "enable" => OneCommand("EnablePlayback")
      /\ owner \in {"pause", "stop", "switch"} => OneCommand("DisablePlayback")
      BY <1>3, HandshakeCases DEF PlaybackInv
<1>6. "EnablePlayback" \in Commands /\ "DisablePlayback" \in Commands
      BY DEF Commands
<1>7. Handshake'
    <2>1. CASE owner = "enable"
        <3>1. NoCommand'
              BY <1>2, <1>5, <1>6, <2>1
        <3> QED
            BY <1>1, <2>1, <3>1, HandshakeAt
    <2>2. CASE owner \in {"pause", "stop", "switch"}
        <3>1. NoCommand' /\ Head(items) = "DisablePlayback"
              BY <1>2, <1>5, <1>6, <2>2
        <3>2. ~playbackEnabled'
              BY <1>1, <3>1
        <3> QED
            BY <1>1, <2>2, <3>1, <3>2, HandshakeAt
    <2> QED
        BY <1>5, <2>1, <2>2 DEF PlaybackInv, Types
<1>8. Silent => Silent'
      BY <1>1, <1>2 DEF Silent
<1>9. ~overtaken' => Transfer'
      BY <1>1, <1>8, TransferKept DEF PlaybackInv
<1> QED
    BY <1>1, <1>4, <1>7, <1>9 DEF PlaybackInv, Ring

\* A block is pushed: not over the one that is being sent.
LEMMA PushKeeps ==
    ASSUME PlaybackInv, PushBlock
    PROVE  PlaybackInv'
<1>1. /\ playbackEnabled /\ CanPush(stream) /\ count < MaxBlocks
      /\ count' = count + 1 /\ stream' = Push(stream, count + 1)
      /\ items' = items \o StateEvents(stream') \/ items' = items
      /\ sent' = sent /\ dma' = dma
      /\ owner' = owner /\ overtaken' = overtaken
      /\ playbackEnabled' = playbackEnabled /\ stateSemaphore' = stateSemaphore
      BY DEF PushBlock, operation, device
<1>2. MaxBlocks \in Nat /\ count \in 0 .. MaxBlocks
      BY AudioStreamAssumption DEF PlaybackInv, Types
<1>3. count + 1 \in Blocks /\ count' \in 0 .. MaxBlocks
      BY <1>1, <1>2 DEF Blocks
<1>4. /\ RingOf(stream')
      /\ stream'.peekCount = stream.peekCount
      /\ stream'.dataStart = stream.dataStart
      /\ \A p \in Positions : p # stream.dataEnd => stream'.buffer[p] = stream.buffer[p]
      /\ stream.peekCount = 1 => stream.dataEnd # stream.dataStart
      BY <1>1, <1>3, PushFacts DEF PlaybackInv, Ring
<1>5. /\ items' \in Seq(Items)
      /\ NoCommand => NoCommand'
      /\ \A x : OneCommand(x) => OneCommand(x)'
    <2>1. CASE items' = items
          BY <2>1 DEF PlaybackInv, Types, NoCommand, OneCommand
    <2>2. CASE items' = items \o StateEvents(stream')
        <3>1. PICK k : k = StateEvents(stream')
              OBVIOUS
        <3>2. k \in Seq(Events)
              BY <3>1, EventSeqs
        <3>3. items' = items \o k
              BY <2>2, <3>1
        <3> QED
            BY <3>2, <3>3, EventsBehind DEF PlaybackInv, Types
    <2> QED
        BY <1>1, <2>1, <2>2
<1>6. Types'
      BY <1>1, <1>3, <1>5 DEF PlaybackInv, Types
<1>7. Handshake'
      BY <1>1, <1>5, HandshakeKept DEF PlaybackInv
<1>8. ASSUME ~overtaken' PROVE Transfer'
    <2>1. Transfer /\ ~Silent
          BY <1>1, <1>8 DEF PlaybackInv, Silent
    <2> QED
        BY <1>1, <1>4, <2>1 DEF Transfer
<1> QED
    BY <1>4, <1>6, <1>7, <1>8 DEF PlaybackInv, Ring

\* The task stops pushing, also at the end of the file.
LEMMA PushEndKeeps ==
    ASSUME PlaybackInv, PushEnd \/ EndOfFile
    PROVE  PlaybackInv'
<1>1. /\ stream' = stream /\ count' = count /\ sent' = sent /\ dma' = dma
      /\ items' = items /\ owner' = owner /\ overtaken' = overtaken
      /\ playbackEnabled' = playbackEnabled /\ stateSemaphore' = stateSemaphore
      BY DEF PushEnd, EndOfFile, operation, device
<1>2. Handshake'
      BY <1>1, HandshakeKept DEF PlaybackInv, NoCommand, OneCommand
<1>3. ~overtaken' => Transfer'
      BY <1>1, TransferKept DEF PlaybackInv, Silent, NoEnable
<1> QED
    BY <1>1, <1>2, <1>3 DEF PlaybackInv, Ring, Types

-----------------------------------------------------------------------------
(***************************************************************************)
(* The service.                                                            *)
(***************************************************************************)

\* StreamConnection::enable: the stream is reset and the first transfer
\* reads the silence, unless an older one is still there.
LEMMA EnableFacts ==
    ASSUME PlaybackInv, EnableConnection(dma), overtaken' = (dma # <<>>),
           count' = count, playbackEnabled' \in BOOLEAN, ~stateSemaphore',
           stateSemaphore' \in BOOLEAN,
           items' \in Seq(Items), OneCommand("EnablePlayback")'
    PROVE  PlaybackInv'
<1>1. /\ stream' = Reset(stream) /\ sent' = <<>> /\ dma' = Send(dma, NullSpan)
      /\ owner' = "enable"
      BY DEF EnableConnection
<1>2. RingOf(stream')
      BY <1>1, ResetFacts DEF PlaybackInv, Ring
<1>3. BlockCount \in Nat
      BY AudioStreamAssumption
<1>4. NullSpan \in Spans
      BY <1>3 DEF NullSpan, Spans, Silence
<1>5. dma' \in Seq(Spans)
      BY <1>1, <1>4 DEF Send, PlaybackInv, Types
<1>6. sent' \in Seq(Data)
      BY <1>1
<1>7. Types'
      BY <1>1, <1>5, <1>6 DEF PlaybackInv, Types
<1>8. Handshake'
      BY <1>1, HandshakeAt
<1>9. ASSUME ~overtaken' PROVE Transfer'
    <2>1. dma = <<>>
          BY <1>9
    <2>2. Len(dma) < SAI_XFER_QUEUE_SIZE
          BY <2>1 DEF SAI_XFER_QUEUE_SIZE
    <2>3. dma' = Append(dma, NullSpan)
          BY <1>1, <2>2, Zenon DEF Send
    <2>4. PICK x \in Spans : x = NullSpan
          BY <1>4
    <2>5. dma' = Append(<<>>, x)
          BY <2>1, <2>3, <2>4, Zenon
    <2>6. Len(dma') = 1 /\ dma'[1] = x
          BY <2>5
    <2> QED
        BY <2>4, <2>6 DEF Transfer, NullSpan
<1> QED
    BY <1>2, <1>7, <1>8, <1>9 DEF PlaybackInv, Ring

\* Start, with a new worker and its new queue.
LEMMA StartKeeps ==
    ASSUME PlaybackInv, Start
    PROVE  PlaybackInv'
<1>1. items' \in Seq(Items) /\ OneCommand("EnablePlayback")'
      BY FreshQueue DEF Start
<1>2. /\ EnableConnection(dma) /\ overtaken' = (dma # <<>>) /\ count' = count
      /\ playbackEnabled' = FALSE /\ stateSemaphore' = FALSE
      BY DEF Start
<1> QED
    BY <1>1, <1>2, EnableFacts

\* Resume with the connection: the command goes behind what is in the queue.
LEMMA ResumeKeeps ==
    ASSUME PlaybackInv, CallResume
    PROVE  PlaybackInv'
<1>1. CASE Start
      BY <1>1, StartKeeps
<1>2. CASE ~Start
    <2>1. /\ owner = "loop"
          /\ items' = items \o <<"StreamUnderFlow", "EnablePlayback">>
          /\ EnableConnection(dma) /\ overtaken' = (dma # <<>>) /\ count' = count
          /\ playbackEnabled' = playbackEnabled /\ stateSemaphore' = stateSemaphore
          BY <1>2 DEF CallResume, Call, task
    <2>2. NoCommand /\ ~stateSemaphore
          BY <2>1, HandshakeCases DEF PlaybackInv
    <2>3. PICK k : k = <<"StreamUnderFlow", "EnablePlayback">>
          OBVIOUS
    <2>4. "EnablePlayback" \in Commands /\ items' = items \o k
          BY <2>1, <2>3 DEF Commands
    <2>5. items' \in Seq(Items) /\ OneCommand("EnablePlayback")'
          BY <2>2, <2>3, <2>4, CommandBehind DEF PlaybackInv, Types
    <2> QED
        BY <2>1, <2>2, <2>5, EnableFacts DEF PlaybackInv, Types
<1> QED
    BY <1>1, <1>2

\* The worker has answered.
LEMMA EnabledKeeps ==
    ASSUME PlaybackInv, Enabled
    PROVE  PlaybackInv'
<1>1. /\ owner = "enable" /\ stateSemaphore /\ stateSemaphore' = FALSE /\ owner' = "loop"
      /\ stream' = stream /\ count' = count /\ sent' = sent /\ dma' = dma
      /\ items' = items /\ overtaken' = overtaken /\ playbackEnabled' = playbackEnabled
      BY DEF Enabled, device
<1>2. NoCommand'
      BY <1>1, HandshakeCases DEF PlaybackInv, NoCommand
<1>3. Handshake'
      BY <1>1, <1>2, HandshakeAt
<1>4. ~overtaken' => Transfer'
      BY <1>1, TransferKept DEF PlaybackInv, Silent, NoEnable
<1> QED
    BY <1>1, <1>3, <1>4 DEF PlaybackInv, Ring, Types

\* StreamConnection::disable up to the wait.
LEMMA DisableFacts ==
    ASSUME PlaybackInv, owner = "loop", NEW next \in {"pause", "stop", "switch"},
           DisableConnection(next),
           stream' = stream, count' = count, sent' = sent, dma' = dma,
           overtaken' = overtaken, playbackEnabled' = playbackEnabled,
           stateSemaphore' = stateSemaphore
    PROVE  PlaybackInv'
<1>1. NoCommand /\ ~stateSemaphore
      BY HandshakeCases DEF PlaybackInv
<1>2. PICK c \in Commands : c = "DisablePlayback" /\ c # "EnablePlayback"
      BY DEF Commands
<1>3. PICK k : k = <<c>>
      OBVIOUS
<1>4. c \in Items /\ items \in Seq(Items)
      BY DEF Items, PlaybackInv, Types
<1>5. items' = items \o k
      BY <1>2, <1>3, <1>4, AppendIsConcat DEF DisableConnection
<1>6. /\ items' \in Seq(Items) /\ OneCommand(c)'
      /\ NoEnable => NoEnable'
      BY <1>1, <1>2, <1>3, <1>4, <1>5, CommandBehind
<1>7. owner' = next
      BY DEF DisableConnection
<1>8. OneCommand("DisablePlayback")'
      BY <1>2, <1>6
<1>9. Handshake'
      BY <1>1, <1>7, <1>8, HandshakeAt
<1>10. Silent => Silent'
      BY <1>6 DEF Silent
<1>11. ~overtaken' => Transfer'
      BY <1>10, TransferKept DEF PlaybackInv
<1>12. Types'
      BY <1>6, <1>7 DEF PlaybackInv, Types
<1> QED
    BY <1>9, <1>11, <1>12 DEF PlaybackInv, Ring

\* The pause is over: the decoder has been told to stop before the stream
\* is reset, so that what a late transfer reads is still there.
LEMMA PausedKeeps ==
    ASSUME PlaybackInv, Paused
    PROVE  PlaybackInv'
<1>1. /\ owner = "pause" /\ stateSemaphore /\ stateSemaphore' = FALSE /\ owner' = "loop"
      /\ stream' = Reset(stream) /\ count' = count /\ sent' = <<>> /\ dma' = dma
      /\ items' = items /\ overtaken' = overtaken /\ playbackEnabled' = playbackEnabled
      BY DEF Paused
<1>2. NoCommand /\ ~playbackEnabled
      BY <1>1, HandshakeCases DEF PlaybackInv
<1>3. NoCommand'
      BY <1>1, <1>2 DEF NoCommand
<1>4. Handshake'
      BY <1>1, <1>3, HandshakeAt
<1>5. Silent'
      BY <1>1, <1>2, Kinds DEF NoCommand, NoEnable, Silent
<1>6. RingOf(stream') /\ stream'.buffer = stream.buffer
      BY <1>1, ResetFacts DEF PlaybackInv, Ring
<1>7. ~overtaken' => Transfer'
      BY <1>1, <1>5, <1>6 DEF PlaybackInv, Transfer
<1>8. Types'
      BY <1>1, EmptySeqs DEF PlaybackInv, Types
<1> QED
    BY <1>4, <1>6, <1>7, <1>8 DEF PlaybackInv, Ring

\* The connection, the worker and the stream are gone, and the device is
\* stopped.
LEMMA ShutdownFacts ==
    ASSUME PlaybackInv, Shutdown, count' = count, owner' \in {"loop", "restart"}
    PROVE  PlaybackInv'
<1>1. /\ stream' = NewStream /\ sent' = <<>> /\ dma' = <<>> /\ items' = <<>>
      /\ playbackEnabled' = FALSE /\ stateSemaphore' = FALSE
      BY DEF Shutdown
<1>2. RingOf(stream')
      BY <1>1, ResetFacts DEF PlaybackInv, Ring
<1>3. Types'
      BY <1>1, EmptySeqs DEF PlaybackInv, Types
<1>4. NoCommand'
      BY <1>1 DEF NoCommand
<1>5. Handshake'
      BY <1>1, <1>4, HandshakeAt
<1>6. Transfer'
      BY <1>1 DEF Transfer
<1> QED
    BY <1>2, <1>3, <1>5, <1>6 DEF PlaybackInv, Ring

-----------------------------------------------------------------------------

\* The invariant holds at first.
LEMMA PlaybackInitially == Init => PlaybackInv
<1> SUFFICES ASSUME Init PROVE PlaybackInv
    OBVIOUS
<1>1. BlockCount \in Nat \ {0} /\ SizeT \in Nat /\ SizeT > 2 * BlockCount /\ MaxBlocks \in Nat
      BY AudioStreamAssumption
<1>2. RingOf(stream)
    <2>1. 0 \in Positions /\ 0 \in 0 .. (SizeT - 1)
          BY <1>1 DEF Positions
    <2>2. stream \in Streams
          BY <2>1 DEF Init, NewStream, Streams
    <2>3. (0 + 0) % BlockCount = 0
          BY <1>1
    <2> QED
        BY <1>1, <2>2, <2>3 DEF Init, NewStream, RingOf
<1>3. Types
    <2>1. count \in 0 .. MaxBlocks
          BY <1>1 DEF Init
    <2>2. /\ owner \in {"loop", "enable", "pause", "stop", "switch", "restart"}
          /\ playbackEnabled \in BOOLEAN /\ stateSemaphore \in BOOLEAN
          BY DEF Init
    <2>3. sent \in Seq(Data) /\ items \in Seq(Items) /\ dma \in Seq(Spans)
          BY EmptySeqs DEF Init
    <2> QED
        BY <2>1, <2>2, <2>3 DEF Types
<1>4. NoCommand
      BY DEF Init, NoCommand
<1>5. Handshake
      BY <1>4 DEF Init, Handshake
<1> QED
    BY <1>2, <1>3, <1>5 DEF Init, PlaybackInv, Ring, Transfer

\* The invariant is inductive.
LEMMA PlaybackInductive == PlaybackInv /\ [Next]_vars => PlaybackInv'
<1> SUFFICES ASSUME PlaybackInv, [Next]_vars PROVE PlaybackInv'
    OBVIOUS
<1>1. CASE vars' = vars
    <2>1. /\ stream' = stream /\ count' = count /\ sent' = sent /\ dma' = dma
          /\ items' = items /\ owner' = owner /\ overtaken' = overtaken
          /\ playbackEnabled' = playbackEnabled /\ stateSemaphore' = stateSemaphore
          BY <1>1 DEF vars
    <2>2. Handshake'
          BY <2>1, HandshakeKept DEF PlaybackInv, NoCommand, OneCommand
    <2>3. ~overtaken' => Transfer'
          BY <2>1, TransferKept DEF PlaybackInv, Silent, NoEnable
    <2> QED
        BY <2>1, <2>2, <2>3 DEF PlaybackInv, Ring, Types
<1>2. CASE WorkerStep
      BY <1>2, HandleEventKeeps, HandleCommandKeeps, PushKeeps, PushEndKeeps DEF WorkerStep
<1>3. CASE Stopped
    <2>1. Shutdown /\ count' = count /\ owner' \in {"loop", "restart"}
          BY <1>3 DEF Stopped
    <2> QED
        BY <2>1, ShutdownFacts
<1>4. CASE Restart
      BY <1>4, StartKeeps DEF Restart
<1>5. CASE DeviceStep
      BY <1>5, SendKeeps, SendDisabledKeeps DEF DeviceStep
<1>6. CASE CallStart
      BY <1>6, StartKeeps DEF CallStart
<1>7. CASE CallPause
    <2>1. /\ owner = "loop" /\ DisableConnection("pause")
          /\ stream' = stream /\ count' = count /\ sent' = sent /\ dma' = dma
          /\ overtaken' = overtaken /\ playbackEnabled' = playbackEnabled
          /\ stateSemaphore' = stateSemaphore
          BY <1>7 DEF CallPause, Call, task, device
    <2> QED
        BY <2>1, DisableFacts
<1>8. CASE CallStop
    <2>1. CASE Shutdown
        <3>1. count' = count /\ owner' \in {"loop", "restart"}
              BY <1>8, <2>1 DEF CallStop, Call, DisableConnection, Shutdown, task
        <3> QED
            BY <2>1, <3>1, ShutdownFacts
    <2>2. CASE ~Shutdown
        <3>1. /\ owner = "loop" /\ DisableConnection("stop")
              /\ stream' = stream /\ count' = count /\ sent' = sent /\ dma' = dma
              /\ overtaken' = overtaken /\ playbackEnabled' = playbackEnabled
              /\ stateSemaphore' = stateSemaphore
              BY <1>8, <2>2 DEF CallStop, Call, task, device
        <3> QED
            BY <3>1, DisableFacts
    <2> QED
        BY <2>1, <2>2
<1>9. CASE CallSwitchProfile
    <2>1. CASE Shutdown
        <3>1. count' = count /\ owner' \in {"loop", "restart"}
              BY <1>9, <2>1 DEF CallSwitchProfile, Call, DisableConnection, Shutdown, task
        <3> QED
            BY <2>1, <3>1, ShutdownFacts
    <2>2. CASE ~Shutdown
        <3>1. /\ owner = "loop" /\ DisableConnection("switch")
              /\ stream' = stream /\ count' = count /\ sent' = sent /\ dma' = dma
              /\ overtaken' = overtaken /\ playbackEnabled' = playbackEnabled
              /\ stateSemaphore' = stateSemaphore
              BY <1>9, <2>2 DEF CallSwitchProfile, Call, task, device
        <3> QED
            BY <3>1, DisableFacts
    <2> QED
        BY <2>1, <2>2
<1> QED
    BY <1>1, <1>2, <1>3, <1>4, <1>5, <1>6, <1>7, <1>8, <1>9, EnabledKeeps, PausedKeeps,
       ResumeKeeps DEF Next, OwnerStep

\* The block that the DMA engine reads is the block that was in the buffer
\* when onDataSend gave it to SAI_TransferSendEDMA, as long as transfers come
\* one after the other: pushAudioData never writes over it.
THEOREM BlocksIntact == Spec => []NoTornBlock
<1>1. PlaybackInv => NoTornBlock
    <2> SUFFICES ASSUME PlaybackInv, ~overtaken, NEW i \in 1 .. Len(dma), dma[i] # NullSpan
                 PROVE  stream.buffer[dma[i].position] = dma[i].block
        BY DEF NoTornBlock
    <2>1. dma \in Seq(Spans) /\ Transfer
          BY DEF PlaybackInv, Types
    <2>2. Len(dma) = 1 /\ i = 1
        <3>1. dma # <<>>
              BY <2>1
        <3> QED
            BY <2>1, <3>1 DEF Transfer
    <2>3. dma # <<>> /\ dma[1] # NullSpan
          BY <2>1, <2>2
    <2>4. stream.buffer[dma[1].position] = dma[1].block
          BY <2>1, <2>3, Zenon DEF Transfer
    <2> QED
        BY <2>2, <2>4
<1>2. Spec => []PlaybackInv
      BY PlaybackInitially, PlaybackInductive, PTL DEF Spec
<1> QED
    BY <1>1, <1>2, PTL

-----------------------------------------------------------------------------
(***************************************************************************)
(* The stream is a queue.                                                  *)
(***************************************************************************)

\* A stream with no blocks in use is the empty queue.
LEMMA QueueInitially == Init => Queue!Init
<1> SUFFICES ASSUME Init PROVE Queue!Init
    OBVIOUS
<1>1. RingOf(stream) /\ stream = NewStream /\ sent = <<>>
      BY PlaybackInitially DEF Init, PlaybackInv, Ring
<1>2. DataOf(stream) = <<>> /\ stream.peekCount = 0
      BY <1>1, ResetFacts
<1> QED
    BY <1>1, <1>2 DEF Queue!Init, DataOf

\* push is Write.
LEMMA PushIsWrite ==
    ASSUME PlaybackInv, PushBlock
    PROVE  Queue!Next
<1>1. /\ CanPush(stream) /\ count < MaxBlocks
      /\ stream' = Push(stream, count + 1) /\ sent' = sent
      BY DEF PushBlock
<1>2. PICK b \in Blocks : b = count + 1
    <2>1. MaxBlocks \in Nat /\ count \in 0 .. MaxBlocks
          BY AudioStreamAssumption DEF PlaybackInv, Types
    <2> QED
        BY <1>1, <2>1 DEF Blocks
<1>3. RingOf(stream) /\ stream' = Push(stream, b)
      BY <1>1, <1>2 DEF PlaybackInv, Ring
<1>4. /\ stream.blocksUsed < BlockCount
      /\ DataOf(stream') = Append(DataOf(stream), b)
      /\ stream'.peekCount = stream.peekCount
      BY <1>1, <1>3, PushFacts
<1>5. Len(DataOf(stream)) = stream.blocksUsed
      BY <1>3, DataIsSeq DEF RingOf
<1>6. Queue!Write(b)
      BY <1>1, <1>4, <1>5 DEF Queue!Write, DataOf
<1> QED
    BY <1>6 DEF Queue!Next

\* consume and peek are ReadNext.
LEMMA SendIsRead ==
    ASSUME PlaybackInv, onDataSend
    PROVE  Queue!Next
<1>1. PICK c : c = Consume(stream)
      OBVIOUS
<1>2. /\ stream' = Peek(c)
      /\ sent' = IF CanPeek(c) THEN Append(sent, SpanOf(c).block) ELSE sent
      BY <1>1 DEF onDataSend
<1>3. RingOf(stream)
      BY DEF PlaybackInv, Ring
<1>4. PICK r : r = SubSeq(DataOf(stream), stream.peekCount + 1, Len(DataOf(stream)))
      OBVIOUS
<1>5. /\ RingOf(stream')
      /\ DataOf(stream') = r
      /\ CanPeek(c) <=> stream'.blocksUsed # 0
      /\ stream'.blocksUsed = 0 => stream'.peekCount = 0
      /\ CanPeek(c) => /\ stream'.peekCount = 1
                       /\ c.peekPosition = stream'.dataStart
                       /\ c.buffer = stream.buffer
                       /\ DataOf(stream')[1] = stream.buffer[stream'.dataStart]
    <2>1. PICK s, n : s = stream /\ n = stream'
          OBVIOUS
    <2>2. RingOf(s) /\ c = Consume(s) /\ n = Peek(c)
          BY <1>1, <1>2, <1>3, <2>1
    <2>3. RingOf(n)
          BY <2>2, ReadFacts
    <2>4. DataOf(n) = SubSeq(DataOf(s), s.peekCount + 1, Len(DataOf(s)))
          BY <2>2, ReadFacts
    <2>5. CanPeek(c) <=> n.blocksUsed # 0
          BY <2>2, ReadFacts
    <2>6. n.blocksUsed = 0 => n.peekCount = 0
          BY <2>2, ReadFacts
    <2>7. CanPeek(c) => /\ n.peekCount = 1
                        /\ c.peekPosition = n.dataStart
                        /\ c.buffer = s.buffer
                        /\ DataOf(n)[1] = s.buffer[n.dataStart]
          BY <2>2, ReadFacts
    <2>8. DataOf(n) = r
          BY <1>4, <2>1, <2>4
    <2> QED
        BY <2>1, <2>3, <2>5, <2>6, <2>7, <2>8
<1>6. r \in Seq(Data) /\ Len(r) = stream'.blocksUsed
      BY <1>5, DataIsSeq DEF RingOf
<1>7. CanPeek(c) <=> r # <<>>
      BY <1>5, <1>6
<1>8. stream'.peekCount = IF r = <<>> THEN 0 ELSE 1
      BY <1>5, <1>6, <1>7
<1>9. sent' = IF r = <<>> THEN sent ELSE Append(sent, Head(r))
    <2>1. CASE CanPeek(c)
        <3>1. SpanOf(c).block = c.buffer[c.peekPosition]
              BY <2>1 DEF SpanOf
        <3>2. r # <<>> /\ Head(r) = r[1]
              BY <1>6, <1>7, <2>1
        <3>3. Head(r) = SpanOf(c).block
              BY <1>5, <2>1, <3>1, <3>2
        <3> QED
            BY <1>2, <2>1, <3>2, <3>3
    <2>2. CASE ~CanPeek(c)
          BY <1>2, <1>7, <2>2
    <2> QED
        BY <2>1, <2>2
<1>10. Queue!Rest = r
      BY <1>4 DEF Queue!Rest, DataOf
<1>11. Queue!ReadNext
      BY <1>5, <1>8, <1>9, <1>10 DEF Queue!ReadNext, DataOf
<1> QED
    BY <1>11 DEF Queue!Next

\* reset and a new stream are Reset.
LEMMA ResetIsReset ==
    ASSUME PlaybackInv, stream' \in {Reset(stream), NewStream}, sent' = <<>>
    PROVE  Queue!Next
<1>1. RingOf(stream)
      BY DEF PlaybackInv, Ring
<1>2. DataOf(stream') = <<>> /\ stream'.peekCount = 0
      BY <1>1, ResetFacts
<1>3. Queue!Reset
      BY <1>2 DEF Queue!Reset, DataOf
<1> QED
    BY <1>3 DEF Queue!Next

\* The other steps leave the stream and what was seen of it alone.
LEMMA OtherSteps ==
    ASSUME [Next]_vars
    PROVE  \/ PushBlock
           \/ onDataSend
           \/ stream' \in {Reset(stream), NewStream} /\ sent' = <<>>
           \/ stream' = stream /\ sent' = sent
<1>1. CASE vars' = vars
      BY <1>1 DEF vars
<1>2. CASE HandleEvent \/ HandleCommand \/ PushEnd \/ EndOfFile \/ onDataSendDisabled \/ Enabled
      BY <1>2 DEF HandleEvent, HandleCommand, PushEnd, EndOfFile, onDataSendDisabled, Enabled
<1>3. CASE Paused \/ Stopped \/ Restart \/ CallStart
      BY <1>3 DEF Paused, Stopped, Shutdown, Restart, CallStart, Start, EnableConnection
<1>4. CASE CallResume \/ CallPause
      BY <1>4 DEF CallResume, CallPause, Start, EnableConnection
<1>5. CASE CallStop \/ CallSwitchProfile
      BY <1>5 DEF CallStop, CallSwitchProfile, Shutdown
<1> QED
    BY <1>1, <1>2, <1>3, <1>4, <1>5 DEF Next, WorkerStep, OwnerStep, DeviceStep

\* "The data is stored in blocks and accessed just like in a regular FIFO"
\* (AbstractStream.hpp): whatever the task, the interrupt and the service do,
\* the blocks in use are those pushed and not consumed, in their order, and
\* the sink sees every block once, in the order in which it was decoded.
THEOREM StreamIsFifo == Spec => IsFifo
<1>1. PlaybackInv /\ [Next]_vars => [Queue!Next]_(Queue!vars)
    <2> SUFFICES ASSUME PlaybackInv, [Next]_vars PROVE [Queue!Next]_(Queue!vars)
        OBVIOUS
    <2>1. CASE stream' = stream /\ sent' = sent
          BY <2>1 DEF Queue!vars
    <2>2. CASE PushBlock
          BY <2>2, PushIsWrite
    <2>3. CASE onDataSend
          BY <2>3, SendIsRead
    <2>4. CASE stream' \in {Reset(stream), NewStream} /\ sent' = <<>>
          BY <2>4, ResetIsReset
    <2> QED
        BY <2>1, <2>2, <2>3, <2>4, OtherSteps
<1>2. Spec => []PlaybackInv
      BY PlaybackInitially, PlaybackInductive, PTL DEF Spec
<1> QED
    BY <1>1, <1>2, QueueInitially, PTL DEF Spec, IsFifo, Queue!Spec
=============================================================================
