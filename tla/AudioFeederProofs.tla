-------------------------- MODULE AudioFeederProofs ---------------------------
(***************************************************************************)
(* Proofs about the recording process: AudioFeeder's inductive invariant,  *)
(* and what follows from it for every ring size, frame size, buffer size,  *)
(* counter width and set of capture packet sizes.                          *)
(***************************************************************************)
EXTENDS AudioFeeder, TLAPS

\* The arithmetic facts about the constants that the steps below use.
LEMMA Constants ==
  /\ CircularBufferSize \in Nat /\ CircularBufferSize > 0
  /\ LongRange \in Nat
  /\ LongMax \in Nat /\ LongMin = -LongMax - 1 /\ LongRange = 2 * LongMax + 2
  /\ 2 * CircularBufferSize <= LongMax
  /\ Long = LongMin..LongMax
  /\ \A n \in StoreSizes : n \in Int /\ n > 0 /\ n <= CircularBufferSize
  BY SizeAssumption, StoreAssumption, LongAssumption DEF LongMax, LongMin, Long

\* A long stays a long: the sum or difference of two longs is cut back into
\* range by one turn at most.
LEMMA WrapLong ==
  ASSUME NEW x \in Int, x >= 2 * LongMin, x <= 2 * LongMax + 1
  PROVE  /\ Wrap(x) \in Long
         /\ Wrap(x) = x \/ Wrap(x) = x - LongRange \/ Wrap(x) = x + LongRange
         /\ x \in Long => Wrap(x) = x
  BY Constants DEF Wrap

\* An index of the ring moved by less than one turn wraps at most once.
LEMMA ModRing ==
  ASSUME NEW x \in Int
  PROVE  /\ x % CircularBufferSize \in Slots
         /\ x >= 0 /\ x < CircularBufferSize => x % CircularBufferSize = x
         /\ x >= CircularBufferSize /\ x < 2 * CircularBufferSize =>
              x % CircularBufferSize = x - CircularBufferSize
  BY Constants DEF Slots

\* Whole frames are at least one and fit in the room they are cut from.
LEMMA WholeFramesBound ==
  ASSUME NEW b \in Nat, b >= BlockAlign
  PROVE  WholeFrames(b) \in 1..b
  BY SizeAssumption DEF WholeFrames

\* Until the ring is overrun, the slot a byte falls on still holds it: reading k
\* bytes past the read position finds byte taken + k of the stream.
LEMMA UnreadIsInRing ==
  ASSUME TypeOK, StoreInv,
         NEW k \in Nat, k < written - taken
  PROVE  /\ ReadIndex + k < CircularBufferSize =>
              CircularBuffer[ReadIndex + k] = taken + k
         /\ ReadIndex + k >= CircularBufferSize =>
              /\ ReadIndex + k - CircularBufferSize \in Slots
              /\ CircularBuffer[ReadIndex + k - CircularBufferSize] = taken + k
<1>1. ASSUME ReadIndex + k < CircularBufferSize
      PROVE  CircularBuffer[ReadIndex + k] = taken + k
  <2>1. ReadIndex + k \in Slots
    BY <1>1, Constants DEF TypeOK, Slots
  <2>2. CircularBuffer[ReadIndex + k] =
          LET base == written - WriteIndex
              top  == WriteIndex + Copied
          IN IF ReadIndex + k < top - CircularBufferSize
               THEN base + (ReadIndex + k) + CircularBufferSize
             ELSE IF ReadIndex + k < top THEN base + (ReadIndex + k)
             ELSE base + (ReadIndex + k) - CircularBufferSize
    BY <2>1 DEF StoreInv, RingContent
  <2> QED
    BY <2>1, <2>2, Constants
    DEF TypeOK, Slots, StoreInv, ReadAligned, NotOverrun, StoreInProgress,
        Copied, CanCopyToEnd, FitsAtEnd
<1>2. ASSUME ReadIndex + k >= CircularBufferSize
      PROVE  /\ ReadIndex + k - CircularBufferSize \in Slots
             /\ CircularBuffer[ReadIndex + k - CircularBufferSize] = taken + k
  <2> DEFINE s == ReadIndex + k - CircularBufferSize
  <2>1. s \in Slots
    BY <1>2, Constants DEF TypeOK, Slots, StoreInv, NotOverrun
  <2>2. CircularBuffer[s] =
          LET base == written - WriteIndex
              top  == WriteIndex + Copied
          IN IF s < top - CircularBufferSize THEN base + s + CircularBufferSize
             ELSE IF s < top THEN base + s
             ELSE base + s - CircularBufferSize
    BY <2>1 DEF StoreInv, RingContent
  <2> QED
    BY <1>2, <2>1, <2>2, Constants
    DEF TypeOK, Slots, StoreInv, ReadAligned, NotOverrun, StoreInProgress,
        Copied, CanCopyToEnd, FitsAtEnd
<1> QED
  BY <1>1, <1>2

-----------------------------------------------------------------------------
(* Type correctness                                                        *)

\* The difference GetNetworkPacket computes at line 301 is a long again.
LEMMA AvailableLong ==
  ASSUME TypeOK
  PROVE  Available \in Long
<1>1. /\ TotalBytesStored - TotalBytesRead \in Int
      /\ TotalBytesStored - TotalBytesRead >= 2 * LongMin
      /\ TotalBytesStored - TotalBytesRead <= 2 * LongMax + 1
  BY Constants DEF TypeOK
<1> QED
  BY <1>1, WrapLong DEF Available

\* One step of the recording thread, one of the feeder or a new client leaves
\* every variable in its type.
LEMMA TypeNext ==
  ASSUME TypeOK, [Next]_vars
  PROVE  TypeOK'
<1>1. ASSUME NEW n \in StoreSizes, StoreToEnd(n), UNCHANGED connected
      PROVE  TypeOK'
  <2>1. n \in Nat /\ n <= CircularBufferSize
    BY Constants
  <2>2. CircularBuffer' \in [Slots -> Int]
    BY <1>1, <2>1, Constants DEF StoreToEnd, TypeOK, Slots
  <2> QED
    BY <1>1, <2>1, <2>2, Constants DEF StoreToEnd, TypeOK, readerVars
<1>2. ASSUME StoreBeginning, UNCHANGED connected
      PROVE  TypeOK'
  <2>1. CircularBuffer' \in [Slots -> Int]
    BY <1>2, Constants DEF StoreBeginning, SecondPart, TypeOK, Slots, CanCopyToEnd
  <2> QED
    BY <1>2, <2>1, Constants DEF StoreBeginning, TypeOK, readerVars
<1>3. ASSUME StorePublish, UNCHANGED connected
      PROVE  TypeOK'
  <2>1. TotalBytesStored' \in Long
    <3>1. /\ TotalBytesStored + ByteCount \in Int
          /\ TotalBytesStored + ByteCount >= 2 * LongMin
          /\ TotalBytesStored + ByteCount <= 2 * LongMax + 1
      BY Constants DEF TypeOK
    <3> QED
      BY <1>3, <3>1, WrapLong DEF StorePublish, Counted
  <2>2. WriteIndex' \in 0..CircularBufferSize
    BY <1>3, Constants
    DEF StorePublish, TypeOK, IndexAfterStore, FitsAtEnd, CanCopyToEnd
  <2> QED
    BY <1>3, <2>1, <2>2, Constants DEF StorePublish, TypeOK, readerVars
<1>4. ASSUME Poll \/ CheckAvailable
      PROVE  TypeOK'
  BY <1>4 DEF Poll, CheckAvailable, TypeOK, writerVars
<1>5. ASSUME SkipLost
      PROVE  TypeOK'
  <2>1. TotalBytesRead' \in Long
    <3>1. /\ TotalBytesStored - CircularBufferSize \in Int
          /\ TotalBytesStored - CircularBufferSize >= 2 * LongMin
          /\ TotalBytesStored - CircularBufferSize <= 2 * LongMax + 1
      BY Constants DEF TypeOK
    <3> QED
      BY <1>5, <3>1, WrapLong DEF SkipLost, TypeOK
  <2> QED
    BY <1>5, <2>1, Constants DEF SkipLost, TypeOK, writerVars
<1>6. ASSUME SizePacket
      PROVE  TypeOK'
  <2>1. toRead' \in Long
    <3>1. CASE BuffSize < Available
      <4>1. BuffSize - HeaderSize \in Nat /\ BuffSize - HeaderSize >= BlockAlign
        BY PacketAssumption, SizeAssumption
      <4>2. WholeFrames(BuffSize - HeaderSize) \in 1..(BuffSize - HeaderSize)
        BY <4>1, WholeFramesBound
      <4> QED
        BY <1>6, <3>1, <4>1, <4>2, AvailableLong, Constants, PacketAssumption
        DEF SizePacket, PacketBytes
    <3>2. CASE ~(BuffSize < Available)
      BY <1>6, <3>2, AvailableLong DEF SizePacket, PacketBytes
    <3> QED
      BY <3>1, <3>2
  <2> QED
    BY <1>6, <2>1 DEF SizePacket, TypeOK, writerVars
<1>7. ASSUME CopyPacketToEnd \/ CopyPacketBeginning
      PROVE  TypeOK'
  BY <1>7
  DEF CopyPacketToEnd, CopyPacketBeginning, CopyToEnd, CopyBeginning, TypeOK,
      writerVars
<1>8. ASSUME AdvancePacket
      PROVE  TypeOK'
  <2>1. TotalBytesRead' \in Long
    <3>1. /\ TotalBytesRead + toRead \in Int
          /\ TotalBytesRead + toRead >= 2 * LongMin
          /\ TotalBytesRead + toRead <= 2 * LongMax + 1
      BY Constants DEF TypeOK
    <3> QED
      BY <1>8, <3>1, WrapLong DEF AdvancePacket, Advance
  <2>2. ReadIndex' \in Slots
    <3>1. ReadIndex + toRead \in Int
      BY Constants DEF TypeOK, Slots
    <3> QED
      BY <1>8, <3>1, ModRing DEF AdvancePacket, Advance, IndexAfterRead
  <2> QED
    BY <1>8, <2>1, <2>2, Constants DEF AdvancePacket, Advance, TypeOK, writerVars
<1>9. ASSUME NEW ok \in BOOLEAN, SendToAll(ok)
      PROVE  TypeOK'
  BY <1>9 DEF SendToAll, TypeOK, writerVars
<1>10. ASSUME Accept
       PROVE  TypeOK'
  BY <1>10 DEF Accept, TypeOK, storeVars, writerVars, readerVars
<1>11. ASSUME UNCHANGED vars
       PROVE  TypeOK'
  BY <1>11 DEF vars, TypeOK, storeVars, writerVars, readerVars
<1> QED
  BY <1>1, <1>2, <1>3, <1>4, <1>5, <1>6, <1>7, <1>8, <1>9, <1>10, <1>11
  DEF Next, Record, StoreData, Feeder

\* The ring, the counters and the feeder start inside their types.
LEMMA TypeInit == ASSUME Init PROVE TypeOK
<1>1. 0 \in Long /\ 0 \in Slots /\ 0 \in 0..CircularBufferSize
  BY Constants DEF Slots
<1>2. CircularBuffer \in [Slots -> Int]
  BY Constants DEF Init, InitStore, Slots
<1>3. lapped \in BOOLEAN /\ connected \in BOOLEAN
  BY Zenon DEF Init, InitStore
<1>4. 0 \in Nat /\ 0 \in Int
  OBVIOUS
<1> QED
  BY <1>1, <1>2, <1>3, <1>4, Zenon DEF Init, InitStore, TypeOK

\* Every variable keeps its type, and the indices stay inside the ring, for every
\* value of the constants.
THEOREM FeederTypeOK == Spec => []TypeOK
BY TypeInit, TypeNext, PTL DEF Spec

-----------------------------------------------------------------------------
(* What a store leaves in the ring, lapped or not                          *)

\* The first piece of a capture packet lands in the slots behind WriteIndex.
LEMMA StoreToEndRing ==
  ASSUME TypeOK, RingContent, NEW n \in StoreSizes, StoreToEnd(n)
  PROVE  RingContent'
<1> USE Constants
<1>1. /\ n \in Nat /\ n > 0 /\ n <= CircularBufferSize
      /\ wpc = "idle" /\ ByteCount' = n
      /\ wpc' = IF FitsAtEnd(WriteIndex, n) THEN "publish" ELSE "wrap"
      /\ UNCHANGED <<WriteIndex, written>>
  BY DEF StoreToEnd, readerVars, TypeOK
<1> SUFFICES ASSUME NEW i \in Slots
             PROVE  (CircularBuffer[i] =
                      LET base == written - WriteIndex
                          top  == WriteIndex + Copied
                      IN IF i < top - CircularBufferSize
                           THEN base + i + CircularBufferSize
                         ELSE IF i < top THEN base + i
                         ELSE base + i - CircularBufferSize)'
  BY DEF RingContent, Slots
<1>2. CircularBuffer[i] = IF i < WriteIndex
                          THEN written - WriteIndex + i
                          ELSE written - WriteIndex + i - CircularBufferSize
  BY <1>1 DEF RingContent, Copied, TypeOK, Slots
<1>3. CircularBuffer'[i] = IF i >= WriteIndex /\ i < WriteIndex + n
                           THEN written + (i - WriteIndex)
                           ELSE CircularBuffer[i]
  BY DEF StoreToEnd
<1>4. (WriteIndex + Copied)' =
        IF FitsAtEnd(WriteIndex, n) THEN WriteIndex + n
                                    ELSE CircularBufferSize
  BY <1>1 DEF Copied, CanCopyToEnd, TypeOK
<1> QED
  BY <1>1, <1>2, <1>3, <1>4 DEF TypeOK, Slots, FitsAtEnd

\* The second piece, from slot 0, completes it.
LEMMA StoreBeginningRing ==
  ASSUME TypeOK, RingContent, StoreInProgress, StoreBeginning
  PROVE  RingContent'
<1> USE Constants
<1>1. /\ wpc = "wrap" /\ wpc' = "publish"
      /\ ByteCount > CircularBufferSize - WriteIndex
      /\ ByteCount <= CircularBufferSize
      /\ UNCHANGED <<WriteIndex, written, ByteCount>>
  BY DEF StoreBeginning, StoreInProgress, FitsAtEnd, TypeOK
<1> SUFFICES ASSUME NEW i \in Slots
             PROVE  (CircularBuffer[i] =
                      LET base == written - WriteIndex
                          top  == WriteIndex + Copied
                      IN IF i < top - CircularBufferSize
                           THEN base + i + CircularBufferSize
                         ELSE IF i < top THEN base + i
                         ELSE base + i - CircularBufferSize)'
  BY DEF RingContent, Slots
<1>2. CircularBuffer[i] = written - WriteIndex + i
  BY <1>1 DEF RingContent, Copied, CanCopyToEnd, TypeOK, Slots
<1>3. CircularBuffer'[i] =
        IF i < ByteCount - (CircularBufferSize - WriteIndex)
        THEN written + (CircularBufferSize - WriteIndex) + i
        ELSE CircularBuffer[i]
  BY DEF StoreBeginning, SecondPart, CanCopyToEnd
<1>4. (WriteIndex + Copied)' = WriteIndex + ByteCount
  BY <1>1 DEF Copied, CanCopyToEnd, TypeOK
<1> QED
  BY <1>1, <1>2, <1>3, <1>4 DEF TypeOK, Slots

\* Moving WriteIndex and counting the bytes changes no slot.
LEMMA StorePublishRing ==
  ASSUME TypeOK, RingContent, StoreInProgress, StorePublish
  PROVE  RingContent'
<1> USE Constants
<1>1. /\ wpc = "publish" /\ wpc' = "idle"
      /\ ByteCount > 0 /\ ByteCount <= CircularBufferSize
      /\ written' = written + ByteCount
      /\ WriteIndex' = IF WriteIndex + ByteCount <= CircularBufferSize
                       THEN WriteIndex + ByteCount
                       ELSE ByteCount - (CircularBufferSize - WriteIndex)
      /\ UNCHANGED CircularBuffer
  BY DEF StorePublish, StoreInProgress, IndexAfterStore, FitsAtEnd, CanCopyToEnd,
         TypeOK
<1> SUFFICES ASSUME NEW i \in Slots
             PROVE  (CircularBuffer[i] =
                      LET base == written - WriteIndex
                          top  == WriteIndex + Copied
                      IN IF i < top - CircularBufferSize
                           THEN base + i + CircularBufferSize
                         ELSE IF i < top THEN base + i
                         ELSE base + i - CircularBufferSize)'
  BY DEF RingContent, Slots
<1>2. CircularBuffer[i] =
        IF i < WriteIndex + ByteCount - CircularBufferSize
          THEN written - WriteIndex + i + CircularBufferSize
        ELSE IF i < WriteIndex + ByteCount THEN written - WriteIndex + i
        ELSE written - WriteIndex + i - CircularBufferSize
  BY <1>1 DEF RingContent, Copied, CanCopyToEnd, TypeOK, Slots
<1>3. (WriteIndex + Copied)' = WriteIndex'
  BY <1>1 DEF Copied, TypeOK
<1> QED
  BY <1>1, <1>2, <1>3 DEF TypeOK, Slots

-----------------------------------------------------------------------------
(* The ring, the counters and the packet                                   *)

\* Until the ring is overrun, the difference of the two longs is the backlog,
\* on whichever turns of the counter they are.
LEMMA AvailableIsBacklog ==
  ASSUME TypeOK, StoreInv
  PROVE  Available = written - taken
  BY Constants
  DEF Available, Wrap, TypeOK, StoreInv, CountersAgree, NotOverrun

\* Writing the first piece of a capture packet puts the right bytes in the slots
\* behind WriteIndex and touches nothing the feeder has still to read.
LEMMA StoreToEndInv ==
  ASSUME TypeOK, StoreInv, PacketInv, ~lapped',
         NEW n \in StoreSizes, StoreToEnd(n)
  PROVE  StoreInv' /\ PacketInv'
<1> USE Constants
<1>1. /\ n \in Nat /\ n > 0 /\ n <= CircularBufferSize
      /\ wpc = "idle" /\ ByteCount' = n
      /\ wpc' = IF FitsAtEnd(WriteIndex, n) THEN "publish" ELSE "wrap"
      /\ UNCHANGED <<WriteIndex, ReadIndex, TotalBytesStored, TotalBytesRead,
                     written, taken>>
  BY DEF StoreToEnd, readerVars, TypeOK
<1>0. written + n - taken <= CircularBufferSize
  <2>1. ~(written + n - taken > CircularBufferSize)
    BY Zenon DEF StoreToEnd
  <2> QED
    BY <1>1, <2>1 DEF TypeOK
<1>2. RingContent'
  BY StoreToEndRing DEF StoreInv
<1>3. ReadAligned' /\ CountersAgree'
  BY <1>1 DEF StoreInv, ReadAligned, CountersAgree
<1>4. NotOverrun' /\ StoreInProgress'
  BY <1>0, <1>1 DEF StoreInv, NotOverrun, StoreInProgress, FitsAtEnd, TypeOK
<1>5. PacketInv'
  BY DEF StoreToEnd, PacketInv, readerVars, ReadsAtEnd, FitsAtEnd, CanCopyToEnd
<1> QED
  BY <1>2, <1>3, <1>4, <1>5 DEF StoreInv

\* Writing the second piece, from slot 0, completes the bytes of a packet that
\* does not fit at the end of the ring.
LEMMA StoreBeginningInv ==
  ASSUME TypeOK, StoreInv, PacketInv, StoreBeginning
  PROVE  StoreInv' /\ PacketInv'
<1> USE Constants
<1>1. /\ wpc = "wrap" /\ wpc' = "publish"
      /\ UNCHANGED <<WriteIndex, ReadIndex, TotalBytesStored, TotalBytesRead,
                     written, taken, ByteCount>>
  BY DEF StoreBeginning, readerVars
<1>2. /\ ByteCount > CircularBufferSize - WriteIndex
      /\ ByteCount <= CircularBufferSize
  BY <1>1 DEF StoreInv, StoreInProgress, FitsAtEnd, TypeOK
<1>3. RingContent'
  BY StoreBeginningRing DEF StoreInv
<1>4. ReadAligned' /\ CountersAgree'
  BY <1>1 DEF StoreInv, ReadAligned, CountersAgree
<1>5. NotOverrun' /\ StoreInProgress'
  BY <1>1 DEF StoreInv, NotOverrun, StoreInProgress
<1>6. PacketInv'
  BY DEF StoreBeginning, PacketInv, readerVars, ReadsAtEnd, FitsAtEnd,
         CanCopyToEnd
<1> QED
  BY <1>3, <1>4, <1>5, <1>6 DEF StoreInv

\* Moving WriteIndex and TotalBytesStored makes the bytes just written part of
\* the stored stream.
LEMMA StorePublishInv ==
  ASSUME TypeOK, TypeOK', StoreInv, PacketInv, StorePublish
  PROVE  StoreInv' /\ PacketInv'
<1> USE Constants
<1>1. /\ wpc = "publish" /\ wpc' = "idle"
      /\ written' = written + ByteCount
      /\ TotalBytesStored' = Wrap(TotalBytesStored + ByteCount)
      /\ WriteIndex' = IF WriteIndex + ByteCount <= CircularBufferSize
                       THEN WriteIndex + ByteCount
                       ELSE ByteCount - (CircularBufferSize - WriteIndex)
      /\ UNCHANGED <<CircularBuffer, ReadIndex, TotalBytesRead, taken>>
  BY DEF StorePublish, Counted, readerVars, IndexAfterStore, FitsAtEnd,
         CanCopyToEnd
<1>2. /\ ByteCount > 0 /\ ByteCount <= CircularBufferSize
      /\ written + ByteCount - taken <= CircularBufferSize
  BY <1>1 DEF StoreInv, StoreInProgress, NotOverrun, TypeOK
<1>3. RingContent'
  BY StorePublishRing DEF StoreInv
<1>4. ReadAligned'
  BY <1>1, <1>2 DEF StoreInv, ReadAligned, NotOverrun, TypeOK, Slots
<1>5. CountersAgree'
  <2>1. \/ TotalBytesStored' = TotalBytesStored + ByteCount
        \/ TotalBytesStored' = TotalBytesStored + ByteCount - LongRange
    <3>1. /\ TotalBytesStored \in Int /\ ByteCount \in Int
          /\ TotalBytesStored >= LongMin /\ TotalBytesStored <= LongMax
          /\ TotalBytesStored + ByteCount > LongMin
      BY <1>2 DEF TypeOK
    <3> QED
      BY <1>1, <3>1 DEF Wrap
  <2>2. /\ TotalBytesStored \in Int /\ TotalBytesRead \in Int
        /\ ByteCount \in Int /\ written \in Int /\ taken \in Int
        /\ TotalBytesStored' >= LongMin /\ TotalBytesRead <= LongMax
    BY DEF TypeOK
  <2>3. \/ TotalBytesStored - TotalBytesRead = written - taken
        \/ TotalBytesStored - TotalBytesRead = written - taken + LongRange
        \/ TotalBytesStored - TotalBytesRead = written - taken - LongRange
    BY <2>2 DEF StoreInv, CountersAgree
  <2>4. \/ TotalBytesStored' - TotalBytesRead = written' - taken
        \/ TotalBytesStored' - TotalBytesRead = written' - taken + LongRange
        \/ TotalBytesStored' - TotalBytesRead = written' - taken - LongRange
    BY <1>1, <1>2, <2>1, <2>2, <2>3
  <2> QED
    BY <1>1, <2>2, <2>4 DEF CountersAgree
<1>6. NotOverrun' /\ StoreInProgress'
  BY <1>1, <1>2 DEF StoreInv, NotOverrun, StoreInProgress, TypeOK
<1>7. PacketInv'
  BY <1>1, <1>2
  DEF StorePublish, PacketInv, readerVars, ReadsAtEnd, FitsAtEnd, CanCopyToEnd,
      TypeOK
<1> QED
  BY <1>3, <1>4, <1>5, <1>6, <1>7 DEF StoreInv

\* The steps of the feeder that leave the ring and the read position alone.
LEMMA StoreInvFrame ==
  ASSUME StoreInv, UNCHANGED <<ReadIndex, TotalBytesRead, taken, writerVars>>
  PROVE  StoreInv'
  BY DEF StoreInv, RingContent, ReadAligned, CountersAgree, NotOverrun,
         StoreInProgress, Copied, CanCopyToEnd, FitsAtEnd, writerVars

\* Asking what is available takes nothing and, while the feeder keeps up, skips
\* nothing.
LEMMA FeederLooksInv ==
  ASSUME TypeOK, StoreInv, PacketInv, Poll \/ CheckAvailable \/ SkipLost
  PROVE  StoreInv' /\ PacketInv'
<1>1. ASSUME Poll
      PROVE  StoreInv' /\ PacketInv'
  BY <1>1, StoreInvFrame DEF Poll, PacketInv
<1>2. ASSUME CheckAvailable
      PROVE  StoreInv' /\ PacketInv'
  <2>1. StoreInv'
    BY <1>2, StoreInvFrame DEF CheckAvailable
  <2>2. rpc' = "clamp" => taken < written
    BY <1>2, AvailableIsBacklog DEF CheckAvailable, TypeOK
  <2> QED
    BY <1>2, <2>1, <2>2 DEF CheckAvailable, PacketInv, writerVars
<1>3. ASSUME SkipLost
      PROVE  StoreInv' /\ PacketInv'
  <2>1. ~(Available > CircularBufferSize)
    BY AvailableIsBacklog, Constants DEF StoreInv, NotOverrun, TypeOK
  <2>2. UNCHANGED <<ReadIndex, TotalBytesRead, taken, writerVars>>
    BY <1>3, <2>1 DEF SkipLost
  <2> QED
    BY <1>3, <2>2, StoreInvFrame DEF SkipLost, PacketInv, writerVars
<1> QED
  BY <1>1, <1>2, <1>3

\* A packet is never empty and never longer than the backlog.
LEMMA SizePacketInv ==
  ASSUME TypeOK, StoreInv, PacketInv, SizePacket
  PROVE  StoreInv' /\ PacketInv'
<1>1. Available = written - taken /\ taken < written
  BY AvailableIsBacklog DEF SizePacket, PacketInv
<1>2. toRead' > 0 /\ toRead' <= written - taken
  <2>1. CASE BuffSize < Available
    <3>1. BuffSize - HeaderSize \in Nat /\ BuffSize - HeaderSize >= BlockAlign
      BY PacketAssumption, SizeAssumption
    <3>2. WholeFrames(BuffSize - HeaderSize) \in 1..(BuffSize - HeaderSize)
      BY <3>1, WholeFramesBound
    <3> QED
      BY <1>1, <2>1, <3>1, <3>2, PacketAssumption
      DEF SizePacket, PacketBytes, TypeOK
  <2>2. CASE ~(BuffSize < Available)
    BY <1>1, <2>2 DEF SizePacket, PacketBytes, TypeOK
  <2> QED
    BY <2>1, <2>2
<1>3. StoreInv'
  BY StoreInvFrame DEF SizePacket
<1> QED
  BY <1>2, <1>3 DEF SizePacket, PacketInv, writerVars

\* Copying finds the stream in the ring, in one piece or in two.
LEMMA CopyPacketInv ==
  ASSUME TypeOK, StoreInv, PacketInv, CopyPacketToEnd \/ CopyPacketBeginning
  PROVE  StoreInv' /\ PacketInv'
<1> USE Constants
<1>1. /\ toRead \in Int /\ toRead > 0 /\ toRead <= written - taken
      /\ ReadIndex \in 0..(CircularBufferSize - 1)
      /\ UNCHANGED <<ReadIndex, toRead, taken, written>>
  BY DEF CopyPacketToEnd, CopyPacketBeginning, CopyToEnd, CopyBeginning,
         PacketInv, TypeOK, Slots, writerVars
<1>2. StoreInv'
  BY StoreInvFrame
  DEF CopyPacketToEnd, CopyPacketBeginning, CopyToEnd, CopyBeginning
<1>3. ASSUME CopyPacketToEnd
      PROVE  PacketInv'
  <2>1. CASE ReadsAtEnd
    <3>1. \A k \in 0..(toRead - 1) : CircularBuffer[ReadIndex + k] = taken + k
      BY <1>1, <2>1, UnreadIsInRing DEF ReadsAtEnd, FitsAtEnd, TypeOK
    <3>2. buff' = [k \in 0..(toRead - 1) |-> taken + k]
      BY <1>3, <2>1, <3>1 DEF CopyPacketToEnd, CopyToEnd
    <3> QED
      BY <1>1, <1>3, <2>1, <3>2 DEF CopyPacketToEnd, CopyToEnd, PacketInv
  <2>2. CASE ~ReadsAtEnd
    <3>1. \A k \in 0..(CanCopyToEnd(ReadIndex) - 1) :
            CircularBuffer[ReadIndex + k] = taken + k
      BY <1>1, <2>2, UnreadIsInRing
      DEF ReadsAtEnd, FitsAtEnd, CanCopyToEnd, TypeOK
    <3>2. buff' = [k \in 0..(CanCopyToEnd(ReadIndex) - 1) |-> taken + k]
      BY <1>3, <2>2, <3>1 DEF CopyPacketToEnd, CopyToEnd
    <3> QED
      BY <1>1, <1>3, <2>2, <3>2
      DEF CopyPacketToEnd, CopyToEnd, PacketInv, ReadsAtEnd, FitsAtEnd,
          CanCopyToEnd
  <2> QED
    BY <2>1, <2>2
<1>4. ASSUME CopyPacketBeginning
      PROVE  PacketInv'
  <2> DEFINE toEnd == CanCopyToEnd(ReadIndex)
  <2>1. /\ ~ReadsAtEnd
        /\ buff = [k \in 0..(toEnd - 1) |-> taken + k]
        /\ toEnd \in Nat /\ toEnd > 0 /\ toEnd < toRead
    BY <1>1, <1>4
    DEF CopyPacketBeginning, CopyBeginning, PacketInv, ReadsAtEnd, FitsAtEnd,
        CanCopyToEnd
  <2>2. \A k \in 0..(toRead - 1) : k >= toEnd =>
          /\ k - toEnd \in Slots
          /\ CircularBuffer[k - toEnd] = taken + k
    <3> SUFFICES ASSUME NEW k \in 0..(toRead - 1), k >= toEnd
                 PROVE  /\ k - toEnd \in Slots
                        /\ CircularBuffer[k - toEnd] = taken + k
      OBVIOUS
    <3>1. k \in Nat /\ k < written - taken /\ ReadIndex + k >= CircularBufferSize
      BY <1>1 DEF CanCopyToEnd, TypeOK
    <3>2. k - toEnd = ReadIndex + k - CircularBufferSize
      BY <1>1, <3>1 DEF CanCopyToEnd
    <3> QED
      BY <3>1, <3>2, UnreadIsInRing
  <2>3. \A k \in 0..(toRead - 1) : k < toEnd => buff[k] = taken + k
    BY <2>1
  <2>4. buff' = [k \in 0..(toRead - 1) |-> taken + k]
    <3> DEFINE copied(k) == IF k < toEnd THEN buff[k]
                            ELSE IF k - toEnd \in Slots
                                 THEN CircularBuffer[k - toEnd]
                                 ELSE -1
    <3>1. buff' = [k \in 0..(toRead - 1) |-> copied(k)]
      BY <1>4 DEF CopyPacketBeginning, CopyBeginning, FirstSlots
    <3>2. \A k \in 0..(toRead - 1) : copied(k) = taken + k
      <4> SUFFICES ASSUME NEW k \in 0..(toRead - 1)
                   PROVE  copied(k) = taken + k
        OBVIOUS
      <4>1. k \in Int /\ toEnd \in Int
        BY <1>1, <2>1
      <4>2. CASE k < toEnd
        BY <2>3, <4>2
      <4>3. CASE k >= toEnd
        BY <2>2, <4>1, <4>3
      <4> HIDE DEF toEnd, copied
      <4> QED
        BY <4>1, <4>2, <4>3
    <3> HIDE DEF copied
    <3> QED
      BY <3>1, <3>2
  <2> QED
    BY <1>1, <1>4, <2>4 DEF CopyPacketBeginning, CopyBeginning, PacketInv
<1> QED
  BY <1>2, <1>3, <1>4

\* The read position moves by what was packed, in the ring, in the long and in
\* the stream alike.
LEMMA AdvancePacketInv ==
  ASSUME TypeOK, TypeOK', StoreInv, PacketInv, AdvancePacket
  PROVE  StoreInv' /\ PacketInv'
<1> USE Constants
<1>1. /\ toRead \in Int /\ toRead > 0 /\ toRead <= written - taken
      /\ written \in Int /\ taken \in Int /\ ReadIndex \in Int
      /\ written - taken <= CircularBufferSize
      /\ ReadIndex >= 0 /\ ReadIndex < CircularBufferSize
  BY DEF AdvancePacket, Advance, PacketInv, StoreInv, NotOverrun, TypeOK, Slots
<1>2. /\ taken' = taken + toRead
      /\ ReadIndex' = (ReadIndex + toRead) % CircularBufferSize
      /\ TotalBytesRead' = Wrap(TotalBytesRead + toRead)
      /\ UNCHANGED <<toRead, buff, writerVars>>
      /\ UNCHANGED <<CircularBuffer, WriteIndex, TotalBytesStored, wpc,
                     ByteCount, written>>
  BY DEF AdvancePacket, Advance, IndexAfterRead, writerVars
<1>3. \/ ReadIndex' = ReadIndex + toRead
      \/ ReadIndex' = ReadIndex + toRead - CircularBufferSize
  BY <1>1, <1>2, ModRing
<1>4. RingContent'
  BY <1>2 DEF StoreInv, RingContent, Copied, CanCopyToEnd
<1>5. ReadAligned'
  <2>1. /\ WriteIndex \in Int /\ WriteIndex >= 0
        /\ WriteIndex <= CircularBufferSize
        /\ ReadIndex' >= 0 /\ ReadIndex' < CircularBufferSize
    BY <1>2 DEF TypeOK, Slots
  <2>2. \/ ReadIndex - (WriteIndex - (written - taken)) = 0
        \/ ReadIndex - (WriteIndex - (written - taken)) = CircularBufferSize
        \/ ReadIndex - (WriteIndex - (written - taken)) = -CircularBufferSize
    BY DEF StoreInv, ReadAligned
  <2>3. \/ ReadIndex' - (WriteIndex - (written - (taken + toRead))) = 0
        \/ ReadIndex' - (WriteIndex - (written - (taken + toRead)))
             = CircularBufferSize
        \/ ReadIndex' - (WriteIndex - (written - (taken + toRead)))
             = -CircularBufferSize
    BY <1>1, <1>3, <2>1, <2>2
  <2> QED
    BY <1>2, <2>3 DEF ReadAligned
<1>6. CountersAgree'
  <2>1. /\ TotalBytesRead \in Int /\ TotalBytesStored \in Int
        /\ TotalBytesRead >= LongMin /\ TotalBytesRead <= LongMax
        /\ TotalBytesStored >= LongMin /\ TotalBytesStored <= LongMax
        /\ TotalBytesRead' >= LongMin /\ TotalBytesRead' <= LongMax
    BY DEF TypeOK
  <2>2. \/ TotalBytesRead' = TotalBytesRead + toRead
        \/ TotalBytesRead' = TotalBytesRead + toRead - LongRange
    BY <1>1, <1>2, <2>1 DEF Wrap
  <2>3. \/ TotalBytesStored - TotalBytesRead = written - taken
        \/ TotalBytesStored - TotalBytesRead = written - taken + LongRange
        \/ TotalBytesStored - TotalBytesRead = written - taken - LongRange
    BY <1>1, <2>1 DEF StoreInv, CountersAgree
  <2>4. \/ TotalBytesStored - TotalBytesRead' = written - taken'
        \/ TotalBytesStored - TotalBytesRead' = written - taken' + LongRange
        \/ TotalBytesStored - TotalBytesRead' = written - taken' - LongRange
    BY <1>1, <1>2, <2>1, <2>2, <2>3
  <2> QED
    BY <1>1, <1>2, <2>1, <2>4 DEF CountersAgree
<1>7. NotOverrun' /\ StoreInProgress'
  BY <1>1, <1>2 DEF StoreInv, NotOverrun, StoreInProgress, FitsAtEnd, TypeOK
<1>8. PacketInv'
  BY <1>1, <1>2 DEF AdvancePacket, Advance, PacketInv
<1> QED
  BY <1>4, <1>5, <1>6, <1>7, <1>8 DEF StoreInv

\* Once lapped, for ever lapped: no step takes the note back.
LEMMA LappedStays ==
  ASSUME [Next]_vars, ~lapped', lapped
  PROVE  FALSE
BY Zenon
  DEF Next, Record, StoreData, StoreToEnd, StoreBeginning, StorePublish, Feeder,
      Poll, CheckAvailable, SkipLost, SizePacket, CopyPacketToEnd, CopyToEnd,
      CopyPacketBeginning, CopyBeginning, AdvancePacket, Advance, SendToAll,
      Accept, vars, storeVars, writerVars

\* Every step of recorder, feeder and acceptor keeps the inductive invariant.
LEMMA InvNext ==
  ASSUME IInv, [Next]_vars
  PROVE  IInv'
<1> USE DEF IInv
<1>1. TypeOK /\ TypeOK'
  BY TypeNext
<1>2. ASSUME ~lapped', lapped
      PROVE  FALSE
  BY <1>2, LappedStays, Zenon
<1>3. SUFFICES ASSUME ~lapped'
               PROVE  StoreInv' /\ PacketInv'
  BY <1>1
<1>4. StoreInv /\ PacketInv
  BY <1>2, <1>3
<1>5. ASSUME NEW n \in StoreSizes, StoreToEnd(n)
      PROVE  StoreInv' /\ PacketInv'
  BY <1>1, <1>3, <1>4, <1>5, StoreToEndInv
<1>6. ASSUME StoreBeginning \/ StorePublish
      PROVE  StoreInv' /\ PacketInv'
  BY <1>1, <1>4, <1>6, StoreBeginningInv, StorePublishInv
<1>7. ASSUME Poll \/ CheckAvailable \/ SkipLost
      PROVE  StoreInv' /\ PacketInv'
  BY <1>1, <1>4, <1>7, FeederLooksInv
<1>8. ASSUME SizePacket
      PROVE  StoreInv' /\ PacketInv'
  BY <1>1, <1>4, <1>8, SizePacketInv
<1>9. ASSUME CopyPacketToEnd \/ CopyPacketBeginning
      PROVE  StoreInv' /\ PacketInv'
  BY <1>1, <1>4, <1>9, CopyPacketInv
<1>10. ASSUME AdvancePacket
       PROVE  StoreInv' /\ PacketInv'
  BY <1>1, <1>4, <1>10, AdvancePacketInv
<1>11. ASSUME NEW ok \in BOOLEAN, SendToAll(ok)
       PROVE  StoreInv' /\ PacketInv'
  BY <1>4, <1>11, StoreInvFrame DEF SendToAll, PacketInv
<1>12. ASSUME Accept \/ UNCHANGED vars
       PROVE  StoreInv' /\ PacketInv'
  <2>1. UNCHANGED storeVars
    BY <1>12 DEF Accept, vars
  <2> QED
    BY <1>4, <2>1, StoreInvFrame
    DEF storeVars, readerVars, writerVars, PacketInv, ReadsAtEnd
<1> QED
  BY <1>5, <1>6, <1>7, <1>8, <1>9, <1>10, <1>11, <1>12
  DEF Next, Record, StoreData, Feeder

\* The empty ring satisfies the inductive invariant.
LEMMA InvInit == ASSUME Init PROVE IInv
<1>1. TypeOK
  BY TypeInit
<1>2. StoreInv
  BY Constants
  DEF Init, InitStore, StoreInv, RingContent, ReadAligned, CountersAgree,
      NotOverrun, StoreInProgress, Copied, Slots
<1>3. PacketInv
  BY DEF Init, PacketInv
<1> QED
  BY <1>1, <1>2, <1>3 DEF IInv

\* So the inductive invariant holds in every reachable state.
LEMMA Invariance == Spec => []IInv
BY InvInit, InvNext, PTL DEF Spec

\* Whatever the interleaving of recorder and feeder, a packet that was not
\* overtaken by the recorder is the next stretch of the recorded stream.
THEOREM FeederPacketInOrder == Spec => []PacketInOrder
<1>1. IInv => PacketInOrder
  BY DEF IInv, PacketInv, PacketInOrder
<1> QED
  BY <1>1, Invariance, PTL

\* The backlog GetNetworkPacket computes from two 32-bit counters is exact until
\* the recorder laps the feeder, however often the counters wrap.
THEOREM FeederBacklogIsExact == Spec => []BacklogIsExact
<1>1. IInv => BacklogIsExact
  BY AvailableIsBacklog DEF IInv, BacklogIsExact, StoreInv, NotOverrun
<1> QED
  BY <1>1, Invariance, PTL

-----------------------------------------------------------------------------
(* What survives an overrun                                                *)

\* Only the recorder touches the ring: the feeder's steps and a new client leave
\* writerVars alone.
LEMMA OthersLeaveRing ==
  ASSUME Feeder \/ Accept \/ UNCHANGED vars
  PROVE  UNCHANGED writerVars
BY DEF Feeder, Poll, CheckAvailable, SkipLost, SizePacket, CopyPacketToEnd, CopyToEnd,
       CopyPacketBeginning, CopyBeginning, AdvancePacket, Advance, SendToAll, Accept,
       vars, storeVars

\* And the recorder's steps leave the feeder alone.
LEMMA RecorderLeavesFeeder ==
  ASSUME Record
  PROVE  UNCHANGED readerVars
BY DEF Record, StoreData, StoreToEnd, StoreBeginning, StorePublish

\* The ring is the one the stored bytes fill after every step, also after the store
\* that laps the feeder.
LEMMA RingNext ==
  ASSUME TypeOK, TypeOK', RingInv, SoundInv, [Next]_vars
  PROVE  RingInv'
<1> USE Constants
<1>1. ASSUME NEW n \in StoreSizes, StoreToEnd(n)
      PROVE  RingInv'
  <2>1. RingContent'
    BY <1>1, StoreToEndRing DEF RingInv
  <2>2. /\ n \in Nat /\ n > 0 /\ n <= CircularBufferSize
        /\ wpc = "idle" /\ ByteCount' = n
        /\ wpc' = IF FitsAtEnd(WriteIndex, n) THEN "publish" ELSE "wrap"
        /\ UNCHANGED <<WriteIndex, written>>
    BY <1>1 DEF StoreToEnd, TypeOK
  <2>3. BytesCopied = written
    BY <2>2 DEF BytesCopied, Copied, TypeOK
  <2>4. BytesCopied' = IF FitsAtEnd(WriteIndex, n) THEN written + n
                       ELSE written + (CircularBufferSize - WriteIndex)
    BY <2>2 DEF BytesCopied, Copied, CanCopyToEnd, TypeOK
  <2>5. lapped' => BytesCopied' >= CircularBufferSize
    <3>1. CASE lapped
      BY <2>2, <2>3, <2>4, <3>1 DEF RingInv, FitsAtEnd, TypeOK
    <3>2. CASE written + n - taken > CircularBufferSize /\ ~lapped
      BY <2>2, <2>3, <2>4, <3>2 DEF RingInv, SoundInv, FitsAtEnd, TypeOK
    <3> QED
      BY <1>1, <3>1, <3>2 DEF StoreToEnd
  <2> QED
    BY <2>1, <2>2, <2>5 DEF RingInv, StoreInProgress
<1>2. ASSUME StoreBeginning
      PROVE  RingInv'
  <2>1. RingContent'
    BY <1>2, StoreBeginningRing DEF RingInv
  <2>2. /\ wpc = "wrap" /\ wpc' = "publish"
        /\ UNCHANGED <<WriteIndex, written, ByteCount, lapped>>
    BY <1>2 DEF StoreBeginning
  <2>3. BytesCopied' >= BytesCopied
    BY <2>2 DEF RingInv, BytesCopied, Copied, CanCopyToEnd, StoreInProgress, FitsAtEnd,
           TypeOK
  <2>4. StoreInProgress'
    BY <2>2 DEF RingInv, StoreInProgress
  <2>5. BytesCopied \in Int /\ BytesCopied' \in Int
    BY DEF BytesCopied, Copied, CanCopyToEnd, TypeOK
  <2> QED
    BY <2>1, <2>2, <2>3, <2>4, <2>5 DEF RingInv
<1>3. ASSUME StorePublish
      PROVE  RingInv'
  <2>1. RingContent'
    BY <1>3, StorePublishRing DEF RingInv
  <2>2. /\ wpc = "publish" /\ wpc' = "idle" /\ ByteCount > 0
        /\ ByteCount <= CircularBufferSize
        /\ written' = written + ByteCount
        /\ WriteIndex' = IF WriteIndex + ByteCount <= CircularBufferSize
                         THEN WriteIndex + ByteCount
                         ELSE ByteCount - (CircularBufferSize - WriteIndex)
        /\ UNCHANGED lapped
    BY <1>3 DEF StorePublish, RingInv, StoreInProgress, IndexAfterStore, FitsAtEnd,
                CanCopyToEnd, TypeOK
  <2>3. BytesCopied' = BytesCopied
    BY <2>2 DEF BytesCopied, Copied, TypeOK
  <2>4. written' = WriteIndex' \/ written' >= WriteIndex' + CircularBufferSize
    BY <2>2 DEF RingInv, TypeOK
  <2>5. StoreInProgress'
    BY <2>2 DEF StoreInProgress
  <2> QED
    BY <2>1, <2>2, <2>3, <2>4, <2>5, Zenon DEF RingInv
<1>4. ASSUME UNCHANGED writerVars
      PROVE  RingInv'
  BY <1>4
  DEF RingInv, RingContent, StoreInProgress, BytesCopied, Copied, CanCopyToEnd,
      FitsAtEnd, writerVars
<1> QED
  BY <1>1, <1>2, <1>3, <1>4, OthersLeaveRing DEF Next, Record, StoreData

\* What has been copied into the ring never becomes less.
LEMMA BytesCopiedGrows ==
  ASSUME TypeOK, RingInv, [Next]_vars
  PROVE  /\ BytesCopied \in Int /\ BytesCopied' \in Int
         /\ BytesCopied' >= BytesCopied
<1> USE Constants
<1>1. ASSUME NEW n \in StoreSizes, StoreToEnd(n)
      PROVE  /\ BytesCopied \in Int /\ BytesCopied' \in Int
             /\ BytesCopied' >= BytesCopied
  BY <1>1 DEF StoreToEnd, BytesCopied, Copied, CanCopyToEnd, TypeOK
<1>2. ASSUME StoreBeginning
      PROVE  /\ BytesCopied \in Int /\ BytesCopied' \in Int
             /\ BytesCopied' >= BytesCopied
  BY <1>2
  DEF StoreBeginning, RingInv, StoreInProgress, FitsAtEnd, BytesCopied, Copied,
      CanCopyToEnd, TypeOK
<1>3. ASSUME StorePublish
      PROVE  /\ BytesCopied \in Int /\ BytesCopied' \in Int
             /\ BytesCopied' >= BytesCopied
  BY <1>3 DEF StorePublish, BytesCopied, Copied, TypeOK
<1>4. ASSUME UNCHANGED writerVars
      PROVE  /\ BytesCopied \in Int /\ BytesCopied' \in Int
             /\ BytesCopied' >= BytesCopied
  BY <1>4 DEF writerVars, BytesCopied, Copied, CanCopyToEnd, TypeOK
<1> QED
  BY <1>1, <1>2, <1>3, <1>4, OthersLeaveRing DEF Next, Record, StoreData

\* A ring that was lapped holds stored bytes in all its slots.
LEMMA SlotsAreStored ==
  ASSUME TypeOK, RingInv, lapped, NEW i \in Slots
  PROVE  CircularBuffer[i] \in 0..(BytesCopied - 1)
<1> USE Constants
<1>1. CircularBuffer[i] =
        LET base == written - WriteIndex
            top  == WriteIndex + Copied
        IN IF i < top - CircularBufferSize THEN base + i + CircularBufferSize
           ELSE IF i < top THEN base + i
           ELSE base + i - CircularBufferSize
  BY DEF RingInv, RingContent
<1>2. /\ written + Copied >= CircularBufferSize
      /\ written = WriteIndex \/ written >= WriteIndex + CircularBufferSize
      /\ i \in Int /\ i >= 0 /\ i < CircularBufferSize
      /\ WriteIndex \in Int /\ written \in Int /\ WriteIndex >= 0
  BY DEF RingInv, BytesCopied, TypeOK, Slots
<1>3. Copied \in Int /\ Copied >= 0
  BY DEF Copied, CanCopyToEnd, TypeOK
<1> HIDE DEF Copied
<1> QED
  BY <1>1, <1>2, <1>3 DEF BytesCopied

\* A feeder that was not lapped has copied the bytes from its position on ...
LEMMA UnlappedIsStored ==
  IInv /\ ~lapped /\ taken >= 0 /\ rpc \in {"copyBeginning", "advance"} =>
    \A k \in DOMAIN buff : buff[k] \in 0..(BytesCopied - 1)
<1> USE Constants
<1> SUFFICES ASSUME IInv, ~lapped, taken >= 0,
                    rpc \in {"copyBeginning", "advance"},
                    NEW k \in DOMAIN buff
             PROVE  buff[k] \in 0..(BytesCopied - 1)
  OBVIOUS
<1>1. TypeOK /\ PacketInv
  BY Zenon DEF IInv
<1>2. toRead > 0 /\ toRead <= written - taken
  BY <1>1 DEF PacketInv
<1>3. k \in 0..(toRead - 1) /\ buff[k] = taken + k
  <2>1. CASE rpc = "advance"
    BY <1>1, <2>1 DEF PacketInv
  <2>2. CASE rpc = "copyBeginning"
    <3>1. /\ k \in 0..(CanCopyToEnd(ReadIndex) - 1)
          /\ buff[k] = taken + k /\ ~ReadsAtEnd
      BY <1>1, <2>2 DEF PacketInv
    <3> QED
      BY <1>1, <3>1 DEF ReadsAtEnd, FitsAtEnd, CanCopyToEnd, TypeOK, Slots
  <2> QED
    BY <2>1, <2>2
<1>4. BytesCopied \in Int /\ BytesCopied >= written
  BY <1>1 DEF BytesCopied, Copied, CanCopyToEnd, TypeOK
<1> QED
  BY <1>1, <1>2, <1>3, <1>4 DEF TypeOK

\* ... also after the step that copies.
LEMMA UnlappedIsStoredNext ==
  (IInv /\ ~lapped /\ taken >= 0 /\ rpc \in {"copyBeginning", "advance"} =>
     \A k \in DOMAIN buff : buff[k] \in 0..(BytesCopied - 1))'
BY UnlappedIsStored, PTL

\* In a lapped ring the first piece of a packet is stored sound ...
LEMMA LappedCopyToEnd ==
  ASSUME TypeOK, RingInv, lapped, CopyPacketToEnd, NEW k \in DOMAIN buff'
  PROVE  buff'[k] \in 0..(BytesCopied - 1)
<1> USE Constants
<1> DEFINE copied == (IF ReadsAtEnd THEN toRead ELSE CanCopyToEnd(ReadIndex)) - 1
<1>1. buff' = [j \in 0..copied |-> CircularBuffer[ReadIndex + j]]
  BY DEF CopyPacketToEnd, CopyToEnd
<1>2. k \in 0..copied /\ buff'[k] = CircularBuffer[ReadIndex + k]
  BY <1>1
<1>3. ReadIndex + k \in Slots
  BY <1>2 DEF ReadsAtEnd, FitsAtEnd, CanCopyToEnd, TypeOK, Slots
<1> QED
  BY <1>2, <1>3, SlotsAreStored

\* ... and so is the second, of a packet no larger than the ring.
LEMMA LappedCopyBeginning ==
  ASSUME TypeOK, RingInv, SoundInv, lapped, CopyPacketBeginning,
         toRead <= CircularBufferSize, NEW k \in DOMAIN buff'
  PROVE  buff'[k] \in 0..(BytesCopied - 1)
<1> USE Constants
<1> DEFINE copied(j) == IF j < CanCopyToEnd(ReadIndex) THEN buff[j]
                        ELSE IF FirstSlots(j) \in Slots
                             THEN CircularBuffer[FirstSlots(j)] ELSE -1
<1>1. /\ rpc = "copyBeginning"
      /\ buff' = [j \in 0..(toRead - 1) |-> copied(j)]
  BY DEF CopyPacketBeginning, CopyBeginning
<1>2. k \in 0..(toRead - 1) /\ buff'[k] = copied(k)
  BY <1>1
<1>3. CASE k < CanCopyToEnd(ReadIndex)
  <2>1. k \in DOMAIN buff
    BY <1>1, <1>2, <1>3 DEF SoundInv, CanCopyToEnd, TypeOK, Slots
  <2> QED
    BY <1>1, <1>2, <1>3, <2>1 DEF SoundInv
<1>4. CASE ~(k < CanCopyToEnd(ReadIndex))
  <2>1. FirstSlots(k) \in Slots
    BY <1>2, <1>4 DEF FirstSlots, CanCopyToEnd, TypeOK, Slots
  <2> QED
    BY <1>2, <1>4, <2>1, SlotsAreStored
<1> QED
  BY <1>3, <1>4

\* The bytes copied out so far stay stored ones, lapped or not.
LEMMA SoundNext ==
  ASSUME IInv, IInv', RingInv, RingInv', SoundInv, [Next]_vars
  PROVE  SoundInv'
<1> USE Constants
<1>1. TypeOK /\ TypeOK'
  BY Zenon DEF IInv
<1>2. BytesCopied \in Int /\ BytesCopied' \in Int /\ BytesCopied' >= BytesCopied
  BY <1>1, BytesCopiedGrows
<1>3. ~lapped' => taken' >= 0
  <2> SUFFICES ASSUME ~lapped' PROVE taken' >= 0
    OBVIOUS
  <2>1. ~lapped
    BY LappedStays, Zenon
  <2>2. taken >= 0 /\ StoreInv /\ PacketInv
    BY <2>1, Zenon DEF SoundInv, IInv
  <2>3. CASE AdvancePacket
    BY <1>1, <2>2, <2>3 DEF AdvancePacket, Advance, PacketInv, TypeOK
  <2>4. CASE SkipLost
    <3>1. ~(Available > CircularBufferSize)
      BY <1>1, <2>2, AvailableIsBacklog DEF StoreInv, NotOverrun, TypeOK
    <3> QED
      BY <2>2, <2>4, <3>1 DEF SkipLost
  <2>5. CASE \/ Record \/ Poll \/ CheckAvailable \/ SizePacket \/ CopyPacketToEnd
             \/ CopyPacketBeginning \/ (\E ok \in BOOLEAN : SendToAll(ok)) \/ Accept
             \/ UNCHANGED vars
    <3>1. taken' = taken
      BY <2>5, RecorderLeavesFeeder, Zenon
      DEF Poll, CheckAvailable, SizePacket, CopyPacketToEnd, CopyToEnd,
          CopyPacketBeginning, CopyBeginning, SendToAll, Accept, vars, storeVars,
          readerVars
    <3> QED
      BY <2>2, <3>1
  <2> QED
    BY <2>3, <2>4, <2>5 DEF Next, Feeder
<1>4. ASSUME UNCHANGED <<rpc, buff, toRead, ReadIndex>>
      PROVE  SoundInv'
  <2>1. rpc' = "copyBeginning" =>
          DOMAIN buff' = 0..(CanCopyToEnd(ReadIndex') - 1)
    BY <1>4 DEF SoundInv
  <2>2. rpc' \in {"copyBeginning", "advance"} /\ toRead' <= CircularBufferSize =>
          \A k \in DOMAIN buff' : buff'[k] \in 0..(BytesCopied' - 1)
    BY <1>2, <1>4 DEF SoundInv
  <2> QED
    BY <1>3, <2>1, <2>2 DEF SoundInv, CanCopyToEnd
<1>5. ASSUME rpc' \notin {"copyBeginning", "advance"}
      PROVE  SoundInv'
  BY <1>3, <1>5 DEF SoundInv
<1>6. ASSUME CopyPacketToEnd \/ CopyPacketBeginning
      PROVE  SoundInv'
  <2>1. rpc' = "copyBeginning" =>
          DOMAIN buff' = 0..(CanCopyToEnd(ReadIndex') - 1)
    BY <1>6 DEF CopyPacketToEnd, CopyToEnd, CopyPacketBeginning, CopyBeginning,
                CanCopyToEnd
  <2>2. ASSUME toRead' <= CircularBufferSize, NEW k \in DOMAIN buff',
               rpc' \in {"copyBeginning", "advance"}
        PROVE  buff'[k] \in 0..(BytesCopied' - 1)
    <3>1. CASE lapped
      <4>1. toRead' = toRead
        BY <1>6 DEF CopyPacketToEnd, CopyToEnd, CopyPacketBeginning, CopyBeginning
      <4>2. buff'[k] \in 0..(BytesCopied - 1)
        BY <1>1, <1>6, <2>2, <3>1, <4>1, LappedCopyToEnd, LappedCopyBeginning
      <4> QED
        BY <1>2, <4>2
    <3>2. CASE ~lapped
      <4>1. ~lapped'
        BY <1>6, <3>2, Zenon
        DEF CopyPacketToEnd, CopyToEnd, CopyPacketBeginning, CopyBeginning,
            writerVars
      <4> QED
        BY <1>3, <2>2, <4>1, UnlappedIsStoredNext
    <3> QED
      BY <3>1, <3>2
  <2> QED
    BY <1>3, <2>1, <2>2 DEF SoundInv
<1>7. ASSUME Record \/ Accept \/ UNCHANGED vars
      PROVE  UNCHANGED <<rpc, buff, toRead, ReadIndex>>
  BY <1>7, RecorderLeavesFeeder DEF Accept, vars, storeVars, readerVars
<1>8. ASSUME \/ Poll \/ CheckAvailable \/ SkipLost \/ SizePacket \/ AdvancePacket
             \/ \E ok \in BOOLEAN : SendToAll(ok)
      PROVE  rpc' \notin {"copyBeginning", "advance"}
  BY <1>8 DEF Poll, CheckAvailable, SkipLost, SizePacket, AdvancePacket, Advance,
              SendToAll
<1> QED
  BY <1>4, <1>5, <1>6, <1>7, <1>8 DEF Next, Feeder

\* Whole frames taken together or from one another are whole frames.
LEMMA WholeSum ==
  ASSUME NEW a \in Int, NEW b \in Int, Whole(a), Whole(b)
  PROVE  Whole(a + b) /\ Whole(a - b)
<1>0. BlockAlign \in Int /\ BlockAlign > 0
  BY SizeAssumption
<1> DEFINE p == a \div BlockAlign
           q == b \div BlockAlign
<1>1. p \in Int /\ a = BlockAlign * p
  BY <1>0 DEF Whole
<1>2. q \in Int /\ b = BlockAlign * q
  BY <1>0 DEF Whole
<1>3. ASSUME NEW r \in Int PROVE Whole(BlockAlign * r)
  BY <1>0, <1>3 DEF Whole
<1> HIDE DEF p, q
<1>4. a + b = BlockAlign * (p + q) /\ a - b = BlockAlign * (p - q)
  BY <1>0, <1>1, <1>2
<1> QED
  BY <1>1, <1>2, <1>3, <1>4

\* A feeder that is not too far behind computes the true backlog, lapped or not.
LEMMA LagIsExact ==
  ASSUME LagFitsLong, TypeOK, LagInv
  PROVE  Available = written - taken
BY Constants, StoreAssumption
DEF Available, Wrap, TypeOK, LagInv, LagFitsLong, CountersAgree

\* The backlog stays exact, within its bound and no smaller than the packet, also when
\* lost bytes are counted as read.
LEMMA LagNext ==
  ASSUME LagFitsLong, TypeOK, TypeOK', LagInv, [Next]_vars
  PROVE  LagInv'
<1> USE Constants, StoreAssumption
<1>0. Available = written - taken
  BY LagIsExact
<1>1. ASSUME NEW n \in StoreSizes, StoreToEnd(n)
      PROVE  LagInv'
  BY <1>1 DEF StoreToEnd, readerVars, LagInv, CountersAgree, TypeOK
<1>2. ASSUME StoreBeginning
      PROVE  LagInv'
  BY <1>2 DEF StoreBeginning, readerVars, LagInv, CountersAgree, TypeOK
<1>3. ASSUME StorePublish
      PROVE  LagInv'
  <2>1. /\ wpc = "publish" /\ wpc' = "idle"
        /\ written' = written + ByteCount
        /\ TotalBytesStored' = Wrap(TotalBytesStored + ByteCount)
        /\ UNCHANGED <<taken, TotalBytesRead, rpc, toRead, ByteCount>>
    BY <1>3 DEF StorePublish, Counted, readerVars
  <2>2. /\ ByteCount \in Nat /\ ByteCount <= LongMax
        /\ written \in Int /\ taken \in Int
        /\ TotalBytesStored \in LongMin..LongMax /\ TotalBytesRead \in LongMin..LongMax
    BY DEF TypeOK
  <2>3. \/ TotalBytesStored' = TotalBytesStored + ByteCount
        \/ TotalBytesStored' = TotalBytesStored + ByteCount - LongRange
    BY <2>1, <2>2 DEF Wrap
  <2>4. \/ TotalBytesStored - TotalBytesRead = written - taken
        \/ TotalBytesStored - TotalBytesRead = written - taken + LongRange
        \/ TotalBytesStored - TotalBytesRead = written - taken - LongRange
    BY <2>2 DEF LagInv, CountersAgree
  <2>5. /\ written - taken >= 0 /\ written + ByteCount - taken <= LongMax
    BY <2>1, <2>2 DEF LagInv, LagFitsLong
  <2>6. TotalBytesStored' \in LongMin..LongMax
    BY DEF TypeOK
  <2>7. CountersAgree'
    BY <2>1, <2>2, <2>3, <2>4, <2>5, <2>6 DEF CountersAgree
  <2> QED
    BY <2>1, <2>2, <2>7 DEF LagInv, TypeOK
<1>4. ASSUME CheckAvailable
      PROVE  LagInv'
  BY <1>0, <1>4 DEF CheckAvailable, writerVars, LagInv, CountersAgree, TypeOK
<1>5. ASSUME SkipLost
      PROVE  LagInv'
  <2>1. CASE Available > CircularBufferSize
    <3>1. /\ TotalBytesRead' = Wrap(TotalBytesStored - CircularBufferSize)
          /\ taken' = written - CircularBufferSize /\ taken' >= taken
          /\ rpc' = "size"
          /\ UNCHANGED <<TotalBytesStored, written, wpc, ByteCount>>
      BY <1>0, <1>5, <2>1 DEF SkipLost, writerVars, TypeOK
    <3>2. CountersAgree'
      BY <3>1 DEF CountersAgree, Wrap, TypeOK
    <3> QED
      BY <3>1, <3>2 DEF LagInv, TypeOK
  <2>2. CASE ~(Available > CircularBufferSize)
    BY <1>5, <2>2 DEF SkipLost, writerVars, LagInv, CountersAgree
  <2> QED
    BY <2>1, <2>2
<1>6. ASSUME SizePacket
      PROVE  LagInv'
  <2>1. toRead' > 0 /\ toRead' <= written - taken
    <3>1. CASE BuffSize < Available
      <4>1. BuffSize - HeaderSize \in Nat /\ BuffSize - HeaderSize >= BlockAlign
        BY PacketAssumption, SizeAssumption
      <4>2. WholeFrames(BuffSize - HeaderSize) \in 1..(BuffSize - HeaderSize)
        BY <4>1, WholeFramesBound
      <4> QED
        BY <1>0, <1>6, <3>1, <4>1, <4>2, PacketAssumption
        DEF SizePacket, PacketBytes, TypeOK
    <3>2. CASE ~(BuffSize < Available)
      BY <1>0, <1>6, <3>2 DEF SizePacket, PacketBytes, LagInv, TypeOK
    <3> QED
      BY <3>1, <3>2
  <2> QED
    BY <1>6, <2>1 DEF SizePacket, writerVars, LagInv, CountersAgree
<1>7. ASSUME CopyPacketToEnd \/ CopyPacketBeginning
      PROVE  LagInv'
  BY <1>7 DEF CopyPacketToEnd, CopyToEnd, CopyPacketBeginning, CopyBeginning,
              writerVars, LagInv, CountersAgree
<1>8. ASSUME AdvancePacket
      PROVE  LagInv'
  <2>1. /\ taken' = taken + toRead
        /\ TotalBytesRead' = Wrap(TotalBytesRead + toRead)
        /\ rpc' = "send"
        /\ UNCHANGED <<TotalBytesStored, written, wpc, ByteCount>>
    BY <1>8 DEF AdvancePacket, Advance, writerVars
  <2>2. /\ toRead > 0 /\ toRead <= written - taken /\ toRead <= LongMax
        /\ written \in Int /\ taken \in Int /\ toRead \in Int
        /\ TotalBytesStored \in LongMin..LongMax /\ TotalBytesRead \in LongMin..LongMax
        /\ written - taken <= LongMax
    BY <1>8 DEF AdvancePacket, Advance, LagInv, LagFitsLong, TypeOK
  <2>3. \/ TotalBytesRead' = TotalBytesRead + toRead
        \/ TotalBytesRead' = TotalBytesRead + toRead - LongRange
    BY <2>1, <2>2 DEF Wrap
  <2>4. TotalBytesRead' \in LongMin..LongMax
    BY DEF TypeOK
  <2>5. \/ TotalBytesStored - TotalBytesRead = written - taken
        \/ TotalBytesStored - TotalBytesRead = written - taken + LongRange
        \/ TotalBytesStored - TotalBytesRead = written - taken - LongRange
    BY <2>2 DEF LagInv, CountersAgree
  <2>6. CountersAgree'
    BY <2>1, <2>2, <2>3, <2>4, <2>5 DEF CountersAgree
  <2> QED
    BY <2>1, <2>2, <2>6 DEF LagInv, TypeOK
<1>9. ASSUME \/ Poll \/ Accept \/ UNCHANGED vars
             \/ \E ok \in BOOLEAN : SendToAll(ok)
      PROVE  LagInv'
  BY <1>9 DEF Poll, Accept, SendToAll, vars, storeVars, readerVars, writerVars, LagInv,
              CountersAgree
<1> QED
  BY <1>1, <1>2, <1>3, <1>4, <1>5, <1>6, <1>7, <1>8, <1>9
  DEF Next, Record, StoreData, Feeder

\* Whatever is stored, packed, lost or counted is whole frames.
LEMMA FramesNext ==
  ASSUME LagFitsLong, TypeOK, LagInv, FramesInv, [Next]_vars
  PROVE  FramesInv'
<1> USE Constants
<1>0. written \in Int /\ taken \in Int /\ toRead \in Int /\ ByteCount \in Int
  BY DEF TypeOK
<1>1. ASSUME NEW n \in StoreSizes, StoreToEnd(n)
      PROVE  FramesInv'
  <2>1. Whole(n)
    BY FrameAssumption DEF Whole
  <2> QED
    BY <1>1, <2>1 DEF StoreToEnd, readerVars, FramesInv
<1>2. ASSUME StorePublish
      PROVE  FramesInv'
  <2>1. Whole(written + ByteCount)
    BY <1>0, WholeSum DEF FramesInv
  <2> QED
    BY <1>2, <2>1 DEF StorePublish, readerVars, FramesInv
<1>3. ASSUME SkipLost
      PROVE  FramesInv'
  <2>1. Whole(CircularBufferSize)
    BY SizeAssumption DEF Whole
  <2>2. Whole(written - CircularBufferSize)
    BY <1>0, <2>1, WholeSum DEF FramesInv
  <2> QED
    BY <1>3, <2>2 DEF SkipLost, writerVars, FramesInv
<1>4. ASSUME SizePacket
      PROVE  FramesInv'
  <2>1. Whole(Available)
    BY <1>0, LagIsExact, WholeSum DEF FramesInv
  <2>2. Whole(WholeFrames(BuffSize - HeaderSize))
    <3> DEFINE k == (BuffSize - HeaderSize) \div BlockAlign
    <3>1. k \in Int /\ BlockAlign \in Int /\ BlockAlign > 0
      BY PacketAssumption, SizeAssumption
    <3> HIDE DEF k
    <3>2. Whole(k * BlockAlign)
      BY <3>1 DEF Whole
    <3> QED
      BY <3>2 DEF WholeFrames, k
  <2>3. Whole(toRead')
    BY <1>4, <2>1, <2>2 DEF SizePacket, PacketBytes
  <2> QED
    BY <1>4, <2>3 DEF SizePacket, writerVars, FramesInv
<1>5. ASSUME AdvancePacket
      PROVE  FramesInv'
  <2>1. Whole(taken + toRead)
    BY <1>0, <1>5, WholeSum DEF FramesInv, AdvancePacket, Advance
  <2> QED
    BY <1>5, <2>1 DEF AdvancePacket, Advance, writerVars, FramesInv
<1>6. ASSUME \/ StoreBeginning \/ Poll \/ CheckAvailable \/ CopyPacketToEnd
             \/ CopyPacketBeginning \/ Accept \/ UNCHANGED vars
             \/ \E ok \in BOOLEAN : SendToAll(ok)
      PROVE  FramesInv'
  BY <1>6 DEF StoreBeginning, Poll, CheckAvailable, CopyPacketToEnd, CopyToEnd,
              CopyPacketBeginning, CopyBeginning, Accept, SendToAll, vars, storeVars,
              readerVars, writerVars, FramesInv
<1> QED
  BY <1>1, <1>2, <1>3, <1>4, <1>5, <1>6 DEF Next, Record, StoreData, Feeder

\* A packet is sized to fit behind the headers, and nothing changes it afterwards.
LEMMA FitNext ==
  ASSUME LagFitsLong, BufferHoldsBacklog, TypeOK, LagInv, FramesInv, FitInv,
         [Next]_vars
  PROVE  FitInv'
<1> USE Constants, PacketAssumption
<1>1. ASSUME SizePacket
      PROVE  FitInv'
  <2>1. CASE BuffSize < Available
    <3>1. BuffSize - HeaderSize \in Nat /\ BuffSize - HeaderSize >= BlockAlign
      BY SizeAssumption
    <3>2. WholeFrames(BuffSize - HeaderSize) \in 1..(BuffSize - HeaderSize)
      BY <3>1, WholeFramesBound
    <3>3. toRead' = WholeFrames(BuffSize - HeaderSize)
      BY <1>1, <2>1 DEF SizePacket, PacketBytes
    <3> HIDE DEF WholeFrames
    <3> QED
      BY <3>1, <3>2, <3>3 DEF FitInv
  <2>2. CASE ~(BuffSize < Available)
    <3>1. Available = written - taken /\ written \in Int /\ taken \in Int
      BY LagIsExact DEF TypeOK
    <3>2. Whole(Available)
      BY <3>1, WholeSum DEF FramesInv
    <3>3. Available \in 1..MaxLag
      BY <1>1, <3>1, StoreAssumption DEF SizePacket, LagInv, TypeOK
    <3>4. Available <= BuffSize
      BY <2>2, <3>3
    <3>5. HeaderSize + Available <= BuffSize
      BY <3>2, <3>3, <3>4 DEF BufferHoldsBacklog
    <3> QED
      BY <1>1, <2>2, <3>5 DEF SizePacket, PacketBytes, FitInv
  <2> QED
    BY <2>1, <2>2
<1>2. ASSUME \/ Record \/ CopyPacketToEnd \/ CopyPacketBeginning \/ Accept
             \/ UNCHANGED vars
      PROVE  FitInv'
  BY <1>2, RecorderLeavesFeeder
  DEF CopyPacketToEnd, CopyToEnd, CopyPacketBeginning, CopyBeginning, Accept, vars,
      storeVars, readerVars, FitInv
<1>3. ASSUME \/ Poll \/ CheckAvailable \/ SkipLost \/ AdvancePacket
             \/ \E ok \in BOOLEAN : SendToAll(ok)
      PROVE  FitInv'
  BY <1>3 DEF Poll, CheckAvailable, SkipLost, AdvancePacket, Advance, SendToAll,
              FitInv
<1> QED
  BY <1>1, <1>2, <1>3 DEF Next, Feeder

\* The empty ring satisfies all of it.
LEMMA LappedInit == ASSUME Init PROVE RingInv /\ SoundInv /\ LagInv /\ FramesInv /\ FitInv
<1> USE Constants
<1>1. RingInv
  BY InvInit DEF IInv, Init, InitStore, StoreInv, RingInv
<1>2. SoundInv
  BY DEF Init, InitStore, SoundInv
<1>3. LagInv
  BY StoreAssumption DEF Init, InitStore, LagInv, CountersAgree
<1>4. FramesInv
  <2>1. Whole(0)
    BY SizeAssumption DEF Whole
  <2> QED
    BY <2>1 DEF Init, InitStore, FramesInv
<1>5. FitInv
  BY DEF Init, FitInv
<1> QED
  BY <1>1, <1>2, <1>3, <1>4, <1>5

\* Even a packet that was overtaken by the recorder, its bytes no longer in order, is
\* made of stored sound only: for every ring, buffer, lag and interleaving.
THEOREM FeederPacketIsStoredSound == Spec => []PacketIsStoredSound
<1>1. Init => IInv /\ RingInv /\ SoundInv
  BY InvInit, LappedInit
<1>2. IInv /\ RingInv /\ SoundInv /\ [Next]_vars => (IInv /\ RingInv /\ SoundInv)'
  BY InvNext, TypeNext, RingNext, SoundNext DEF IInv
<1>3. IInv /\ RingInv /\ SoundInv => PacketIsStoredSound
  <2> SUFFICES ASSUME IInv, RingInv, SoundInv, rpc = "advance",
                      toRead <= CircularBufferSize, NEW k \in DOMAIN buff
               PROVE  buff[k] >= 0 /\ buff[k] < written + ByteCount
    BY DEF PacketIsStoredSound
  <2>1. buff[k] \in 0..(BytesCopied - 1)
    BY DEF SoundInv
  <2>2. /\ BytesCopied \in Int /\ BytesCopied <= written + ByteCount
        /\ written + ByteCount \in Int
    <3>1. TypeOK /\ (wpc = "wrap" => ByteCount > CircularBufferSize - WriteIndex)
      BY Constants DEF IInv, RingInv, StoreInProgress, FitsAtEnd, TypeOK
    <3> QED
      BY <3>1, Constants DEF BytesCopied, Copied, CanCopyToEnd, TypeOK
  <2> QED
    BY <2>1, <2>2
<1> QED
  BY <1>1, <1>2, <1>3, PTL DEF Spec

\* The induction for a feeder whose backlog stays below the range of a long.
LEMMA LagInvariance ==
  ASSUME LagFitsLong
  PROVE  Spec => [](TypeOK /\ LagInv /\ FramesInv)
<1>1. Init => TypeOK /\ LagInv /\ FramesInv
  BY TypeInit, LappedInit
<1>2. TypeOK /\ LagInv /\ FramesInv /\ [Next]_vars => (TypeOK /\ LagInv /\ FramesInv)'
  BY TypeNext, LagNext, FramesNext
<1> QED
  BY <1>1, <1>2, PTL DEF Spec

\* No packet cuts a frame or is empty, not even the ones packed after an overrun: lost
\* sound is lost in whole frames.
THEOREM FeederPacketHoldsWholeFrames ==
  ASSUME LagFitsLong
  PROVE  Spec => []PacketHoldsWholeFrames
<1>1. LagInv /\ FramesInv => PacketHoldsWholeFrames
  BY DEF LagInv, FramesInv, Whole, PacketHoldsWholeFrames
<1> QED
  BY <1>1, LagInvariance, PTL

\* Headers and payload never run out of the feeder's buffer, provided no backlog of
\* whole frames ends in the HeaderSize bytes GetNetworkPacket forgets to compare.
THEOREM FeederPacketFitsBuffer ==
  ASSUME LagFitsLong, BufferHoldsBacklog
  PROVE  Spec => []PacketFitsBuffer
<1>1. Init => TypeOK /\ LagInv /\ FramesInv /\ FitInv
  BY TypeInit, LappedInit
<1>2. TypeOK /\ LagInv /\ FramesInv /\ FitInv /\ [Next]_vars
        => (TypeOK /\ LagInv /\ FramesInv /\ FitInv)'
  BY TypeNext, LagNext, FramesNext, FitNext
<1>3. FitInv => PacketFitsBuffer
  BY DEF FitInv, PacketFitsBuffer
<1> QED
  BY <1>1, <1>2, <1>3, PTL DEF Spec

-----------------------------------------------------------------------------
(* Refinement                                                              *)

\* While the feeder keeps up, every step produces, packs, hands over, or is
\* invisible in the abstract stream.
LEMMA StreamStep ==
  ASSUME IInv, lapped = FALSE, lapped' = FALSE, [Next]_vars
  PROVE  [Stream!NextStream]_(Stream!streamVars)
<1> DEFINE out == IF rpc = "send" THEN buff ELSE NoBytes
<1>0. TypeOK /\ StoreInv /\ PacketInv
  BY Zenon DEF IInv
<1>1. ASSUME StorePublish
      PROVE  Stream!Produce
  <2>1. written' > written
    BY <1>0, <1>1 DEF StorePublish, StoreInv, StoreInProgress, TypeOK
  <2>2. taken' = taken /\ out' = out
    BY <1>1 DEF StorePublish, readerVars
  <2> QED
    BY <2>1, <2>2 DEF Stream!Produce
<1>2. ASSUME AdvancePacket
      PROVE  Stream!Pack
  <2>1. /\ toRead \in 1..(written - taken)
        /\ buff = [k \in 0..(toRead - 1) |-> taken + k]
    BY <1>0, <1>2, Constants DEF AdvancePacket, Advance, PacketInv, TypeOK
  <2>2. out = NoBytes /\ out' = buff /\ taken' = taken + toRead
        /\ written' = written
    BY <1>2 DEF AdvancePacket, Advance, writerVars
  <2> QED
    BY <2>1, <2>2 DEF Stream!Pack, Stream!Packet, Stream!Nothing, NoBytes
<1>3. ASSUME NEW ok \in BOOLEAN, SendToAll(ok)
      PROVE  Stream!HandOver
  <2>1. DOMAIN buff # {}
    <3>1. toRead > 0 /\ toRead \in Int /\ DOMAIN buff = 0..(toRead - 1)
      BY <1>0, <1>3, Constants DEF SendToAll, PacketInv, TypeOK, Long
    <3>2. 0 \in 0..(toRead - 1)
      BY <3>1
    <3> QED
      BY <3>1, <3>2, Zenon
  <2>2. out = buff /\ out' = NoBytes /\ UNCHANGED <<written, taken>>
    BY <1>3 DEF SendToAll, writerVars
  <2> QED
    BY <2>1, <2>2 DEF Stream!HandOver, Stream!Nothing, NoBytes
<1>4. ASSUME SkipLost
      PROVE  UNCHANGED Stream!streamVars
  <2>1. ~(Available > CircularBufferSize)
    BY <1>0, AvailableIsBacklog, Constants DEF StoreInv, NotOverrun, TypeOK
  <2> QED
    BY <1>4, <2>1 DEF SkipLost, writerVars, Stream!streamVars
<1>5. ASSUME \/ \E n \in StoreSizes : StoreToEnd(n)
             \/ StoreBeginning \/ Accept \/ UNCHANGED vars
      PROVE  UNCHANGED Stream!streamVars
  BY <1>5
  DEF StoreToEnd, StoreBeginning, Accept, vars, storeVars, readerVars, writerVars,
      Stream!streamVars
<1>6. ASSUME Poll \/ CheckAvailable \/ SizePacket \/ CopyPacketToEnd
             \/ CopyPacketBeginning
      PROVE  UNCHANGED Stream!streamVars
  BY <1>6
  DEF Poll, CheckAvailable, SizePacket, CopyPacketToEnd, CopyToEnd,
      CopyPacketBeginning, CopyBeginning, writerVars, Stream!streamVars
<1> QED
  BY <1>1, <1>2, <1>3, <1>4, <1>5, <1>6
  DEF Next, Record, StoreData, Feeder, Stream!NextStream, Stream!streamVars

\* The recorder, the ring and the feeder together implement the stream that is
\* lossless and ordered until the feeder is overrun, for every lag of the feeder.
THEOREM FeederImplementsStream == Spec => ImplementsStream
<1>1. Init => Stream!InitStream
  BY DEF Init, InitStore, Stream!InitStream, Stream!Nothing, NoBytes
<1>2. IInv /\ [Next]_vars => [Stream!NextStream]_(Stream!streamVars)
  <2> SUFFICES ASSUME IInv, [Next]_vars
               PROVE  [Stream!NextStream]_(Stream!streamVars)
    OBVIOUS
  <2>1. lapped \in BOOLEAN /\ lapped' \in BOOLEAN
    BY TypeNext DEF IInv, TypeOK
  <2>2. CASE lapped' = TRUE
    BY <2>2 DEF Stream!NextStream
  <2>3. CASE lapped = FALSE /\ lapped' = FALSE
    BY <2>3, StreamStep
  <2>4. CASE lapped = TRUE /\ lapped' = FALSE
    BY <2>4, LappedStays, Zenon
  <2> QED
    BY <2>1, <2>2, <2>3, <2>4, Zenon
<1> QED
  BY <1>1, <1>2, Invariance, PTL
  DEF Spec, ImplementsStream, Stream!StreamSpec
=============================================================================
