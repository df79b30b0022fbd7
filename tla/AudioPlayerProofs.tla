--------------------------- MODULE AudioPlayerProofs ---------------------------
(***************************************************************************)
(* Proofs about the playing process: AudioPlayer's inductive invariant,    *)
(* and what follows from it for every ring size, frame size, counter       *)
(* width, device buffer and pair of formats.                               *)
(***************************************************************************)
EXTENDS AudioPlayer, TLAPS

-----------------------------------------------------------------------------
(* Arithmetic                                                              *)

\* The arithmetic facts about the constants that the steps below use.
LEMMA Constants ==
  /\ CircularBufferSize \in Nat /\ CircularBufferSize > 0
  /\ BlockAlign \in Nat /\ BlockAlign > 0
  /\ LongRange \in Nat
  /\ LongMax \in Nat /\ LongMin = -LongMax - 1 /\ LongRange = 2 * LongMax + 2
  /\ 2 * CircularBufferSize <= LongMax
  /\ Long = LongMin..LongMax
  /\ \A n \in StoreSizes : n \in Int /\ n > 0 /\ n <= CircularBufferSize
  BY SizeAssumption, StoreAssumption, LongAssumption DEF LongMax, LongMin, Long

\* A long stays a long, and one that is in range is not cut.
LEMMA WrapLong ==
  ASSUME NEW x \in Int, x >= 2 * LongMin, x <= 2 * LongMax + 1
  PROVE  /\ Wrap(x) \in Long
         /\ x >= LongMin /\ x <= LongMax => Wrap(x) = x
  BY Constants DEF Wrap

\* An index of the ring moved by less than one turn wraps at most once.
LEMMA ModRing ==
  ASSUME NEW x \in Int
  PROVE  /\ x % CircularBufferSize \in Slots
         /\ x >= 0 /\ x < CircularBufferSize => x % CircularBufferSize = x
         /\ x >= CircularBufferSize /\ x < 2 * CircularBufferSize =>
              x % CircularBufferSize = x - CircularBufferSize
  BY Constants DEF Slots

\* What a quotient is.
LEMMA Quotient ==
  ASSUME NEW a \in Nat, NEW b \in Nat \ {0}
  PROVE  /\ a \div b \in Nat
         /\ b * (a \div b) <= a /\ a < b * (a \div b) + b
  OBVIOUS

\* A quotient is the largest number whose product is no larger.
LEMMA QuotientBound ==
  ASSUME NEW a \in Nat, NEW b \in Nat \ {0}, NEW q \in Nat, a < b * (q + 1)
  PROVE  a \div b <= q
<1> DEFINE d == a \div b
<1>1. d \in Nat /\ b * d <= a
  BY Quotient
<1> HIDE DEF d
<1>2. ASSUME d >= q + 1 PROVE FALSE
  <2>1. b * d >= b * (q + 1)
    BY <1>1, <1>2
  <2> QED
    BY <1>1, <2>1
<1> QED
  BY <1>1, <1>2 DEF d

\* A larger number of frames of the device falls on no fewer frames of the ring.
LEMMA SourceFramesMonotone ==
  ASSUME NEW f \in Formats, NEW i \in Nat, NEW j \in Nat, i <= j
  PROVE  /\ SourceFrames(f, i) \in Nat /\ SourceFrames(f, j) \in Nat
         /\ SourceFrames(f, i) <= SourceFrames(f, j)
<1> DEFINE w == f.write
           r == f.read
           qi == (i * w) \div r
           qj == (j * w) \div r
<1>1. w \in Nat \ {0} /\ r \in Nat \ {0}
  BY DeviceAssumption
<1>2. /\ SourceFrames(f, i) = qi /\ SourceFrames(f, j) = qj
  BY DEF SourceFrames
<1> HIDE DEF w, r
<1>3. i * w \in Nat /\ j * w \in Nat /\ i * w <= j * w
  BY <1>1
<1>4. qi \in Nat /\ qj \in Nat /\ j * w < r * qj + r
  BY <1>1, <1>3, Quotient
<1> HIDE DEF qj
<1>5. i * w < r * (qj + 1)
  BY <1>1, <1>3, <1>4
<1>6. qi <= qj
  BY <1>1, <1>3, <1>4, <1>5, QuotientBound
<1> QED
  BY <1>2, <1>4, <1>6

\* What a request takes from the ring is less than the ring.
LEMMA RequestFitsRing ==
  ASSUME TypeOK, NEW n \in Nat, n <= bufferFrameCount
  PROVE  TotalBufferSize(n) \in 0..CircularBufferSize
<1> DEFINE w == format.write
           r == format.read
           q == SourceFrames(format, n)
           Q == SourceFrames(format, bufferFrameCount)
<1>1. /\ format \in Formats /\ w \in Nat \ {0} /\ r \in Nat \ {0}
      /\ bufferFrameCount \in Nat
      /\ (Q + 1) * BlockAlign < CircularBufferSize
  BY DeviceAssumption DEF TypeOK
<1>2. q \in Nat /\ Q \in Nat /\ q <= Q
  BY <1>1, SourceFramesMonotone
<1>3. q = (n * w) \div r /\ TotalBufferSize(n) = (n * BlockAlign * w) \div r
  BY DEF SourceFrames, TotalBufferSize
<1> HIDE DEF w, r, q, Q
<1>4. n * w \in Nat /\ n * w < r * (q + 1)
  <2>1. n * w \in Nat
    BY <1>1
  <2> QED
    BY <1>1, <1>2, <1>3, <2>1, Quotient
<1> DEFINE a == n * BlockAlign * w
           bound == (q + 1) * BlockAlign
<1>5. a \in Nat /\ a = BlockAlign * (n * w)
  BY <1>1, Constants
<1>6. bound \in Nat /\ bound <= CircularBufferSize
  <2>1. (q + 1) * BlockAlign <= (Q + 1) * BlockAlign
    BY <1>2, Constants
  <2> QED
    BY <1>1, <1>2, <2>1, Constants
<1>7. a < r * (bound + 1)
  <2> DEFINE p == n * w
             m == r * (q + 1)
  <2>1. p \in Nat /\ m \in Nat /\ p < m
    BY <1>1, <1>2, <1>4
  <2>2. m * BlockAlign = r * bound
    BY <1>1, <1>2, Constants
  <2> HIDE DEF p, m
  <2>3. BlockAlign * p <= m * BlockAlign
    BY <2>1, Constants
  <2>4. r * bound \in Nat /\ r * (bound + 1) = r * bound + r
    BY <1>1, <1>6
  <2>5. a = BlockAlign * p
    BY <1>5 DEF p
  <2> HIDE DEF a, bound
  <2> QED
    BY <1>1, <1>5, <2>1, <2>2, <2>3, <2>4, <2>5
<1> HIDE DEF a, bound
<1>8. a \div r <= bound /\ a \div r \in Nat
  BY <1>1, <1>5, <1>6, <1>7, QuotientBound, Quotient
<1> QED
  BY <1>3, <1>6, <1>8, Constants DEF a

-----------------------------------------------------------------------------
(* Type correctness                                                        *)

\* The steps of the player, one by one.
LEMMA PlayerSteps ==
  ASSUME [Next]_vars
  PROVE  \/ \E n \in StoreSizes : StoreToEnd(n) /\ UNCHANGED playerVars
         \/ StoreBeginning /\ UNCHANGED playerVars
         \/ StorePublish /\ UNCHANGED playerVars
         \/ StartPlayer
         \/ \E n \in Requests : Request(n)
         \/ CopyFramesToEnd \/ CopyFramesBeginning \/ MixFrame \/ AdvanceFrames
         \/ UNCHANGED vars
BY DEF Next, StoreNetworkData, StoreData, Play

\* A request asks for at most the device's buffer.
LEMMA RequestsBounded ==
  ASSUME NEW n \in Requests
  PROVE  n \in Nat /\ n <= bufferFrameCount
BY DeviceAssumption DEF Requests

\* One step of the reader or the player leaves every variable in its type.
LEMMA TypeNext ==
  ASSUME TypeOK, [Next]_vars
  PROVE  TypeOK'
<1>1. ASSUME NEW n \in StoreSizes, StoreToEnd(n), UNCHANGED playerVars
      PROVE  TypeOK'
  <2>1. n \in Nat /\ n <= CircularBufferSize
    BY Constants
  <2>2. CircularBuffer' \in [Slots -> Int]
    BY <1>1, <2>1, Constants DEF StoreToEnd, TypeOK, Slots
  <2> QED
    BY <1>1, <2>1, <2>2, Constants DEF StoreToEnd, TypeOK, readerVars, playerVars
<1>2. ASSUME StoreBeginning, UNCHANGED playerVars
      PROVE  TypeOK'
  <2>1. CircularBuffer' \in [Slots -> Int]
    BY <1>2, Constants DEF StoreBeginning, SecondPart, TypeOK, Slots, CanCopyToEnd
  <2> QED
    BY <1>2, <2>1, Constants DEF StoreBeginning, TypeOK, readerVars, playerVars
<1>3. ASSUME StorePublish, UNCHANGED playerVars
      PROVE  TypeOK'
  <2>1. TotalBytesStored' \in Long
    <3>1. /\ TotalBytesStored + ByteCount \in Int
          /\ TotalBytesStored + ByteCount >= 2 * LongMin
          /\ TotalBytesStored + ByteCount <= 2 * LongMax + 1
      BY Constants DEF TypeOK
    <3> QED
      BY <1>3, <3>1, WrapLong DEF StorePublish, Counted
  <2>2. WriteIndex' \in 0..CircularBufferSize
    BY <1>3, Constants
    DEF StorePublish, TypeOK, IndexAfterStore, FitsAtEnd, CanCopyToEnd
  <2> QED
    BY <1>3, <2>1, <2>2, Constants DEF StorePublish, TypeOK, readerVars, playerVars
<1>4. ASSUME StartPlayer \/ CopyFramesToEnd \/ CopyFramesBeginning \/ MixFrame
      PROVE  TypeOK'
  BY <1>4
  DEF StartPlayer, CopyFramesToEnd, CopyToEnd, CopyFramesBeginning, CopyBeginning,
      MixFrame, TypeOK, writerVars, playerVars
<1>5. ASSUME NEW n \in Requests, Request(n)
      PROVE  TypeOK'
  <2>1. toRead' \in 0..CircularBufferSize
    BY <1>5, RequestsBounded, RequestFitsRing DEF Request
  <2>2. rpc' \in {"copy", "mix", "advance", "ended"}
    BY <1>5 DEF Request
  <2> QED
    BY <1>5, <2>1, <2>2 DEF Request, TypeOK, writerVars, playerVars
<1>6. ASSUME AdvanceFrames
      PROVE  TypeOK'
  <2>1. TotalBytesRead' \in Long
    <3>1. /\ TotalBytesRead + toRead \in Int
          /\ TotalBytesRead + toRead >= 2 * LongMin
          /\ TotalBytesRead + toRead <= 2 * LongMax + 1
      BY Constants DEF TypeOK
    <3> QED
      BY <1>6, <3>1, WrapLong DEF AdvanceFrames, Advance
  <2>2. ReadIndex' \in Slots
    <3>1. ReadIndex + toRead \in Int
      BY Constants DEF TypeOK, Slots
    <3> QED
      BY <1>6, <3>1, ModRing DEF AdvanceFrames, Advance, IndexAfterRead
  <2> QED
    BY <1>6, <2>1, <2>2, Constants DEF AdvanceFrames, Advance, TypeOK, writerVars
<1>7. ASSUME UNCHANGED vars
      PROVE  TypeOK'
  BY <1>7 DEF vars, TypeOK, storeVars, writerVars, readerVars, playerVars
<1> QED
  BY <1>1, <1>2, <1>3, <1>4, <1>5, <1>6, <1>7, PlayerSteps

\* The ring, the totals and the player start inside their types.
LEMMA TypeInit == ASSUME Init PROVE TypeOK
<1>1. 0 \in Long /\ 0 \in Slots /\ 0 \in 0..CircularBufferSize
  BY Constants DEF Slots
<1>2. CircularBuffer \in [Slots -> Int]
  BY Constants DEF Init, InitStore, Slots
<1>3. lapped \in BOOLEAN /\ filled \in BOOLEAN
  BY Zenon DEF Init, InitStore
<1>4. 0 \in Nat
  OBVIOUS
<1> QED
  BY <1>1, <1>2, <1>3, <1>4, Zenon DEF Init, InitStore, TypeOK

-----------------------------------------------------------------------------
(* The totals                                                              *)

\* Before the totals are larger than a long, LoadData's comparison is the one of what
\* was stored with what would then be read.
LEMMA UnderrunIsExact ==
  ASSUME TypeOK, TotalsInv, NEW bytes \in 0..CircularBufferSize,
         written <= LongMax, taken + bytes <= LongMax
  PROVE  Underrun(bytes) <=> taken + bytes > written
<1>1. taken <= LongMax /\ taken \in Nat /\ bytes \in Nat /\ written \in Nat
  BY Constants DEF TypeOK
<1>2. TotalBytesRead = taken /\ TotalBytesStored = written
  BY <1>1 DEF TotalsInv
<1>3. Wrap(taken + bytes) = taken + bytes
  BY <1>1, Constants, WrapLong
<1> QED
  BY <1>2, <1>3 DEF Underrun

\* No step of the reader or the player makes a total that is in range differ from what
\* it counts, or lets the player past what is stored.
LEMMA TotalsNext ==
  ASSUME TypeOK, TypeOK', TotalsInv, [Next]_vars
  PROVE  TotalsInv'
<1> USE Constants
<1>0. /\ written \in Nat /\ taken \in Nat /\ toRead \in 0..CircularBufferSize
      /\ ByteCount \in 0..CircularBufferSize
  BY DEF TypeOK
<1>1. ASSUME UNCHANGED <<written, taken, TotalBytesStored, TotalBytesRead, toRead>>,
             \/ rpc' \notin {"copy", "copyBeginning", "mix", "advance"}
             \/ rpc \in {"copy", "copyBeginning", "mix", "advance"}
      PROVE  TotalsInv'
  <2>1. /\ written' = written /\ taken' = taken /\ toRead' = toRead
        /\ TotalBytesStored' = TotalBytesStored /\ TotalBytesRead' = TotalBytesRead
    BY <1>1
  <2>2. BeforeWrap' = BeforeWrap
    BY <2>1 DEF BeforeWrap
  <2> QED
    BY <1>1, <2>1, <2>2 DEF TotalsInv
<1>2. ASSUME NEW n \in StoreSizes, StoreToEnd(n)
      PROVE  TotalsInv'
  BY <1>1, <1>2 DEF StoreToEnd, readerVars
<1>3. ASSUME StoreBeginning
      PROVE  TotalsInv'
  BY <1>1, <1>3 DEF StoreBeginning, readerVars
<1>4. ASSUME StorePublish
      PROVE  TotalsInv'
  <2>1. /\ written' = written + ByteCount
        /\ TotalBytesStored' = Wrap(TotalBytesStored + ByteCount)
        /\ UNCHANGED <<taken, toRead, rpc, TotalBytesRead>>
    BY <1>4 DEF StorePublish, Counted, readerVars
  <2>2. written' <= LongMax => TotalBytesStored' = written'
    <3> SUFFICES ASSUME written' <= LongMax
                 PROVE  TotalBytesStored' = written'
      OBVIOUS
    <3>1. TotalBytesStored = written
      BY <1>0, <2>1 DEF TotalsInv
    <3>2. Wrap(written + ByteCount) = written + ByteCount
      BY <1>0, <2>1, WrapLong
    <3> QED
      BY <2>1, <3>1, <3>2
  <2>3. BeforeWrap' => BeforeWrap
    BY <1>0, <2>1 DEF BeforeWrap
  <2> QED
    BY <1>0, <2>1, <2>2, <2>3 DEF TotalsInv
<1>5. ASSUME NEW n \in Requests, Request(n)
      PROVE  TotalsInv'
  <2>1. /\ toRead' \in 0..CircularBufferSize
        /\ Underrun(toRead') => rpc' = "ended"
        /\ UNCHANGED <<written, taken, TotalBytesStored, TotalBytesRead>>
    BY <1>5, RequestsBounded, RequestFitsRing DEF Request, writerVars
  <2>2. rpc' # "ended" /\ BeforeWrap' => taken + toRead' <= written
    <3>1. PICK b \in 0..CircularBufferSize : b = toRead'
      BY <2>1
    <3>2. ASSUME rpc' # "ended", BeforeWrap'
          PROVE  taken + b <= written
      <4>1. ~Underrun(b) /\ written <= LongMax /\ taken + b <= LongMax
        BY <2>1, <3>1, <3>2 DEF BeforeWrap
      <4>2. ~(taken + b > written)
        BY <4>1, UnderrunIsExact
      <4> QED
        BY <1>0, <4>2
    <3> QED
      BY <3>1, <3>2
  <2> QED
    BY <2>1, <2>2 DEF TotalsInv
<1>6. ASSUME StartPlayer \/ CopyFramesToEnd \/ CopyFramesBeginning \/ MixFrame
      PROVE  TotalsInv'
  BY <1>1, <1>6
  DEF StartPlayer, CopyFramesToEnd, CopyToEnd, CopyFramesBeginning, CopyBeginning,
      MixFrame, writerVars
<1>7. ASSUME AdvanceFrames
      PROVE  TotalsInv'
  <2>1. /\ taken' = taken + toRead
        /\ TotalBytesRead' = Wrap(TotalBytesRead + toRead)
        /\ rpc' = "request"
        /\ UNCHANGED <<written, TotalBytesStored>>
    BY <1>7 DEF AdvanceFrames, Advance, writerVars
  <2>2. taken' <= LongMax => TotalBytesRead' = taken'
    <3> SUFFICES ASSUME taken' <= LongMax
                 PROVE  TotalBytesRead' = taken'
      OBVIOUS
    <3>1. TotalBytesRead = taken
      BY <1>0, <2>1 DEF TotalsInv
    <3>2. Wrap(taken + toRead) = taken + toRead
      BY <1>0, <2>1, WrapLong
    <3> QED
      BY <2>1, <3>1, <3>2
  <2> QED
    BY <2>1, <2>2 DEF TotalsInv
<1>8. ASSUME UNCHANGED vars
      PROVE  TotalsInv'
  BY <1>1, <1>8 DEF vars, storeVars, readerVars, writerVars, TotalsInv
<1> QED
  BY <1>2, <1>3, <1>4, <1>5, <1>6, <1>7, <1>8, PlayerSteps

\* The types and the totals hold throughout.
LEMMA TotalsInvariance == Spec => [](TypeOK /\ TotalsInv)
<1>1. Init => TypeOK /\ TotalsInv
  BY TypeInit DEF Init, InitStore, TotalsInv
<1>2. TypeOK /\ TotalsInv /\ [Next]_vars => (TypeOK /\ TotalsInv)'
  BY TypeNext, TotalsNext
<1> QED
  BY <1>1, <1>2, PTL DEF Spec

\* Whatever the two formats, and also once the network has lapped it, the player counts
\* no byte it has not got, until the 32-bit totals wrap.
THEOREM PlayerNeverReadsAhead == Spec => []NeverReadsAhead
<1>1. TotalsInv => NeverReadsAhead
  BY DEF TotalsInv, NeverReadsAhead
<1> QED
  BY <1>1, TotalsInvariance, PTL

\* The player, which never comes back once it has ended, ends only because the device
\* asks for more than the network has brought.
THEOREM PlayerEndsOnlyOnUnderrun == Spec => EndsOnlyOnUnderrun
<1>1. TypeOK /\ TotalsInv /\ [Next]_vars =>
        [rpc # "ended" /\ rpc' = "ended" /\ BeforeWrap'
           => taken + toRead' > written]_vars
  <2> SUFFICES ASSUME TypeOK, TotalsInv, [Next]_vars,
                      rpc # "ended", rpc' = "ended", BeforeWrap'
               PROVE  taken + toRead' > written
    OBVIOUS
  <2>1. PICK n \in Requests : Request(n)
    BY PlayerSteps
    DEF StoreToEnd, StoreBeginning, StorePublish, StartPlayer, CopyFramesToEnd,
        CopyToEnd, CopyFramesBeginning, CopyBeginning, MixFrame, AdvanceFrames,
        Advance, readerVars, vars, storeVars
  <2>2. /\ Underrun(toRead') /\ toRead' \in 0..CircularBufferSize
        /\ written' = written /\ taken' = taken
    <3>1. rpc' = "ended" => Underrun(toRead')
      <4> SUFFICES ASSUME ~Underrun(toRead') PROVE rpc' # "ended"
        OBVIOUS
      <4> QED
        BY <2>1 DEF Request
    <3> QED
      BY <2>1, <3>1, RequestsBounded, RequestFitsRing DEF Request, writerVars
  <2> QED
    BY <2>2, UnderrunIsExact DEF BeforeWrap
<1> QED
  BY <1>1, TotalsInvariance, PTL DEF Spec, EndsOnlyOnUnderrun

-----------------------------------------------------------------------------
(* The ring                                                                *)

\* The first piece of a packet lands in the slots behind WriteIndex.
LEMMA StoreToEndRing ==
  ASSUME TypeOK, RingContent, NEW n \in StoreSizes, StoreToEnd(n)
  PROVE  RingContent'
<1> USE Constants
<1>1. /\ n \in Nat /\ n > 0 /\ n <= CircularBufferSize
      /\ wpc = "idle" /\ ByteCount' = n
      /\ wpc' = IF FitsAtEnd(WriteIndex, n) THEN "publish" ELSE "wrap"
      /\ UNCHANGED <<WriteIndex, written>>
  BY DEF StoreToEnd, readerVars, TypeOK
<1> SUFFICES ASSUME NEW i \in Slots
             PROVE  (CircularBuffer[i] =
                      LET base == written - WriteIndex
                          top  == WriteIndex + Copied
                      IN IF i < top - CircularBufferSize
                           THEN base + i + CircularBufferSize
                         ELSE IF i < top THEN base + i
                         ELSE base + i - CircularBufferSize)'
  BY DEF RingContent, Slots
<1>2. CircularBuffer[i] = IF i < WriteIndex
                          THEN written - WriteIndex + i
                          ELSE written - WriteIndex + i - CircularBufferSize
  BY <1>1 DEF RingContent, Copied, TypeOK, Slots
<1>3. CircularBuffer'[i] = IF i >= WriteIndex /\ i < WriteIndex + n
                           THEN written + (i - WriteIndex)
                           ELSE CircularBuffer[i]
  BY DEF StoreToEnd
<1>4. (WriteIndex + Copied)' =
        IF FitsAtEnd(WriteIndex, n) THEN WriteIndex + n
                                    ELSE CircularBufferSize
  BY <1>1 DEF Copied, CanCopyToEnd, TypeOK
<1> QED
  BY <1>1, <1>2, <1>3, <1>4 DEF TypeOK, Slots, FitsAtEnd

\* The second piece, from slot 0, completes it.
LEMMA StoreBeginningRing ==
  ASSUME TypeOK, RingContent, StoreInProgress, StoreBeginning
  PROVE  RingContent'
<1> USE Constants
<1>1. /\ wpc = "wrap" /\ wpc' = "publish"
      /\ ByteCount > CircularBufferSize - WriteIndex
      /\ ByteCount <= CircularBufferSize
      /\ UNCHANGED <<WriteIndex, written, ByteCount>>
  BY DEF StoreBeginning, StoreInProgress, FitsAtEnd, TypeOK
<1> SUFFICES ASSUME NEW i \in Slots
             PROVE  (CircularBuffer[i] =
                      LET base == written - WriteIndex
                          top  == WriteIndex + Copied
                      IN IF i < top - CircularBufferSize
                           THEN base + i + CircularBufferSize
                         ELSE IF i < top THEN base + i
                         ELSE base + i - CircularBufferSize)'
  BY DEF RingContent, Slots
<1>2. CircularBuffer[i] = written - WriteIndex + i
  BY <1>1 DEF RingContent, Copied, CanCopyToEnd, TypeOK, Slots
<1>3. CircularBuffer'[i] =
        IF i < ByteCount - (CircularBufferSize - WriteIndex)
        THEN written + (CircularBufferSize - WriteIndex) + i
        ELSE CircularBuffer[i]
  BY DEF StoreBeginning, SecondPart, CanCopyToEnd
<1>4. (WriteIndex + Copied)' = WriteIndex + ByteCount
  BY <1>1 DEF Copied, CanCopyToEnd, TypeOK
<1> QED
  BY <1>1, <1>2, <1>3, <1>4 DEF TypeOK, Slots

\* Moving WriteIndex and counting the bytes changes no slot.
LEMMA StorePublishRing ==
  ASSUME TypeOK, RingContent, StoreInProgress, StorePublish
  PROVE  RingContent'
<1> USE Constants
<1>1. /\ wpc = "publish" /\ wpc' = "idle"
      /\ ByteCount > 0 /\ ByteCount <= CircularBufferSize
      /\ written' = written + ByteCount
      /\ WriteIndex' = IF WriteIndex + ByteCount <= CircularBufferSize
                       THEN WriteIndex + ByteCount
                       ELSE ByteCount - (CircularBufferSize - WriteIndex)
      /\ UNCHANGED CircularBuffer
  BY DEF StorePublish, StoreInProgress, IndexAfterStore, FitsAtEnd, CanCopyToEnd,
         TypeOK
<1> SUFFICES ASSUME NEW i \in Slots
             PROVE  (CircularBuffer[i] =
                      LET base == written - WriteIndex
                          top  == WriteIndex + Copied
                      IN IF i < top - CircularBufferSize
                           THEN base + i + CircularBufferSize
                         ELSE IF i < top THEN base + i
                         ELSE base + i - CircularBufferSize)'
  BY DEF RingContent, Slots
<1>2. CircularBuffer[i] =
        IF i < WriteIndex + ByteCount - CircularBufferSize
          THEN written - WriteIndex + i + CircularBufferSize
        ELSE IF i < WriteIndex + ByteCount THEN written - WriteIndex + i
        ELSE written - WriteIndex + i - CircularBufferSize
  BY <1>1 DEF RingContent, Copied, CanCopyToEnd, TypeOK, Slots
<1>3. (WriteIndex + Copied)' = WriteIndex'
  BY <1>1 DEF Copied, TypeOK
<1> QED
  BY <1>1, <1>2, <1>3 DEF TypeOK, Slots

\* Until the ring is overrun, the slot a byte falls on still holds it.
LEMMA UnreadIsInRing ==
  ASSUME TypeOK, RingContent, StoreInProgress, ReadAligned, NotOverrun,
         NEW k \in Nat, k < written - taken
  PROVE  CircularBuffer[(ReadIndex + k) % CircularBufferSize] = taken + k
<1> DEFINE s == (ReadIndex + k) % CircularBufferSize
<1>1. ReadIndex + k \in Int /\ k < CircularBufferSize
  BY Constants DEF TypeOK, Slots, NotOverrun
<1>2. /\ s \in Slots
      /\ s = ReadIndex + k \/ s = ReadIndex + k - CircularBufferSize
  BY <1>1, ModRing, Constants DEF TypeOK, Slots
<1> HIDE DEF s
<1>3. CircularBuffer[s] =
        LET base == written - WriteIndex
            top  == WriteIndex + Copied
        IN IF s < top - CircularBufferSize THEN base + s + CircularBufferSize
           ELSE IF s < top THEN base + s
           ELSE base + s - CircularBufferSize
  BY <1>2 DEF RingContent
<1>4. CircularBuffer[s] = taken + k
  BY <1>1, <1>2, <1>3, Constants
  DEF TypeOK, Slots, ReadAligned, NotOverrun, StoreInProgress, Copied, CanCopyToEnd,
      FitsAtEnd
<1> QED
  BY <1>4 DEF s

\* The reading position moves by what was loaded, in the ring and in the stream.
LEMMA AdvanceAligned ==
  ASSUME TypeOK, TotalsInv, BeforeWrap, ReadAligned, NotOverrun, AdvanceFrames
  PROVE  ReadAligned' /\ NotOverrun'
<1> USE Constants
<1>1. /\ taken' = taken + toRead
      /\ ReadIndex' = (ReadIndex + toRead) % CircularBufferSize
      /\ UNCHANGED <<written, wpc, ByteCount, WriteIndex>>
  BY DEF AdvanceFrames, Advance, IndexAfterRead, writerVars
<1>2. /\ written \in Int /\ taken \in Int /\ toRead \in Int
      /\ toRead >= 0 /\ toRead <= CircularBufferSize
      /\ ReadIndex \in Int /\ ReadIndex >= 0 /\ ReadIndex < CircularBufferSize
      /\ WriteIndex \in Int /\ WriteIndex >= 0 /\ WriteIndex <= CircularBufferSize
      /\ written - taken <= CircularBufferSize /\ taken + toRead <= written
  BY DEF TypeOK, Slots, NotOverrun, AdvanceFrames, Advance, TotalsInv
<1>3. /\ ReadIndex' >= 0 /\ ReadIndex' < CircularBufferSize
      /\ \/ ReadIndex' = ReadIndex + toRead
         \/ ReadIndex' = ReadIndex + toRead - CircularBufferSize
  BY <1>1, <1>2, ModRing DEF Slots
<1>4. \/ ReadIndex - (WriteIndex - (written - taken)) = 0
      \/ ReadIndex - (WriteIndex - (written - taken)) = CircularBufferSize
      \/ ReadIndex - (WriteIndex - (written - taken)) = -CircularBufferSize
  BY DEF ReadAligned
<1>5. \/ ReadIndex' - (WriteIndex - (written - (taken + toRead))) = 0
      \/ ReadIndex' - (WriteIndex - (written - (taken + toRead))) = CircularBufferSize
      \/ ReadIndex' - (WriteIndex - (written - (taken + toRead))) = -CircularBufferSize
  BY <1>2, <1>3, <1>4
<1>6. ReadAligned'
  BY <1>1, <1>5 DEF ReadAligned
<1>7. NotOverrun'
  BY <1>1, <1>2 DEF NotOverrun, TypeOK
<1> QED
  BY <1>6, <1>7

\* Every step keeps the ring's content, and until the player is lapped or a total
\* wraps, its alignment.
LEMMA RingNext ==
  ASSUME TypeOK, TypeOK', TotalsInv, RingInv, [Next]_vars
  PROVE  RingInv'
<1> USE Constants
<1> DEFINE InRange == written <= LongMax /\ taken <= LongMax
<1>1. ASSUME NEW n \in StoreSizes, StoreToEnd(n)
      PROVE  RingInv'
  <2>1. /\ n \in Nat /\ n > 0 /\ n <= CircularBufferSize
        /\ wpc = "idle" /\ ByteCount' = n
        /\ wpc' = IF FitsAtEnd(WriteIndex, n) THEN "publish" ELSE "wrap"
        /\ UNCHANGED <<WriteIndex, ReadIndex, written, taken>>
    BY <1>1 DEF StoreToEnd, readerVars, TypeOK
  <2>2. RingContent' /\ StoreInProgress'
    BY <1>1, <2>1, StoreToEndRing DEF RingInv, StoreInProgress
  <2>3. ASSUME ~lapped', InRange'
        PROVE  ReadAligned' /\ NotOverrun'
    <3>1. ~lapped /\ ~(written + n - taken > CircularBufferSize)
      BY <1>1, <2>3, Zenon DEF StoreToEnd
    <3>2. ReadAligned /\ NotOverrun
      BY <2>1, <2>3, <3>1 DEF RingInv
    <3> QED
      BY <2>1, <3>1, <3>2 DEF ReadAligned, NotOverrun, TypeOK
  <2> QED
    BY <2>2, <2>3 DEF RingInv
<1>2. ASSUME StoreBeginning
      PROVE  RingInv'
  <2>1. /\ wpc = "wrap" /\ wpc' = "publish"
        /\ UNCHANGED <<WriteIndex, ReadIndex, ByteCount, written, taken, lapped>>
    BY <1>2 DEF StoreBeginning, readerVars
  <2>2. RingContent' /\ StoreInProgress'
    BY <1>2, <2>1, StoreBeginningRing DEF RingInv, StoreInProgress
  <2> QED
    BY <2>1, <2>2 DEF RingInv, ReadAligned, NotOverrun
<1>3. ASSUME StorePublish
      PROVE  RingInv'
  <2>1. /\ wpc = "publish" /\ wpc' = "idle"
        /\ written' = written + ByteCount
        /\ WriteIndex' = IF WriteIndex + ByteCount <= CircularBufferSize
                         THEN WriteIndex + ByteCount
                         ELSE ByteCount - (CircularBufferSize - WriteIndex)
        /\ UNCHANGED <<ReadIndex, taken, lapped>>
    BY <1>3
    DEF StorePublish, readerVars, IndexAfterStore, FitsAtEnd, CanCopyToEnd
  <2>2. RingContent' /\ StoreInProgress'
    BY <1>3, <2>1, StorePublishRing DEF RingInv, StoreInProgress
  <2>3. ASSUME ~lapped', InRange'
        PROVE  ReadAligned' /\ NotOverrun'
    <3>1. ReadAligned /\ NotOverrun
      BY <2>1, <2>3 DEF RingInv, TypeOK
    <3> QED
      BY <2>1, <3>1 DEF ReadAligned, NotOverrun, TypeOK, Slots
  <2> QED
    BY <2>2, <2>3 DEF RingInv
<1>4. ASSUME AdvanceFrames
      PROVE  RingInv'
  <2>1. RingContent' /\ StoreInProgress'
    BY <1>4 DEF AdvanceFrames, Advance, writerVars, RingInv, RingContent,
                StoreInProgress, Copied, CanCopyToEnd, FitsAtEnd
  <2>2. ASSUME ~lapped', InRange'
        PROVE  ReadAligned' /\ NotOverrun'
    <3>1. /\ taken' = taken + toRead /\ rpc = "advance"
          /\ UNCHANGED <<lapped, written>>
      BY <1>4 DEF AdvanceFrames, Advance, writerVars
    <3>2. ReadAligned /\ NotOverrun /\ BeforeWrap
      BY <2>2, <3>1 DEF RingInv, BeforeWrap, TypeOK
    <3> QED
      BY <1>4, <3>2, AdvanceAligned
  <2> QED
    BY <2>1, <2>2 DEF RingInv
<1>5. ASSUME UNCHANGED <<writerVars, ReadIndex, taken>>
      PROVE  RingInv'
  BY <1>5 DEF writerVars, RingInv, RingContent, StoreInProgress, ReadAligned,
              NotOverrun, Copied, CanCopyToEnd, FitsAtEnd
<1>6. ASSUME \/ StartPlayer \/ (\E n \in Requests : Request(n)) \/ CopyFramesToEnd
             \/ CopyFramesBeginning \/ MixFrame \/ UNCHANGED vars
      PROVE  UNCHANGED <<writerVars, ReadIndex, taken>>
  BY <1>6 DEF StartPlayer, Request, CopyFramesToEnd, CopyToEnd, CopyFramesBeginning,
              CopyBeginning, MixFrame, vars, storeVars, readerVars
<1> QED
  BY <1>1, <1>2, <1>3, <1>4, <1>5, <1>6, PlayerSteps

-----------------------------------------------------------------------------
(* Copying                                                                 *)

\* Where a request leads is a matter of the format.
LEMMA RequestLeadsTo ==
  ASSUME TypeOK, NEW n \in Requests, Request(n)
  PROVE  /\ rpc' \in {"ended", "copy", "advance", "mix"}
         /\ rpc' = "copy" => format.convert = "same"
         /\ rpc' = "advance" => format.convert = "none"
         /\ rpc' = "mix" => format.convert \notin {"same", "none"}
         /\ format' = format
BY DEF Request, playerVars

\* While the totals are in range, a store that does not lap leaves them so.
LEMMA StoresKeepRange ==
  ASSUME TypeOK,
         \/ \E n \in StoreSizes : StoreToEnd(n)
         \/ StoreBeginning \/ StorePublish
  PROVE  /\ BeforeWrap' => BeforeWrap
         /\ ~lapped' => ~lapped
         /\ UNCHANGED readerVars
<1>1. UNCHANGED readerVars
  BY DEF StoreToEnd, StoreBeginning, StorePublish
<1>2. BeforeWrap' => BeforeWrap
  <2>1. taken' = taken /\ toRead' = toRead
    BY <1>1 DEF readerVars
  <2>2. written' = written \/ written' = written + ByteCount
    BY DEF StoreToEnd, StoreBeginning, StorePublish
  <2>3. /\ written \in Int /\ ByteCount \in Int /\ ByteCount >= 0
        /\ LongMax \in Int
    BY Constants DEF TypeOK
  <2> QED
    BY <2>1, <2>2, <2>3 DEF BeforeWrap
<1>3. ~lapped' => ~lapped
  BY Zenon DEF StoreToEnd, StoreBeginning, StorePublish
<1> QED
  BY <1>1, <1>2, <1>3

\* What the player may read it finds in the ring.
LEMMA ReadyToRead ==
  ASSUME TypeOK, TotalsInv, RingInv, ~lapped, BeforeWrap
  PROVE  /\ \A k \in Nat : k < written - taken =>
              CircularBuffer[(ReadIndex + k) % CircularBufferSize] = taken + k
         /\ rpc \in {"copy", "copyBeginning", "mix", "advance"} =>
              toRead <= written - taken
<1>1. ReadAligned /\ NotOverrun /\ RingContent /\ StoreInProgress
  BY Constants DEF RingInv, BeforeWrap, TypeOK
<1>2. \A k \in Nat : k < written - taken =>
        CircularBuffer[(ReadIndex + k) % CircularBufferSize] = taken + k
  BY <1>1, UnreadIsInRing
<1>3. rpc \in {"copy", "copyBeginning", "mix", "advance"} =>
        toRead <= written - taken
  BY Constants DEF TotalsInv, TypeOK
<1> QED
  BY <1>2, <1>3

\* The first piece is the stream from the read position on ...
LEMMA CopyToEndInv ==
  ASSUME TypeOK, TotalsInv, RingInv, CopyInv, CopyFramesToEnd, ~lapped, BeforeWrap
  PROVE  /\ rpc' = "copyBeginning" =>
              buff' = [k \in 0..(CanCopyToEnd(ReadIndex) - 1) |-> taken + k]
         /\ rpc' = "advance" => buff' = [k \in 0..(toRead - 1) |-> taken + k]
<1> USE Constants
<1> DEFINE n == IF ReadsAtEnd THEN toRead ELSE CanCopyToEnd(ReadIndex)
<1>1. /\ toRead \in Nat /\ ReadIndex \in Nat /\ ReadIndex < CircularBufferSize
      /\ written \in Int /\ taken \in Int
      /\ toRead <= written - taken
  BY ReadyToRead DEF TypeOK, Slots, CopyFramesToEnd, CopyToEnd
<1>2. /\ buff' = [k \in 0..(n - 1) |-> CircularBuffer[ReadIndex + k]]
      /\ rpc' = IF ReadsAtEnd THEN "advance" ELSE "copyBeginning"
  BY DEF CopyFramesToEnd, CopyToEnd
<1>3. n \in Nat /\ n <= toRead /\ ReadIndex + n <= CircularBufferSize
  BY <1>1 DEF ReadsAtEnd, FitsAtEnd, CanCopyToEnd
<1> HIDE DEF n
<1>4. \A k \in 0..(n - 1) : CircularBuffer[ReadIndex + k] = taken + k
  <2> SUFFICES ASSUME NEW k \in 0..(n - 1)
               PROVE  CircularBuffer[ReadIndex + k] = taken + k
    OBVIOUS
  <2>1. k \in Nat /\ k < written - taken
    BY <1>1, <1>3
  <2>2. (ReadIndex + k) % CircularBufferSize = ReadIndex + k
    BY <1>1, <1>3, <2>1, ModRing
  <2>3. CircularBuffer[(ReadIndex + k) % CircularBufferSize] = taken + k
    BY <2>1, ReadyToRead
  <2> QED
    BY <2>2, <2>3
<1>5. buff' = [k \in 0..(n - 1) |-> taken + k]
  BY <1>2, <1>4
<1> QED
  BY <1>2, <1>5 DEF n

\* ... and the second goes on where it ends.
LEMMA CopyBeginningInv ==
  ASSUME TypeOK, TotalsInv, RingInv, CopyInv, CopyFramesBeginning, ~lapped, BeforeWrap
  PROVE  buff' = [k \in 0..(toRead - 1) |-> taken + k]
<1> USE Constants
<1> DEFINE toEnd == CanCopyToEnd(ReadIndex)
           copied(k) == IF k < toEnd THEN buff[k]
                        ELSE IF k - toEnd \in Slots
                             THEN CircularBuffer[k - toEnd] ELSE -1
<1>1. /\ toRead \in Nat /\ ReadIndex \in Nat /\ ReadIndex < CircularBufferSize
      /\ written \in Int /\ taken \in Int
      /\ toRead <= written - taken /\ toRead <= CircularBufferSize
  BY ReadyToRead DEF TypeOK, Slots, CopyFramesBeginning, CopyBeginning
<1>2. toEnd \in Nat /\ toEnd = CircularBufferSize - ReadIndex
  BY <1>1 DEF CanCopyToEnd
<1>3. buff = [k \in 0..(toEnd - 1) |-> taken + k]
  BY DEF CopyInv, CopyFramesBeginning, CopyBeginning
<1>4. buff' = [k \in 0..(toRead - 1) |-> copied(k)]
  BY DEF CopyFramesBeginning, CopyBeginning, FirstSlots
<1>5. \A k \in 0..(toRead - 1) : copied(k) = taken + k
  <2> SUFFICES ASSUME NEW k \in 0..(toRead - 1)
               PROVE  copied(k) = taken + k
    OBVIOUS
  <2>1. k \in Nat /\ k < written - taken /\ k < CircularBufferSize
    BY <1>1
  <2>2. CASE k < toEnd
    BY <1>2, <1>3, <2>1, <2>2
  <2>3. CASE ~(k < toEnd)
    <3>1. /\ (ReadIndex + k) % CircularBufferSize = k - toEnd
          /\ k - toEnd \in Slots
      BY <1>1, <1>2, <2>1, <2>3, ModRing DEF Slots
    <3>2. CircularBuffer[(ReadIndex + k) % CircularBufferSize] = taken + k
      BY <2>1, ReadyToRead
    <3> HIDE DEF toEnd
    <3> QED
      BY <2>3, <3>1, <3>2
  <2> QED
    BY <2>2, <2>3
<1> HIDE DEF copied
<1> QED
  BY <1>4, <1>5

\* Every step keeps what is copied the stream from the read position on.
LEMMA CopyNext ==
  ASSUME TypeOK, TypeOK', TotalsInv, RingInv, CopyInv, [Next]_vars
  PROVE  CopyInv'
<1> USE Constants
<1>1. ASSUME UNCHANGED <<readerVars, playerVars>>,
             BeforeWrap' => BeforeWrap, ~lapped' => ~lapped
      PROVE  CopyInv'
  BY <1>1 DEF readerVars, playerVars, CopyInv, ReadsAtEnd, FitsAtEnd, CanCopyToEnd
<1>2. ASSUME \/ \E n \in StoreSizes : StoreToEnd(n)
             \/ StoreBeginning \/ StorePublish,
             UNCHANGED playerVars
      PROVE  CopyInv'
  BY <1>1, <1>2, StoresKeepRange
<1>3. ASSUME StartPlayer \/ AdvanceFrames
      PROVE  CopyInv'
  BY <1>3 DEF StartPlayer, AdvanceFrames, Advance, CopyInv
<1>4. ASSUME NEW n \in Requests, Request(n)
      PROVE  CopyInv'
  BY <1>4, RequestLeadsTo DEF CopyInv
<1>5. ASSUME CopyFramesToEnd
      PROVE  CopyInv'
  <2>1. /\ rpc = "copy" /\ UNCHANGED <<ReadIndex, toRead, taken, written, lapped, format>>
        /\ rpc' = IF ReadsAtEnd THEN "advance" ELSE "copyBeginning"
    BY <1>5 DEF CopyFramesToEnd, CopyToEnd, writerVars, playerVars
  <2>2. format'.convert = "same"
    BY <2>1 DEF CopyInv
  <2>3. rpc' = "copyBeginning" => ~ReadsAtEnd'
    BY <2>1 DEF ReadsAtEnd, FitsAtEnd
  <2>4. ~lapped' /\ BeforeWrap' => ~lapped /\ BeforeWrap
    BY <2>1 DEF BeforeWrap
  <2>5. ~lapped' /\ BeforeWrap' =>
          /\ rpc' = "copyBeginning" =>
               buff' = [k \in 0..(CanCopyToEnd(ReadIndex) - 1) |-> taken + k]
          /\ rpc' = "advance" => buff' = [k \in 0..(toRead - 1) |-> taken + k]
    BY <1>5, <2>4, CopyToEndInv
  <2> QED
    BY <2>1, <2>2, <2>3, <2>5 DEF CopyInv, CanCopyToEnd
<1>6. ASSUME CopyFramesBeginning
      PROVE  CopyInv'
  <2>1. /\ rpc = "copyBeginning" /\ rpc' = "advance"
        /\ UNCHANGED <<ReadIndex, toRead, taken, written, lapped, format>>
    BY <1>6 DEF CopyFramesBeginning, CopyBeginning, writerVars, playerVars
  <2>2. ~lapped' /\ BeforeWrap' => ~lapped /\ BeforeWrap
    BY <2>1 DEF BeforeWrap
  <2>3. ~lapped' /\ BeforeWrap' => buff' = [k \in 0..(toRead - 1) |-> taken + k]
    BY <1>6, <2>2, CopyBeginningInv
  <2> QED
    BY <2>1, <2>3 DEF CopyInv
<1>7. ASSUME MixFrame
      PROVE  CopyInv'
  BY <1>7 DEF MixFrame, playerVars, CopyInv
<1>8. ASSUME UNCHANGED vars
      PROVE  CopyInv'
  BY <1>1, <1>8 DEF vars, storeVars, writerVars, readerVars, BeforeWrap
<1> QED
  BY <1>2, <1>3, <1>4, <1>5, <1>6, <1>7, <1>8, PlayerSteps

-----------------------------------------------------------------------------
(* Mixing                                                                  *)

\* The multiples of a frame's size, and nothing between them, leave no remainder.
LEMMA Multiples ==
  ASSUME NEW b \in Nat \ {0}, NEW x \in Nat
  PROVE  x % b = 0 <=> \E j \in Nat : x = j * b
<1>0. b \in Int /\ b > 0
  OBVIOUS
<1>1. ASSUME x % b = 0
      PROVE  \E j \in Nat : x = j * b
  <2> DEFINE q == x \div b
  <2>1. q \in Nat /\ x = b * q
    BY <1>0, <1>1
  <2> HIDE DEF q
  <2> QED
    BY <1>0, <2>1
<1>2. ASSUME NEW j \in Nat
      PROVE  (b * j) % b = 0
  BY <1>0
<1>3. ASSUME NEW j \in Nat, x = j * b
      PROVE  x % b = 0
  <2>1. x = b * j
    BY <1>0, <1>3
  <2> QED
    BY <1>2, <2>1
<1> QED
  BY <1>1, <1>3

\* The frames of the ring that fall on a frame of the device are some, and are inside
\* the ring, the one behind the last included.
LEMMA SourceFramesInRing ==
  ASSUME TypeOK, NEW i \in Nat, i < bufferFrameCount
  PROVE  /\ SourceFrames(format, i) \in Nat /\ SourceFrames(format, i + 1) \in Nat
         /\ SourceFrames(format, i) <= SourceFrames(format, i + 1)
         /\ \A j \in 0..SourceFrames(format, i + 1) :
              j * BlockAlign \in Nat /\ j * BlockAlign < CircularBufferSize
<1> DEFINE Q == SourceFrames(format, bufferFrameCount)
           q == SourceFrames(format, i + 1)
<1>1. /\ format \in Formats /\ bufferFrameCount \in Nat
      /\ (Q + 1) * BlockAlign < CircularBufferSize
  BY DeviceAssumption DEF TypeOK
<1>2. /\ SourceFrames(format, i) \in Nat /\ q \in Nat
      /\ SourceFrames(format, i) <= q
  BY <1>1, SourceFramesMonotone
<1>3. q <= Q /\ Q \in Nat
  BY <1>1, SourceFramesMonotone
<1> HIDE DEF q, Q
<1>4. ASSUME NEW j \in 0..q
      PROVE  j * BlockAlign \in Nat /\ j * BlockAlign < CircularBufferSize
  <2>1. j \in Nat /\ j <= Q + 1
    BY <1>2, <1>3
  <2>2. j * BlockAlign \in Nat /\ j * BlockAlign <= (Q + 1) * BlockAlign
    BY <1>3, <2>1, Constants
  <2>3. (Q + 1) * BlockAlign \in Nat
    BY <1>3, Constants
  <2> HIDE DEF q
  <2> QED
    BY <1>1, <2>2, <2>3, Constants
<1> QED
  BY <1>2, <1>4 DEF q

\* The source indices of a frame of the device are those of the frames of the ring that
\* fall on it: no turn of the ring comes between them.
LEMMA SourceIndicesAre ==
  ASSUME TypeOK, NEW i \in Nat, i < bufferFrameCount
  PROVE  SourceIndices(i) =
           {j * BlockAlign : j \in SourceFrames(format, i)..SourceFrames(format, i + 1)}
<1> DEFINE a == SourceFrames(format, i)
           b == SourceFrames(format, i + 1)
<1>1. /\ a \in Nat /\ b \in Nat /\ a <= b
      /\ \A j \in 0..b : j * BlockAlign \in Nat /\ j * BlockAlign < CircularBufferSize
  BY SourceFramesInRing
<1>2. BlockAlign \in Nat \ {0}
  BY SizeAssumption
<1>3. \A j \in 0..b : (j * BlockAlign) % CircularBufferSize = j * BlockAlign
  <2> SUFFICES ASSUME NEW j \in 0..b
               PROVE  (j * BlockAlign) % CircularBufferSize = j * BlockAlign
    OBVIOUS
  <2> DEFINE p == j * BlockAlign
  <2>1. p \in Nat /\ p < CircularBufferSize
    BY <1>1
  <2> HIDE DEF p
  <2>2. p % CircularBufferSize = p
    BY <2>1, ModRing
  <2> QED
    BY <2>2 DEF p
<1>4. SourceIndex(i) = a * BlockAlign /\ SourceIndex(i + 1) = b * BlockAlign
  <2>1. a \in 0..b /\ b \in 0..b
    BY <1>1
  <2> QED
    BY <1>3, <2>1 DEF SourceIndex
<1>5. SourceIndices(i) = {s \in (a * BlockAlign)..(b * BlockAlign) :
                            (s - a * BlockAlign) % BlockAlign = 0}
  BY <1>4 DEF SourceIndices
<1> HIDE DEF a, b
<1>6. ASSUME NEW s \in (a * BlockAlign)..(b * BlockAlign),
             (s - a * BlockAlign) % BlockAlign = 0
      PROVE  \E j \in a..b : s = j * BlockAlign
  <2> DEFINE A == a * BlockAlign
             B == b * BlockAlign
             x == s - A
  <2>1. A \in Nat /\ B \in Nat /\ s \in A..B
    BY <1>1, <1>6
  <2> HIDE DEF A, B
  <2>2. x \in Nat /\ x % BlockAlign = 0
    BY <1>6, <2>1 DEF A
  <2> HIDE DEF x
  <2>3. PICK j \in Nat : x = j * BlockAlign
    BY <1>2, <2>2, Multiples
  <2>4. s = A + x
    BY <2>1 DEF x
  <2>5. s = (a + j) * BlockAlign
    BY <1>1, <1>2, <2>3, <2>4 DEF A
  <2>6. a + j <= b
    <3> SUFFICES ASSUME a + j >= b + 1 PROVE FALSE
      BY <1>1
    <3>1. (a + j) * BlockAlign >= (b + 1) * BlockAlign
      BY <1>1, <1>2
    <3>2. (b + 1) * BlockAlign = B + BlockAlign
      BY <1>1, <1>2 DEF B
    <3> QED
      BY <1>2, <2>1, <2>5, <3>1, <3>2
  <2>7. a + j \in a..b
    BY <1>1, <2>6
  <2> QED
    BY <2>5, <2>7
<1>7. ASSUME NEW j \in a..b
      PROVE  /\ j * BlockAlign \in (a * BlockAlign)..(b * BlockAlign)
             /\ (j * BlockAlign - a * BlockAlign) % BlockAlign = 0
  <2>1. /\ j * BlockAlign \in Nat /\ a * BlockAlign \in Nat /\ b * BlockAlign \in Nat
        /\ a * BlockAlign <= j * BlockAlign /\ j * BlockAlign <= b * BlockAlign
    BY <1>1, <1>2
  <2> DEFINE x == j * BlockAlign - a * BlockAlign
             d == j - a
  <2>2. d \in Nat /\ x = d * BlockAlign /\ x \in Nat
    BY <1>1, <1>2, <2>1
  <2> HIDE DEF x, d
  <2>3. x % BlockAlign = 0
    BY <1>2, <2>2, Multiples
  <2>4. j * BlockAlign \in (a * BlockAlign)..(b * BlockAlign)
    BY <2>1
  <2> QED
    BY <2>3, <2>4 DEF x
<1>8. SourceIndices(i) = {j * BlockAlign : j \in a..b}
  <2>1. \A s \in SourceIndices(i) : \E j \in a..b : s = j * BlockAlign
    BY <1>5, <1>6
  <2>2. \A j \in a..b : j * BlockAlign \in SourceIndices(i)
    BY <1>5, <1>7
  <2> QED
    BY <2>1, <2>2
<1> QED
  BY <1>8 DEF a, b

\* A conversion of float samples puts into a frame of the device what it is to be mixed
\* from.
LEMMA MixedFrame ==
  ASSUME TypeOK, TotalsInv, RingInv, rpc = "mix", format.convert = "float",
         ~lapped, BeforeWrap, NEW i \in Nat, i < bufferFrameCount,
         NEW mixed, mixed = {CircularBuffer[MixedSlot(s)] : s \in SourceIndices(i)}
  PROVE  /\ {p \in Place(i) : p < taken + toRead} \subseteq mixed
         /\ mixed # Place(i) => \E p \in Place(i) : p >= taken + toRead
<1> DEFINE a == SourceFrames(format, i)
           b == SourceFrames(format, i + 1)
           place(j) == taken + j * BlockAlign
           content(j) == CircularBuffer[(ReadIndex + j * BlockAlign) % CircularBufferSize]
<1>1. mixed = {content(j) : j \in a..b}
  <2>1. \A s : MixedSlot(s) = (ReadIndex + s) % CircularBufferSize
    BY DEF MixedSlot
  <2>2. SourceIndices(i) = {j * BlockAlign : j \in a..b}
    BY SourceIndicesAre
  <2> QED
    BY <2>1, <2>2
<1>2. Place(i) = {place(j) : j \in a..b}
  BY DEF Place
<1>3. \A j \in a..b : place(j) < taken + toRead => content(j) = place(j)
  <2> SUFFICES ASSUME NEW j \in a..b, place(j) < taken + toRead
               PROVE  content(j) = place(j)
    OBVIOUS
  <2> DEFINE p == j * BlockAlign
  <2>1. j \in 0..b
    BY SourceFramesInRing
  <2>2. p \in Nat
    BY <2>1, SourceFramesInRing
  <2>3. toRead <= written - taken
    BY ReadyToRead
  <2>4. taken \in Int /\ written \in Int /\ toRead \in Int
    BY Constants DEF TypeOK
  <2>5. taken + p < taken + toRead
    OBVIOUS
  <2> HIDE DEF p
  <2>6. p < written - taken
    BY <2>2, <2>3, <2>4, <2>5
  <2>7. CircularBuffer[(ReadIndex + p) % CircularBufferSize] = taken + p
    BY <2>2, <2>6, ReadyToRead
  <2> QED
    BY <2>7 DEF p
<1>4. \A j \in a..b : place(j) \in Int
  <2> SUFFICES ASSUME NEW j \in a..b
               PROVE  place(j) \in Int
    OBVIOUS
  <2> DEFINE p == j * BlockAlign
  <2>1. j \in 0..b
    BY SourceFramesInRing
  <2>2. p \in Nat
    BY <2>1, SourceFramesInRing
  <2> HIDE DEF p
  <2>3. taken + p \in Int
    BY <2>2 DEF TypeOK
  <2> QED
    BY <2>3 DEF p
<1>5. taken + toRead \in Int
  BY Constants DEF TypeOK
<1> DEFINE end == taken + toRead
<1>6. \A j \in a..b : place(j) < end => content(j) = place(j)
  BY <1>3
<1> HIDE DEF a, b, place, content, end
<1>7. {p \in Place(i) : p < end} \subseteq mixed
  BY <1>1, <1>2, <1>6
<1>8. ASSUME mixed # Place(i)
      PROVE  \E p \in Place(i) : p >= end
  <2>1. ASSUME \A j \in a..b : place(j) < end PROVE FALSE
    <3>1. \A j \in a..b : content(j) = place(j)
      BY <1>6, <2>1
    <3>2. {content(j) : j \in a..b} = {place(j) : j \in a..b}
      BY <3>1, Zenon
    <3> QED
      BY <1>1, <1>2, <1>8, <3>2
  <2>2. PICK j \in a..b : ~(place(j) < end)
    BY <2>1
  <2>3. place(j) >= end
    BY <1>4, <1>5, <2>2 DEF end
  <2> QED
    BY <1>2, <2>3
<1> QED
  BY <1>7, <1>8 DEF end

\* The next frame that is mixed is the first one that is not yet, and is some frame.
LEMMA MixesTheNext ==
  ASSUME TypeOK, MixInv, MixFrame
  PROVE  \E n \in 1..bufferFrameCount : \E m \in 0..(n - 1) :
           /\ DOMAIN buff = 0..(n - 1)
           /\ \A i \in 0..(n - 1) : buff[i] = {} <=> i >= m
           /\ buff' = [buff EXCEPT ![m] = {CircularBuffer[MixedSlot(s)] :
                                             s \in SourceIndices(m)}]
           /\ SourceIndices(m) # {}
           /\ rpc' = IF m + 1 <= n - 1 THEN "mix" ELSE "advance"
           /\ m \in Nat /\ m < bufferFrameCount
<1>1. rpc = "mix"
  BY DEF MixFrame
<1>2. PICK n \in 1..bufferFrameCount : \E m \in 0..(n - 1) :
        /\ DOMAIN buff = 0..(n - 1)
        /\ \A i \in 0..(n - 1) : buff[i] = {} <=> i >= m
  BY <1>1 DEF MixInv
<1>3. PICK m \in 0..(n - 1) :
        /\ DOMAIN buff = 0..(n - 1)
        /\ \A i \in 0..(n - 1) : buff[i] = {} <=> i >= m
  BY <1>2
<1>4. n \in Nat /\ m \in Nat /\ m < bufferFrameCount /\ bufferFrameCount \in Nat
  BY DeviceAssumption
<1> DEFINE next(k) == buff[k] = {} /\ \A j \in 0..(k - 1) : buff[j] # {}
<1>5. next(m)
  BY <1>3, <1>4
<1>6. \A k \in DOMAIN buff : next(k) => k = m
  <2> SUFFICES ASSUME NEW k \in DOMAIN buff, next(k)
               PROVE  k = m
    OBVIOUS
  <2>1. k \in 0..(n - 1) /\ k >= m
    BY <1>3
  <2>2. ~(m < k)
    BY <1>3, <1>4, <2>1
  <2> QED
    BY <1>4, <2>1, <2>2
<1>7. m = CHOOSE k \in DOMAIN buff : next(k)
  <2>1. m \in DOMAIN buff
    BY <1>3
  <2> HIDE DEF next
  <2> QED
    BY <1>5, <1>6, <2>1
<1>8. /\ buff' = [buff EXCEPT ![m] = {CircularBuffer[MixedSlot(s)] :
                                        s \in SourceIndices(m)}]
      /\ rpc' = IF m + 1 \in DOMAIN buff THEN "mix" ELSE "advance"
  BY <1>7 DEF MixFrame
<1>9. rpc' = IF m + 1 <= n - 1 THEN "mix" ELSE "advance"
  BY <1>3, <1>4, <1>8
<1>10. SourceIndices(m) # {}
  <2> DEFINE a == SourceFrames(format, m)
             b == SourceFrames(format, m + 1)
  <2>1. a \in Nat /\ b \in Nat /\ a <= b
    BY <1>4, SourceFramesInRing
  <2>2. SourceIndices(m) = {j * BlockAlign : j \in a..b}
    BY <1>4, SourceIndicesAre
  <2> HIDE DEF a, b
  <2>3. a \in a..b
    BY <2>1
  <2> QED
    BY <2>2, <2>3
<1> QED
  BY <1>3, <1>4, <1>8, <1>9, <1>10

\* What the frames of the device are mixed from does not change while they are.
LEMMA PlaceStays ==
  ASSUME UNCHANGED <<taken, toRead, format>>, NEW i, buff'[i] = buff[i]
  PROVE  FromItsPlace(i)' <=> FromItsPlace(i)
BY DEF FromItsPlace, Place

\* Mixing one more frame keeps the frames before it.
LEMMA MixFrameInv ==
  ASSUME TypeOK, TotalsInv, RingInv, MixInv, MixFrame
  PROVE  MixInv'
<1>1. PICK n \in 1..bufferFrameCount : \E m \in 0..(n - 1) :
        /\ DOMAIN buff = 0..(n - 1)
        /\ \A i \in 0..(n - 1) : buff[i] = {} <=> i >= m
        /\ buff' = [buff EXCEPT ![m] = {CircularBuffer[MixedSlot(s)] :
                                          s \in SourceIndices(m)}]
        /\ SourceIndices(m) # {}
        /\ rpc' = IF m + 1 <= n - 1 THEN "mix" ELSE "advance"
        /\ m \in Nat /\ m < bufferFrameCount
  BY MixesTheNext
<1>2. PICK m \in 0..(n - 1) :
        /\ DOMAIN buff = 0..(n - 1)
        /\ \A i \in 0..(n - 1) : buff[i] = {} <=> i >= m
        /\ buff' = [buff EXCEPT ![m] = {CircularBuffer[MixedSlot(s)] :
                                          s \in SourceIndices(m)}]
        /\ SourceIndices(m) # {}
        /\ rpc' = IF m + 1 <= n - 1 THEN "mix" ELSE "advance"
        /\ m \in Nat /\ m < bufferFrameCount
  BY <1>1
<1>3. n \in Nat
  BY DeviceAssumption
<1> DEFINE mixed == {CircularBuffer[MixedSlot(s)] : s \in SourceIndices(m)}
<1>4. mixed # {}
  BY <1>2
<1>5. /\ DOMAIN buff' = 0..(n - 1)
      /\ buff'[m] = mixed
      /\ \A i \in 0..(n - 1) : i # m => buff'[i] = buff[i]
  BY <1>2
<1>6. /\ rpc = "mix"
      /\ UNCHANGED <<taken, toRead, format, written, lapped, CircularBuffer, ReadIndex>>
  BY DEF MixFrame, writerVars, playerVars
<1> HIDE DEF mixed
<1>7. rpc' = "mix" => \E l \in 0..(n - 1) :
                         \A i \in 0..(n - 1) : buff'[i] = {} <=> i >= l
  <2> SUFFICES ASSUME rpc' = "mix"
               PROVE  \E l \in 0..(n - 1) :
                        \A i \in 0..(n - 1) : buff'[i] = {} <=> i >= l
    OBVIOUS
  <2>1. m + 1 \in 0..(n - 1)
    BY <1>2, <1>3
  <2>2. \A i \in 0..(n - 1) : buff'[i] = {} <=> i >= m + 1
    BY <1>2, <1>3, <1>4, <1>5
  <2> QED
    BY <2>1, <2>2
<1>8. ASSUME format'.convert = "float", ~lapped', BeforeWrap', NEW i \in DOMAIN buff'
      PROVE  (rpc' = "mix" /\ buff'[i] = {}) \/ FromItsPlace(i)'
  <2>1. format.convert = "float" /\ ~lapped /\ BeforeWrap
    BY <1>6, <1>8 DEF BeforeWrap
  <2>2. i \in 0..(n - 1) /\ i \in Nat
    BY <1>3, <1>5
  <2>3. CASE i = m
    <3>1. /\ {p \in Place(i) : p < taken + toRead} \subseteq mixed
          /\ mixed # Place(i) => \E p \in Place(i) : p >= taken + toRead
      BY <1>2, <1>6, <2>1, <2>3, MixedFrame DEF mixed
    <3>2. Place(i)' = Place(i) /\ buff'[i] = mixed
      BY <1>5, <1>6, <2>3 DEF Place
    <3> QED
      BY <1>6, <3>1, <3>2 DEF FromItsPlace
  <2>4. CASE i # m
    <3>1. buff'[i] = buff[i] /\ i \in DOMAIN buff
      BY <1>2, <1>5, <2>2, <2>4
    <3>2. buff[i] = {} \/ FromItsPlace(i)
      BY <1>6, <2>1, <3>1 DEF MixInv
    <3>3. CASE FromItsPlace(i)
      BY <1>6, <3>1, <3>3, PlaceStays
    <3>4. CASE buff[i] = {}
      <4>1. m + 1 <= n - 1
        BY <1>2, <1>3, <2>2, <2>4, <3>4
      <4> QED
        BY <1>2, <3>1, <3>4, <4>1
    <3> QED
      BY <3>2, <3>3, <3>4
  <2> QED
    BY <2>3, <2>4
<1> QED
  BY <1>5, <1>7, <1>8 DEF MixInv

\* Every step of the reader or the player keeps the frames of the device mixed from what
\* falls on them.
LEMMA MixNext ==
  ASSUME TypeOK, TotalsInv, RingInv, CopyInv, MixInv, [Next]_vars
  PROVE  MixInv'
<1>1. ASSUME UNCHANGED <<readerVars, playerVars>>,
             BeforeWrap' => BeforeWrap, ~lapped' => ~lapped
      PROVE  MixInv'
  <2>1. UNCHANGED <<rpc, buff, taken, toRead, format>>
    BY <1>1 DEF readerVars, playerVars
  <2>2. \A i : FromItsPlace(i)' <=> FromItsPlace(i)
    BY <2>1, PlaceStays
  <2> QED
    BY <1>1, <2>1, <2>2 DEF MixInv
<1>2. ASSUME \/ \E n \in StoreSizes : StoreToEnd(n)
             \/ StoreBeginning \/ StorePublish,
             UNCHANGED playerVars
      PROVE  MixInv'
  BY <1>1, <1>2, StoresKeepRange
<1>3. ASSUME rpc' \notin {"mix", "advance"}
      PROVE  MixInv'
  BY <1>3 DEF MixInv
<1>4. ASSUME rpc' = "advance", format'.convert # "float"
      PROVE  MixInv'
  BY <1>4 DEF MixInv
<1>5. ASSUME NEW n \in Requests, Request(n)
      PROVE  MixInv'
  <2>1. CASE rpc' = "mix"
    <3>1. n \in 1..bufferFrameCount
      BY <1>5, RequestsBounded, DeviceAssumption DEF Request
    <3>2. buff' = [i \in 0..(n - 1) |-> {}]
      BY <1>5, <2>1 DEF Request
    <3>3. /\ 0 \in 0..(n - 1) /\ DOMAIN buff' = 0..(n - 1)
          /\ \A i \in 0..(n - 1) : buff'[i] = {} /\ i >= 0
      BY <3>1, <3>2
    <3> QED
      BY <2>1, <3>1, <3>3 DEF MixInv
  <2>2. CASE rpc' = "advance"
    BY <1>4, <1>5, <2>2, RequestLeadsTo
  <2> QED
    BY <1>3, <2>1, <2>2
<1>6. ASSUME StartPlayer \/ AdvanceFrames
      PROVE  MixInv'
  BY <1>3, <1>6 DEF StartPlayer, AdvanceFrames, Advance
<1>7. ASSUME CopyFramesToEnd \/ CopyFramesBeginning
      PROVE  MixInv'
  <2>1. /\ rpc' \in {"copyBeginning", "advance"}
        /\ format'.convert = "same"
    BY <1>7 DEF CopyFramesToEnd, CopyToEnd, CopyFramesBeginning, CopyBeginning, CopyInv,
                playerVars
  <2> QED
    BY <1>3, <1>4, <2>1
<1>8. ASSUME UNCHANGED vars
      PROVE  MixInv'
  BY <1>1, <1>8 DEF vars, storeVars, writerVars, readerVars, BeforeWrap
<1> QED
  BY <1>2, <1>5, <1>6, <1>7, <1>8, MixFrameInv, PlayerSteps

-----------------------------------------------------------------------------
(* The invariant, and what follows                                         *)

\* A player that waits on an empty ring satisfies the invariant.
LEMMA InvInit == Init => IInv
<1> SUFFICES ASSUME Init PROVE IInv
  OBVIOUS
<1>1. TypeOK
  BY TypeInit
<1>2. RingContent
  BY Constants DEF Init, InitStore, RingContent, Copied, Slots
<1>3. /\ rpc = "wait" /\ wpc = "idle" /\ written = 0 /\ taken = 0
      /\ ReadIndex = 0 /\ WriteIndex = 0
      /\ TotalBytesStored = 0 /\ TotalBytesRead = 0
  BY DEF Init, InitStore
<1>4. TotalsInv /\ CopyInv /\ MixInv
  BY <1>3 DEF TotalsInv, CopyInv, MixInv
<1>5. RingInv
  BY <1>2, <1>3, Constants DEF RingInv, StoreInProgress, ReadAligned, NotOverrun
<1> QED
  BY <1>1, <1>4, <1>5 DEF IInv

\* The invariant holds in every state of every behaviour.
LEMMA Invariance == Spec => []IInv
<1>1. IInv /\ [Next]_vars => IInv'
  BY TypeNext, TotalsNext, RingNext, CopyNext, MixNext DEF IInv
<1> QED
  BY <1>1, InvInit, PTL DEF Spec

\* Sound in the device's format is rendered in the order it was received, no byte
\* missing, repeated or torn between two turns of the ring.
THEOREM PlayerPlayedInOrder == Spec => []PlayedInOrder
<1>1. IInv => PlayedInOrder
  BY DEF IInv, CopyInv, PlayedInOrder
<1> QED
  BY <1>1, Invariance, PTL

\* Float sound of another rate is mixed from the frames that fall on each frame of the
\* device and from no others, but for what lies behind what is counted as read.
THEOREM PlayerMixedFromItsPlace == Spec => []MixedFromItsPlace
<1>1. IInv => MixedFromItsPlace
  BY DEF IInv, MixInv, MixedFromItsPlace
<1> QED
  BY <1>1, Invariance, PTL

=============================================================================
