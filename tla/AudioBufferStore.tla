--------------------------- MODULE AudioBufferStore ---------------------------
(***************************************************************************)
(* The circular byte buffer of AudioRecord/AudioBufferStore.cpp, shared by *)
(* exactly one storing thread and one loading thread without any lock.     *)
(*                                                                         *)
(* A byte of sound is represented by its position in the stored stream:    *)
(* the first byte ever handed to StoreData is 0, the next 1, and so on.  A *)
(* negative position stands for memory no call of StoreData has written.   *)
(* Every memcpy is a step of its own, so that the other thread can run     *)
(* between two of them.                                                    *)
(***************************************************************************)
EXTENDS Integers

CONSTANTS
  CircularBufferSize,   (* bytes of the ring: nAvgBytesPerSec * CacheDuration *)
  BlockAlign,           (* bytes of one sound frame (nBlockAlign)             *)
  LongRange,            (* number of values of a C long: 2^32 in the build    *)
  StoreSizes,           (* byte counts one call of StoreData can be given     *)
  MaxLag,               (* bound: bytes the reader may fall behind            *)
  MaxStored             (* bound: bytes stored in a behaviour                 *)

ASSUME SizeAssumption ==
  /\ BlockAlign \in Nat \ {0}
  /\ CircularBufferSize \in Nat \ {0}
  /\ CircularBufferSize % BlockAlign = 0

\* A single store never exceeds the ring: it is at most one second of sound,
\* the ring is CacheDuration = 10 seconds.
ASSUME StoreAssumption ==
  /\ StoreSizes \subseteq 1..CircularBufferSize
  /\ MaxLag \in Nat
  /\ MaxStored \in Nat

LongMax == (LongRange \div 2) - 1
LongMin == -(LongRange \div 2)
Long == LongMin..LongMax

ASSUME LongAssumption ==
  /\ LongRange \in Nat
  /\ LongRange = 2 * (LongRange \div 2)
  /\ 2 * CircularBufferSize <= LongMax

\* The value a long holds after one addition or subtraction gave x.
Wrap(x) == IF x > LongMax THEN x - LongRange
           ELSE IF x < LongMin THEN x + LongRange
           ELSE x

VARIABLES
  CircularBuffer, WriteIndex, ReadIndex, TotalBytesStored, TotalBytesRead,
  wpc,        (* where the storing thread is inside StoreData                *)
  ByteCount,  (* what StoreData was called with                              *)
  rpc,        (* where the loading thread is                                 *)
  toRead,     (* MaxBytesCanWrite in GetNetworkPacket, TotalBufferSize in    *)
              (* LoadData                                                    *)
  buff,       (* the payload copied out so far                               *)
  written,    (* history: TotalBytesStored before it was cut to a long       *)
  taken,      (* history: TotalBytesRead before it was cut to a long         *)
  lapped      (* history: a store has overwritten bytes nobody had loaded    *)

writerVars == <<CircularBuffer, WriteIndex, TotalBytesStored, wpc, ByteCount,
                written, lapped>>
readerVars == <<ReadIndex, TotalBytesRead, rpc, toRead, buff, taken>>
storeVars  == <<writerVars, readerVars>>

Slots == 0..(CircularBufferSize - 1)
NoBytes == [k \in {} |-> 0]

\* AudioBufferStore::AudioBufferStore followed by SetWriteFormat: an empty ring
\* of unwritten memory.
InitStore ==
  /\ CircularBuffer = [i \in Slots |-> i - CircularBufferSize]
  /\ WriteIndex = 0 /\ ReadIndex = 0
  /\ TotalBytesStored = 0 /\ TotalBytesRead = 0
  /\ wpc = "idle" /\ ByteCount = 0
  /\ toRead = 0 /\ buff = NoBytes
  /\ written = 0 /\ taken = 0 /\ lapped = FALSE

-----------------------------------------------------------------------------
(* StoreData( Data, ByteCount )                                            *)

FitsAtEnd(index, n) == index + n <= CircularBufferSize
CanCopyToEnd(index) == CircularBufferSize - index

\* The part of the chunk copied behind the WriteIndex: all of it, or what fits
\* before the end of the ring.
StoreToEnd(n) ==
  /\ wpc = "idle"
  /\ written + n <= MaxStored
  /\ written + n - taken <= MaxLag
  /\ CircularBuffer' =
       [i \in Slots |-> IF i >= WriteIndex /\ i < WriteIndex + n
                        THEN written + (i - WriteIndex)
                        ELSE CircularBuffer[i]]
  /\ ByteCount' = n
  /\ wpc' = IF FitsAtEnd(WriteIndex, n) THEN "publish" ELSE "wrap"
  /\ lapped' = (lapped \/ written + n - taken > CircularBufferSize)
  /\ UNCHANGED <<WriteIndex, TotalBytesStored, written, readerVars>>

\* SecondPart that starts over with the first byte of the chunk.
SecondPartFromStart(i) == written + i

\* Byte i of what did not fit at the end of the ring.
SecondPart(i) == written + CanCopyToEnd(WriteIndex) + i

\* The rest of the chunk, copied to the beginning of the ring (never more than
\* the ring holds).
StoreBeginning ==
  /\ wpc = "wrap"
  /\ CircularBuffer' =
       [i \in Slots |-> IF i < ByteCount - CanCopyToEnd(WriteIndex)
                        THEN SecondPart(i) ELSE CircularBuffer[i]]
  /\ wpc' = "publish"
  /\ UNCHANGED <<WriteIndex, TotalBytesStored, ByteCount, written, lapped,
                 readerVars>>

\* IndexAfterStore that forgets what went to the end of the ring.
IndexAfterStoreWhole(index, n) == IF FitsAtEnd(index, n) THEN index + n ELSE n

\* The WriteIndex after a store: it may rest on the end of the ring.
IndexAfterStore(index, n) ==
  IF FitsAtEnd(index, n) THEN index + n ELSE n - CanCopyToEnd(index)

\* Counted that forgets the part at the beginning of the ring.
CountedAtEnd == IF FitsAtEnd(WriteIndex, ByteCount) THEN ByteCount
                ELSE CanCopyToEnd(WriteIndex)

\* What a store adds to the total.
Counted == ByteCount

\* WriteIndex moves and the bytes are counted; the reader looks at the counter
\* only, so the two assignments are one step.
StorePublish ==
  /\ wpc = "publish"
  /\ WriteIndex' = IndexAfterStore(WriteIndex, ByteCount)
  /\ TotalBytesStored' = Wrap(TotalBytesStored + Counted)
  /\ written' = written + ByteCount
  /\ wpc' = "idle"
  /\ UNCHANGED <<CircularBuffer, ByteCount, lapped, readerVars>>

StoreData ==
  \/ \E n \in StoreSizes : StoreToEnd(n)
  \/ StoreBeginning
  \/ StorePublish

-----------------------------------------------------------------------------
(* What GetNetworkPacket and LoadData share: copying toRead bytes out of   *)
(* the ring, in one or two pieces, and moving the read position.           *)

ReadsAtEnd == FitsAtEnd(ReadIndex, toRead)

CopyToEnd(next) ==
  /\ rpc = "copy"
  /\ buff' = [k \in 0..((IF ReadsAtEnd THEN toRead
                                       ELSE CanCopyToEnd(ReadIndex)) - 1)
                |-> CircularBuffer[ReadIndex + k]]
  /\ rpc' = IF ReadsAtEnd THEN next ELSE "copyBeginning"
  /\ UNCHANGED <<ReadIndex, TotalBytesRead, toRead, taken, writerVars>>

\* FirstSlots that are not the first ones.
FirstSlotsUnshifted(k) == k

\* The slot of byte k of a packet that goes on at the beginning of the ring.
FirstSlots(k) == k - CanCopyToEnd(ReadIndex)

\* At most one whole ring is copied from its beginning; bytes of the destination
\* beyond it keep whatever they held.
CopyBeginning(next) ==
  /\ rpc = "copyBeginning"
  /\ buff' = [k \in 0..(toRead - 1) |->
                IF k < CanCopyToEnd(ReadIndex) THEN buff[k]
                ELSE IF FirstSlots(k) \in Slots THEN CircularBuffer[FirstSlots(k)]
                ELSE -1]
  /\ rpc' = next
  /\ UNCHANGED <<ReadIndex, TotalBytesRead, toRead, taken, writerVars>>

\* IndexAfterRead that runs out of the ring.
IndexAfterReadUnwrapped == ReadIndex + toRead

\* The ReadIndex after a packet.
IndexAfterRead == (ReadIndex + toRead) % CircularBufferSize

\* The read position moves past what was copied.
Advance(from, next) ==
  /\ rpc = from
  /\ ReadIndex' = IndexAfterRead
  /\ TotalBytesRead' = Wrap(TotalBytesRead + toRead)
  /\ taken' = taken + toRead
  /\ rpc' = next
  /\ UNCHANGED <<toRead, buff, writerVars>>

-----------------------------------------------------------------------------
(* How the ring, the indices and the counters fit together as long as      *)
(* nothing unread has been overwritten.                                    *)

\* Bytes of the store in progress that are in the ring but not counted yet.
Copied == IF wpc = "idle" THEN 0
          ELSE IF wpc = "wrap" THEN CanCopyToEnd(WriteIndex)
          ELSE ByteCount

\* Each slot holds the most recent byte of the stream that falls on it.
RingContent ==
  LET base == written - WriteIndex
      top  == WriteIndex + Copied
  IN \A i \in Slots :
       CircularBuffer[i] =
         IF i < top - CircularBufferSize THEN base + i + CircularBufferSize
         ELSE IF i < top THEN base + i
         ELSE base + i - CircularBufferSize

\* ReadIndex is the slot of the next byte to read.
ReadAligned ==
  LET offset == ReadIndex - (WriteIndex - (written - taken))
  IN offset = 0 \/ offset = CircularBufferSize \/ offset = -CircularBufferSize

\* The two longs differ by the backlog, up to one turn of the counter.
CountersAgree ==
  LET turn == (TotalBytesStored - TotalBytesRead) - (written - taken)
  IN turn = 0 \/ turn = LongRange \/ turn = -LongRange

\* Nothing unread is overwritten, the store in progress included.
NotOverrun ==
  /\ taken <= written
  /\ written - taken <= CircularBufferSize
  /\ wpc # "idle" => written + ByteCount - taken <= CircularBufferSize

StoreInProgress ==
  /\ wpc # "idle" => ByteCount > 0
  /\ wpc = "wrap" => ~FitsAtEnd(WriteIndex, ByteCount)

StoreInv == RingContent /\ ReadAligned /\ CountersAgree /\ NotOverrun
            /\ StoreInProgress

=============================================================================
