----------------------------- MODULE AudioFeeder ------------------------------
(***************************************************************************)
(* The recording process: RecordAudioStream (AudioRecord.cpp) stores       *)
(* captured sound, SoundReadWriteDataThread (AudioRecord/DataSender.cpp)   *)
(* packs it with GetNetworkPacket and sends it to the connected client.    *)
(***************************************************************************)
EXTENDS AudioBufferStore

CONSTANTS
  HeaderSize,   (* sizeof NetworkPacketHeader + sizeof WAVEFORMATEXTENSIBLE  *)
  BuffSize      (* the feeder's buffer, MaxBuffSize in DataSender.cpp        *)

ASSUME PacketAssumption ==
  /\ HeaderSize \in Nat \ {0}
  /\ BuffSize \in Nat
  /\ BuffSize >= HeaderSize + BlockAlign

\* The recorder stores FrameCount * nBlockAlign bytes at a time.
ASSUME FrameAssumption == \A n \in StoreSizes : n % BlockAlign = 0

VARIABLE connected    (* AudioNetworkListener->HasConnections() > 0          *)

vars == <<storeVars, connected>>

Init == InitStore /\ rpc = "loop" /\ connected = TRUE

-----------------------------------------------------------------------------
(* The feeder thread                                                       *)

\* Available by comparing the counters before subtracting them.
AvailableCompared == IF TotalBytesStored > TotalBytesRead
                     THEN TotalBytesStored - TotalBytesRead ELSE 0

\* Bytes stored and not loaded yet, as a difference of two longs.
Available == Wrap(TotalBytesStored - TotalBytesRead)

\* The head of the loop: without a client the feeder sleeps and looks again.
Poll ==
  /\ rpc = "loop"
  /\ connected
  /\ rpc' = "check"
  /\ UNCHANGED <<ReadIndex, TotalBytesRead, toRead, buff, taken, writerVars,
                 connected>>

\* GetNetworkPacket returns 0 when nothing is stored, and the feeder sleeps.
CheckAvailable ==
  /\ rpc = "check"
  /\ rpc' = IF Available <= 0 THEN "loop" ELSE "clamp"
  /\ UNCHANGED <<ReadIndex, TotalBytesRead, toRead, buff, taken, writerVars,
                 connected>>

\* More is pending than the ring holds: what is lost counts as read.
\* TotalBytesStored is looked at again, ReadIndex is left where it is.
SkipLost ==
  /\ rpc = "clamp"
  /\ IF Available > CircularBufferSize
     THEN /\ TotalBytesRead' = Wrap(TotalBytesStored - CircularBufferSize)
          /\ taken' = written - CircularBufferSize
     ELSE UNCHANGED <<TotalBytesRead, taken>>
  /\ rpc' = "size"
  /\ UNCHANGED <<ReadIndex, toRead, buff, writerVars, connected>>

\* WholeFrames without the rounding.
AllBytes(bytes) == bytes

\* Whole frames that fit behind the headers, when the buffer is the smaller one.
WholeFrames(bytes) == (bytes \div BlockAlign) * BlockAlign

\* PacketBytes with its comparison turned round.
PacketBytesSwapped ==
  IF BuffSize >= Available THEN WholeFrames(BuffSize - HeaderSize) ELSE Available

\* PacketBytes without regard to the buffer.
PacketBytesUnbounded == Available

\* How much goes into a packet.
PacketBytes ==
  IF BuffSize < Available THEN WholeFrames(BuffSize - HeaderSize) ELSE Available

SizePacket ==
  /\ rpc = "size"
  /\ toRead' = PacketBytes
  /\ rpc' = "copy"
  /\ UNCHANGED <<ReadIndex, TotalBytesRead, buff, taken, writerVars, connected>>

CopyPacketToEnd     == CopyToEnd("advance") /\ UNCHANGED connected
CopyPacketBeginning == CopyBeginning("advance") /\ UNCHANGED connected
AdvancePacket       == Advance("advance", "send") /\ UNCHANGED connected

\* The packet is gone whether send() took it or failed; a failed send also
\* forgets the client.
SendToAll(ok) ==
  /\ rpc = "send"
  /\ rpc' = "loop"
  /\ connected' = (connected /\ ok)
  /\ UNCHANGED <<ReadIndex, TotalBytesRead, toRead, buff, taken, writerVars>>

Feeder ==
  \/ Poll \/ CheckAvailable \/ SkipLost \/ SizePacket
  \/ CopyPacketToEnd \/ CopyPacketBeginning \/ AdvancePacket
  \/ \E ok \in BOOLEAN : SendToAll(ok)

\* The recording thread: one StoreData call after the other.
Record == StoreData /\ UNCHANGED connected

\* The accepting thread hands a new client to the feeder.
Accept ==
  /\ ~connected
  /\ connected' = TRUE
  /\ UNCHANGED storeVars

Next == Record \/ Feeder \/ Accept

Spec == Init /\ [][Next]_vars

\* Both threads keep running; a send may fail every time, and a client may stay
\* away.
FairSpec == Spec /\ WF_vars(Feeder) /\ WF_vars(Record)

-----------------------------------------------------------------------------
(* Properties                                                              *)

\* Every variable holds a value its C type and its loop allow; the indices of
\* AudioBufferStore stay inside the ring.
TypeOK ==
  /\ CircularBuffer \in [Slots -> Int]
  /\ WriteIndex \in 0..CircularBufferSize
  /\ ReadIndex \in Slots
  /\ TotalBytesStored \in Long /\ TotalBytesRead \in Long
  /\ wpc \in {"idle", "wrap", "publish"}
  /\ ByteCount \in 0..CircularBufferSize
  /\ rpc \in {"loop", "check", "clamp", "size", "copy", "copyBeginning",
              "advance", "send"}
  /\ toRead \in Long
  /\ written \in Nat /\ taken \in Int
  /\ lapped \in BOOLEAN /\ connected \in BOOLEAN

\* As long as no store has overwritten unread sound, a packet is exactly the
\* next toRead bytes of the stream, whatever the recorder stores while the feeder
\* is copying and wherever the ring and the 32-bit counters wrap.
PacketInOrder ==
  rpc = "advance" /\ ~lapped =>
    buff = [k \in 0..(toRead - 1) |-> taken + k]

\* Even after the feeder was lapped, a packet holds only sound that was stored:
\* neither memory nothing was stored in nor what the destination held before.  Only
\* a packet larger than the ring ends in that: it takes a lapped feeder whose buffer
\* is larger than the ring, and a store between the test at line 306 and line 309.
PacketIsStoredSound ==
  rpc = "advance" /\ toRead <= CircularBufferSize =>
    \A k \in DOMAIN buff : buff[k] >= 0 /\ buff[k] < written + ByteCount

\* A packet holds whole frames: no sample is cut between two packets.
PacketHoldsWholeFrames ==
  rpc = "advance" => toRead > 0 /\ toRead % BlockAlign = 0

\* The headers and the payload fit in the feeder's buffer.  GetNetworkPacket compares
\* without the headers, so this needs a buffer that no backlog fills to its last
\* HeaderSize bytes.
PacketFitsBuffer == rpc = "advance" => HeaderSize + toRead <= BuffSize

\* Until it is lapped, the feeder never counts a byte as read before it was
\* stored, and the 32-bit difference it computes is the true backlog.
BacklogIsExact ==
  ~lapped => taken <= written /\ Available = written - taken

\* If a client stays, the feeder works off whatever is pending.
FeederDrains ==
  (<>[]connected) => []<>(taken = written /\ rpc = "loop")

\* What the feeder knows between its steps: the packet is no larger than the
\* backlog, and what is copied so far is the stream from the read position on.
PacketInv ==
  /\ rpc \in {"clamp", "size"} => taken < written
  /\ rpc \in {"copy", "copyBeginning", "advance"} =>
       toRead > 0 /\ toRead <= written - taken
  /\ rpc = "copyBeginning" =>
       /\ ~ReadsAtEnd
       /\ buff = [k \in 0..(CanCopyToEnd(ReadIndex) - 1) |-> taken + k]
  /\ rpc = "advance" => buff = [k \in 0..(toRead - 1) |-> taken + k]
  /\ rpc = "send" => toRead > 0 /\ DOMAIN buff = 0..(toRead - 1)

\* The inductive invariant behind the properties above.
IInv == TypeOK /\ (~lapped => StoreInv /\ PacketInv)

\* What holds lapped or not.  The ring is the one the stored bytes fill, and no slot
\* of a ring that was lapped has never been stored in.
BytesCopied == written + Copied
RingInv ==
  /\ RingContent /\ StoreInProgress
  /\ written = WriteIndex \/ written >= WriteIndex + CircularBufferSize
  /\ lapped => BytesCopied >= CircularBufferSize

\* The bytes copied out so far are stored ones.
SoundInv ==
  /\ ~lapped => taken >= 0
  /\ rpc = "copyBeginning" => DOMAIN buff = 0..(CanCopyToEnd(ReadIndex) - 1)
  /\ rpc \in {"copyBeginning", "advance"} /\ toRead <= CircularBufferSize =>
       \A k \in DOMAIN buff : buff[k] \in 0..(BytesCopied - 1)

\* The feeder is less than half the values of a long behind, about 93 minutes of
\* 48 kHz stereo float sound.
LagFitsLong == MaxLag <= LongMax

\* Then the backlog is exact also after an overrun, and no packet exceeds it.
LagInv ==
  /\ CountersAgree
  /\ taken <= written
  /\ written + (IF wpc = "idle" THEN 0 ELSE ByteCount) - taken <= MaxLag
  /\ rpc \in {"clamp", "size"} => taken < written
  /\ rpc \in {"copy", "copyBeginning", "advance"} =>
       toRead > 0 /\ toRead <= written - taken

Whole(bytes) == bytes % BlockAlign = 0

\* Stores, totals and packets are whole frames.
FramesInv ==
  /\ Whole(written) /\ Whole(taken) /\ Whole(ByteCount)
  /\ rpc \in {"copy", "copyBeginning", "advance"} => Whole(toRead)

\* No backlog fills the buffer to its last HeaderSize bytes.
BufferHoldsBacklog ==
  \A bytes \in 1..MaxLag :
    Whole(bytes) /\ bytes <= BuffSize => HeaderSize + bytes <= BuffSize

FitInv == rpc \in {"copy", "copyBeginning", "advance"} => HeaderSize + toRead <= BuffSize

\* The abstract stream, and the state of it the ring stands for: bytes are
\* produced when they are counted, packed when the read position moves; overrun
\* is what the ring calls lapped.
Stream == INSTANCE AudioStream WITH
  produced <- written,
  next     <- taken,
  out      <- IF rpc = "send" THEN buff ELSE NoBytes,
  overrun  <- lapped

\* Recorder, ring and feeder implement the abstract stream: lossless and in order
\* up to the store that laps the feeder.
ImplementsStream == Stream!StreamSpec
=============================================================================
