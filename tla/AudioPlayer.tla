----------------------------- MODULE AudioPlayer ------------------------------
(***************************************************************************)
(* The playing process: SoundReadWriteDataThread (AudioPlayback/           *)
(* DataReader.cpp) stores the payload of every packet it receives, and     *)
(* PlayAudioStream (AudioPlayback.cpp) loads what the sound device has     *)
(* room for.  ReadAndRenderSoundUntilNetwork (AudioDataProcessing.cpp)     *)
(* starts the player when the first bytes are there.                       *)
(*                                                                         *)
(* The device need not have the format of the sound: LoadData then mixes   *)
(* every frame of the device from the frames of the ring that fall on it.  *)
(* A frame of the ring is named by the position of its first byte, and a   *)
(* mixed frame is the set of the frames it was mixed from.                 *)
(***************************************************************************)
EXTENDS AudioBufferStore

CONSTANTS
  bufferFrameCount,   (* frames of the sound device's buffer                 *)
  Formats             (* how the formats of ring and device may be related   *)

\* A format has `convert`, what LoadData does about it, and SamplingRateRatio,
\* the fraction write / read of the two sampling rates.
SourceFrames(f, i) == (i * f.write) \div f.read

ASSUME DeviceAssumption ==
  /\ bufferFrameCount \in Nat \ {0}
  /\ \A f \in Formats :
       /\ f.convert \in {"same", "float", "pcm32", "none"}
       /\ f.write \in Nat \ {0} /\ f.read \in Nat \ {0}
       /\ f.convert = "same" => f.write = f.read
       /\ (SourceFrames(f, bufferFrameCount) + 1) * BlockAlign < CircularBufferSize

VARIABLES
  filled,   (* the initial fill of the device buffer has been done           *)
  format    (* the relation of wfxWrite and wfxRead                          *)

playerVars == <<filled, format>>
vars == <<storeVars, playerVars>>

Init == InitStore /\ rpc = "wait" /\ filled = FALSE /\ format \in Formats

\* StoreNetworkData: the payload of one packet, in the format already set.
StoreNetworkData == StoreData /\ UNCHANGED playerVars

GetAvailableFrames == Wrap(TotalBytesStored - TotalBytesRead)

\* ReadAndRenderSoundUntilNetwork sees the first packet and starts the player.
StartPlayer ==
  /\ rpc = "wait"
  /\ GetAvailableFrames > 0
  /\ rpc' = "request"
  /\ UNCHANGED <<ReadIndex, TotalBytesRead, toRead, buff, taken, writerVars,
                 playerVars>>

\* The whole device buffer first, later whatever it has room for.
Requests == IF filled THEN 0..bufferFrameCount ELSE {bufferFrameCount}

\* TotalBufferSize: what n frames of the device take from the ring, in bytes.
TotalBufferSize(n) == (n * BlockAlign * format.write) \div format.read

\* Underrun that is never noticed.
UnderrunUnchecked(bytes) == FALSE

\* Underrun also when exactly what is asked for is stored.
UnderrunStrict(bytes) == Wrap(TotalBytesRead + bytes) >= TotalBytesStored

\* Fewer bytes are stored than are needed, as LoadData compares it.
Underrun(bytes) == Wrap(TotalBytesRead + bytes) > TotalBytesStored

\* LoadData looks whether enough is stored; if not it fails and PlayAudioStream
\* leaves for good.  A request of no frame succeeds at once.  Formats that cannot be
\* converted are only counted.  MaxStored bounds what is requested too.
Request(n) ==
  /\ rpc = "request"
  /\ n > 0
  /\ taken + TotalBufferSize(n) <= MaxStored
  /\ toRead' = TotalBufferSize(n)
  /\ rpc' = IF Underrun(toRead') THEN "ended"
            ELSE CASE format.convert = "same" -> "copy"
                   [] format.convert = "none" -> "advance"
                   [] OTHER                   -> "mix"
  /\ buff' = IF rpc' = "mix" THEN [i \in 0..(n - 1) |-> {}] ELSE NoBytes
  /\ UNCHANGED <<ReadIndex, TotalBytesRead, taken, writerVars, playerVars>>

CopyFramesToEnd     == CopyToEnd("advance") /\ UNCHANGED playerVars
CopyFramesBeginning == CopyBeginning("advance") /\ UNCHANGED playerVars

\* Frame i of the device goes from SourceIndexStart to SourceIndexEnd, both included.
SourceIndex(i)   == (SourceFrames(format, i) * BlockAlign) % CircularBufferSize
SourceIndices(i) == {s \in SourceIndex(i)..SourceIndex(i + 1) :
                       (s - SourceIndex(i)) % BlockAlign = 0}

\* MixedSlot as the conversion of PCM has it.
MixedFromStart(s) == s

\* The slot of a source index: integer samples are taken from the beginning of the
\* ring instead of the ReadIndex.
MixedSlot(s) == IF format.convert = "pcm32" THEN s
                ELSE (ReadIndex + s) % CircularBufferSize

\* The next frame of the device is mixed, to mono.
MixFrame ==
  /\ rpc = "mix"
  /\ LET i == CHOOSE k \in DOMAIN buff :
                 buff[k] = {} /\ \A j \in 0..(k - 1) : buff[j] # {}
     IN  /\ buff' = [buff EXCEPT ![i] = {CircularBuffer[MixedSlot(s)] :
                                            s \in SourceIndices(i)}]
         /\ rpc' = IF i + 1 \in DOMAIN buff THEN "mix" ELSE "advance"
  /\ UNCHANGED <<ReadIndex, TotalBytesRead, toRead, taken, writerVars, playerVars>>

AdvanceFrames == Advance("advance", "request") /\ filled' = TRUE /\ UNCHANGED format

Play == \/ StartPlayer
        \/ \E n \in Requests : Request(n)
        \/ CopyFramesToEnd \/ CopyFramesBeginning
        \/ MixFrame \/ AdvanceFrames

Next == StoreNetworkData \/ Play

Spec == Init /\ [][Next]_vars

-----------------------------------------------------------------------------
(* Properties                                                              *)

\* Every variable holds a value its C type and its loop allow.
TypeOK ==
  /\ CircularBuffer \in [Slots -> Int]
  /\ WriteIndex \in 0..CircularBufferSize
  /\ ReadIndex \in Slots
  /\ TotalBytesStored \in Long /\ TotalBytesRead \in Long
  /\ wpc \in {"idle", "wrap", "publish"}
  /\ ByteCount \in 0..CircularBufferSize
  /\ rpc \in {"wait", "request", "copy", "copyBeginning", "mix", "advance", "ended"}
  /\ toRead \in 0..CircularBufferSize
  /\ written \in Nat /\ taken \in Nat
  /\ lapped \in BOOLEAN /\ filled \in BOOLEAN
  /\ format \in Formats

\* The 32-bit totals have not passed the largest long, about 93 minutes of
\* 48 kHz stereo float sound.
BeforeWrap == written <= LongMax /\ taken + toRead <= LongMax

\* Sound is rendered in the order it was received, every byte once, as long as
\* the network has not lapped the player.
PlayedInOrder ==
  rpc = "advance" /\ format.convert = "same" /\ ~lapped /\ BeforeWrap =>
    buff = [k \in 0..(toRead - 1) |-> taken + k]

\* What frame i of the device is to be mixed from.
Place(i) == {taken + j * BlockAlign :
               j \in SourceFrames(format, i)..SourceFrames(format, i + 1)}

\* It is mixed from all of that, but for what lies behind the bytes that are counted as
\* read.
FromItsPlace(i) ==
  /\ {p \in Place(i) : p < taken + toRead} \subseteq buff[i]
  /\ buff[i] # Place(i) => \E p \in Place(i) : p >= taken + toRead

\* A conversion of float samples mixes every frame of the device from all the frames
\* that fall on it and from no others, through every turn of the ring, so no sound
\* is skipped or heard out of order; only behind what is counted as read may it take
\* another frame.  It holds until a request takes no whole number of frames from the
\* ring, after which samples are put together from two.
MixedFromItsPlace ==
  rpc = "advance" /\ format.convert = "float" /\ ~lapped /\ BeforeWrap
    /\ taken % BlockAlign = 0 =>
    \A i \in DOMAIN buff : FromItsPlace(i)

\* The player never counts bytes that are not stored yet, lapped or not.
NeverReadsAhead ==
  rpc \in {"copy", "copyBeginning", "mix", "advance"} /\ BeforeWrap =>
    taken + toRead <= written

\* The player ends only because the device asked for more than was stored.
EndsOnlyOnUnderrun ==
  [][rpc # "ended" /\ rpc' = "ended" /\ BeforeWrap'
       => taken + toRead' > written]_vars

-----------------------------------------------------------------------------
(* The inductive invariant behind these properties, part by part           *)

\* Until they are larger than a long the totals are what they count, and a player that
\* has found enough to read has enough.
TotalsInv ==
  /\ written <= LongMax => TotalBytesStored = written
  /\ taken <= LongMax => TotalBytesRead = taken
  /\ rpc \in {"copy", "copyBeginning", "mix", "advance"} /\ BeforeWrap =>
       taken + toRead <= written

\* The ring is the one the stored bytes fill, and until the player is lapped it reads
\* where it should.
RingInv ==
  /\ RingContent /\ StoreInProgress
  /\ ~lapped /\ written <= LongMax /\ taken <= LongMax => ReadAligned /\ NotOverrun

\* What is copied so far is the stream from the read position on.
CopyInv ==
  /\ rpc \in {"copy", "copyBeginning"} => format.convert = "same"
  /\ rpc = "mix" => format.convert # "same"
  /\ rpc = "copyBeginning" => ~ReadsAtEnd
  /\ ~lapped /\ BeforeWrap =>
       /\ rpc = "copyBeginning" =>
            buff = [k \in 0..(CanCopyToEnd(ReadIndex) - 1) |-> taken + k]
       /\ rpc = "advance" /\ format.convert = "same" =>
            buff = [k \in 0..(toRead - 1) |-> taken + k]

\* The frames of the device are mixed one after the other.
MixInv ==
  /\ rpc = "mix" =>
       \E n \in 1..bufferFrameCount : \E m \in 0..(n - 1) :
         /\ DOMAIN buff = 0..(n - 1)
         /\ \A i \in 0..(n - 1) : buff[i] = {} <=> i >= m
  /\ rpc \in {"mix", "advance"} /\ format.convert = "float" /\ ~lapped /\ BeforeWrap =>
       \A i \in DOMAIN buff : (rpc = "mix" /\ buff[i] = {}) \/ FromItsPlace(i)

\* All of it.
IInv == TypeOK /\ TotalsInv /\ RingInv /\ CopyInv /\ MixInv
=============================================================================
