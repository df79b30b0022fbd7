-------------------------- MODULE FrameReceiverProofs --------------------------
(***************************************************************************)
(* Proofs about packets over the byte stream: FrameReceiver's inductive    *)
(* invariant when headers come whole, and what follows from it for every   *)
(* buffer size, every set of frame lengths, and any number of frames and   *)
(* connections.                                                            *)
(***************************************************************************)
EXTENDS FrameReceiver, SequenceTheorems, TLAPS

-----------------------------------------------------------------------------
(* The sequences                                                           *)

\* A frame is at least its header and fits into the buffer.
LEMMA FrameLength ==
  /\ BufferSize \in Nat
  /\ \A len \in FrameLens : len \in Nat /\ len >= 2 /\ len <= BufferSize
BY ReceiverAssumption DEF HeaderLen

\* The lengths of the frames sent so far are lengths of frames.
LEMMA LensAreLengths ==
  ASSUME TypeOK
  PROVE  /\ Len(lens) \in Nat /\ DOMAIN lens = 1..Len(lens)
         /\ \A f \in DOMAIN lens : lens[f] \in FrameLens
BY DEF TypeOK

\* What is on the wire, by number.
LEMMA WireUnits ==
  ASSUME TypeOK
  PROVE  /\ Len(wire) \in Nat /\ DOMAIN wire = 1..Len(wire)
         /\ \A i \in DOMAIN wire : wire[i] \in Units
         /\ wire = <<>> <=> Len(wire) = 0
BY DEF TypeOK

\* A unit is its frame and its place.
LEMMA UnitFields ==
  ASSUME NEW f, NEW k
  PROVE  /\ Unit(f, k).frame = f /\ Unit(f, k).place = k
         /\ f \in Nat /\ k \in Nat => Unit(f, k) \in Units
BY DEF Unit, Units

\* Sending puts the units of one frame behind the others.
LEMMA Sent ==
  ASSUME TypeOK, NEW len \in FrameLens, SendFrame(len)
  PROVE  /\ lens' \in Seq(FrameLens) /\ Len(lens') = Len(lens) + 1
         /\ \A f \in DOMAIN lens : lens'[f] = lens[f]
         /\ lens'[Len(lens) + 1] = len
         /\ wire' \in Seq(Units) /\ Len(wire') = Len(wire) + len
         /\ \A i \in 1..(Len(wire) + len) :
              wire'[i] = IF i <= Len(wire) THEN wire[i]
                         ELSE Unit(Len(lens) + 1, i - Len(wire) - 1)
<1> DEFINE g == Len(lens) + 1
           frame == [k \in 1..len |-> Unit(g, k - 1)]
<1>1. len \in Nat /\ g \in Nat /\ Len(wire) \in Nat
  BY FrameLength, LensAreLengths, WireUnits
<1>2. lens' = Append(lens, len) /\ wire' = wire \o frame
  BY DEF SendFrame, Frame
<1>3. \A k \in 1..len : frame[k] \in Units /\ frame[k] = Unit(g, k - 1)
  BY <1>1, UnitFields
<1>4. frame \in Seq(Units) /\ Len(frame) = len
  <2>1. frame \in [1..len -> Units]
    BY <1>3
  <2> HIDE DEF frame
  <2> QED
    BY <1>1, <2>1
<1>5. wire \in Seq(Units) /\ lens \in Seq(FrameLens)
  BY DEF TypeOK
<1> HIDE DEF frame
<1>6. /\ wire' \in Seq(Units) /\ Len(wire') = Len(wire) + len
      /\ \A i \in 1..(Len(wire) + len) :
           wire'[i] = IF i <= Len(wire) THEN wire[i] ELSE frame[i - Len(wire)]
  BY <1>2, <1>4, <1>5, ConcatProperties
<1>7. \A i \in 1..(Len(wire) + len) :
        ~(i <= Len(wire)) => frame[i - Len(wire)] = Unit(g, i - Len(wire) - 1)
  <2> SUFFICES ASSUME NEW i \in 1..(Len(wire) + len), ~(i <= Len(wire))
               PROVE  frame[i - Len(wire)] = Unit(g, i - Len(wire) - 1)
    OBVIOUS
  <2>1. i - Len(wire) \in 1..len
    BY <1>1
  <2> QED
    BY <1>3, <2>1
<1>8. /\ lens' \in Seq(FrameLens) /\ Len(lens') = g
      /\ \A f \in DOMAIN lens : lens'[f] = lens[f]
      /\ lens'[g] = len
  BY <1>2, <1>5, AppendProperties
<1> QED
  BY <1>6, <1>7, <1>8

\* A piece of the wire, by number.
LEMMA Piece ==
  ASSUME TypeOK, NEW m \in 1..(Len(wire) + 1), NEW n \in (m - 1)..Len(wire)
  PROVE  /\ SubSeq(wire, m, n) \in Seq(Units)
         /\ Len(SubSeq(wire, m, n)) = n - m + 1
         /\ \A i \in 1..(n - m + 1) : SubSeq(wire, m, n)[i] = wire[m + i - 1]
<1>1. m \in Int /\ n \in Int /\ Len(wire) \in Nat
  BY WireUnits
<1>2. \A i \in m..n : wire[i] \in Units
  BY <1>1, WireUnits
<1> QED
  BY <1>1, <1>2, SubSeqProperties

\* recv() returns the first units of the wire and leaves the others.
LEMMA Consumed ==
  ASSUME TypeOK, NEW n \in 1..Len(wire), wire' = SubSeq(wire, n + 1, Len(wire))
  PROVE  /\ wire' \in Seq(Units) /\ Len(wire') = Len(wire) - n
         /\ \A i \in 1..(Len(wire) - n) : wire'[i] = wire[n + i]
         /\ wire' = <<>> <=> n = Len(wire)
<1> DEFINE l == Len(wire)
           rest == SubSeq(wire, n + 1, l)
<1>1. l \in Nat /\ n \in Nat /\ n <= l /\ n >= 1
  BY WireUnits
<1>2. n + 1 \in 1..(l + 1) /\ l \in ((n + 1) - 1)..l
  BY <1>1
<1>3. /\ rest \in Seq(Units) /\ Len(rest) = l - (n + 1) + 1
      /\ \A i \in 1..(l - (n + 1) + 1) : rest[i] = wire[(n + 1) + i - 1]
  BY <1>2, Piece
<1> HIDE DEF l, rest
<1>4. l - (n + 1) + 1 = l - n
  BY <1>1
<1>5. \A i \in 1..(l - n) : (n + 1) + i - 1 = n + i
  BY <1>1
<1>6. wire' = rest
  BY DEF rest, l
<1>7. wire' = <<>> <=> Len(wire') = 0
  BY <1>3, <1>6, EmptySeq
<1>8. /\ wire' \in Seq(Units) /\ Len(wire') = l - n
      /\ \A i \in 1..(l - n) : wire'[i] = wire[n + i]
  BY <1>3, <1>4, <1>5, <1>6
<1>9. l - n = 0 <=> n = l
  BY <1>1
<1> QED
  BY <1>7, <1>8, <1>9 DEF l

-----------------------------------------------------------------------------
(* Receiving                                                               *)

\* The receiver takes n units of frame f from the wire: the frame is returned when they
\* are its last, and else goes on.
Receives(f, n) ==
  /\ f \in DOMAIN lens /\ n \in 1..Len(wire) /\ IsNext(f)
  /\ wire[1] = Unit(f, WriteIndex) /\ WriteIndex + n <= lens[f]
  /\ wire' = SubSeq(wire, n + 1, Len(wire))
  /\ recvbuf' \in [1..BufferSize -> Units]
  /\ \A k \in 1..(WriteIndex + n) : recvbuf'[k] = Unit(f, k - 1)
  /\ RequiredRead' = lens[f]
  /\ IF WriteIndex + n < lens[f]
     THEN WriteIndex' = WriteIndex + n /\ pc' = "recv" /\ RecvCount' = RecvCount
     ELSE WriteIndex' = 0 /\ pc' = "paint" /\ RecvCount' = lens[f]
  /\ UNCHANGED <<lens, link, ConnectSocket, connections, seen, asserted>>

\* While a frame is received, its units are next on the wire.
LEMMA UnitsOfFrame ==
  ASSUME TypeOK, WireInv, NEW f \in DOMAIN lens, NEW n \in 1..Len(wire),
         wire[1] = Unit(f, WriteIndex), WriteIndex + n <= lens[f]
  PROVE  \A i \in 1..n : wire[i] = Unit(f, WriteIndex + i - 1)
<1> SUFFICES ASSUME NEW i \in 1..n
             PROVE  wire[i] = Unit(f, WriteIndex + i - 1)
  OBVIOUS
<1>1. /\ Len(wire) \in Nat /\ WriteIndex \in Nat /\ lens[f] \in Nat /\ n \in Nat
      /\ i \in Nat /\ i >= 1 /\ i <= n /\ n <= Len(wire)
  BY WireUnits, LensAreLengths, FrameLength DEF TypeOK
<1>2. 1 \in DOMAIN wire /\ i \in DOMAIN wire
  BY <1>1, WireUnits
<1>3. wire[1].frame = f /\ wire[1].place = WriteIndex
  BY UnitFields
<1>4. WriteIndex + (i - 1) < lens[f] /\ 1 <= i
  BY <1>1
<1>5. wire[i] = Unit(f, WriteIndex + (i - 1))
  BY <1>2, <1>3, <1>4 DEF WireInv
<1>6. WriteIndex + (i - 1) = WriteIndex + i - 1
  BY <1>1
<1> QED
  BY <1>5, <1>6

\* What recv() copies behind the WriteIndex completes the frame so far.
LEMMA ReceivedPrefix ==
  ASSUME TypeOK, WireInv, NEW f \in DOMAIN lens, NEW n \in 1..Len(wire),
         wire[1] = Unit(f, WriteIndex), WriteIndex + n <= lens[f],
         \A k \in 1..WriteIndex : recvbuf[k] = Unit(f, k - 1)
  PROVE  /\ Received(n) \in [1..BufferSize -> Units]
         /\ \A k \in 1..(WriteIndex + n) : Received(n)[k] = Unit(f, k - 1)
<1>1. /\ Len(wire) \in Nat /\ WriteIndex \in Nat /\ lens[f] \in Nat /\ n \in Nat
      /\ lens[f] <= BufferSize /\ BufferSize \in Nat /\ n <= Len(wire)
  BY WireUnits, LensAreLengths, FrameLength DEF TypeOK
<1>2. \A k \in 1..BufferSize : Received(n)[k] \in Units
  <2> SUFFICES ASSUME NEW k \in 1..BufferSize
               PROVE  Received(n)[k] \in Units
    OBVIOUS
  <2>1. Received(n)[k] = IF k > WriteIndex /\ k <= WriteIndex + n
                         THEN wire[k - WriteIndex] ELSE recvbuf[k]
    BY DEF Received
  <2>2. recvbuf[k] \in Units
    BY DEF TypeOK
  <2>3. k > WriteIndex /\ k <= WriteIndex + n => wire[k - WriteIndex] \in Units
    <3> SUFFICES ASSUME k > WriteIndex /\ k <= WriteIndex + n
                 PROVE  wire[k - WriteIndex] \in Units
      OBVIOUS
    <3>1. k - WriteIndex \in 1..Len(wire)
      BY <1>1
    <3> QED
      BY <3>1, WireUnits
  <2> QED
    BY <2>1, <2>2, <2>3
<1>3. ASSUME NEW k \in 1..(WriteIndex + n)
      PROVE  Received(n)[k] = Unit(f, k - 1)
  <2>1. k \in 1..BufferSize /\ k \in Nat
    BY <1>1
  <2>2. Received(n)[k] = IF k > WriteIndex /\ k <= WriteIndex + n
                         THEN wire[k - WriteIndex] ELSE recvbuf[k]
    BY <2>1 DEF Received
  <2>3. CASE k > WriteIndex
    <3>1. k - WriteIndex \in 1..n /\ WriteIndex + (k - WriteIndex) - 1 = k - 1
      BY <1>1, <2>1, <2>3
    <3>2. wire[k - WriteIndex] = Unit(f, k - 1)
      BY <3>1, UnitsOfFrame
    <3> QED
      BY <1>1, <2>1, <2>2, <2>3, <3>2
  <2>4. CASE ~(k > WriteIndex)
    <3>1. k \in 1..WriteIndex
      BY <1>1, <2>1, <2>4
    <3> QED
      BY <2>2, <2>4, <3>1
  <2> QED
    BY <2>3, <2>4
<1>4. Received(n) \in [1..BufferSize -> Units]
  BY <1>2 DEF Received
<1> QED
  BY <1>3, <1>4

\* The first recv of a packet returns the header of the next frame.
LEMMA HeaderStep ==
  ASSUME HeadersWhole, TypeOK, WireInv, PacketInv, NEW n \in 1..HeaderLen, RecvHeader(n)
  PROVE  \E f \in DOMAIN lens : Receives(f, n)
<1>1. /\ n = 2 /\ n <= Len(wire) /\ pc = "recv" /\ WriteIndex = 0
      /\ Len(wire) \in Nat
  BY WireUnits DEF RecvHeader, HeadersWhole, HeaderLen
<1>2. PICK f \in 1..(Len(lens) + 1) : IsNext(f) /\ GoesOnWith(f, 0)
  BY <1>1 DEF PacketInv
<1>3. wire # <<>> /\ 1 \in DOMAIN wire /\ n \in 1..Len(wire)
  BY <1>1, WireUnits
<1>4. wire[1] = Unit(f, WriteIndex)
  BY <1>1, <1>2, <1>3 DEF GoesOnWith
<1>5. f \in DOMAIN lens
  BY <1>3, <1>4, UnitFields DEF WireInv
<1>6. lens[f] \in Nat /\ lens[f] >= 2 /\ lens[f] <= BufferSize /\ BufferSize \in Nat
  BY <1>5, LensAreLengths, FrameLength
<1>7. WriteIndex + n <= lens[f]
  BY <1>1, <1>6
<1>8. \A k \in 1..WriteIndex : recvbuf[k] = Unit(f, k - 1)
  BY <1>1
<1>9. /\ Received(n) \in [1..BufferSize -> Units]
      /\ \A k \in 1..(WriteIndex + n) : Received(n)[k] = Unit(f, k - 1)
  BY <1>3, <1>4, <1>5, <1>7, <1>8, ReceivedPrefix
<1>10. recvbuf' = Received(n) /\ wire' = SubSeq(wire, n + 1, Len(wire))
  BY DEF RecvHeader
<1>11. RequiredRead' = lens[f]
  <2>1. HeaderLen \in 1..(WriteIndex + n) /\ HeaderLen - 1 = 1
    BY <1>1 DEF HeaderLen
  <2>2. recvbuf'[HeaderLen] = Unit(f, 1)
    BY <1>9, <1>10, <2>1
  <2>3. recvbuf'[HeaderLen].place = 1 /\ recvbuf'[HeaderLen].frame = f
    BY <2>2, UnitFields
  <2>4. RequiredRead' \in {lens[f]}
    <3>1. RequiredRead' \in PacketSizes(Unit(f, 1))
      BY <2>2 DEF RecvHeader
    <3>2. PacketSizes(Unit(f, 1)) = {lens[f]}
      BY UnitFields DEF PacketSizes
    <3> QED
      BY <3>1, <3>2
  <2> QED
    BY <2>4
<1>12. ~(BufferSize < RequiredRead')
  BY <1>6, <1>11
<1>13. asserted' = asserted /\ Continue(n, RequiredRead')
  BY <1>12 DEF RecvHeader
<1>14. IF WriteIndex + n < lens[f]
       THEN WriteIndex' = WriteIndex + n /\ pc' = "recv" /\ RecvCount' = RecvCount
       ELSE WriteIndex' = 0 /\ pc' = "paint" /\ RecvCount' = lens[f]
  BY <1>1, <1>6, <1>11, <1>13 DEF Continue, Return
<1>15. UNCHANGED <<lens, link, ConnectSocket, connections, seen, asserted>>
  BY <1>13 DEF RecvHeader, senderVars
<1> QED
  BY <1>2, <1>3, <1>4, <1>5, <1>7, <1>9, <1>10, <1>11, <1>14, <1>15 DEF Receives

\* The others return units of the frame under way and of no other.
LEMMA BodyStep ==
  ASSUME TypeOK, WireInv, PacketInv, NEW n \in 1..BufferSize, RecvBody(n)
  PROVE  \E f \in DOMAIN lens : Receives(f, n)
<1>1. /\ n <= Len(wire) /\ pc = "recv" /\ WriteIndex > 0 /\ n <= Asked
      /\ Len(wire) \in Nat /\ WriteIndex \in Nat /\ BufferSize \in Nat
  BY WireUnits, FrameLength DEF RecvBody, TypeOK
<1>2. PICK f \in 1..(Len(lens) + 1) :
        /\ IsNext(f) /\ GoesOnWith(f, WriteIndex)
        /\ f \in DOMAIN lens /\ RequiredRead = lens[f] /\ WriteIndex < lens[f]
        /\ \A k \in 1..WriteIndex : recvbuf[k] = Unit(f, k - 1)
  BY <1>1 DEF PacketInv
<1>3. wire # <<>> /\ n \in 1..Len(wire)
  BY <1>1, WireUnits
<1>4. wire[1] = Unit(f, WriteIndex)
  BY <1>2, <1>3 DEF GoesOnWith
<1>5. lens[f] \in Nat /\ lens[f] <= BufferSize
  BY <1>2, LensAreLengths, FrameLength
<1>6. WriteIndex + n <= lens[f]
  BY <1>1, <1>2, <1>5 DEF Asked
<1>7. /\ Received(n) \in [1..BufferSize -> Units]
      /\ \A k \in 1..(WriteIndex + n) : Received(n)[k] = Unit(f, k - 1)
  BY <1>2, <1>3, <1>4, <1>6, ReceivedPrefix
<1>8. /\ recvbuf' = Received(n) /\ wire' = SubSeq(wire, n + 1, Len(wire))
      /\ RequiredRead' = lens[f] /\ Continue(WriteIndex + n, lens[f])
      /\ UNCHANGED <<lens, link, ConnectSocket, connections, seen, asserted>>
  BY <1>2 DEF RecvBody, senderVars
<1>9. IF WriteIndex + n < lens[f]
      THEN WriteIndex' = WriteIndex + n /\ pc' = "recv" /\ RecvCount' = RecvCount
      ELSE WriteIndex' = 0 /\ pc' = "paint" /\ RecvCount' = lens[f]
  BY <1>1, <1>5, <1>6, <1>8 DEF Continue, Return
<1> QED
  BY <1>2, <1>3, <1>4, <1>6, <1>7, <1>8, <1>9 DEF Receives

\* The steps one by one, with the two that receive as the frames they are about.
LEMMA Steps ==
  ASSUME HeadersWhole, TypeOK, WireInv, PacketInv, [Next]_vars
  PROVE  \/ \E len \in FrameLens : SendFrame(len)
         \/ Disconnect \/ Connect \/ ConnectFails
         \/ \E f \in DOMAIN lens : \E n \in 1..Len(wire) : Receives(f, n)
         \/ RecvClosed \/ RecvFailed \/ Paint \/ UNCHANGED vars
<1>1. ASSUME NEW n \in 1..HeaderLen, RecvHeader(n)
      PROVE  \E f \in DOMAIN lens : \E m \in 1..Len(wire) : Receives(f, m)
  <2>1. PICK f \in DOMAIN lens : Receives(f, n)
    BY <1>1, HeaderStep
  <2> QED
    BY <2>1 DEF Receives
<1>2. ASSUME NEW n \in 1..BufferSize, RecvBody(n)
      PROVE  \E f \in DOMAIN lens : \E m \in 1..Len(wire) : Receives(f, m)
  <2>1. PICK f \in DOMAIN lens : Receives(f, n)
    BY <1>2, BodyStep
  <2> QED
    BY <2>1 DEF Receives
<1> QED
  BY <1>1, <1>2 DEF Next, Receiver

\* Every step leaves every variable in its type.
LEMMA TypeNext ==
  ASSUME HeadersWhole, TypeOK, WireInv, PacketInv, [Next]_vars
  PROVE  TypeOK'
<1>0. /\ lens \in Seq(FrameLens) /\ wire \in Seq(Units)
      /\ recvbuf \in [1..BufferSize -> Units]
      /\ WriteIndex \in 0..BufferSize /\ RequiredRead \in Int
      /\ RecvCount \in -1..BufferSize /\ seen \in 0..Len(lens) /\ connections \in Nat
      /\ BufferSize \in Nat /\ Len(lens) \in Nat
  BY LensAreLengths, FrameLength DEF TypeOK
<1>1. ASSUME NEW len \in FrameLens, SendFrame(len)
      PROVE  TypeOK'
  <2>1. lens' \in Seq(FrameLens) /\ Len(lens') = Len(lens) + 1 /\ wire' \in Seq(Units)
    BY <1>1, Sent
  <2>2. seen \in 0..Len(lens')
    BY <1>0, <2>1
  <2> QED
    BY <1>1, <2>1, <2>2 DEF SendFrame, TypeOK, receiveVars
<1>2. ASSUME Disconnect
      PROVE  TypeOK'
  <2>1. wire' \in Seq(Units)
    <3>1. CASE wire' = <<>>
      BY <3>1
    <3>2. CASE wire' # <<>>
      <4>1. PICK n \in 0..Len(wire) : wire' = SubSeq(wire, 1, n)
        BY <1>2, <3>2 DEF Disconnect
      <4>2. Len(wire) \in Nat
        BY WireUnits
      <4>3. 1 \in 1..(Len(wire) + 1) /\ n \in (1 - 1)..Len(wire)
        BY <4>2
      <4> QED
        BY <4>1, <4>3, Piece
    <3> QED
      BY <3>1, <3>2
  <2>2. link' \in {"closed", "broken"}
    BY <1>2 DEF Disconnect
  <2> QED
    BY <1>2, <2>1, <2>2 DEF Disconnect, TypeOK, senderVars, receiveVars
<1>3. ASSUME Connect
      PROVE  TypeOK'
  <2>1. /\ recvbuf' = [k \in 1..BufferSize |-> Garbage]
        /\ Garbage \in Units
    BY <1>3, UnitFields DEF Connect, Garbage
  <2>2. recvbuf' \in [1..BufferSize -> Units]
    BY <2>1
  <2>3. 0 \in 0..BufferSize /\ connections' \in Nat /\ <<>> \in Seq(Units)
    BY <1>0, <1>3 DEF Connect
  <2> QED
    BY <1>3, <2>2, <2>3 DEF Connect, TypeOK, senderVars
<1>4. ASSUME ConnectFails
      PROVE  TypeOK'
  <2>1. connections' \in Nat
    BY <1>0, <1>4 DEF ConnectFails
  <2> QED
    BY <1>4, <2>1 DEF ConnectFails, TypeOK, senderVars, receiveVars
<1>5. ASSUME NEW f \in DOMAIN lens, NEW n \in 1..Len(wire), Receives(f, n)
      PROVE  TypeOK'
  <2>1. wire' \in Seq(Units)
    BY <1>5, Consumed DEF Receives
  <2>2. lens[f] \in Nat /\ lens[f] <= BufferSize /\ n \in Nat
    BY LensAreLengths, FrameLength, WireUnits
  <2>3. /\ WriteIndex' \in 0..BufferSize /\ RequiredRead' \in Int
        /\ RecvCount' \in -1..BufferSize /\ pc' \in {"recv", "paint"}
    <3>1. CASE WriteIndex + n < lens[f]
      BY <1>0, <1>5, <2>2, <3>1 DEF Receives
    <3>2. CASE ~(WriteIndex + n < lens[f])
      BY <1>0, <1>5, <2>2, <3>2 DEF Receives
    <3> QED
      BY <3>1, <3>2
  <2> QED
    BY <1>5, <2>1, <2>3 DEF Receives, TypeOK
<1>6. ASSUME RecvClosed
      PROVE  TypeOK'
  <2>1. 0 \in 0..BufferSize /\ 0 \in -1..BufferSize
    BY <1>0
  <2> QED
    BY <1>6, <2>1 DEF RecvClosed, Ended, Return, TypeOK, senderVars
<1>7. ASSUME RecvFailed
      PROVE  TypeOK'
  <2>1. -1 \in -1..BufferSize
    BY <1>0
  <2> QED
    BY <1>7, <2>1 DEF RecvFailed, TypeOK, senderVars
<1>8. ASSUME Paint
      PROVE  TypeOK'
  <2>1. seen' \in 0..Len(lens)
    <3>1. CASE RecvCount > 0
      <4>1. PICK f \in DOMAIN lens : RecvCount = lens[f] /\ HoldsFrame(f)
        BY <1>8, <3>1 DEF PacketInv, Paint
      <4>2. f \in 1..Len(lens) /\ 1 \in 1..lens[f]
        BY <4>1, LensAreLengths, FrameLength
      <4>3. recvbuf[1] = Unit(f, 0)
        BY <4>1, <4>2 DEF HoldsFrame
      <4>4. seen' = f
        BY <1>8, <3>1, <4>3, UnitFields DEF Paint
      <4> QED
        BY <1>0, <4>2, <4>4
    <3>2. CASE ~(RecvCount > 0)
      BY <1>0, <1>8, <3>2 DEF Paint
    <3> QED
      BY <3>1, <3>2
  <2> QED
    BY <1>8, <2>1 DEF Paint, TypeOK, senderVars, linkVars
<1>9. ASSUME UNCHANGED vars
      PROVE  TypeOK'
  BY <1>9 DEF vars, senderVars, linkVars, receiveVars, TypeOK
<1> QED
  BY <1>1, <1>2, <1>3, <1>4, <1>5, <1>6, <1>7, <1>8, <1>9, Steps

\* Every step keeps the receiver's socket and the connection in agreement.
LEMMA LinkNext ==
  ASSUME HeadersWhole, TypeOK, LinkInv, WireInv, PacketInv, [Next]_vars
  PROVE  LinkInv'
<1>0. connections \in Nat
  BY DEF TypeOK
<1>1. ASSUME NEW len \in FrameLens, SendFrame(len)
      PROVE  LinkInv'
  BY <1>1 DEF SendFrame, LinkInv
<1>2. ASSUME Disconnect
      PROVE  LinkInv'
  BY <1>2 DEF Disconnect, LinkInv, senderVars
<1>3. ASSUME Connect \/ ConnectFails
      PROVE  LinkInv'
  BY <1>0, <1>3 DEF Connect, ConnectFails, LinkInv, senderVars
<1>4. ASSUME NEW f \in DOMAIN lens, NEW n \in 1..Len(wire), Receives(f, n)
      PROVE  LinkInv'
  <2>1. /\ wire # <<>> /\ pc' \in {"recv", "paint"}
        /\ UNCHANGED <<lens, link, ConnectSocket, connections>>
    BY <1>4, WireUnits DEF Receives
  <2> QED
    BY <2>1 DEF LinkInv
<1>5. ASSUME RecvClosed \/ RecvFailed \/ Paint
      PROVE  LinkInv'
  BY <1>5 DEF RecvClosed, Ended, Return, RecvFailed, Paint, LinkInv, senderVars, linkVars
<1>6. ASSUME UNCHANGED vars
      PROVE  LinkInv'
  BY <1>6 DEF vars, senderVars, linkVars, LinkInv
<1> QED
  BY <1>1, <1>2, <1>3, <1>4, <1>5, <1>6, Steps

-----------------------------------------------------------------------------
(* The wire                                                                *)

\* A piece of the wire is in order, and ends with the last unit sent if the wire did.
LEMMA PieceInOrder ==
  ASSUME TypeOK, WireInv,
         NEW m \in 1..(Len(wire) + 1), NEW n \in (m - 1)..Len(wire),
         wire' = SubSeq(wire, m, n), lens' = lens,
         link' = "up" => link = "up" /\ n = Len(wire)
  PROVE  WireInv'
<1>0. Len(wire) \in Nat
  BY WireUnits
<1>1. m \in Nat /\ m >= 1 /\ n \in Int /\ Len(wire) \in Nat /\ n <= Len(wire)
  <2>1. m \in Nat /\ m >= 1
    BY <1>0
  <2> QED
    BY <1>0, <2>1
<1>2. /\ wire' \in Seq(Units) /\ Len(wire') = n - m + 1
      /\ \A i \in 1..(n - m + 1) : wire'[i] = wire[m + i - 1]
  BY Piece
<1>3. DOMAIN wire' = 1..(n - m + 1)
  BY <1>2
<1>4. \A i \in DOMAIN wire' : m + i - 1 \in DOMAIN wire /\ wire'[i] = wire[m + i - 1]
  <2> SUFFICES ASSUME NEW i \in 1..(n - m + 1)
               PROVE  m + i - 1 \in 1..Len(wire)
    BY <1>2, <1>3, WireUnits
  <2> QED
    BY <1>1
<1>5. \A i \in DOMAIN wire' :
        wire'[i].frame \in DOMAIN lens /\ wire'[i].place < lens[wire'[i].frame]
  BY <1>4 DEF WireInv
<1>6. ASSUME NEW i \in DOMAIN wire', NEW j \in DOMAIN wire', i <= j,
             wire'[i].place + (j - i) < lens[wire'[i].frame]
      PROVE  wire'[j] = Unit(wire'[i].frame, wire'[i].place + (j - i))
  <2> DEFINE I == m + i - 1
             J == m + j - 1
  <2>1. I \in DOMAIN wire /\ wire'[i] = wire[I] /\ J \in DOMAIN wire /\ wire'[j] = wire[J]
    BY <1>4
  <2>2. J - I = j - i /\ I <= J
    BY <1>1, <1>3, <1>6
  <2> HIDE DEF I, J
  <2> QED
    BY <1>6, <2>1, <2>2 DEF WireInv
<1>7. ASSUME NEW i \in DOMAIN wire', NEW j \in DOMAIN wire', j = i + 1,
             wire'[i].place + 1 = lens[wire'[i].frame]
      PROVE  wire'[j] = Unit(wire'[i].frame + 1, 0)
  <2> DEFINE I == m + i - 1
             J == m + j - 1
  <2>1. I \in DOMAIN wire /\ wire'[i] = wire[I] /\ J \in DOMAIN wire /\ wire'[j] = wire[J]
    BY <1>4
  <2>2. J = I + 1
    BY <1>1, <1>3, <1>7
  <2> HIDE DEF I, J
  <2> QED
    BY <1>7, <2>1, <2>2 DEF WireInv
<1>8. ASSUME link' = "up", wire' # <<>>
      PROVE  wire'[Len(wire')] = Unit(Len(lens), lens[Len(lens)] - 1)
  <2>1. Len(wire') \in 1..(n - m + 1) /\ m + Len(wire') - 1 = Len(wire)
    <3>1. Len(wire') # 0 /\ n = Len(wire)
      BY <1>2, <1>8, EmptySeq
    <3> QED
      BY <1>1, <1>2, <3>1
  <2>2. wire'[Len(wire')] = wire[Len(wire)] /\ wire # <<>>
    BY <1>1, <1>2, <2>1, WireUnits
  <2> QED
    BY <1>8, <2>2 DEF WireInv
<1> QED
  BY <1>5, <1>6, <1>7, <1>8 DEF WireInv

\* An empty wire is in order.
LEMMA EmptyInOrder ==
  ASSUME wire' = <<>>
  PROVE  WireInv'
<1>1. DOMAIN wire' = {}
  OBVIOUS
<1> QED
  BY <1>1 DEF WireInv

\* A frame that is sent goes behind the end of the one before.
LEMMA SentInOrder ==
  ASSUME TypeOK, WireInv, NEW len \in FrameLens, SendFrame(len)
  PROVE  WireInv'
<1> DEFINE g == Len(lens) + 1
           l == Len(wire)
<1>1. /\ lens' \in Seq(FrameLens) /\ Len(lens') = g
      /\ \A f \in DOMAIN lens : lens'[f] = lens[f]
      /\ lens'[g] = len
      /\ wire' \in Seq(Units) /\ Len(wire') = l + len
      /\ \A i \in 1..(l + len) :
           wire'[i] = IF i <= l THEN wire[i] ELSE Unit(g, i - l - 1)
  BY Sent
<1>2. /\ len \in Nat /\ len >= 2 /\ l \in Nat /\ g \in Nat
      /\ DOMAIN lens = 1..(g - 1) /\ DOMAIN wire = 1..l
  BY FrameLength, LensAreLengths, WireUnits
<1>3. DOMAIN lens' = 1..g /\ DOMAIN wire' = 1..(l + len)
  BY <1>1, <1>2
<1>4. link = "up"
  BY DEF SendFrame
<1>5. l > 0 => wire[l] = Unit(g - 1, lens[g - 1] - 1) /\ g - 1 \in DOMAIN lens
  <2> SUFFICES ASSUME l > 0
               PROVE  wire[l] = Unit(g - 1, lens[g - 1] - 1) /\ g - 1 \in DOMAIN lens
    OBVIOUS
  <2>1. wire # <<>> /\ l \in DOMAIN wire
    BY <1>2, WireUnits
  <2>2. g - 1 = Len(lens)
    BY LensAreLengths
  <2>3. wire[l] = Unit(g - 1, lens[g - 1] - 1)
    BY <1>4, <2>1, <2>2 DEF WireInv
  <2>4. wire[l].frame \in DOMAIN lens
    BY <2>1 DEF WireInv
  <2> QED
    BY <2>3, <2>4, UnitFields
<1>6. ASSUME NEW i \in 1..l
      PROVE  /\ wire'[i] = wire[i] /\ i \in DOMAIN wire
             /\ wire[i].frame \in DOMAIN lens /\ lens'[wire[i].frame] = lens[wire[i].frame]
             /\ wire[i].place < lens[wire[i].frame]
             /\ wire[i].place \in Nat /\ lens[wire[i].frame] \in Nat
             /\ wire[i].frame \in Nat
  <2>1. i \in DOMAIN wire /\ i \in 1..(l + len) /\ i <= l
    BY <1>2
  <2>2. wire[i] \in Units
    BY <2>1, WireUnits
  <2>3. wire[i].frame \in DOMAIN lens
    BY <2>1 DEF WireInv
  <2> QED
    BY <1>1, <2>1, <2>2, <2>3, LensAreLengths, FrameLength DEF WireInv, Units
<1>7. ASSUME NEW i \in (l + 1)..(l + len)
      PROVE  /\ wire'[i] = Unit(g, i - l - 1)
             /\ wire'[i].frame = g /\ wire'[i].place = i - l - 1
  <2>1. i \in 1..(l + len) /\ ~(i <= l)
    BY <1>2
  <2> QED
    BY <1>1, <2>1, UnitFields
<1>8. \A i \in DOMAIN wire' : i \in 1..l \/ i \in (l + 1)..(l + len)
  BY <1>2, <1>3
<1> HIDE DEF g, l
<1>9. ASSUME NEW i \in DOMAIN wire'
      PROVE  wire'[i].frame \in DOMAIN lens' /\ wire'[i].place < lens'[wire'[i].frame]
  <2>1. CASE i \in 1..l
    BY <1>2, <1>3, <1>6, <2>1
  <2>2. CASE i \in (l + 1)..(l + len)
    <3>1. g \in 1..g /\ i - l - 1 < len
      BY <1>2, <2>2 DEF g
    <3> QED
      BY <1>1, <1>3, <1>7, <2>2, <3>1
  <2> QED
    BY <1>8, <2>1, <2>2
<1>10. ASSUME NEW i \in DOMAIN wire', NEW j \in DOMAIN wire', i <= j,
              wire'[i].place + (j - i) < lens'[wire'[i].frame]
       PROVE  wire'[j] = Unit(wire'[i].frame, wire'[i].place + (j - i))
  <2>1. CASE i \in 1..l /\ j \in 1..l
    <3>1. wire[i].place + (j - i) < lens[wire[i].frame]
      BY <1>6, <1>10, <2>1
    <3>2. wire[j] = Unit(wire[i].frame, wire[i].place + (j - i))
      BY <1>6, <1>10, <2>1, <3>1 DEF WireInv
    <3> QED
      BY <1>6, <2>1, <3>2
  <2>2. CASE i \in 1..l /\ j \in (l + 1)..(l + len)
    <3> DEFINE f == wire[i].frame
               p == wire[i].place
               L == lens[f]
    <3>1. /\ p \in Nat /\ L \in Nat /\ i \in DOMAIN wire /\ f \in DOMAIN lens
          /\ wire'[i] = wire[i] /\ lens'[f] = L
      BY <1>6, <2>2
    <3>2. p + (j - i) < L
      BY <1>10, <3>1
    <3> HIDE DEF p, L, f
    <3>3. /\ l \in DOMAIN wire /\ i <= l /\ p + (l - i) + 1 < L /\ p + (l - i) < L /\ l > 0
          /\ p + (l - i) \in Nat
      BY <1>2, <2>2, <3>1, <3>2
    <3>4. wire[l] = Unit(f, p + (l - i))
      BY <3>1, <3>3 DEF WireInv, f, p, L
    <3>5. wire[l] = Unit(g - 1, lens[g - 1] - 1)
      BY <1>5, <3>3
    <3>6. f = g - 1 /\ p + (l - i) = lens[g - 1] - 1
      BY <3>4, <3>5, UnitFields
    <3>7. p + (l - i) = L - 1
      BY <3>6 DEF L
    <3> QED
      BY <3>1, <3>3, <3>7
  <2>3. CASE i \in (l + 1)..(l + len) /\ j \in (l + 1)..(l + len)
    <3>1. (i - l - 1) + (j - i) = j - l - 1
      BY <1>2, <2>3
    <3> QED
      BY <1>7, <2>3, <3>1
  <2>4. CASE i \in (l + 1)..(l + len) /\ j \in 1..l
    BY <1>2, <1>10, <2>4
  <2> QED
    BY <1>8, <2>1, <2>2, <2>3, <2>4
<1>11. ASSUME NEW i \in DOMAIN wire', NEW j \in DOMAIN wire', j = i + 1,
              wire'[i].place + 1 = lens'[wire'[i].frame]
       PROVE  wire'[j] = Unit(wire'[i].frame + 1, 0)
  <2>1. CASE i \in 1..l /\ j \in 1..l
    <3>1. wire[i].place + 1 = lens[wire[i].frame]
      BY <1>6, <1>11, <2>1
    <3>2. wire[j] = Unit(wire[i].frame + 1, 0)
      BY <1>6, <1>11, <2>1, <3>1 DEF WireInv
    <3> QED
      BY <1>6, <2>1, <3>2
  <2>2. CASE i \in 1..l /\ j \in (l + 1)..(l + len)
    <3>1. i = l /\ l > 0 /\ j - l - 1 = 0
      BY <1>2, <1>11, <2>2
    <3>2. wire'[i].frame = g - 1
      BY <1>5, <1>6, <2>2, <3>1, UnitFields
    <3>3. wire'[i].frame + 1 = g
      BY <1>2, <3>2
    <3> QED
      BY <1>7, <2>2, <3>1, <3>3
  <2>3. CASE i \in (l + 1)..(l + len)
    <3>1. wire'[i].place + 1 = i - l /\ lens'[wire'[i].frame] = len
      BY <1>1, <1>2, <1>7, <2>3
    <3>2. i - l = len
      BY <1>11, <3>1
    <3> QED
      BY <1>2, <1>3, <1>11, <2>3, <3>2
  <2> QED
    BY <1>8, <2>1, <2>2, <2>3
<1>12. wire'[Len(wire')] = Unit(Len(lens'), lens'[Len(lens')] - 1)
  <2>1. l + len \in (l + 1)..(l + len) /\ (l + len) - l - 1 = len - 1
    BY <1>2
  <2>2. wire'[l + len] = Unit(g, len - 1)
    BY <1>7, <2>1
  <2>3. Len(wire') = l + len /\ Len(lens') = g /\ lens'[g] = len
    BY <1>1
  <2> QED
    BY <2>2, <2>3
<1> QED
  BY <1>9, <1>10, <1>11, <1>12 DEF WireInv

\* Every step keeps the wire in order.
LEMMA WireNext ==
  ASSUME HeadersWhole, TypeOK, LinkInv, WireInv, PacketInv, [Next]_vars
  PROVE  WireInv'
<1>1. ASSUME Disconnect
      PROVE  WireInv'
  <2>1. CASE wire' = <<>>
    BY <2>1, EmptyInOrder
  <2>2. CASE wire' # <<>>
    <3>1. PICK n \in 0..Len(wire) : wire' = SubSeq(wire, 1, n)
      BY <1>1, <2>2 DEF Disconnect
    <3>2. Len(wire) \in Nat
      BY WireUnits
    <3>3. 1 \in 1..(Len(wire) + 1) /\ n \in (1 - 1)..Len(wire)
      BY <3>2
    <3>4. lens' = lens /\ link' # "up"
      BY <1>1 DEF Disconnect, senderVars
    <3> QED
      BY <3>1, <3>3, <3>4, PieceInOrder
  <2> QED
    BY <2>1, <2>2
<1>2. ASSUME Connect
      PROVE  WireInv'
  BY <1>2, EmptyInOrder DEF Connect
<1>3. ASSUME NEW f \in DOMAIN lens, NEW n \in 1..Len(wire), Receives(f, n)
      PROVE  WireInv'
  <2>1. Len(wire) \in Nat
    BY WireUnits
  <2>2. n \in Nat /\ n <= Len(wire)
    BY <2>1
  <2>3. n + 1 \in 1..(Len(wire) + 1) /\ Len(wire) \in ((n + 1) - 1)..Len(wire)
    BY <2>1, <2>2
  <2>4. wire' = SubSeq(wire, n + 1, Len(wire)) /\ lens' = lens /\ link' = link
    BY <1>3 DEF Receives
  <2> QED
    BY <2>3, <2>4, PieceInOrder
<1>4. ASSUME UNCHANGED <<wire, lens, link>>
      PROVE  WireInv'
  BY <1>4 DEF WireInv
<1>5. ConnectFails \/ RecvClosed \/ RecvFailed \/ Paint \/ UNCHANGED vars =>
        UNCHANGED <<wire, lens, link>>
  BY DEF ConnectFails, RecvClosed, Ended, RecvFailed, Paint, vars, senderVars, linkVars
<1> QED
  BY <1>1, <1>2, <1>3, <1>4, <1>5, SentInOrder, Steps

-----------------------------------------------------------------------------
(* The packets                                                             *)

\* After some units of a frame the wire goes on with the next, and after its last with
\* the next frame.
LEMMA ReceivesGoesOn ==
  ASSUME TypeOK, WireInv, NEW f \in DOMAIN lens, NEW n \in 1..Len(wire), Receives(f, n)
  PROVE  /\ WriteIndex + n < lens[f] => GoesOnWith(f, WriteIndex)'
         /\ ~(WriteIndex + n < lens[f]) => GoesOnWith(f + 1, 0)'
<1> DEFINE l == Len(wire)
           k == WriteIndex + n
<1>1. /\ l \in Nat /\ WriteIndex \in Nat /\ lens[f] \in Nat /\ n \in Nat /\ f \in Nat
      /\ n >= 1 /\ n <= l /\ k <= lens[f] /\ k \in Nat
      /\ DOMAIN wire = 1..l
  BY WireUnits, LensAreLengths, FrameLength DEF TypeOK, Receives
<1>2. wire[n] = Unit(f, k - 1)
  <2>1. wire[1] = Unit(f, WriteIndex) /\ WriteIndex + n <= lens[f]
    BY DEF Receives
  <2>2. \A i \in 1..n : wire[i] = Unit(f, WriteIndex + i - 1)
    BY <2>1, UnitsOfFrame
  <2>3. n \in 1..n
    BY <1>1
  <2>4. WriteIndex + n - 1 = k - 1
    BY <1>1
  <2> QED
    BY <2>2, <2>3, <2>4
<1>3. wire[n].frame = f /\ wire[n].place = k - 1
  BY <1>2, UnitFields
<1>4. UNCHANGED <<lens, link>>
  BY DEF Receives
<1>5. /\ Len(wire') = l - n
      /\ \A i \in 1..(l - n) : wire'[i] = wire[n + i]
      /\ wire' = <<>> <=> n = l
  BY Consumed DEF Receives
<1>9. k < lens[f] => WriteIndex' = k
  BY DEF Receives
<1> HIDE DEF k, l
<1>6. CASE n = l
  <2>1. ASSUME link' = "up"
        PROVE  f = Len(lens) /\ k = lens[f]
    <3>1. wire # <<>> /\ n = Len(wire)
      BY <1>1, <1>6, WireUnits DEF l
    <3>2. wire[n] = Unit(Len(lens), lens[Len(lens)] - 1)
      BY <1>4, <2>1, <3>1 DEF WireInv
    <3>3. f = Len(lens) /\ k - 1 = lens[Len(lens)] - 1
      BY <1>3, <3>2, UnitFields
    <3> QED
      BY <1>1, <3>3
  <2>2. wire' = <<>>
    BY <1>5, <1>6
  <2>3. k < lens[f] => GoesOnWith(f, WriteIndex)'
    BY <1>1, <2>1, <2>2 DEF GoesOnWith
  <2>4. ~(k < lens[f]) => GoesOnWith(f + 1, 0)'
    BY <1>4, <2>1, <2>2 DEF GoesOnWith
  <2> QED
    BY <2>3, <2>4 DEF k
<1>7. CASE n # l
  <2>1. /\ wire' # <<>> /\ wire'[1] = wire[n + 1]
        /\ n \in DOMAIN wire /\ n + 1 \in DOMAIN wire
    BY <1>1, <1>5, <1>7
  <2>2. k < lens[f] => wire[n + 1] = Unit(f, k)
    <3>1. (k - 1) + ((n + 1) - n) = k /\ n <= n + 1
      BY <1>1
    <3> QED
      BY <1>3, <2>1, <3>1 DEF WireInv
  <2>3. ~(k < lens[f]) => wire[n + 1] = Unit(f + 1, 0)
    <3>1. ~(k < lens[f]) => (k - 1) + 1 = lens[f]
      BY <1>1
    <3> QED
      BY <1>3, <2>1, <3>1 DEF WireInv
  <2>4. k < lens[f] => GoesOnWith(f, WriteIndex)'
    BY <1>9, <2>1, <2>2 DEF GoesOnWith
  <2>5. ~(k < lens[f]) => GoesOnWith(f + 1, 0)'
    BY <2>1, <2>3 DEF GoesOnWith
  <2> QED
    BY <2>4, <2>5 DEF k
<1> QED
  BY <1>6, <1>7

\* Whatever frame is the next, it is one.
LEMMA NextFrame ==
  ASSUME TypeOK
  PROVE  /\ seen + 1 \in 1..(Len(lens) + 1) /\ IsNext(seen + 1)
         /\ \A f \in DOMAIN lens : f \in 1..(Len(lens) + 1) /\ f + 1 \in 1..(Len(lens) + 1)
BY LensAreLengths DEF TypeOK, IsNext

\* What was sent changes neither the frame under way nor the one returned.
LEMMA SendKeepsPacket ==
  ASSUME TypeOK, WireInv, PacketInv, NEW len \in FrameLens, SendFrame(len)
  PROVE  PacketInv'
<1>1. /\ Len(lens') = Len(lens) + 1
      /\ \A f \in DOMAIN lens : lens'[f] = lens[f]
      /\ Len(wire') = Len(wire) + len
      /\ \A i \in 1..(Len(wire) + len) :
           wire'[i] = IF i <= Len(wire) THEN wire[i]
                      ELSE Unit(Len(lens) + 1, i - Len(wire) - 1)
      /\ lens' \in Seq(FrameLens)
  BY Sent
<1>2. /\ Len(wire) \in Nat /\ len \in Nat /\ len >= 2 /\ Len(lens) \in Nat
      /\ DOMAIN lens = 1..Len(lens)
  BY WireUnits, FrameLength, LensAreLengths
<1>3. /\ link = "up" /\ DOMAIN lens' = 1..(Len(lens) + 1)
      /\ UNCHANGED <<pc, link, recvbuf, WriteIndex, RequiredRead, RecvCount, seen,
                     connections, ConnectSocket>>
  BY <1>1 DEF SendFrame, receiveVars
<1>4. DOMAIN lens \subseteq DOMAIN lens'
  BY <1>2, <1>3
<1>5. ASSUME NEW f, NEW k, GoesOnWith(f, k)
      PROVE  GoesOnWith(f, k)'
  <2>1. wire' # <<>>
    BY <1>1, <1>2
  <2>2. wire'[1] = Unit(f, k)
    <3>1. CASE wire = <<>>
      <4>1. Len(wire) = 0 /\ f = Len(lens) + 1 /\ k = 0
        BY <1>3, <1>5, <3>1, WireUnits DEF GoesOnWith
      <4> QED
        BY <1>1, <1>2, <4>1
    <3>2. CASE wire # <<>>
      <4>1. Len(wire) >= 1
        BY <1>2, <3>2, WireUnits
      <4>2. wire'[1] = wire[1]
        BY <1>1, <1>2, <4>1
      <4> QED
        BY <1>5, <3>2, <4>2 DEF GoesOnWith
    <3> QED
      BY <3>1, <3>2
  <2> QED
    BY <2>1, <2>2 DEF GoesOnWith
<1>6. \A f : IsNext(f)' <=> IsNext(f)
  BY <1>3 DEF IsNext
<1>7. \A f \in DOMAIN lens : HoldsFrame(f)' <=> HoldsFrame(f)
  BY <1>1, <1>3, <1>4 DEF HoldsFrame
<1>8. ASSUME pc' = "recv"
      PROVE  \E f \in 1..(Len(lens') + 1) :
               /\ IsNext(f)' /\ GoesOnWith(f, WriteIndex)'
               /\ WriteIndex' > 0 =>
                    /\ f \in DOMAIN lens' /\ RequiredRead' = lens'[f]
                    /\ WriteIndex' < lens'[f]
                    /\ \A k \in 1..WriteIndex' : recvbuf'[k] = Unit(f, k - 1)
  <2>1. PICK f \in 1..(Len(lens) + 1) :
          /\ IsNext(f) /\ GoesOnWith(f, WriteIndex)
          /\ WriteIndex > 0 =>
               /\ f \in DOMAIN lens /\ RequiredRead = lens[f] /\ WriteIndex < lens[f]
               /\ \A k \in 1..WriteIndex : recvbuf[k] = Unit(f, k - 1)
    BY <1>3, <1>8 DEF PacketInv
  <2>2. f \in 1..(Len(lens') + 1)
    BY <1>1, <1>2
  <2>3. IsNext(f)' /\ GoesOnWith(f, WriteIndex)'
    <3>1. PICK w : w = WriteIndex
      OBVIOUS
    <3>2. GoesOnWith(f, w)'
      BY <1>5, <2>1, <3>1
    <3>3. w = WriteIndex'
      BY <1>3, <3>1
    <3> QED
      BY <1>6, <2>1, <3>2, <3>3 DEF GoesOnWith
  <2> QED
    BY <1>1, <1>3, <1>4, <2>1, <2>2, <2>3
<1>9. ASSUME pc' = "paint"
      PROVE  /\ WriteIndex' = 0
             /\ \/ RecvCount' = 0 /\ ~ConnectSocket'
                \/ \E f \in DOMAIN lens' :
                     /\ IsNext(f)' /\ RecvCount' = lens'[f] /\ HoldsFrame(f)'
                     /\ GoesOnWith(f + 1, 0)'
  <2>1. /\ WriteIndex = 0
        /\ \/ RecvCount = 0 /\ ~ConnectSocket
           \/ \E f \in DOMAIN lens :
                /\ IsNext(f) /\ RecvCount = lens[f] /\ HoldsFrame(f)
                /\ GoesOnWith(f + 1, 0)
    BY <1>3, <1>9 DEF PacketInv
  <2>2. CASE RecvCount = 0 /\ ~ConnectSocket
    BY <1>3, <2>1, <2>2
  <2>3. CASE \E f \in DOMAIN lens :
               /\ IsNext(f) /\ RecvCount = lens[f] /\ HoldsFrame(f)
               /\ GoesOnWith(f + 1, 0)
    <3>1. PICK f \in DOMAIN lens :
            /\ IsNext(f) /\ RecvCount = lens[f] /\ HoldsFrame(f)
            /\ GoesOnWith(f + 1, 0)
      BY <2>3
    <3>2. IsNext(f)' /\ HoldsFrame(f)' /\ GoesOnWith(f + 1, 0)'
      BY <1>5, <1>6, <1>7, <3>1
    <3> QED
      BY <1>1, <1>3, <1>4, <2>1, <3>1, <3>2
  <2> QED
    BY <2>1, <2>2, <2>3
<1> QED
  BY <1>8, <1>9 DEF PacketInv

\* Neither does a wire that is cut short.
LEMMA DisconnectKeepsPacket ==
  ASSUME TypeOK, PacketInv, Disconnect
  PROVE  PacketInv'
<1>1. /\ link' # "up"
      /\ UNCHANGED <<lens, pc, recvbuf, WriteIndex, RequiredRead, RecvCount, seen,
                     connections, ConnectSocket>>
  BY DEF Disconnect, senderVars, receiveVars
<1>2. wire' = <<>> \/ (wire # <<>> /\ wire'[1] = wire[1])
  <2> SUFFICES ASSUME wire' # <<>>
               PROVE  wire # <<>> /\ wire'[1] = wire[1]
    OBVIOUS
  <2>1. PICK n \in 0..Len(wire) : wire' = SubSeq(wire, 1, n)
    BY DEF Disconnect
  <2>2. Len(wire) \in Nat
    BY WireUnits
  <2>3. 1 \in 1..(Len(wire) + 1) /\ n \in (1 - 1)..Len(wire) /\ n \in Nat
    BY <2>2
  <2>4. /\ wire' \in Seq(Units) /\ Len(wire') = n - 1 + 1
        /\ \A i \in 1..(n - 1 + 1) : wire'[i] = wire[1 + i - 1]
    BY <2>1, <2>3, Piece
  <2>5. Len(wire') # 0
    BY <2>4, EmptySeq
  <2>6. n - 1 + 1 = n /\ 1 + 1 - 1 = 1
    BY <2>3
  <2>7. n >= 1 /\ Len(wire) # 0 /\ 1 \in 1..(n - 1 + 1)
    BY <2>2, <2>3, <2>4, <2>5, <2>6
  <2>8. wire # <<>>
    BY <2>7, WireUnits
  <2>9. wire'[1] = wire[1]
    BY <2>4, <2>6, <2>7
  <2> QED
    BY <2>8, <2>9
<1>3. \A f, k : GoesOnWith(f, k) => GoesOnWith(f, k)'
  BY <1>1, <1>2 DEF GoesOnWith
<1>4. \A f : GoesOnWith(f, WriteIndex) => GoesOnWith(f, WriteIndex)'
  BY <1>1, <1>2 DEF GoesOnWith
<1>5. \A f : (IsNext(f)' <=> IsNext(f)) /\ (HoldsFrame(f)' <=> HoldsFrame(f))
  BY <1>1 DEF IsNext, HoldsFrame
<1>6. \A f : GoesOnWith(f + 1, 0) => GoesOnWith(f + 1, 0)'
  BY <1>3
<1> HIDE DEF GoesOnWith
<1> QED
  BY <1>1, <1>4, <1>5, <1>6 DEF PacketInv

\* Units that are received are those of the frame under way.
LEMMA ReceivesKeepsPacket ==
  ASSUME TypeOK, WireInv, NEW f \in DOMAIN lens, NEW n \in 1..Len(wire), Receives(f, n)
  PROVE  PacketInv'
<1>1. /\ IsNext(f) /\ UNCHANGED <<lens, link, ConnectSocket, connections, seen>>
      /\ \A k \in 1..(WriteIndex + n) : recvbuf'[k] = Unit(f, k - 1)
      /\ RequiredRead' = lens[f] /\ WriteIndex + n <= lens[f]
  BY DEF Receives
<1>2. IsNext(f)' /\ DOMAIN lens' = DOMAIN lens /\ lens'[f] = lens[f] /\ Len(lens') = Len(lens)
  BY <1>1 DEF IsNext
<1>3. /\ WriteIndex \in Nat /\ n \in Nat /\ lens[f] \in Nat
      /\ f \in 1..(Len(lens) + 1)
  BY LensAreLengths, FrameLength, WireUnits, NextFrame DEF TypeOK
<1>4. CASE WriteIndex + n < lens[f]
  <2>1. WriteIndex' = WriteIndex + n /\ pc' = "recv"
    BY <1>4 DEF Receives
  <2>2. GoesOnWith(f, WriteIndex)'
    BY <1>4, ReceivesGoesOn
  <2>3. /\ WriteIndex' < lens'[f] /\ RequiredRead' = lens'[f] /\ f \in DOMAIN lens'
        /\ \A k \in 1..WriteIndex' : recvbuf'[k] = Unit(f, k - 1)
    BY <1>1, <1>2, <1>4, <2>1
  <2>4. f \in 1..(Len(lens') + 1)
    BY <1>2, <1>3
  <2> QED
    BY <1>2, <2>1, <2>2, <2>3, <2>4 DEF PacketInv
<1>5. CASE ~(WriteIndex + n < lens[f])
  <2>1. WriteIndex' = 0 /\ pc' = "paint" /\ RecvCount' = lens[f]
    BY <1>5 DEF Receives
  <2>2. GoesOnWith(f + 1, 0)'
    BY <1>5, ReceivesGoesOn
  <2>3. WriteIndex + n = lens[f]
    <3> DEFINE len == lens[f]
               k == WriteIndex + n
    <3>1. len \in Nat /\ k \in Nat
      BY <1>3
    <3>2. k <= len /\ ~(k < len)
      BY <1>1, <1>5
    <3> HIDE DEF len, k
    <3>3. k = len
      BY <3>1, <3>2
    <3> QED
      BY <3>3 DEF k, len
  <2>4. HoldsFrame(f)'
    BY <1>1, <1>2, <2>3 DEF HoldsFrame
  <2>5. f \in DOMAIN lens' /\ RecvCount' = lens'[f]
    BY <1>2, <2>1
  <2> QED
    BY <1>2, <2>1, <2>2, <2>4, <2>5 DEF PacketInv
<1> QED
  BY <1>4, <1>5

\* Painting a frame makes it the last one seen, and the one behind it the next.
LEMMA PaintKeepsPacket ==
  ASSUME TypeOK, LinkInv, PacketInv, Paint
  PROVE  /\ PacketInv'
         /\ seen' # seen => seen' = seen + 1 \/ connections > 1
<1>1. /\ pc = "paint" /\ pc' = "recv" /\ WriteIndex = 0 /\ WriteIndex' = 0
      /\ UNCHANGED <<lens, wire, link, connections>>
      /\ seen' = IF RecvCount > 0 THEN recvbuf[1].frame ELSE seen
      /\ connections \in Nat
  BY DEF Paint, senderVars, linkVars, PacketInv, TypeOK
<1>2. CASE RecvCount = 0 /\ ~ConnectSocket
  <2>1. seen' = seen /\ wire = <<>> /\ link # "up"
    BY <1>1, <1>2 DEF LinkInv
  <2>2. GoesOnWith(seen + 1, WriteIndex)' /\ IsNext(seen + 1)'
    BY <1>1, <2>1, NextFrame DEF GoesOnWith, IsNext
  <2>3. PICK f \in 1..(Len(lens) + 1) : f = seen + 1
    BY NextFrame
  <2>4. GoesOnWith(f, WriteIndex)' /\ IsNext(f)'
    BY <1>1, <2>1, <2>2, <2>3 DEF GoesOnWith, IsNext
  <2> QED
    BY <1>1, <2>1, <2>4 DEF PacketInv
<1>3. CASE ~(RecvCount = 0 /\ ~ConnectSocket)
  <2>1. PICK f \in DOMAIN lens :
          /\ IsNext(f) /\ RecvCount = lens[f] /\ HoldsFrame(f) /\ GoesOnWith(f + 1, 0)
    BY <1>1, <1>3 DEF PacketInv
  <2>2. lens[f] \in Nat /\ lens[f] >= 2 /\ f \in Nat
    BY LensAreLengths, FrameLength
  <2>3. recvbuf[1] = Unit(f, 0)
    BY <2>1, <2>2 DEF HoldsFrame
  <2>4. seen' = f
    BY <1>1, <2>1, <2>2, <2>3, UnitFields
  <2>5. PICK g \in 1..(Len(lens) + 1) : g = f + 1
    BY NextFrame
  <2>6. GoesOnWith(g, WriteIndex)'
    <3>1. GoesOnWith(g, 0)
      BY <2>1, <2>5
    <3> QED
      BY <1>1, <3>1 DEF GoesOnWith
  <2>7. IsNext(g)'
    BY <2>2, <2>4, <2>5 DEF IsNext
  <2>8. f = seen + 1 \/ connections > 1
    BY <1>1, <2>1 DEF IsNext
  <2> QED
    BY <1>1, <2>4, <2>6, <2>7, <2>8 DEF PacketInv
<1> QED
  BY <1>2, <1>3

\* Every step keeps the packet under way, or the one returned, a frame.
LEMMA PacketNext ==
  ASSUME HeadersWhole, TypeOK, LinkInv, WireInv, PacketInv, [Next]_vars
  PROVE  PacketInv'
<1>1. ASSUME Connect
      PROVE  PacketInv'
  <2>1. /\ pc' = "recv" /\ wire' = <<>> /\ WriteIndex' = 0 /\ connections' = connections + 1
        /\ UNCHANGED <<lens, seen>>
    BY <1>1 DEF Connect, senderVars
  <2>2. /\ connections \in Nat /\ seen \in 0..Len(lens) /\ Len(lens) \in Nat
        /\ connections = 0 => Len(lens) = 0
    BY LensAreLengths DEF TypeOK, LinkInv
  <2>3. PICK f \in 1..(Len(lens) + 1) : f = Len(lens) + 1
    BY <2>2
  <2>4. IsNext(f)'
    BY <2>1, <2>2, <2>3 DEF IsNext
  <2>5. GoesOnWith(f, WriteIndex)'
    BY <2>1, <2>3 DEF GoesOnWith
  <2>6. f \in 1..(Len(lens') + 1) /\ ~(WriteIndex' > 0)
    BY <2>1
  <2> QED
    BY <2>1, <2>4, <2>5, <2>6 DEF PacketInv
<1>2. ASSUME ConnectFails \/ RecvFailed
      PROVE  PacketInv'
  BY <1>2 DEF ConnectFails, RecvFailed, PacketInv
<1>3. ASSUME RecvClosed
      PROVE  PacketInv'
  BY <1>3 DEF RecvClosed, Ended, Return, PacketInv
<1>4. ASSUME UNCHANGED vars
      PROVE  PacketInv'
  BY <1>4 DEF vars, senderVars, linkVars, receiveVars, PacketInv, IsNext, GoesOnWith,
              HoldsFrame
<1> QED
  BY <1>1, <1>2, <1>3, <1>4, SendKeepsPacket, DisconnectKeepsPacket,
     ReceivesKeepsPacket, PaintKeepsPacket, Steps

-----------------------------------------------------------------------------
(* The invariant, and what follows                                         *)

\* A receiver that has not connected yet satisfies the invariant.
LEMMA InvInit == Init => IInv
<1> SUFFICES ASSUME Init PROVE IInv
  OBVIOUS
<1>1. /\ lens = <<>> /\ wire = <<>> /\ link = "closed"
      /\ ConnectSocket = FALSE /\ pc = "connect"
      /\ recvbuf = [k \in 1..BufferSize |-> Garbage]
      /\ WriteIndex = 0 /\ RequiredRead = 0 /\ RecvCount = 0
      /\ seen = 0 /\ asserted = FALSE /\ connections = 0
  BY DEF Init
<1>2. Garbage \in Units
  BY UnitFields DEF Garbage
<1>3. recvbuf \in [1..BufferSize -> Units]
  BY <1>1, <1>2
<1>4. /\ BufferSize \in Nat /\ 0 \in 0..BufferSize /\ 0 \in -1..BufferSize
      /\ Len(<<>>) = 0
  BY FrameLength
<1>5. TypeOK
  <2>1. lens \in Seq(FrameLens) /\ wire \in Seq(Units) /\ seen \in 0..Len(lens)
    BY <1>1, <1>4
  <2>2. ConnectSocket \in BOOLEAN /\ asserted \in BOOLEAN
    BY <1>1, Zenon
  <2>3. RequiredRead \in Int /\ connections \in Nat
    BY <1>1
  <2> QED
    BY <1>1, <1>3, <1>4, <2>1, <2>2, <2>3, Zenon DEF TypeOK
<1>6. LinkInv /\ PacketInv /\ AssertHolds
  BY <1>1 DEF LinkInv, PacketInv, AssertHolds
<1>7. WireInv
  <2>1. DOMAIN wire = {}
    BY <1>1
  <2> QED
    BY <1>1, <2>1 DEF WireInv
<1> QED
  BY <1>5, <1>6, <1>7 DEF IInv

\* Every step keeps it when headers come whole.
LEMMA InvNext ==
  ASSUME HeadersWhole
  PROVE  IInv /\ [Next]_vars => IInv'
<1> SUFFICES ASSUME IInv, [Next]_vars PROVE IInv'
  OBVIOUS
<1>1. TypeOK /\ LinkInv /\ WireInv /\ PacketInv /\ AssertHolds
  BY DEF IInv
<1>2. TypeOK' /\ LinkInv' /\ WireInv' /\ PacketInv'
  BY <1>1, TypeNext, LinkNext, WireNext, PacketNext
<1>3. AssertHolds'
  <2>1. asserted' = asserted
    BY <1>1, Steps
    DEF SendFrame, Disconnect, Connect, ConnectFails, Receives, RecvClosed, Ended,
        RecvFailed, Paint, vars, receiveVars
  <2> QED
    BY <1>1, <2>1 DEF AssertHolds
<1> QED
  BY <1>2, <1>3 DEF IInv

\* It holds in every state of every behaviour.
LEMMA Invariance ==
  ASSUME HeadersWhole
  PROVE  Spec => []IInv
BY InvInit, InvNext, PTL DEF Spec

\* However the stream is cut below the header and whenever the connection goes, what is
\* returned as a packet is one whole frame, and later than all before.
THEOREM ReceiverFramesIntact ==
  ASSUME HeadersWhole
  PROVE  Spec => []FramesIntact
<1>1. IInv => FramesIntact
  <2> SUFFICES ASSUME IInv, pc = "paint", RecvCount > 0
               PROVE  \E f \in (seen + 1)..Len(lens) : RecvCount = lens[f] /\ HoldsFrame(f)
    BY DEF FramesIntact
  <2>1. PICK f \in DOMAIN lens : IsNext(f) /\ RecvCount = lens[f] /\ HoldsFrame(f)
    BY DEF IInv, PacketInv
  <2>2. f \in (seen + 1)..Len(lens)
    BY <2>1, LensAreLengths DEF IInv, TypeOK, IsNext
  <2> QED
    BY <2>1, <2>2
<1> QED
  BY <1>1, Invariance, PTL

\* Painting a buffer that holds no whole frame means that the stream has just ended.
THEOREM ReceiverTornPictureOnlyAtEnd ==
  ASSUME HeadersWhole
  PROVE  Spec => []TornPictureOnlyAtEnd
<1>1. IInv => TornPictureOnlyAtEnd
  BY DEF IInv, PacketInv, TornPictureOnlyAtEnd
<1> QED
  BY <1>1, Invariance, PTL

\* The assert of ReceivePacketNonBlocking is never reached.
THEOREM ReceiverAssertHolds ==
  ASSUME HeadersWhole
  PROVE  Spec => []AssertHolds
<1>1. IInv => AssertHolds
  BY DEF IInv
<1> QED
  BY <1>1, Invariance, PTL

\* As long as there has been one connection, the frames are painted one after the other.
THEOREM ReceiverNoFrameSkipped ==
  ASSUME HeadersWhole
  PROVE  Spec => NoFrameSkipped
<1>1. IInv /\ [Next]_vars => [seen' # seen => seen' = seen + 1 \/ connections > 1]_vars
  <2> SUFFICES ASSUME IInv, [Next]_vars, seen' # seen
               PROVE  seen' = seen + 1 \/ connections > 1
    OBVIOUS
  <2>1. Paint
    BY Steps
    DEF IInv, SendFrame, Disconnect, Connect, ConnectFails, Receives, RecvClosed, Ended,
        RecvFailed, vars, receiveVars
  <2> QED
    BY <2>1, PaintKeepsPacket DEF IInv
<1> QED
  BY <1>1, Invariance, PTL DEF Spec, NoFrameSkipped

=============================================================================
