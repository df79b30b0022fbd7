---------------------------- MODULE FrameReceiver -----------------------------
(***************************************************************************)
(* Packets over the TCP byte stream: the encoder PC's ListenAndPaint       *)
(* (main.cpp) and ClientNetwork::ReceivePacketNonBlocking                  *)
(* (ClientNetwork.cpp) at the receiving end, the gamer PC's sends at the   *)
(* other.                                                                  *)
(*                                                                         *)
(* The stream is cut into units.  A frame of len units is the header's     *)
(* first fields (unit 0), its last field PacketSize (unit 1) and len - 2   *)
(* units of picture; a unit is named by its frame and its place in it.     *)
(***************************************************************************)
EXTENDS Naturals, Integers, Sequences, SequencesExt

CONSTANTS
  BufferSize,     (* units the receive buffer holds                          *)
  FrameLens,      (* lengths a frame can have, header included               *)
  GarbageSizes,   (* what PacketSize reads as when the buffer holds no header *)
  SplitHeaders,   (* can recv return a part of a header, or the stream end   *)
                  (* inside one?                                             *)
  Addresses,      (* how many addresses the server's name resolves to        *)
  MaxFrames,      (* bound: frames sent                                      *)
  MaxConnections  (* bound: attempts to connect                              *)

HeaderLen == 2

ASSUME ReceiverAssumption ==
  /\ BufferSize \in Nat
  /\ FrameLens \subseteq HeaderLen..BufferSize
  /\ GarbageSizes \subseteq Int
  /\ SplitHeaders \in BOOLEAN
  /\ Addresses \in Nat \ {0}

VARIABLES
  lens,          (* history: the length of every frame sent                  *)
  wire,          (* units sent on the connection and not received yet        *)
  link,          (* the connection: "up", "closed" by the sender, "broken"   *)
  ConnectSocket, (* is the receiver's socket valid?                          *)
  pc,            (* the receiver: "connect", "recv" or "paint"               *)
  recvbuf,       (* the receive buffer, kept from packet to packet           *)
  WriteIndex,    (* units of this packet received (SumRead has its value)    *)
  RequiredRead,  (* units this packet should have                            *)
  RecvCount,     (* what the last ReceivePacketNonBlocking returned          *)
  seen,          (* history: the last frame returned                         *)
  asserted,      (* history: the assert of ReceivePacketNonBlocking failed   *)
  connections    (* history: attempts to connect                             *)

senderVars   == <<lens>>
linkVars     == <<wire, link, ConnectSocket, connections>>
receiveVars  == <<recvbuf, WriteIndex, RequiredRead, RecvCount, seen, asserted>>
vars == <<senderVars, linkVars, receiveVars, pc>>

Unit(f, k) == [frame |-> f, place |-> k]
Units == [frame : Nat, place : Nat]
Garbage == Unit(0, 0)
Frame(f, len) == [k \in 1..len |-> Unit(f, k - 1)]

Init ==
  /\ lens = <<>> /\ wire = <<>> /\ link = "closed"
  /\ ConnectSocket = FALSE /\ pc = "connect"
  /\ recvbuf = [k \in 1..BufferSize |-> Garbage]
  /\ WriteIndex = 0 /\ RequiredRead = 0 /\ RecvCount = 0
  /\ seen = 0 /\ asserted = FALSE /\ connections = 0

-----------------------------------------------------------------------------
(* The sender and the network                                              *)

\* sendToAll puts a whole packet on the stream: send() on a blocking socket.
SendFrame(len) ==
  /\ link = "up"
  /\ Len(lens) < MaxFrames
  /\ lens' = Append(lens, len)
  /\ wire' = wire \o Frame(Len(lens) + 1, len)
  /\ UNCHANGED <<link, ConnectSocket, connections, receiveVars, pc>>

\* The server closes the session, also with a part of the last packet unsent, or
\* the connection breaks and what was under way is lost.
Disconnect ==
  /\ link = "up"
  /\ \/ /\ link' = "closed"
        /\ \E n \in 0..Len(wire) :
             /\ n > 0 /\ wire[n].place = 0 => SplitHeaders
             /\ wire' = SubSeq(wire, 1, n)
     \/ link' = "broken" /\ wire' = <<>>
  /\ UNCHANGED <<ConnectSocket, connections, senderVars, receiveVars, pc>>

-----------------------------------------------------------------------------
(* The receiver                                                            *)

\* The socket the constructor of ClientNetwork ends with: an answer is no reason to
\* stop, so every address replaces the socket of the one before, and an open one is
\* left to nobody.
SocketAfter(answers) == Last(answers)

\* ListenAndPaint starts over: a new connection, a new buffer.
Connect ==
  /\ pc = "connect"
  /\ connections < MaxConnections
  /\ connections' = connections + 1
  /\ \E answers \in [1..Addresses -> BOOLEAN] : SocketAfter(answers)
  /\ wire' = <<>> /\ link' = "up" /\ ConnectSocket' = TRUE
  /\ recvbuf' = [k \in 1..BufferSize |-> Garbage]
  /\ WriteIndex' = 0
  /\ pc' = "recv"
  /\ UNCHANGED <<senderVars, RequiredRead, RecvCount, seen, asserted>>

\* Without a socket ListenAndPaint returns and is started again.
ConnectFails ==
  /\ pc = "connect"
  /\ connections < MaxConnections
  /\ connections' = connections + 1
  /\ \E answers \in [1..Addresses -> BOOLEAN] : ~SocketAfter(answers)
  /\ UNCHANGED <<wire, link, ConnectSocket, senderVars, receiveVars, pc>>

\* What ph->PacketSize reads as, from the buffer's second unit.
PacketSizes(u) == IF u.place = 1 THEN {lens[u.frame]} ELSE GarbageSizes

\* recv() copies the first n units of the stream behind the WriteIndex.
Received(n) ==
  [k \in 1..BufferSize |-> IF k > WriteIndex /\ k <= WriteIndex + n
                           THEN wire[k - WriteIndex] ELSE recvbuf[k]]

\* ReceivePacketNonBlocking returns count to ListenAndPaint.
Return(count) ==
  /\ RecvCount' = count
  /\ WriteIndex' = 0
  /\ pc' = "paint"

\* Continue that stops one unit early.
ContinueShort(index, required) ==
  IF index + 1 < required /\ index < BufferSize
  THEN WriteIndex' = index /\ UNCHANGED <<RecvCount, pc>>
  ELSE Return(index)

\* The packet goes on while units are missing and the buffer has room.
Continue(index, required) ==
  IF index < required /\ index < BufferSize
  THEN WriteIndex' = index /\ UNCHANGED <<RecvCount, pc>>
  ELSE Return(index)

\* The first recv of a packet asks for a header and takes PacketSize from the
\* buffer, however much of the header has come.
RecvHeader(n) ==
  /\ pc = "recv" /\ ConnectSocket /\ WriteIndex = 0
  /\ n <= Len(wire)
  /\ n < HeaderLen => SplitHeaders
  /\ recvbuf' = Received(n)
  /\ wire' = SubSeq(wire, n + 1, Len(wire))
  /\ RequiredRead' \in PacketSizes(recvbuf'[HeaderLen])
  /\ IF BufferSize < RequiredRead'
     THEN asserted' = TRUE /\ Return(0)
     ELSE asserted' = asserted /\ Continue(n, RequiredRead')
  /\ UNCHANGED <<link, ConnectSocket, connections, senderVars, seen>>

\* Asked without regard to the packet.
AskedAllRoom == BufferSize - WriteIndex

\* Asked that leaves a unit for the next recv.
AskedAllButOne == RequiredRead - WriteIndex - 1

\* What a later recv asks for: what is missing, as far as the buffer has room.
Asked == IF RequiredRead < BufferSize THEN RequiredRead - WriteIndex
                                      ELSE BufferSize - WriteIndex

\* It returns n units of it.
RecvBody(n) ==
  /\ pc = "recv" /\ ConnectSocket /\ WriteIndex > 0
  /\ n <= Len(wire) /\ n <= Asked
  /\ recvbuf' = Received(n)
  /\ wire' = SubSeq(wire, n + 1, Len(wire))
  /\ Continue(WriteIndex + n, RequiredRead)
  /\ UNCHANGED <<link, ConnectSocket, connections, senderVars, RequiredRead,
                 seen, asserted>>

\* The sender closed and everything was received: recv() returns 0.
Ended(socket) ==
  /\ pc = "recv" /\ ConnectSocket
  /\ link = "closed" /\ wire = <<>>
  /\ ConnectSocket' = socket
  /\ Return(0)
  /\ UNCHANGED <<wire, link, connections, senderVars, recvbuf, RequiredRead,
                 seen, asserted>>

\* RecvClosed that leaves the socket open.
RecvClosedKeepsSocket == Ended(TRUE)

\* Then the receiver closes its socket too.
RecvClosed == Ended(FALSE)

\* recv() fails, on a broken connection or on the socket closed before: the frame
\* loop ends and ListenAndPaintSelfRestart starts another.
RecvFailed ==
  /\ pc = "recv"
  /\ ~ConnectSocket \/ link = "broken"
  /\ ConnectSocket' = FALSE
  /\ pc' = "connect"
  /\ RecvCount' = -1
  /\ UNCHANGED <<wire, link, connections, senderVars, recvbuf, WriteIndex,
                 RequiredRead, seen, asserted>>

\* ListenAndPaint decodes and paints whatever the buffer holds; a count of 0 does
\* not stop it.
Paint ==
  /\ pc = "paint"
  /\ pc' = "recv"
  /\ seen' = IF RecvCount > 0 THEN recvbuf[1].frame ELSE seen
  /\ UNCHANGED <<senderVars, linkVars, recvbuf, WriteIndex, RequiredRead,
                 RecvCount, asserted>>

Receiver ==
  \/ Connect \/ ConnectFails
  \/ \E n \in 1..HeaderLen : RecvHeader(n)
  \/ \E n \in 1..BufferSize : RecvBody(n)
  \/ RecvClosed \/ RecvFailed \/ Paint

Next == (\E len \in FrameLens : SendFrame(len)) \/ Disconnect \/ Receiver

Spec == Init /\ [][Next]_vars

\* The receiving thread always runs on; the other side promises nothing.
FairSpec == Spec /\ WF_vars(Receiver)

-----------------------------------------------------------------------------
(* Properties                                                              *)

\* Every variable holds a value of its kind; the write position stays inside the
\* receive buffer.
TypeOK ==
  /\ lens \in Seq(FrameLens)
  /\ wire \in Seq(Units) /\ recvbuf \in [1..BufferSize -> Units]
  /\ link \in {"up", "closed", "broken"}
  /\ pc \in {"connect", "recv", "paint"}
  /\ WriteIndex \in 0..BufferSize /\ RequiredRead \in Int
  /\ RecvCount \in -1..BufferSize
  /\ seen \in 0..Len(lens)
  /\ ConnectSocket \in BOOLEAN /\ asserted \in BOOLEAN
  /\ connections \in Nat

\* The buffer starts with a whole frame.
HoldsFrame(f) ==
  f \in DOMAIN lens /\ \A k \in 1..lens[f] : recvbuf[k] = Unit(f, k - 1)

\* Every packet returned with a positive count is one whole frame, later than all
\* returned before: no frame is cut, merged, repeated or reordered, however
\* the stream is cut into recv() results below the header.
FramesIntact ==
  pc = "paint" /\ RecvCount > 0 =>
    \E f \in (seen + 1)..Len(lens) : RecvCount = lens[f] /\ HoldsFrame(f)

\* A buffer that does not hold a whole frame is painted at most when the
\* connection has just ended, never while it is up.
TornPictureOnlyAtEnd ==
  pc = "paint" /\ ~(\E f \in DOMAIN lens : HoldsFrame(f)) => ~ConnectSocket

\* On one connection no frame is skipped.
NoFrameSkipped ==
  [][seen' # seen => seen' = seen + 1 \/ connections > 1]_vars

\* assert( false ) in ReceivePacketNonBlocking is never reached: no packet
\* announces more than the buffer holds.
AssertHolds == ~asserted

\* What was sent on a connection that stays up is received and painted.
SentIsReceived ==
  (wire # <<>>) ~> (wire = <<>> /\ (pc = "paint" \/ link # "up"))

-----------------------------------------------------------------------------
(* The inductive invariant behind the safety properties, part by part      *)

\* The case in which they hold: no recv cuts a header.
HeadersWhole == ~SplitHeaders

\* A connection is received on as long as it is up, and none has been before the first.
LinkInv ==
  /\ link = "broken" \/ ~ConnectSocket => wire = <<>>
  /\ ~ConnectSocket => link # "up"
  /\ pc = "connect" => ~ConnectSocket
  /\ connections = 0 => lens = <<>> /\ ~ConnectSocket

\* On the wire every unit is followed by the rest of its frame, the last one by the next
\* frame, and whatever was sent on a connection that is up is there to its end.
WireInv ==
  /\ \A i \in DOMAIN wire :
       wire[i].frame \in DOMAIN lens /\ wire[i].place < lens[wire[i].frame]
  /\ \A i, j \in DOMAIN wire :
       i <= j /\ wire[i].place + (j - i) < lens[wire[i].frame] =>
         wire[j] = Unit(wire[i].frame, wire[i].place + (j - i))
  /\ \A i, j \in DOMAIN wire :
       j = i + 1 /\ wire[i].place + 1 = lens[wire[i].frame] =>
         wire[j] = Unit(wire[i].frame + 1, 0)
  /\ link = "up" /\ wire # <<>> =>
       wire[Len(wire)] = Unit(Len(lens), lens[Len(lens)] - 1)

\* The frame after the last one returned, on the first connection; a later one on the
\* others.
IsNext(f) == f > seen /\ (connections <= 1 => f = seen + 1)

\* The wire goes on with unit k of frame f, or is empty because everything sent has been
\* received or the connection is gone.
GoesOnWith(f, k) ==
  IF wire = <<>> THEN link = "up" => f = Len(lens) + 1 /\ k = 0
                 ELSE wire[1] = Unit(f, k)

\* The packet under way is a frame that is received as far as the WriteIndex, and a
\* returned one is a whole frame, unless the stream has ended.
PacketInv ==
  /\ pc = "recv" =>
       \E f \in 1..(Len(lens) + 1) :
         /\ IsNext(f) /\ GoesOnWith(f, WriteIndex)
         /\ WriteIndex > 0 =>
              /\ f \in DOMAIN lens /\ RequiredRead = lens[f] /\ WriteIndex < lens[f]
              /\ \A k \in 1..WriteIndex : recvbuf[k] = Unit(f, k - 1)
  /\ pc = "paint" =>
       /\ WriteIndex = 0
       /\ \/ RecvCount = 0 /\ ~ConnectSocket
          \/ \E f \in DOMAIN lens :
               /\ IsNext(f) /\ RecvCount = lens[f] /\ HoldsFrame(f)
               /\ GoesOnWith(f + 1, 0)

\* All of it.
IInv == TypeOK /\ LinkInv /\ WireInv /\ PacketInv /\ AssertHolds
=============================================================================
