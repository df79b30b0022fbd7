--------------------------- MODULE MCFrameReceiver ----------------------------
(***************************************************************************)
(* Instances of FrameReceiver for TLC: frames of one to three units of     *)
(* picture; picture bytes read as a size are negative, small, or larger    *)
(* than the buffer.                                                        *)
(***************************************************************************)
EXTENDS FrameReceiver

\* A negative size, small ones, and one larger than the buffer.
MCGarbageSizes == {-1, 1, 3, BufferSize + 1}
=============================================================================
