---------------------------- MODULE MCAudioPlayer -----------------------------
(***************************************************************************)
(* Instances of AudioPlayer for TLC: a ring of three two-byte frames, a    *)
(* device buffer of two frames, packets of one or two frames.              *)
(***************************************************************************)
EXTENDS AudioPlayer

\* One or two frames per network packet.
MCStoreSizes == {BlockAlign, 2 * BlockAlign}

\* The device has the format of the sound, or a conversion is needed: of float samples
\* to the same, a higher and a lower rate, of integers, of something else.
MCFormats ==
  {[convert |-> c, write |-> 1, read |-> 1] : c \in {"same", "float", "pcm32", "none"}}
    \cup {[convert |-> "float", write |-> w, read |-> 3 - w] : w \in {1, 2}}
=============================================================================
