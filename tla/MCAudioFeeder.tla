---------------------------- MODULE MCAudioFeeder -----------------------------
(***************************************************************************)
(* Instance of AudioFeeder for TLC: a ring of three frames of three bytes, *)
(* which the recorder may lap.                                             *)
(***************************************************************************)
EXTENDS AudioFeeder

\* One or two frames per capture packet.
MCStoreSizes == {BlockAlign, 2 * BlockAlign}
=============================================================================
