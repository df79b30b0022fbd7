----------------------------- MODULE AudioStream ------------------------------
(***************************************************************************)
(* What the sound path promises until its consumer is overrun: the bytes   *)
(* produced are handed over in packets, every byte once, in order, and     *)
(* none before it was produced.  A byte is its position in the stream.     *)
(***************************************************************************)
EXTENDS Integers

VARIABLES
  produced,   (* bytes produced so far                                      *)
  next,       (* the first byte not packed yet                              *)
  out,        (* the packet waiting to be handed over, empty if there is none *)
  overrun     (* has sound been lost?  Then nothing more is promised.       *)

streamVars == <<produced, next, out, overrun>>

Nothing == [k \in {} |-> 0]
Packet(from, n) == [k \in 0..(n - 1) |-> from + k]

InitStream == produced = 0 /\ next = 0 /\ out = Nothing /\ overrun = FALSE

Produce == /\ produced' > produced
           /\ UNCHANGED <<next, out>>

Pack == /\ out = Nothing
        /\ \E n \in 1..(produced - next) :
             /\ out' = Packet(next, n)
             /\ next' = next + n
        /\ UNCHANGED produced

HandOver == /\ out # Nothing
            /\ out' = Nothing
            /\ UNCHANGED <<produced, next>>

NextStream == \/ overrun' = overrun /\ (Produce \/ Pack \/ HandOver)
              \/ overrun' = TRUE

StreamSpec == InitStream /\ [][NextStream]_streamVars
=============================================================================
