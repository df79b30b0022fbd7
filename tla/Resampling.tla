------------------------------ MODULE Resampling ------------------------------
(***************************************************************************)
(* The fixed-point resampling of a captured picture (Resampling.cpp): the  *)
(* loops of ResampleRGBLiniar4ByteDownsample, ...4to3ByteDownsample and    *)
(* ...4to5BitsDownsample.  They differ in the bytes of a destination pixel *)
(* and in a colour mask, which is left out.  All numbers are unsigned int. *)
(***************************************************************************)
EXTENDS Integers

CONSTANTS
  FLOAT_PRECISSION,  (* 1 << FLOAT_PRECISSION_BITS, 2^15 in the build         *)
  UIntRange,         (* number of values of an unsigned int: 2^32             *)
  Sizes              (* widths and heights a picture can have                 *)

\* A picture side times FLOAT_PRECISSION is an unsigned int: below 131072 pixels.
ASSUME ResamplingAssumption ==
  /\ FLOAT_PRECISSION \in Nat \ {0}
  /\ UIntRange \in Nat \ {0}
  /\ Sizes \subseteq Nat \ {0}
  /\ \A size \in Sizes : size * FLOAT_PRECISSION < UIntRange

VARIABLES
  SrcW, SrcH, DestW, DestH,
  pixelBytes,   (* bytes of a destination pixel: 4 or 3                       *)
  y, x,         (* the row and the column of the destination                  *)
  stacking_precission_y, stacking_precission_x,
  dst           (* the destination; a byte is the source row, column and      *)
                (* channel it was taken from                                  *)

parameters == <<SrcW, SrcH, DestW, DestH, pixelBytes>>
resamplingVars == <<parameters, y, x, stacking_precission_y, stacking_precission_x, dst>>

UInt(n) == n % UIntRange

Unwritten == [row |-> -1, col |-> -1, channel |-> -1]

ResamplingInit ==
  /\ SrcW \in Sizes /\ SrcH \in Sizes /\ DestW \in Sizes /\ DestH \in Sizes
  /\ pixelBytes \in {3, 4}
  /\ y = 0 /\ x = 0
  /\ stacking_precission_y = 0 /\ stacking_precission_x = 0
  /\ dst = [b \in 0..(DestW * DestH * pixelBytes) |-> Unwritten]

\* The step in the source for one destination pixel, rounded up.
RoundedUpStep(src, dest) ==
  UInt(src * FLOAT_PRECISSION + FLOAT_PRECISSION - 1) \div dest

\* The step in the source for one destination pixel: int_conv_x and int_conv_y.
Step(src, dest) == UInt(src * FLOAT_PRECISSION) \div dest

int_conv_y == Step(SrcH, DestH)
int_conv_x == Step(SrcW, DestW)

converted_row_index == stacking_precission_y \div FLOAT_PRECISSION
converted_col_index == stacking_precission_x \div FLOAT_PRECISSION

\* The destination pixel's place with the rows of the source.
SourcePosition == y * SrcW + x

\* The destination pixel's place in the picture.
Position == y * DestW + x

\* An int of four bytes is written at the pixel's place, also if a pixel has three.
Written ==
  [b \in DOMAIN dst |->
     IF b \in (pixelBytes * Position)..(pixelBytes * Position + 3)
     THEN [row |-> converted_row_index, col |-> converted_col_index,
           channel |-> b - pixelBytes * Position]
     ELSE dst[b]]

\* One turn of the inner loop, and at its end of the outer one.
CopyPixel ==
  /\ y < DestH
  /\ dst' = Written
  /\ IF x + 1 < DestW
     THEN /\ x' = x + 1
          /\ stacking_precission_x' = UInt(stacking_precission_x + int_conv_x)
          /\ UNCHANGED <<y, stacking_precission_y>>
     ELSE /\ x' = 0 /\ y' = y + 1
          /\ stacking_precission_x' = 0
          /\ stacking_precission_y' = UInt(stacking_precission_y + int_conv_y)
  /\ UNCHANGED parameters

ResamplingNext == CopyPixel

ResamplingSpec == ResamplingInit /\ [][ResamplingNext]_resamplingVars

-----------------------------------------------------------------------------
(* Properties                                                              *)

\* Every variable holds a value of its kind.
PictureTypeOK ==
  /\ SrcW \in Sizes /\ SrcH \in Sizes /\ DestW \in Sizes /\ DestH \in Sizes
  /\ pixelBytes \in {3, 4}
  /\ y \in 0..DestH /\ x \in 0..(DestW - 1)
  /\ stacking_precission_y \in 0..(UIntRange - 1)
  /\ stacking_precission_x \in 0..(UIntRange - 1)

\* Every pixel read is a pixel of the source, also when the picture is enlarged;
\* the debug build's assertions allow a row and a column too many.
SourceInRange ==
  y < DestH => converted_row_index < SrcH /\ converted_col_index < SrcW

\* The sums never wrap: they are the products they stand for.
SumsAreProducts ==
  /\ stacking_precission_y = y * int_conv_y
  /\ stacking_precission_x = x * int_conv_x

\* The source row or column a destination row or column i shows lies at i's place
\* in the source, or one before it.
Shows(i, j, src, dest) == j \in {(i * src) \div dest - 1, (i * src) \div dest}

\* Once the loops are done, the bytes of every destination pixel come from one
\* source pixel at its place, channel by channel: the four-byte writes of
\* three-byte pixels leave no trace in their neighbours.
PictureIsScaled ==
  y = DestH =>
    \A i \in 0..(DestH - 1), j \in 0..(DestW - 1), channel \in 0..2 :
      LET byte == dst[pixelBytes * (i * DestW + j) + channel] IN
      /\ byte.channel = channel
      /\ Shows(i, byte.row, SrcH, DestH)
      /\ Shows(j, byte.col, SrcW, DestW)

\* The inductive invariant behind SourceInRange.
ResamplingInv == PictureTypeOK /\ SumsAreProducts
=============================================================================
