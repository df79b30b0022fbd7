---------------------------- MODULE CaptureRegion -----------------------------
(***************************************************************************)
(* Which part of a window is captured: the adjustment of the settings at   *)
(* the head of ScreenCaptureAndSendThread (DataProcessing.cpp) and the     *)
(* rectangle of CaptureWindowConvert (ScreenCap.cpp).                      *)
(*                                                                         *)
(* A window g has g.full, the size of its rectangle, and g.client, the     *)
(* size of what is inside its borders and headers.                         *)
(***************************************************************************)
EXTENDS Integers

Dims == {"X", "Y"}

BorderWidth(g) == g.full["X"] - g.client["X"]

\* The height of caption and menu.
BorderHeaders(g) == g.full["Y"] - g.client["Y"] - BorderWidth(g)

\* Half the border, with the odd pixel on the left and the top.
HalfBorder(g) == (BorderWidth(g) + 1) \div 2

\* What lies before the client area.
Lead(g, d) == HalfBorder(g) + (IF d = "Y" THEN BorderHeaders(g) ELSE 0)

\* What a removal of the border takes off at the beginning of a dimension.
Removed(g, d, border) == IF border = 0 THEN Lead(g, d) ELSE 0

\* A setting outside the window counts as not set.
Valid(setting, full) == IF setting < 0 \/ setting > full THEN 0 ELSE setting

\* AdjustedLength with the border taken off the length before the start.
AdjustedLengthWhole(g, d, border, start, forced) ==
  LET full == g.full[d]
  IN  IF Valid(forced, full) > 0 THEN Valid(forced, full)
      ELSE full - Removed(g, d, border)

\* Of how many pixels the picture is to be, as it stands after the adjustment.
AdjustedLength(g, d, border, start, forced) ==
  LET full   == g.full[d]
      wanted == IF Valid(forced, full) > 0 THEN Valid(forced, full)
                ELSE full - Valid(start, full) - Removed(g, d, border)
  IN  IF wanted > full THEN full ELSE wanted

\* StartX and StartY after the adjustment.
AdjustedStart(g, d, border, start) ==
  Valid(start, g.full[d]) + Removed(g, d, border)

\* ForcedWidth and ForcedHeight after the adjustment: they are written back unless
\* the whole length of the window is captured.
AdjustedForced(g, d, border, start, forced) ==
  LET length == AdjustedLength(g, d, border, start, forced)
  IN  IF length # g.full[d] THEN length ELSE Valid(forced, g.full[d])

\* The length of the rectangle CaptureWindowConvert copies of a window that has
\* `full` pixels now.
CapturedLength(full, start, forced) == IF forced # 0 THEN forced ELSE full - start

-----------------------------------------------------------------------------
(* When the settings make sense                                            *)

\* The start and the size that were asked for leave something of the window and
\* reach no further than its end.
RegionFits(g, d, border, start, forced) ==
  LET length == IF Valid(forced, g.full[d]) > 0 THEN Valid(forced, g.full[d]) ELSE 1
  IN  AdjustedStart(g, d, border, start) + length <= g.full[d]
=============================================================================
