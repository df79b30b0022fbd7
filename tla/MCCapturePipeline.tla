-------------------------- MODULE MCCapturePipeline --------------------------
(***************************************************************************)
(* Instance of CapturePipeline for TLC: a screen of 5 by 4 pixels and a    *)
(* window with a border of three pixels and a header of one, which may     *)
(* grow, shrink or be closed.                                              *)
(***************************************************************************)
EXTENDS CapturePipeline

CONSTANTS desktop, app

Geometry(w, h, cw, ch) == [full |-> Size(w, h), client |-> Size(cw, ch)]

MCTitled == [name \in {"app", "other"} |-> IF name = "app" THEN {app} ELSE {}]

MCGeometries ==
  (desktop :> {Geometry(5, 4, 5, 4)}) @@
  (app :> {Gone, Geometry(4, 5, 1, 1), Geometry(5, 5, 2, 1)})

Line(mark, name, mentions, text, number) ==
  [mark |-> mark, name |-> name, mentions |-> mentions, text |-> text,
   number |-> number]

\* Settings, a comment of each kind, and a window name that is also a key.
MCLines == {
  Line("", "WindowName", {}, "app", 0),
  Line("", "WindowName", {"CaptureWidth"}, "other", 0),
  Line("", "WindowName", {"ResizeToWidth"}, "other", 0),
  Line("", "WindowName", {}, "", 0),
  Line("#", "CaptureStartX", {}, "9", 9),
  Line("@", "CaptureStartX", {}, "1", 1),
  Line("@", "1280*720*4*20", {}, "73728000", 73728000),
  Line("", "IncludeBorder", {}, "1", 1),
  Line("", "CaptureWidth", {}, "2", 2),
  Line("", "CompresionStrength", {}, "-1", -1),
  Line("", "ReduceColorDepth", {}, "4", 4) }

Form(name, startX, forcedX, border, width, strength) ==
  [WindowName |-> name, StartX |-> startX, StartY |-> 0,
   ForceWidth |-> forcedX, ForceHeight |-> 0, Resize |-> IF width > 0 THEN 1 ELSE 0,
   Width |-> width, Height |-> 1, BPP |-> 2, Compress |-> strength,
   FPS |-> 20, Port |-> "6888", BorderIncl |-> border, AudioEnable |-> FALSE,
   AudioPort |-> "6889"]

\* Starts and sizes that fit, that are out of range and that do not go together,
\* and every way to resample and to compress the whole window.
MCForms ==
  {Form(name, region[1], region[2], border, 0, 0) :
     name \in {"app", ""}, border \in BOOLEAN,
     region \in {<<0, 0>>, <<1, 0>>, <<3, 0>>, <<9, 2>>, <<3, 3>>}}
  \cup {Form("app", 0, 0, TRUE, codec[1], codec[2]) :
           codec \in {<<0, 4>>, <<2, 0>>, <<2, 4>>}}
=============================================================================
