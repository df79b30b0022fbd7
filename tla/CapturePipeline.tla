--------------------------- MODULE CapturePipeline ---------------------------
(***************************************************************************)
(* A picture on its way from the window that is captured to the window it  *)
(* is painted in: the settings (CaptureSettings), the search of the        *)
(* window, the region (CaptureRegion), capture, resampling, compression    *)
(* and header on the gamer PC, inflation and painting on the encoder PC.   *)
(* The stream between them is the subject of FrameReceiver, the threads    *)
(* and their flag that of GamerLifecycle: here a shutdown finds the        *)
(* capture thread at the head of its loop.  The size of the encoder's      *)
(* window is left out.                                                     *)
(***************************************************************************)
EXTENDS CaptureSettings, CaptureRegion

CONSTANTS
  Gone,         (* the geometry of a closed window                          *)
  NoData,       (* no picture, no packet                                    *)
  Desktop,      (* the window of the whole screen                           *)
  AppWindows,   (* the windows a title can be searched for                  *)
  Titled,       (* [window names -> SUBSET AppWindows]: stristr() finds the name *)
  Geometries,   (* [windows -> the geometries they may have]                *)
  Lines,        (* the lines Config.txt may have                            *)
  MaxLines,     (* bound: lines that set something                          *)
  Forms,        (* what may be entered in the form                          *)
  ScreenBytes,  (* bytes of a pixel of the screen: 2, 3 or 4                *)
  MaxShown      (* the encoder paints no picture of this width or height (2000) *)

ASSUME PipelineAssumption ==
  /\ Desktop \notin AppWindows /\ NULL \notin AppWindows \cup {Desktop}
  /\ DOMAIN Geometries = AppWindows \cup {Desktop}
  /\ Gone \notin Geometries[Desktop]
  /\ ScreenBytes \in 2..4
  /\ MaxLines \in Nat

\* What a line and the fields of the form make of a number.
ASSUME InputAssumption ==
  /\ \A line \in Lines : line.number \in Int
  /\ \A form \in Forms :
       /\ form.StartX \in Int /\ form.StartY \in Int
       /\ form.ForceWidth \in Int /\ form.ForceHeight \in Int
       /\ form.Width \in Int /\ form.Height \in Int

Sizes == [Dims -> Nat]
Size(w, h) == [d \in Dims |-> IF d = "X" THEN w ELSE h]

\* A window is not empty, and its border and what is above it are not negative.
ASSUME GeometryAssumption ==
  \A w \in DOMAIN Geometries : \A g \in Geometries[w] \ {Gone} :
    /\ g.full \in Sizes /\ g.client \in Sizes
    /\ \A d \in Dims : g.full[d] > 0
    /\ BorderWidth(g) >= 0 /\ BorderHeaders(g) >= 0

VARIABLES
  frontEnd,    (* "console" or "form"                                       *)
  read,        (* the lines read so far: history                            *)
  settings,    (* the members of GlobalData                                 *)
  desk,        (* [windows -> geometry or Gone]                             *)
  pc,          (* where the capture thread is                               *)
  WndSrc,      (* the window that is captured                               *)
  given,       (* the settings before and the geometry at the time of their *)
  setup,       (*   adjustment: history                                     *)
  shot,        (* the number of the latest picture, modulo 2                *)
  picture,     (* CapturedScreen: the active picture, until it is sent      *)
  connected,   (* is the encoder connected?                                 *)
  wire,        (* the packets on their way, one at most                     *)
  inflated,    (* ZlibOutputBuffer                                          *)
  first,       (* LoopCounter = 1                                           *)
  painted      (* the pixels in the encoder's window                        *)

settingVars == <<frontEnd, read, settings>>
captureVars == <<pc, WndSrc, given, setup, shot, picture>>
netVars     == <<connected, wire>>
paintVars   == <<inflated, first, painted>>
vars == <<settingVars, desk, captureVars, netVars, paintVars>>

\* Pixels are told apart by the picture they are of and by how many bytes each
\* takes; bytes that were never a picture are Garbage.
Pixels(n, step) == [shot |-> n, step |-> step]
Garbage == Pixels(-1, 0)

Init ==
  /\ frontEnd \in {"console", "form"}
  /\ read = <<>> /\ settings = Cleared
  /\ desk \in {f \in [DOMAIN Geometries -> UNION Range(Geometries)] :
                \A w \in DOMAIN f : f[w] \in Geometries[w]}
  /\ pc = "settings" /\ WndSrc = NULL
  /\ given = Cleared /\ setup = Gone
  /\ shot = 0 /\ picture = NoData
  /\ connected = FALSE /\ wire = <<>>
  /\ inflated = Garbage /\ first = TRUE /\ painted = NoData

-----------------------------------------------------------------------------
(* Settings and start                                                      *)

\* The console reads Config.txt line by line.
ReadLine(line) ==
  /\ frontEnd = "console" /\ pc = "settings"
  /\ Len(read) < MaxLines
  /\ read' = Append(read, line)
  /\ settings' = ConvertLine(settings, line)
  /\ UNCHANGED <<frontEnd, desk, captureVars, netVars, paintVars>>

StartConsole ==
  /\ frontEnd = "console" /\ pc = "settings"
  /\ pc' = "find"
  /\ read' = <<>>
  /\ UNCHANGED <<frontEnd, settings, desk, WndSrc, given, setup, shot, picture, netVars,
                 paintVars>>

\* A shutdown that leaves the window as it is.
SourceKept == WndSrc

\* ShutDownAllDataProcessing forgets the window.
SourceForgotten == NULL

\* The Apply button: the capture thread has ended, the settings are replaced and
\* the thread is started again.
Apply(form) ==
  /\ frontEnd = "form" /\ pc \in {"settings", "loop", "ended"}
  /\ settings' = Entered(settings, form)
  /\ WndSrc' = SourceForgotten
  /\ given' = Cleared /\ setup' = Gone
  /\ pc' = "find"
  /\ UNCHANGED <<frontEnd, read, desk, shot, picture, netVars, paintVars>>

-----------------------------------------------------------------------------
(* The capture thread                                                      *)

Exists(w) == desk[w] # Gone

\* FindWindowWithNameNonThreaded: EnumWindows calls back for one window after the
\* other, and the first whose title has the name in it is taken.  Without a name
\* nothing is searched and WndSrc stays.
Search(name) ==
  LET matches == {w \in AppWindows \cap Titled[name] : Exists(w)}
  IN  IF name = "" THEN {WndSrc}
      ELSE IF matches # {} THEN matches ELSE {NULL}

\* ChosenWindow without the desktop.
FoundWindow(found) == found

\* If the search gives no window the desktop is captured.
ChosenWindow(found) == IF found = NULL THEN Desktop ELSE found

\* A name that was never set is read through a null pointer.
FindSource ==
  /\ pc = "find"
  /\ IF settings["WindowName"] = NULL
     THEN pc' = "crashed" /\ UNCHANGED WndSrc
     ELSE /\ pc' = "region"
          /\ \E found \in Search(settings["WindowName"]) :
               WndSrc' = ChosenWindow(found)
  /\ UNCHANGED <<settingVars, desk, given, setup, shot, picture, netVars,
                 paintVars>>

\* GetWindowRect and GetClientRect: they leave the empty rectangle of the
\* constructor if the window is gone.
Measured(w) == IF Exists(w) THEN desk[w]
               ELSE [full |-> Size(0, 0), client |-> Size(0, 0)]

StartOf(s)  == [d \in Dims |-> IF d = "X" THEN s["StartX"] ELSE s["StartY"]]
ForcedOf(s) == [d \in Dims |-> IF d = "X" THEN s["ForcedWidth"]
                               ELSE s["ForcedHeight"]]

\* The settings are adjusted to the window and written back.
AdjustRegion ==
  /\ pc = "region"
  /\ given' = settings
  /\ setup' = Measured(WndSrc)
  /\ LET border == settings["IncludeWindowBorder"]
         start(d) == AdjustedStart(setup', d, border, StartOf(settings)[d])
         forced(d) == AdjustedForced(setup', d, border, StartOf(settings)[d],
                                     ForcedOf(settings)[d])
     IN  settings' = [settings EXCEPT
           !["StartX"]      = start("X"),  !["StartY"]       = start("Y"),
           !["ForcedWidth"] = forced("X"), !["ForcedHeight"] = forced("Y")]
  /\ pc' = "loop"
  /\ UNCHANGED <<frontEnd, read, desk, WndSrc, shot, picture, netVars, paintVars>>

\* What is copied of the window as it is now, in each dimension.
Lengths ==
  [d \in Dims |-> CapturedLength(desk[WndSrc].full[d], StartOf(settings)[d],
                                 ForcedOf(settings)[d])]

\* A new picture: 32-bit pixels, whatever the screen has.  CreateCompatibleBitmap
\* makes a single monochrome pixel if a length is 0.
Captured(lengths) ==
  LET empty == \E d \in Dims : lengths[d] = 0
      size  == IF empty THEN Size(1, 1) ELSE lengths
  IN  [size |-> size, Stride |-> 4 * size["X"],
       PixelByteCount |-> IF empty THEN 0 ELSE ScreenBytes,
       data |-> Pixels(shot', 4),
       from |-> StartOf(settings), lengths |-> lengths,
       window |-> desk[WndSrc].full]

\* CaptureScreen, with a client: the picture is taken of where the window is now.
CaptureScreen ==
  /\ pc = "loop" /\ connected
  /\ Exists(WndSrc)
  /\ \A d \in Dims : Lengths[d] >= 0
  /\ shot' = 1 - shot
  /\ picture' = Captured(Lengths)
  /\ pc' = "process"
  /\ UNCHANGED <<settingVars, desk, WndSrc, given, setup, netVars, paintVars>>

\* A window that is gone leaves no picture, which ends the thread.
CaptureFails ==
  /\ pc = "loop" /\ connected
  /\ ~Exists(WndSrc)
  /\ pc' = "ended"
  /\ UNCHANGED <<settingVars, desk, WndSrc, given, setup, shot, picture, netVars,
                 paintVars>>

\* No bitmap has a negative length: GetObject fails and leaves the size of the
\* picture undefined.  The model goes no further.
CaptureUndefined ==
  /\ pc = "loop" /\ connected
  /\ Exists(WndSrc)
  /\ \E d \in Dims : Lengths[d] < 0
  /\ pc' = "undefined"
  /\ UNCHANGED <<settingVars, desk, WndSrc, given, setup, shot, picture, netVars,
                 paintVars>>

Resizes == settings["ResizeWidth"] > 0 /\ settings["ResizeHeight"] > 0

\* CScreenImage::Resample: three bytes for every pixel.  The buffer is always a new
\* one, like the CScreenImage.
Resampled(image) ==
  LET size == Size(settings["ResizeWidth"], settings["ResizeHeight"])
  IN  [image EXCEPT !.size = size, !.Stride = 3 * size["X"],
                    !.PixelByteCount = 3, !.data.step = 3]

\* The packet: its header announces the strength of the settings even if the pixels
\* could not be deflated to fewer bytes and are sent as they are.
PacketOf(image, deflated) ==
  [size |-> image.size, Stride |-> image.Stride,
   PixelByteCount |-> image.PixelByteCount,
   CompressionStrength |-> settings["CompressionStrength"],
   deflated |-> deflated, data |-> image.data]

\* Resampling, compression and send() of a picture, unless the client left.
SendPicture ==
  /\ pc = "process"
  /\ wire = <<>>
  /\ LET image == IF Resizes THEN Resampled(picture) ELSE picture
     IN  IF connected
         THEN \E deflated \in IF settings["CompressionStrength"] > 0
                              THEN BOOLEAN ELSE {FALSE} :
                wire' = <<PacketOf(image, deflated)>>
         ELSE UNCHANGED wire
  /\ picture' = NoData
  /\ pc' = "loop"
  /\ UNCHANGED <<settingVars, desk, WndSrc, given, setup, shot, connected,
                 paintVars>>

Worker ==
  \/ FindSource \/ AdjustRegion
  \/ CaptureScreen \/ CaptureFails \/ CaptureUndefined \/ SendPicture

-----------------------------------------------------------------------------
(* The encoder                                                             *)

\* inflate() of pixels that were never deflated fails somewhere: the buffer keeps
\* what it had or gets something else.
Inflate(p) ==
  CASE p.CompressionStrength <= 0 -> {inflated}
    [] p.deflated                 -> {p.data}
    [] OTHER                      -> {inflated, Garbage}

\* PaintStep if the bytes of a pixel were looked at before the strides.
PaintStepByPixel(p) ==
  IF p.PixelByteCount = 3 THEN 3
  ELSE IF p.Stride = 4 * p.size["X"] \/ p.PixelByteCount = 4 THEN 4 ELSE 0

\* As how many bytes PaintToWindow reads a pixel; 0 if it draws nothing.
PaintStep(p) ==
  IF p.Stride = 4 * p.size["X"] \/ p.PixelByteCount = 4 THEN 4
  ELSE IF p.PixelByteCount = 3 THEN 3 ELSE 0

\* One turn of the loop of ListenAndPaint: a packet is received, inflated and painted.
\* The first packet of a connection is only reported, a large picture is skipped.
Paint ==
  /\ wire # <<>>
  /\ wire' = Tail(wire)
  /\ LET packet == Head(wire)
         source == IF packet.CompressionStrength = 0 THEN packet.data ELSE inflated'
     IN  /\ inflated' \in Inflate(packet)
         /\ painted' =
              IF first \/ \E d \in Dims : packet.size[d] >= MaxShown THEN painted
              ELSE Pixels(source.shot, PaintStep(packet))
  /\ first' = FALSE
  /\ UNCHANGED <<settingVars, desk, captureVars, connected>>

\* ListenAndPaint starts over with new buffers and connects.
Connect ==
  /\ ~connected
  /\ connected' = TRUE
  /\ first' = TRUE
  /\ inflated' = Garbage
  /\ UNCHANGED <<settingVars, desk, captureVars, wire, painted>>

-----------------------------------------------------------------------------
(* The environment                                                         *)

\* The connection is lost.  (FrameReceiver has what that does to a packet.)
Disconnect ==
  /\ connected
  /\ connected' = FALSE /\ wire' = <<>>
  /\ UNCHANGED <<settingVars, desk, captureVars, paintVars>>

\* The user of the gamer PC resizes or closes a window.
ChangeWindow(w) ==
  /\ Exists(w)
  /\ \E g \in Geometries[w] : g # desk[w] /\ desk' = [desk EXCEPT ![w] = g]
  /\ UNCHANGED <<settingVars, captureVars, netVars, paintVars>>

Next ==
  \/ \E line \in Lines : ReadLine(line)
  \/ StartConsole
  \/ \E form \in Forms : Apply(form)
  \/ Worker \/ Paint \/ Connect \/ Disconnect
  \/ \E w \in AppWindows : ChangeWindow(w)

Spec == Init /\ [][Next]_vars

-----------------------------------------------------------------------------
(* Properties                                                              *)

PictureType ==
  picture = NoData \/
    /\ picture.size \in Sizes /\ picture.Stride \in Nat
    /\ picture.PixelByteCount \in 0..4
    /\ picture.data \in [shot : {0, 1}, step : {3, 4}]

\* Every variable holds a value its C type and the places it is set at allow.
TypeOK ==
  /\ frontEnd \in {"console", "form"}
  /\ read \in Seq(Lines) /\ Len(read) <= MaxLines
  /\ DOMAIN settings = Members
  /\ \A w \in DOMAIN desk : desk[w] \in Geometries[w]
  /\ pc \in {"settings", "find", "region", "loop", "process", "ended", "crashed",
             "undefined"}
  /\ WndSrc \in AppWindows \cup {Desktop, NULL}
  /\ pc \in {"region", "loop", "process", "ended"} => WndSrc # NULL
  /\ shot \in {0, 1} /\ PictureType
  /\ connected \in BOOLEAN /\ Len(wire) <= 1
  /\ first \in BOOLEAN
  /\ inflated \in [shot : -1..1, step : {0, 3, 4}]
  /\ painted = NoData \/ painted \in [shot : -1..1, step : {0, 3, 4}]

\* The lines whose own key sets a member: what Config.txt means.
LinesFor(member) ==
  {i \in DOMAIN read : read[i].mark # "#" /\ read[i].name \in ToSet(KeyOrder)
                      /\ Member(read[i].name) = member}

\* The line has no key at all, or its own comes first in KeyOrder.
Unambiguous(line) ==
  Words(line) # {} =>
    \E i \in DOMAIN KeyOrder :
      /\ KeyOrder[i] = line.name
      /\ \A j \in 1..(i - 1) : KeyOrder[j] \notin Words(line)

\* After Config.txt is read every member has the value of the last line that names
\* it, or none, whatever the values mention, unless one mentions a key that is
\* looked for earlier than the key of its line.
SettingsAsWritten ==
  frontEnd = "console" /\ pc = "settings" /\ (\A i \in DOMAIN read : Unambiguous(read[i]))
  => \A member \in Members :
       settings[member] =
         IF LinesFor(member) = {} THEN Cleared[member]
         ELSE Converted(member, read[CHOOSE i \in LinesFor(member) :
                                       \A j \in LinesFor(member) : j <= i])

\* Once the window is chosen it is one whose title has the name in it; the desktop
\* only if no name was given or every such window is gone.  It holds over any
\* number of Apply, whatever was captured before.
SourceIsAsked ==
  pc \in {"region", "loop", "process"} =>
    LET name == settings["WindowName"]
    IN  IF WndSrc = Desktop
        THEN name = "" \/ \A w \in AppWindows \cap Titled[name] : ~Exists(w)
        ELSE name # "" /\ WndSrc \in Titled[name]

\* The picture that was just taken lies inside the window in dimension d and is not
\* empty.
InsideWindow(d) ==
  /\ picture.from[d] >= 0 /\ picture.lengths[d] > 0
  /\ picture.from[d] + picture.lengths[d] <= picture.window[d]

\* Nothing was asked for in dimension d but, perhaps, to leave out the border.
WholeAsked(d) ==
  Valid(StartOf(given)[d], setup.full[d]) = 0
    /\ Valid(ForcedOf(given)[d], setup.full[d]) = 0

\* Nothing but the window is captured: settings that are out of range alone or that
\* fit together keep the picture inside the window, also when the window has grown
\* since the settings were adjusted to it; only after it shrank does the picture
\* reach beyond it, and not even then if the whole window is captured.
PictureShowsWindow ==
  pc = "process" =>
    \A d \in Dims :
      LET border == given["IncludeWindowBorder"]
      IN  /\ RegionFits(setup, d, border, StartOf(given)[d], ForcedOf(given)[d])
             /\ picture.window[d] >= setup.full[d] => InsideWindow(d)
          /\ WholeAsked(d) /\ border # 0 =>
             InsideWindow(d) /\ picture.lengths[d] = picture.window[d]

\* What is painted is the picture of the packet it came in, every pixel read as it
\* was written: as captured or resampled, for every depth of the screen, deflated or
\* not.  Excepted are raw pixels that are not announced as such: they did not get
\* smaller, or the strength is negative.
PaintedIsSent ==
  [][wire # <<>> /\ painted' # painted =>
       LET packet == Head(wire)
       IN  \/ painted' = packet.data
           \/ packet.CompressionStrength # 0 /\ ~packet.deflated]_vars
=============================================================================
