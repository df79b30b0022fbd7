------------------------ MODULE CapturePipelineProofs -------------------------
(***************************************************************************)
(* What is captured and what is painted, for every window, every setting   *)
(* and every depth of the screen: SourceIsAsked, PictureShowsWindow and    *)
(* PaintedIsSent; and that the settings are what was written               *)
(* (SettingsAsWritten), with the values all variables keep to (TypeOK).    *)
(*                                                                         *)
(* Three invariants carry them.  The window and the name it was found by   *)
(* stay until the next start (SourceInv); the settings are those the       *)
(* adjustment made of the given ones, and the picture was taken by them    *)
(* (RegionInv); a packet says how its pixels were written (PixelsInv).     *)
(* ValuesInv is what the last two need: the last line that names a member  *)
(* is known after every line read, so no induction over lines is needed.   *)
(***************************************************************************)
EXTENDS CapturePipeline, TLAPS

Numbers == {"StartX", "StartY", "ForcedWidth", "ForcedHeight", "ResizeWidth",
            "ResizeHeight", "IncludeWindowBorder", "CompressionStrength"}

\* The members that hold a number, and the windows.
TypesOK ==
  /\ Numbers \cup {"WindowName"} \subseteq DOMAIN settings
  /\ \A member \in Numbers : settings[member] \in Int
  /\ DOMAIN desk = DOMAIN Geometries
  /\ \A w \in DOMAIN desk : desk[w] \in Geometries[w]

\* A window is kept only while the thread that searched it runs.
SourceInv ==
  /\ pc \in {"settings", "find"} => WndSrc = NULL
  /\ WndSrc \in AppWindows \cup {Desktop, NULL}
  /\ pc \in {"region", "loop", "process"} => WndSrc # NULL
  /\ SourceIsAsked

\* A geometry the adjustment may be made for: that of a window, or nothing.
Measurable(g) ==
  /\ g.full \in Sizes /\ g.client \in Sizes
  /\ BorderWidth(g) >= 0 /\ BorderHeaders(g) >= 0

\* The settings as the adjustment left them.
Adjusted ==
  \A d \in Dims :
    LET border == given["IncludeWindowBorder"]
        start  == StartOf(given)[d]
        forced == ForcedOf(given)[d]
    IN  /\ border \in Int /\ start \in Int /\ forced \in Int
        /\ StartOf(settings)[d]  = AdjustedStart(setup, d, border, start)
        /\ ForcedOf(settings)[d] = AdjustedForced(setup, d, border, start, forced)

RegionInv ==
  /\ pc \in {"loop", "process"} => Measurable(setup) /\ Adjusted
  /\ pc = "process" =>
       /\ picture.window \in Sizes /\ \A d \in Dims : picture.window[d] > 0
       /\ \A d \in Dims :
            /\ picture.from[d] = StartOf(settings)[d]
            /\ picture.lengths[d] = CapturedLength(picture.window[d],
                                      StartOf(settings)[d], ForcedOf(settings)[d])

\* A packet that is painted shows its pixels as they were written.
PacketOK(p) ==
  /\ p.data = Pixels(p.data.shot, PaintStep(p))
  /\ p.CompressionStrength \in Int
  /\ p.deflated => p.CompressionStrength > 0

PictureInv ==
  pc = "process" =>
       /\ picture = [size |-> picture.size, Stride |-> 4 * picture.size["X"],
                     PixelByteCount |-> picture.PixelByteCount,
                     data |-> Pixels(picture.data.shot, 4),
                     from |-> picture.from, lengths |-> picture.lengths,
                     window |-> picture.window]
       /\ picture.size["X"] \in Int

WireInv == wire = <<>> \/ (wire = <<wire[1]>> /\ PacketOK(wire[1]))

PixelsInv == PictureInv /\ WireInv

IInv == TypesOK /\ SourceInv /\ RegionInv /\ PixelsInv

\* The pixels of a picture before it is sent, and of a packet.
WrittenPixels == [shot : {0, 1}, step : {3, 4}]

DataInv ==
  /\ pc = "process" => picture.data \in WrittenPixels
  /\ wire # <<>> => wire[1].data \in WrittenPixels

\* Of the lines read so far that name a member one is the last.
LastLineInv ==
  frontEnd = "console" /\ pc = "settings" =>
    \A member \in Members : LinesFor(member) # {} =>
      \E i \in LinesFor(member) : \A j \in LinesFor(member) : j <= i

\* What is known besides of the values of the variables and of Config.txt.
ValuesInv == TypeOK /\ DataInv /\ LastLineInv /\ SettingsAsWritten

-----------------------------------------------------------------------------
(* The region                                                              *)

\* What the adjustment removes at the beginning is not negative.
LEMMA RemovedNat ==
  ASSUME NEW g, Measurable(g), NEW d \in Dims, NEW border \in Int
  PROVE  Removed(g, d, border) \in Nat
<1>1. BorderWidth(g) \in Nat /\ BorderHeaders(g) \in Nat
  BY DEF Measurable, BorderWidth, BorderHeaders, Sizes, Dims
<1>2. HalfBorder(g) \in Nat
  BY <1>1 DEF HalfBorder
<1> QED BY <1>1, <1>2 DEF Removed, Lead

\* A setting that is valid lies inside the window.
LEMMA ValidFacts ==
  ASSUME NEW full \in Nat, NEW setting \in Int
  PROVE  Valid(setting, full) \in 0..full
BY DEF Valid

\* Settings that fit give a picture inside every window that is not smaller than the
\* one they were adjusted to.
LEMMA RegionInside ==
  ASSUME NEW g, Measurable(g), NEW d \in Dims, NEW border \in Int,
         NEW start \in Int, NEW forced \in Int, NEW window \in Nat,
         RegionFits(g, d, border, start, forced), window >= g.full[d]
  PROVE  LET from   == AdjustedStart(g, d, border, start)
             length == CapturedLength(window, from,
                         AdjustedForced(g, d, border, start, forced))
         IN  from >= 0 /\ length > 0 /\ from + length <= window
<1> DEFINE full    == g.full[d]
           removed == Removed(g, d, border)
           vs      == Valid(start, full)
           vf      == Valid(forced, full)
<1>1. full \in Nat
  BY DEF Measurable, Sizes
<1>2. removed \in Nat /\ vs \in 0..full /\ vf \in 0..full
  BY <1>1, RemovedNat, ValidFacts
<1>3. AdjustedStart(g, d, border, start) = vs + removed
  BY DEF AdjustedStart
<1>4. vs + removed + (IF vf > 0 THEN vf ELSE 1) <= full
  BY <1>3 DEF RegionFits
<1> DEFINE wanted == IF vf > 0 THEN vf ELSE full - vs - removed
<1>5. AdjustedLength(g, d, border, start, forced) = IF wanted > full THEN full ELSE wanted
  BY DEF AdjustedLength
<1>6. AdjustedForced(g, d, border, start, forced)
        = IF AdjustedLength(g, d, border, start, forced) # full
          THEN AdjustedLength(g, d, border, start, forced) ELSE vf
  BY DEF AdjustedForced
<1> HIDE DEF full, removed, vs, vf
<1>7. window >= full /\ window \in Nat
  BY DEF full
<1>8. wanted \in 1..full
  BY <1>1, <1>2, <1>4
<1>9. AdjustedForced(g, d, border, start, forced) = IF wanted # full THEN wanted ELSE vf
  BY <1>1, <1>5, <1>6, <1>8
<1> QED BY <1>1, <1>2, <1>3, <1>4, <1>7, <1>8, <1>9 DEF CapturedLength

\* If nothing was asked for, border included, all of the window is captured.
LEMMA RegionWhole ==
  ASSUME NEW g, Measurable(g), NEW d \in Dims, NEW border \in Int, border # 0,
         NEW start \in Int, NEW forced \in Int, NEW window \in Nat,
         Valid(start, g.full[d]) = 0, Valid(forced, g.full[d]) = 0
  PROVE  LET from == AdjustedStart(g, d, border, start)
         IN  /\ from = 0
             /\ CapturedLength(window, from,
                  AdjustedForced(g, d, border, start, forced)) = window
<1>1. g.full[d] \in Nat
  BY DEF Measurable, Sizes
<1>2. Removed(g, d, border) = 0
  BY DEF Removed
<1>3. AdjustedStart(g, d, border, start) = 0
  BY <1>2 DEF AdjustedStart
<1>4. AdjustedLength(g, d, border, start, forced) = g.full[d]
  BY <1>1, <1>2 DEF AdjustedLength
<1>5. AdjustedForced(g, d, border, start, forced) = 0
  BY <1>4 DEF AdjustedForced
<1> QED BY <1>3, <1>5 DEF CapturedLength

\* A picture the invariant describes shows the window.
LEMMA RegionInvShows == RegionInv => PictureShowsWindow
<1> SUFFICES ASSUME RegionInv, pc = "process", NEW d \in Dims
             PROVE  LET border == given["IncludeWindowBorder"]
                    IN  /\ RegionFits(setup, d, border, StartOf(given)[d], ForcedOf(given)[d])
                             /\ picture.window[d] >= setup.full[d] => InsideWindow(d)
                        /\ WholeAsked(d) /\ border # 0 =>
                             InsideWindow(d) /\ picture.lengths[d] = picture.window[d]
  BY DEF PictureShowsWindow
<1> DEFINE border == given["IncludeWindowBorder"]
           start  == StartOf(given)[d]
           forced == ForcedOf(given)[d]
           window == picture.window[d]
           from   == AdjustedStart(setup, d, border, start)
           length == CapturedLength(window, from,
                       AdjustedForced(setup, d, border, start, forced))
<1>1. Measurable(setup) /\ border \in Int /\ start \in Int /\ forced \in Int
  BY DEF RegionInv, Adjusted
<1>2. window \in Nat /\ window > 0
  BY DEF RegionInv, Sizes
<1>3. picture.from[d] = from /\ picture.lengths[d] = length
  BY DEF RegionInv, Adjusted
<1>4. ASSUME RegionFits(setup, d, border, start, forced), window >= setup.full[d]
      PROVE  InsideWindow(d)
  <2>1. from >= 0 /\ length > 0 /\ from + length <= window
    BY <1>1, <1>2, <1>4, RegionInside
  <2> QED BY <1>3, <2>1 DEF InsideWindow
<1>5. ASSUME WholeAsked(d), border # 0
      PROVE  InsideWindow(d) /\ picture.lengths[d] = window
  <2>1. from = 0 /\ length = window
    BY <1>1, <1>2, <1>5, RegionWhole DEF WholeAsked
  <2> QED BY <1>2, <1>3, <2>1 DEF InsideWindow
<1> QED BY <1>4, <1>5

-----------------------------------------------------------------------------
(* Settings and windows                                                    *)

\* The keys exist, whatever Config.txt has.
LEMMA ClearedFacts ==
  /\ Numbers \cup {"WindowName"} \subseteq DOMAIN Cleared
  /\ \A member \in Numbers : Cleared[member] = 0
<1>1. \A i \in DOMAIN KeyOrder : Member(KeyOrder[i]) \in Members
  BY DEF Members, ToSet
<1>2. DOMAIN KeyOrder = 1..20
  BY DEF KeyOrder
<1>3. /\ KeyOrder[1] = "ResizeToWidth" /\ KeyOrder[2] = "ResizeToHeight"
      /\ KeyOrder[3] = "WindowName" /\ KeyOrder[4] = "IncludeBorder"
      /\ KeyOrder[5] = "CaptureStartX" /\ KeyOrder[6] = "CaptureStartY"
      /\ KeyOrder[7] = "CaptureWidth" /\ KeyOrder[8] = "CaptureHeight"
      /\ KeyOrder[10] = "CompresionStrength"
  BY DEF KeyOrder
<1>4. /\ Member("ResizeToWidth") = "ResizeWidth"
      /\ Member("ResizeToHeight") = "ResizeHeight"
      /\ Member("WindowName") = "WindowName"
      /\ Member("IncludeBorder") = "IncludeWindowBorder"
      /\ Member("CaptureStartX") = "StartX" /\ Member("CaptureStartY") = "StartY"
      /\ Member("CaptureWidth") = "ForcedWidth"
      /\ Member("CaptureHeight") = "ForcedHeight"
      /\ Member("CompresionStrength") = "CompressionStrength"
  BY DEF Member
<1>5. Numbers \cup {"WindowName"} \subseteq Members
  <2>1. /\ Member(KeyOrder[1]) \in Members /\ Member(KeyOrder[2]) \in Members
        /\ Member(KeyOrder[3]) \in Members /\ Member(KeyOrder[4]) \in Members
        /\ Member(KeyOrder[5]) \in Members /\ Member(KeyOrder[6]) \in Members
        /\ Member(KeyOrder[7]) \in Members /\ Member(KeyOrder[8]) \in Members
        /\ Member(KeyOrder[10]) \in Members
    BY <1>1, <1>2
  <2> QED BY <1>3, <1>4, <2>1 DEF Numbers
<1> QED BY <1>5 DEF Cleared, Numbers, Texts

\* A line sets a number to a number.
LEMMA ConvertLineFacts ==
  ASSUME NEW old, Numbers \cup {"WindowName"} \subseteq DOMAIN old,
         \A member \in Numbers : old[member] \in Int,
         NEW line, line.number \in Int
  PROVE  LET new == ConvertLine(old, line)
         IN  /\ Numbers \cup {"WindowName"} \subseteq DOMAIN new
             /\ \A member \in Numbers : new[member] \in Int
<1>1. \A member \in Numbers : Converted(member, line) \in Int
  BY DEF Converted, Numbers, Texts, MaskOfOption
<1> DEFINE key == Member(FoundKey(Words(line)))
<1>2. \/ ConvertLine(old, line) = old
      \/ ConvertLine(old, line) = [old EXCEPT ![key] = Converted(key, line)]
  BY DEF ConvertLine
<1> HIDE DEF key
<1> QED BY <1>1, <1>2

\* What is entered in the form.
LEMMA EnteredFacts ==
  ASSUME NEW old, Numbers \cup {"WindowName"} \subseteq DOMAIN old, NEW form \in Forms
  PROVE  LET new == Entered(old, form)
         IN  /\ Numbers \cup {"WindowName"} \subseteq DOMAIN new
             /\ \A member \in Numbers : new[member] \in Int
<1> DEFINE new == Entered(old, form)
<1>1. DOMAIN new = DOMAIN old
  BY DEF Entered
<1>2. /\ new["StartX"] = form.StartX /\ new["StartY"] = form.StartY
      /\ new["ForcedWidth"] = form.ForceWidth /\ new["ForcedHeight"] = form.ForceHeight
      /\ new["ResizeWidth"] = IF form.Resize = 1 THEN form.Width ELSE -1
      /\ new["ResizeHeight"] = IF form.Resize = 1 THEN form.Height ELSE -1
      /\ new["IncludeWindowBorder"] = IF form.BorderIncl THEN 1 ELSE 0
      /\ new["CompressionStrength"] = StrengthOfIndex(form.Compress)
  BY DEF Entered, Numbers
<1>3. StrengthOfIndex(form.Compress) \in Int
  BY DEF StrengthOfIndex
<1> HIDE DEF new
<1>4. \A member \in Numbers : new[member] \in Int
  BY <1>2, <1>3, InputAssumption DEF Numbers
<1> QED BY <1>1, <1>4 DEF new

\* The geometry the adjustment starts from.
LEMMA MeasuredFacts ==
  ASSUME TypesOK, NEW w \in AppWindows \cup {Desktop}
  PROVE  /\ Measurable(Measured(w))
         /\ Exists(w) => desk[w].full \in Sizes /\ \A d \in Dims : desk[w].full[d] > 0
<1>1. w \in DOMAIN Geometries /\ desk[w] \in Geometries[w]
  BY PipelineAssumption DEF TypesOK
<1>2. CASE Exists(w)
  <2>1. desk[w] \in Geometries[w] \ {Gone}
    BY <1>1, <1>2 DEF Exists
  <2> QED BY <1>1, <1>2, <2>1, GeometryAssumption DEF Measurable, Measured
<1>3. CASE ~Exists(w)
  BY <1>3 DEF Measurable, Measured, Size, Sizes, Dims, BorderWidth, BorderHeaders
<1> QED BY <1>2, <1>3

-----------------------------------------------------------------------------
(* The steps                                                               *)

\* What the worker of the next steps has in common.
LEMMA AdjustedNumbers ==
  ASSUME NEW g, Measurable(g), NEW d \in Dims, NEW border \in Int,
         NEW start \in Int, NEW forced \in Int
  PROVE  /\ AdjustedStart(g, d, border, start) \in Int
         /\ AdjustedForced(g, d, border, start, forced) \in Int
<1>1. g.full[d] \in Nat
  BY DEF Measurable, Sizes
<1>2. /\ Valid(start, g.full[d]) \in Int /\ Valid(forced, g.full[d]) \in Int
      /\ Removed(g, d, border) \in Int
  <2>1. Valid(start, g.full[d]) \in Int /\ Valid(forced, g.full[d]) \in Int
    BY <1>1 DEF Valid
  <2>2. Removed(g, d, border) \in Nat
    BY RemovedNat
  <2> QED BY <2>1, <2>2
<1>3. AdjustedLength(g, d, border, start, forced) \in Int
  BY <1>1, <1>2 DEF AdjustedLength
<1> QED BY <1>2, <1>3 DEF AdjustedStart, AdjustedForced

\* The adjustment sets the region to what it made of the settings, and nothing else.
LEMMA AdjustRegionFacts ==
  ASSUME IInv, AdjustRegion
  PROVE  /\ TypesOK' /\ Measurable(setup') /\ Adjusted'
         /\ settings'["WindowName"] = settings["WindowName"]
<1> DEFINE border == settings["IncludeWindowBorder"]
           from(d) == AdjustedStart(setup', d, border, StartOf(settings)[d])
           size(d) == AdjustedForced(setup', d, border, StartOf(settings)[d],
                                     ForcedOf(settings)[d])
<1>1. given' = settings /\ setup' = Measured(WndSrc) /\ UNCHANGED desk
  BY DEF AdjustRegion
<1>2. Measurable(setup')
  <2>1. WndSrc \in AppWindows \cup {Desktop}
    BY DEF IInv, SourceInv, AdjustRegion
  <2> QED BY <1>1, <2>1, MeasuredFacts DEF IInv
<1>3. settings' = [settings EXCEPT !["StartX"] = from("X"), !["StartY"] = from("Y"),
                     !["ForcedWidth"] = size("X"), !["ForcedHeight"] = size("Y")]
  BY DEF AdjustRegion
<1>4. "X" \in Dims /\ "Y" \in Dims /\ \A d \in Dims : d = "X" \/ d = "Y"
  BY DEF Dims
<1>5. /\ border \in Int
      /\ \A d \in Dims : StartOf(settings)[d] \in Int /\ ForcedOf(settings)[d] \in Int
  BY <1>4 DEF IInv, TypesOK, Numbers, StartOf, ForcedOf
<1>6. \A d \in Dims : from(d) \in Int /\ size(d) \in Int
  BY <1>2, <1>5, AdjustedNumbers
<1> HIDE DEF from, size
<1>7. /\ settings'["StartX"] = from("X") /\ settings'["StartY"] = from("Y")
      /\ settings'["ForcedWidth"] = size("X") /\ settings'["ForcedHeight"] = size("Y")
      /\ DOMAIN settings' = DOMAIN settings
      /\ \A member \in DOMAIN settings :
           member \notin {"StartX", "StartY", "ForcedWidth", "ForcedHeight"}
           => settings'[member] = settings[member]
  BY <1>3 DEF IInv, TypesOK, Numbers
<1>8. TypesOK'
  <2>1. \A member \in Numbers : settings'[member] \in Int
    BY <1>4, <1>6, <1>7 DEF IInv, TypesOK, Numbers
  <2> QED BY <1>1, <1>7, <2>1 DEF IInv, TypesOK
<1>9. Adjusted'
  <2>1. \A d \in Dims : StartOf(settings')[d] = from(d) /\ ForcedOf(settings')[d] = size(d)
    BY <1>4, <1>7 DEF StartOf, ForcedOf
  <2> QED BY <1>1, <1>5, <2>1 DEF Adjusted, from, size
<1>10. settings'["WindowName"] = settings["WindowName"]
  BY <1>7 DEF IInv, TypesOK
<1> QED BY <1>2, <1>8, <1>9, <1>10

\* Nobody but the adjustment, Config.txt and the form changes the settings.
LEMMA TypesStep ==
  ASSUME IInv, [Next]_vars
  PROVE  TypesOK'
<1>1. ASSUME NEW line \in Lines, ReadLine(line) PROVE TypesOK'
  <2>1. settings' = ConvertLine(settings, line) /\ UNCHANGED desk
    BY <1>1 DEF ReadLine
  <2>2. /\ Numbers \cup {"WindowName"} \subseteq DOMAIN settings'
        /\ \A member \in Numbers : settings'[member] \in Int
    BY <2>1, InputAssumption, ConvertLineFacts DEF IInv, TypesOK
  <2> QED BY <2>1, <2>2 DEF IInv, TypesOK
<1>2. ASSUME NEW form \in Forms, Apply(form) PROVE TypesOK'
  <2>1. settings' = Entered(settings, form) /\ UNCHANGED desk
    BY <1>2 DEF Apply
  <2>2. /\ Numbers \cup {"WindowName"} \subseteq DOMAIN settings'
        /\ \A member \in Numbers : settings'[member] \in Int
    BY <2>1, EnteredFacts DEF IInv, TypesOK
  <2> QED BY <2>1, <2>2 DEF IInv, TypesOK
<1>3. ASSUME NEW w \in AppWindows, ChangeWindow(w) PROVE TypesOK'
  BY <1>3 DEF ChangeWindow, settingVars, IInv, TypesOK
<1>4. CASE AdjustRegion
  BY <1>4, AdjustRegionFacts
<1>5. CASE UNCHANGED <<settings, desk>>
  BY <1>5 DEF IInv, TypesOK
<1>6. StartConsole \/ FindSource \/ CaptureScreen \/ CaptureFails \/ CaptureUndefined
        \/ SendPicture \/ Paint \/ Connect \/ Disconnect \/ UNCHANGED vars
      => UNCHANGED <<settings, desk>>
  BY DEF StartConsole, FindSource, CaptureScreen, CaptureFails, CaptureUndefined,
         SendPicture, Paint, Connect, Disconnect, vars, settingVars, captureVars
<1> QED BY <1>1, <1>2, <1>3, <1>4, <1>5, <1>6 DEF Next, Worker

\* The search gives a window that was asked for.
LEMMA FindSourceStep ==
  ASSUME IInv, FindSource
  PROVE  SourceInv'
<1> DEFINE name == settings["WindowName"]
<1>1. WndSrc = NULL /\ UNCHANGED <<settings, desk>>
  BY DEF FindSource, settingVars, IInv, SourceInv
<1>2. CASE name = NULL
  BY <1>1, <1>2 DEF FindSource, SourceInv, SourceIsAsked
<1>3. CASE name # NULL
  <2>1. PICK found \in Search(name) : WndSrc' = ChosenWindow(found)
    BY <1>3 DEF FindSource
  <2>2. pc' = "region"
    BY <1>3 DEF FindSource
  <2> DEFINE matches == {w \in AppWindows \cap Titled[name] : Exists(w)}
  <2>3. CASE name = ""
    <3>1. WndSrc' = Desktop
      BY <1>1, <2>1, <2>3 DEF Search, ChosenWindow
    <3> QED BY <1>1, <2>2, <2>3, <3>1, PipelineAssumption
            DEF SourceInv, SourceIsAsked
  <2>4. CASE name # "" /\ matches # {}
    <3>1. WndSrc' \in AppWindows \cap Titled[name]
      BY <2>1, <2>4, PipelineAssumption DEF Search, ChosenWindow
    <3> QED BY <1>1, <2>2, <2>4, <3>1, PipelineAssumption DEF SourceInv, SourceIsAsked
  <2>5. CASE name # "" /\ matches = {}
    <3>1. WndSrc' = Desktop
      BY <2>1, <2>5 DEF Search, ChosenWindow
    <3>2. \A w \in AppWindows \cap Titled[name] : ~Exists(w)
      BY <2>5
    <3> QED BY <1>1, <2>2, <2>5, <3>1, <3>2, PipelineAssumption
            DEF SourceInv, SourceIsAsked, Exists
  <2> QED BY <2>3, <2>4, <2>5
<1> QED BY <1>2, <1>3

\* The window stays until the next start, and so does the name it was found by.
LEMMA SourceStep ==
  ASSUME IInv, [Next]_vars
  PROVE  SourceInv'
<1> USE DEF IInv, SourceInv
<1>1. ASSUME NEW line \in Lines, ReadLine(line) PROVE SourceInv'
  BY <1>1 DEF ReadLine, captureVars, SourceIsAsked
<1>2. ASSUME NEW form \in Forms, Apply(form) PROVE SourceInv'
  BY <1>2 DEF Apply, SourceForgotten, SourceIsAsked
<1>3. CASE StartConsole
  BY <1>3 DEF StartConsole, SourceIsAsked
<1>4. CASE FindSource
  BY <1>4, FindSourceStep
<1>5. CASE AdjustRegion
  <2>1. settings'["WindowName"] = settings["WindowName"]
    BY <1>5, AdjustRegionFacts
  <2> QED BY <1>5, <2>1 DEF AdjustRegion, SourceIsAsked, Exists
<1>6. CASE CaptureScreen \/ CaptureFails \/ CaptureUndefined \/ SendPicture
  <2>1. /\ UNCHANGED <<settings, desk, WndSrc>>
        /\ pc \in {"loop", "process"} /\ pc' \notin {"settings", "find", "region"}
    BY <1>6 DEF CaptureScreen, CaptureFails, CaptureUndefined, SendPicture, settingVars
  <2> QED BY <2>1 DEF SourceIsAsked, Exists
<1>7. CASE Paint \/ Connect \/ Disconnect \/ UNCHANGED vars
  <2>1. UNCHANGED <<settings, desk, WndSrc, pc>>
    BY <1>7 DEF Paint, Connect, Disconnect, vars, settingVars, captureVars
  <2> QED BY <2>1 DEF SourceIsAsked, Exists
<1>8. ASSUME NEW w \in AppWindows, ChangeWindow(w) PROVE SourceInv'
  <2>1. UNCHANGED <<settings, WndSrc, pc>>
    BY <1>8 DEF ChangeWindow, settingVars, captureVars
  <2>2. \A other : ~Exists(other) => ~Exists(other)'
    BY <1>8 DEF ChangeWindow, Exists
  <2> QED BY <2>1, <2>2 DEF SourceIsAsked
<1> QED BY <1>1, <1>2, <1>3, <1>4, <1>5, <1>6, <1>7, <1>8 DEF Next, Worker

\* Between the adjustment and the next start the region stays; a picture is taken
\* by it.
LEMMA RegionStep ==
  ASSUME IInv, [Next]_vars
  PROVE  RegionInv'
<1>1. CASE pc' \notin {"loop", "process"}
  BY <1>1 DEF RegionInv
<1>2. CASE AdjustRegion
  <2>1. pc' = "loop"
    BY <1>2 DEF AdjustRegion
  <2> QED BY <1>2, <2>1, AdjustRegionFacts DEF RegionInv
<1>3. CASE CaptureScreen
  <2>1. /\ UNCHANGED <<settings, given, setup, desk>>
        /\ pc = "loop" /\ Exists(WndSrc)
        /\ picture'.from = StartOf(settings) /\ picture'.lengths = Lengths
        /\ picture'.window = desk[WndSrc].full
    BY <1>3 DEF CaptureScreen, Captured, settingVars
  <2>2. Measurable(setup') /\ Adjusted'
    BY <2>1 DEF IInv, RegionInv, Adjusted, StartOf, ForcedOf
  <2>3. WndSrc \in AppWindows \cup {Desktop}
    BY <2>1 DEF IInv, SourceInv
  <2>4. picture'.window \in Sizes /\ \A d \in Dims : picture'.window[d] > 0
    BY <2>1, <2>3, MeasuredFacts DEF IInv
  <2>5. \A d \in Dims : picture'.lengths[d] = CapturedLength(picture'.window[d],
                                    StartOf(settings)[d], ForcedOf(settings)[d])
    BY <2>1 DEF Lengths
  <2>6. StartOf(settings') = StartOf(settings) /\ ForcedOf(settings') = ForcedOf(settings)
    BY <2>1
  <2> QED BY <2>1, <2>2, <2>4, <2>5, <2>6 DEF RegionInv
<1>4. ASSUME UNCHANGED <<settings, given, setup>>, pc \in {"loop", "process"},
             pc' = "loop" \/ (pc' = pc /\ UNCHANGED picture)
      PROVE  RegionInv'
  <2>1. Adjusted' = Adjusted /\ StartOf(settings') = StartOf(settings)
          /\ ForcedOf(settings') = ForcedOf(settings)
    BY <1>4 DEF Adjusted, StartOf, ForcedOf
  <2> QED BY <1>4, <2>1 DEF IInv, RegionInv
<1>5. CASE SendPicture
  BY <1>4, <1>5 DEF SendPicture, settingVars
<1>6. CASE Paint \/ Connect \/ Disconnect \/ UNCHANGED vars
             \/ \E w \in AppWindows : ChangeWindow(w)
  <2>1. UNCHANGED <<settings, given, setup, pc, picture>>
    BY <1>6 DEF Paint, Connect, Disconnect, ChangeWindow, vars, settingVars, captureVars
  <2> QED BY <1>1, <1>4, <2>1
<1>7. (\E line \in Lines : ReadLine(line)) \/ StartConsole
        \/ (\E form \in Forms : Apply(form)) \/ FindSource \/ CaptureFails
        \/ CaptureUndefined
      => pc' \notin {"loop", "process"}
  BY DEF ReadLine, StartConsole, Apply, FindSource, CaptureFails, CaptureUndefined,
         captureVars
<1> QED BY <1>1, <1>2, <1>3, <1>5, <1>6, <1>7 DEF Next, Worker

\* A resampled picture, and one that was not, is painted as it was written.
LEMMA PacketIsOK ==
  ASSUME IInv, pc = "process", NEW deflated \in BOOLEAN,
         deflated => settings["CompressionStrength"] > 0
  PROVE  PacketOK(PacketOf(IF Resizes THEN Resampled(picture) ELSE picture, deflated))
<1> DEFINE image  == IF Resizes THEN Resampled(picture) ELSE picture
           packet == PacketOf(image, deflated)
<1>1. /\ packet.data = image.data /\ packet.size = image.size
      /\ packet.Stride = image.Stride /\ packet.PixelByteCount = image.PixelByteCount
      /\ packet.CompressionStrength = settings["CompressionStrength"]
      /\ packet.deflated = deflated
  BY DEF PacketOf
<1>2. settings["CompressionStrength"] \in Int
  BY DEF IInv, TypesOK, Numbers
<1>3. CASE Resizes
  <2>1. settings["ResizeWidth"] \in Int /\ settings["ResizeWidth"] > 0
    BY <1>3 DEF Resizes, IInv, TypesOK, Numbers
  <2>2. image = Resampled(picture)
    BY <1>3
  <2>3. /\ image.size["X"] = settings["ResizeWidth"]
        /\ image.Stride = 3 * settings["ResizeWidth"] /\ image.PixelByteCount = 3
        /\ image.data = Pixels(picture.data.shot, 3)
    <3>1. /\ picture = [size |-> picture.size, Stride |-> 4 * picture.size["X"],
                     PixelByteCount |-> picture.PixelByteCount,
                     data |-> Pixels(picture.data.shot, 4),
                     from |-> picture.from, lengths |-> picture.lengths,
                     window |-> picture.window]
      BY DEF IInv, PixelsInv, PictureInv
    <3>2. picture.data = [shot |-> picture.data.shot, step |-> 4]
      BY <3>1 DEF Pixels
    <3> HIDE DEF image
    <3> QED BY <2>2, <3>1, <3>2 DEF Resampled, Pixels, Size, Dims
  <2> HIDE DEF image, packet
  <2>4. PaintStep(packet) = 3
    BY <1>1, <2>1, <2>3 DEF PaintStep
  <2>5. packet.data.shot = picture.data.shot
    BY <1>1, <2>3 DEF Pixels
  <2> QED BY <1>1, <1>2, <2>3, <2>4, <2>5 DEF PacketOK, packet, image
<1>4. CASE ~Resizes
  <2>1. image = picture
    BY <1>4
  <2>2. /\ picture.Stride = 4 * picture.size["X"]
        /\ picture.data = Pixels(picture.data.shot, 4)
    BY DEF IInv, PixelsInv, PictureInv
  <2> HIDE DEF image, packet
  <2>3. PaintStep(packet) = 4
    BY <1>1, <2>1, <2>2 DEF PaintStep
  <2> QED BY <1>1, <1>2, <2>1, <2>2, <2>3 DEF PacketOK, packet, image
<1> QED BY <1>3, <1>4

\* Packets are made of pictures and of nothing else.
LEMMA PixelsStep ==
  ASSUME IInv, [Next]_vars
  PROVE  PixelsInv'
<1>1. CASE CaptureScreen
  <2>1. pc' = "process" /\ picture' = Captured(Lengths) /\ UNCHANGED <<wire, settings, desk, WndSrc>>
    BY <1>1 DEF CaptureScreen, netVars, settingVars
  <2>2. Lengths["X"] \in Int
    <3>1. WndSrc \in AppWindows \cup {Desktop} /\ Exists(WndSrc)
      BY <1>1 DEF CaptureScreen, IInv, SourceInv
    <3>2. desk[WndSrc].full["X"] \in Int
      BY <3>1, MeasuredFacts DEF IInv, Sizes, Dims
    <3>3. settings["StartX"] \in Int /\ settings["ForcedWidth"] \in Int
      BY DEF IInv, TypesOK, Numbers
    <3> QED BY <3>2, <3>3 DEF Lengths, CapturedLength, StartOf, ForcedOf, Dims
  <2> DEFINE size == IF \E d \in Dims : Lengths[d] = 0 THEN Size(1, 1) ELSE Lengths
  <2>3. size["X"] \in Int
    BY <2>2 DEF Size, Dims
  <2>4. /\ picture' = [size |-> size, Stride |-> 4 * size["X"],
                       PixelByteCount |-> picture'.PixelByteCount,
                       data |-> Pixels(shot', 4),
                       from |-> picture'.from, lengths |-> picture'.lengths,
                       window |-> picture'.window]
    BY <2>1 DEF Captured
  <2> HIDE DEF size
  <2>5. picture'.data.shot = shot' /\ picture'.size = size
    BY <2>4 DEF Pixels
  <2>6. PictureInv'
    BY <2>3, <2>4, <2>5 DEF PictureInv
  <2>7. WireInv'
    BY <2>1 DEF IInv, PixelsInv, WireInv, PacketOK, PaintStep
  <2> QED BY <2>6, <2>7 DEF PixelsInv
<1>2. CASE SendPicture
  <2> DEFINE image == IF Resizes THEN Resampled(picture) ELSE picture
  <2>1. pc = "process" /\ pc' = "loop" /\ wire = <<>>
    BY <1>2 DEF SendPicture
  <2>2. CASE ~connected
    BY <1>2, <2>1, <2>2 DEF SendPicture, PixelsInv, PictureInv, WireInv
  <2>3. CASE connected
    <3>1. PICK deflated \in IF settings["CompressionStrength"] > 0 THEN BOOLEAN ELSE {FALSE} :
                 wire' = <<PacketOf(image, deflated)>>
      BY <1>2, <2>3 DEF SendPicture
    <3>2. deflated \in BOOLEAN /\ (deflated => settings["CompressionStrength"] > 0)
      BY <3>1
    <3>3. PacketOK(PacketOf(image, deflated))
      BY <2>1, <3>2, PacketIsOK
    <3>4. wire' = <<wire'[1]>> /\ wire'[1] = PacketOf(image, deflated)
      BY <3>1
    <3> HIDE DEF image
    <3>5. PacketOK(wire'[1])
      BY <3>3, <3>4
    <3>6. WireInv'
      BY <3>4, <3>5 DEF WireInv, PacketOK, PaintStep
    <3> QED BY <2>1, <3>6 DEF PixelsInv, PictureInv
  <2> QED BY <2>2, <2>3
<1>3. CASE Paint \/ Disconnect
  <2>1. wire' = <<>>
    <3>1. CASE Disconnect
      BY <3>1 DEF Disconnect
    <3>2. CASE Paint
      <4>1. wire # <<>> /\ wire' = Tail(wire)
        BY <3>2 DEF Paint
      <4>2. wire = <<wire[1]>>
        BY <4>1 DEF IInv, PixelsInv, WireInv
      <4>3. Tail(<<wire[1]>>) = <<>>
        OBVIOUS
      <4> QED BY <4>1, <4>2, <4>3
    <3> QED BY <1>3, <3>1, <3>2
  <2>2. PictureInv'
    <3>1. UNCHANGED <<pc, picture>>
      BY <1>3 DEF Paint, Disconnect, captureVars
    <3> QED BY <3>1 DEF IInv, PixelsInv, PictureInv
  <2>3. WireInv'
    BY <2>1 DEF WireInv
  <2> QED BY <2>2, <2>3 DEF PixelsInv
<1>4. ASSUME UNCHANGED wire, pc' # "process" \/ UNCHANGED <<pc, picture>>
      PROVE  PixelsInv'
  BY <1>4 DEF IInv, PixelsInv, PictureInv, WireInv, PacketOK, PaintStep
<1>5. (\E line \in Lines : ReadLine(line)) \/ StartConsole
        \/ (\E form \in Forms : Apply(form)) \/ FindSource \/ AdjustRegion
        \/ CaptureFails \/ CaptureUndefined
        \/ Connect \/ UNCHANGED vars \/ (\E w \in AppWindows : ChangeWindow(w))
      => UNCHANGED wire /\ (pc' # "process" \/ UNCHANGED <<pc, picture>>)
  BY DEF ReadLine, StartConsole, Apply, FindSource, AdjustRegion, CaptureFails,
         CaptureUndefined, Connect, ChangeWindow, vars, captureVars, netVars
<1> QED BY <1>1, <1>2, <1>3, <1>4, <1>5 DEF Next, Worker

-----------------------------------------------------------------------------
(* Config.txt                                                              *)

\* A line whose own key is looked for first sets the member of that key.
LEMMA OwnKeyIsFound ==
  ASSUME NEW line, Unambiguous(line), Words(line) # {}
  PROVE  /\ FoundKey(Words(line)) = line.name
         /\ line.name \in ToSet(KeyOrder)
<1>1. PICK i \in DOMAIN KeyOrder :
        KeyOrder[i] = line.name /\ \A j \in 1..(i - 1) : KeyOrder[j] \notin Words(line)
  BY DEF Unambiguous
<1>2. DOMAIN KeyOrder = 1..20
  BY DEF KeyOrder
<1>3. line.name \in ToSet(KeyOrder)
  BY <1>1 DEF ToSet
<1>4. KeyOrder[i] \in Words(line)
  BY <1>1, <1>3 DEF Words
<1> DEFINE IsFirst(k) == /\ KeyOrder[k] \in Words(line)
                         /\ \A j \in DOMAIN KeyOrder : KeyOrder[j] \in Words(line) => k <= j
<1>5. \A j \in DOMAIN KeyOrder : KeyOrder[j] \in Words(line) => i <= j
  <2> SUFFICES ASSUME NEW j \in 1..20, KeyOrder[j] \in Words(line) PROVE i <= j
    BY <1>2
  <2>1. j \notin 1..(i - 1)
    BY <1>1
  <2> QED BY <1>2, <2>1
<1>6. \A k \in DOMAIN KeyOrder : IsFirst(k) => k = i
  BY <1>2, <1>4, <1>5
<1>7. (CHOOSE k \in DOMAIN KeyOrder : IsFirst(k)) = i
  BY <1>4, <1>5, <1>6
<1> QED BY <1>1, <1>3, <1>7 DEF FoundKey

\* Every key sets a member.
LEMMA KeysHaveMembers == \A key \in ToSet(KeyOrder) : Member(key) \in Members
BY DEF Members

\* A line that sets nothing names no member, another one the member it sets.
LEMMA ConvertLineSets ==
  ASSUME NEW old, DOMAIN old = Members, NEW line, Unambiguous(line)
  PROVE  LET names(member) == /\ line.mark # "#" /\ line.name \in ToSet(KeyOrder)
                              /\ Member(line.name) = member
         IN  \A member \in Members :
               ConvertLine(old, line)[member]
                 = IF names(member) THEN Converted(member, line) ELSE old[member]
<1>1. CASE line.mark = "#"
  BY <1>1 DEF ConvertLine
<1>2. CASE Words(line) = {}
  <2>1. line.name \notin ToSet(KeyOrder)
    BY <1>2 DEF Words
  <2> QED BY <1>2, <2>1 DEF ConvertLine
<1>3. CASE line.mark # "#" /\ Words(line) # {}
  <2>1. FoundKey(Words(line)) = line.name /\ line.name \in ToSet(KeyOrder)
    BY <1>3, OwnKeyIsFound
  <2>2. ConvertLine(old, line)
          = [old EXCEPT ![Member(line.name)] = Converted(Member(line.name), line)]
    BY <1>3, <2>1 DEF ConvertLine
  <2> QED BY <1>3, <2>1, <2>2
<1> QED BY <1>1, <1>2, <1>3

\* No line and no form adds or removes a member.
LEMMA MembersStay ==
  ASSUME NEW old, DOMAIN old = Members
  PROVE  /\ \A line : DOMAIN ConvertLine(old, line) = Members
         /\ \A form : DOMAIN Entered(old, form) = Members
<1>1. ASSUME NEW line PROVE DOMAIN ConvertLine(old, line) = Members
  BY DEF ConvertLine
<1>2. ASSUME NEW form PROVE DOMAIN Entered(old, form) = Members
  BY DEF Entered
<1> QED BY <1>1, <1>2

\* The lines for a member after one more line was read.
LEMMA LinesAfterOneMore ==
  ASSUME read \in Seq(Lines), NEW line \in Lines, read' = Append(read, line),
         NEW member
  PROVE  LET names == /\ line.mark # "#" /\ line.name \in ToSet(KeyOrder)
                      /\ Member(line.name) = member
         IN  /\ LinesFor(member)' = LinesFor(member)
                                      \cup (IF names THEN {Len(read) + 1} ELSE {})
             /\ LinesFor(member) \subseteq 1..Len(read) /\ Len(read) \in Nat
             /\ \A i \in 1..Len(read) : read'[i] = read[i]
             /\ read'[Len(read) + 1] = line
<1> DEFINE n == Len(read)
           sets(l) == /\ l.mark # "#" /\ l.name \in ToSet(KeyOrder)
                      /\ Member(l.name) = member
<1>1. n \in Nat /\ DOMAIN read = 1..n /\ DOMAIN read' = 1..(n + 1)
  OBVIOUS
<1>2. (\A i \in 1..n : read'[i] = read[i]) /\ read'[n + 1] = line
  OBVIOUS
<1>3. LinesFor(member) = {i \in 1..n : sets(read[i])}
  BY <1>1 DEF LinesFor
<1>4. LinesFor(member)' = {i \in 1..(n + 1) : sets(read'[i])}
  BY <1>1 DEF LinesFor
<1>5. 1..(n + 1) = (1..n) \cup {n + 1}
  BY <1>1
<1> HIDE DEF n
<1>6. {i \in 1..(n + 1) : sets(read'[i])}
        = {i \in 1..n : sets(read[i])} \cup (IF sets(line) THEN {n + 1} ELSE {})
  BY <1>2, <1>5
<1> QED BY <1>1, <1>2, <1>3, <1>4, <1>6 DEF n

\* One more line keeps what Config.txt means.
LEMMA ReadLineStep ==
  ASSUME ValuesInv, NEW line \in Lines, ReadLine(line)
  PROVE  LastLineInv' /\ SettingsAsWritten'
<1> DEFINE n == Len(read)
           names(member) == /\ line.mark # "#" /\ line.name \in ToSet(KeyOrder)
                            /\ Member(line.name) = member
           last(member) == CHOOSE i \in LinesFor(member) :
                             \A j \in LinesFor(member) : j <= i
<1>1. /\ read \in Seq(Lines) /\ DOMAIN settings = Members
      /\ read' = Append(read, line) /\ settings' = ConvertLine(settings, line)
      /\ frontEnd = "console" /\ pc = "settings"
  BY DEF ValuesInv, TypeOK, ReadLine
<1>2. \A member : /\ LinesFor(member)' = LinesFor(member)
                                      \cup (IF names(member) THEN {n + 1} ELSE {})
                  /\ LinesFor(member) \subseteq 1..n
  BY <1>1, LinesAfterOneMore
<1>3. n \in Nat /\ read'[n + 1] = line /\ \A i \in 1..n : read'[i] = read[i]
  BY <1>1
<1>4. \A member \in Members : LinesFor(member) # {} =>
        last(member) \in LinesFor(member) /\ \A j \in LinesFor(member) : j <= last(member)
  BY <1>1 DEF ValuesInv, LastLineInv
<1> HIDE DEF n, names
<1>5. ASSUME NEW member \in Members, names(member)
      PROVE  /\ LinesFor(member)' # {} /\ n + 1 \in LinesFor(member)'
             /\ \A j \in LinesFor(member)' : j <= n + 1
             /\ \A i \in LinesFor(member)' :
                  (\A j \in LinesFor(member)' : j <= i) => i = n + 1
  BY <1>2, <1>3, <1>5
<1>6. ASSUME NEW member \in Members, ~names(member)
      PROVE  LinesFor(member)' = LinesFor(member)
  BY <1>2, <1>6
<1>7. LastLineInv'
  <2> SUFFICES ASSUME NEW member \in Members, LinesFor(member)' # {}
               PROVE  \E i \in LinesFor(member)' : \A j \in LinesFor(member)' : j <= i
    BY DEF LastLineInv
  <2>1. CASE names(member)
    BY <1>5, <2>1
  <2>2. CASE ~names(member)
    BY <1>4, <1>6, <2>2
  <2> QED BY <2>1, <2>2
<1>8. SettingsAsWritten'
  <2> SUFFICES ASSUME \A i \in DOMAIN read' : Unambiguous(read'[i]),
                      NEW member \in Members
               PROVE  settings'[member] =
                        IF LinesFor(member)' = {} THEN Cleared[member]
                        ELSE Converted(member, read'[CHOOSE i \in LinesFor(member)' :
                               \A j \in LinesFor(member)' : j <= i])
    BY DEF SettingsAsWritten
  <2>1. DOMAIN read = 1..n /\ DOMAIN read' = 1..(n + 1)
    BY <1>1 DEF n
  <2>2. Unambiguous(line) /\ \A i \in DOMAIN read : Unambiguous(read[i])
    BY <1>3, <2>1
  <2>3. settings'[member] = IF names(member) THEN Converted(member, line)
                            ELSE settings[member]
    BY <1>1, <2>2, ConvertLineSets DEF names
  <2>4. settings[member] = IF LinesFor(member) = {} THEN Cleared[member]
                           ELSE Converted(member, read[last(member)])
    BY <1>1, <2>2 DEF ValuesInv, SettingsAsWritten
  <2>5. CASE names(member)
    <3>1. (CHOOSE i \in LinesFor(member)' : \A j \in LinesFor(member)' : j <= i) = n + 1
      BY <1>5, <2>5
    <3> QED BY <1>3, <1>5, <2>3, <2>5, <3>1
  <2>6. CASE ~names(member)
    <3>1. LinesFor(member)' = LinesFor(member)
      BY <1>6, <2>6
    <3>2. LinesFor(member) # {} => read'[last(member)] = read[last(member)]
      BY <1>2, <1>3, <1>4
    <3> HIDE DEF last
    <3>3. (CHOOSE i \in LinesFor(member)' : \A j \in LinesFor(member)' : j <= i)
            = last(member)
      BY <3>1 DEF last
    <3> QED BY <2>3, <2>4, <2>6, <3>1, <3>2, <3>3
  <2> QED BY <2>5, <2>6
<1> QED BY <1>7, <1>8

\* Nothing else happens while Config.txt is read.
LEMMA SettingsStep ==
  ASSUME ValuesInv, [Next]_vars
  PROVE  LastLineInv' /\ SettingsAsWritten'
<1>1. ASSUME NEW line \in Lines, ReadLine(line)
      PROVE  LastLineInv' /\ SettingsAsWritten'
  BY <1>1, ReadLineStep
<1>2. CASE ~(frontEnd' = "console" /\ pc' = "settings")
  BY <1>2 DEF LastLineInv, SettingsAsWritten
<1>3. CASE UNCHANGED <<frontEnd, pc, read, settings>>
  BY <1>3 DEF ValuesInv, LastLineInv, SettingsAsWritten, LinesFor
<1>4. StartConsole \/ (\E form \in Forms : Apply(form)) \/ Worker =>
        ~(frontEnd' = "console" /\ pc' = "settings")
  BY DEF StartConsole, Apply, Worker, FindSource, AdjustRegion, CaptureScreen,
         CaptureFails, CaptureUndefined, SendPicture
<1>5. Paint \/ Connect \/ Disconnect \/ (\E w \in AppWindows : ChangeWindow(w))
        \/ UNCHANGED vars => UNCHANGED <<frontEnd, pc, read, settings>>
  BY DEF Paint, Connect, Disconnect, ChangeWindow, vars, settingVars, captureVars
<1> QED BY <1>1, <1>2, <1>3, <1>4, <1>5 DEF Next

-----------------------------------------------------------------------------
(* The values of the variables                                             *)

\* What is captured is not larger than any number, nor smaller than nothing.
LEMMA LengthsFacts ==
  ASSUME IInv, WndSrc \in AppWindows \cup {Desktop}, Exists(WndSrc)
  PROVE  Lengths \in [Dims -> Int]
<1> SUFFICES ASSUME NEW d \in Dims
             PROVE  CapturedLength(desk[WndSrc].full[d], StartOf(settings)[d],
                                   ForcedOf(settings)[d]) \in Int
  BY DEF Lengths
<1>1. desk[WndSrc].full[d] \in Int
  BY MeasuredFacts DEF IInv, Sizes
<1>2. StartOf(settings)[d] \in Int /\ ForcedOf(settings)[d] \in Int
  BY DEF IInv, TypesOK, Numbers, StartOf, ForcedOf
<1> QED BY <1>1, <1>2 DEF CapturedLength

\* A picture as it is captured.
LEMMA CapturedFacts ==
  ASSUME IInv, TypeOK, CaptureScreen
  PROVE  /\ PictureType' /\ picture'.data \in WrittenPixels
         /\ shot' \in {0, 1}
<1>1. pc = "loop" /\ Exists(WndSrc) /\ (\A d \in Dims : Lengths[d] >= 0)
        /\ shot' = 1 - shot /\ picture' = Captured(Lengths)
  BY DEF CaptureScreen
<1>2. shot' \in {0, 1}
  BY <1>1 DEF TypeOK
<1>3. Lengths \in Sizes
  <2>1. WndSrc \in AppWindows \cup {Desktop}
    BY <1>1 DEF IInv, SourceInv
  <2>2. Lengths \in [Dims -> Int]
    BY <1>1, <2>1, LengthsFacts
  <2> QED BY <1>1, <2>2 DEF Sizes
<1> DEFINE empty == \E d \in Dims : Lengths[d] = 0
           size  == IF empty THEN Size(1, 1) ELSE Lengths
<1>4. size \in Sizes
  BY <1>3 DEF Size, Sizes
<1>5. /\ picture'.size = size /\ picture'.Stride = 4 * size["X"]
      /\ picture'.PixelByteCount = IF empty THEN 0 ELSE ScreenBytes
      /\ picture'.data = Pixels(shot', 4)
  BY <1>1 DEF Captured
<1> HIDE DEF empty, size
<1>6. 4 * size["X"] \in Nat
  BY <1>4 DEF Sizes, Dims
<1>7. picture'.PixelByteCount \in 0..4
  BY <1>5, PipelineAssumption
<1>8. picture'.data \in WrittenPixels
  BY <1>2, <1>5 DEF Pixels, WrittenPixels
<1> QED BY <1>2, <1>4, <1>5, <1>6, <1>7, <1>8 DEF PictureType, WrittenPixels

\* Resampling keeps the picture the pixels are of.
LEMMA SentFacts ==
  ASSUME IInv, DataInv, SendPicture
  PROVE  wire' = <<>> \/ (Len(wire') = 1 /\ wire'[1].data \in WrittenPixels)
<1> DEFINE image == IF Resizes THEN Resampled(picture) ELSE picture
<1>1. pc = "process" /\ wire = <<>>
  BY DEF SendPicture
<1>2. image.data \in WrittenPixels
  <2>1. picture.data \in WrittenPixels
    BY <1>1 DEF DataInv
  <2>2. CASE Resizes
    <3>1. picture = [size |-> picture.size, Stride |-> 4 * picture.size["X"],
                     PixelByteCount |-> picture.PixelByteCount,
                     data |-> Pixels(picture.data.shot, 4),
                     from |-> picture.from, lengths |-> picture.lengths,
                     window |-> picture.window]
      BY <1>1 DEF IInv, PixelsInv, PictureInv
    <3>2. Resampled(picture).data = [picture.data EXCEPT !.step = 3]
      BY <3>1 DEF Resampled
    <3> QED BY <2>1, <2>2, <3>2 DEF WrittenPixels
  <2>3. CASE ~Resizes
    BY <2>1, <2>3
  <2> QED BY <2>2, <2>3
<1>3. CASE ~connected
  BY <1>1, <1>3 DEF SendPicture
<1>4. CASE connected
  <2>1. PICK deflated : wire' = <<PacketOf(image, deflated)>>
    BY <1>4 DEF SendPicture
  <2> HIDE DEF image
  <2>2. PacketOf(image, deflated).data = image.data
    BY DEF PacketOf
  <2>3. Len(wire') = 1 /\ wire'[1] = PacketOf(image, deflated)
    BY <2>1
  <2> QED BY <1>2, <2>2, <2>3
<1> QED BY <1>3, <1>4

\* Anything that may be inflated or painted.
AnyPixels == [shot : -1..1, step : {0, 3, 4}]

\* What a packet leaves in the buffer and in the window.
LEMMA PaintFacts ==
  ASSUME IInv, TypeOK, DataInv, Paint
  PROVE  /\ inflated' \in AnyPixels /\ wire' = <<>>
         /\ painted' = painted \/ painted' \in AnyPixels
<1> DEFINE packet == Head(wire)
           source == IF packet.CompressionStrength = 0 THEN packet.data ELSE inflated'
<1>1. wire = <<wire[1]>> /\ packet = wire[1] /\ wire' = <<>>
  <2>1. wire # <<>> /\ wire' = Tail(wire)
    BY DEF Paint
  <2>2. wire = <<wire[1]>>
    BY <2>1 DEF IInv, PixelsInv, WireInv
  <2>3. Head(<<wire[1]>>) = wire[1] /\ Tail(<<wire[1]>>) = <<>>
    OBVIOUS
  <2> QED BY <2>1, <2>2, <2>3
<1>2. packet.data \in WrittenPixels
  BY <1>1 DEF DataInv, Paint
<1>3. WrittenPixels \subseteq AnyPixels
  BY DEF WrittenPixels, AnyPixels
<1>4. Garbage \in AnyPixels
  BY DEF Garbage, Pixels, AnyPixels
<1>5. inflated' \in Inflate(packet)
  BY DEF Paint
<1> HIDE DEF packet
<1>6. inflated' \in AnyPixels
  BY <1>2, <1>3, <1>4, <1>5 DEF Inflate, TypeOK, AnyPixels
<1>7. source \in AnyPixels
  BY <1>2, <1>3, <1>6
<1>8. painted' = painted \/ painted' = Pixels(source.shot, PaintStep(packet))
  BY DEF Paint, packet
<1> HIDE DEF source
<1>9. Pixels(source.shot, PaintStep(packet)) \in AnyPixels
  BY <1>7 DEF Pixels, PaintStep, AnyPixels
<1> QED BY <1>1, <1>6, <1>8, <1>9

\* The steps of the capture thread.
LEMMA WorkerTypes ==
  ASSUME IInv, ValuesInv, Worker, TypesOK', SourceInv'
  PROVE  TypeOK' /\ DataInv'
<1> USE DEF ValuesInv
<1>1. CASE FindSource
  <2>1. /\ UNCHANGED <<settingVars, desk, given, setup, shot, picture, netVars, paintVars>>
        /\ pc' \in {"crashed", "region"}
    BY <1>1 DEF FindSource
  <2> QED BY <2>1 DEF TypeOK, DataInv, PictureType, SourceInv, settingVars, netVars, paintVars
<1>2. CASE AdjustRegion
  <2>1. /\ UNCHANGED <<frontEnd, read, desk, WndSrc, shot, picture, netVars, paintVars>>
        /\ pc' = "loop" /\ DOMAIN settings' = DOMAIN settings
    BY <1>2 DEF AdjustRegion
  <2> QED BY <2>1 DEF TypeOK, DataInv, PictureType, SourceInv, settingVars, netVars, paintVars
<1>3. CASE CaptureScreen
  <2>1. /\ UNCHANGED <<settingVars, desk, WndSrc, given, setup, netVars, paintVars>>
        /\ pc' = "process"
    BY <1>3 DEF CaptureScreen
  <2>2. PictureType' /\ picture'.data \in WrittenPixels /\ shot' \in {0, 1}
    BY <1>3, CapturedFacts
  <2> QED BY <2>1, <2>2 DEF TypeOK, DataInv, SourceInv, settingVars, netVars, paintVars
<1>4. CASE CaptureFails \/ CaptureUndefined
  <2>1. /\ UNCHANGED <<settingVars, desk, WndSrc, given, setup, shot, picture, netVars,
                       paintVars>>
        /\ pc = "loop" /\ pc' \in {"ended", "undefined"}
    BY <1>4 DEF CaptureFails, CaptureUndefined
  <2> QED BY <2>1 DEF TypeOK, DataInv, PictureType, settingVars, netVars, paintVars
<1>5. CASE SendPicture
  <2>1. /\ UNCHANGED <<settingVars, desk, WndSrc, given, setup, shot, connected, paintVars>>
        /\ pc' = "loop" /\ picture' = NoData
    BY <1>5 DEF SendPicture
  <2>2. wire' = <<>> \/ (Len(wire') = 1 /\ wire'[1].data \in WrittenPixels)
    BY <1>5, SentFacts
  <2>3. wire' # <<>> => wire'[1].data \in WrittenPixels
    BY <2>2
  <2>4. Len(wire') <= 1
    <3>1. Len(<<>>) = 0
      OBVIOUS
    <3> QED BY <2>2, <3>1
  <2> QED BY <2>1, <2>3, <2>4
     DEF TypeOK, DataInv, PictureType, SourceInv, settingVars, paintVars
<1> QED BY <1>1, <1>2, <1>3, <1>4, <1>5 DEF Worker

\* All other steps.
LEMMA OtherTypes ==
  ASSUME IInv, ValuesInv, [Next]_vars, ~Worker, TypesOK', SourceInv'
  PROVE  TypeOK' /\ DataInv'
<1> USE DEF ValuesInv
<1>1. ASSUME NEW line \in Lines, ReadLine(line) PROVE TypeOK' /\ DataInv'
  <2>1. /\ UNCHANGED <<frontEnd, desk, captureVars, netVars, paintVars>>
        /\ Len(read) < MaxLines /\ read' = Append(read, line)
        /\ settings' = ConvertLine(settings, line)
    BY <1>1 DEF ReadLine
  <2>2. read' \in Seq(Lines) /\ Len(read') <= MaxLines
    <3>1. read \in Seq(Lines)
      BY DEF TypeOK
    <3> QED BY <2>1, <3>1, PipelineAssumption
  <2>3. DOMAIN settings' = Members
    BY <2>1, MembersStay DEF TypeOK
  <2> QED BY <2>1, <2>2, <2>3
          DEF TypeOK, DataInv, PictureType, captureVars, netVars, paintVars
<1>2. CASE StartConsole
  <2>1. /\ UNCHANGED <<frontEnd, settings, desk, WndSrc, given, setup, shot, picture,
                       netVars, paintVars>>
        /\ pc' = "find" /\ read' = <<>>
    BY <1>2 DEF StartConsole
  <2>2. read' \in Seq(Lines) /\ Len(read') <= MaxLines
    BY <2>1, PipelineAssumption
  <2> QED BY <2>1, <2>2 DEF TypeOK, DataInv, PictureType, netVars, paintVars
<1>3. ASSUME NEW form \in Forms, Apply(form) PROVE TypeOK' /\ DataInv'
  <2>1. /\ UNCHANGED <<frontEnd, read, desk, shot, picture, netVars, paintVars>>
        /\ pc' = "find" /\ settings' = Entered(settings, form)
    BY <1>3 DEF Apply
  <2>2. DOMAIN settings' = Members
    BY <2>1, MembersStay DEF TypeOK
  <2> QED BY <2>1, <2>2 DEF TypeOK, DataInv, PictureType, SourceInv, netVars, paintVars
<1>4. CASE Paint
  <2>1. UNCHANGED <<settingVars, desk, captureVars, connected>> /\ first' = FALSE
    BY <1>4 DEF Paint
  <2>2. /\ inflated' \in AnyPixels /\ wire' = <<>>
        /\ painted' = painted \/ painted' \in AnyPixels
    BY <1>4, PaintFacts
  <2>3. Len(wire') <= 1
    BY <2>2
  <2> QED BY <2>1, <2>2, <2>3
     DEF TypeOK, DataInv, PictureType, AnyPixels, settingVars, captureVars
<1>5. CASE Connect
  <2>1. /\ UNCHANGED <<settingVars, desk, captureVars, wire, painted>>
        /\ connected' = TRUE /\ first' = TRUE /\ inflated' = Garbage
    BY <1>5 DEF Connect
  <2>2. inflated' \in AnyPixels
    BY <2>1 DEF AnyPixels, Garbage, Pixels
  <2> QED BY <2>1, <2>2
     DEF TypeOK, DataInv, PictureType, AnyPixels, settingVars, captureVars
<1>6. CASE Disconnect
  <2>1. /\ UNCHANGED <<settingVars, desk, captureVars, paintVars>>
        /\ connected' = FALSE /\ wire' = <<>>
    BY <1>6 DEF Disconnect
  <2>2. Len(wire') <= 1
    BY <2>1
  <2>3. DataInv'
    BY <2>1 DEF DataInv, captureVars
  <2>4. TypeOK'
    <3>1. connected' \in BOOLEAN
      BY <2>1
    <3>2. UNCHANGED <<frontEnd, read, settings, desk, pc, WndSrc, shot, picture, inflated,
                      first, painted>>
      BY <2>1 DEF settingVars, captureVars, paintVars
    <3> QED BY <2>2, <3>1, <3>2 DEF TypeOK, PictureType
  <2> QED BY <2>3, <2>4
<1>7. ASSUME NEW w \in AppWindows, ChangeWindow(w) PROVE TypeOK' /\ DataInv'
  <2>1. UNCHANGED <<settingVars, captureVars, netVars, paintVars>>
    BY <1>7 DEF ChangeWindow
  <2>2. \A v \in DOMAIN desk' : desk'[v] \in Geometries[v]
    BY DEF TypesOK
  <2> QED BY <2>1, <2>2
     DEF TypeOK, DataInv, PictureType, settingVars, captureVars, netVars, paintVars
<1>8. CASE UNCHANGED vars
  BY <1>8 DEF TypeOK, DataInv, PictureType, vars, settingVars, captureVars, netVars, paintVars
<1> QED BY <1>1, <1>2, <1>3, <1>4, <1>5, <1>6, <1>7, <1>8 DEF Next

-----------------------------------------------------------------------------
(* The theorems                                                            *)

\* The invariant holds at the start ...
LEMMA InitIInv == Init => IInv
<1> SUFFICES ASSUME Init PROVE IInv
  OBVIOUS
<1>1. TypesOK
  BY ClearedFacts DEF Init, TypesOK
<1>2. SourceInv
  BY DEF Init, SourceInv, SourceIsAsked
<1>3. RegionInv /\ PixelsInv
  BY DEF Init, RegionInv, PixelsInv, PictureInv, WireInv
<1> QED BY <1>1, <1>2, <1>3 DEF IInv

\* ... and every step keeps it.
LEMMA NextIInv == IInv /\ [Next]_vars => IInv'
BY TypesStep, SourceStep, RegionStep, PixelsStep DEF IInv

\* The same for the values of the variables and Config.txt.
LEMMA InitValuesInv == Init => ValuesInv
<1> SUFFICES ASSUME Init PROVE ValuesInv
  OBVIOUS
<1>1. read \in Seq(Lines) /\ Len(read) <= MaxLines /\ wire = <<>> /\ Len(wire) <= 1
  BY PipelineAssumption DEF Init
<1>2. \A member : LinesFor(member) = {}
  BY DEF Init, LinesFor
<1>3. DOMAIN settings = Members
  BY DEF Init, Cleared
<1>4. inflated \in [shot : -1..1, step : {0, 3, 4}]
  BY DEF Init, Garbage, Pixels
<1>5. TypeOK
  BY <1>1, <1>3, <1>4, InitIInv DEF Init, TypeOK, PictureType, IInv, TypesOK
<1>6. DataInv /\ LastLineInv /\ SettingsAsWritten
  BY <1>1, <1>2 DEF Init, DataInv, LastLineInv, SettingsAsWritten
<1> QED BY <1>5, <1>6 DEF ValuesInv

\* Every step keeps them too.
LEMMA NextValuesInv == IInv /\ ValuesInv /\ [Next]_vars => ValuesInv'
<1> SUFFICES ASSUME IInv, ValuesInv, [Next]_vars PROVE ValuesInv'
  OBVIOUS
<1>1. TypesOK' /\ SourceInv'
  BY TypesStep, SourceStep
<1>2. TypeOK' /\ DataInv'
  BY <1>1, WorkerTypes, OtherTypes
<1> QED BY <1>2, SettingsStep DEF ValuesInv

\* What is painted is the picture of the packet it came in.
LEMMA PaintedStep ==
  ASSUME IInv, [Next]_vars, wire # <<>>, painted' # painted
  PROVE  \/ painted' = Head(wire).data
         \/ Head(wire).CompressionStrength # 0 /\ ~Head(wire).deflated
<1> DEFINE packet == Head(wire)
<1>1. Paint
  BY DEF Next, Worker, ReadLine, StartConsole, Apply, FindSource, AdjustRegion,
         CaptureScreen, CaptureFails, CaptureUndefined, SendPicture, Connect, Disconnect,
         ChangeWindow, vars, paintVars
<1>2. PacketOK(packet)
  BY DEF IInv, PixelsInv, WireInv
<1>3. /\ inflated' \in Inflate(packet)
      /\ painted' = Pixels((IF packet.CompressionStrength = 0 THEN packet.data
                            ELSE inflated').shot, PaintStep(packet))
  BY <1>1 DEF Paint
<1> HIDE DEF packet
<1>4. packet.data = Pixels(packet.data.shot, PaintStep(packet))
        /\ packet.CompressionStrength \in Int
        /\ (packet.deflated => packet.CompressionStrength > 0)
  BY <1>2 DEF PacketOK
<1>5. CASE packet.CompressionStrength = 0
  BY <1>3, <1>4, <1>5 DEF packet
<1>6. CASE packet.CompressionStrength # 0 /\ packet.deflated
  <2>1. inflated' = packet.data
    BY <1>3, <1>4, <1>6 DEF Inflate
  <2> QED BY <1>3, <1>4, <1>6, <2>1 DEF packet
<1> QED BY <1>5, <1>6 DEF packet

\* The invariant holds in every state.
THEOREM PipelineIInv == Spec => []IInv
BY InitIInv, NextIInv, PTL DEF Spec

\* These hold in every state as well.
LEMMA PipelineValuesInv == Spec => []ValuesInv
BY InitValuesInv, NextValuesInv, PipelineIInv, PTL DEF Spec

\* Every member of GlobalData, every packet and every buffer holds what its type and
\* its place allow.
THEOREM PipelineTypeOK == Spec => []TypeOK
<1>1. ValuesInv => TypeOK
  BY DEF ValuesInv
<1> QED BY <1>1, PipelineValuesInv, PTL

\* ConvertLineToParam (IniReader.cpp 20): whatever the values mention, Config.txt means
\* what its lines say, if no value mentions a key that is looked for before their own.
THEOREM PipelineSettingsAsWritten == Spec => []SettingsAsWritten
<1>1. ValuesInv => SettingsAsWritten
  BY DEF ValuesInv
<1> QED BY <1>1, PipelineValuesInv, PTL

\* FindWindowWithName and the restarts (DataProcessing.cpp 60 and 88): what is captured
\* is always a window that was asked for.
THEOREM PipelineSourceIsAsked == Spec => []SourceIsAsked
<1>1. IInv => SourceIsAsked
  BY DEF IInv, SourceInv
<1> QED BY <1>1, PipelineIInv, PTL

\* The adjustment (DataProcessing.cpp 93 to 142) keeps the picture inside the window,
\* whatever the settings and the window, if start and size go together.
THEOREM PipelinePictureShowsWindow == Spec => []PictureShowsWindow
<1>1. IInv => PictureShowsWindow
  BY RegionInvShows DEF IInv
<1> QED BY <1>1, PipelineIInv, PTL

\* Resampling, compression and the encoder's loop: what is painted was captured, for
\* every depth of the screen and every setting.
THEOREM PipelinePaintedIsSent == Spec => PaintedIsSent
<1>1. IInv /\ [Next]_vars =>
        [wire # <<>> /\ painted' # painted =>
           LET packet == Head(wire)
           IN  \/ painted' = packet.data
               \/ packet.CompressionStrength # 0 /\ ~packet.deflated]_vars
  BY PaintedStep
<1> QED BY <1>1, PipelineIInv, PTL DEF Spec, PaintedIsSent
=============================================================================
