--------------------------- MODULE CaptureSettings ---------------------------
(***************************************************************************)
(* The settings of the capture process: how a line of Config.txt           *)
(* (IniReader.cpp) and the form of the graphical front end (Form1.h) set   *)
(* the members of GlobalData.                                              *)
(*                                                                         *)
(* A line is a record: `mark` is its first character if that is '#' or     *)
(* '@', `name` the key in front of the '=', `mentions` the keys its value  *)
(* happens to contain, `text` the value and `number` what atoi() makes of  *)
(* it: 0, if it is not a number.                                           *)
(***************************************************************************)
EXTENDS Integers, SequencesExt

NULL == "NULL"

\* The keys in the order ConvertLineToParam looks for them.
KeyOrder == <<
  "ResizeToWidth", "ResizeToHeight", "WindowName", "IncludeBorder",
  "CaptureStartX", "CaptureStartY", "CaptureWidth", "CaptureHeight",
  "ResizeMethod", "CompresionStrength", "FPSLimit", "ShowStatistics",
  "VideoListenPort", "AudioListenPort", "ReduceColorDepth",
  "VideoCapturePCIP", "VideoCapturePCPort", "AudioCapturePCIP",
  "AudioCapturePCPort", "ForcedAudioLatency">>

\* The member of GlobalData a key sets.
Member(key) ==
  CASE key = "ResizeToWidth"      -> "ResizeWidth"
    [] key = "ResizeToHeight"     -> "ResizeHeight"
    [] key = "IncludeBorder"      -> "IncludeWindowBorder"
    [] key = "CaptureStartX"      -> "StartX"
    [] key = "CaptureStartY"      -> "StartY"
    [] key = "CaptureWidth"       -> "ForcedWidth"
    [] key = "CaptureHeight"      -> "ForcedHeight"
    [] key = "CompresionStrength" -> "CompressionStrength"
    [] key = "ReduceColorDepth"   -> "ColorFilterMask"
    [] key \in {"VideoListenPort", "VideoCapturePCPort"} -> "VideoNetworkPort"
    [] key \in {"AudioListenPort", "AudioCapturePCPort"} -> "AudioNetworkPort"
    [] key = "VideoCapturePCIP"   -> "VideoNetworkIP"
    [] key = "AudioCapturePCIP"   -> "AudioNetworkIP"
    [] OTHER                      -> key

Texts == {"WindowName", "VideoNetworkPort", "AudioNetworkPort",
          "VideoNetworkIP", "AudioNetworkIP"}

Members == {Member(key) : key \in ToSet(KeyOrder)}

\* memset( &GlobalData, 0 ): the texts are null pointers.
Cleared == [member \in Members |-> IF member \in Texts THEN NULL ELSE 0]

-----------------------------------------------------------------------------
(* Config.txt                                                              *)

\* The bits of a colour that are kept, for the options 2 to 5; 0 is no mask.
MaskOfOption(option) == IF option \in 2..5 THEN 9 - option ELSE 0

\* What the line sets a member to.
Converted(member, line) ==
  CASE member \in Texts           -> line.text
    [] member = "ColorFilterMask" -> MaskOfOption(line.number)
    [] OTHER                      -> line.number

\* FoundKey if the search went through the keys from the last to the first.
FoundKeyBackwards(words) ==
  KeyOrder[CHOOSE i \in DOMAIN KeyOrder :
             /\ KeyOrder[i] \in words
             /\ \A j \in DOMAIN KeyOrder : KeyOrder[j] \in words => j <= i]

\* strstr() looks for the keys in the whole line: the first of KeyOrder wins.
FoundKey(words) ==
  KeyOrder[CHOOSE i \in DOMAIN KeyOrder :
             /\ KeyOrder[i] \in words
             /\ \A j \in DOMAIN KeyOrder : KeyOrder[j] \in words => i <= j]

\* The keys that occur in a line.
Words(line) == (line.mentions \cup {line.name}) \cap ToSet(KeyOrder)

\* ConvertLineToParam of a line with a '=' in it.  Only '#' begins a comment.
ConvertLine(settings, line) ==
  IF line.mark = "#" \/ Words(line) = {} THEN settings
  ELSE LET member == Member(FoundKey(Words(line)))
       IN  [settings EXCEPT ![member] = Converted(member, line)]

-----------------------------------------------------------------------------
(* The form                                                                *)

\* The mask of the entries of FC_D_BPP: eight bits to four.
MaskOfIndex(index) == IF index \in 0..4 THEN 8 - index ELSE 8

\* FC_D_Compress: anything but its ten entries is strength 3.
StrengthOfIndex(index) == IF index \in 0..9 THEN index ELSE 3

\* A frame rate the program takes for realistic.
RealisticFPS(entered) == IF entered \in 1..60 THEN entered ELSE 15

\* FC_B_Apply_Click, between the shutdown and the start of the threads.
Entered(settings, form) ==
  [settings EXCEPT
     !["WindowName"]          = form.WindowName,
     !["StartX"]              = form.StartX,
     !["StartY"]              = form.StartY,
     !["ForcedWidth"]         = form.ForceWidth,
     !["ForcedHeight"]        = form.ForceHeight,
     !["ResizeMethod"]        = IF form.Resize = 1 THEN 1 ELSE -1,
     !["ResizeWidth"]         = IF form.Resize = 1 THEN form.Width ELSE -1,
     !["ResizeHeight"]        = IF form.Resize = 1 THEN form.Height ELSE -1,
     !["ColorFilterMask"]     = MaskOfIndex(form.BPP),
     !["CompressionStrength"] = StrengthOfIndex(form.Compress),
     !["FPSLimit"]            = RealisticFPS(form.FPS),
     !["VideoNetworkPort"]    = form.Port,
     !["IncludeWindowBorder"] = IF form.BorderIncl THEN 1 ELSE 0,
     !["AudioNetworkPort"]    = IF form.AudioEnable THEN form.AudioPort ELSE NULL,
     !["AudioNetworkIP"]      = IF form.AudioEnable THEN @ ELSE NULL]
=============================================================================
