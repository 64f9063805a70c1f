------------------------------ MODULE PanelFormProofs ------------------------------
(***************************************************************************)
(* Proofs about the panel's form and its files (PanelForm, CommandLine),   *)
(* of what these modules say of the code: what the user stored is not lost *)
(* by way of the files, and the line the panel shows, and each line it     *)
(* starts a client with, does what the form says.                          *)
(***************************************************************************)
EXTENDS PanelForm, FilteringProofs, FiniteSetTheorems

--------------------------------------------------------------------------------
(***************************************************************************)
(* The panel's two files, for any form, any cards and any folder: what is  *)
(* on the disk is read before it is written over.                          *)
(*                                                                         *)
(* While the panel runs, a file whose last write went through is what the  *)
(* panel has in its memory, and one that is broken was torn by a write of  *)
(* its own, or would not be moved aside.                                   *)
(***************************************************************************)
FilesInv ==
  /\ memory = [f \in Files |-> memory[f]]
  /\ disk = [f \in Files |-> disk[f]]
  /\ up => \A f \in Files :
             /\ disk[f].is = "broken" => f \in torn \cup unmoved
             /\ f \notin torn /\ disk[f].is = "whole" => disk[f].holds = memory[f]

(* What a file is, by how it was made.                                     *)
LEMMA FileKinds ==
  /\ \A f : NoFile(f).is = "none" /\ Broken(f).is = "broken" /\ NoText(f).is = "no text"
  /\ \A content : Whole(content).is = "whole" /\ Whole(content).holds = content
  BY DEF NoFile, Broken, NoText, Whole

LEMMA NothingIsOfTheFiles == Nothing = [f \in Files |-> Nothing[f]]
  BY DEF Nothing, Files

LEMMA FilesBegin == FormInit => FilesInv
  <1> SUFFICES ASSUME FormInit PROVE FilesInv OBVIOUS
  <1>1. memory = Nothing /\ disk = [f \in Files |-> NoFile(f)] /\ up
        BY DEF FormInit, Untouched
  <1>2. \A f \in Files : disk[f].is = "none" BY <1>1, FileKinds
  <1> QED BY <1>1, <1>2, NothingIsOfTheFiles DEF FilesInv

(* A file is written: what it then holds, if it is whole, is what the      *)
(* panel has, and the other file stands as it stood.                       *)
LEMMA SaveKeeps ==
  ASSUME FilesInv, NEW f \in Files, NEW content, Save(f, content), up' = up
  PROVE  FilesInv'
  <1>1. /\ memory' = [g \in Files |-> IF g = f THEN content ELSE memory[g]]
        /\ unmoved' = unmoved
        BY DEF FilesInv, Save
  <1>2. \/ /\ disk' = [g \in Files |-> IF g = f THEN Whole(content) ELSE disk[g]]
           /\ torn' = torn \ {f}
        \/ /\ disk' = [g \in Files |-> IF g = f THEN Broken(f) ELSE disk[g]]
           /\ torn' = torn \cup {f}
        \/ torn' = torn \cup {f} /\ disk' = disk
        BY DEF FilesInv, Save
  <1>3. memory' = [g \in Files |-> memory'[g]] BY <1>1
  <1>4. disk' = [g \in Files |-> disk'[g]] BY <1>2 DEF FilesInv
  <1>5. ASSUME NEW g \in Files, up
        PROVE  /\ disk'[g].is = "broken" => g \in torn' \cup unmoved'
               /\ g \notin torn' /\ disk'[g].is = "whole" => disk'[g].holds = memory'[g]
        <2>1. CASE g = f BY <1>1, <1>2, <2>1, FileKinds
        <2>2. CASE g # f
              <3>1. memory'[g] = memory[g] /\ disk'[g] = disk[g] BY <1>1, <1>2, <2>2
              <3>2. g \in torn' <=> g \in torn BY <1>2, <2>2
              <3>3. /\ disk[g].is = "broken" => g \in torn \cup unmoved
                    /\ g \notin torn /\ disk[g].is = "whole" => disk[g].holds = memory[g]
                    BY <1>5 DEF FilesInv
              <3> QED BY <1>1, <3>1, <3>2, <3>3
        <2> QED BY <2>1, <2>2
  <1> QED BY <1>3, <1>4, <1>5 DEF FilesInv

(* The panel starts: a file that is whole is read, one that is broken      *)
(* moves aside or is remembered.                                           *)
LEMMA RunKeeps ==
  ASSUME FilesInv, Run
  PROVE  /\ FilesInv'
         /\ \A f \in Files : /\ disk[f].is = "whole" => memory'[f] = disk[f].holds
                             /\ disk'[f] # disk[f] => disk[f].is = "broken"
  <1>1. PICK stuck \in SUBSET {f \in Files : disk[f].is = "broken"} :
          /\ memory' = [f \in Files |-> Read(f)]
          /\ unmoved' = stuck
          /\ disk' = [f \in Files |-> IF disk[f].is = "broken" /\ f \notin stuck
                                      THEN NoFile(f) ELSE disk[f]]
        BY DEF Run, Load, Aside
  <1>2. memory' = [f \in Files |-> memory'[f]] /\ disk' = [f \in Files |-> disk'[f]] BY <1>1
  <1>3. ASSUME NEW f \in Files
        PROVE  /\ disk[f].is = "whole" => memory'[f] = disk[f].holds
               /\ disk'[f] # disk[f] => disk[f].is = "broken"
               /\ disk'[f].is = "broken" => f \in unmoved'
               /\ disk'[f].is = "whole" => disk'[f] = disk[f]
        BY <1>1, FileKinds DEF Read
  <1> QED BY <1>2, <1>3 DEF FilesInv

LEMMA FilesKeep == FilesInv /\ [FormNext]_formVars => FilesInv'
  <1> SUFFICES ASSUME FilesInv, [FormNext]_formVars PROVE FilesInv' OBVIOUS
  <1>1. CASE UNCHANGED formVars BY <1>1 DEF formVars, FilesInv
  <1>2. CASE TheForm
        BY <1>2 DEF TheForm, EditText, PickOrientation, Flip, ToggleRecording, Tick, ResetForm,
                    ApplyCard, KeepFiles, FilesInv
  <1>3. CASE SaveCard
        <2>1. PICK cards \in WithCard(memory.profiles, config) : Save("profiles", cards) /\ up' = up
              BY <1>3 DEF SaveCard
        <2> QED BY <2>1, SaveKeeps DEF Files
  <1>4. CASE DeleteCard
        <2>1. PICK i \in DOMAIN memory.profiles :
                Save("profiles", RemoveAt(memory.profiles, i)) /\ up' = up
              BY <1>4 DEF DeleteCard
        <2> QED BY <2>1, SaveKeeps DEF Files
  <1>5. CASE ChangeSettings
        <2>1. PICK folder \in Folders : Save("settings", folder) /\ up' = up
              BY <1>5 DEF ChangeSettings
        <2> QED BY <2>1, SaveKeeps DEF Files
  <1>6. CASE Quit
        BY <1>6, NothingIsOfTheFiles DEF Quit, FilesInv
  <1>7. CASE Killed
        <2>1. PICK f \in Files : disk' = [disk EXCEPT ![f] = Broken(f)]
              BY <1>7 DEF Killed
        <2>2. disk' = [g \in Files |-> disk'[g]] BY <2>1 DEF FilesInv
        <2> QED BY <1>7, <2>2, NothingIsOfTheFiles DEF Killed, FilesInv
  <1>8. CASE EditedByHand
        <2>1. PICK f \in Files : \E text : disk' = [disk EXCEPT ![f] = text]
              BY <1>8 DEF EditedByHand
        <2>2. disk' = [g \in Files |-> disk'[g]] BY <2>1 DEF FilesInv
        <2> QED BY <1>8, <2>2 DEF EditedByHand, FilesInv
  <1>9. CASE Run BY <1>9, RunKeeps
  <1> QED BY <1>1, <1>2, <1>3, <1>4, <1>5, <1>6, <1>7, <1>8, <1>9 DEF FormNext, TheFiles

(* The invariant of the files holds throughout.                            *)
THEOREM FilesInvariance == FormSpec => []FilesInv
  BY FilesBegin, FilesKeep, PTL DEF FormSpec

(* No profile and no setting is lost by way of the files: a start reads    *)
(* what is whole and moves only what is broken aside, and a panel that     *)
(* runs writes over nothing it has not read, whatever writes fail and      *)
(* whatever the user does to the files between two starts.                 *)
THEOREM StoredIsKept == FormSpec => NothingStoredIsLost
  <1> DEFINE Kept == \A f \in Files :
        /\ (~up /\ up') => /\ disk[f].is = "whole" => memory'[f] = disk[f].holds
                           /\ disk'[f] # disk[f] => disk[f].is = "broken"
        /\ (up /\ up' /\ disk'[f] # disk[f] /\ disk[f].is = "broken")
             => f \in torn \cup unmoved
        /\ (up /\ f \notin torn /\ disk[f].is = "whole") => disk[f].holds = memory[f]
  <1>1. ASSUME FilesInv, [FormNext]_formVars PROVE [Kept]_formVars
        <2>1. ~up /\ up' => Run
              BY <1>1 DEF FormNext, formVars, TheForm, TheFiles, EditText, PickOrientation, Flip,
                 ToggleRecording, Tick, ResetForm, ApplyCard, SaveCard, DeleteCard,
                 ChangeSettings, Quit, Killed, EditedByHand
        <2> QED BY <1>1, <2>1, RunKeeps DEF FilesInv
  <1> QED BY <1>1, FilesInvariance, PTL DEF FormSpec, NothingStoredIsLost

--------------------------------------------------------------------------------
(***************************************************************************)
(* A line does what its form says, for any form.                           *)
(*                                                                         *)
(* The form is turned into flags by groups of controls, a client parses    *)
(* each flag back by the option it names, and the server's arguments are   *)
(* made from the options by groups again. The proof says what is on a line *)
(* under each name (FlagsOf, IsLine), what a client reads there (TextGiven *)
(* and its like), what the server is told under each name and does by it   *)
(* (Served), and joins the three (LineAgrees). That a line parses and is   *)
(* not refused unless the form contradicts itself is LineRuns.             *)
(***************************************************************************)

(* Joined functions. *)
LEMMA JoinFacts ==
  ASSUME NEW f, NEW g
  PROVE  /\ DOMAIN Join(f, g) = DOMAIN f \cup DOMAIN g
         /\ \A x \in DOMAIN f : Join(f, g)[x] = f[x]
         /\ \A x \in DOMAIN g : x \notin DOMAIN f => Join(f, g)[x] = g[x]
  BY DEF Join

LEMMA JoinRight ==
  ASSUME NEW f, NEW g, NEW x \in DOMAIN g, x \notin DOMAIN f
  PROVE  x \in DOMAIN Join(f, g) /\ Join(f, g)[x] = g[x]
  BY DEF Join

LEMMA JoinLeft ==
  ASSUME NEW f, NEW g, NEW x \in DOMAIN f
  PROVE  x \in DOMAIN Join(f, g) /\ Join(f, g)[x] = f[x]
  BY DEF Join

(* Which of the four tables an option is in. *)
LEMMA InStream ==
  ASSUME NEW o \in DOMAIN StreamOptions
  PROVE  o \in DOMAIN Options /\ Options[o] = StreamOptions[o]
  <1>1. /\ o \in DOMAIN Join(StreamOptions, DeviceOptions)
        /\ Join(StreamOptions, DeviceOptions)[o] = StreamOptions[o]
        BY JoinLeft
  <1> QED BY <1>1, JoinLeft DEF Options

LEMMA InDevice ==
  ASSUME NEW o \in DOMAIN DeviceOptions, o \notin DOMAIN StreamOptions
  PROVE  o \in DOMAIN Options /\ Options[o] = DeviceOptions[o]
  <1>1. /\ o \in DOMAIN Join(StreamOptions, DeviceOptions)
        /\ Join(StreamOptions, DeviceOptions)[o] = DeviceOptions[o]
        BY JoinRight
  <1> QED BY <1>1, JoinLeft DEF Options

LEMMA InInput ==
  ASSUME NEW o \in DOMAIN InputOptions, o \notin DOMAIN StreamOptions,
         o \notin DOMAIN DeviceOptions
  PROVE  o \in DOMAIN Options /\ Options[o] = InputOptions[o]
  <1>1. /\ o \in DOMAIN Join(InputOptions, WindowOptions)
        /\ Join(InputOptions, WindowOptions)[o] = InputOptions[o]
        BY JoinLeft
  <1>2. o \notin DOMAIN Join(StreamOptions, DeviceOptions) BY DEF Join
  <1> QED BY <1>1, <1>2, JoinRight DEF Options

LEMMA InWindow ==
  ASSUME NEW o \in DOMAIN WindowOptions, o \notin DOMAIN InputOptions,
         o \notin DOMAIN StreamOptions, o \notin DOMAIN DeviceOptions
  PROVE  o \in DOMAIN Options /\ Options[o] = WindowOptions[o]
  <1>1. /\ o \in DOMAIN Join(InputOptions, WindowOptions)
        /\ Join(InputOptions, WindowOptions)[o] = WindowOptions[o]
        BY JoinRight
  <1>2. o \notin DOMAIN Join(StreamOptions, DeviceOptions) BY DEF Join
  <1> QED BY <1>1, <1>2, JoinRight DEF Options


--------------------------------------------------------------------------------
(* What is on a line under a name. *)
FlagsOf(line, n) == {f \in line : f.flag = n}
Says(form, n) == form.text[n] \notin {"", DefaultText[n]}

LEMMA UnionFlags ==
  ASSUME NEW A, NEW B, NEW n
  PROVE  FlagsOf(A \cup B, n) = FlagsOf(A, n) \cup FlagsOf(B, n)
  BY DEF FlagsOf

LEMMA NoFlags ==
  ASSUME NEW A, NEW n, \A f \in A : f.flag # n
  PROVE  FlagsOf(A, n) = {}
  BY DEF FlagsOf

LEMMA OnlyFlags ==
  ASSUME NEW A, NEW c, NEW n
  PROVE  FlagsOf(Only(c, A), n) = Only(c, FlagsOf(A, n))
  BY DEF FlagsOf, Only

LEMMA OneFlag ==
  ASSUME NEW m, NEW v, NEW x, NEW n
  PROVE  FlagsOf({Flag(m, v, x)}, n) = Only(m = n, {Flag(m, v, x)})
  BY DEF FlagsOf, Only, Flag

TextFlags(form, C) == {Flag(c, form.text[c], c) : c \in C}
LEMMA TextFlagsNamed ==
  ASSUME NEW form, NEW C, NEW n
  PROVE  /\ FlagsOf(TextFlags(form, C), n) = Only(n \in C, {Flag(n, form.text[n], n)})
         /\ \A f \in TextFlags(form, C) : f.flag \in C
  BY DEF FlagsOf, Only, Flag, TextFlags

LEMMA DifferingFlags ==
  ASSUME NEW form, NEW S, NEW n
  PROVE  FlagsOf(Differing(form, S), n)
           = Only(n \in S /\ Says(form, n), {Flag(n, form.text[n], n)})
  <1> DEFINE C == {d \in S : form.text[d] \notin {"", DefaultText[d]}}
  <1>1. Differing(form, S) = TextFlags(form, C) BY DEF Differing, TextFlags
  <1>2. n \in C <=> n \in S /\ Says(form, n) BY DEF Says
  <1> HIDE DEF C
  <1>3. FlagsOf(TextFlags(form, C), n) = Only(n \in C, {Flag(n, form.text[n], n)})
        BY TextFlagsNamed
  <1> QED BY <1>1, <1>2, <1>3 DEF Only

LEMMA GivenFlags ==
  ASSUME NEW form, NEW S, NEW n
  PROVE  FlagsOf(Given(form, S), n)
           = Only(n \in S /\ form.text[n] # "", {Flag(n, form.text[n], n)})
  <1> DEFINE C == {d \in S : form.text[d] # ""}
  <1>1. Given(form, S) = TextFlags(form, C) BY DEF Given, TextFlags
  <1>2. n \in C <=> n \in S /\ form.text[n] # "" OBVIOUS
  <1> HIDE DEF C
  <1>3. FlagsOf(TextFlags(form, C), n) = Only(n \in C, {Flag(n, form.text[n], n)})
        BY TextFlagsNamed
  <1> QED BY <1>1, <1>2, <1>3 DEF Only

LEMMA OnFlags ==
  ASSUME NEW form, NEW S, NEW n
  PROVE  FlagsOf(On(form, S), n) = Only(n \in S /\ n \in form.on, {Flag(n, "true", n)})
  BY DEF FlagsOf, Only, Flag, On

LEMMA NamesIn ==
  ASSUME NEW form, NEW S
  PROVE  /\ \A f \in Differing(form, S) : f.flag \in S
         /\ \A f \in Given(form, S) : f.flag \in S
         /\ \A f \in On(form, S) : f.flag \in S
  <1>1. \A f \in Differing(form, S) : f.flag \in S
        <2> DEFINE C == {d \in S : form.text[d] \notin {"", DefaultText[d]}}
        <2>1. Differing(form, S) = TextFlags(form, C) BY DEF Differing, TextFlags
        <2>2. C \subseteq S OBVIOUS
        <2> HIDE DEF C
        <2>3. \A f \in TextFlags(form, C) : f.flag \in C BY TextFlagsNamed
        <2> QED BY <2>1, <2>2, <2>3
  <1>2. \A f \in Given(form, S) : f.flag \in S
        <2> DEFINE C == {d \in S : form.text[d] # ""}
        <2>1. Given(form, S) = TextFlags(form, C) BY DEF Given, TextFlags
        <2>2. C \subseteq S OBVIOUS
        <2> HIDE DEF C
        <2>3. \A f \in TextFlags(form, C) : f.flag \in C BY TextFlagsNamed
        <2> QED BY <2>1, <2>2, <2>3
  <1>3. \A f \in On(form, S) : f.flag \in S BY DEF On, Flag
  <1> QED BY <1>1, <1>2, <1>3

(* The names each group of flags has. *)
LensNames == {"camera_fps", "camera_id", "camera_facing", "camera_size", "camera_ar"}
SwitchNames == PlainSwitches \cup {"mouse_bind", "camera_high_speed"}
SelectorNames == {"select_usb", "select_tcpip"}
ValueNames == {"v4l2_sink", "v4l2_buffer", "mouse_bind", "new_display", "tcpip", "record",
               "record_format"}

LEMMA GroupNames ==
  ASSUME NEW form
  PROVE  /\ \A f \in Differing(form, PlainTexts) : f.flag \in PlainTexts
         /\ \A f \in CameraFlags(form) : f.flag \in LensNames
         /\ \A f \in ClipboardFlags(form) : f.flag \in {"clipboard_direction"}
         /\ \A f \in SwitchFlags(form) : f.flag \in SwitchNames
         /\ \A f \in SelectorFlags(form) : f.flag \in SelectorNames
         /\ \A f \in ValueFlags(form) : f.flag \in ValueNames
  <1>1. \A S : \A f \in Differing(form, S) : f.flag \in S BY NamesIn
  <1>2. \A S : \A f \in Given(form, S) : f.flag \in S BY NamesIn
  <1>3. \A S : \A f \in On(form, S) : f.flag \in S BY NamesIn
  <1>0. \A c, A : \A f \in Only(c, A) : f \in A BY DEF Only
  <1>f. \A m, v, x : Flag(m, v, x).flag = m BY DEF Flag
  <1>4. \A f \in CameraFlags(form) : f.flag \in LensNames BY <1>1 DEF CameraFlags, Only, LensNames
  <1>5. \A f \in ClipboardFlags(form) : f.flag \in {"clipboard_direction"}
        <2> DEFINE flags == {Flag("clipboard_direction", Direction(form.text.clipboard_direction),
                                 "clipboard_direction")}
                   c == Direction(form.text.clipboard_direction) \notin {"", "both"}
        <2>1. ClipboardFlags(form) = Only(c, flags) BY DEF ClipboardFlags
        <2>2. \A f \in flags : f.flag = "clipboard_direction" BY <1>f
        <2> HIDE DEF flags, c
        <2> QED BY <2>1, <2>2, <1>0
  <1>6. \A f \in SwitchFlags(form) : f.flag \in SwitchNames
        <2>1. \A f \in On(form, PlainSwitches) : f.flag \in SwitchNames BY <1>3 DEF SwitchNames
        <2>2. \A f \in On(form, {"camera_high_speed"}) : f.flag \in SwitchNames
              BY <1>3 DEF SwitchNames
        <2>3. Flag("mouse_bind", "++++", "forward_all_clicks").flag \in SwitchNames
              BY <1>f DEF SwitchNames
        <2> QED BY <2>1, <2>2, <2>3, <1>0 DEF SwitchFlags
  <1>7. \A f \in SelectorFlags(form) : f.flag \in SelectorNames
        BY <1>3, <1>0 DEF SelectorFlags, SelectorNames
  <1>8. \A f \in ValueFlags(form) : f.flag \in ValueNames
        <2>1. \A f \in Given(form, {"v4l2_sink", "v4l2_buffer"}) : f.flag \in ValueNames
              BY <1>2 DEF ValueNames
        <2>2. \A f \in Given(form, {"mouse_bind"}) : f.flag \in ValueNames
              BY <1>2 DEF ValueNames
        <2>3. \A f \in FormatFlags(form) : f.flag \in ValueNames
              <3>1. \A v, x : Flag("record_format", v, x).flag \in ValueNames BY <1>f DEF ValueNames
              <3> QED BY <3>1 DEF FormatFlags, Only
        <2>4. \A v, x : /\ Flag("new_display", v, x).flag \in ValueNames
                        /\ Flag("tcpip", v, x).flag \in ValueNames
                        /\ Flag("record", v, x).flag \in ValueNames
              BY <1>f DEF ValueNames
        <2> QED BY <2>1, <2>2, <2>3, <2>4, <1>0 DEF ValueFlags
  <1> QED BY <1>1, <1>4, <1>5, <1>6, <1>7, <1>8

LEMMA FlagsByGroup ==
  ASSUME NEW form, NEW n
  PROVE  /\ FlagsOf(ToFlags(form), n)
              = FlagsOf(Differing(form, PlainTexts), n) \cup FlagsOf(CameraFlags(form), n)
                  \cup FlagsOf(ClipboardFlags(form), n) \cup FlagsOf(SwitchFlags(form), n)
                  \cup FlagsOf(SelectorFlags(form), n) \cup FlagsOf(ValueFlags(form), n)
         /\ n \notin PlainTexts => FlagsOf(Differing(form, PlainTexts), n) = {}
         /\ n \notin LensNames => FlagsOf(CameraFlags(form), n) = {}
         /\ n # "clipboard_direction" => FlagsOf(ClipboardFlags(form), n) = {}
         /\ n \notin SwitchNames => FlagsOf(SwitchFlags(form), n) = {}
         /\ n \notin SelectorNames => FlagsOf(SelectorFlags(form), n) = {}
         /\ n \notin ValueNames => FlagsOf(ValueFlags(form), n) = {}
  <1>1. FlagsOf(ToFlags(form), n)
              = FlagsOf(Differing(form, PlainTexts), n) \cup FlagsOf(CameraFlags(form), n)
                  \cup FlagsOf(ClipboardFlags(form), n) \cup FlagsOf(SwitchFlags(form), n)
                  \cup FlagsOf(SelectorFlags(form), n) \cup FlagsOf(ValueFlags(form), n)
        BY DEF ToFlags, FlagsOf
  <1> QED BY <1>1, GroupNames, NoFlags

(* No two groups have a name in common, but for mouse_bind. *)
LEMMA ApartNames ==
  /\ \A n \in PlainTexts : /\ n \notin LensNames /\ n # "clipboard_direction"
                           /\ n \notin SwitchNames
                           /\ n \notin SelectorNames /\ n \notin ValueNames
  /\ \A n \in LensNames : /\ n \notin PlainTexts /\ n # "clipboard_direction"
                          /\ n \notin SwitchNames /\ n \notin SelectorNames /\ n \notin ValueNames
  /\ "clipboard_direction" \notin PlainTexts \cup LensNames \cup SwitchNames \cup SelectorNames
                                    \cup ValueNames
  /\ \A n \in SwitchNames : /\ n \notin PlainTexts /\ n \notin LensNames
                            /\ n # "clipboard_direction" /\ n \notin SelectorNames
                            /\ n \in ValueNames => n = "mouse_bind"
  /\ \A n \in SelectorNames : /\ n \notin PlainTexts /\ n \notin LensNames
                              /\ n # "clipboard_direction" /\ n \notin SwitchNames
                              /\ n \notin ValueNames
  /\ \A n \in ValueNames : /\ n \notin PlainTexts /\ n \notin LensNames
                           /\ n # "clipboard_direction" /\ n \notin SelectorNames
                           /\ n \in SwitchNames => n = "mouse_bind"
  <1>1. \A n \in PlainTexts : n \notin LensNames /\ n # "clipboard_direction"
        BY DEF PlainTexts, LensNames
  <1>2. \A n \in PlainTexts : n \notin SelectorNames /\ n \notin ValueNames
        BY DEF PlainTexts, SelectorNames, ValueNames
  <1>3. \A n \in PlainTexts : n \notin SwitchNames
        BY DEF PlainTexts, SwitchNames, PlainSwitches, Switches
  <1>4. \A n \in LensNames : /\ n # "clipboard_direction" /\ n \notin SelectorNames
                             /\ n \notin ValueNames
        BY DEF LensNames, SelectorNames, ValueNames
  <1>5. \A n \in LensNames : n \notin SwitchNames
        BY DEF LensNames, SwitchNames, PlainSwitches, Switches
  <1>6. "clipboard_direction" \notin SwitchNames \cup SelectorNames \cup ValueNames
        BY DEF SwitchNames, PlainSwitches, Switches, SelectorNames, ValueNames
  <1>7. \A n \in SelectorNames : n \notin SwitchNames /\ n \notin ValueNames
        BY DEF SwitchNames, PlainSwitches, Switches, SelectorNames, ValueNames
  <1>8. \A n \in ValueNames : n \in SwitchNames => n = "mouse_bind"
        BY DEF SwitchNames, PlainSwitches, Switches, ValueNames
  <1> QED BY <1>1, <1>2, <1>3, <1>4, <1>5, <1>6, <1>7, <1>8

(* The flags under each name.                                                *)
Camera(form) == form.text.video_source = "camera"
Picks(form, n) ==
  /\ form.text.serial = "" /\ ~Reached(form)
  /\ ~({"select_usb", "select_tcpip"} \subseteq form.on) /\ n \in form.on

LEMMA OnlyOnly ==
  /\ \A a, b, A : Only(a, Only(b, A)) = Only(a /\ b, A)
  /\ \A a, b, A : (a <=> b) => Only(a, A) = Only(b, A)
  /\ \A a : Only(a, {}) = {}
  /\ \A A : Only(FALSE, A) = {} /\ Only(TRUE, A) = A
  BY DEF Only

LEMMA PlainFlags ==
  ASSUME NEW form, NEW n \in PlainTexts
  PROVE  FlagsOf(ToFlags(form), n) = Only(Says(form, n), {Flag(n, form.text[n], n)})
  <1>1. /\ n \notin LensNames /\ n # "clipboard_direction" /\ n \notin SwitchNames
        /\ n \notin SelectorNames /\ n \notin ValueNames
        BY ApartNames
  <1>2. FlagsOf(ToFlags(form), n) = FlagsOf(Differing(form, PlainTexts), n)
        BY <1>1, FlagsByGroup
  <1> QED BY <1>2, DifferingFlags DEF Only

LEMMA LensFlags ==
  ASSUME NEW form, NEW n \in LensNames
  PROVE  FlagsOf(ToFlags(form), n)
           = Only(/\ Camera(form) /\ Says(form, n)
                  /\ n = "camera_facing" => form.text.camera_id = ""
                  /\ n = "camera_ar" => form.text.camera_size = "",
                  {Flag(n, form.text[n], n)})
  <1> DEFINE S == {"camera_fps",
                   IF form.text.camera_id = "" THEN "camera_facing" ELSE "camera_id",
                   IF form.text.camera_size = "" THEN "camera_ar" ELSE "camera_size"}
             c == /\ n = "camera_facing" => form.text.camera_id = ""
                  /\ n = "camera_ar" => form.text.camera_size = ""
  <1>1. /\ n \notin PlainTexts /\ n # "clipboard_direction" /\ n \notin SwitchNames
        /\ n \notin SelectorNames /\ n \notin ValueNames
        BY ApartNames
  <1>2. FlagsOf(ToFlags(form), n) = FlagsOf(CameraFlags(form), n)
        BY <1>1, FlagsByGroup
  <1>3. CameraFlags(form) = Only(Camera(form), Differing(form, S)) BY DEF CameraFlags, Camera
  <1>4. (n \in S /\ Says(form, n)) <=> (Says(form, n) /\ c)
        BY DEF LensNames, Says
  <1> HIDE DEF S, c
  <1>5. FlagsOf(CameraFlags(form), n) = Only(Camera(form), FlagsOf(Differing(form, S), n))
        BY <1>3, OnlyFlags
  <1>6. FlagsOf(Differing(form, S), n)
          = Only(n \in S /\ Says(form, n), {Flag(n, form.text[n], n)})
        BY DifferingFlags
  <1>7. FlagsOf(ToFlags(form), n)
          = Only(Camera(form) /\ Says(form, n) /\ c, {Flag(n, form.text[n], n)})
        BY <1>2, <1>4, <1>5, <1>6 DEF Only
  <1> QED BY <1>7 DEF c

LEMMA ClipboardFlag ==
  ASSUME NEW form
  PROVE  FlagsOf(ToFlags(form), "clipboard_direction")
           = Only(Direction(form.text.clipboard_direction) \notin {"", "both"},
                  {Flag("clipboard_direction", Direction(form.text.clipboard_direction),
                        "clipboard_direction")})
  <1> DEFINE n == "clipboard_direction"
             d == Direction(form.text.clipboard_direction)
  <1>1. n \notin PlainTexts /\ n \notin LensNames /\ n \notin SwitchNames
        /\ n \notin SelectorNames /\ n \notin ValueNames
        BY ApartNames
  <1>2. FlagsOf(ToFlags(form), n) = FlagsOf(ClipboardFlags(form), n)
        BY <1>1, FlagsByGroup
  <1>3. ClipboardFlags(form) = Only(d \notin {"", "both"}, {Flag(n, d, n)})
        BY DEF ClipboardFlags
  <1> HIDE DEF n, d
  <1>4. FlagsOf(ClipboardFlags(form), n) = Only(d \notin {"", "both"}, {Flag(n, d, n)})
        <2> DEFINE other == d \notin {"", "both"}
                   one == {Flag(n, d, n)}
        <2>1. ClipboardFlags(form) = Only(other, one) BY <1>3
        <2>2. FlagsOf(one, n) = one BY OneFlag DEF Only
        <2> HIDE DEF other, one
        <2>3. FlagsOf(Only(other, one), n) = Only(other, FlagsOf(one, n)) BY OnlyFlags
        <2>4. FlagsOf(ClipboardFlags(form), n) = Only(other, one) BY <2>1, <2>2, <2>3
        <2> QED BY <2>4 DEF other, one
  <1> QED BY <1>2, <1>4 DEF n, d

(* The switches under each name.                                             *)
LEMMA SwitchParts ==
  ASSUME NEW form, NEW n
  PROVE  FlagsOf(SwitchFlags(form), n)
           = Only(n \in PlainSwitches /\ n \in form.on, {Flag(n, "true", n)})
               \cup Only("forward_all_clicks" \in form.on /\ n = "mouse_bind",
                         {Flag("mouse_bind", "++++", "forward_all_clicks")})
               \cup Only(/\ n = "camera_high_speed" /\ Camera(form)
                         /\ form.text.camera_fps # "" /\ n \in form.on,
                         {Flag(n, "true", n)})
  <1> DEFINE click == {Flag("mouse_bind", "++++", "forward_all_clicks")}
             A == On(form, PlainSwitches)
             B == Only("forward_all_clicks" \in form.on, click)
             c == form.text.video_source = "camera" /\ form.text.camera_fps # ""
             C == Only(c, On(form, {"camera_high_speed"}))
  <1>1. SwitchFlags(form) = (A \cup B) \cup C BY DEF SwitchFlags
  <1>2. FlagsOf(A, n) = Only(n \in PlainSwitches /\ n \in form.on, {Flag(n, "true", n)}) BY OnFlags
  <1>3. FlagsOf(B, n) = Only("forward_all_clicks" \in form.on /\ n = "mouse_bind", click)
        <2>1. FlagsOf(B, n) = Only("forward_all_clicks" \in form.on, FlagsOf(click, n))
              BY OnlyFlags
        <2>2. FlagsOf(click, n) = Only(n = "mouse_bind", click) BY OneFlag DEF Only
        <2> QED BY <2>1, <2>2 DEF Only
  <1>4. FlagsOf(C, n) = Only(c /\ n = "camera_high_speed" /\ n \in form.on, {Flag(n, "true", n)})
        <2>1. FlagsOf(C, n) = Only(c, FlagsOf(On(form, {"camera_high_speed"}), n)) BY OnlyFlags
        <2> DEFINE S == {"camera_high_speed"}
        <2> HIDE DEF S, c, C
        <2>2. FlagsOf(On(form, S), n) = Only(n \in S /\ n \in form.on, {Flag(n, "true", n)})
              BY OnFlags
        <2>3. n \in S <=> n = "camera_high_speed" BY DEF S
        <2> QED BY <2>1, <2>2, <2>3 DEF Only, S
  <1> HIDE DEF A, B, C
  <1>5. FlagsOf(SwitchFlags(form), n) = FlagsOf(A, n) \cup FlagsOf(B, n) \cup FlagsOf(C, n)
        BY <1>1 DEF FlagsOf
  <1>6. Only(c /\ n = "camera_high_speed" /\ n \in form.on, {Flag(n, "true", n)})
          = Only(/\ n = "camera_high_speed" /\ Camera(form)
                 /\ form.text.camera_fps # "" /\ n \in form.on,
                 {Flag(n, "true", n)})
        BY DEF Only, Camera
  <1> QED BY <1>2, <1>3, <1>4, <1>5, <1>6

LEMMA SwitchFlag ==
  ASSUME NEW form, NEW n \in PlainSwitches
  PROVE  FlagsOf(ToFlags(form), n) = Only(n \in form.on, {Flag(n, "true", n)})
  <1>1. n \in SwitchNames /\ n \notin {"mouse_bind", "camera_high_speed"}
        BY DEF SwitchNames, PlainSwitches, Switches
  <1>2. /\ n \notin PlainTexts /\ n # "clipboard_direction" /\ n \notin LensNames
        /\ n \notin SelectorNames /\ n \notin ValueNames
        BY <1>1, ApartNames
  <1>3. FlagsOf(ToFlags(form), n) = FlagsOf(SwitchFlags(form), n)
        BY <1>2, FlagsByGroup
  <1> QED BY <1>1, <1>3, SwitchParts DEF Only

LEMMA HighSpeedFlag ==
  ASSUME NEW form
  PROVE  FlagsOf(ToFlags(form), "camera_high_speed")
           = Only(Camera(form) /\ form.text.camera_fps # "" /\ "camera_high_speed" \in form.on,
                  {Flag("camera_high_speed", "true", "camera_high_speed")})
  <1> DEFINE n == "camera_high_speed"
  <1>1. n \in SwitchNames /\ n \notin PlainSwitches /\ n # "mouse_bind"
        BY DEF SwitchNames, PlainSwitches
  <1>2. /\ n \notin PlainTexts /\ n # "clipboard_direction" /\ n \notin LensNames
        /\ n \notin SelectorNames /\ n \notin ValueNames
        BY <1>1, ApartNames
  <1>3. FlagsOf(ToFlags(form), n) = FlagsOf(SwitchFlags(form), n)
        BY <1>2, FlagsByGroup
  <1> QED BY <1>1, <1>3, SwitchParts DEF Only

LEMMA SelectorFlag ==
  ASSUME NEW form, NEW n \in SelectorNames
  PROVE  FlagsOf(ToFlags(form), n) = Only(Picks(form, n), {Flag(n, "true", n)})
  <1> DEFINE c == /\ form.text.serial = "" /\ ~Reached(form)
                  /\ ~({"select_usb", "select_tcpip"} \subseteq form.on)
  <1>1. /\ n \notin PlainTexts /\ n # "clipboard_direction" /\ n \notin LensNames
        /\ n \notin SwitchNames /\ n \notin ValueNames
        BY ApartNames
  <1>2. FlagsOf(ToFlags(form), n) = FlagsOf(SelectorFlags(form), n)
        BY <1>1, FlagsByGroup
  <1>3. SelectorFlags(form) = Only(c, On(form, SelectorNames)) BY DEF SelectorFlags, SelectorNames
  <1>4. Picks(form, n) <=> c /\ n \in form.on BY DEF Picks
  <1> HIDE DEF c
  <1>5. FlagsOf(SelectorFlags(form), n) = Only(c, FlagsOf(On(form, SelectorNames), n))
        BY <1>3, OnlyFlags
  <1> DEFINE on == On(form, SelectorNames)
  <1>6. FlagsOf(on, n) = Only(n \in form.on, {Flag(n, "true", n)})
        BY DEF FlagsOf, Only, Flag, On
  <1>7. FlagsOf(SelectorFlags(form), n) = Only(c, FlagsOf(on, n)) BY <1>5
  <1> HIDE DEF on
  <1> QED BY <1>2, <1>4, <1>6, <1>7 DEF Only

OtherFormat(form) == form.text.record_format # DefaultText.record_format

(* The values under each name.                                               *)
ValuePart(form, n) ==
  Only(form.text.v4l2_sink # "" /\ n \in {"v4l2_sink", "v4l2_buffer"}
           /\ form.text[n] # "", {Flag(n, form.text[n], n)})
      \cup Only("mouse_bind_enabled" \in form.on /\ n = "mouse_bind"
                  /\ form.text[n] # "", {Flag(n, form.text[n], n)})
      \cup Only("new_display_enabled" \in form.on /\ n = "new_display",
                {Flag(n, form.text[n], n)})
      \cup Only(Reached(form) /\ n = "tcpip", {Flag(n, form.text.tcpip_addr, "tcpip_addr")})
      \cup Only("record_enabled" \in form.on /\ form.text.record_path # ""
                  /\ n = "record", {Flag(n, EffectiveRecordPath(form), "record_path")})
      \cup Only("record_enabled" \in form.on /\ form.text.record_path # ""
                  /\ n = "record_format" /\ OtherFormat(form), {Flag(n, form.text[n], n)})

LEMMA ValueParts ==
  ASSUME NEW form, NEW n
  PROVE  FlagsOf(ValueFlags(form), n) = ValuePart(form, n)
  <1> DEFINE A == Only(form.text.v4l2_sink # "", Given(form, {"v4l2_sink", "v4l2_buffer"}))
             B == Only("mouse_bind_enabled" \in form.on, Given(form, {"mouse_bind"}))
             C == Only("new_display_enabled" \in form.on,
                       {Flag("new_display", form.text.new_display, "new_display")})
             D == Only(Reached(form), {Flag("tcpip", form.text.tcpip_addr, "tcpip_addr")})
             r == "record_enabled" \in form.on /\ form.text.record_path # ""
             E == Only(r, {Flag("record", EffectiveRecordPath(form), "record_path")})
             F == Only(r, FormatFlags(form))
  <1>1. ValueFlags(form) = (((A \cup B) \cup C) \cup D) \cup (E \cup F)
        BY DEF ValueFlags, Only
  <1>2. FlagsOf(A, n) = Only(form.text.v4l2_sink # "" /\ n \in {"v4l2_sink", "v4l2_buffer"}
                    /\ form.text[n] # "", {Flag(n, form.text[n], n)})
        <2>1. FlagsOf(A, n) = Only(form.text.v4l2_sink # "",
                                   FlagsOf(Given(form, {"v4l2_sink", "v4l2_buffer"}), n))
              BY OnlyFlags
        <2> DEFINE S == {"v4l2_sink", "v4l2_buffer"}
        <2>2. n \in S <=> n \in {"v4l2_sink", "v4l2_buffer"} OBVIOUS
        <2> HIDE DEF A, S
        <2>3. FlagsOf(Given(form, S), n)
                = Only(n \in S /\ form.text[n] # "", {Flag(n, form.text[n], n)})
              BY GivenFlags
        <2> QED BY <2>1, <2>2, <2>3 DEF Only, S
  <1>3. FlagsOf(B, n) = Only("mouse_bind_enabled" \in form.on /\ n = "mouse_bind"
                           /\ form.text[n] # "", {Flag(n, form.text[n], n)})
        <2>1. FlagsOf(B, n) = Only("mouse_bind_enabled" \in form.on,
                                   FlagsOf(Given(form, {"mouse_bind"}), n))
              BY OnlyFlags
        <2> DEFINE S == {"mouse_bind"}
        <2>2. n \in S <=> n = "mouse_bind" OBVIOUS
        <2> HIDE DEF B, S
        <2>3. FlagsOf(Given(form, S), n)
                = Only(n \in S /\ form.text[n] # "", {Flag(n, form.text[n], n)})
              BY GivenFlags
        <2> QED BY <2>1, <2>2, <2>3 DEF Only, S
  <1>4. FlagsOf(C, n) = Only("new_display_enabled" \in form.on /\ n = "new_display",
                         {Flag(n, form.text[n], n)})
        <2>1. FlagsOf(C, n) = Only("new_display_enabled" \in form.on,
                FlagsOf({Flag("new_display", form.text.new_display, "new_display")}, n))
              BY OnlyFlags
        <2>2. FlagsOf({Flag("new_display", form.text.new_display, "new_display")}, n)
                = Only("new_display" = n,
                       {Flag("new_display", form.text.new_display, "new_display")})
              BY OneFlag
        <2> HIDE DEF C
        <2> QED BY <2>1, <2>2 DEF Only
  <1>5. FlagsOf(D, n)
          = Only(Reached(form) /\ n = "tcpip", {Flag(n, form.text.tcpip_addr, "tcpip_addr")})
        <2>1. FlagsOf(D, n) = Only(Reached(form),
                FlagsOf({Flag("tcpip", form.text.tcpip_addr, "tcpip_addr")}, n))
              BY OnlyFlags
        <2>2. FlagsOf({Flag("tcpip", form.text.tcpip_addr, "tcpip_addr")}, n)
                = Only("tcpip" = n, {Flag("tcpip", form.text.tcpip_addr, "tcpip_addr")})
              BY OneFlag
        <2> HIDE DEF D
        <2> QED BY <2>1, <2>2 DEF Only
  <1>6. FlagsOf(E, n)
          = Only(r /\ n = "record", {Flag(n, EffectiveRecordPath(form), "record_path")})
        <2>1. FlagsOf(E, n) = Only(r,
                FlagsOf({Flag("record", EffectiveRecordPath(form), "record_path")}, n))
              BY OnlyFlags
        <2>2. FlagsOf({Flag("record", EffectiveRecordPath(form), "record_path")}, n)
                = Only("record" = n, {Flag("record", EffectiveRecordPath(form), "record_path")})
              BY OneFlag
        <2> HIDE DEF E, r
        <2> QED BY <2>1, <2>2 DEF Only
  <1>7. FlagsOf(F, n)
          = Only(r /\ n = "record_format" /\ OtherFormat(form), {Flag(n, form.text[n], n)})
        <2>1. FlagsOf(F, n) = Only(r, FlagsOf(FormatFlags(form), n)) BY OnlyFlags
        <2> DEFINE v == form.text.record_format
                   flags == {Flag("record_format", v, "record_format")}
        <2>2. FormatFlags(form) = Only(OtherFormat(form), flags) BY DEF FormatFlags, OtherFormat
        <2>3. FlagsOf(Only(OtherFormat(form), flags), n) = Only(OtherFormat(form), FlagsOf(flags, n))
              BY OnlyFlags
        <2>4. FlagsOf(flags, n) = Only("record_format" = n, flags) BY OneFlag
        <2>5. n = "record_format" => flags = {Flag(n, form.text[n], n)} OBVIOUS
        <2> HIDE DEF F, r, flags, v
        <2> QED BY <2>1, <2>2, <2>3, <2>4, <2>5 DEF Only
  <1>8. FlagsOf(ValueFlags(form), n)
          = FlagsOf(A, n) \cup FlagsOf(B, n) \cup FlagsOf(C, n) \cup FlagsOf(D, n)
              \cup FlagsOf(E, n) \cup FlagsOf(F, n)
        <2> HIDE DEF A, B, C, D, E, F
        <2> QED BY <1>1 DEF FlagsOf
  <1>9. /\ Only(r /\ n = "record", {Flag(n, EffectiveRecordPath(form), "record_path")})
             = Only("record_enabled" \in form.on /\ form.text.record_path # ""
                      /\ n = "record", {Flag(n, EffectiveRecordPath(form), "record_path")})
        /\ Only(r /\ n = "record_format" /\ OtherFormat(form), {Flag(n, form.text[n], n)})
             = Only("record_enabled" \in form.on /\ form.text.record_path # ""
                           /\ n = "record_format" /\ OtherFormat(form), {Flag(n, form.text[n], n)})
        BY DEF Only
  <1> HIDE DEF A, B, C, D, E, F, r
  <1> QED BY <1>2, <1>3, <1>4, <1>5, <1>6, <1>7, <1>8, <1>9 DEF ValuePart

LEMMA ValueFlag ==
  ASSUME NEW form
  PROVE  /\ \A n \in {"v4l2_sink", "v4l2_buffer"} :
              FlagsOf(ToFlags(form), n)
                = Only(form.text.v4l2_sink # "" /\ form.text[n] # "", {Flag(n, form.text[n], n)})
         /\ FlagsOf(ToFlags(form), "new_display")
              = Only("new_display_enabled" \in form.on,
                     {Flag("new_display", form.text.new_display, "new_display")})
         /\ FlagsOf(ToFlags(form), "tcpip")
              = Only(Reached(form), {Flag("tcpip", form.text.tcpip_addr, "tcpip_addr")})
         /\ FlagsOf(ToFlags(form), "record")
              = Only("record_enabled" \in form.on /\ form.text.record_path # "",
                     {Flag("record", EffectiveRecordPath(form), "record_path")})
         /\ FlagsOf(ToFlags(form), "record_format")
              = Only("record_enabled" \in form.on /\ form.text.record_path # ""
                       /\ OtherFormat(form),
                     {Flag("record_format", form.text.record_format, "record_format")})
  <1>1. ASSUME NEW n \in ValueNames \ {"mouse_bind"}
        PROVE  FlagsOf(ToFlags(form), n) = FlagsOf(ValueFlags(form), n)
        <2>1. /\ n \notin PlainTexts /\ n # "clipboard_direction" /\ n \notin LensNames
              /\ n \notin SwitchNames /\ n \notin SelectorNames
              BY ApartNames
        <2> QED BY <2>1, FlagsByGroup
  <1>2. \A n \in {"v4l2_sink", "v4l2_buffer", "new_display", "tcpip", "record", "record_format"} :
          n \in ValueNames \ {"mouse_bind"}
        BY DEF ValueNames
  <1>3. ASSUME NEW n \in {"v4l2_sink", "v4l2_buffer"}
        PROVE  FlagsOf(ValueFlags(form), n)
                 = Only(form.text.v4l2_sink # "" /\ form.text[n] # "", {Flag(n, form.text[n], n)})
        <2>1. FlagsOf(ValueFlags(form), n) = ValuePart(form, n) BY ValueParts
        <2> QED BY <2>1 DEF ValuePart, Only
  <1>4. FlagsOf(ValueFlags(form), "new_display")
              = Only("new_display_enabled" \in form.on,
                     {Flag("new_display", form.text.new_display, "new_display")})
        <2>1. FlagsOf(ValueFlags(form), "new_display") = ValuePart(form, "new_display") BY ValueParts
        <2> QED BY <2>1 DEF ValuePart, Only
  <1>5. FlagsOf(ValueFlags(form), "tcpip")
              = Only(Reached(form), {Flag("tcpip", form.text.tcpip_addr, "tcpip_addr")})
        <2>1. FlagsOf(ValueFlags(form), "tcpip") = ValuePart(form, "tcpip") BY ValueParts
        <2> QED BY <2>1 DEF ValuePart, Only
  <1>6. FlagsOf(ValueFlags(form), "record")
              = Only("record_enabled" \in form.on /\ form.text.record_path # "",
                     {Flag("record", EffectiveRecordPath(form), "record_path")})
        <2>1. FlagsOf(ValueFlags(form), "record") = ValuePart(form, "record") BY ValueParts
        <2> QED BY <2>1 DEF ValuePart, Only
  <1>7. FlagsOf(ValueFlags(form), "record_format")
              = Only("record_enabled" \in form.on /\ form.text.record_path # ""
                       /\ OtherFormat(form),
                     {Flag("record_format", form.text.record_format, "record_format")})
        <2>1. FlagsOf(ValueFlags(form), "record_format") = ValuePart(form, "record_format") BY ValueParts
        <2> QED BY <2>1 DEF ValuePart, Only
  <1> QED BY <1>1, <1>2, <1>3, <1>4, <1>5, <1>6, <1>7

LEMMA MouseBindFlags ==
  ASSUME NEW form
  PROVE  FlagsOf(ToFlags(form), "mouse_bind")
           = Only("forward_all_clicks" \in form.on,
                  {Flag("mouse_bind", "++++", "forward_all_clicks")})
               \cup Only("mouse_bind_enabled" \in form.on /\ form.text.mouse_bind # "",
                         {Flag("mouse_bind", form.text.mouse_bind, "mouse_bind")})
  <1> DEFINE n == "mouse_bind"
  <1>1. n \in SwitchNames /\ n \in ValueNames /\ n \notin PlainSwitches
        BY DEF SwitchNames, ValueNames, PlainSwitches, Switches
  <1>2. /\ n \notin PlainTexts /\ n # "clipboard_direction" /\ n \notin LensNames
        /\ n \notin SelectorNames
        BY <1>1, ApartNames
  <1>3. FlagsOf(ToFlags(form), n) = FlagsOf(SwitchFlags(form), n) \cup FlagsOf(ValueFlags(form), n)
        BY <1>2, FlagsByGroup
  <1>4. FlagsOf(SwitchFlags(form), n)
          = Only("forward_all_clicks" \in form.on,
                  {Flag("mouse_bind", "++++", "forward_all_clicks")})
        BY <1>1, SwitchParts DEF Only
  <1>5. FlagsOf(ValueFlags(form), n)
          = Only("mouse_bind_enabled" \in form.on /\ form.text.mouse_bind # "",
                         {Flag("mouse_bind", form.text.mouse_bind, "mouse_bind")})
        <2>1. FlagsOf(ValueFlags(form), n) = ValuePart(form, n) BY ValueParts
        <2> QED BY <2>1 DEF ValuePart, Only
  <1> QED BY <1>3, <1>4, <1>5

--------------------------------------------------------------------------------
(* What becomes of the flags on their way to a line. *)
IsFlag(f) == f = Flag(f.flag, f.value, f.from)
FlagNames == PlainTexts \cup LensNames \cup {"clipboard_direction"} \cup SwitchNames
               \cup SelectorNames \cup ValueNames

LEMMA FlagFields ==
  ASSUME NEW m, NEW v, NEW x
  PROVE  /\ Flag(m, v, x).flag = m /\ Flag(m, v, x).value = v /\ Flag(m, v, x).from = x
         /\ IsFlag(Flag(m, v, x))
         /\ \A w : [Flag(m, v, x) EXCEPT !.value = w] = Flag(m, w, x)
  BY DEF Flag, IsFlag

LEMMA FlagChanged ==
  ASSUME NEW f, IsFlag(f), NEW w
  PROVE  [f EXCEPT !.value = w] = Flag(f.flag, w, f.from)
  <1> DEFINE m == f.flag
             v == f.value
             x == f.from
  <1>1. f = Flag(m, v, x) BY DEF IsFlag
  <1> HIDE DEF m, v, x
  <1>2. [f EXCEPT !.value = w] = Flag(m, w, x) BY <1>1, FlagFields
  <1> QED BY <1>2 DEF m, x

LEMMA FlagsAreFlags ==
  ASSUME NEW form, NEW f \in ToFlags(form)
  PROVE  IsFlag(f) /\ f.flag \in FlagNames
  <1>0. \A c, A : \A g \in Only(c, A) : g \in A BY DEF Only
  <1>f. \A m, v, x : IsFlag(Flag(m, v, x)) BY FlagFields
  <1>1. \A S : \A g \in Differing(form, S) : IsFlag(g) BY <1>f DEF Differing
  <1>2. \A S : \A g \in Given(form, S) : IsFlag(g) BY <1>f DEF Given
  <1>3. \A S : \A g \in On(form, S) : IsFlag(g) BY <1>f DEF On
  <1>4. \A g \in CameraFlags(form) : IsFlag(g) BY <1>0, <1>1 DEF CameraFlags
  <1>5. \A g \in ClipboardFlags(form) : IsFlag(g)
        <2> DEFINE d == Direction(form.text.clipboard_direction)
                   flags == {Flag("clipboard_direction", d, "clipboard_direction")}
                   c == d \notin {"", "both"}
        <2>1. ClipboardFlags(form) = Only(c, flags) BY DEF ClipboardFlags
        <2>2. \A g \in flags : IsFlag(g) BY <1>f
        <2> HIDE DEF flags, c
        <2> QED BY <2>1, <2>2, <1>0
  <1>6. \A g \in SwitchFlags(form) : IsFlag(g)
        <2> DEFINE click == Flag("mouse_bind", "++++", "forward_all_clicks")
        <2>1. IsFlag(click) BY <1>f
        <2>2. \A g \in On(form, PlainSwitches) \cup On(form, {"camera_high_speed"}) : IsFlag(g)
              BY <1>3
        <2>3. SwitchFlags(form) \subseteq
                On(form, PlainSwitches) \cup On(form, {"camera_high_speed"}) \cup {click}
              BY DEF SwitchFlags, Only
        <2> HIDE DEF click
        <2> QED BY <2>1, <2>2, <2>3
  <1>7. \A g \in SelectorFlags(form) : IsFlag(g) BY <1>0, <1>3 DEF SelectorFlags
  <1>8. \A g \in ValueFlags(form) : IsFlag(g)
        <2> DEFINE a == Flag("new_display", form.text.new_display, "new_display")
                   b == Flag("tcpip", form.text.tcpip_addr, "tcpip_addr")
                   c == Flag("record", EffectiveRecordPath(form), "record_path")
                   G == Given(form, {"v4l2_sink", "v4l2_buffer"}) \cup Given(form, {"mouse_bind"})
                   D == FormatFlags(form)
        <2>1. IsFlag(a) /\ IsFlag(b) /\ IsFlag(c) BY <1>f
        <2>2. \A g \in G \cup D : IsFlag(g)
              <3>1. \A g \in FormatFlags(form) : IsFlag(g) BY <1>f DEF FormatFlags, Only
              <3> QED BY <1>2, <3>1
        <2>3. ValueFlags(form) \subseteq G \cup D \cup {a, b, c}
              BY DEF ValueFlags, Only
        <2> HIDE DEF a, b, c, G, D
        <2> QED BY <2>1, <2>2, <2>3
  <1>9. IsFlag(f) BY <1>1, <1>4, <1>5, <1>6, <1>7, <1>8 DEF ToFlags
  <1>10. f.flag \in FlagNames BY GroupNames DEF ToFlags, FlagNames
  <1> QED BY <1>9, <1>10

LEMMA FilteredFlags ==
  ASSUME NEW A, NEW S, NEW n
  PROVE  FlagsOf({f \in A : f.flag \notin S}, n) = IF n \in S THEN {} ELSE FlagsOf(A, n)
  BY DEF FlagsOf

LEMMA RetaggedFlags ==
  ASSUME NEW A, \A f \in A : IsFlag(f), NEW d, NEW n
  PROVE  /\ \A f \in Retagged(A, d) : IsFlag(f) /\ \E g \in A : f.flag = g.flag
         /\ n # "record" => FlagsOf(Retagged(A, d), n) = FlagsOf(A, n)
         /\ \A c, v, x : FlagsOf(A, "record") = Only(c, {Flag("record", v, x)})
              => FlagsOf(Retagged(A, d), "record")
                   = Only(c, {Flag("record", TagFileName(v, d), x)})
  <1> DEFINE m(f) == IF f.flag = "record" THEN [f EXCEPT !.value = TagFileName(f.value, d)] ELSE f
  <1>1. \A f \in A : m(f) = IF f.flag = "record"
                            THEN Flag("record", TagFileName(f.value, d), f.from) ELSE f
        BY FlagChanged
  <1>2. \A f \in A : IsFlag(m(f)) /\ m(f).flag = f.flag
        BY <1>1, FlagFields
  <1>3. Retagged(A, d) = {m(f) : f \in A} BY DEF Retagged
  <1>4. \A f \in A : f.flag # "record" => m(f) = f OBVIOUS
  <1> HIDE DEF m
  <1>5. \A f \in Retagged(A, d) : IsFlag(f) /\ \E g \in A : f.flag = g.flag BY <1>2, <1>3
  <1>6. n # "record" => FlagsOf(Retagged(A, d), n) = FlagsOf(A, n)
        BY <1>2, <1>3, <1>4 DEF FlagsOf
  <1>7. FlagsOf(Retagged(A, d), "record") = {m(f) : f \in FlagsOf(A, "record")}
        BY <1>2, <1>3 DEF FlagsOf
  <1>8. ASSUME NEW c, NEW v, NEW x, FlagsOf(A, "record") = Only(c, {Flag("record", v, x)})
        PROVE  FlagsOf(Retagged(A, d), "record") = Only(c, {Flag("record", TagFileName(v, d), x)})
        <2>1. CASE c
              <3>1. FlagsOf(A, "record") = {Flag("record", v, x)} BY <1>8, <2>1 DEF Only
              <3>2. Flag("record", v, x) \in A BY <3>1 DEF FlagsOf
              <3>3. m(Flag("record", v, x)) = Flag("record", TagFileName(v, d), x)
                    BY <1>1, <3>2, FlagFields
              <3> QED BY <1>7, <2>1, <3>1, <3>3 DEF Only
        <2>2. CASE ~c BY <1>7, <1>8, <2>2 DEF Only
        <2> QED BY <2>1, <2>2
  <1> QED BY <1>5, <1>6, <1>8

LEMMA ClientFlags ==
  ASSUME NEW form, NEW n
  PROVE  /\ \A f \in ToClientArgs(form) : IsFlag(f) /\ f.flag \in FlagNames
         /\ n \in Unsupported => FlagsOf(ToClientArgs(form), n) = {}
         /\ n \notin Unsupported \cup BitRates
              => FlagsOf(ToClientArgs(form), n) = FlagsOf(ToFlags(form), n)
         /\ n \in BitRates
              => FlagsOf(ToClientArgs(form), n)
                   = Only(Says(form, n), {Flag(n, Rewritten(form.text[n], Expanded), n)})
  <1> DEFINE A == {g \in ToFlags(form) : g.flag \notin Unsupported}
             m(f) == IF f.flag \in BitRates
                     THEN [f EXCEPT !.value = Rewritten(f.value, Expanded)] ELSE f
  <1>0. \A f \in A : IsFlag(f) /\ f.flag \in FlagNames BY FlagsAreFlags
  <1>1. \A f \in A : m(f) = IF f.flag \in BitRates
                            THEN Flag(f.flag, Rewritten(f.value, Expanded), f.from) ELSE f
        BY <1>0, FlagChanged
  <1>2. \A f \in A : IsFlag(m(f)) /\ m(f).flag = f.flag
        BY <1>0, <1>1, FlagFields
  <1>3. ToClientArgs(form) = {m(f) : f \in A} BY DEF ToClientArgs
  <1>4. \A f \in A : f.flag \notin BitRates => m(f) = f OBVIOUS
  <1>a. FlagsOf(A, n) = IF n \in Unsupported THEN {} ELSE FlagsOf(ToFlags(form), n)
        BY FilteredFlags
  <1> HIDE DEF m, A
  <1>5. \A f \in ToClientArgs(form) : IsFlag(f) /\ f.flag \in FlagNames BY <1>0, <1>2, <1>3
  <1>6. FlagsOf(ToClientArgs(form), n) = {m(f) : f \in FlagsOf(A, n)}
        BY <1>2, <1>3 DEF FlagsOf
  <1>7. n \in Unsupported => FlagsOf(ToClientArgs(form), n) = {}
        BY <1>a, <1>6
  <1>8. n \notin BitRates => FlagsOf(ToClientArgs(form), n) = FlagsOf(A, n)
        BY <1>2, <1>3, <1>4 DEF FlagsOf
  <1>9. ASSUME n \in BitRates
        PROVE  FlagsOf(ToClientArgs(form), n)
                   = Only(Says(form, n), {Flag(n, Rewritten(form.text[n], Expanded), n)})
        <2>1. n \in PlainTexts /\ n \notin Unsupported
              BY <1>9 DEF BitRates, PlainTexts, Unsupported
        <2>2. FlagsOf(A, n) = Only(Says(form, n), {Flag(n, form.text[n], n)})
              BY <1>a, <2>1, PlainFlags
        <2>3. CASE Says(form, n)
              <3>1. FlagsOf(A, n) = {Flag(n, form.text[n], n)} BY <2>2, <2>3 DEF Only
              <3>2. Flag(n, form.text[n], n) \in A BY <3>1 DEF FlagsOf
              <3>3. m(Flag(n, form.text[n], n)) = Flag(n, Rewritten(form.text[n], Expanded), n)
                    BY <1>1, <1>9, <3>2, FlagFields
              <3> QED BY <1>6, <2>3, <3>1, <3>3 DEF Only
        <2>4. CASE ~Says(form, n) BY <1>6, <2>2, <2>4 DEF Only
        <2> QED BY <2>3, <2>4
  <1> QED BY <1>5, <1>7, <1>8, <1>9, <1>a

--------------------------------------------------------------------------------
(* A line of flags that says what form says, for a device or for NoDevice:   *)
(* the bar's and a client's, the line of one device and of the only one.     *)
Altered == BitRates \cup {"serial", "record"} \cup SelectorNames \cup Unsupported
Records(form) == "record_enabled" \in form.on /\ form.text.record_path # ""
FileOf(form, d) ==
  IF d = NoDevice THEN EffectiveRecordPath(form) ELSE TagFileName(EffectiveRecordPath(form), d)

IsLine(line, form, d) ==
  /\ \A f \in line : IsFlag(f) /\ f.flag \in FlagNames
  /\ \A n : n \notin Altered => FlagsOf(line, n) = FlagsOf(ToFlags(form), n)
  /\ \A n \in BitRates :
       \/ FlagsOf(line, n) = Only(Says(form, n), {Flag(n, form.text[n], n)})
       \/ FlagsOf(line, n) = Only(Says(form, n), {Flag(n, Rewritten(form.text[n], Expanded), n)})
  /\ FlagsOf(line, "serial")
       = IF d = NoDevice
         THEN Only(Says(form, "serial"), {Flag("serial", form.text.serial, "serial")})
         ELSE {Flag("serial", d, "loop")}
  /\ FlagsOf(line, "record") = Only(Records(form), {Flag("record", FileOf(form, d), "record_path")})
  /\ \A n \in SelectorNames :
       \/ FlagsOf(line, n) = Only(Picks(form, n), {Flag(n, "true", n)})
       \/ d # NoDevice /\ FlagsOf(line, n) = {}
  /\ \A n \in Unsupported :
       FlagsOf(line, n) = FlagsOf(ToFlags(form), n) \/ FlagsOf(line, n) = {}

LEMMA RecordFlag ==
  ASSUME NEW form
  PROVE  FlagsOf(ToFlags(form), "record")
           = Only(Records(form), {Flag("record", EffectiveRecordPath(form), "record_path")})
  BY ValueFlag DEF Records, Only

LEMMA SerialFlag ==
  ASSUME NEW form
  PROVE  FlagsOf(ToFlags(form), "serial")
           = Only(Says(form, "serial"), {Flag("serial", form.text.serial, "serial")})
  <1>1. "serial" \in PlainTexts BY DEF PlainTexts
  <1> QED BY <1>1, PlainFlags

LEMMA AlteredNames ==
  /\ BitRates \subseteq PlainTexts
  /\ \A n \in BitRates : n \notin {"serial", "record"} /\ n \notin SelectorNames
                         /\ n \notin Unsupported
  /\ \A n \in SelectorNames : n \notin {"serial", "record"} /\ n \notin Unsupported
                              /\ n \notin BitRates
  /\ \A n \in Unsupported : n \notin {"serial", "record"} /\ n \notin BitRates
                              /\ n \notin SelectorNames
  /\ "serial" \notin SelectorNames /\ "record" \notin SelectorNames
  /\ "serial" \notin Unsupported \cup BitRates /\ "record" \notin Unsupported \cup BitRates
  /\ "serial" \in FlagNames
  BY DEF BitRates, PlainTexts, SelectorNames, Unsupported, FlagNames

LEMMA BarLine ==
  ASSUME NEW form
  PROVE  IsLine(ToFlags(form), form, NoDevice)
  <1>1. \A f \in ToFlags(form) : IsFlag(f) /\ f.flag \in FlagNames BY FlagsAreFlags
  <1>2. \A n \in BitRates :
          FlagsOf(ToFlags(form), n) = Only(Says(form, n), {Flag(n, form.text[n], n)})
        BY AlteredNames, PlainFlags
  <1>3. \A n \in SelectorNames :
          FlagsOf(ToFlags(form), n) = Only(Picks(form, n), {Flag(n, "true", n)})
        BY SelectorFlag
  <1> QED BY <1>1, <1>2, <1>3, SerialFlag, RecordFlag DEF IsLine, FileOf

LEMMA ClientLine ==
  ASSUME NEW form
  PROVE  IsLine(ToClientArgs(form), form, NoDevice)
  <1> DEFINE line == ToClientArgs(form)
  <1>1. \A f \in line : IsFlag(f) /\ f.flag \in FlagNames BY ClientFlags
  <1>2. \A n \in BitRates : FlagsOf(line, n)
          = Only(Says(form, n), {Flag(n, Rewritten(form.text[n], Expanded), n)})
        BY ClientFlags
  <1>3. \A n : n \notin Unsupported \cup BitRates
          => FlagsOf(line, n) = FlagsOf(ToFlags(form), n)
        BY ClientFlags
  <1>4. \A n \in SelectorNames : FlagsOf(line, n) = Only(Picks(form, n), {Flag(n, "true", n)})
        BY <1>3, AlteredNames, SelectorFlag
  <1>5. \A n \in Unsupported : FlagsOf(line, n) = {} BY ClientFlags
  <1>6. FlagsOf(line, "serial")
          = Only(Says(form, "serial"), {Flag("serial", form.text.serial, "serial")})
        BY <1>3, AlteredNames, SerialFlag
  <1>7. FlagsOf(line, "record")
          = Only(Records(form), {Flag("record", EffectiveRecordPath(form), "record_path")})
        BY <1>3, AlteredNames, RecordFlag
  <1>8. \A n : n \notin Altered => FlagsOf(line, n) = FlagsOf(ToFlags(form), n)
        BY <1>3 DEF Altered
  <1> HIDE DEF line
  <1>9. IsLine(line, form, NoDevice)
        BY <1>1, <1>2, <1>4, <1>5, <1>6, <1>7, <1>8 DEF IsLine, FileOf
  <1> QED BY <1>9 DEF line

(* What is left of a line when some names are taken off it, a device is      *)
(* named and the file is tagged with it.                                     *)
Looped(flags, off, d) ==
  Retagged({f \in flags : f.flag \notin off}, d) \cup {Flag("serial", d, "loop")}

LEMMA LoopedLine ==
  ASSUME NEW form, NEW flags, IsLine(flags, form, NoDevice), NEW d, d # NoDevice,
         NEW off, off = {"serial"} \/ off = {"serial"} \cup SelectorNames
  PROVE  IsLine(Looped(flags, off, d), form, d)
  <1> DEFINE A == {f \in flags : f.flag \notin off}
             R == Retagged(A, d)
             line == R \cup {Flag("serial", d, "loop")}
  <1>1. \A n : FlagsOf(A, n) = IF n \in off THEN {} ELSE FlagsOf(flags, n) BY FilteredFlags
  <1>2. \A f \in A : IsFlag(f) /\ f.flag \in FlagNames BY DEF IsLine
  <1>3. Looped(flags, off, d) = line BY DEF Looped
  <1>4. "serial" \in off /\ "record" \notin off /\ \A n \in off : n = "serial" \/ n \in SelectorNames
        BY AlteredNames
  <1> HIDE DEF A
  <1>5. \A n : n # "record" => FlagsOf(R, n) = FlagsOf(A, n) BY <1>2, RetaggedFlags
  <1>6. \A f \in R : IsFlag(f) /\ f.flag \in FlagNames BY <1>2, RetaggedFlags
  <1>7. FlagsOf(R, "record") = Only(Records(form), {Flag("record", FileOf(form, d), "record_path")})
        <2>1. FlagsOf(A, "record")
                = Only(Records(form), {Flag("record", EffectiveRecordPath(form), "record_path")})
              BY <1>1, <1>4 DEF IsLine, FileOf
        <2>2. FlagsOf(R, "record")
                = Only(Records(form),
                       {Flag("record", TagFileName(EffectiveRecordPath(form), d), "record_path")})
              BY <1>2, <2>1, RetaggedFlags
        <2> QED BY <2>2 DEF FileOf
  <1> HIDE DEF R
  <1> DEFINE loop == Flag("serial", d, "loop")
  <1>8. IsFlag(loop) /\ loop.flag = "serial" BY FlagFields
  <1> HIDE DEF loop
  <1>9. line = R \cup {loop} BY DEF loop
  <1> HIDE DEF line
  <1>10. \A n : FlagsOf(line, n) = IF n = "serial" THEN FlagsOf(R, n) \cup {loop} ELSE FlagsOf(R, n)
         BY <1>8, <1>9 DEF FlagsOf
  <1>11. FlagsOf(line, "serial") = {loop} BY <1>1, <1>4, <1>5, <1>10
  <1>12. FlagsOf(line, "record")
           = Only(Records(form), {Flag("record", FileOf(form, d), "record_path")})
         BY <1>7, <1>10
  <1>13. \A n : n \notin {"serial", "record"} /\ n \notin SelectorNames
           => FlagsOf(line, n) = FlagsOf(flags, n)
         BY <1>1, <1>4, <1>5, <1>10
  <1>14. \A n \in SelectorNames : FlagsOf(line, n) = FlagsOf(flags, n) \/ FlagsOf(line, n) = {}
         BY <1>1, <1>5, <1>10, AlteredNames
  <1>15. \A f \in line : IsFlag(f) /\ f.flag \in FlagNames
         BY <1>6, <1>8, <1>9, AlteredNames
  <1>16. \A n : n \notin Altered => FlagsOf(line, n) = FlagsOf(ToFlags(form), n)
         BY <1>13 DEF IsLine, Altered
  <1>17. \A n \in BitRates :
           \/ FlagsOf(line, n) = Only(Says(form, n), {Flag(n, form.text[n], n)})
           \/ FlagsOf(line, n)
                = Only(Says(form, n), {Flag(n, Rewritten(form.text[n], Expanded), n)})
         BY <1>13, AlteredNames DEF IsLine
  <1>18. \A n \in SelectorNames :
           FlagsOf(line, n) = Only(Picks(form, n), {Flag(n, "true", n)}) \/ FlagsOf(line, n) = {}
         BY <1>14 DEF IsLine
  <1>19. \A n \in Unsupported :
           FlagsOf(line, n) = FlagsOf(ToFlags(form), n) \/ FlagsOf(line, n) = {}
         BY <1>13, AlteredNames DEF IsLine
  <1>20. IsLine(line, form, d)
         BY <1>11, <1>12, <1>15, <1>16, <1>17, <1>18, <1>19 DEF IsLine, loop
  <1> QED BY <1>3, <1>20 DEF line, R

LEMMA BarLineFor ==
  ASSUME NEW form, NEW d, d # NoDevice
  PROVE  IsLine(LineFor(form, d), form, d)
  <1> DEFINE off == {"serial"} \cup SelectorNames
  <1>1. LineFor(form, d) = Looped(ToFlags(form), off, d)
        <2>1. \A n : n \in off <=> n \in {"serial", "select_usb", "select_tcpip"}
              BY DEF SelectorNames
        <2> QED BY <2>1 DEF LineFor, Looped
  <1> HIDE DEF off
  <1>2. IsLine(ToFlags(form), form, NoDevice) BY BarLine
  <1>3. off = {"serial"} \cup SelectorNames BY DEF off
  <1> QED BY <1>1, <1>2, <1>3, LoopedLine

LEMMA ClientLineFor ==
  ASSUME NEW form, NEW d, d # NoDevice
  PROVE  IsLine(ForDevice(ToClientArgs(form), d), form, d)
  <1> DEFINE off == {"serial"}
  <1>1. ForDevice(ToClientArgs(form), d) = Looped(ToClientArgs(form), off, d)
        BY DEF ForDevice, Looped
  <1>2. off = {"serial"} OBVIOUS
  <1> HIDE DEF off
  <1>3. IsLine(ToClientArgs(form), form, NoDevice) BY ClientLine
  <1> QED BY <1>1, <1>2, <1>3, LoopedLine

--------------------------------------------------------------------------------
(* The table of the options, those the form or a client's own part speaks of. *)
LEMMA StreamTable ==
  /\ \A o \in {"no_audio", "no_video", "no_control", "fullscreen", "always_on_top",
            "borderless", "turn_screen_off", "force_adb_forward"} :
       o \in DOMAIN Options /\ Options[o] = Switch
  /\ \A o \in {"serial", "tcpip", "max_fps", "window_title", "record", "crop"} :
       o \in DOMAIN Options /\ Options[o] = Optional
  /\ \A o \in {"max_size", "video_bit_rate", "video_codec", "video_buffer", "port_range"} :
       o \in DOMAIN Options
  /\ Options.max_size = Takes("u16", "0")
  /\ Options.video_bit_rate = Takes("bits", "8000000")
  /\ Options.video_codec = Text("h264")
  /\ Options.video_buffer = Takes("u32", "0")
  /\ Options.port_range = Text("27183:27199")
  <1> DEFINE S == {"no_audio", "no_video", "no_control", "fullscreen", "always_on_top",
                   "borderless", "turn_screen_off",
                   "force_adb_forward"}
             N == {"serial", "tcpip", "max_fps", "window_title", "record", "crop"}
             R == {"max_size", "video_bit_rate", "video_codec", "video_buffer",
                   "port_range"}
  <1>1. \A o \in S : o \in DOMAIN StreamOptions /\ StreamOptions[o] = Switch BY DEF StreamOptions
  <1>2. \A o \in N : o \in DOMAIN StreamOptions /\ StreamOptions[o] = Optional BY DEF StreamOptions
  <1>3. \A o \in R : o \in DOMAIN StreamOptions BY DEF StreamOptions
  <1>4. /\ StreamOptions.max_size = Takes("u16", "0")
        /\ StreamOptions.video_bit_rate = Takes("bits", "8000000")
        /\ StreamOptions.video_codec = Text("h264")
        /\ StreamOptions.video_buffer = Takes("u32", "0")
        /\ StreamOptions.port_range = Text("27183:27199")
        BY DEF StreamOptions
  <1>5. \A o \in S \cup N \cup R : o \in DOMAIN Options /\ Options[o] = StreamOptions[o]
        BY <1>1, <1>2, <1>3, InStream
  <1>6. /\ Options.max_size = StreamOptions.max_size
        /\ Options.video_bit_rate = StreamOptions.video_bit_rate
        /\ Options.video_codec = StreamOptions.video_codec
        /\ Options.video_buffer = StreamOptions.video_buffer
        /\ Options.port_range = StreamOptions.port_range
        BY <1>5
  <1> QED BY <1>1, <1>2, <1>4, <1>5, <1>6

LEMMA DeviceTable ==
  /\ \A o \in {"print_fps", "show_touches", "stay_awake", "no_power_on",
            "no_vd_destroy_content", "no_vd_system_decorations",
            "select_usb", "select_tcpip", "forward_all_clicks",
            "prefer_text", "raw_key_events", "power_off_on_close"} :
       o \in DOMAIN Options /\ Options[o] = Switch
  /\ \A o \in {"tunnel_host", "video_encoder", "audio_encoder"} :
       o \in DOMAIN Options /\ Options[o] = Optional
  /\ \A o \in {"power_on", "clipboard_direction", "v4l2_buffer", "tunnel_port",
            "verbosity", "display_id", "time_limit", "audio_bit_rate",
            "audio_source"} : o \in DOMAIN Options
  /\ Options.power_on = Stays
  /\ Options.clipboard_direction = OneOf({"both", "to-device", "to-pc"}, "both")
  /\ Options.v4l2_buffer = Takes("u32", "0")
  /\ Options.tunnel_port = Takes("u16", NotGiven)
  /\ Options.verbosity = OneOf(LogLevels, "info")
  /\ Options.display_id = Takes("u32", NotGiven)
  /\ Options.time_limit = Takes("u32", NotGiven)
  /\ Options.audio_bit_rate = Takes("bits", "128000")
  /\ Options.audio_source = OneOf(AudioSources, NotGiven)
  <1> DEFINE S == {"print_fps", "show_touches", "stay_awake", "no_power_on",
                   "no_vd_destroy_content",
                   "no_vd_system_decorations", "select_usb",
                   "select_tcpip", "forward_all_clicks",
                   "prefer_text", "raw_key_events",
                   "power_off_on_close"}
             N == {"tunnel_host", "video_encoder", "audio_encoder"}
             R == {"power_on", "clipboard_direction", "v4l2_buffer", "tunnel_port",
                   "verbosity", "display_id", "time_limit",
                   "audio_bit_rate", "audio_source"}
  <1>1. \A o \in S : o \in DOMAIN DeviceOptions /\ DeviceOptions[o] = Switch BY DEF DeviceOptions
  <1>2. \A o \in N : o \in DOMAIN DeviceOptions /\ DeviceOptions[o] = Optional BY DEF DeviceOptions
  <1>3. \A o \in R : o \in DOMAIN DeviceOptions BY DEF DeviceOptions
  <1>4. /\ DeviceOptions.power_on = Stays
        /\ DeviceOptions.clipboard_direction = OneOf({"both", "to-device", "to-pc"}, "both")
        /\ DeviceOptions.v4l2_buffer = Takes("u32", "0")
        /\ DeviceOptions.tunnel_port = Takes("u16", NotGiven)
        /\ DeviceOptions.verbosity = OneOf(LogLevels, "info")
        /\ DeviceOptions.display_id = Takes("u32", NotGiven)
        /\ DeviceOptions.time_limit = Takes("u32", NotGiven)
        /\ DeviceOptions.audio_bit_rate = Takes("bits", "128000")
        /\ DeviceOptions.audio_source = OneOf(AudioSources, NotGiven)
        BY DEF DeviceOptions
  <1>5. \A o \in S \cup N \cup R : o \notin DOMAIN StreamOptions BY DEF StreamOptions
  <1>6. \A o \in S \cup N \cup R : o \in DOMAIN Options /\ Options[o] = DeviceOptions[o]
        BY <1>1, <1>2, <1>3, <1>5, InDevice
  <1>7. /\ Options.power_on = DeviceOptions.power_on
        /\ Options.clipboard_direction = DeviceOptions.clipboard_direction
        /\ Options.v4l2_buffer = DeviceOptions.v4l2_buffer
        /\ Options.tunnel_port = DeviceOptions.tunnel_port
        /\ Options.verbosity = DeviceOptions.verbosity
        /\ Options.display_id = DeviceOptions.display_id
        /\ Options.time_limit = DeviceOptions.time_limit
        /\ Options.audio_bit_rate = DeviceOptions.audio_bit_rate
        /\ Options.audio_source = DeviceOptions.audio_source
        BY <1>6
  <1> QED BY <1>1, <1>2, <1>4, <1>6, <1>7

LEMMA InputTable ==
  /\ \A o \in {"camera_high_speed", "otg", "no_mipmaps", "no_clipboard_autosync",
            "disable_screensaver"} :
       o \in DOMAIN Options /\ Options[o] = Switch
  /\ \A o \in {"camera_id", "camera_size", "camera_facing", "camera_ar", "record_format"} :
       o \in DOMAIN Options /\ Options[o] = Optional
  /\ \A o \in {"video_source", "camera_fps", "keyboard", "mouse", "gamepad",
            "key_inject_mode", "window_x", "window_y", "window_width",
            "window_height", "shortcut_mod", "audio_codec",
            "clipboard_autosync"} : o \in DOMAIN Options
  /\ Options.video_source = Text("display")
  /\ Options.camera_fps = Takes("u32", NotGiven)
  /\ Options.keyboard = OneOf({"sdk", "uhid", "aoa", "disabled"}, "sdk")
  /\ Options.mouse = OneOf({"sdk", "uhid", "aoa", "disabled"}, "sdk")
  /\ Options.gamepad = OneOf({"disabled", "uhid", "aoa"}, "disabled")
  /\ Options.key_inject_mode = Text("mixed")
  /\ Options.window_x = Takes("i16", NotGiven)
  /\ Options.window_y = Takes("i16", NotGiven)
  /\ Options.window_width = Takes("u16", NotGiven)
  /\ Options.window_height = Takes("u16", NotGiven)
  /\ Options.shortcut_mod = Text("lalt")
  /\ Options.audio_codec = Text("opus")
  /\ Options.clipboard_autosync = Stays
  <1> DEFINE S == {"camera_high_speed", "otg", "no_mipmaps", "no_clipboard_autosync",
                   "disable_screensaver"}
             N == {"camera_id", "camera_size", "camera_facing", "camera_ar",
                   "record_format"}
             R == {"video_source", "camera_fps", "keyboard", "mouse", "gamepad",
                   "key_inject_mode", "window_x", "window_y",
                   "window_width", "window_height", "shortcut_mod",
                   "audio_codec", "clipboard_autosync"}
  <1>1. \A o \in S : o \in DOMAIN InputOptions /\ InputOptions[o] = Switch BY DEF InputOptions
  <1>2. \A o \in N : o \in DOMAIN InputOptions /\ InputOptions[o] = Optional BY DEF InputOptions
  <1>3. \A o \in R : o \in DOMAIN InputOptions BY DEF InputOptions
  <1>4. /\ InputOptions.video_source = Text("display")
        /\ InputOptions.camera_fps = Takes("u32", NotGiven)
        /\ InputOptions.keyboard = OneOf({"sdk", "uhid", "aoa", "disabled"}, "sdk")
        /\ InputOptions.mouse = OneOf({"sdk", "uhid", "aoa", "disabled"}, "sdk")
        /\ InputOptions.gamepad = OneOf({"disabled", "uhid", "aoa"}, "disabled")
        /\ InputOptions.key_inject_mode = Text("mixed")
        /\ InputOptions.window_x = Takes("i16", NotGiven)
        /\ InputOptions.window_y = Takes("i16", NotGiven)
        /\ InputOptions.window_width = Takes("u16", NotGiven)
        /\ InputOptions.window_height = Takes("u16", NotGiven)
        /\ InputOptions.shortcut_mod = Text("lalt")
        /\ InputOptions.audio_codec = Text("opus")
        /\ InputOptions.clipboard_autosync = Stays
        BY DEF InputOptions
  <1>5. \A o \in S \cup N \cup R : o \notin DOMAIN StreamOptions BY DEF StreamOptions
  <1>6. \A o \in S \cup N \cup R : o \notin DOMAIN DeviceOptions BY DEF DeviceOptions
  <1>7. \A o \in S \cup N \cup R : o \in DOMAIN Options /\ Options[o] = InputOptions[o]
        BY <1>1, <1>2, <1>3, <1>5, <1>6, InInput
  <1>8. /\ Options.video_source = InputOptions.video_source
        /\ Options.camera_fps = InputOptions.camera_fps
        /\ Options.keyboard = InputOptions.keyboard
        /\ Options.mouse = InputOptions.mouse
        /\ Options.gamepad = InputOptions.gamepad
        /\ Options.key_inject_mode = InputOptions.key_inject_mode
        /\ Options.window_x = InputOptions.window_x
        /\ Options.window_y = InputOptions.window_y
        /\ Options.window_width = InputOptions.window_width
        /\ Options.window_height = InputOptions.window_height
        /\ Options.shortcut_mod = InputOptions.shortcut_mod
        /\ Options.audio_codec = InputOptions.audio_codec
        /\ Options.clipboard_autosync = InputOptions.clipboard_autosync
        BY <1>7
  <1> QED BY <1>1, <1>2, <1>4, <1>7, <1>8

LEMMA WindowTable ==
  /\ \A o \in {"no_cleanup", "kill_adb_on_close", "no_video_playback", "no_window",
            "no_audio_playback", "no_playback", "require_audio",
            "legacy_paste", "audio_dup"} :
       o \in DOMAIN Options /\ Options[o] = Switch
  /\ \A o \in {"start_app", "v4l2_sink", "new_display", "mouse_bind"} :
       o \in DOMAIN Options /\ Options[o] = Optional
  /\ \A o \in {"audio_buffer", "display_orientation", "record_orientation", "orientation",
            "audio_output_buffer"} : o \in DOMAIN Options
  /\ Options.audio_buffer = Takes("u32", "50")
  /\ Options.display_orientation
       = OneOf(Quarters \cup {"flip0", "flip90", "flip180", "flip270"}, NotGiven)
  /\ Options.record_orientation = OneOf(Quarters, NotGiven)
  /\ Options.orientation = OneOf(Quarters, "0")
  /\ Options.audio_output_buffer = Takes("u32", "5")
  <1> DEFINE S == {"no_cleanup", "kill_adb_on_close", "no_video_playback", "no_window",
                   "no_audio_playback", "no_playback",
                   "require_audio", "legacy_paste", "audio_dup"}
             N == {"start_app", "v4l2_sink", "new_display", "mouse_bind"}
             R == {"audio_buffer", "display_orientation", "record_orientation",
                   "orientation", "audio_output_buffer"}
  <1>1. \A o \in S : o \in DOMAIN WindowOptions /\ WindowOptions[o] = Switch BY DEF WindowOptions
  <1>2. \A o \in N : o \in DOMAIN WindowOptions /\ WindowOptions[o] = Optional BY DEF WindowOptions
  <1>3. \A o \in R : o \in DOMAIN WindowOptions BY DEF WindowOptions
  <1>4. /\ WindowOptions.audio_buffer = Takes("u32", "50")
        /\ WindowOptions.display_orientation
             = OneOf(Quarters \cup {"flip0", "flip90", "flip180", "flip270"}, NotGiven)
        /\ WindowOptions.record_orientation = OneOf(Quarters, NotGiven)
        /\ WindowOptions.orientation = OneOf(Quarters, "0")
        /\ WindowOptions.audio_output_buffer = Takes("u32", "5")
        BY DEF WindowOptions
  <1>5. \A o \in S \cup N \cup R : o \notin DOMAIN StreamOptions BY DEF StreamOptions
  <1>6. \A o \in S \cup N \cup R : o \notin DOMAIN DeviceOptions BY DEF DeviceOptions
  <1>7. \A o \in S \cup N \cup R : o \notin DOMAIN InputOptions BY DEF InputOptions
  <1>8. \A o \in S \cup N \cup R : o \in DOMAIN Options /\ Options[o] = WindowOptions[o]
        BY <1>1, <1>2, <1>3, <1>5, <1>6, <1>7, InWindow
  <1>9. /\ Options.audio_buffer = WindowOptions.audio_buffer
        /\ Options.display_orientation = WindowOptions.display_orientation
        /\ Options.record_orientation = WindowOptions.record_orientation
        /\ Options.orientation = WindowOptions.orientation
        /\ Options.audio_output_buffer = WindowOptions.audio_output_buffer
        BY <1>8
  <1> QED BY <1>1, <1>2, <1>4, <1>8, <1>9

--------------------------------------------------------------------------------
(* The option of a flag, and what parsing a line makes of it.                *)
LEMMA OptionNames ==
  /\ OptionOf("port") = "port_range" /\ OptionOf("window_borderless") = "borderless"
  /\ \A n : n \notin {"port", "window_borderless"} => OptionOf(n) = n
  BY DEF OptionOf, Rewritten

LEMMA OptionsApart ==
  ASSUME NEW m \in FlagNames, NEW n \in FlagNames, OptionOf(m) = OptionOf(n)
  PROVE  m = n
  <1>1. "port_range" \notin PlainTexts /\ "borderless" \notin PlainTexts BY DEF PlainTexts
  <1>2. "port_range" \notin SwitchNames /\ "borderless" \notin SwitchNames
        BY DEF SwitchNames, PlainSwitches, Switches
  <1>3. /\ "port_range" \notin LensNames \cup SelectorNames \cup ValueNames
        /\ "borderless" \notin LensNames \cup SelectorNames \cup ValueNames
        BY DEF LensNames, SelectorNames, ValueNames
  <1>4. "port_range" \notin FlagNames /\ "borderless" \notin FlagNames
        BY <1>1, <1>2, <1>3 DEF FlagNames
  <1> QED BY <1>4, OptionNames

(* Every switch of the form is a switch of the client.                       *)
LEMMA SwitchOptions ==
  /\ \A s \in PlainSwitches : OptionOf(s) \in DOMAIN Options /\ Options[OptionOf(s)] = Switch
  /\ \A s \in SelectorNames \cup {"camera_high_speed", "no_window", "forward_all_clicks"} :
       OptionOf(s) = s /\ s \in DOMAIN Options /\ Options[s] = Switch
  <1> DEFINE W == {"no_audio", "no_video", "no_control", "fullscreen", "always_on_top",
                   "borderless", "turn_screen_off", "force_adb_forward", "print_fps",
                   "show_touches", "stay_awake", "no_power_on", "no_vd_destroy_content",
                   "no_vd_system_decorations", "select_usb", "select_tcpip",
                   "forward_all_clicks", "prefer_text", "raw_key_events", "power_off_on_close",
                   "camera_high_speed", "otg", "no_mipmaps", "no_clipboard_autosync",
                   "disable_screensaver", "no_cleanup", "kill_adb_on_close",
                   "no_video_playback", "no_window", "no_audio_playback", "no_playback",
                   "require_audio", "legacy_paste", "audio_dup"}
  <1>1. \A o \in W : o \in DOMAIN Options /\ Options[o] = Switch
        BY StreamTable, DeviceTable, InputTable, WindowTable
  <1>2. \A s \in PlainSwitches : s = "window_borderless" \/ s \in W
        BY DEF PlainSwitches, Switches
  <1>3. "borderless" \in W OBVIOUS
  <1>4. \A s \in SelectorNames \cup {"camera_high_speed", "no_window", "forward_all_clicks"} :
          s \in W /\ s \notin {"port", "window_borderless"}
        BY DEF SelectorNames
  <1>5. "port" \notin PlainSwitches BY DEF PlainSwitches, Switches
  <1> HIDE DEF W
  <1> QED BY <1>1, <1>2, <1>3, <1>4, <1>5, OptionNames

LEMMA TextOptions ==
  ASSUME NEW n \in {"serial", "tcpip", "max_fps", "window_title", "record", "crop",
                    "tunnel_host", "video_encoder", "audio_encoder", "camera_id",
                    "camera_size", "camera_facing", "camera_ar", "record_format",
                    "start_app", "v4l2_sink", "new_display", "mouse_bind"}
  PROVE  OptionOf(n) = n /\ n \in DOMAIN Options /\ Options[n] = Optional
  <1>1. OptionOf(n) = n BY OptionNames
  <1> QED BY <1>1, StreamTable, DeviceTable, InputTable, WindowTable

(* The rest, each with its default.                                          *)
OtherNames == {
  "max_size", "video_bit_rate", "video_codec", "video_buffer", "port", "clipboard_direction",
  "v4l2_buffer", "tunnel_port", "verbosity", "display_id", "time_limit", "audio_bit_rate",
  "audio_source", "video_source", "camera_fps", "keyboard", "mouse", "gamepad", "window_x",
  "window_y", "window_width", "window_height", "shortcut_mod", "audio_codec", "audio_buffer",
  "display_orientation", "record_orientation", "audio_output_buffer"}
LEMMA OtherOptions ==
  ASSUME NEW n \in OtherNames
  PROVE  /\ OptionOf(n) \in DOMAIN Options
         /\ n \notin BitRates => Options[OptionOf(n)].takes # "bits"
         /\ n \in BitRates => Options[OptionOf(n)].takes = "bits"
  <1> DEFINE O == OptionOf(n)
  <1>1. \/ n = "port" /\ O = "port_range"
        \/ n # "port" /\ O = n
        BY OptionNames DEF OtherNames
  <1> HIDE DEF O
  <1>2. O \in {"max_size", "video_bit_rate", "video_codec", "video_buffer", "port_range",
               "clipboard_direction", "v4l2_buffer", "tunnel_port", "verbosity", "display_id",
               "time_limit", "audio_bit_rate", "audio_source", "video_source", "camera_fps",
               "keyboard", "mouse", "gamepad", "window_x", "window_y", "window_width",
               "window_height", "shortcut_mod", "audio_codec", "audio_buffer",
               "display_orientation", "record_orientation", "audio_output_buffer"}
        BY <1>1 DEF OtherNames
  <1>3. O \in DOMAIN Options
        BY <1>2, StreamTable, DeviceTable, InputTable, WindowTable
  <1>4. O \in {"video_bit_rate", "audio_bit_rate"} => Options[O].takes = "bits"
        BY StreamTable, DeviceTable DEF Takes
  <1>5. O \in {"max_size", "video_codec", "video_buffer", "port_range"}
           => Options[O].takes # "bits"
        BY StreamTable DEF Takes, Text
  <1>6. O \in {"clipboard_direction", "v4l2_buffer", "tunnel_port", "verbosity", "display_id",
               "time_limit", "audio_source"} => Options[O].takes # "bits"
        BY DeviceTable DEF Takes, OneOf
  <1>7. O \in {"video_source", "camera_fps", "keyboard", "mouse", "gamepad", "window_x",
               "window_y", "window_width", "window_height", "shortcut_mod", "audio_codec"}
          => Options[O].takes # "bits"
        BY InputTable DEF Takes, OneOf, Text
  <1>8. O \in {"audio_buffer", "display_orientation", "record_orientation",
               "audio_output_buffer"} => Options[O].takes # "bits"
        BY WindowTable DEF Takes, OneOf
  <1>9. n \in BitRates <=> O \in {"video_bit_rate", "audio_bit_rate"}
        BY <1>1 DEF BitRates
  <1>10. O \notin {"video_bit_rate", "audio_bit_rate"} => Options[O].takes # "bits"
         BY <1>2, <1>5, <1>6, <1>7, <1>8
  <1> QED BY <1>3, <1>4, <1>9, <1>10 DEF O

LEMMA FlagOptions ==
  ASSUME NEW n \in FlagNames
  PROVE  /\ OptionOf(n) \in DOMAIN Options
         /\ n \notin BitRates => Options[OptionOf(n)].takes # "bits"
         /\ n \in BitRates => Options[OptionOf(n)].takes = "bits"
  <1> DEFINE X == {"serial", "tcpip", "max_fps", "window_title", "record", "crop",
                    "tunnel_host", "video_encoder", "audio_encoder", "camera_id",
                    "camera_size", "camera_facing", "camera_ar", "record_format",
                    "start_app", "v4l2_sink", "new_display", "mouse_bind"}
  <1>1. \/ n \in PlainSwitches
        \/ n \in SelectorNames \cup {"camera_high_speed"}
        \/ n \in X
        \/ n \in OtherNames
        <2>1. n \in PlainTexts => n \in X \/ n \in OtherNames BY DEF PlainTexts, OtherNames
        <2>2. n \in LensNames => n \in X \/ n \in OtherNames BY DEF LensNames, OtherNames
        <2>3. n \in ValueNames => n \in X \/ n \in OtherNames BY DEF ValueNames, OtherNames
        <2>4. n = "clipboard_direction" => n \in OtherNames BY DEF OtherNames
        <2>5. n \in SwitchNames
                => n \in PlainSwitches \/ n = "camera_high_speed" \/ n \in X
              BY DEF SwitchNames
        <2> HIDE DEF X
        <2> QED BY <2>1, <2>2, <2>3, <2>4, <2>5 DEF FlagNames
  <1>2. CASE n \in PlainSwitches \/ n \in SelectorNames \cup {"camera_high_speed"}
        <2>1. n \notin BitRates
              <3>1. n \in PlainSwitches => n \notin BitRates
                    BY DEF BitRates, PlainSwitches, Switches
              <3> QED BY <1>2, <3>1 DEF BitRates, SelectorNames
        <2>2. Switch.takes # "bits" BY DEF Switch, Takes
        <2> QED BY <1>2, <2>1, <2>2, SwitchOptions
  <1>3. CASE n \in X
        <2>1. n \notin BitRates BY <1>3 DEF BitRates
        <2>2. Optional.takes # "bits" BY DEF Optional, Takes
        <2> QED BY <1>3, <2>1, <2>2, TextOptions
  <1>4. CASE n \in OtherNames BY <1>4, OtherOptions
  <1> QED BY <1>1, <1>2, <1>3, <1>4

LEMMA ParsedFlag ==
  ASSUME NEW line, Parses(line), NEW f \in line
  PROVE  Parsed(line)[OptionOf(f.flag)]
           = IF Options[OptionOf(f.flag)].takes = "bits" THEN Rewritten(f.value, Expanded)
             ELSE f.value
  <1> DEFINE o == OptionOf(f.flag)
             g == CHOOSE h \in line : OptionOf(h.flag) = o
  <1>1. o \in DOMAIN Options BY DEF Parses
  <1>2. g \in line /\ OptionOf(g.flag) = o OBVIOUS
  <1>3. g = f BY <1>2 DEF Parses
  <1>4. Parsed(line)[o] = IF Options[o].takes = "bits" THEN Rewritten(g.value, Expanded) ELSE g.value
        BY <1>1, <1>2 DEF Parsed
  <1> QED BY <1>3, <1>4

LEMMA ParsedDefault ==
  ASSUME NEW line, NEW o \in DOMAIN Options, \A f \in line : OptionOf(f.flag) # o
  PROVE  Parsed(line)[o] = Options[o].default
  BY DEF Parsed

(* A name that is on a line at most once.                                    *)
LEMMA ParsedOnce ==
  ASSUME NEW line, Parses(line), \A f \in line : f.flag \in FlagNames,
         NEW n \in FlagNames, NEW c, NEW v, NEW x, FlagsOf(line, n) = Only(c, {Flag(n, v, x)})
  PROVE  Parsed(line)[OptionOf(n)]
           = IF c THEN IF n \in BitRates THEN Rewritten(v, Expanded) ELSE v
             ELSE Options[OptionOf(n)].default
  <1> DEFINE f == Flag(n, v, x)
  <1>1. f.flag = n /\ f.value = v BY FlagFields
  <1> HIDE DEF f
  <1>2. CASE c
        <2>1. f \in line BY <1>2 DEF FlagsOf, Only, f
        <2> QED BY <1>1, <1>2, <2>1, ParsedFlag, FlagOptions
  <1>3. CASE ~c
        <2>1. \A g \in line : g.flag # n BY <1>3 DEF FlagsOf, Only
        <2>2. \A g \in line : OptionOf(g.flag) # OptionOf(n) BY <2>1, OptionsApart
        <2> QED BY <1>3, <2>2, ParsedDefault, FlagOptions
  <1> QED BY <1>2, <1>3

(* What a client reads off a line, option by option.                         *)
GivenTexts == PlainTexts \ (BitRates \cup {"serial"})

LEMMA TextGiven ==
  ASSUME NEW form, NEW d, NEW line, IsLine(line, form, d), Parses(line), NEW n \in GivenTexts
  PROVE  Parsed(line)[OptionOf(n)]
           = IF Says(form, n) THEN form.text[n] ELSE Options[OptionOf(n)].default
  <1>1. n \in PlainTexts /\ n \notin BitRates /\ n # "serial" BY DEF GivenTexts
  <1>2. n \notin Unsupported /\ n # "record"
        <2>1. \A m \in PlainTexts : m \notin {"otg", "no_mipmaps", "record"} BY DEF PlainTexts
        <2> QED BY <1>1, <2>1 DEF Unsupported
  <1>3. n \notin Altered BY <1>1, <1>2, ApartNames DEF Altered
  <1>4. FlagsOf(line, n) = Only(Says(form, n), {Flag(n, form.text[n], n)})
        BY <1>1, <1>3, PlainFlags DEF IsLine
  <1>5. n \in FlagNames BY <1>1 DEF FlagNames
  <1>6. \A f \in line : f.flag \in FlagNames BY DEF IsLine
  <1>7. Parsed(line)[OptionOf(n)]
           = IF Says(form, n) THEN IF n \in BitRates THEN Rewritten(form.text[n], Expanded)
                                   ELSE form.text[n]
             ELSE Options[OptionOf(n)].default
        BY <1>4, <1>5, <1>6, ParsedOnce
  <1> QED BY <1>1, <1>7

LEMMA RateFacts ==
  ASSUME NEW form, NEW n \in BitRates
  PROVE  /\ OptionOf(n) = n
         /\ ~Says(form, n) => Options[n].default = Rate(form, n)
         /\ Says(form, n) => Rewritten(form.text[n], Expanded) = Rate(form, n)
         /\ \A text : Rewritten(Rewritten(text, Expanded), Expanded) = Rewritten(text, Expanded)
  <1>1. OptionOf(n) = n BY OptionNames DEF BitRates
  <1>2. Options.video_bit_rate.default = "8000000" /\ Options.audio_bit_rate.default = "128000"
        BY StreamTable, DeviceTable DEF Takes
  <1>3. DefaultText.video_bit_rate = "8M" /\ DefaultText.audio_bit_rate = "128K"
        BY DEF DefaultText
  <1>4. Options[n].default = Rewritten(DefaultText[n], Expanded)
        BY <1>2, <1>3, FormAssumption DEF BitRates
  <1>5. ~Says(form, n) => Options[n].default = Rate(form, n)
        BY <1>4 DEF Says, Rate, Said
  <1>6. Says(form, n) => Rewritten(form.text[n], Expanded) = Rate(form, n)
        BY DEF Says, Rate, Said
  <1>7. \A text : Rewritten(Rewritten(text, Expanded), Expanded) = Rewritten(text, Expanded)
        BY FormAssumption DEF Rewritten
  <1> QED BY <1>1, <1>5, <1>6, <1>7

LEMMA RateGiven ==
  ASSUME NEW form, NEW d, NEW line, IsLine(line, form, d), Parses(line), NEW n \in BitRates
  PROVE  Parsed(line)[n] = Rate(form, n)
  <1>1. n \in FlagNames BY AlteredNames DEF FlagNames
  <1>2. \A f \in line : f.flag \in FlagNames BY DEF IsLine
  <1>3. ASSUME NEW v, Rewritten(v, Expanded) = Rewritten(form.text[n], Expanded),
               FlagsOf(line, n) = Only(Says(form, n), {Flag(n, v, n)})
        PROVE  Parsed(line)[n] = Rate(form, n)
        <2>1. Parsed(line)[OptionOf(n)]
                = IF Says(form, n) THEN IF n \in BitRates THEN Rewritten(v, Expanded) ELSE v
                  ELSE Options[OptionOf(n)].default
              BY <1>1, <1>2, <1>3, ParsedOnce
        <2> QED BY <1>3, <2>1, RateFacts
  <1>4. \/ FlagsOf(line, n) = Only(Says(form, n), {Flag(n, form.text[n], n)})
        \/ FlagsOf(line, n) = Only(Says(form, n), {Flag(n, Rewritten(form.text[n], Expanded), n)})
        BY DEF IsLine
  <1>5. Rewritten(Rewritten(form.text[n], Expanded), Expanded) = Rewritten(form.text[n], Expanded)
        BY RateFacts
  <1> QED BY <1>3, <1>4, <1>5

LEMMA SwitchGiven ==
  ASSUME NEW form, NEW d, NEW line, IsLine(line, form, d), Parses(line),
         NEW n \in PlainSwitches \ Unsupported
  PROVE  Parsed(line)[OptionOf(n)] = Is(form, n)
  <1>1. n \in PlainSwitches /\ n \notin Unsupported OBVIOUS
  <1>2. n \in SwitchNames BY <1>1 DEF SwitchNames
  <1>3. n \notin {"serial", "record"}
        <2>1. "serial" \notin PlainSwitches /\ "record" \notin PlainSwitches
              BY DEF PlainSwitches, Switches
        <2> QED BY <1>1, <2>1
  <1>4. n \notin BitRates /\ n \notin SelectorNames BY <1>2, ApartNames, AlteredNames
  <1>5. n \notin Altered BY <1>1, <1>3, <1>4 DEF Altered
  <1>6. FlagsOf(line, n) = Only(n \in form.on, {Flag(n, "true", n)})
        BY <1>1, <1>5, SwitchFlag DEF IsLine
  <1>7. n \in FlagNames BY <1>2 DEF FlagNames
  <1>8. \A f \in line : f.flag \in FlagNames BY DEF IsLine
  <1> DEFINE c == n \in form.on
  <1>c. FlagsOf(line, n) = Only(c, {Flag(n, "true", n)}) BY <1>6
  <1> HIDE DEF c
  <1>9. Parsed(line)[OptionOf(n)]
           = IF c THEN IF n \in BitRates THEN Rewritten("true", Expanded) ELSE "true"
             ELSE Options[OptionOf(n)].default
        BY <1>c, <1>7, <1>8, ParsedOnce
  <1>10. Options[OptionOf(n)].default = "false" BY <1>1, SwitchOptions DEF Switch, Takes
  <1> QED BY <1>4, <1>9, <1>10 DEF Is, Bool, c

(* An option whose flag is on the line as it is on the form's.               *)
LEMMA OnceGiven ==
  ASSUME NEW form, NEW d, NEW line, IsLine(line, form, d), Parses(line),
         NEW n \in FlagNames, n \notin BitRates, OptionOf(n) = n,
         NEW c, NEW v, NEW x, FlagsOf(line, n) = Only(c, {Flag(n, v, x)})
  PROVE  Parsed(line)[n] = IF c THEN v ELSE Options[n].default
  <1>1. \A f \in line : f.flag \in FlagNames BY DEF IsLine
  <1>2. Parsed(line)[OptionOf(n)]
           = IF c THEN IF n \in BitRates THEN Rewritten(v, Expanded) ELSE v
             ELSE Options[OptionOf(n)].default
        BY <1>1, ParsedOnce
  <1> QED BY <1>2

LensCond(form, n) ==
  /\ Camera(form) /\ Says(form, n)
  /\ n = "camera_facing" => form.text.camera_id = ""
  /\ n = "camera_ar" => form.text.camera_size = ""

LEMMA LensGiven ==
  ASSUME NEW form, NEW d, NEW line, IsLine(line, form, d), Parses(line), NEW n \in LensNames
  PROVE  Parsed(line)[n] = IF LensCond(form, n) THEN form.text[n] ELSE NotGiven
  <1>1. n \notin Altered /\ n \notin BitRates /\ OptionOf(n) = n
        BY OptionNames DEF LensNames, Altered, BitRates, SelectorNames, Unsupported
  <1>2. n \in FlagNames BY DEF FlagNames
  <1>3. FlagsOf(line, n) = Only(LensCond(form, n), {Flag(n, form.text[n], n)})
        BY <1>1, LensFlags DEF IsLine, LensCond
  <1>4. Parsed(line)[n] = IF LensCond(form, n) THEN form.text[n] ELSE Options[n].default
        BY <1>1, <1>2, <1>3, OnceGiven
  <1>5. Options[n].default = NotGiven BY InputTable DEF LensNames, Optional, Takes
  <1> QED BY <1>4, <1>5

LEMMA HighSpeedGiven ==
  ASSUME NEW form, NEW d, NEW line, IsLine(line, form, d), Parses(line)
  PROVE  Parsed(line).camera_high_speed
           = Bool(Camera(form) /\ form.text.camera_fps # "" /\ "camera_high_speed" \in form.on)
  <1> DEFINE n == "camera_high_speed"
             c == Camera(form) /\ form.text.camera_fps # "" /\ "camera_high_speed" \in form.on
  <1>1. n \notin Altered /\ n \notin BitRates /\ OptionOf(n) = n
        BY OptionNames DEF Altered, BitRates, SelectorNames, Unsupported
  <1>2. n \in FlagNames BY DEF FlagNames, SwitchNames
  <1>3. FlagsOf(line, n) = Only(c, {Flag(n, "true", n)})
        BY <1>1, HighSpeedFlag DEF IsLine
  <1>4. Options[n].default = "false" BY SwitchOptions DEF Switch, Takes
  <1> HIDE DEF c
  <1>5. Parsed(line)[n] = IF c THEN "true" ELSE Options[n].default
        BY <1>1, <1>2, <1>3, OnceGiven
  <1> QED BY <1>4, <1>5 DEF Bool, c

LEMMA ClipboardGiven ==
  ASSUME NEW form, NEW d, NEW line, IsLine(line, form, d), Parses(line)
  PROVE  Parsed(line).clipboard_direction
           = IF Direction(form.text.clipboard_direction) \in {"", "both"} THEN "both"
             ELSE Direction(form.text.clipboard_direction)
  <1> DEFINE n == "clipboard_direction"
             v == Direction(form.text.clipboard_direction)
             c == v \notin {"", "both"}
  <1>1. n \notin Altered /\ n \notin BitRates /\ OptionOf(n) = n
        BY OptionNames DEF Altered, BitRates, SelectorNames, Unsupported
  <1>2. n \in FlagNames BY DEF FlagNames
  <1>3. FlagsOf(line, n) = Only(c, {Flag(n, v, n)})
        BY <1>1, ClipboardFlag DEF IsLine
  <1>4. Options[n].default = "both" BY DeviceTable DEF OneOf
  <1> HIDE DEF v
  <1>5. Parsed(line)[n] = IF c THEN v ELSE Options[n].default
        <2> HIDE DEF c
        <2> QED BY <1>1, <1>2, <1>3, OnceGiven
  <1> QED BY <1>4, <1>5 DEF v

LEMMA ValueGiven ==
  ASSUME NEW form, NEW d, NEW line, IsLine(line, form, d), Parses(line)
  PROVE  /\ Parsed(line).v4l2_sink
              = IF form.text.v4l2_sink # "" THEN form.text.v4l2_sink ELSE NotGiven
         /\ Parsed(line).v4l2_buffer
              = IF form.text.v4l2_sink # "" /\ form.text.v4l2_buffer # "" THEN form.text.v4l2_buffer
                ELSE "0"
         /\ Parsed(line).new_display
              = IF "new_display_enabled" \in form.on THEN form.text.new_display ELSE NotGiven
         /\ Parsed(line).tcpip = IF Reached(form) THEN form.text.tcpip_addr ELSE NotGiven
         /\ Parsed(line).record = IF Records(form) THEN FileOf(form, d) ELSE NotGiven
  <1>1. \A n \in {"v4l2_sink", "v4l2_buffer", "new_display", "tcpip", "record"} :
          n \in FlagNames /\ n \notin BitRates /\ OptionOf(n) = n
        BY OptionNames DEF FlagNames, ValueNames, BitRates
  <1>2. \A n \in {"v4l2_sink", "v4l2_buffer", "new_display", "tcpip"} :
          FlagsOf(line, n) = FlagsOf(ToFlags(form), n)
        <2>1. \A n \in {"v4l2_sink", "v4l2_buffer", "new_display", "tcpip"} : n \notin Altered
              BY DEF Altered, BitRates, SelectorNames, Unsupported
        <2> QED BY <2>1 DEF IsLine
  <1>3. /\ Options.v4l2_sink.default = NotGiven /\ Options.v4l2_buffer.default = "0"
        /\ Options.new_display.default = NotGiven /\ Options.tcpip.default = NotGiven
        /\ Options.record.default = NotGiven
        BY StreamTable, DeviceTable, WindowTable DEF Optional, Takes
  <1>4. Parsed(line).v4l2_sink
              = IF form.text.v4l2_sink # "" THEN form.text.v4l2_sink ELSE NotGiven
        <2> DEFINE n == "v4l2_sink"
                   c == form.text.v4l2_sink # "" /\ form.text[n] # ""
        <2>1. FlagsOf(line, n) = Only(c, {Flag(n, form.text[n], n)}) BY <1>2, ValueFlag
        <2>2. Parsed(line)[n] = IF c THEN form.text[n] ELSE Options[n].default
              <3> HIDE DEF c
              <3> QED BY <1>1, <2>1, OnceGiven
        <2> QED BY <1>3, <2>2
  <1>5. Parsed(line).v4l2_buffer
              = IF form.text.v4l2_sink # "" /\ form.text.v4l2_buffer # "" THEN form.text.v4l2_buffer
                ELSE "0"
        <2> DEFINE n == "v4l2_buffer"
                   c == form.text.v4l2_sink # "" /\ form.text[n] # ""
        <2>1. FlagsOf(line, n) = Only(c, {Flag(n, form.text[n], n)}) BY <1>2, ValueFlag
        <2>2. Parsed(line)[n] = IF c THEN form.text[n] ELSE Options[n].default
              <3> HIDE DEF c
              <3> QED BY <1>1, <2>1, OnceGiven
        <2> QED BY <1>3, <2>2
  <1>6. Parsed(line).new_display
              = IF "new_display_enabled" \in form.on THEN form.text.new_display ELSE NotGiven
        <2> DEFINE n == "new_display"
                   c == "new_display_enabled" \in form.on
        <2>1. FlagsOf(line, n) = Only(c, {Flag(n, form.text[n], n)}) BY <1>2, ValueFlag
        <2>2. Parsed(line)[n] = IF c THEN form.text[n] ELSE Options[n].default
              <3> HIDE DEF c
              <3> QED BY <1>1, <2>1, OnceGiven
        <2> QED BY <1>3, <2>2
  <1>7. Parsed(line).tcpip = IF Reached(form) THEN form.text.tcpip_addr ELSE NotGiven
        <2> DEFINE n == "tcpip"
        <2>1. FlagsOf(line, n) = Only(Reached(form), {Flag(n, form.text.tcpip_addr, "tcpip_addr")})
              BY <1>2, ValueFlag
        <2>2. Parsed(line)[n] = IF Reached(form) THEN form.text.tcpip_addr ELSE Options[n].default
              BY <1>1, <2>1, OnceGiven
        <2> QED BY <1>3, <2>2
  <1>8. Parsed(line).record = IF Records(form) THEN FileOf(form, d) ELSE NotGiven
        <2> DEFINE n == "record"
        <2>1. FlagsOf(line, n) = Only(Records(form), {Flag(n, FileOf(form, d), "record_path")})
              BY DEF IsLine
        <2>2. Parsed(line)[n] = IF Records(form) THEN FileOf(form, d) ELSE Options[n].default
              BY <1>1, <2>1, OnceGiven
        <2> QED BY <1>3, <2>2
  <1> QED BY <1>4, <1>5, <1>6, <1>7, <1>8

LEMMA SerialGiven ==
  ASSUME NEW form, NEW d, NEW line, IsLine(line, form, d), Parses(line)
  PROVE  Parsed(line).serial
           = IF d # NoDevice THEN d
             ELSE IF form.text.serial # "" THEN form.text.serial ELSE NotGiven
  <1> DEFINE n == "serial"
             c == d # NoDevice \/ Says(form, n)
             v == IF d # NoDevice THEN d ELSE form.text.serial
             x == IF d # NoDevice THEN "loop" ELSE n
  <1>1. n \in FlagNames /\ n \notin BitRates /\ OptionOf(n) = n
        BY OptionNames, AlteredNames
  <1>2. FlagsOf(line, n) = Only(c, {Flag(n, v, x)}) BY DEF IsLine, Only
  <1>3. Options[n].default = NotGiven BY StreamTable DEF Optional, Takes
  <1>4. Says(form, n) <=> form.text.serial # "" BY DEF Says, DefaultText
  <1> HIDE DEF c, v, x
  <1>5. Parsed(line)[n] = IF c THEN v ELSE Options[n].default
        BY <1>1, <1>2, OnceGiven
  <1> QED BY <1>3, <1>4, <1>5 DEF c, v

LEMMA SelectorGiven ==
  ASSUME NEW form, NEW d, NEW line, IsLine(line, form, d), Parses(line), NEW n \in SelectorNames
  PROVE  \/ Parsed(line)[n] = Bool(Picks(form, n))
         \/ d # NoDevice /\ Parsed(line)[n] = "false"
  <1>1. n \in FlagNames /\ n \notin BitRates /\ OptionOf(n) = n
        BY AlteredNames, SwitchOptions DEF FlagNames
  <1>2. Options[n].default = "false" BY SwitchOptions DEF Switch, Takes
  <1>3. \/ FlagsOf(line, n) = Only(Picks(form, n), {Flag(n, "true", n)})
        \/ d # NoDevice /\ FlagsOf(line, n) = Only(FALSE, {Flag(n, "true", n)})
        BY DEF IsLine, Only
  <1>4. ASSUME NEW c, FlagsOf(line, n) = Only(c, {Flag(n, "true", n)})
        PROVE  Parsed(line)[n] = Bool(c)
        <2>1. Parsed(line)[n] = IF c THEN "true" ELSE Options[n].default
              BY <1>1, <1>4, OnceGiven
        <2> QED BY <1>2, <2>1 DEF Bool
  <1>5. Bool(FALSE) = "false" BY DEF Bool
  <1> QED BY <1>3, <1>4, <1>5

LEMMA MouseBindGiven ==
  ASSUME NEW form, NEW d, NEW line, IsLine(line, form, d), Parses(line)
  PROVE  Parsed(line).mouse_bind
           = IF "forward_all_clicks" \in form.on THEN "++++"
             ELSE IF "mouse_bind_enabled" \in form.on /\ form.text.mouse_bind # ""
                  THEN form.text.mouse_bind ELSE NotGiven
  <1> DEFINE n == "mouse_bind"
             a == "forward_all_clicks" \in form.on
             b == "mouse_bind_enabled" \in form.on /\ form.text.mouse_bind # ""
             f == Flag(n, "++++", "forward_all_clicks")
             g == Flag(n, form.text.mouse_bind, n)
  <1>1. n \notin Altered /\ n \notin BitRates /\ OptionOf(n) = n
        BY OptionNames DEF Altered, BitRates, SelectorNames, Unsupported
  <1>2. n \in FlagNames BY DEF FlagNames, SwitchNames
  <1>3. FlagsOf(line, n) = Only(a, {f}) \cup Only(b, {g})
        BY <1>1, MouseBindFlags DEF IsLine
  <1>4. Options[n].default = NotGiven BY TextOptions DEF Optional, Takes
  <1>5. ~(a /\ b)
        <2>1. ASSUME a, b PROVE FALSE
              <3>1. f \in line /\ g \in line BY <1>3, <2>1 DEF FlagsOf, Only
              <3>2. f.flag = n /\ g.flag = n /\ f.from # g.from BY FlagFields
              <3> HIDE DEF f, g
              <3>3. f = g BY <3>1, <3>2 DEF Parses
              <3> QED BY <3>2, <3>3
        <2> QED BY <2>1
  <1> HIDE DEF n, a, b
  <1>6. CASE a
        <2>1. FlagsOf(line, n) = Only(a, {f}) BY <1>3, <1>5, <1>6 DEF Only
        <2>2. Parsed(line)[n] = IF a THEN "++++" ELSE Options[n].default
              BY <1>1, <1>2, <2>1, OnceGiven
        <2> QED BY <1>6, <2>2 DEF a, n
  <1>7. CASE ~a
        <2>1. FlagsOf(line, n) = Only(b, {g}) BY <1>3, <1>7 DEF Only
        <2>2. Parsed(line)[n] = IF b THEN form.text.mouse_bind ELSE Options[n].default
              BY <1>1, <1>2, <2>1, OnceGiven
        <2> QED BY <1>4, <1>7, <2>2 DEF a, b, n
  <1> QED BY <1>6, <1>7

(* What no control of the form sets.                                         *)
LEMMA UnsetGiven ==
  ASSUME NEW form, NEW d, NEW line, IsLine(line, form, d)
  PROVE  /\ Parsed(line).no_window = "false" /\ Parsed(line).orientation = "0"
         /\ Parsed(line).key_inject_mode = "mixed" /\ Parsed(line).forward_all_clicks = "false"
         /\ Parsed(line).clipboard_autosync = "true" /\ Parsed(line).power_on = "true"
  <1> DEFINE U == {"no_window", "orientation", "key_inject_mode", "forward_all_clicks",
                   "clipboard_autosync", "power_on"}
  <1>1. \A u \in U : u \notin FlagNames
        <2>1. \A u \in U : u \notin PlainTexts BY DEF PlainTexts
        <2>2. \A u \in U : u \notin SwitchNames BY DEF SwitchNames, PlainSwitches, Switches
        <2>3. \A u \in U : u \notin LensNames /\ u \notin SelectorNames /\ u \notin ValueNames
              BY DEF LensNames, SelectorNames, ValueNames
        <2> QED BY <2>1, <2>2, <2>3 DEF FlagNames
  <1>2. \A u \in U : u \notin {"port_range", "borderless"} OBVIOUS
  <1>3. \A u \in U : u \in DOMAIN Options
        BY DeviceTable, InputTable, WindowTable
  <1>4. ASSUME NEW u \in U PROVE Parsed(line)[u] = Options[u].default
        <2> HIDE DEF U
        <2>1. \A f \in line : OptionOf(f.flag) # u
              BY <1>1, <1>2, OptionNames DEF IsLine
        <2> QED BY <1>3, <2>1, ParsedDefault
  <1>5. /\ Options.no_window.default = "false" /\ Options.orientation.default = "0"
        /\ Options.key_inject_mode.default = "mixed"
        /\ Options.forward_all_clicks.default = "false"
        /\ Options.clipboard_autosync.default = "true" /\ Options.power_on.default = "true"
        BY DeviceTable, InputTable, WindowTable DEF Switch, Stays, OneOf, Text, Takes
  <1> QED BY <1>4, <1>5

(* No control of the form holds what stands for an option that is not on a   *)
(* line: the texts are what the user types, or the controls' own.            *)
Filled(form) ==
  /\ \A c \in Texts \ {"record_path"} : form.text[c] # NotGiven
  /\ form.text.clipboard_direction \in {"", "both", "toDevice", "toPc"}

LEMMA FormTexts ==
  ASSUME NEW form, Filled(form), NEW c \in Texts, c # "record_path"
  PROVE  form.text[c] # NotGiven
  BY DEF Filled

LEMMA PlainSwitchNames ==
  ASSUME NEW s \in SwitchesForItself \cup {"no_audio", "no_video", "no_control",
                    "no_clipboard_autosync", "show_touches", "stay_awake", "no_cleanup",
                    "no_power_on", "power_off_on_close", "audio_dup", "no_video_playback",
                    "no_playback", "no_audio_playback", "raw_key_events", "prefer_text",
                    "require_audio", "no_vd_destroy_content", "no_vd_system_decorations"}
  PROVE  s \in PlainSwitches \ Unsupported
  BY DEF SwitchesForItself, PlainSwitches, Switches, Unsupported

LEMMA SwitchesAgree ==
  ASSUME NEW form, NEW d, NEW line, IsLine(line, form, d), Parses(line)
  PROVE  /\ \A s \in SwitchesForItself : Parsed(line)[OptionOf(s)] = Is(form, s)
         /\ \A s \in {"no_audio", "no_video", "no_control",
                    "no_clipboard_autosync", "show_touches", "stay_awake", "no_cleanup",
                    "no_power_on", "power_off_on_close", "audio_dup", "no_video_playback",
                    "no_playback", "no_audio_playback", "raw_key_events", "prefer_text",
                    "require_audio", "no_vd_destroy_content", "no_vd_system_decorations"} :
              Parsed(line)[s] = Is(form, s)
  <1> DEFINE S == {"no_audio", "no_video", "no_control",
                    "no_clipboard_autosync", "show_touches", "stay_awake", "no_cleanup",
                    "no_power_on", "power_off_on_close", "audio_dup", "no_video_playback",
                    "no_playback", "no_audio_playback", "raw_key_events", "prefer_text",
                    "require_audio", "no_vd_destroy_content", "no_vd_system_decorations"}
  <1>1. \A s \in S : OptionOf(s) = s BY OptionNames
  <1>2. \A s \in SwitchesForItself \cup S : s \in PlainSwitches \ Unsupported
        BY PlainSwitchNames
  <1> HIDE DEF S
  <1>3. \A s \in SwitchesForItself \cup S : Parsed(line)[OptionOf(s)] = Is(form, s)
        BY <1>2, SwitchGiven
  <1>4. /\ \A s \in SwitchesForItself : Parsed(line)[OptionOf(s)] = Is(form, s)
        /\ \A s \in S : Parsed(line)[s] = Is(form, s)
        BY <1>1, <1>3
  <1> QED BY <1>4 DEF S

(* The boxes that are an option's text, and the option's default when empty. *)
SaidTexts == GivenTexts \ {"port", "audio_source", "record_orientation", "display_orientation"}
LEMMA TextDefaults ==
  ASSUME NEW n \in SaidTexts
  PROVE  /\ n \in Texts /\ n \in GivenTexts /\ OptionOf(n) = n
         /\ DefaultText[n] # "" => Options[n].default = DefaultText[n]
  <1> DEFINE V == {"video_source", "video_codec", "audio_codec", "keyboard", "mouse", "gamepad",
                   "shortcut_mod", "verbosity"}
  <1>1. n \in PlainTexts /\ n \in GivenTexts /\ n # "port" BY DEF SaidTexts, GivenTexts
  <1>2. n \in Texts BY <1>1 DEF PlainTexts, Texts, DefaultText
  <1>3. n # "window_borderless" BY <1>1 DEF PlainTexts
  <1>4. n \in V \/ DefaultText[n] = ""
        <2> DEFINE E == {"video_encoder", "max_size", "max_fps", "crop", "display_id",
                         "video_buffer", "audio_encoder", "audio_buffer", "audio_output_buffer",
                         "time_limit", "start_app", "window_title", "window_x", "window_y",
                         "window_width", "window_height", "tunnel_host", "tunnel_port"}
        <2>1. n \notin {"audio_source", "record_orientation", "display_orientation", "port",
                        "video_bit_rate", "audio_bit_rate", "serial"}
              BY DEF SaidTexts, GivenTexts, BitRates
        <2>2. n \in V \/ n \in E BY <1>1, <2>1 DEF PlainTexts
        <2>3. \A m \in E : DefaultText[m] = ""
              <3>1. /\ DefaultText.video_encoder = "" /\ DefaultText.max_size = ""
                    /\ DefaultText.max_fps = "" /\ DefaultText.crop = ""
                    /\ DefaultText.display_id = "" /\ DefaultText.video_buffer = ""
                    /\ DefaultText.audio_encoder = "" /\ DefaultText.audio_buffer = ""
                    /\ DefaultText.audio_output_buffer = "" /\ DefaultText.time_limit = ""
                    /\ DefaultText.start_app = "" /\ DefaultText.window_title = ""
                    /\ DefaultText.window_x = "" /\ DefaultText.window_y = ""
                    /\ DefaultText.window_width = "" /\ DefaultText.window_height = ""
                    /\ DefaultText.tunnel_host = "" /\ DefaultText.tunnel_port = ""
                    BY DEF DefaultText
              <3> QED BY <3>1
        <2> HIDE DEF E, V
        <2> QED BY <2>2, <2>3
  <1>5. /\ DefaultText.video_source = "display" /\ DefaultText.video_codec = "h264"
        /\ DefaultText.audio_codec = "opus" /\ DefaultText.keyboard = "sdk"
        /\ DefaultText.mouse = "sdk" /\ DefaultText.gamepad = "disabled"
        /\ DefaultText.shortcut_mod = "lalt" /\ DefaultText.verbosity = "info"
        BY DEF DefaultText
  <1>6. /\ Options.video_source.default = "display" /\ Options.video_codec.default = "h264"
        /\ Options.audio_codec.default = "opus" /\ Options.keyboard.default = "sdk"
        /\ Options.mouse.default = "sdk" /\ Options.gamepad.default = "disabled"
        /\ Options.shortcut_mod.default = "lalt" /\ Options.verbosity.default = "info"
        <2>1. \A v : Text(v).default = v /\ \A of : OneOf(of, v).default = v
              BY DEF Text, Takes, OneOf
        <2>2. Options.video_codec.default = "h264" BY <2>1, StreamTable
        <2>3. Options.verbosity.default = "info" BY <2>1, DeviceTable
        <2>4. /\ Options.video_source.default = "display" /\ Options.audio_codec.default = "opus"
              /\ Options.shortcut_mod.default = "lalt"
              BY <2>1, InputTable
        <2>5. /\ Options.keyboard.default = "sdk" /\ Options.mouse.default = "sdk"
              /\ Options.gamepad.default = "disabled"
              BY <2>1, InputTable
        <2> QED BY <2>2, <2>3, <2>4, <2>5
  <1>7. \A m \in V : Options[m].default = DefaultText[m] BY <1>5, <1>6
  <1>8. OptionOf(n) = n BY <1>1, <1>3, OptionNames
  <1> HIDE DEF V
  <1>9. DefaultText[n] # "" => Options[n].default = DefaultText[n] BY <1>4, <1>7
  <1> QED BY <1>1, <1>2, <1>8, <1>9

LEMMA SaidGiven ==
  ASSUME NEW form, NEW d, NEW line, IsLine(line, form, d), Parses(line), NEW n \in SaidTexts
  PROVE  Parsed(line)[n] = Said(form, n, Options[n].default)
  <1>1. Parsed(line)[OptionOf(n)]
           = IF Says(form, n) THEN form.text[n] ELSE Options[OptionOf(n)].default
        <2>1. n \in GivenTexts BY TextDefaults
        <2> QED BY <2>1, TextGiven
  <1>2. Parsed(line)[n] = IF Says(form, n) THEN form.text[n] ELSE Options[n].default
        BY <1>1, TextDefaults
  <1>3. DefaultText[n] # "" => Options[n].default = DefaultText[n] BY TextDefaults
  <1> QED BY <1>2, <1>3 DEF Says, Said

LEMMA RestGiven ==
  ASSUME NEW form, NEW d, NEW line, IsLine(line, form, d), Parses(line)
  PROVE  /\ Parsed(line).port_range
              = IF form.text.port = "" THEN "27183:27199" ELSE form.text.port
         /\ Parsed(line).audio_source
              = IF form.text.audio_source \in {"", "output"} THEN NotGiven
                ELSE form.text.audio_source
         /\ \A n \in {"record_orientation", "display_orientation"} :
              Parsed(line)[n] = IF form.text[n] \in {"", "0"} THEN NotGiven ELSE form.text[n]
  <1> DEFINE N == {"port", "audio_source", "record_orientation", "display_orientation"}
  <1>1. \A n \in N : n \in GivenTexts BY DEF GivenTexts, PlainTexts, BitRates
  <1>2. \A n \in N : OptionOf(n) = IF n = "port" THEN "port_range" ELSE n BY OptionNames
  <1>3. /\ DefaultText.port = "" /\ DefaultText.audio_source = "output"
        /\ DefaultText.record_orientation = "0" /\ DefaultText.display_orientation = "0"
        BY DEF DefaultText
  <1>4. /\ Options.port_range.default = "27183:27199"
        /\ Options.audio_source.default = NotGiven
        /\ Options.record_orientation.default = NotGiven
        /\ Options.display_orientation.default = NotGiven
        BY StreamTable, DeviceTable, WindowTable DEF Text, Takes, OneOf
  <1>5. ASSUME NEW n \in N
        PROVE  Parsed(line)[OptionOf(n)]
                 = IF Says(form, n) THEN form.text[n] ELSE Options[OptionOf(n)].default
        BY <1>1, TextGiven
  <1>6. "port" \in N /\ "audio_source" \in N /\ "record_orientation" \in N
          /\ "display_orientation" \in N
        OBVIOUS
  <1>7. Parsed(line).port_range = IF form.text.port = "" THEN "27183:27199" ELSE form.text.port
        BY <1>2, <1>3, <1>4, <1>5, <1>6 DEF Says
  <1>8. Parsed(line).audio_source
              = IF form.text.audio_source \in {"", "output"} THEN NotGiven
                ELSE form.text.audio_source
        BY <1>2, <1>3, <1>4, <1>5, <1>6 DEF Says
  <1>9. ASSUME NEW n \in {"record_orientation", "display_orientation"}
        PROVE  Parsed(line)[n] = IF form.text[n] \in {"", "0"} THEN NotGiven ELSE form.text[n]
        BY <1>2, <1>3, <1>4, <1>5, <1>6 DEF Says
  <1> QED BY <1>7, <1>8, <1>9

(* The device a client goes to, and the one it is asked to go to.            *)
LEMMA Destination ==
  ASSUME NEW opts
  PROVE  /\ opts.serial # NotGiven => GoesTo(opts) = opts.serial
         /\ opts.serial = NotGiven /\ opts.tcpip # NotGiven => GoesTo(opts) = opts.tcpip
         /\ opts.serial = NotGiven /\ opts.tcpip = NotGiven
              => GoesTo(opts) = IF opts.select_usb = opts.select_tcpip THEN "any"
                                ELSE IF opts.select_usb = "true" THEN "usb" ELSE "tcpip"
  <1>1. ASSUME opts.serial # NotGiven PROVE GoesTo(opts) = opts.serial BY <1>1 DEF GoesTo
  <1>2. ASSUME opts.serial = NotGiven, opts.tcpip # NotGiven PROVE GoesTo(opts) = opts.tcpip
        BY <1>2 DEF GoesTo
  <1>3. ASSUME opts.serial = NotGiven, opts.tcpip = NotGiven
        PROVE  GoesTo(opts) = IF opts.select_usb = opts.select_tcpip THEN "any"
                              ELSE IF opts.select_usb = "true" THEN "usb" ELSE "tcpip"
        BY <1>3 DEF GoesTo
  <1> QED BY <1>1, <1>2, <1>3

LEMMA AskedDestination ==
  ASSUME NEW form, NEW d
  PROVE  /\ d # NoDevice => AskedDevice(form, d) = d
         /\ d = NoDevice /\ Reached(form) => AskedDevice(form, d) = form.text.tcpip_addr
         /\ d = NoDevice /\ ~Reached(form) /\ form.text.serial # ""
              => AskedDevice(form, d) = form.text.serial
         /\ d = NoDevice /\ ~Reached(form) /\ form.text.serial = ""
              => AskedDevice(form, d)
                   = IF Is(form, "select_usb") = Is(form, "select_tcpip") THEN "any"
                     ELSE IF "select_usb" \in form.on THEN "usb" ELSE "tcpip"
  <1>1. ASSUME d # NoDevice PROVE AskedDevice(form, d) = d BY <1>1, Zenon DEF AskedDevice
  <1>2. ASSUME d = NoDevice, Reached(form) PROVE AskedDevice(form, d) = form.text.tcpip_addr
        BY <1>2, Zenon DEF AskedDevice
  <1>3. ASSUME d = NoDevice, ~Reached(form), form.text.serial # ""
        PROVE  AskedDevice(form, d) = form.text.serial
        BY <1>3, Zenon DEF AskedDevice
  <1>4. ASSUME d = NoDevice, ~Reached(form), form.text.serial = ""
        PROVE  AskedDevice(form, d)
                   = IF Is(form, "select_usb") = Is(form, "select_tcpip") THEN "any"
                     ELSE IF "select_usb" \in form.on THEN "usb" ELSE "tcpip"
        BY <1>4, Zenon DEF AskedDevice
  <1> QED BY <1>1, <1>2, <1>3, <1>4

(* What a client does of the device and by itself is what was asked.         *)
LEMMA DeviceAgrees ==
  ASSUME NEW form, Filled(form), NEW d \in Devices \cup {NoDevice}, NEW line,
         IsLine(line, form, d), Parses(line), ~Contradictory(Parsed(line))
  PROVE  GoesTo(Parsed(line)) = AskedDevice(form, d)
  <1> DEFINE opts == Parsed(line)
  <1> SUFFICES GoesTo(opts) = AskedDevice(form, d) OBVIOUS
  <1>1. opts.serial = IF d # NoDevice THEN d
                      ELSE IF form.text.serial # "" THEN form.text.serial ELSE NotGiven
        BY SerialGiven
  <1>2. opts.tcpip = IF Reached(form) THEN form.text.tcpip_addr ELSE NotGiven BY ValueGiven
  <1>3. d = NoDevice => /\ opts.select_usb = Bool(Picks(form, "select_usb"))
                        /\ opts.select_tcpip = Bool(Picks(form, "select_tcpip"))
        BY SelectorGiven DEF SelectorNames
  <1>4. ~(opts.serial # NotGiven /\ opts.tcpip # NotGiven)
        <2>1. ASSUME opts.serial # NotGiven, opts.tcpip # NotGiven PROVE FALSE
              <3>1. "serial" \in Selected(opts) /\ "tcpip" \in Selected(opts)
                    BY <2>1 DEF Selected
              <3> QED BY <3>1 DEF Contradictory
        <2> QED BY <2>1
  <1>5. form.text.serial # NotGiven /\ form.text.tcpip_addr # NotGiven
        <2>1. "serial" \in Texts /\ "tcpip_addr" \in Texts BY DEF Texts, DefaultText
        <2> QED BY <2>1, FormTexts
  <1>6. d # NoDevice => d # NotGiven BY FormAssumption
  <1> HIDE DEF opts
  <1>7. CASE d # NoDevice BY <1>1, <1>6, <1>7, Destination, AskedDestination
  <1>8. CASE d = NoDevice /\ Reached(form)
        <2>1. opts.serial = NotGiven /\ opts.tcpip = form.text.tcpip_addr
              BY <1>1, <1>2, <1>4, <1>5, <1>8
        <2> QED BY <1>5, <1>8, <2>1, Destination, AskedDestination
  <1>9. CASE d = NoDevice /\ ~Reached(form) /\ form.text.serial # ""
        BY <1>1, <1>2, <1>5, <1>9, Destination, AskedDestination
  <1>10. CASE d = NoDevice /\ ~Reached(form) /\ form.text.serial = ""
        <2>1. opts.serial = NotGiven /\ opts.tcpip = NotGiven BY <1>1, <1>2, <1>10
        <2>2. GoesTo(opts) = IF opts.select_usb = opts.select_tcpip THEN "any"
                ELSE IF opts.select_usb = "true" THEN "usb" ELSE "tcpip"
              BY <2>1, Destination
        <2>3. AskedDevice(form, d)
                = IF Is(form, "select_usb") = Is(form, "select_tcpip") THEN "any"
                  ELSE IF "select_usb" \in form.on THEN "usb" ELSE "tcpip"
              BY <1>10, AskedDestination
        <2> DEFINE u == "select_usb" \in form.on
                   t == "select_tcpip" \in form.on
        <2>4. /\ Picks(form, "select_usb") <=> u /\ ~t
              /\ Picks(form, "select_tcpip") <=> t /\ ~u
              BY <1>10 DEF Picks
        <2>5. /\ opts.select_usb = IF u /\ ~t THEN "true" ELSE "false"
              /\ opts.select_tcpip = IF t /\ ~u THEN "true" ELSE "false"
              BY <1>3, <1>10, <2>4 DEF Bool
        <2>6. /\ Is(form, "select_usb") = IF u THEN "true" ELSE "false"
              /\ Is(form, "select_tcpip") = IF t THEN "true" ELSE "false"
              BY DEF Is, Bool
        <2> HIDE DEF t
        <2> QED BY <2>2, <2>3, <2>5, <2>6
  <1>11. CASE d = NoDevice BY <1>8, <1>9, <1>10, <1>11
  <1> QED BY <1>7, <1>11

LEMMA ClientAgrees ==
  ASSUME NEW form, Filled(form), NEW d \in Devices \cup {NoDevice}, NEW line,
         IsLine(line, form, d), Parses(line), ~Contradictory(Parsed(line))
  PROVE  DoesItself(Parsed(line)) = AskedOfClient(form, d, form.text.record_path)
  <1> DEFINE opts == Parsed(line)
  <1>1. GoesTo(opts) = AskedDevice(form, d) BY DeviceAgrees
  <1>2. opts.record = AskedFile(form, d, form.text.record_path)
        <2> DEFINE tag == IF d = NoDevice THEN "" ELSE d
        <2>1. opts.record = IF Records(form) THEN FileOf(form, d) ELSE NotGiven BY ValueGiven
        <2>3. AskedFile(form, d, form.text.record_path)
                = IF Records(form) THEN TagFileName(EffectiveRecordPath(form), tag) ELSE NotGiven
              BY DEF AskedFile, EffectiveRecordPath, Records
        <2>4. TagFileName(EffectiveRecordPath(form), "") = EffectiveRecordPath(form)
              BY DEF TagFileName
        <2>5. FileOf(form, d) = TagFileName(EffectiveRecordPath(form), tag)
              BY <2>4 DEF FileOf
        <2> HIDE DEF tag
        <2> QED BY <2>1, <2>3, <2>5
  <1>3. RecordRotation(opts) = Said(form, "record_orientation", "0")
        <2>1. opts.record_orientation
                = IF form.text.record_orientation \in {"", "0"} THEN NotGiven
                  ELSE form.text.record_orientation
              BY RestGiven
        <2>2. opts.orientation = "0" BY UnsetGiven
        <2>3. "record_orientation" \in Texts BY DEF Texts, DefaultText
        <2> QED BY <2>1, <2>2, <2>3, FormTexts DEF RecordRotation, Said
  <1>4. DisplayRotation(opts) = Said(form, "display_orientation", "0")
        <2>1. opts.display_orientation
                = IF form.text.display_orientation \in {"", "0"} THEN NotGiven
                  ELSE form.text.display_orientation
              BY RestGiven
        <2>2. opts.orientation = "0" BY UnsetGiven
        <2>3. "display_orientation" \in Texts BY DEF Texts, DefaultText
        <2> QED BY <2>1, <2>2, <2>3, FormTexts DEF DisplayRotation, Said
  <1>s. \A s \in {"no_audio", "no_video", "no_video_playback", "no_playback",
                  "no_audio_playback", "raw_key_events", "prefer_text", "require_audio"} :
          opts[s] = Bool(s \in form.on)
        BY SwitchesAgree DEF Is
  <1>5. VideoPlayback(opts) = ({"no_video", "no_video_playback", "no_playback"} \cap form.on = {})
        <2>1. opts.no_window = "false" BY UnsetGiven
        <2> QED BY <1>s, <2>1 DEF VideoPlayback, Bool
  <1>6. AudioPlayback(opts) = ({"no_audio", "no_audio_playback", "no_playback"} \cap form.on = {})
        BY <1>s DEF AudioPlayback, Bool
  <1>7. KeyInjectMode(opts) = IF "raw_key_events" \in form.on THEN "raw"
                 ELSE IF "prefer_text" \in form.on THEN "text" ELSE "mixed"
        <2>1. opts.key_inject_mode = "mixed" BY UnsetGiven
        <2> QED BY <1>s, <2>1 DEF KeyInjectMode, Bool
  <1>8. MouseBind(opts) = IF "forward_all_clicks" \in form.on THEN "++++"
                 ELSE IF "mouse_bind_enabled" \in form.on
                      THEN Said(form, "mouse_bind", NotGiven) ELSE NotGiven
        <2>1. opts.mouse_bind
                = IF "forward_all_clicks" \in form.on THEN "++++"
                  ELSE IF "mouse_bind_enabled" \in form.on /\ form.text.mouse_bind # ""
                       THEN form.text.mouse_bind ELSE NotGiven
              BY MouseBindGiven
        <2>2. opts.forward_all_clicks = "false" BY UnsetGiven
        <2> QED BY <2>1, <2>2 DEF MouseBind, Said
  <1>9. PortRange(opts) = IF form.text.port \in DOMAIN Ranges THEN Ranges[form.text.port]
            ELSE "27183:27199"
        <2>1. opts.port_range = IF form.text.port = "" THEN "27183:27199" ELSE form.text.port
              BY RestGiven
        <2>2. Options.port_range.default = "27183:27199" BY StreamTable DEF Text, Takes
        <2> QED BY <2>1, <2>2, FormAssumption DEF PortRange, Rewritten
  <1>10. opts.clipboard_direction = Direction(Said(form, "clipboard_direction", "both"))
        <2>1. opts.clipboard_direction
                = IF Direction(form.text.clipboard_direction) \in {"", "both"} THEN "both"
                  ELSE Direction(form.text.clipboard_direction)
              BY ClipboardGiven
        <2>2. form.text.clipboard_direction \in {"", "both", "toDevice", "toPc"} BY DEF Filled
        <2>3. /\ Direction("") = "" /\ Direction("both") = "both"
              /\ Direction("toDevice") = "to-device" /\ Direction("toPc") = "to-pc"
              BY DEF Direction, Rewritten
        <2> QED BY <2>1, <2>2, <2>3 DEF Said
  <1>11. opts.v4l2_sink = Said(form, "v4l2_sink", NotGiven) BY ValueGiven DEF Said
  <1>12. opts.v4l2_buffer
           = IF form.text.v4l2_sink # "" THEN Said(form, "v4l2_buffer", "0") ELSE "0"
        BY ValueGiven DEF Said
  <1>13. opts.require_audio = Is(form, "require_audio") BY <1>s DEF Is
  <1> SUFFICES DoesItself(opts) = AskedOfClient(form, d, form.text.record_path) OBVIOUS
  <1> HIDE DEF opts
  <1> QED
        BY <1>1, <1>2, <1>3, <1>4, <1>5, <1>6, <1>7, <1>8, <1>9, <1>10, <1>11, <1>12, <1>13
        DEF DoesItself, AskedOfClient

--------------------------------------------------------------------------------
(***************************************************************************)
(* What the server is told, and what it does by it.                        *)
(***************************************************************************)

(* What is among the server's arguments under a name, and what it does then. *)
ArgsOf(args, n) == {a \in args : a.arg = n}

LEMMA UnionArgs ==
  ASSUME NEW A, NEW B, NEW n
  PROVE  ArgsOf(A \cup B, n) = ArgsOf(A, n) \cup ArgsOf(B, n)
  BY DEF ArgsOf

LEMMA NoArgs ==
  ASSUME NEW A, NEW n, \A a \in A : a.arg # n
  PROVE  ArgsOf(A, n) = {}
  BY DEF ArgsOf

LEMMA OneArg ==
  ASSUME NEW m, NEW v
  PROVE  /\ \A a \in Arg(m, v) : a.arg = m /\ a.value = v
         /\ \A n : ArgsOf(Arg(m, v), n) = Told(m = n, m, v)
  BY DEF ArgsOf, Arg, Told, Only

LEMMA ToldArgs ==
  ASSUME NEW c, NEW m, NEW v
  PROVE  /\ \A a \in Told(c, m, v) : a.arg = m
         /\ \A n : ArgsOf(Told(c, m, v), n) = Told(c /\ m = n, m, v)
  BY DEF ArgsOf, Arg, Told, Only

LEMMA ServedOnce ==
  ASSUME NEW args, NEW n, NEW c, NEW v, ArgsOf(args, n) = Told(c, n, v)
  PROVE  Served(args, n) = IF c THEN v ELSE ServerDefault[n]
  <1>1. CASE c
        <2>1. ArgsOf(args, n) = Arg(n, v) BY <1>1 DEF Told, Only
        <2>2. Arg(n, v) # {} BY DEF Arg
        <2>3. \E a \in args : a.arg = n BY <2>1, <2>2 DEF ArgsOf
        <2> DEFINE b == CHOOSE a \in args : a.arg = n
        <2>4. b \in args /\ b.arg = n BY <2>3
        <2> HIDE DEF b
        <2>5. b \in Arg(n, v) BY <2>1, <2>4 DEF ArgsOf
        <2>6. b.value = v BY <2>5, OneArg
        <2>7. Served(args, n) = b.value BY <2>3 DEF Served, b
        <2> QED BY <1>1, <2>6, <2>7
  <1>2. CASE ~c
        <2>1. \A a \in args : a.arg # n BY <1>2 DEF Told, Only, ArgsOf
        <2> QED BY <1>2, <2>1 DEF Served
  <1> QED BY <1>1, <1>2

LEMMA PassedArgs ==
  ASSUME NEW opts, NEW S
  PROVE  /\ \A a \in Passed(opts, S) : a.arg \in S
         /\ \A n : ArgsOf(Passed(opts, S), n) = Told(n \in S /\ opts[n] # NotGiven, n, opts[n])
  <1>1. \A a : a \in Passed(opts, S)
                 <=> \E m \in S : opts[m] # NotGiven /\ a \in Arg(m, opts[m])
        BY DEF Passed, Told, Only
  <1>2. \A m : \A a \in Arg(m, opts[m]) : a.arg = m BY OneArg
  <1>3. ASSUME NEW n
        PROVE  ArgsOf(Passed(opts, S), n) = Told(n \in S /\ opts[n] # NotGiven, n, opts[n])
        BY <1>1, <1>2 DEF ArgsOf, Told, Only
  <1> QED BY <1>1, <1>2, <1>3

LEMMA RaisedArgs ==
  ASSUME NEW opts, NEW S
  PROVE  /\ \A a \in Raised(opts, S) : a.arg \in S
         /\ \A n : ArgsOf(Raised(opts, S), n) = Told(n \in S /\ opts[n] = "true", n, "true")
  <1>1. \A a : a \in Raised(opts, S)
                 <=> \E m \in S : opts[m] = "true" /\ a \in Arg(m, "true")
        BY DEF Raised, Told, Only
  <1>2. \A m : \A a \in Arg(m, "true") : a.arg = m BY OneArg
  <1>3. ASSUME NEW n
        PROVE  ArgsOf(Raised(opts, S), n) = Told(n \in S /\ opts[n] = "true", n, "true")
        BY <1>1, <1>2 DEF ArgsOf, Told, Only
  <1> QED BY <1>1, <1>2, <1>3

(* The names each group of arguments has. *)
VideoNames == {"video", "video_codec", "video_bit_rate", "max_size", "max_fps"}
AudioNames == {"audio", "audio_codec"}
PowerNames == {"clipboard_autosync", "control", "crop", "display_id", "screen_off_timeout",
               "show_touches", "stay_awake", "power_off_on_close", "cleanup", "power_on",
               "audio_bit_rate", "video_encoder", "audio_encoder"}
CameraNames == {"video_source", "camera_id", "camera_size", "camera_facing", "camera_fps",
                "camera_ar", "camera_zoom", "capture_orientation", "camera_torch",
                "camera_high_speed"}
DisplayNames == {"new_display", "angle", "min_size_alignment", "video_codec_options",
                 "audio_codec_options", "display_ime_policy", "vd_destroy_content",
                 "vd_system_decorations", "flex_display", "audio_dup", "keep_active",
                 "ignore_video_encoder_constraints", "downsize_on_error"}

LEMMA ArgNames ==
  ASSUME NEW opts
  PROVE  /\ \A a \in Arg("log_level", opts.verbosity) : a.arg = "log_level"
         /\ \A a \in VideoArgs(opts) : a.arg \in VideoNames
         /\ \A a \in AudioArgs(opts) : a.arg \in AudioNames
         /\ \A a \in AudioSourceArgs(opts) : a.arg = "audio_source"
         /\ \A a \in PowerArgs(opts) : a.arg \in PowerNames
         /\ \A a \in CameraArgs(opts) : a.arg \in CameraNames
         /\ \A a \in DisplayArgs(opts) : a.arg \in DisplayNames
  <1>1. \A m, v : \A a \in Arg(m, v) : a.arg = m BY OneArg
  <1>2. \A c, m, v : \A a \in Told(c, m, v) : a.arg = m BY ToldArgs
  <1>3. \A S : \A a \in Passed(opts, S) : a.arg \in S BY PassedArgs
  <1>4. \A S : \A a \in Raised(opts, S) : a.arg \in S BY RaisedArgs
  <1>5. \A p, q : \A a \in Lowered(opts, p, q) : a.arg = p BY <1>2 DEF Lowered
  <1>6. \A c, A : \A a \in Only(c, A) : a \in A BY DEF Only
  <1>7. \A a \in VideoArgs(opts) : a.arg \in VideoNames
        BY <1>1, <1>2, <1>3 DEF VideoArgs, VideoNames
  <1>8. \A a \in AudioArgs(opts) : a.arg \in AudioNames
        BY <1>1 DEF AudioArgs, AudioNames
  <1>9. \A a \in AudioSourceArgs(opts) : a.arg = "audio_source"
        BY <1>1, <1>2 DEF AudioSourceArgs
  <1>10. \A a \in PowerArgs(opts) : a.arg \in PowerNames
        <2>1. \A a \in Passed(opts, {"crop", "display_id"}) : a.arg \in PowerNames
              BY <1>3 DEF PowerNames
        <2>2. \A a \in Raised(opts, {"show_touches", "stay_awake", "power_off_on_close"}) :
                a.arg \in PowerNames
              BY <1>4 DEF PowerNames
        <2>3. \A a \in Passed(opts, {"video_encoder", "audio_encoder"}) : a.arg \in PowerNames
              BY <1>3 DEF PowerNames
        <2>4. \A a \in ScreenOffArgs(opts) : a.arg \in PowerNames
              BY <1>2 DEF ScreenOffArgs, PowerNames
        <2>5. \A a \in Lowered(opts, "clipboard_autosync", "no_clipboard_autosync")
                       \cup Lowered(opts, "power_on", "no_power_on") : a.arg \in PowerNames
              BY <1>5 DEF PowerNames
        <2>6. \A a \in Told(opts.no_control = "true", "control", "false")
                   \cup Told(opts.no_cleanup = "true", "cleanup", "false")
                   \cup Told(opts.audio_bit_rate # "128000", "audio_bit_rate",
                             opts.audio_bit_rate) : a.arg \in PowerNames
              BY <1>2 DEF PowerNames
        <2> QED BY <2>1, <2>2, <2>3, <2>4, <2>5, <2>6 DEF PowerArgs
  <1>11. \A a \in CameraArgs(opts) : a.arg \in CameraNames
        <2>1. \A a \in Told(opts.video_source # "display", "video_source", opts.video_source) :
                a.arg \in CameraNames
              BY <1>2 DEF CameraNames
        <2>2. \A a \in Passed(opts, {"camera_id", "camera_size", "camera_facing", "camera_fps",
                       "camera_ar", "camera_zoom", "capture_orientation"}) : a.arg \in CameraNames
              BY <1>3 DEF CameraNames
        <2>3. \A a \in Raised(opts, {"camera_torch", "camera_high_speed"}) : a.arg \in CameraNames
              BY <1>4 DEF CameraNames
        <2> QED BY <2>1, <2>2, <2>3 DEF CameraArgs
  <1>12. \A a \in DisplayArgs(opts) : a.arg \in DisplayNames
        <2>1. \A a \in Passed(opts, {"new_display", "angle", "min_size_alignment",
                     "video_codec_options", "audio_codec_options", "display_ime_policy"}) :
                a.arg \in DisplayNames
              BY <1>3 DEF DisplayNames
        <2>2. \A a \in Told(opts.no_vd_destroy_content = "true", "vd_destroy_content", "false")
                \cup Told(opts.no_vd_system_decorations = "true",
                          "vd_system_decorations", "false") : a.arg \in DisplayNames
              BY <1>2 DEF DisplayNames
        <2>3. \A a \in Raised(opts, {"flex_display", "audio_dup", "keep_active",
                       "ignore_video_encoder_constraints"}) : a.arg \in DisplayNames
              BY <1>4 DEF DisplayNames
        <2>4. \A a \in Lowered(opts, "downsize_on_error", "no_downsize_on_error") :
                a.arg \in DisplayNames
              BY <1>5 DEF DisplayNames
        <2> QED BY <2>1, <2>2, <2>3, <2>4, <1>6 DEF DisplayArgs
  <1> QED BY <1>1, <1>7, <1>8, <1>9, <1>10, <1>11, <1>12

LEMMA ArgsByGroup ==
  ASSUME NEW opts, NEW n
  PROVE  /\ ArgsOf(BuildServerArgs(opts), n)
              = ArgsOf(Arg("log_level", opts.verbosity), n) \cup ArgsOf(VideoArgs(opts), n)
                  \cup ArgsOf(AudioArgs(opts), n) \cup ArgsOf(PowerArgs(opts), n)
                  \cup ArgsOf(AudioSourceArgs(opts), n) \cup ArgsOf(CameraArgs(opts), n)
                  \cup ArgsOf(DisplayArgs(opts), n)
         /\ n # "log_level" => ArgsOf(Arg("log_level", opts.verbosity), n) = {}
         /\ n \notin VideoNames => ArgsOf(VideoArgs(opts), n) = {}
         /\ n \notin AudioNames => ArgsOf(AudioArgs(opts), n) = {}
         /\ n # "audio_source" => ArgsOf(AudioSourceArgs(opts), n) = {}
         /\ n \notin PowerNames => ArgsOf(PowerArgs(opts), n) = {}
         /\ n \notin CameraNames => ArgsOf(CameraArgs(opts), n) = {}
         /\ n \notin DisplayNames => ArgsOf(DisplayArgs(opts), n) = {}
  <1>1. ArgsOf(BuildServerArgs(opts), n)
              = ArgsOf(Arg("log_level", opts.verbosity), n) \cup ArgsOf(VideoArgs(opts), n)
                  \cup ArgsOf(AudioArgs(opts), n) \cup ArgsOf(PowerArgs(opts), n)
                  \cup ArgsOf(AudioSourceArgs(opts), n) \cup ArgsOf(CameraArgs(opts), n)
                  \cup ArgsOf(DisplayArgs(opts), n)
        BY DEF BuildServerArgs, ArgsOf
  <1> QED BY <1>1, ArgNames, NoArgs

LEMMA ApartGroups ==
  /\ "log_level" \notin VideoNames \cup AudioNames \cup PowerNames \cup CameraNames
                          \cup DisplayNames
  /\ "audio_source" \notin VideoNames \cup AudioNames \cup PowerNames \cup CameraNames
                             \cup DisplayNames
  /\ \A n \in VideoNames : /\ n \notin {"log_level", "audio_source"} /\ n \notin AudioNames
                           /\ n \notin PowerNames /\ n \notin CameraNames /\ n \notin DisplayNames
  /\ \A n \in AudioNames : /\ n \notin {"log_level", "audio_source"} /\ n \notin VideoNames
                           /\ n \notin PowerNames /\ n \notin CameraNames /\ n \notin DisplayNames
  /\ \A n \in PowerNames : /\ n \notin {"log_level", "audio_source"} /\ n \notin AudioNames
                           /\ n \notin VideoNames /\ n \notin CameraNames /\ n \notin DisplayNames
  /\ \A n \in CameraNames : /\ n \notin {"log_level", "audio_source"} /\ n \notin AudioNames
                            /\ n \notin PowerNames /\ n \notin VideoNames /\ n \notin DisplayNames
  /\ \A n \in DisplayNames : /\ n \notin {"log_level", "audio_source"} /\ n \notin AudioNames
                             /\ n \notin PowerNames /\ n \notin CameraNames /\ n \notin VideoNames
  BY DEF VideoNames, AudioNames, PowerNames, CameraNames, DisplayNames

(* What is told under a name is told by the group that has it.               *)
LEMMA ArgsInGroup ==
  ASSUME NEW opts, NEW n, NEW args, args = BuildServerArgs(opts)
  PROVE  /\ n \in VideoNames => ArgsOf(args, n) = ArgsOf(VideoArgs(opts), n)
         /\ n \in AudioNames => ArgsOf(args, n) = ArgsOf(AudioArgs(opts), n)
         /\ n \in PowerNames => ArgsOf(args, n) = ArgsOf(PowerArgs(opts), n)
         /\ n \in CameraNames => ArgsOf(args, n) = ArgsOf(CameraArgs(opts), n)
         /\ n \in DisplayNames => ArgsOf(args, n) = ArgsOf(DisplayArgs(opts), n)
         /\ n = "log_level" => ArgsOf(args, n) = ArgsOf(Arg("log_level", opts.verbosity), n)
         /\ n = "audio_source" => ArgsOf(args, n) = ArgsOf(AudioSourceArgs(opts), n)
  <1> DEFINE V == ArgsOf(VideoArgs(opts), n)
             A == ArgsOf(AudioArgs(opts), n)
             P == ArgsOf(PowerArgs(opts), n)
             C == ArgsOf(CameraArgs(opts), n)
             D == ArgsOf(DisplayArgs(opts), n)
             L == ArgsOf(Arg("log_level", opts.verbosity), n)
             S == ArgsOf(AudioSourceArgs(opts), n)
  <1>1. /\ ArgsOf(args, n) = L \cup V \cup A \cup P \cup S \cup C \cup D
        /\ n # "log_level" => L = {}
        /\ n \notin VideoNames => V = {}
        /\ n \notin AudioNames => A = {}
        /\ n # "audio_source" => S = {}
        /\ n \notin PowerNames => P = {}
        /\ n \notin CameraNames => C = {}
        /\ n \notin DisplayNames => D = {}
        BY ArgsByGroup
  <1> HIDE DEF L, V, A, P, S, C, D
  <1>2. ASSUME n \in VideoNames PROVE ArgsOf(args, n) = V
        <2>1. /\ n # "log_level" /\ n # "audio_source" /\ n \notin AudioNames
              /\ n \notin PowerNames /\ n \notin CameraNames /\ n \notin DisplayNames
              BY <1>2, ApartGroups
        <2> QED BY <1>1, <2>1
  <1>3. ASSUME n \in AudioNames PROVE ArgsOf(args, n) = A
        <2>1. /\ n # "log_level" /\ n # "audio_source" /\ n \notin VideoNames
              /\ n \notin PowerNames /\ n \notin CameraNames /\ n \notin DisplayNames
              BY <1>3, ApartGroups
        <2> QED BY <1>1, <2>1
  <1>4. ASSUME n \in PowerNames PROVE ArgsOf(args, n) = P
        <2>1. /\ n # "log_level" /\ n # "audio_source" /\ n \notin VideoNames
              /\ n \notin AudioNames /\ n \notin CameraNames /\ n \notin DisplayNames
              BY <1>4, ApartGroups
        <2> QED BY <1>1, <2>1
  <1>5. ASSUME n \in CameraNames PROVE ArgsOf(args, n) = C
        <2>1. /\ n # "log_level" /\ n # "audio_source" /\ n \notin VideoNames
              /\ n \notin AudioNames /\ n \notin PowerNames /\ n \notin DisplayNames
              BY <1>5, ApartGroups
        <2> QED BY <1>1, <2>1
  <1>6. ASSUME n \in DisplayNames PROVE ArgsOf(args, n) = D
        <2>1. /\ n # "log_level" /\ n # "audio_source" /\ n \notin VideoNames
              /\ n \notin AudioNames /\ n \notin PowerNames /\ n \notin CameraNames
              BY <1>6, ApartGroups
        <2> QED BY <1>1, <2>1
  <1>7. ASSUME n = "log_level" PROVE ArgsOf(args, n) = L
        <2>1. /\ n # "audio_source" /\ n \notin VideoNames /\ n \notin AudioNames
              /\ n \notin PowerNames /\ n \notin CameraNames /\ n \notin DisplayNames
              BY <1>7, ApartGroups
        <2> QED BY <1>1, <2>1
  <1>8. ASSUME n = "audio_source" PROVE ArgsOf(args, n) = S
        <2>1. /\ n # "log_level" /\ n \notin VideoNames /\ n \notin AudioNames
              /\ n \notin PowerNames /\ n \notin CameraNames /\ n \notin DisplayNames
              BY <1>8, ApartGroups
        <2> QED BY <1>1, <2>1
  <1> QED BY <1>2, <1>3, <1>4, <1>5, <1>6, <1>7, <1>8 DEF L, V, A, P, S, C, D

(* What is told under each name of a group.                                  *)
VideoPart(opts, n) ==
  Told(opts.no_video = "true" /\ n = "video", n, "false")
    \cup Told(opts.no_video # "true" /\ n = "video_codec", n, opts.video_codec)
    \cup Told(opts.no_video # "true" /\ n = "video_bit_rate", n, opts.video_bit_rate)
    \cup Told(opts.no_video # "true" /\ opts.max_size # "0" /\ n = "max_size", n, opts.max_size)
    \cup Told(opts.no_video # "true" /\ opts[n] # NotGiven /\ n = "max_fps", n, opts[n])

LEMMA VideoParts ==
  ASSUME NEW opts, NEW n
  PROVE  ArgsOf(VideoArgs(opts), n) = VideoPart(opts, n)
  <1>1. \A m, v : ArgsOf(Arg(m, v), n) = Told(m = n, m, v) BY OneArg
  <1>2. ArgsOf(Told(opts.max_size # "0", "max_size", opts.max_size), n)
          = Told(opts.max_size # "0" /\ n = "max_size", n, opts.max_size)
        BY ToldArgs DEF Told, Only
  <1>3. ArgsOf(Passed(opts, {"max_fps"}), n)
          = Told(opts[n] # NotGiven /\ n = "max_fps", n, opts[n])
        <2> DEFINE S == {"max_fps"}
        <2>1. n \in S <=> n = "max_fps" OBVIOUS
        <2> HIDE DEF S
        <2>2. ArgsOf(Passed(opts, S), n) = Told(n \in S /\ opts[n] # NotGiven, n, opts[n])
              BY PassedArgs
        <2> QED BY <2>1, <2>2 DEF Told, Only, S
  <1>4. CASE opts.no_video = "true"
        <2>1. ArgsOf(VideoArgs(opts), n) = Told(n = "video", n, "false")
              BY <1>1, <1>4 DEF VideoArgs, Told, Only
        <2> QED BY <1>4, <2>1 DEF VideoPart, Told, Only
  <1>5. CASE opts.no_video # "true"
        <2> DEFINE A == Arg("video_codec", opts.video_codec)
                   B == Arg("video_bit_rate", opts.video_bit_rate)
                   C == Told(opts.max_size # "0", "max_size", opts.max_size)
                   D == Passed(opts, {"max_fps"})
        <2>1. VideoArgs(opts) = A \cup B \cup C \cup D BY <1>5 DEF VideoArgs
        <2>2. ArgsOf(A, n) = Told(n = "video_codec", n, opts.video_codec)
              BY <1>1 DEF Told, Only
        <2>3. ArgsOf(B, n) = Told(n = "video_bit_rate", n, opts.video_bit_rate)
              BY <1>1 DEF Told, Only
        <2> HIDE DEF A, B, C, D
        <2>4. ArgsOf(VideoArgs(opts), n) = ArgsOf(A, n) \cup ArgsOf(B, n) \cup ArgsOf(C, n)
                                             \cup ArgsOf(D, n)
              BY <2>1 DEF ArgsOf
        <2> QED BY <1>2, <1>3, <1>5, <2>2, <2>3, <2>4 DEF VideoPart, Told, Only, C, D
  <1> QED BY <1>4, <1>5

LEMMA ServerDefaults ==
  /\ ServerDefault.video = "true" /\ ServerDefault.max_size = "0"
  /\ ServerDefault.max_fps = NotGiven /\ ServerDefault.audio = "true"
  /\ ServerDefault.log_level = "info" /\ ServerDefault.control = "true"
  /\ ServerDefault.audio_bit_rate = "128000" /\ ServerDefault.clipboard_autosync = "true"
  /\ ServerDefault.crop = NotGiven /\ ServerDefault.show_touches = "false"
  /\ ServerDefault.stay_awake = "false" /\ ServerDefault.cleanup = "true"
  /\ ServerDefault.power_on = "true" /\ ServerDefault.power_off_on_close = "false"
  /\ ServerDefault.display_id = NotGiven /\ ServerDefault.video_encoder = NotGiven
  /\ ServerDefault.audio_encoder = NotGiven /\ ServerDefault.audio_source = "output"
  /\ ServerDefault.audio_dup = "false" /\ ServerDefault.video_source = "display"
  /\ ServerDefault.camera_id = NotGiven /\ ServerDefault.camera_size = NotGiven
  /\ ServerDefault.camera_facing = "back" /\ ServerDefault.camera_fps = NotGiven
  /\ ServerDefault.camera_ar = NotGiven /\ ServerDefault.camera_high_speed = "false"
  /\ ServerDefault.new_display = NotGiven /\ ServerDefault.vd_destroy_content = "true"
  /\ ServerDefault.vd_system_decorations = "true"
  BY DEF ServerDefault

(* What the server does of what it is told, or not told.                     *)
LEMMA VideoServed ==
  ASSUME NEW opts, NEW args, args = BuildServerArgs(opts)
  PROVE  /\ Served(args, "video") = IF opts.no_video = "true" THEN "false" ELSE "true"
         /\ opts.no_video # "true" =>
              /\ Served(args, "video_codec") = opts.video_codec
              /\ Served(args, "video_bit_rate") = opts.video_bit_rate
              /\ Served(args, "max_size") = opts.max_size
              /\ Served(args, "max_fps") = opts.max_fps
  <1>1. ASSUME NEW n \in VideoNames PROVE ArgsOf(args, n) = VideoPart(opts, n)
        BY ArgsInGroup, VideoParts
  <1>2. /\ "video" \in VideoNames /\ "video_codec" \in VideoNames
        /\ "video_bit_rate" \in VideoNames /\ "max_size" \in VideoNames
        /\ "max_fps" \in VideoNames
        BY DEF VideoNames
  <1>3. Served(args, "video") = IF opts.no_video = "true" THEN "false" ELSE "true"
        <2> DEFINE n == "video"
                   c == opts.no_video = "true"
        <2>1. ArgsOf(args, n) = Told(c, n, "false")
              BY <1>1, <1>2 DEF VideoPart, Told, Only
        <2> HIDE DEF c
        <2>2. Served(args, n) = IF c THEN "false" ELSE ServerDefault[n] BY <2>1, ServedOnce
        <2> QED BY <2>2, ServerDefaults DEF c
  <1>4. ASSUME opts.no_video # "true" PROVE Served(args, "video_codec") = opts.video_codec
        <2> DEFINE n == "video_codec"
                   c == opts.no_video # "true"
        <2>1. ArgsOf(args, n) = Told(c, n, opts.video_codec)
              BY <1>1, <1>2 DEF VideoPart, Told, Only
        <2> HIDE DEF c
        <2>2. Served(args, n) = IF c THEN opts.video_codec ELSE ServerDefault[n]
              BY <2>1, ServedOnce
        <2> QED BY <1>4, <2>2 DEF c
  <1>5. ASSUME opts.no_video # "true" PROVE Served(args, "video_bit_rate") = opts.video_bit_rate
        <2> DEFINE n == "video_bit_rate"
                   c == opts.no_video # "true"
        <2>1. ArgsOf(args, n) = Told(c, n, opts.video_bit_rate)
              BY <1>1, <1>2 DEF VideoPart, Told, Only
        <2> HIDE DEF c
        <2>2. Served(args, n) = IF c THEN opts.video_bit_rate ELSE ServerDefault[n]
              BY <2>1, ServedOnce
        <2> QED BY <1>5, <2>2 DEF c
  <1>6. ASSUME opts.no_video # "true" PROVE Served(args, "max_size") = opts.max_size
        <2> DEFINE n == "max_size"
                   c == opts.no_video # "true" /\ opts.max_size # "0"
        <2>1. ArgsOf(args, n) = Told(c, n, opts.max_size)
              BY <1>1, <1>2 DEF VideoPart, Told, Only
        <2> HIDE DEF c
        <2>2. Served(args, n) = IF c THEN opts.max_size ELSE ServerDefault[n]
              BY <2>1, ServedOnce
        <2> QED BY <1>6, <2>2, ServerDefaults DEF c
  <1>7. ASSUME opts.no_video # "true" PROVE Served(args, "max_fps") = opts.max_fps
        <2> DEFINE n == "max_fps"
                   c == opts.no_video # "true" /\ opts[n] # NotGiven
        <2>1. ArgsOf(args, n) = Told(c, n, opts[n])
              BY <1>1, <1>2 DEF VideoPart, Told, Only
        <2> HIDE DEF c
        <2>2. Served(args, n) = IF c THEN opts[n] ELSE ServerDefault[n]
              BY <2>1, ServedOnce
        <2> QED BY <1>7, <2>2, ServerDefaults DEF c
  <1> QED BY <1>3, <1>4, <1>5, <1>6, <1>7

(* The same of the sound, and of the words of the log.                       *)
LEMMA AudioServed ==
  ASSUME NEW opts, NEW args, args = BuildServerArgs(opts)
  PROVE  /\ Served(args, "audio") = IF opts.no_audio = "true" THEN "false" ELSE "true"
         /\ opts.no_audio # "true" => Served(args, "audio_codec") = opts.audio_codec
         /\ Served(args, "log_level") = opts.verbosity
         /\ Served(args, "audio_source")
              = IF opts.audio_source # NotGiven THEN opts.audio_source
                ELSE IF opts.audio_dup = "true" THEN "playback" ELSE "output"
  <1>1. "audio" \in AudioNames /\ "audio_codec" \in AudioNames BY DEF AudioNames
  <1>2. ASSUME NEW n \in AudioNames
        PROVE  ArgsOf(args, n)
                 = IF opts.no_audio = "true" THEN Told("audio" = n, "audio", "false")
                   ELSE Told("audio_codec" = n, "audio_codec", opts.audio_codec)
        <2>1. ArgsOf(args, n) = ArgsOf(AudioArgs(opts), n) BY ArgsInGroup
        <2> QED BY <2>1, OneArg DEF AudioArgs
  <1>3. Served(args, "audio") = IF opts.no_audio = "true" THEN "false" ELSE "true"
        <2> DEFINE n == "audio"
                   c == opts.no_audio = "true"
        <2>1. ArgsOf(args, n) = Told(c, n, "false") BY <1>1, <1>2 DEF Told, Only
        <2> HIDE DEF c
        <2>2. Served(args, n) = IF c THEN "false" ELSE ServerDefault[n] BY <2>1, ServedOnce
        <2> QED BY <2>2, ServerDefaults DEF c
  <1>4. ASSUME opts.no_audio # "true" PROVE Served(args, "audio_codec") = opts.audio_codec
        <2> DEFINE n == "audio_codec"
                   c == opts.no_audio # "true"
        <2>1. ArgsOf(args, n) = Told(c, n, opts.audio_codec) BY <1>1, <1>2 DEF Told, Only
        <2> HIDE DEF c
        <2>2. Served(args, n) = IF c THEN opts.audio_codec ELSE ServerDefault[n]
              BY <2>1, ServedOnce
        <2> QED BY <1>4, <2>2 DEF c
  <1>5. Served(args, "log_level") = opts.verbosity
        <2> DEFINE n == "log_level"
                   c == n = "log_level"
        <2>1. ArgsOf(args, n) = ArgsOf(Arg(n, opts.verbosity), n)
              BY ArgsInGroup
        <2>2. ArgsOf(args, n) = Told(c, n, opts.verbosity) BY <2>1, OneArg DEF Told, Only
        <2> HIDE DEF c
        <2>3. Served(args, n) = IF c THEN opts.verbosity ELSE ServerDefault[n]
              BY <2>2, ServedOnce
        <2> QED BY <2>3 DEF c
  <1>6. Served(args, "audio_source")
              = IF opts.audio_source # NotGiven THEN opts.audio_source
                ELSE IF opts.audio_dup = "true" THEN "playback" ELSE "output"
        <2> DEFINE n == "audio_source"
                   c == opts.audio_source # NotGiven \/ opts.audio_dup = "true"
                   v == IF opts.audio_source # NotGiven THEN opts.audio_source ELSE "playback"
        <2>1. ArgsOf(args, n) = ArgsOf(AudioSourceArgs(opts), n)
              BY ArgsInGroup
        <2>2. ArgsOf(args, n) = Told(c, n, v)
              <3>1. CASE opts.audio_source # NotGiven
                    <4>1. AudioSourceArgs(opts) = Arg(n, v) BY <3>1 DEF AudioSourceArgs
                    <4>2. ArgsOf(args, n) = Told(n = n, n, v) BY <2>1, <4>1, OneArg
                    <4> QED BY <3>1, <4>2 DEF Told, Only
              <3>2. CASE ~(opts.audio_source # NotGiven)
                    <4> DEFINE dup == opts.audio_dup = "true"
                    <4>1. AudioSourceArgs(opts) = Told(dup, n, v)
                          BY <3>2 DEF AudioSourceArgs
                    <4> HIDE DEF dup, v
                    <4>2. ArgsOf(Told(dup, n, v), n) = Told(dup /\ n = n, n, v) BY ToldArgs
                    <4> QED BY <2>1, <3>2, <4>1, <4>2 DEF Told, Only, dup
              <3> QED BY <3>1, <3>2
        <2> HIDE DEF c, v
        <2>3. Served(args, n) = IF c THEN v ELSE ServerDefault[n] BY <2>2, ServedOnce
        <2> QED BY <2>3, ServerDefaults DEF c, v
  <1> QED BY <1>3, <1>4, <1>5, <1>6

(* Arguments that are told as some options are.                              *)
PassedAs(opts, n) == Told(opts[n] # NotGiven, n, opts[n])
RaisedAs(opts, n) == Told(opts[n] = "true", n, "true")

LEMMA PowerParts ==
  ASSUME NEW opts
  PROVE  /\ \A n \in {"crop", "display_id", "video_encoder", "audio_encoder"} :
              ArgsOf(PowerArgs(opts), n) = PassedAs(opts, n)
         /\ \A n \in {"show_touches", "stay_awake", "power_off_on_close"} :
              ArgsOf(PowerArgs(opts), n) = RaisedAs(opts, n)
         /\ ArgsOf(PowerArgs(opts), "control") = Told(opts.no_control = "true", "control", "false")
         /\ ArgsOf(PowerArgs(opts), "cleanup") = Told(opts.no_cleanup = "true", "cleanup", "false")
         /\ ArgsOf(PowerArgs(opts), "audio_bit_rate")
              = Told(opts.audio_bit_rate # "128000", "audio_bit_rate", opts.audio_bit_rate)
         /\ ArgsOf(PowerArgs(opts), "clipboard_autosync")
              = Lowered(opts, "clipboard_autosync", "no_clipboard_autosync")
         /\ ArgsOf(PowerArgs(opts), "power_on") = Lowered(opts, "power_on", "no_power_on")
  <1> DEFINE A == Lowered(opts, "clipboard_autosync", "no_clipboard_autosync")
             B == Told(opts.no_control = "true", "control", "false")
             C == Passed(opts, {"crop", "display_id"})
             D == ScreenOffArgs(opts)
             E == Raised(opts, {"show_touches", "stay_awake", "power_off_on_close"})
             F == Told(opts.no_cleanup = "true", "cleanup", "false")
             G == Lowered(opts, "power_on", "no_power_on")
             H == Told(opts.audio_bit_rate # "128000", "audio_bit_rate", opts.audio_bit_rate)
             I == Passed(opts, {"video_encoder", "audio_encoder"})
  <1>1. PowerArgs(opts) = A \cup B \cup C \cup D \cup E \cup F \cup G \cup H \cup I
        BY DEF PowerArgs
  <1>2. \A a \in A : a.arg = "clipboard_autosync" BY ToldArgs DEF Lowered
  <1>3. \A a \in B : a.arg = "control" BY ToldArgs
  <1>4. \A a \in C : a.arg \in {"crop", "display_id"} BY PassedArgs
  <1>5. \A a \in D : a.arg = "screen_off_timeout" BY ToldArgs DEF ScreenOffArgs
  <1>6. \A a \in E : a.arg \in {"show_touches", "stay_awake", "power_off_on_close"} BY RaisedArgs
  <1>7. \A a \in F : a.arg = "cleanup" BY ToldArgs
  <1>8. \A a \in G : a.arg = "power_on" BY ToldArgs DEF Lowered
  <1>9. \A a \in H : a.arg = "audio_bit_rate" BY ToldArgs
  <1>10. \A a \in I : a.arg \in {"video_encoder", "audio_encoder"} BY PassedArgs
  <1>11. \A n \in {"crop", "display_id"} : ArgsOf(C, n) = PassedAs(opts, n)
         <2>1. \A n : ArgsOf(C, n)
                 = Told(n \in {"crop", "display_id"} /\ opts[n] # NotGiven, n, opts[n])
               BY PassedArgs
         <2> HIDE DEF C
         <2> QED BY <2>1 DEF PassedAs, Told, Only
  <1>12. \A n \in {"video_encoder", "audio_encoder"} : ArgsOf(I, n) = PassedAs(opts, n)
         <2>1. \A n : ArgsOf(I, n)
                 = Told(n \in {"video_encoder", "audio_encoder"} /\ opts[n] # NotGiven, n, opts[n])
               BY PassedArgs
         <2> HIDE DEF I
         <2> QED BY <2>1 DEF PassedAs, Told, Only
  <1>13. \A n \in {"show_touches", "stay_awake", "power_off_on_close"} :
           ArgsOf(E, n) = RaisedAs(opts, n)
         <2>1. \A n : ArgsOf(E, n)
                 = Told(/\ n \in {"show_touches", "stay_awake", "power_off_on_close"}
                        /\ opts[n] = "true", n, "true")
               BY RaisedArgs
         <2> HIDE DEF E
         <2> QED BY <2>1 DEF RaisedAs, Told, Only
  <1> HIDE DEF A, B, C, D, E, F, G, H, I
  <1>14. \A n \in {"crop", "display_id"} : ArgsOf(PowerArgs(opts), n) = ArgsOf(C, n)
         BY <1>1, <1>2, <1>3, <1>5, <1>6, <1>7, <1>8, <1>9, <1>10 DEF ArgsOf
  <1>15. \A n \in {"video_encoder", "audio_encoder"} : ArgsOf(PowerArgs(opts), n) = ArgsOf(I, n)
         BY <1>1, <1>2, <1>3, <1>4, <1>5, <1>6, <1>7, <1>8, <1>9 DEF ArgsOf
  <1>16. \A n \in {"show_touches", "stay_awake", "power_off_on_close"} :
           ArgsOf(PowerArgs(opts), n) = ArgsOf(E, n)
         BY <1>1, <1>2, <1>3, <1>4, <1>5, <1>7, <1>8, <1>9, <1>10 DEF ArgsOf
  <1>17. ArgsOf(PowerArgs(opts), "control") = B
         BY <1>1, <1>2, <1>3, <1>4, <1>5, <1>6, <1>7, <1>8, <1>9, <1>10 DEF ArgsOf
  <1>18. ArgsOf(PowerArgs(opts), "cleanup") = F
         BY <1>1, <1>2, <1>3, <1>4, <1>5, <1>6, <1>7, <1>8, <1>9, <1>10 DEF ArgsOf
  <1>19. ArgsOf(PowerArgs(opts), "audio_bit_rate") = H
         BY <1>1, <1>2, <1>3, <1>4, <1>5, <1>6, <1>7, <1>8, <1>9, <1>10 DEF ArgsOf
  <1>20. ArgsOf(PowerArgs(opts), "clipboard_autosync") = A
         BY <1>1, <1>2, <1>3, <1>4, <1>5, <1>6, <1>7, <1>8, <1>9, <1>10 DEF ArgsOf
  <1>21. ArgsOf(PowerArgs(opts), "power_on") = G
         BY <1>1, <1>2, <1>3, <1>4, <1>5, <1>6, <1>7, <1>8, <1>9, <1>10 DEF ArgsOf
  <1> QED BY <1>11, <1>12, <1>13, <1>14, <1>15, <1>16, <1>17, <1>18, <1>19, <1>20, <1>21
          DEF A, B, F, G, H

LEMMA ServedPassed ==
  ASSUME NEW opts, NEW args, NEW n, ArgsOf(args, n) = PassedAs(opts, n)
  PROVE  Served(args, n) = IF opts[n] # NotGiven THEN opts[n] ELSE ServerDefault[n]
  <1> DEFINE c == opts[n] # NotGiven
  <1>1. ArgsOf(args, n) = Told(c, n, opts[n]) BY DEF PassedAs
  <1> HIDE DEF c
  <1>2. Served(args, n) = IF c THEN opts[n] ELSE ServerDefault[n] BY <1>1, ServedOnce
  <1> QED BY <1>2 DEF c

LEMMA ServedRaised ==
  ASSUME NEW opts, NEW args, NEW n, ArgsOf(args, n) = RaisedAs(opts, n)
  PROVE  Served(args, n) = IF opts[n] = "true" THEN "true" ELSE ServerDefault[n]
  <1> DEFINE c == opts[n] = "true"
  <1>1. ArgsOf(args, n) = Told(c, n, "true") BY DEF RaisedAs
  <1> HIDE DEF c
  <1>2. Served(args, n) = IF c THEN "true" ELSE ServerDefault[n] BY <1>1, ServedOnce
  <1> QED BY <1>2 DEF c

LEMMA ServedLowered ==
  ASSUME NEW opts, NEW args, NEW n, NEW q, ArgsOf(args, n) = Lowered(opts, n, q)
  PROVE  Served(args, n)
           = IF opts[n] = "false" \/ opts[q] = "true" THEN "false" ELSE ServerDefault[n]
  <1> DEFINE c == opts[n] = "false" \/ opts[q] = "true"
  <1>1. ArgsOf(args, n) = Told(c, n, "false") BY DEF Lowered
  <1> HIDE DEF c
  <1>2. Served(args, n) = IF c THEN "false" ELSE ServerDefault[n] BY <1>1, ServedOnce
  <1> QED BY <1>2 DEF c

LEMMA PowerServed ==
  ASSUME NEW opts, NEW args, args = BuildServerArgs(opts)
  PROVE  /\ \A n \in {"crop", "display_id", "video_encoder", "audio_encoder"} :
              Served(args, n) = opts[n]
         /\ \A n \in {"show_touches", "stay_awake", "power_off_on_close"} :
              Served(args, n) = IF opts[n] = "true" THEN "true" ELSE "false"
         /\ Served(args, "control") = IF opts.no_control = "true" THEN "false" ELSE "true"
         /\ Served(args, "cleanup") = IF opts.no_cleanup = "true" THEN "false" ELSE "true"
         /\ Served(args, "audio_bit_rate") = opts.audio_bit_rate
         /\ Served(args, "clipboard_autosync")
              = IF opts.clipboard_autosync = "false" \/ opts.no_clipboard_autosync = "true"
                THEN "false" ELSE "true"
         /\ Served(args, "power_on")
              = IF opts.power_on = "false" \/ opts.no_power_on = "true" THEN "false" ELSE "true"
  <1>1. ASSUME NEW n \in PowerNames PROVE ArgsOf(args, n) = ArgsOf(PowerArgs(opts), n)
        BY ArgsInGroup
  <1>2. \A n \in {"crop", "display_id", "video_encoder", "audio_encoder", "show_touches",
                  "stay_awake", "power_off_on_close", "control", "cleanup", "audio_bit_rate",
                  "clipboard_autosync", "power_on"} : n \in PowerNames
        BY DEF PowerNames
  <1>3. ASSUME NEW n \in {"crop", "display_id", "video_encoder", "audio_encoder"}
        PROVE  Served(args, n) = opts[n]
        <2>1. ArgsOf(args, n) = PassedAs(opts, n) BY <1>1, <1>2, PowerParts
        <2>2. Served(args, n) = IF opts[n] # NotGiven THEN opts[n] ELSE ServerDefault[n]
              BY <2>1, ServedPassed
        <2> QED BY <2>2, ServerDefaults
  <1>4. ASSUME NEW n \in {"show_touches", "stay_awake", "power_off_on_close"}
        PROVE  Served(args, n) = IF opts[n] = "true" THEN "true" ELSE "false"
        <2>1. ArgsOf(args, n) = RaisedAs(opts, n) BY <1>1, <1>2, PowerParts
        <2>2. Served(args, n) = IF opts[n] = "true" THEN "true" ELSE ServerDefault[n]
              BY <2>1, ServedRaised
        <2> QED BY <2>2, ServerDefaults
  <1>5. Served(args, "control") = IF opts.no_control = "true" THEN "false" ELSE "true"
        <2> DEFINE n == "control"
                   c == opts.no_control = "true"
        <2>1. ArgsOf(args, n) = Told(c, n, "false") BY <1>1, <1>2, PowerParts
        <2> HIDE DEF c
        <2>2. Served(args, n) = IF c THEN "false" ELSE ServerDefault[n] BY <2>1, ServedOnce
        <2> QED BY <2>2, ServerDefaults DEF c
  <1>6. Served(args, "cleanup") = IF opts.no_cleanup = "true" THEN "false" ELSE "true"
        <2> DEFINE n == "cleanup"
                   c == opts.no_cleanup = "true"
        <2>1. ArgsOf(args, n) = Told(c, n, "false") BY <1>1, <1>2, PowerParts
        <2> HIDE DEF c
        <2>2. Served(args, n) = IF c THEN "false" ELSE ServerDefault[n] BY <2>1, ServedOnce
        <2> QED BY <2>2, ServerDefaults DEF c
  <1>7. Served(args, "audio_bit_rate") = opts.audio_bit_rate
        <2> DEFINE n == "audio_bit_rate"
                   c == opts.audio_bit_rate # "128000"
        <2>1. ArgsOf(args, n) = Told(c, n, opts.audio_bit_rate) BY <1>1, <1>2, PowerParts
        <2> HIDE DEF c
        <2>2. Served(args, n) = IF c THEN opts.audio_bit_rate ELSE ServerDefault[n]
              BY <2>1, ServedOnce
        <2> QED BY <2>2, ServerDefaults DEF c
  <1>8. Served(args, "clipboard_autosync")
              = IF opts.clipboard_autosync = "false" \/ opts.no_clipboard_autosync = "true"
                THEN "false" ELSE "true"
        <2>1. ArgsOf(args, "clipboard_autosync")
                = Lowered(opts, "clipboard_autosync", "no_clipboard_autosync")
              BY <1>1, <1>2, PowerParts
        <2>2. Served(args, "clipboard_autosync")
                = IF opts["clipboard_autosync"] = "false" \/ opts["no_clipboard_autosync"] = "true"
                  THEN "false" ELSE ServerDefault["clipboard_autosync"]
              BY <2>1, ServedLowered
        <2> QED BY <2>2, ServerDefaults
  <1>9. Served(args, "power_on")
              = IF opts.power_on = "false" \/ opts.no_power_on = "true" THEN "false" ELSE "true"
        <2>1. ArgsOf(args, "power_on") = Lowered(opts, "power_on", "no_power_on")
              BY <1>1, <1>2, PowerParts
        <2>2. Served(args, "power_on")
                = IF opts["power_on"] = "false" \/ opts["no_power_on"] = "true"
                  THEN "false" ELSE ServerDefault["power_on"]
              BY <2>1, ServedLowered
        <2> QED BY <2>2, ServerDefaults
  <1> QED BY <1>3, <1>4, <1>5, <1>6, <1>7, <1>8, <1>9

(* The camera, and the display.                                              *)
LensOptions == {"camera_id", "camera_size", "camera_facing", "camera_fps", "camera_ar"}

LEMMA CameraServed ==
  ASSUME NEW opts, NEW args, args = BuildServerArgs(opts)
  PROVE  /\ Served(args, "video_source") = opts.video_source
         /\ \A n \in LensOptions :
              Served(args, n) = IF opts[n] # NotGiven THEN opts[n] ELSE ServerDefault[n]
         /\ Served(args, "camera_high_speed")
              = IF opts.camera_high_speed = "true" THEN "true" ELSE "false"
  <1> DEFINE A == Told(opts.video_source # "display", "video_source", opts.video_source)
             S == {"camera_id", "camera_size", "camera_facing", "camera_fps",
                       "camera_ar", "camera_zoom", "capture_orientation"}
             R == {"camera_torch", "camera_high_speed"}
             B == Passed(opts, S)
             C == Raised(opts, R)
  <1>1. CameraArgs(opts) = A \cup B \cup C BY DEF CameraArgs
  <1>2. \A a \in A : a.arg = "video_source" BY ToldArgs
  <1>3. "video_source" \notin S /\ "video_source" \notin R /\ "camera_high_speed" \in R
        OBVIOUS
  <1>4. /\ \A n \in LensOptions : n \in S /\ n \notin R /\ n # "video_source"
        /\ "camera_high_speed" \notin S
        BY DEF LensOptions
  <1>5. \A n \in {"video_source", "camera_high_speed"} \cup LensOptions : n \in CameraNames
        BY DEF CameraNames, LensOptions
  <1> HIDE DEF A, S, R
  <1>6. \A n : ArgsOf(B, n) = Told(n \in S /\ opts[n] # NotGiven, n, opts[n]) BY PassedArgs
  <1>7. \A n : ArgsOf(C, n) = Told(n \in R /\ opts[n] = "true", n, "true") BY RaisedArgs
  <1> HIDE DEF B, C
  <1>8. \A n : ArgsOf(CameraArgs(opts), n) = ArgsOf(A, n) \cup ArgsOf(B, n) \cup ArgsOf(C, n)
        BY <1>1 DEF ArgsOf
  <1>9. ASSUME NEW n \in CameraNames PROVE ArgsOf(args, n) = ArgsOf(CameraArgs(opts), n)
        BY ArgsInGroup
  <1>10. Served(args, "video_source") = opts.video_source
         <2> DEFINE n == "video_source"
                    c == opts.video_source # "display"
         <2>1. ArgsOf(A, n) = A BY <1>2 DEF ArgsOf
         <2>2. ArgsOf(B, n) = {} /\ ArgsOf(C, n) = {}
               BY <1>3, <1>6, <1>7 DEF Told, Only
         <2>3. ArgsOf(args, n) = Told(c, n, opts.video_source)
               BY <1>5, <1>8, <1>9, <2>1, <2>2 DEF A
         <2> HIDE DEF c
         <2>4. Served(args, n) = IF c THEN opts.video_source ELSE ServerDefault[n]
               BY <2>3, ServedOnce
         <2> QED BY <2>4, ServerDefaults DEF c
  <1>11. ASSUME NEW n \in LensOptions
         PROVE  Served(args, n) = IF opts[n] # NotGiven THEN opts[n] ELSE ServerDefault[n]
         <2>1. ArgsOf(A, n) = {} BY <1>2, <1>4 DEF ArgsOf
         <2>2. ArgsOf(C, n) = {} BY <1>4, <1>7 DEF Told, Only
         <2>3. ArgsOf(B, n) = PassedAs(opts, n) BY <1>4, <1>6 DEF PassedAs, Told, Only
         <2>4. ArgsOf(args, n) = PassedAs(opts, n) BY <1>5, <1>8, <1>9, <2>1, <2>2, <2>3
         <2> QED BY <2>4, ServedPassed
  <1>12. Served(args, "camera_high_speed")
           = IF opts.camera_high_speed = "true" THEN "true" ELSE "false"
         <2> DEFINE n == "camera_high_speed"
         <2>1. ArgsOf(A, n) = {} BY <1>2 DEF ArgsOf
         <2>2. ArgsOf(B, n) = {} BY <1>4, <1>6 DEF Told, Only
         <2>3. ArgsOf(C, n) = RaisedAs(opts, n) BY <1>3, <1>7 DEF RaisedAs, Told, Only
         <2>4. ArgsOf(args, n) = RaisedAs(opts, n) BY <1>5, <1>8, <1>9, <2>1, <2>2, <2>3
         <2>5. Served(args, n) = IF opts[n] = "true" THEN "true" ELSE ServerDefault[n]
               BY <2>4, ServedRaised
         <2> QED BY <2>5, ServerDefaults
  <1> QED BY <1>10, <1>11, <1>12

LEMMA DisplayServed ==
  ASSUME NEW opts, NEW args, args = BuildServerArgs(opts)
  PROVE  /\ Served(args, "new_display") = opts.new_display
         /\ Served(args, "vd_destroy_content")
              = IF opts.new_display # NotGiven /\ opts.no_vd_destroy_content = "true"
                THEN "false" ELSE "true"
         /\ Served(args, "vd_system_decorations")
              = IF opts.new_display # NotGiven /\ opts.no_vd_system_decorations = "true"
                THEN "false" ELSE "true"
         /\ Served(args, "audio_dup") = IF opts.audio_dup = "true" THEN "true" ELSE "false"
  <1> DEFINE S == {"new_display", "angle", "min_size_alignment", "video_codec_options",
                "audio_codec_options", "display_ime_policy"}
             R == {"flex_display", "audio_dup", "keep_active",
                   "ignore_video_encoder_constraints"}
             given == opts.new_display # NotGiven
             content == opts.no_vd_destroy_content = "true"
             bars == opts.no_vd_system_decorations = "true"
             A == Passed(opts, S)
             B == Only(given, Told(content, "vd_destroy_content", "false")
                                \cup Told(bars, "vd_system_decorations", "false"))
             C == Raised(opts, R)
             D == Lowered(opts, "downsize_on_error", "no_downsize_on_error")
  <1>1. DisplayArgs(opts) = A \cup B \cup C \cup D BY DEF DisplayArgs
  <1>2. \A a \in D : a.arg = "downsize_on_error" BY ToldArgs DEF Lowered
  <1>3. /\ "new_display" \in S /\ "new_display" \notin R
        /\ "vd_destroy_content" \notin S /\ "vd_destroy_content" \notin R
        /\ "vd_system_decorations" \notin S /\ "vd_system_decorations" \notin R
        /\ "audio_dup" \notin S /\ "audio_dup" \in R
        OBVIOUS
  <1> DEFINE N == {"new_display", "vd_destroy_content", "vd_system_decorations", "audio_dup"}
  <1>4. \A n \in N : n \in DisplayNames /\ n # "downsize_on_error" BY DEF DisplayNames
  <1> HIDE DEF S, R, D, given, content, bars
  <1>5. \A n : ArgsOf(A, n) = Told(n \in S /\ opts[n] # NotGiven, n, opts[n]) BY PassedArgs
  <1>6. \A n : ArgsOf(C, n) = Told(n \in R /\ opts[n] = "true", n, "true") BY RaisedArgs
  <1>7. \A a \in B : a.arg \in {"vd_destroy_content", "vd_system_decorations"}
        BY ToldArgs DEF Only
  <1>8. /\ ArgsOf(B, "vd_destroy_content")
             = Told(given /\ content, "vd_destroy_content", "false")
        /\ ArgsOf(B, "vd_system_decorations")
             = Told(given /\ bars, "vd_system_decorations", "false")
        <2> DEFINE E == Told(content, "vd_destroy_content", "false")
                   F == Told(bars, "vd_system_decorations", "false")
        <2>1. \A a \in E : a.arg = "vd_destroy_content" BY ToldArgs
        <2>2. \A a \in F : a.arg = "vd_system_decorations" BY ToldArgs
        <2> HIDE DEF E, F
        <2>3. /\ ArgsOf(B, "vd_destroy_content") = Only(given, E)
              /\ ArgsOf(B, "vd_system_decorations") = Only(given, F)
              BY <2>1, <2>2 DEF ArgsOf, Only, E, F
        <2> QED BY <2>3 DEF E, F, Told, Only
  <1> HIDE DEF A, B, C
  <1>9. \A n \in N : ArgsOf(DisplayArgs(opts), n) = ArgsOf(A, n) \cup ArgsOf(B, n) \cup ArgsOf(C, n)
        BY <1>1, <1>2, <1>4 DEF ArgsOf
  <1>10. ASSUME NEW n \in N
         PROVE  ArgsOf(args, n) = ArgsOf(A, n) \cup ArgsOf(B, n) \cup ArgsOf(C, n)
         <2>1. n \in DisplayNames BY <1>4
         <2>2. ArgsOf(args, n) = ArgsOf(DisplayArgs(opts), n) BY <2>1, ArgsInGroup
         <2> QED BY <1>9, <2>2
  <1>11. Served(args, "new_display") = opts.new_display
         <2> DEFINE n == "new_display"
         <2>1. ArgsOf(B, n) = {} BY <1>7 DEF ArgsOf
         <2>2. ArgsOf(C, n) = {} BY <1>3, <1>6 DEF Told, Only
         <2>3. ArgsOf(A, n) = PassedAs(opts, n) BY <1>3, <1>5 DEF PassedAs, Told, Only
         <2>4. ArgsOf(args, n) = PassedAs(opts, n) BY <1>10, <2>1, <2>2, <2>3
         <2>5. Served(args, n) = IF opts[n] # NotGiven THEN opts[n] ELSE ServerDefault[n]
               BY <2>4, ServedPassed
         <2> QED BY <2>5, ServerDefaults
  <1>12. Served(args, "audio_dup") = IF opts.audio_dup = "true" THEN "true" ELSE "false"
         <2> DEFINE n == "audio_dup"
         <2>1. ArgsOf(B, n) = {} BY <1>7 DEF ArgsOf
         <2>2. ArgsOf(A, n) = {} BY <1>3, <1>5 DEF Told, Only
         <2>3. ArgsOf(C, n) = RaisedAs(opts, n) BY <1>3, <1>6 DEF RaisedAs, Told, Only
         <2>4. ArgsOf(args, n) = RaisedAs(opts, n) BY <1>10, <2>1, <2>2, <2>3
         <2>5. Served(args, n) = IF opts[n] = "true" THEN "true" ELSE ServerDefault[n]
               BY <2>4, ServedRaised
         <2> QED BY <2>5, ServerDefaults
  <1>13. Served(args, "vd_destroy_content") = IF given /\ content THEN "false" ELSE "true"
         <2> DEFINE n == "vd_destroy_content"
                    c == given /\ content
         <2>1. ArgsOf(A, n) = {} BY <1>3, <1>5 DEF Told, Only
         <2>2. ArgsOf(C, n) = {} BY <1>3, <1>6 DEF Told, Only
         <2>3. ArgsOf(args, n) = Told(c, n, "false") BY <1>8, <1>10, <2>1, <2>2
         <2> HIDE DEF c
         <2>4. Served(args, n) = IF c THEN "false" ELSE ServerDefault[n] BY <2>3, ServedOnce
         <2> QED BY <2>4, ServerDefaults DEF c
  <1>14. Served(args, "vd_system_decorations") = IF given /\ bars THEN "false" ELSE "true"
         <2> DEFINE n == "vd_system_decorations"
                    c == given /\ bars
         <2>1. ArgsOf(A, n) = {} BY <1>3, <1>5 DEF Told, Only
         <2>2. ArgsOf(C, n) = {} BY <1>3, <1>6 DEF Told, Only
         <2>3. ArgsOf(args, n) = Told(c, n, "false") BY <1>8, <1>10, <2>1, <2>2
         <2> HIDE DEF c
         <2>4. Served(args, n) = IF c THEN "false" ELSE ServerDefault[n] BY <2>3, ServedOnce
         <2> QED BY <2>4, ServerDefaults DEF c
  <1> QED BY <1>11, <1>12, <1>13, <1>14 DEF given, content, bars

--------------------------------------------------------------------------------
(* What the server is told of a line.                                        *)
LEMMA SaidOptions ==
  ASSUME NEW form, NEW d, NEW line, IsLine(line, form, d), Parses(line)
  PROVE  /\ Parsed(line).verbosity = Said(form, "verbosity", "info")
         /\ Parsed(line).crop = Said(form, "crop", NotGiven)
         /\ Parsed(line).display_id = Said(form, "display_id", NotGiven)
         /\ Parsed(line).video_encoder = Said(form, "video_encoder", NotGiven)
         /\ Parsed(line).audio_encoder = Said(form, "audio_encoder", NotGiven)
         /\ Parsed(line).video_source = Said(form, "video_source", "display")
         /\ Parsed(line).video_codec = Said(form, "video_codec", "h264")
         /\ Parsed(line).max_size = Said(form, "max_size", "0")
         /\ Parsed(line).max_fps = Said(form, "max_fps", NotGiven)
         /\ Parsed(line).audio_codec = Said(form, "audio_codec", "opus")
  <1> DEFINE N == {"verbosity", "crop", "display_id", "video_encoder", "audio_encoder",
                   "video_source", "video_codec", "max_size", "max_fps", "audio_codec"}
  <1>1. \A n \in N : n \in SaidTexts BY DEF SaidTexts, GivenTexts, PlainTexts, BitRates
  <1>2. ASSUME NEW n \in N PROVE Parsed(line)[n] = Said(form, n, Options[n].default)
        <2> HIDE DEF N
        <2> QED BY <1>1, SaidGiven
  <1>3. /\ Options.verbosity.default = "info" /\ Options.crop.default = NotGiven
        /\ Options.display_id.default = NotGiven /\ Options.video_encoder.default = NotGiven
        /\ Options.audio_encoder.default = NotGiven /\ Options.video_source.default = "display"
        /\ Options.video_codec.default = "h264" /\ Options.max_size.default = "0"
        /\ Options.max_fps.default = NotGiven /\ Options.audio_codec.default = "opus"
        BY StreamTable, DeviceTable, InputTable DEF Optional, Text, Takes, OneOf
  <1> QED BY <1>2, <1>3

LEMMA DeviceServed ==
  ASSUME NEW form, Filled(form), NEW d, NEW line, IsLine(line, form, d), Parses(line),
         ~Contradictory(Parsed(line)), NEW s \in DOMAIN AskedOfDevice(form)
  PROVE  Served(BuildServerArgs(Parsed(line)), s) = AskedOfDevice(form)[s]
  <1> DEFINE opts == Parsed(line)
             args == BuildServerArgs(opts)
             asked == AskedOfDevice(form)
  <1>s. \A n \in {"no_audio", "no_video", "no_control", "no_clipboard_autosync",
                  "show_touches", "stay_awake", "no_cleanup", "no_power_on",
                  "power_off_on_close", "audio_dup"} : opts[n] = Bool(n \in form.on)
        BY SwitchesAgree DEF Is
  <1>1. /\ opts.verbosity = Said(form, "verbosity", "info")
        /\ opts.crop = Said(form, "crop", NotGiven)
        /\ opts.display_id = Said(form, "display_id", NotGiven)
        /\ opts.video_encoder = Said(form, "video_encoder", NotGiven)
        /\ opts.audio_encoder = Said(form, "audio_encoder", NotGiven)
        BY SaidOptions
  <1>2. opts.audio_bit_rate = Rate(form, "audio_bit_rate") BY RateGiven DEF BitRates
  <1>3. opts.clipboard_autosync = "true" /\ opts.power_on = "true" BY UnsetGiven
  <1>4. opts.audio_source
          = IF form.text.audio_source \in {"", "output"} THEN NotGiven
            ELSE form.text.audio_source
        BY RestGiven
  <1>5. "audio_dup" \in form.on => opts.audio_source \in {NotGiven, "playback"}
        BY <1>s DEF Contradictory, Bool
  <1>6. form.text.audio_source # NotGiven
        <2>1. "audio_source" \in Texts BY DEF Texts, DefaultText
        <2> QED BY <2>1, FormTexts
  <1> SUFFICES Served(args, s) = asked[s] OBVIOUS
  <1> HIDE DEF opts
  <1>7. args = BuildServerArgs(opts) OBVIOUS
  <1> HIDE DEF args
  <1>8. /\ Served(args, "video") = asked.video /\ Served(args, "audio") = asked.audio
        /\ Served(args, "control") = asked.control
        /\ Served(args, "clipboard_autosync") = asked.clipboard_autosync
        /\ Served(args, "cleanup") = asked.cleanup /\ Served(args, "power_on") = asked.power_on
        <2>1. /\ Served(args, "video") = IF opts.no_video = "true" THEN "false" ELSE "true"
              /\ Served(args, "audio") = IF opts.no_audio = "true" THEN "false" ELSE "true"
              BY <1>7, VideoServed, AudioServed
        <2>2. /\ Served(args, "control") = IF opts.no_control = "true" THEN "false" ELSE "true"
              /\ Served(args, "cleanup") = IF opts.no_cleanup = "true" THEN "false" ELSE "true"
              /\ Served(args, "clipboard_autosync")
                   = IF opts.clipboard_autosync = "false" \/ opts.no_clipboard_autosync = "true"
                     THEN "false" ELSE "true"
              /\ Served(args, "power_on")
                   = IF opts.power_on = "false" \/ opts.no_power_on = "true"
                     THEN "false" ELSE "true"
              BY <1>7, PowerServed
        <2>3. /\ asked.video = Bool("no_video" \notin form.on)
              /\ asked.audio = Bool("no_audio" \notin form.on)
              /\ asked.control = Bool("no_control" \notin form.on)
              /\ asked.clipboard_autosync = Bool("no_clipboard_autosync" \notin form.on)
              /\ asked.cleanup = Bool("no_cleanup" \notin form.on)
              /\ asked.power_on = Bool("no_power_on" \notin form.on)
              BY DEF AskedOfDevice, IsNot
        <2> HIDE DEF asked
        <2> QED BY <1>s, <1>3, <2>1, <2>2, <2>3 DEF Bool
  <1>9. /\ Served(args, "crop") = asked.crop /\ Served(args, "display_id") = asked.display_id
        /\ Served(args, "video_encoder") = asked.video_encoder
        /\ Served(args, "audio_encoder") = asked.audio_encoder
        /\ Served(args, "audio_bit_rate") = asked.audio_bit_rate
        /\ Served(args, "log_level") = asked.log_level
        <2>1. /\ \A n \in {"crop", "display_id", "video_encoder", "audio_encoder"} :
                   Served(args, n) = opts[n]
              /\ Served(args, "audio_bit_rate") = opts.audio_bit_rate
              BY <1>7, PowerServed
        <2>2. Served(args, "log_level") = opts.verbosity BY <1>7, AudioServed
        <2> QED BY <1>1, <1>2, <2>1, <2>2 DEF AskedOfDevice
  <1>10. /\ Served(args, "show_touches") = asked.show_touches
         /\ Served(args, "stay_awake") = asked.stay_awake
         /\ Served(args, "power_off_on_close") = asked.power_off_on_close
         /\ Served(args, "audio_dup") = asked.audio_dup
        <2>1. \A n \in {"show_touches", "stay_awake", "power_off_on_close"} :
                   Served(args, n) = IF opts[n] = "true" THEN "true" ELSE "false"
              BY <1>7, PowerServed
        <2>2. Served(args, "audio_dup") = IF opts.audio_dup = "true" THEN "true" ELSE "false"
              BY <1>7, DisplayServed
        <2>3. /\ asked.show_touches = Bool("show_touches" \in form.on)
              /\ asked.stay_awake = Bool("stay_awake" \in form.on)
              /\ asked.power_off_on_close = Bool("power_off_on_close" \in form.on)
              /\ asked.audio_dup = Bool("audio_dup" \in form.on)
              BY DEF AskedOfDevice, Is
        <2> HIDE DEF asked
        <2> QED BY <1>s, <2>1, <2>2, <2>3 DEF Bool
  <1>11. Served(args, "audio_source") = asked.audio_source
        <2>1. Served(args, "audio_source")
                = IF opts.audio_source # NotGiven THEN opts.audio_source
                  ELSE IF opts.audio_dup = "true" THEN "playback" ELSE "output"
              BY <1>7, AudioServed
        <2>2. asked.audio_source
                = IF "audio_dup" \in form.on THEN "playback"
                  ELSE IF form.text.audio_source = "" THEN "output" ELSE form.text.audio_source
              BY DEF AskedOfDevice, Said
        <2>3. opts.audio_dup = IF "audio_dup" \in form.on THEN "true" ELSE "false"
              BY <1>s DEF Bool
        <2> HIDE DEF asked
        <2> QED BY <1>4, <1>5, <1>6, <2>1, <2>2, <2>3
  <1>12. s \in {"log_level", "video", "audio", "control", "clipboard_autosync", "crop",
                "display_id", "show_touches", "stay_awake", "cleanup", "power_on",
                "power_off_on_close", "video_encoder", "audio_encoder", "audio_bit_rate",
                "audio_dup", "audio_source"}
         BY DEF AskedOfDevice
  <1> HIDE DEF asked
  <1> QED BY <1>8, <1>9, <1>10, <1>11, <1>12

(* The server, told of a line, does of the streams what the form says.       *)
LEMMA LensServed ==
  ASSUME NEW form, Filled(form), NEW d, NEW line, IsLine(line, form, d), Parses(line),
         NEW args, args = BuildServerArgs(Parsed(line)), NEW n \in LensOptions
  PROVE  Served(args, n)
           = IF LensCond(form, n) THEN form.text[n] ELSE ServerDefault[n]
  <1> DEFINE opts == Parsed(line)
  <1>1. n \in LensNames BY DEF LensOptions, LensNames
  <1>2. opts[n] = IF LensCond(form, n) THEN form.text[n] ELSE NotGiven BY <1>1, LensGiven
  <1>3. form.text[n] # NotGiven
        <2>1. n \in Texts /\ n # "record_path" BY DEF LensOptions, Texts, DefaultText
        <2> QED BY <2>1, FormTexts
  <1>4. Served(args, n) = IF opts[n] # NotGiven THEN opts[n] ELSE ServerDefault[n]
        BY CameraServed
  <1> HIDE DEF opts
  <1> QED BY <1>2, <1>3, <1>4

LEMMA SourceServed ==
  ASSUME NEW form, Filled(form), NEW d, NEW line, IsLine(line, form, d), Parses(line),
         NEW s \in DOMAIN AskedOfSource(form)
  PROVE  Served(BuildServerArgs(Parsed(line)), s) = AskedOfSource(form)[s]
  <1> DEFINE opts == Parsed(line)
             args == BuildServerArgs(opts)
             asked == AskedOfSource(form)
             display == "new_display_enabled" \in form.on
  <1>1. opts.video_source = Said(form, "video_source", "display") BY SaidOptions
  <1>2. opts.camera_high_speed
          = Bool(Camera(form) /\ form.text.camera_fps # "" /\ "camera_high_speed" \in form.on)
        BY HighSpeedGiven
  <1>3. opts.new_display = IF display THEN form.text.new_display ELSE NotGiven BY ValueGiven
  <1>4. form.text.new_display # NotGiven
        <2>1. "new_display" \in Texts BY DEF Texts, DefaultText
        <2> QED BY <2>1, FormTexts
  <1>5. \A n \in {"no_vd_destroy_content", "no_vd_system_decorations"} :
          opts[n] = Bool(n \in form.on)
        BY SwitchesAgree DEF Is
  <1> SUFFICES Served(args, s) = asked[s] OBVIOUS
  <1>6. \A n \in LensOptions :
          Served(args, n) = IF LensCond(form, n) THEN form.text[n] ELSE ServerDefault[n]
        BY LensServed
  <1> HIDE DEF opts
  <1>7. args = BuildServerArgs(opts) OBVIOUS
  <1> HIDE DEF args
  <1>8. /\ DefaultText.camera_id = "" /\ DefaultText.camera_size = ""
        /\ DefaultText.camera_facing = "back" /\ DefaultText.camera_ar = ""
        /\ DefaultText.camera_fps = ""
        BY DEF DefaultText
  <1>9. /\ Served(args, "camera_id") = Lens(form, "camera_id", "")
        /\ Served(args, "camera_size") = Lens(form, "camera_size", "")
        /\ Served(args, "camera_fps") = Lens(form, "camera_fps", "")
        BY <1>6, <1>8 DEF LensOptions, LensCond, Lens, Camera, Says, Said
  <1>10. Served(args, "camera_ar") = Lens(form, "camera_ar", "camera_size")
         BY <1>6, <1>8 DEF LensOptions, LensCond, Lens, Camera, Says, Said
  <1>11. Served(args, "camera_facing") = Lens(form, "camera_facing", "camera_id")
         BY <1>6, <1>8, ServerDefaults DEF LensOptions, LensCond, Lens, Camera, Says, Said
  <1>12. Served(args, "video_source") = asked.video_source
         BY <1>1, <1>7, CameraServed DEF AskedOfSource
  <1>13. Served(args, "camera_high_speed") = asked.camera_high_speed
         <2>1. Served(args, "camera_high_speed")
                 = IF opts.camera_high_speed = "true" THEN "true" ELSE "false"
               BY <1>7, CameraServed
         <2>2. asked.camera_high_speed
                 = Bool(/\ form.text.video_source = "camera" /\ "camera_high_speed" \in form.on
                        /\ form.text.camera_fps # "")
               BY DEF AskedOfSource
         <2> DEFINE fast == Camera(form) /\ form.text.camera_fps # ""
                              /\ "camera_high_speed" \in form.on
         <2>3. opts.camera_high_speed = IF fast THEN "true" ELSE "false" BY <1>2 DEF Bool
         <2>4. asked.camera_high_speed = IF fast THEN "true" ELSE "false"
               BY <2>2 DEF Bool, Camera
         <2> HIDE DEF asked, fast
         <2> QED BY <2>1, <2>3, <2>4
  <1>14. /\ Served(args, "new_display") = opts.new_display
         /\ Served(args, "vd_destroy_content")
              = IF opts.new_display # NotGiven /\ opts.no_vd_destroy_content = "true"
                THEN "false" ELSE "true"
         /\ Served(args, "vd_system_decorations")
              = IF opts.new_display # NotGiven /\ opts.no_vd_system_decorations = "true"
                THEN "false" ELSE "true"
         BY <1>7, DisplayServed
  <1>15. /\ asked.new_display = IF display THEN form.text.new_display ELSE NotGiven
         /\ asked.vd_destroy_content
              = Bool(~display \/ "no_vd_destroy_content" \notin form.on)
         /\ asked.vd_system_decorations
              = Bool(~display \/ "no_vd_system_decorations" \notin form.on)
         BY DEF AskedOfSource
  <1>16. /\ asked.camera_id = Lens(form, "camera_id", "")
         /\ asked.camera_size = Lens(form, "camera_size", "")
         /\ asked.camera_facing = Lens(form, "camera_facing", "camera_id")
         /\ asked.camera_ar = Lens(form, "camera_ar", "camera_size")
         /\ asked.camera_fps = Lens(form, "camera_fps", "")
         BY DEF AskedOfSource
  <1>17. s \in {"video_source", "camera_id", "camera_size", "camera_facing", "camera_ar",
                "camera_fps", "camera_high_speed", "new_display", "vd_destroy_content",
                "vd_system_decorations"}
         BY DEF AskedOfSource
  <1> HIDE DEF asked, display
  <1>18. /\ Served(args, "new_display") = asked.new_display
         /\ Served(args, "vd_destroy_content") = asked.vd_destroy_content
         /\ Served(args, "vd_system_decorations") = asked.vd_system_decorations
         BY <1>3, <1>4, <1>5, <1>14, <1>15 DEF Bool
  <1> QED BY <1>9, <1>10, <1>11, <1>12, <1>13, <1>16, <1>17, <1>18

LEMMA StreamsServed ==
  ASSUME NEW form, Filled(form), NEW d, NEW line, IsLine(line, form, d), Parses(line)
  PROVE  /\ \A s \in DOMAIN AskedOfVideo(form) :
              Served(BuildServerArgs(Parsed(line)), s) = AskedOfVideo(form)[s]
         /\ \A s \in DOMAIN AskedOfAudio(form) :
              Served(BuildServerArgs(Parsed(line)), s) = AskedOfAudio(form)[s]
  <1> DEFINE opts == Parsed(line)
             args == BuildServerArgs(opts)
  <1>1. \A n \in {"no_video", "no_audio"} : opts[n] = Bool(n \in form.on)
        BY SwitchesAgree DEF Is
  <1>2. /\ opts.video_codec = Said(form, "video_codec", "h264")
        /\ opts.max_size = Said(form, "max_size", "0")
        /\ opts.max_fps = Said(form, "max_fps", NotGiven)
        /\ opts.audio_codec = Said(form, "audio_codec", "opus")
        BY SaidOptions
  <1>3. opts.video_bit_rate = Rate(form, "video_bit_rate") BY RateGiven DEF BitRates
  <1> SUFFICES /\ \A s \in DOMAIN AskedOfVideo(form) : Served(args, s) = AskedOfVideo(form)[s]
               /\ \A s \in DOMAIN AskedOfAudio(form) : Served(args, s) = AskedOfAudio(form)[s]
      OBVIOUS
  <1> HIDE DEF opts
  <1>4. args = BuildServerArgs(opts) OBVIOUS
  <1> HIDE DEF args
  <1>5. \A s \in DOMAIN AskedOfVideo(form) : Served(args, s) = AskedOfVideo(form)[s]
        <2>1. CASE "no_video" \in form.on
              <3>1. DOMAIN AskedOfVideo(form) = {} BY <2>1 DEF AskedOfVideo
              <3> QED BY <3>1
        <2>2. CASE "no_video" \notin form.on
              <3>1. opts.no_video # "true" BY <1>1, <2>2 DEF Bool
              <3>2. /\ Served(args, "video_codec") = opts.video_codec
                    /\ Served(args, "video_bit_rate") = opts.video_bit_rate
                    /\ Served(args, "max_size") = opts.max_size
                    /\ Served(args, "max_fps") = opts.max_fps
                    BY <1>4, <3>1, VideoServed
              <3> QED BY <1>2, <1>3, <2>2, <3>2 DEF AskedOfVideo
        <2> QED BY <2>1, <2>2
  <1>6. \A s \in DOMAIN AskedOfAudio(form) : Served(args, s) = AskedOfAudio(form)[s]
        <2>1. CASE "no_audio" \in form.on
              <3>1. DOMAIN AskedOfAudio(form) = {} BY <2>1 DEF AskedOfAudio
              <3> QED BY <3>1
        <2>2. CASE "no_audio" \notin form.on
              <3>1. opts.no_audio # "true" BY <1>1, <2>2 DEF Bool
              <3>2. Served(args, "audio_codec") = opts.audio_codec
                    BY <1>4, <3>1, AudioServed
              <3> QED BY <1>2, <2>2, <3>2 DEF AskedOfAudio
        <2> QED BY <2>1, <2>2
  <1> QED BY <1>5, <1>6

--------------------------------------------------------------------------------
(* What a client does, looked up in the parts it is put together from.       *)
ClientNames == {"device", "record", "record_rotation", "display_rotation", "picture", "sound",
                "key_inject", "mouse_bind", "ports", "clipboard", "v4l2_sink", "v4l2_buffer",
                "require_audio"}

LEMMA DoesLookup ==
  ASSUME NEW opts
  PROVE  /\ \A s \in ForItself \cup SwitchesForItself : Does(opts)[s] = opts[OptionOf(s)]
         /\ \A s \in ClientNames : Does(opts)[s] = DoesItself(opts)[s]
         /\ \A s \in DOMAIN ServerDefault : Does(opts)[s] = Served(BuildServerArgs(opts), s)
  <1> DEFINE A == [c \in ForItself \cup SwitchesForItself |-> opts[OptionOf(c)]]
             B == DoesItself(opts)
             C == [a \in DOMAIN ServerDefault |-> Served(BuildServerArgs(opts), a)]
  <1>1. Does(opts) = Join(Join(A, B), C) BY DEF Does
  <1>2. DOMAIN A = ForItself \cup SwitchesForItself /\ DOMAIN C = DOMAIN ServerDefault OBVIOUS
  <1>3. DOMAIN B = ClientNames BY DEF DoesItself, ClientNames
  <1>4. \A s \in ClientNames : s \notin ForItself /\ s \notin SwitchesForItself
        BY DEF ClientNames, ForItself, SwitchesForItself
  <1>5. \A s \in DOMAIN ServerDefault : s \notin ClientNames
        BY DEF ClientNames, ServerDefault
  <1>6. \A s \in DOMAIN ServerDefault : s \notin ForItself
        BY DEF ForItself, ServerDefault
  <1>7. \A s \in DOMAIN ServerDefault : s \notin SwitchesForItself
        BY DEF SwitchesForItself, ServerDefault
  <1>8. /\ \A s \in ForItself \cup SwitchesForItself : A[s] = opts[OptionOf(s)]
        /\ \A s \in DOMAIN ServerDefault : C[s] = Served(BuildServerArgs(opts), s)
        OBVIOUS
  <1> HIDE DEF A, B, C
  <1>9. /\ DOMAIN Join(A, B) = DOMAIN A \cup DOMAIN B
        /\ \A s \in DOMAIN A : Join(A, B)[s] = A[s]
        /\ \A s \in DOMAIN B : s \notin DOMAIN A => Join(A, B)[s] = B[s]
        BY JoinFacts
  <1> DEFINE AB == Join(A, B)
  <1>10. AB = Join(A, B) OBVIOUS
  <1> HIDE DEF AB
  <1>11. /\ \A s \in DOMAIN AB : Join(AB, C)[s] = AB[s]
         /\ \A s \in DOMAIN C : s \notin DOMAIN AB => Join(AB, C)[s] = C[s]
         BY JoinFacts
  <1> QED BY <1>1, <1>2, <1>3, <1>4, <1>5, <1>6, <1>7, <1>8, <1>9, <1>10, <1>11 DEF B

LEMMA ServerNames ==
  ASSUME NEW form
  PROVE  /\ DOMAIN AskedOfDevice(form) \subseteq DOMAIN ServerDefault
         /\ DOMAIN AskedOfSource(form) \subseteq DOMAIN ServerDefault
         /\ DOMAIN AskedOfVideo(form) \subseteq DOMAIN ServerDefault
         /\ DOMAIN AskedOfAudio(form) \subseteq DOMAIN ServerDefault
  <1>1. DOMAIN AskedOfDevice(form) \subseteq DOMAIN ServerDefault
        BY DEF AskedOfDevice, ServerDefault
  <1>2. DOMAIN AskedOfSource(form) \subseteq DOMAIN ServerDefault
        BY DEF AskedOfSource, ServerDefault
  <1>3. DOMAIN AskedOfVideo(form) \subseteq DOMAIN ServerDefault
        BY DEF AskedOfVideo, ServerDefault
  <1>4. DOMAIN AskedOfAudio(form) \subseteq DOMAIN ServerDefault
        BY DEF AskedOfAudio, ServerDefault
  <1> QED BY <1>1, <1>2, <1>3, <1>4

LEMMA JoinedFrom ==
  ASSUME NEW f, NEW g, NEW s \in DOMAIN Join(f, g)
  PROVE  \/ s \in DOMAIN f /\ Join(f, g)[s] = f[s]
         \/ s \in DOMAIN g /\ Join(f, g)[s] = g[s]
  BY DEF Join

(* A line that parses and is not refused does what the form says.            *)
LEMMA LineAgrees ==
  ASSUME NEW form, Filled(form), NEW d \in Devices \cup {NoDevice}, NEW line,
         IsLine(line, form, d), Runs(line)
  PROVE  Agrees(Parsed(line), AskedOf(form, d, form.text.record_path))
  <1> DEFINE opts == Parsed(line)
             path == form.text.record_path
             A == [c \in ForItself |-> Said(form, c, Options[c].default)]
             B == [s \in SwitchesForItself |-> Is(form, s)]
             C == AskedOfClient(form, d, path)
             D == AskedOfDevice(form)
             E == AskedOfSource(form)
             F == AskedOfVideo(form)
             G == AskedOfAudio(form)
  <1>1. Parses(line) /\ ~Contradictory(opts) BY DEF Runs
  <1>2. \A s \in DOMAIN A : Does(opts)[s] = A[s]
        <2>1. \A s \in ForItself : s \in SaidTexts
              BY DEF ForItself, SaidTexts, GivenTexts, PlainTexts, BitRates
        <2>2. \A s \in ForItself : opts[s] = Said(form, s, Options[s].default)
              BY <1>1, <2>1, SaidGiven
        <2>3. \A s \in ForItself : OptionOf(s) = s BY <2>1, TextDefaults
        <2>4. \A s \in ForItself : Does(opts)[s] = opts[OptionOf(s)] BY DoesLookup
        <2> QED BY <2>2, <2>3, <2>4
  <1>3. \A s \in DOMAIN B : Does(opts)[s] = B[s]
        <2>1. \A s \in SwitchesForItself : opts[OptionOf(s)] = Is(form, s)
              BY <1>1, SwitchesAgree
        <2>2. \A s \in SwitchesForItself : Does(opts)[s] = opts[OptionOf(s)] BY DoesLookup
        <2> QED BY <2>1, <2>2
  <1>4. \A s \in DOMAIN C : Does(opts)[s] = C[s]
        <2>1. DoesItself(opts) = C BY <1>1, ClientAgrees
        <2>2. DOMAIN C = ClientNames BY DEF AskedOfClient, ClientNames
        <2>3. \A s \in ClientNames : Does(opts)[s] = DoesItself(opts)[s] BY DoesLookup
        <2> HIDE DEF C, opts
        <2> QED BY <2>1, <2>2, <2>3
  <1>5. \A s \in DOMAIN ServerDefault : Does(opts)[s] = Served(BuildServerArgs(opts), s)
        BY DoesLookup
  <1>6. /\ \A s \in DOMAIN D : Served(BuildServerArgs(opts), s) = D[s]
        /\ \A s \in DOMAIN E : Served(BuildServerArgs(opts), s) = E[s]
        BY <1>1, DeviceServed, SourceServed
  <1>7. /\ \A s \in DOMAIN F : Served(BuildServerArgs(opts), s) = F[s]
        /\ \A s \in DOMAIN G : Served(BuildServerArgs(opts), s) = G[s]
        BY <1>1, StreamsServed
  <1>8. \A s \in DOMAIN D \cup DOMAIN E \cup DOMAIN F \cup DOMAIN G : s \in DOMAIN ServerDefault
        BY ServerNames
  <1>9. AskedOf(form, d, path) = Join(Join(A, Join(B, C)), Join(Join(D, E), Join(F, G)))
        BY DEF AskedOf
  <1> SUFFICES ASSUME NEW s \in DOMAIN AskedOf(form, d, path)
               PROVE  Does(opts)[s] = AskedOf(form, d, path)[s]
      BY DEF Agrees
  <1> HIDE DEF opts, A, B, C, D, E, F, G, path
  <1> DEFINE BC == Join(B, C)
             ABC == Join(A, BC)
             DE == Join(D, E)
             FG == Join(F, G)
             DG == Join(DE, FG)
  <1>10. \A x \in DOMAIN BC : (x \in DOMAIN B /\ BC[x] = B[x]) \/ (x \in DOMAIN C /\ BC[x] = C[x])
         BY JoinedFrom
  <1>11. \A x \in DOMAIN DE : (x \in DOMAIN D /\ DE[x] = D[x]) \/ (x \in DOMAIN E /\ DE[x] = E[x])
         BY JoinedFrom
  <1>12. \A x \in DOMAIN FG : (x \in DOMAIN F /\ FG[x] = F[x]) \/ (x \in DOMAIN G /\ FG[x] = G[x])
         BY JoinedFrom
  <1> HIDE DEF BC, DE, FG
  <1>13. \A x \in DOMAIN ABC : \/ x \in DOMAIN A /\ ABC[x] = A[x]
                               \/ x \in DOMAIN BC /\ ABC[x] = BC[x]
         BY JoinedFrom
  <1>14. \A x \in DOMAIN DG : \/ x \in DOMAIN DE /\ DG[x] = DE[x]
                              \/ x \in DOMAIN FG /\ DG[x] = FG[x]
         BY JoinedFrom
  <1>15. AskedOf(form, d, path) = Join(ABC, DG) BY <1>9 DEF BC, DE, FG
  <1> HIDE DEF ABC, DG
  <1>16. \/ s \in DOMAIN ABC /\ AskedOf(form, d, path)[s] = ABC[s]
         \/ s \in DOMAIN DG /\ AskedOf(form, d, path)[s] = DG[s]
         BY <1>15, JoinedFrom
  <1>17. CASE s \in DOMAIN ABC /\ AskedOf(form, d, path)[s] = ABC[s]
         BY <1>2, <1>3, <1>4, <1>10, <1>13, <1>17
  <1>18. CASE s \in DOMAIN DG /\ AskedOf(form, d, path)[s] = DG[s]
         BY <1>5, <1>6, <1>7, <1>8, <1>11, <1>12, <1>14, <1>18
  <1> QED BY <1>16, <1>17, <1>18

--------------------------------------------------------------------------------
(***************************************************************************)
(* A line parses and is not refused, if the form does not contradict       *)
(* itself.                                                                 *)
(***************************************************************************)

(* A line has at most the flag it may have.                                  *)
LEMMA AtMost ==
  ASSUME NEW A, NEW y, A \subseteq {y}
  PROVE  \E x : A \subseteq {x}
  OBVIOUS

(* A flag is on a line once, but for the one that two controls ask for.      *)
LEMMA FlagsOnce ==
  ASSUME NEW form, NEW d, NEW line, IsLine(line, form, d), NEW n \in FlagNames,
         n # "mouse_bind"
  PROVE  \E x : FlagsOf(line, n) \subseteq {x}
  <1>2. CASE n \in BitRates
        <2>1. \/ FlagsOf(line, n) \subseteq {Flag(n, form.text[n], n)}
              \/ FlagsOf(line, n) \subseteq {Flag(n, Rewritten(form.text[n], Expanded), n)}
              BY <1>2 DEF IsLine, Only
        <2> QED BY <2>1, AtMost
  <1>3. CASE n = "serial"
        <2>1. \/ FlagsOf(line, n) \subseteq {Flag("serial", d, "loop")}
              \/ FlagsOf(line, n) \subseteq {Flag("serial", form.text.serial, "serial")}
              BY <1>3 DEF IsLine, Only
        <2> QED BY <2>1, AtMost
  <1>4. CASE n = "record"
        <2>1. FlagsOf(line, n) \subseteq {Flag("record", FileOf(form, d), "record_path")}
              BY <1>4 DEF IsLine, Only
        <2> QED BY <2>1, AtMost
  <1>5. CASE n \in SelectorNames
        <2>1. FlagsOf(line, n) \subseteq {Flag(n, "true", n)} BY <1>5 DEF IsLine, Only
        <2> QED BY <2>1, AtMost
  <1>6. CASE n \in Unsupported
        <2>1. n \in PlainSwitches BY <1>6 DEF Unsupported, PlainSwitches, Switches
        <2>2. FlagsOf(ToFlags(form), n) \subseteq {Flag(n, "true", n)}
              BY <2>1, SwitchFlag DEF Only
        <2>3. FlagsOf(line, n) = FlagsOf(ToFlags(form), n) \/ FlagsOf(line, n) = {}
              BY <1>6 DEF IsLine
        <2> QED BY <2>2, <2>3, AtMost
  <1>7. CASE n \notin Altered
        <2>1. FlagsOf(line, n) = FlagsOf(ToFlags(form), n) BY <1>7 DEF IsLine
        <2>2. CASE n \in PlainTexts
              <3>1. FlagsOf(line, n) \subseteq {Flag(n, form.text[n], n)}
                    BY <2>1, <2>2, PlainFlags DEF Only
              <3> QED BY <3>1, AtMost
        <2>3. CASE n \in LensNames
              <3>1. FlagsOf(line, n) \subseteq {Flag(n, form.text[n], n)}
                    BY <2>1, <2>3, LensFlags DEF Only
              <3> QED BY <3>1, AtMost
        <2>4. CASE n = "clipboard_direction"
              <3>1. FlagsOf(line, n) \subseteq {Flag(n, Direction(form.text.clipboard_direction), n)}
                    BY <2>1, <2>4, ClipboardFlag DEF Only
              <3> QED BY <3>1, AtMost
        <2>5. CASE n \in PlainSwitches
              <3>1. FlagsOf(line, n) \subseteq {Flag(n, "true", n)}
                    BY <2>1, <2>5, SwitchFlag DEF Only
              <3> QED BY <3>1, AtMost
        <2>6. CASE n = "camera_high_speed"
              <3>1. FlagsOf(line, n) \subseteq {Flag(n, "true", n)}
                    BY <2>1, <2>6, HighSpeedFlag DEF Only
              <3> QED BY <3>1, AtMost
        <2>7. CASE n \in {"v4l2_sink", "v4l2_buffer"}
              <3>1. FlagsOf(line, n) \subseteq {Flag(n, form.text[n], n)}
                    BY <2>1, <2>7, ValueFlag DEF Only
              <3> QED BY <3>1, AtMost
        <2>8. CASE n = "new_display"
              <3>1. FlagsOf(line, n) \subseteq {Flag(n, form.text.new_display, n)}
                    BY <2>1, <2>8, ValueFlag DEF Only
              <3> QED BY <3>1, AtMost
        <2>9. CASE n = "tcpip"
              <3>1. FlagsOf(line, n) \subseteq {Flag(n, form.text.tcpip_addr, "tcpip_addr")}
                    BY <2>1, <2>9, ValueFlag DEF Only
              <3> QED BY <3>1, AtMost
        <2>10. CASE n = "record_format"
              <3>1. FlagsOf(line, n) \subseteq {Flag(n, form.text.record_format, n)}
                    BY <2>1, <2>10, ValueFlag DEF Only
              <3> QED BY <3>1, AtMost
        <2>11. n # "record" /\ n \notin SelectorNames BY <1>7 DEF Altered
        <2>12. \/ n \in PlainTexts \/ n \in LensNames \/ n = "clipboard_direction"
               \/ n \in PlainSwitches \/ n = "camera_high_speed"
               \/ n \in {"v4l2_sink", "v4l2_buffer"} \/ n = "new_display" \/ n = "tcpip"
               \/ n = "record_format"
               BY <2>11 DEF FlagNames, SwitchNames, ValueNames
        <2> QED BY <2>2, <2>3, <2>4, <2>5, <2>6, <2>7, <2>8, <2>9, <2>10, <2>12
  <1> QED BY <1>2, <1>3, <1>4, <1>5, <1>6, <1>7 DEF Altered

(* What an option takes.                                                     *)
LEMMA Taking ==
  ASSUME NEW v
  PROVE  /\ Accepts(Optional, v)
         /\ Accepts(Switch, "true")
         /\ \A S, w : v \in S => Accepts(OneOf(S, w), v)
         /\ \A o : o.takes = "bits" => (Accepts(o, v) <=> v \in Fits.bits)
  <1>1. Accepts(Optional, v) BY DEF Accepts, Optional, Takes
  <1>2. Accepts(Switch, "true") BY DEF Accepts, Switch, Takes
  <1>3. ASSUME NEW S, NEW w, v \in S PROVE Accepts(OneOf(S, w), v) BY <1>3 DEF Accepts, OneOf
  <1>4. ASSUME NEW o, o.takes = "bits" PROVE Accepts(o, v) <=> v \in Fits.bits
        BY <1>4 DEF Accepts
  <1> QED BY <1>1, <1>2, <1>3, <1>4

(* Every switch on a line is on it without a value.                          *)
LEMMA SwitchValues ==
  ASSUME NEW form, NEW d, NEW line, IsLine(line, form, d), NEW f \in line,
         f.flag \in PlainSwitches \cup SelectorNames \cup {"camera_high_speed"}
  PROVE  f.value = "true"
  <1> DEFINE n == f.flag
  <1>1. f \in FlagsOf(line, n) BY DEF FlagsOf
  <1>2. \A c, x : \A g \in Only(c, {Flag(n, "true", x)}) : g.value = "true"
        BY FlagFields DEF Only
  <1> HIDE DEF n
  <1>3. CASE n \in PlainSwitches
        <2>1. FlagsOf(ToFlags(form), n) = Only(n \in form.on, {Flag(n, "true", n)})
              BY <1>3, SwitchFlag
        <2>2. n \in Unsupported \/ n \notin Altered
              <3>1. n \in SwitchNames BY <1>3 DEF SwitchNames
              <3>2. n \notin {"serial", "record"}
                    <4>1. "serial" \notin PlainSwitches /\ "record" \notin PlainSwitches
                          BY DEF PlainSwitches, Switches
                    <4> QED BY <1>3, <4>1
              <3>3. n \notin BitRates /\ n \notin SelectorNames
                    BY <3>1, ApartNames, AlteredNames
              <3> QED BY <3>2, <3>3 DEF Altered
        <2>3. f \in FlagsOf(ToFlags(form), n)
              <3>1. n \in Unsupported =>
                      FlagsOf(line, n) = FlagsOf(ToFlags(form), n) \/ FlagsOf(line, n) = {}
                    BY DEF IsLine
              <3>2. n \notin Altered => FlagsOf(line, n) = FlagsOf(ToFlags(form), n)
                    BY DEF IsLine
              <3> QED BY <1>1, <2>2, <3>1, <3>2
        <2> QED BY <1>2, <2>1, <2>3
  <1>4. CASE n \in SelectorNames
        <2>1. \/ FlagsOf(line, n) = Only(Picks(form, n), {Flag(n, "true", n)})
              \/ FlagsOf(line, n) = {}
              BY <1>4 DEF IsLine
        <2> QED BY <1>1, <1>2, <2>1
  <1>5. CASE n = "camera_high_speed"
        <2>1. n \notin Altered BY <1>5 DEF Altered, BitRates, SelectorNames, Unsupported
        <2>2. FlagsOf(line, n) = FlagsOf(ToFlags(form), n) BY <2>1 DEF IsLine
        <2> DEFINE c == Camera(form) /\ form.text.camera_fps # "" /\ n \in form.on
        <2>3. FlagsOf(ToFlags(form), n) = Only(c, {Flag(n, "true", n)})
              BY <1>5, HighSpeedFlag
        <2> HIDE DEF c
        <2> QED BY <1>1, <1>2, <2>2, <2>3
  <1> QED BY <1>3, <1>4, <1>5 DEF n

LEMMA TextsTaken ==
  ASSUME NEW form, ~NotTaken(form), NEW n, Says(form, n),
         n \in PlainTexts \/ n \in {"v4l2_buffer", "camera_fps"}
  PROVE  Accepts(Options[OptionOf(n)], form.text[n])
  <1> DEFINE f == Flag(n, form.text[n], n)
  <1>1. f \in Differing(form, PlainTexts) \cup Differing(form, {"v4l2_buffer", "camera_fps"})
        BY DEF Differing, Says
  <1>2. f.flag = n /\ f.value = form.text[n] BY FlagFields
  <1> HIDE DEF f
  <1> QED BY <1>1, <1>2 DEF NotTaken

LEMMA ValuesTaken ==
  ASSUME NEW form, Filled(form), NEW d, NEW line, IsLine(line, form, d), ~NotTaken(form),
         NEW f \in line
  PROVE  Accepts(Options[OptionOf(f.flag)], f.value)
  <1> DEFINE n == f.flag
  <1>1. n \in FlagNames /\ f \in FlagsOf(line, n) BY DEF IsLine, FlagsOf
  <1>2. \A v, x : Flag(n, v, x).value = v BY FlagFields
  <1>f. \A c, v, x : FlagsOf(line, n) = Only(c, {Flag(n, v, x)}) => c /\ f.value = v
        BY <1>1, <1>2 DEF Only
  <1> DEFINE X == {"serial", "tcpip", "max_fps", "window_title", "record", "crop",
                    "tunnel_host", "video_encoder", "audio_encoder", "camera_id",
                    "camera_size", "camera_facing", "camera_ar", "record_format",
                    "start_app", "v4l2_sink", "new_display", "mouse_bind"}
  <1> SUFFICES Accepts(Options[OptionOf(n)], f.value) OBVIOUS
  <1>3. CASE n \in PlainSwitches \cup SelectorNames \cup {"camera_high_speed"}
        <2>1. f.value = "true" BY <1>3, SwitchValues
        <2>2. Options[OptionOf(n)] = Switch BY <1>3, SwitchOptions
        <2> HIDE DEF n
        <2> QED BY <2>1, <2>2, Taking
  <1>4. CASE n \in X
        <2> HIDE DEF n
        <2>1. Options[OptionOf(n)] = Optional BY <1>4, TextOptions
        <2> QED BY <2>1, Taking
  <1> HIDE DEF n, X
  <1>5. CASE n \in GivenTexts
        <2>1. n \in PlainTexts /\ n \notin BitRates /\ n # "serial" BY <1>5 DEF GivenTexts
        <2>2. n \notin Unsupported /\ n # "record"
              <3>1. \A m \in PlainTexts : m \notin {"otg", "no_mipmaps", "record"}
                    BY DEF PlainTexts
              <3> QED BY <2>1, <3>1 DEF Unsupported
        <2>3. n \notin Altered BY <2>1, <2>2, ApartNames DEF Altered
        <2>4. FlagsOf(line, n) = Only(Says(form, n), {Flag(n, form.text[n], n)})
              BY <2>1, <2>3, PlainFlags DEF IsLine
        <2>5. Says(form, n) /\ f.value = form.text[n] BY <1>f, <2>4
        <2> QED BY <2>1, <2>5, TextsTaken
  <1>6. CASE n \in BitRates
        <2>1. \/ FlagsOf(line, n) = Only(Says(form, n), {Flag(n, form.text[n], n)})
              \/ FlagsOf(line, n)
                   = Only(Says(form, n), {Flag(n, Rewritten(form.text[n], Expanded), n)})
              BY <1>6 DEF IsLine
        <2>2. Says(form, n) /\ f.value \in {form.text[n], Rewritten(form.text[n], Expanded)}
              BY <1>f, <2>1
        <2>3. n \in PlainTexts BY <1>6, AlteredNames
        <2>4. Accepts(Options[OptionOf(n)], form.text[n]) BY <2>2, <2>3, TextsTaken
        <2>5. Options[OptionOf(n)].takes = "bits" BY <1>1, <1>6, FlagOptions
        <2>6. form.text[n] \in Fits.bits BY <2>4, <2>5, Taking
        <2>7. Rewritten(form.text[n], Expanded) \in Fits.bits
              BY <2>6, FormAssumption DEF Rewritten
        <2>8. f.value \in Fits.bits BY <2>2, <2>6, <2>7
        <2> QED BY <2>5, <2>8, Taking
  <1>7. CASE n = "clipboard_direction"
        <2> DEFINE v == Direction(form.text.clipboard_direction)
        <2>1. n \notin Altered BY <1>7 DEF Altered, BitRates, SelectorNames, Unsupported
        <2>2. FlagsOf(line, n) = Only(v \notin {"", "both"}, {Flag(n, v, n)})
              BY <1>7, <2>1, ClipboardFlag DEF IsLine
        <2>3. v \notin {"", "both"} /\ f.value = v
              <3> HIDE DEF v
              <3> QED BY <1>f, <2>2
        <2>4. form.text.clipboard_direction \in {"", "both", "toDevice", "toPc"} BY DEF Filled
        <2>5. /\ Direction("") = "" /\ Direction("both") = "both"
              /\ Direction("toDevice") = "to-device" /\ Direction("toPc") = "to-pc"
              BY DEF Direction, Rewritten
        <2>6. f.value \in {"both", "to-device", "to-pc"} BY <2>3, <2>4, <2>5
        <2>7. Options[OptionOf(n)] = OneOf({"both", "to-device", "to-pc"}, "both")
              BY <1>7, OptionNames, DeviceTable
        <2> DEFINE S == {"both", "to-device", "to-pc"}
        <2> HIDE DEF S
        <2>8. f.value \in S /\ Options[OptionOf(n)] = OneOf(S, "both") BY <2>6, <2>7 DEF S
        <2> QED BY <2>8, Taking
  <1>8. CASE n = "v4l2_buffer"
        <2>1. n \notin Altered BY <1>8 DEF Altered, BitRates, SelectorNames, Unsupported
        <2>2. FlagsOf(line, n)
                = Only(form.text.v4l2_sink # "" /\ form.text[n] # "", {Flag(n, form.text[n], n)})
              BY <1>8, <2>1, ValueFlag DEF IsLine
        <2>3. form.text[n] # "" /\ f.value = form.text[n]
              <3> DEFINE c == form.text.v4l2_sink # "" /\ form.text[n] # ""
              <3>1. FlagsOf(line, n) = Only(c, {Flag(n, form.text[n], n)}) BY <2>2
              <3> HIDE DEF c
              <3>2. c /\ f.value = form.text[n] BY <1>f, <3>1
              <3> QED BY <3>2 DEF c
        <2>4. DefaultText.v4l2_buffer = "" BY DEF DefaultText
        <2> QED BY <1>8, <2>3, <2>4, TextsTaken DEF Says
  <1>9. CASE n = "camera_fps"
        <2>1. n \notin Altered /\ n \in LensNames
              BY <1>9 DEF Altered, BitRates, SelectorNames, Unsupported, LensNames
        <2>2. FlagsOf(line, n) = Only(LensCond(form, n), {Flag(n, form.text[n], n)})
              BY <2>1, LensFlags DEF IsLine, LensCond
        <2>3. LensCond(form, n) /\ f.value = form.text[n] BY <1>f, <2>2
        <2> QED BY <1>9, <2>3, TextsTaken DEF LensCond
  <1>10. \/ n \in PlainSwitches \cup SelectorNames \cup {"camera_high_speed"}
         \/ n \in X \/ n \in GivenTexts \/ n \in BitRates
         \/ n \in {"clipboard_direction", "v4l2_buffer", "camera_fps"}
        <2>1. n \in PlainTexts => n \in X \/ n \in GivenTexts \/ n \in BitRates
              BY DEF GivenTexts, X
        <2>2. n \in LensNames => n \in X \/ n = "camera_fps" BY DEF LensNames, X
        <2>3. n \in ValueNames => n \in X \/ n = "v4l2_buffer" BY DEF ValueNames, X
        <2>4. n \in SwitchNames
                => n \in PlainSwitches \/ n = "camera_high_speed" \/ n \in X
              BY DEF SwitchNames, X
        <2> QED BY <1>1, <2>1, <2>2, <2>3, <2>4 DEF FlagNames
  <1> QED BY <1>3, <1>4, <1>5, <1>6, <1>7, <1>8, <1>9, <1>10

(* A form without a conflict makes lines that parse and are not refused.     *)
LEMMA LineParses ==
  ASSUME NEW form, Filled(form), NEW d, NEW line, IsLine(line, form, d), NEW serials,
         ~Conflicts(form, serials)
  PROVE  Parses(line)
  <1>1. \A f \in line : f.flag \in FlagNames BY DEF IsLine
  <1>2. \A f \in line : OptionOf(f.flag) \in DOMAIN Options BY <1>1, FlagOptions
  <1>3. \A f \in line : Accepts(Options[OptionOf(f.flag)], f.value)
        BY ValuesTaken DEF Conflicts
  <1>4. ASSUME NEW f \in line, NEW g \in line, OptionOf(f.flag) = OptionOf(g.flag)
        PROVE  f = g
        <2> DEFINE n == f.flag
        <2>1. g.flag = n /\ n \in FlagNames BY <1>1, <1>4, OptionsApart
        <2>2. f \in FlagsOf(line, n) /\ g \in FlagsOf(line, n) BY <2>1 DEF FlagsOf
        <2> HIDE DEF n
        <2>3. \E x : FlagsOf(line, n) \subseteq {x}
              <3>1. CASE n # "mouse_bind" BY <2>1, <3>1, FlagsOnce
              <3>2. CASE n = "mouse_bind"
                    <4>1. n \notin Altered
                          BY <3>2 DEF Altered, BitRates, SelectorNames, Unsupported
                    <4>2. FlagsOf(line, n)
                            = Only("forward_all_clicks" \in form.on,
                                   {Flag("mouse_bind", "++++", "forward_all_clicks")})
                                \cup Only("mouse_bind_enabled" \in form.on
                                            /\ form.text.mouse_bind # "",
                                     {Flag("mouse_bind", form.text.mouse_bind, "mouse_bind")})
                          BY <3>2, <4>1, MouseBindFlags DEF IsLine
                    <4>3. ~("forward_all_clicks" \in form.on /\ "mouse_bind_enabled" \in form.on
                             /\ form.text.mouse_bind # "")
                          BY DEF Conflicts
                    <4> QED BY <4>2, <4>3 DEF Only
              <3> QED BY <3>1, <3>2
        <2> QED BY <2>2, <2>3
  <1> QED BY <1>2, <1>3, <1>4 DEF Parses

LEMMA LineRuns ==
  ASSUME NEW form, Filled(form), NEW d \in Devices \cup {NoDevice}, NEW line,
         IsLine(line, form, d), NEW serials, ~Conflicts(form, serials),
         d # NoDevice => Len(serials) > 1
  PROVE  Runs(line)
  <1> DEFINE opts == Parsed(line)
  <1>1. Parses(line) BY LineParses
  <1>2. \A n \in {"require_audio", "no_audio", "audio_dup"} : opts[n] = Bool(n \in form.on)
        BY <1>1, SwitchesAgree DEF Is
  <1>3. opts.audio_source
          = IF form.text.audio_source \in {"", "output"} THEN NotGiven
            ELSE form.text.audio_source
        BY <1>1, RestGiven
  <1>4. opts.serial # NotGiven => d # NoDevice \/ form.text.serial # "" BY <1>1, SerialGiven
  <1>5. opts.tcpip # NotGiven => Reached(form) BY <1>1, ValueGiven
  <1>6. \A n \in SelectorNames : opts[n] = "true" => Picks(form, n)
        BY <1>1, SelectorGiven DEF Bool
  <1>7. ASSUME NEW n \in SelectorNames, Picks(form, n) PROVE opts.serial = NotGiven
        <2>1. form.text.serial = "" BY <1>7 DEF Picks
        <2>2. n \in form.on /\ ~({"select_usb", "select_tcpip"} \subseteq form.on)
              BY <1>7 DEF Picks
        <2>3. {"select_usb", "select_tcpip"} \cap form.on = {n} BY <2>2 DEF SelectorNames
        <2>4. Cardinality({"select_usb", "select_tcpip"} \cap form.on) = 1
              BY <2>3, FS_Singleton
        <2>5. d = NoDevice BY <2>1, <2>4 DEF Conflicts
        <2> QED BY <1>4, <2>1, <2>5
  <1>8. ~(opts.serial # NotGiven /\ opts.tcpip # NotGiven)
        BY <1>4, <1>5 DEF Conflicts
  <1>9. \A n \in SelectorNames : Picks(form, n) => ~Reached(form) BY DEF Picks
  <1>10. ~(Picks(form, "select_usb") /\ Picks(form, "select_tcpip")) BY DEF Picks
  <1> HIDE DEF opts
  <1>11. \A o, p \in Selected(opts) : o = p
         BY <1>5, <1>6, <1>7, <1>8, <1>9, <1>10 DEF Selected, SelectorNames
  <1>12. ~(opts.require_audio = "true" /\ opts.no_audio = "true")
         BY <1>2 DEF Conflicts, Bool
  <1>13. ~(opts.audio_dup = "true" /\ opts.no_audio = "true")
         BY <1>2 DEF Conflicts, Bool
  <1>14. ~(opts.audio_dup = "true" /\ opts.audio_source \notin {NotGiven, "playback"})
         <2>1. opts.audio_dup = "true" => "audio_dup" \in form.on BY <1>2 DEF Bool
         <2>2. ~("audio_dup" \in form.on
                   /\ form.text.audio_source \notin {"", "output", "playback"})
               BY DEF Conflicts
         <2> QED BY <1>3, <2>1, <2>2
  <1>15. ~Contradictory(opts) BY <1>11, <1>12, <1>13, <1>14 DEF Contradictory
  <1> QED BY <1>1, <1>15 DEF Runs, opts

--------------------------------------------------------------------------------
(***************************************************************************)
(* The lines the panel starts, with the recording placed in its folder,    *)
(* and the lines it shows.                                                 *)
(***************************************************************************)

(* What a control of the form may hold.                                      *)
Written ==
  (UNION {Typed[c] : c \in DOMAIN Typed}) \cup {DefaultText[c] : c \in Texts}
    \cup Quarters \cup Devices \cup {"", "scrcpy.mp4"}
FormSet == [text : [Texts -> Written], on : SUBSET Switches]

(* Placing a recording in its folder changes the path and nothing else.      *)
LEMMA Placed ==
  ASSUME NEW form \in FormSet, NEW folder,
         NEW launch, launch = LaunchConfig(form, folder)
  PROVE  /\ launch.on = form.on
         /\ \A c \in Texts \ {"record_path"} : launch.text[c] = form.text[c]
         /\ "record_enabled" \in form.on =>
              launch.text["record_path"]
                = RecordPathFor(form.text.record_path, Rewritten(folder, Tilde))
  <1> DEFINE path == RecordPathFor(form.text.record_path, Rewritten(folder, Tilde))
  <1>1. form.text \in [Texts -> Written] BY DEF FormSet
  <1>2. "record_path" \in Texts BY DEF Texts, DefaultText
  <1>3. launch = IF "record_enabled" \in form.on THEN [form EXCEPT !.text.record_path = path]
                 ELSE form
        BY DEF LaunchConfig
  <1> HIDE DEF path
  <1> DEFINE t == [form.text EXCEPT !["record_path"] = path]
  <1>4. t["record_path"] = path /\ \A c \in Texts \ {"record_path"} : t[c] = form.text[c]
        BY <1>1, <1>2
  <1>5. [form EXCEPT !.text.record_path = path].text = t
        /\ [form EXCEPT !.text.record_path = path].on = form.on
        BY DEF FormSet
  <1> HIDE DEF t
  <1>6. CASE "record_enabled" \in form.on BY <1>3, <1>4, <1>5, <1>6 DEF path
  <1>7. CASE "record_enabled" \notin form.on BY <1>3, <1>7
  <1> QED BY <1>6, <1>7

LEMMA PlacedFills ==
  ASSUME NEW form \in FormSet, NEW folder, Filled(form)
  PROVE  Filled(LaunchConfig(form, folder))
  <1> DEFINE launch == LaunchConfig(form, folder)
  <1>1. \A c \in Texts \ {"record_path"} : launch.text[c] = form.text[c] BY Placed
  <1>2. "clipboard_direction" \in Texts \ {"record_path"} BY DEF Texts, DefaultText
  <1> HIDE DEF launch
  <1>3. Filled(launch) BY <1>1, <1>2 DEF Filled
  <1> QED BY <1>3 DEF launch

(* A form and one with another recording path say the same but for the file. *)
SameButFile(form, launch) ==
  /\ launch.on = form.on
  /\ \A c \in Texts \ {"record_path"} : launch.text[c] = form.text[c]

LEMMA SameTexts ==
  ASSUME NEW c \in PlainTexts \cup ForItself \cup LensNames
                    \cup {"v4l2_buffer", "v4l2_sink", "camera_fps", "audio_source",
                          "mouse_bind", "serial", "tcpip_addr", "record_orientation",
                          "display_orientation", "port", "clipboard_direction",
                          "verbosity", "crop", "display_id", "video_encoder",
                          "audio_encoder", "audio_bit_rate", "video_source",
                          "new_display", "video_codec", "video_bit_rate", "max_size",
                          "max_fps", "audio_codec"}
  PROVE  c \in Texts \ {"record_path"}
  BY DEF PlainTexts, ForItself, LensNames, Texts, DefaultText

LEMMA SameConflicts ==
  ASSUME NEW form, NEW launch, SameButFile(form, launch), NEW serials
  PROVE  Conflicts(launch, serials) <=> Conflicts(form, serials)
  <1>1. \A c \in PlainTexts \cup {"v4l2_buffer", "camera_fps"} : launch.text[c] = form.text[c]
        BY SameTexts DEF SameButFile
  <1>2. /\ Differing(launch, PlainTexts) = Differing(form, PlainTexts)
        /\ Differing(launch, {"v4l2_buffer", "camera_fps"})
             = Differing(form, {"v4l2_buffer", "camera_fps"})
        BY <1>1 DEF Differing
  <1>3. NotTaken(launch) <=> NotTaken(form) BY <1>2 DEF NotTaken
  <1>4. \A c \in {"audio_source", "mouse_bind", "serial", "tcpip_addr"} :
          launch.text[c] = form.text[c]
        BY SameTexts DEF SameButFile
  <1>5. launch.on = form.on BY DEF SameButFile
  <1>6. Reached(launch) <=> Reached(form) BY <1>4, <1>5 DEF Reached
  <1> QED BY <1>3, <1>4, <1>5, <1>6 DEF Conflicts

LEMMA SameAsked ==
  ASSUME NEW form, NEW launch, SameButFile(form, launch), NEW d, NEW path, NEW place,
         "record_enabled" \in form.on => place = path
  PROVE  AskedOf(launch, d, place) = AskedOf(form, d, path)
  <1> DEFINE T == PlainTexts \cup ForItself \cup LensNames
                    \cup {"v4l2_buffer", "v4l2_sink", "camera_fps", "audio_source",
                          "mouse_bind", "serial", "tcpip_addr", "record_orientation",
                          "display_orientation", "port", "clipboard_direction",
                          "verbosity", "crop", "display_id", "video_encoder",
                          "audio_encoder", "audio_bit_rate", "video_source",
                          "new_display", "video_codec", "video_bit_rate", "max_size",
                          "max_fps", "audio_codec"}
  <1>1. \A c \in T : launch.text[c] = form.text[c] BY SameTexts DEF SameButFile
  <1>2. launch.on = form.on BY DEF SameButFile
  <1>3. \A c \in T : \A v : Said(launch, c, v) = Said(form, c, v) BY <1>1 DEF Said
  <1>4. \A s : Is(launch, s) = Is(form, s) /\ IsNot(launch, s) = IsNot(form, s)
        BY <1>2 DEF Is, IsNot
  <1>5. [c \in ForItself |-> Said(launch, c, Options[c].default)]
          = [c \in ForItself |-> Said(form, c, Options[c].default)]
        BY <1>3
  <1>6. [s \in SwitchesForItself |-> Is(launch, s)] = [s \in SwitchesForItself |-> Is(form, s)]
        BY <1>4
  <1>7. AskedOfClient(launch, d, place) = AskedOfClient(form, d, path)
        <2>1. AskedFile(launch, d, place) = AskedFile(form, d, path) BY <1>2 DEF AskedFile
        <2>2. Reached(launch) <=> Reached(form) BY <1>1, <1>2 DEF Reached
        <2>3. AskedDevice(launch, d) = AskedDevice(form, d)
              <3>1. launch.text.serial = form.text.serial
                    /\ launch.text.tcpip_addr = form.text.tcpip_addr BY <1>1
              <3> QED BY <1>2, <1>4, <2>2, <3>1 DEF AskedDevice
        <2>4. /\ launch.text.port = form.text.port
              /\ launch.text.v4l2_sink = form.text.v4l2_sink BY <1>1
        <2>5. \A c \in {"record_orientation", "display_orientation", "mouse_bind",
                        "clipboard_direction", "v4l2_sink", "v4l2_buffer"} : \A v :
                Said(launch, c, v) = Said(form, c, v)
              BY <1>3
        <2> HIDE DEF T
        <2> QED BY <1>2, <1>4, <2>1, <2>3, <2>4, <2>5 DEF AskedOfClient
  <1>8. AskedOfDevice(launch) = AskedOfDevice(form)
        <2>1. \A c \in {"verbosity", "crop", "display_id", "video_encoder", "audio_encoder",
                        "audio_source", "audio_bit_rate"} : \A v :
                Said(launch, c, v) = Said(form, c, v)
              BY <1>3
        <2>2. Rate(launch, "audio_bit_rate") = Rate(form, "audio_bit_rate") BY <2>1 DEF Rate
        <2> HIDE DEF T
        <2> QED BY <1>2, <1>4, <2>1, <2>2 DEF AskedOfDevice
  <1>9. AskedOfSource(launch) = AskedOfSource(form)
        <2>1. \A c \in LensNames \cup {"video_source", "new_display"} :
                launch.text[c] = form.text[c]
              BY <1>1
        <2>2. \A c \in LensNames \cup {"video_source"} : \A v : Said(launch, c, v) = Said(form, c, v)
              BY <1>3
        <2> HIDE DEF T
        <2>3. ASSUME NEW c \in LensNames, NEW unless \in LensNames \cup {""}
              PROVE  Lens(launch, c, unless) = Lens(form, c, unless)
              BY <2>1, <2>2 DEF Lens
        <2>4. /\ Lens(launch, "camera_id", "") = Lens(form, "camera_id", "")
              /\ Lens(launch, "camera_size", "") = Lens(form, "camera_size", "")
              /\ Lens(launch, "camera_facing", "camera_id")
                   = Lens(form, "camera_facing", "camera_id")
              /\ Lens(launch, "camera_ar", "camera_size") = Lens(form, "camera_ar", "camera_size")
              /\ Lens(launch, "camera_fps", "") = Lens(form, "camera_fps", "")
              BY <2>3 DEF LensNames
        <2>5. /\ launch.text.video_source = form.text.video_source
              /\ launch.text.camera_fps = form.text.camera_fps
              /\ launch.text.new_display = form.text.new_display
              /\ Said(launch, "video_source", "display") = Said(form, "video_source", "display")
              BY <2>1, <2>2 DEF LensNames
        <2> QED BY <1>2, <2>4, <2>5 DEF AskedOfSource
  <1>10. AskedOfVideo(launch) = AskedOfVideo(form)
        <2>1. \A c \in {"video_codec", "video_bit_rate", "max_size", "max_fps"} : \A v :
                Said(launch, c, v) = Said(form, c, v)
              BY <1>3
        <2>2. Rate(launch, "video_bit_rate") = Rate(form, "video_bit_rate") BY <2>1 DEF Rate
        <2> HIDE DEF T
        <2> QED BY <1>2, <2>1, <2>2 DEF AskedOfVideo
  <1>11. AskedOfAudio(launch) = AskedOfAudio(form)
         BY <1>2, <1>3 DEF AskedOfAudio
  <1> QED BY <1>5, <1>6, <1>7, <1>8, <1>9, <1>10, <1>11 DEF AskedOf

(* What may be ticked: nothing, one device, or two that differ.              *)
Ticks == {s \in SeqOf(Devices, 2) : IsInjective(s)}

LEMMA TicksAre ==
  ASSUME NEW s \in Ticks
  PROVE  /\ s \in Seq(Devices) /\ Len(s) \in {0, 1, 2} /\ DOMAIN s = 1 .. Len(s)
         /\ FirstTicked(s) \in Devices \cup {""}
         /\ \A i \in DOMAIN s : s[i] \in Devices
         /\ Len(s) = 2 => DOMAIN s = {1, 2} /\ s[1] # s[2]
  <1>1. PICK m \in 0 .. 2 : s \in [1 .. m -> Devices] BY DEF Ticks, SeqOf
  <1>2. s \in Seq(Devices) BY <1>1, SeqDef
  <1>3. /\ Len(s) \in Nat /\ DOMAIN s = 1 .. Len(s) /\ (s # << >> => Len(s) # 0)
        BY <1>2, LenProperties, EmptySeq
  <1>4. Len(s) = m
        <2>1. 1 .. m = 1 .. Len(s) BY <1>1, <1>3
        <2> QED BY <1>1, <1>3, <2>1
  <1>5. Len(s) \in {0, 1, 2} BY <1>1, <1>4
  <1>6. Len(s) = 2 => DOMAIN s = {1, 2} BY <1>3
  <1>7. IsInjective(s) BY DEF Ticks
  <1>8. Len(s) = 2 => s[1] # s[2] BY <1>6, <1>7 DEF IsInjective
  <1>9. \A i \in DOMAIN s : s[i] \in Devices BY <1>1
  <1>10. s # << >> => 1 \in DOMAIN s BY <1>3
  <1> QED BY <1>2, <1>3, <1>5, <1>6, <1>8, <1>9, <1>10 DEF FirstTicked

LEMMA CoveredAre ==
  ASSUME NEW s \in Ticks
  PROVE  /\ \A d \in Covered(s) : d \in Devices \cup {NoDevice}
         /\ \A d \in Covered(s) : d # NoDevice <=> Len(s) > 1
         /\ Len(s) < 2 => Covered(s) = {NoDevice}
         /\ Len(s) = 2 => Covered(s) = {s[1], s[2]}
         /\ \A i \in DOMAIN s : Len(s) > 1 => s[i] \in Covered(s) /\ s[i] # NoDevice
         /\ Len(s) < 2 \/ Len(s) = 2
  <1>1. /\ Len(s) \in {0, 1, 2} /\ \A i \in DOMAIN s : s[i] \in Devices
        /\ Len(s) = 2 => DOMAIN s = {1, 2}
        BY TicksAre
  <1>2. (Len(s) < 2 \/ Len(s) = 2) /\ ~(Len(s) < 2 /\ Len(s) > 1) /\ (Len(s) = 2 => Len(s) > 1)
        /\ ~(Len(s) < 2 /\ Len(s) = 2)
        <2>1. \A n \in {0, 1, 2} : /\ n < 2 \/ n = 2
                                   /\ ~(n < 2 /\ n > 1) /\ (n = 2 => n > 1) /\ ~(n < 2 /\ n = 2)
              OBVIOUS
        <2> QED BY <1>1, <2>1
  <1>3. NoDevice \notin Devices BY FormAssumption
  <1>4. Len(s) < 2 => Covered(s) = {NoDevice} BY DEF Covered
  <1>5. Len(s) = 2 => Covered(s) = {s[i] : i \in DOMAIN s} BY <1>2 DEF Covered, ToSet
  <1>6. Len(s) = 2 => Covered(s) = {s[1], s[2]} BY <1>1, <1>5
  <1> QED BY <1>1, <1>2, <1>3, <1>4, <1>5, <1>6

LEMMA PairCard ==
  ASSUME NEW a, NEW b, a # b
  PROVE  Cardinality({a, b}) = 2
  <1>1. {a, b} = {a} \cup {b} OBVIOUS
  <1>2. IsFiniteSet({a}) /\ Cardinality({a}) = 1 BY FS_Singleton
  <1>3. Cardinality({a} \cup {b}) = Cardinality({a}) + 1 BY <1>2, FS_AddElement
  <1> QED BY <1>1, <1>2, <1>3

(* At most one way to choose the device is on a line of a form that does not *)
(* contradict itself.                                                        *)
LEMMA OneSelector ==
  ASSUME NEW form, NEW d, NEW line, IsLine(line, form, d), NEW serials,
         ~Conflicts(form, serials), d # NoDevice => Len(serials) > 1,
         NEW n \in {"serial", "tcpip"} \cup SelectorNames,
         NEW m \in {"serial", "tcpip"} \cup SelectorNames,
         FlagsOf(line, n) # {}, FlagsOf(line, m) # {}
  PROVE  n = m
  <1>1. FlagsOf(line, "serial") # {} => d # NoDevice \/ form.text.serial # ""
        BY DEF IsLine, Only, Says
  <1>2. FlagsOf(line, "tcpip") # {} => Reached(form)
        <2>1. "tcpip" \notin Altered BY DEF Altered, BitRates, SelectorNames, Unsupported
        <2>2. FlagsOf(line, "tcpip")
                = Only(Reached(form), {Flag("tcpip", form.text.tcpip_addr, "tcpip_addr")})
              BY <2>1, ValueFlag DEF IsLine
        <2> QED BY <2>2 DEF Only
  <1>3. \A x \in SelectorNames : FlagsOf(line, x) # {} => Picks(form, x)
        BY DEF IsLine, Only
  <1>4. ASSUME NEW x \in SelectorNames, Picks(form, x)
        PROVE  FlagsOf(line, "serial") = {}
        <2>1. form.text.serial = "" BY <1>4 DEF Picks
        <2>2. x \in form.on /\ ~({"select_usb", "select_tcpip"} \subseteq form.on)
              BY <1>4 DEF Picks
        <2>3. {"select_usb", "select_tcpip"} \cap form.on = {x} BY <2>2 DEF SelectorNames
        <2>4. Cardinality({"select_usb", "select_tcpip"} \cap form.on) = 1
              BY <2>3, FS_Singleton
        <2>5. d = NoDevice BY <2>1, <2>4 DEF Conflicts
        <2> QED BY <1>1, <2>1, <2>5
  <1>5. ~(FlagsOf(line, "serial") # {} /\ FlagsOf(line, "tcpip") # {})
        BY <1>1, <1>2 DEF Conflicts
  <1>6. \A x \in SelectorNames : Picks(form, x) => ~Reached(form) BY DEF Picks
  <1>7. ~(Picks(form, "select_usb") /\ Picks(form, "select_tcpip")) BY DEF Picks
  <1> QED BY <1>2, <1>3, <1>4, <1>5, <1>6, <1>7 DEF SelectorNames

(* What scrcpy itself takes.                                                 *)
LEMMA LineScrcpyTakes ==
  ASSUME NEW form, NEW d, NEW line, IsLine(line, form, d), NEW serials,
         ~Conflicts(form, serials), d # NoDevice => Len(serials) > 1,
         \A f \in line : f.flag \notin ForkOnly
  PROVE  ScrcpyTakes(line)
  <1> DEFINE names == {f.flag : f \in line}
             S == {"serial", "tcpip", "select_usb", "select_tcpip"}
             T == names \cap S
  <1>1. \A n : n \in names <=> FlagsOf(line, n) # {} BY DEF FlagsOf
  <1>2. \A n \in LensNames : n \in names => LensCond(form, n)
        <2> SUFFICES ASSUME NEW n \in LensNames, FlagsOf(line, n) # {} PROVE LensCond(form, n)
            BY <1>1
        <2>1. n \notin Altered
              BY DEF Altered, BitRates, SelectorNames, Unsupported, LensNames
        <2>2. FlagsOf(line, n) = Only(LensCond(form, n), {Flag(n, form.text[n], n)})
              BY <2>1, LensFlags DEF IsLine, LensCond
        <2> QED BY <2>2 DEF Only
  <1>3. "camera_high_speed" \in names => Camera(form) /\ form.text.camera_fps # ""
        <2> DEFINE n == "camera_high_speed"
                   c == Camera(form) /\ form.text.camera_fps # "" /\ n \in form.on
        <2>1. n \notin Altered BY DEF Altered, BitRates, SelectorNames, Unsupported
        <2>2. FlagsOf(line, n) = Only(c, {Flag(n, "true", n)})
              BY <2>1, HighSpeedFlag DEF IsLine
        <2>3. FlagsOf(line, n) # {} => c
              <3> HIDE DEF c
              <3> QED BY <2>2 DEF Only
        <2> QED BY <1>1, <2>3
  <1>4. Camera(form) /\ form.text.camera_fps # "" => "camera_fps" \in names
        <2> DEFINE n == "camera_fps"
        <2>1. n \notin Altered /\ n \in LensNames
              BY DEF Altered, BitRates, SelectorNames, Unsupported, LensNames
        <2>2. FlagsOf(line, n) = Only(LensCond(form, n), {Flag(n, form.text[n], n)})
              BY <2>1, LensFlags DEF IsLine, LensCond
        <2>3. Camera(form) /\ form.text.camera_fps # "" => LensCond(form, n)
              BY DEF LensCond, Says, DefaultText
        <2>4. LensCond(form, n) => FlagsOf(line, n) # {} BY <2>2 DEF Only
        <2> QED BY <1>1, <2>3, <2>4
  <1>5. \A x, y \in T : x = y
        <2> SUFFICES ASSUME NEW x \in T, NEW y \in T PROVE x = y OBVIOUS
        <2>1. x \in {"serial", "tcpip"} \cup SelectorNames
              /\ y \in {"serial", "tcpip"} \cup SelectorNames
              BY DEF SelectorNames
        <2>2. FlagsOf(line, x) # {} /\ FlagsOf(line, y) # {} BY <1>1
        <2> HIDE DEF T
        <2> QED BY <2>1, <2>2, OneSelector
  <1>6. Cardinality(T) <= 1
        <2> HIDE DEF T
        <2>1. T = {} \/ \E x : T = {x}
              <3>1. ASSUME NEW x \in T PROVE T = {x} BY <1>5
              <3> QED BY <3>1
        <2>2. T = {} => Cardinality(T) = 0 BY FS_EmptySet
        <2>3. (\E x : T = {x}) => Cardinality(T) = 1 BY FS_Singleton
        <2> QED BY <2>1, <2>2, <2>3
  <1>7. "clipboard_direction" \notin names BY DEF ForkOnly
  <1>8. ~({"camera_id", "camera_facing"} \subseteq names)
        <2>1. LensCond(form, "camera_id") => form.text.camera_id # ""
              BY DEF LensCond, Says
        <2>2. LensCond(form, "camera_facing") => form.text.camera_id = "" BY DEF LensCond
        <2> HIDE DEF names
        <2> QED BY <1>2, <2>1, <2>2 DEF LensNames
  <1>9. ~({"camera_size", "camera_ar"} \subseteq names)
        <2>1. LensCond(form, "camera_size") => form.text.camera_size # ""
              BY DEF LensCond, Says
        <2>2. LensCond(form, "camera_ar") => form.text.camera_size = "" BY DEF LensCond
        <2> HIDE DEF names
        <2> QED BY <1>2, <2>1, <2>2 DEF LensNames
  <1>10. "camera_high_speed" \in names => "camera_fps" \in names
         <2> HIDE DEF names
         <2> QED BY <1>3, <1>4
  <1> QED BY <1>6, <1>7, <1>8, <1>9, <1>10 DEF ScrcpyTakes

(* What the form may be, as far as its lines go.                             *)
Fillable == {form \in FormSet : Filled(form)}

(* The clients that are started run and do what the form says.               *)
LEMMA LaunchedSound ==
  ASSUME NEW form \in Fillable, NEW serials \in Ticks, NEW folder,
         NEW launched, launched = Launched(form, serials, folder),
         NEW path, path = RecordPathFor(form.text.record_path, Rewritten(folder, Tilde))
  PROVE  /\ ~Conflicts(form, serials) => DOMAIN launched = Covered(serials)
         /\ \A d \in DOMAIN launched :
              /\ ~Conflicts(form, serials) => Runs(launched[d])
              /\ Runs(launched[d]) => Agrees(Parsed(launched[d]), AskedOf(form, d, path))
  <1> DEFINE launch == LaunchConfig(form, folder)
             flags == ToClientArgs(launch)
  <1>1. form \in FormSet /\ Filled(form) BY DEF Fillable
  <1>2. Filled(launch) BY <1>1, PlacedFills
  <1>3. SameButFile(form, launch) BY <1>1, Placed DEF SameButFile
  <1>4. "record_enabled" \in form.on => launch.text["record_path"] = path BY <1>1, Placed
  <1>5. launched = IF ~Parses(flags) THEN << >>
                   ELSE [d \in Covered(serials) |->
                           IF d = NoDevice THEN flags ELSE ForDevice(flags, d)]
        BY DEF Launched
  <1> HIDE DEF launch
  <1>6. IsLine(flags, launch, NoDevice) BY ClientLine
  <1>7. ~Conflicts(form, serials) => ~Conflicts(launch, serials) BY <1>3, SameConflicts
  <1>8. ~Conflicts(form, serials) => Parses(flags) BY <1>2, <1>6, <1>7, LineParses
  <1>9. ASSUME NEW d \in DOMAIN launched
        PROVE  /\ d \in Covered(serials)
               /\ launched[d] = IF d = NoDevice THEN flags ELSE ForDevice(flags, d)
        <2>1. Parses(flags)
              <3>1. DOMAIN << >> = {} OBVIOUS
              <3> QED BY <1>5, <1>9, <3>1
        <2> QED BY <1>5, <1>9, <2>1
  <1>10. ASSUME NEW d \in DOMAIN launched
         PROVE  /\ d \in Devices \cup {NoDevice} /\ IsLine(launched[d], launch, d)
                /\ d # NoDevice => Len(serials) > 1
         <2>1. d \in Devices \cup {NoDevice} /\ (d # NoDevice => Len(serials) > 1)
               BY <1>9, CoveredAre
         <2>2. CASE d = NoDevice BY <1>6, <1>9, <2>1, <2>2
         <2>3. CASE d # NoDevice
               <3>1. IsLine(ForDevice(flags, d), launch, d) BY <2>3, ClientLineFor
               <3> QED BY <1>9, <2>1, <2>3, <3>1
         <2> QED BY <2>2, <2>3
  <1>11. ASSUME NEW d \in DOMAIN launched, ~Conflicts(form, serials) PROVE Runs(launched[d])
         BY <1>2, <1>7, <1>10, <1>11, LineRuns
  <1>12. ASSUME NEW d \in DOMAIN launched, Runs(launched[d])
         PROVE  Agrees(Parsed(launched[d]), AskedOf(form, d, path))
         <2>1. Agrees(Parsed(launched[d]), AskedOf(launch, d, launch.text.record_path))
               BY <1>2, <1>10, <1>12, LineAgrees
         <2>2. AskedOf(launch, d, launch.text.record_path) = AskedOf(form, d, path)
               BY <1>3, <1>4, SameAsked
         <2> QED BY <2>1, <2>2
  <1>13. ~Conflicts(form, serials) => DOMAIN launched = Covered(serials) BY <1>5, <1>8
  <1> QED BY <1>11, <1>12, <1>13

(* The lines of the bar, one for each device.                                *)
LEMMA BarSound ==
  ASSUME NEW form \in Fillable, NEW serials \in Ticks, NEW bar, bar = Refreshed(form, serials)
  PROVE  /\ Cardinality(bar.lines) = Cardinality(Covered(serials))
         /\ \A line \in bar.lines :
              /\ ~Conflicts(form, serials) => Runs(line)
              /\ Runs(line) =>
                   \E d \in Covered(serials) :
                     Agrees(Parsed(line), AskedOf(form, d, form.text.record_path))
              /\ bar.binary = "scrcpy" /\ ~Conflicts(form, serials) => ScrcpyTakes(line)
  <1>1. Filled(form) BY DEF Fillable
  <1>2. bar.lines = IF Len(serials) < 2 THEN {ToFlags(form)}
                    ELSE {LineFor(form, serials[i]) : i \in DOMAIN serials}
        BY DEF Refreshed, ToCommandLineFor
  <1>3. bar.binary = BinaryFor(UNION bar.lines) BY DEF Refreshed, ToCommandLineFor
  <1>4. ASSUME NEW line \in bar.lines
        PROVE  \E d \in Covered(serials) : IsLine(line, form, d)
        <2>1. CASE Len(serials) < 2
              <3>1. line = ToFlags(form) BY <1>2, <2>1
              <3>2. IsLine(line, form, NoDevice) BY <3>1, BarLine
              <3> QED BY <2>1, <3>2, CoveredAre
        <2>2. CASE ~(Len(serials) < 2)
              <3>1. PICK i \in DOMAIN serials : line = LineFor(form, serials[i]) BY <1>2, <2>2
              <3>2. Len(serials) > 1
                    <4>1. Len(serials) = 2 BY <2>2, CoveredAre
                    <4> QED BY <4>1
              <3>3. serials[i] \in Covered(serials) /\ serials[i] # NoDevice BY <3>2, CoveredAre
              <3>4. IsLine(line, form, serials[i]) BY <3>1, <3>3, BarLineFor
              <3> QED BY <3>3, <3>4
        <2> QED BY <2>1, <2>2
  <1>5. ASSUME NEW line \in bar.lines
        PROVE  /\ ~Conflicts(form, serials) => Runs(line)
               /\ Runs(line) =>
                    \E d \in Covered(serials) :
                      Agrees(Parsed(line), AskedOf(form, d, form.text.record_path))
               /\ bar.binary = "scrcpy" /\ ~Conflicts(form, serials) => ScrcpyTakes(line)
        <2>1. PICK d \in Covered(serials) : IsLine(line, form, d) BY <1>4
        <2>2. d \in Devices \cup {NoDevice} /\ (d # NoDevice => Len(serials) > 1) BY CoveredAre
        <2>3. ~Conflicts(form, serials) => Runs(line) BY <1>1, <2>1, <2>2, LineRuns
        <2>4. Runs(line) => Agrees(Parsed(line), AskedOf(form, d, form.text.record_path))
              BY <1>1, <2>1, <2>2, LineAgrees
        <2>5. ASSUME bar.binary = "scrcpy", ~Conflicts(form, serials) PROVE ScrcpyTakes(line)
              <3>1. ~(\E f \in UNION bar.lines : f.flag \in ForkOnly)
                    BY <1>3, <2>5 DEF BinaryFor
              <3>2. \A f \in line : f.flag \notin ForkOnly BY <3>1
              <3> QED BY <2>1, <2>2, <2>5, <3>2, LineScrcpyTakes
        <2> QED BY <2>3, <2>4, <2>5
  <1>6. Cardinality(bar.lines) = Cardinality(Covered(serials))
        <2>1. CASE Len(serials) < 2
              <3>1. bar.lines = {ToFlags(form)} /\ Covered(serials) = {NoDevice}
                    BY <1>2, <2>1, CoveredAre
              <3>2. Cardinality({ToFlags(form)}) = 1 /\ Cardinality({NoDevice}) = 1
                    BY FS_Singleton
              <3> QED BY <3>1, <3>2
        <2>2. CASE Len(serials) = 2
              <3> DEFINE a == serials[1]
                         b == serials[2]
              <3>1. ~(Len(serials) < 2) /\ Len(serials) > 1 BY <2>2
              <3>2. DOMAIN serials = {1, 2} /\ a # b BY <2>2, TicksAre
              <3>3. Covered(serials) = {a, b} BY <2>2, CoveredAre
              <3>4. bar.lines = {LineFor(form, a), LineFor(form, b)} BY <1>2, <3>1, <3>2
              <3>5. a # NoDevice /\ b # NoDevice BY <3>1, <3>2, CoveredAre
              <3> HIDE DEF a, b
              <3>6. /\ IsLine(LineFor(form, a), form, a) /\ IsLine(LineFor(form, b), form, b)
                    BY <3>5, BarLineFor
              <3>7. /\ FlagsOf(LineFor(form, a), "serial") = {Flag("serial", a, "loop")}
                    /\ FlagsOf(LineFor(form, b), "serial") = {Flag("serial", b, "loop")}
                    BY <3>5, <3>6 DEF IsLine
              <3>8. Flag("serial", a, "loop").value = a /\ Flag("serial", b, "loop").value = b
                    BY FlagFields
              <3>9. LineFor(form, a) # LineFor(form, b) BY <3>2, <3>7, <3>8
              <3>10. Cardinality(bar.lines) = 2
                     <4> DEFINE A == LineFor(form, a)
                                B == LineFor(form, b)
                     <4>1. bar.lines = {A, B} /\ A # B BY <3>4, <3>9
                     <4> HIDE DEF A, B
                     <4>2. A # B => Cardinality({A, B}) = 2 BY PairCard
                     <4> QED BY <4>1, <4>2
              <3>11. Cardinality(Covered(serials)) = 2 BY <3>2, <3>3, PairCard
              <3> QED BY <3>10, <3>11
        <2> QED BY <2>1, <2>2, CoveredAre
  <1> QED BY <1>5, <1>6

(* Both, when the bar shows the form and the devices ticked.                 *)
LEMMA LineSound ==
  ASSUME config \in Fillable, ticked \in Ticks, shown = Refreshed(config, ticked)
  PROVE  TheLineIsWhatRuns
  <1> DEFINE launched == Launched(config, ticked, memory.settings)
             path == RecordPathFor(config.text.record_path, Rewritten(memory.settings, Tilde))
  <1>1. /\ ~Conflicts(config, ticked) => DOMAIN launched = Covered(ticked)
        /\ \A d \in DOMAIN launched :
             /\ ~Conflicts(config, ticked) => Runs(launched[d])
             /\ Runs(launched[d]) => Agrees(Parsed(launched[d]), AskedOf(config, d, path))
        BY LaunchedSound
  <1>2. \A d \in DOMAIN launched : d \in Covered(ticked)
        BY DEF Launched
  <1>3. /\ Cardinality(shown.lines) = Cardinality(Covered(ticked))
        /\ \A line \in shown.lines :
             /\ ~Conflicts(config, ticked) => Runs(line)
             /\ Runs(line) =>
                  \E d \in Covered(ticked) :
                    Agrees(Parsed(line), AskedOf(config, d, config.text.record_path))
             /\ shown.binary = "scrcpy" /\ ~Conflicts(config, ticked) => ScrcpyTakes(line)
        BY BarSound
  <1> HIDE DEF launched, path
  <1> DEFINE asked == [d \in Covered(ticked) |-> AskedOf(config, d, path)]
             inTheBar == [d \in Covered(ticked) |-> AskedOf(config, d, config.text.record_path)]
  <1>4. \A d \in Covered(ticked) : /\ asked[d] = AskedOf(config, d, path)
                                  /\ inTheBar[d] = AskedOf(config, d, config.text.record_path)
        OBVIOUS
  <1>5. TheLineIsWhatRuns =
          (/\ up /\ ~Conflicts(config, ticked) => DOMAIN launched = Covered(ticked)
           /\ \A d \in DOMAIN launched :
                /\ ~Conflicts(config, ticked) => Runs(launched[d])
                /\ Runs(launched[d]) => Agrees(Parsed(launched[d]), asked[d])
           /\ Cardinality(shown.lines) = Cardinality(Covered(ticked))
           /\ \A flags \in shown.lines :
                /\ ~Conflicts(config, ticked) => Runs(flags)
                /\ Runs(flags) => \E d \in Covered(ticked) : Agrees(Parsed(flags), inTheBar[d])
                /\ shown.binary = "scrcpy" /\ ~Conflicts(config, ticked) => ScrcpyTakes(flags))
        BY DEF TheLineIsWhatRuns, launched, path
  <1> HIDE DEF asked, inTheBar
  <1>6. \A d \in DOMAIN launched :
          Runs(launched[d]) => Agrees(Parsed(launched[d]), asked[d])
        BY <1>1, <1>2, <1>4
  <1>7. \A flags \in shown.lines :
          Runs(flags) => \E d \in Covered(ticked) : Agrees(Parsed(flags), inTheBar[d])
        BY <1>3, <1>4
  <1> QED BY <1>1, <1>3, <1>5, <1>6, <1>7

--------------------------------------------------------------------------------
(***************************************************************************)
(* The form, whatever the user does, and whatever becomes of the files.    *)
(*                                                                         *)
(* The bar is refreshed by whatever changes the form or the ticks, and the *)
(* form holds only what a control may hold; it may come off a card, so the *)
(* cards in the memory, and those in a file that can be read, are forms of *)
(* that kind too. A card is read from the disk by a start, so the files    *)
(* come first (FilesInv).                                                  *)
(***************************************************************************)

FillInv ==
  /\ config \in Fillable
  /\ ticked \in Ticks
  /\ shown = Refreshed(config, ticked)
FormInv ==
  /\ FillInv
  /\ memory.profiles \in Seq(Fillable)
  /\ disk["profiles"].is = "whole" => disk["profiles"].holds \in Seq(Fillable)

(* What the controls start with.                                             *)
LEMMA Defaults ==
  /\ DefaultText \in [Texts -> Written]
  /\ \A c \in Texts : DefaultText[c] # NotGiven
  /\ DefaultText.clipboard_direction = "both"
  /\ {"serial", "orientation", "display_orientation", "record_orientation", "record_path",
      "clipboard_direction"} \subseteq Texts
  <1>1. \A c \in Texts : DefaultText[c] # NotGiven
        <2>1. /\ DefaultText.video_source # NotGiven /\ DefaultText.video_codec # NotGiven
              /\ DefaultText.video_encoder # NotGiven /\ DefaultText.video_bit_rate # NotGiven
              /\ DefaultText.max_size # NotGiven /\ DefaultText.max_fps # NotGiven
              /\ DefaultText.crop # NotGiven /\ DefaultText.display_id # NotGiven
              /\ DefaultText.video_buffer # NotGiven
              /\ DefaultText.display_orientation # NotGiven
              /\ DefaultText.v4l2_sink # NotGiven /\ DefaultText.v4l2_buffer # NotGiven
              /\ DefaultText.audio_codec # NotGiven /\ DefaultText.audio_source # NotGiven
              /\ DefaultText.audio_encoder # NotGiven /\ DefaultText.audio_bit_rate # NotGiven
              /\ DefaultText.audio_buffer # NotGiven
              /\ DefaultText.audio_output_buffer # NotGiven
              /\ DefaultText.record_path # NotGiven /\ DefaultText.record_format # NotGiven
              /\ DefaultText.time_limit # NotGiven
              /\ DefaultText.record_orientation # NotGiven /\ DefaultText.keyboard # NotGiven
              /\ DefaultText.mouse # NotGiven /\ DefaultText.gamepad # NotGiven
              /\ DefaultText.shortcut_mod # NotGiven /\ DefaultText.key_layout # NotGiven
              /\ DefaultText.clipboard_direction # NotGiven
              /\ DefaultText.mouse_bind # NotGiven /\ DefaultText.new_display # NotGiven
              /\ DefaultText.start_app # NotGiven /\ DefaultText.camera_facing # NotGiven
              /\ DefaultText.camera_id # NotGiven /\ DefaultText.camera_size # NotGiven
              /\ DefaultText.camera_ar # NotGiven /\ DefaultText.camera_fps # NotGiven
              /\ DefaultText.window_title # NotGiven /\ DefaultText.orientation # NotGiven
              /\ DefaultText.window_x # NotGiven /\ DefaultText.window_y # NotGiven
              /\ DefaultText.window_width # NotGiven /\ DefaultText.window_height # NotGiven
              /\ DefaultText.serial # NotGiven /\ DefaultText.port # NotGiven
              /\ DefaultText.tcpip_addr # NotGiven /\ DefaultText.tunnel_host # NotGiven
              /\ DefaultText.tunnel_port # NotGiven /\ DefaultText.verbosity # NotGiven
              BY DEF DefaultText, NotGiven
        <2>2. \A c \in Texts : c \in
        {"video_source", "video_codec", "video_encoder", "video_bit_rate",
         "max_size", "max_fps", "crop", "display_id", "video_buffer",
         "display_orientation", "v4l2_sink", "v4l2_buffer", "audio_codec",
         "audio_source", "audio_encoder", "audio_bit_rate", "audio_buffer",
         "audio_output_buffer", "record_path", "record_format", "time_limit",
         "record_orientation", "keyboard", "mouse", "gamepad", "shortcut_mod",
         "key_layout", "clipboard_direction", "mouse_bind", "new_display",
         "start_app", "camera_facing", "camera_id", "camera_size", "camera_ar",
         "camera_fps", "window_title", "orientation", "window_x", "window_y",
         "window_width", "window_height", "serial", "port", "tcpip_addr",
         "tunnel_host", "tunnel_port", "verbosity"}
              BY DEF Texts, DefaultText
        <2> QED BY <2>1, <2>2
  <1>2. DefaultText = [c \in Texts |-> DefaultText[c]] BY DEF Texts, DefaultText
  <1>3. DefaultText.clipboard_direction = "both" BY DEF DefaultText
  <1>4. {"serial", "orientation", "display_orientation", "record_orientation", "record_path",
         "clipboard_direction"} \subseteq Texts
        BY DEF Texts, DefaultText
  <1>5. \A c \in Texts : DefaultText[c] \in Written BY DEF Written
  <1> QED BY <1>1, <1>2, <1>3, <1>4, <1>5

LEMMA DefaultFills == DefaultForm \in Fillable
  <1>1. /\ DefaultForm.text = DefaultText
        /\ DefaultForm \in [text : {DefaultText}, on : SUBSET Switches]
        BY DEF DefaultForm, Switches
  <1>2. DefaultForm \in FormSet BY <1>1, Defaults DEF FormSet
  <1>3. Filled(DefaultForm) BY <1>1, Defaults DEF Filled
  <1> QED BY <1>2, <1>3 DEF Fillable

(* A text is written, a switch is turned.                                    *)
LEMMA TextWritten ==
  ASSUME NEW form \in Fillable, NEW c \in Texts, NEW text \in Written, text # NotGiven,
         c = "clipboard_direction" => text \in {"", "both", "toDevice", "toPc"}
  PROVE  [form EXCEPT !.text[c] = text] \in Fillable
  <1> DEFINE t == [form.text EXCEPT ![c] = text]
             new == [form EXCEPT !.text[c] = text]
  <1>1. form \in FormSet /\ Filled(form) BY DEF Fillable
  <1>2. form.text \in [Texts -> Written] BY <1>1 DEF FormSet
  <1>3. t \in [Texts -> Written] /\ t[c] = text /\ \A x \in Texts \ {c} : t[x] = form.text[x]
        BY <1>2
  <1>4. new = [form EXCEPT !.text = t] OBVIOUS
  <1>5. new.text = t BY <1>1, <1>4 DEF FormSet
  <1> HIDE DEF t
  <1>6. new \in FormSet BY <1>1, <1>3, <1>4 DEF FormSet
  <1> HIDE DEF new
  <1>7. "clipboard_direction" \in Texts BY Defaults
  <1>8. Filled(new) BY <1>1, <1>3, <1>5, <1>7 DEF Filled
  <1> QED BY <1>6, <1>8 DEF Fillable, new

LEMMA SwitchTurned ==
  ASSUME NEW form \in Fillable, NEW s \in Switches
  PROVE  [form EXCEPT !.on = SymDiff(@, {s})] \in Fillable
  <1> DEFINE new == [form EXCEPT !.on = SymDiff(@, {s})]
  <1>1. form \in FormSet /\ Filled(form) BY DEF Fillable
  <1>2. SymDiff(form.on, {s}) \in SUBSET Switches BY <1>1 DEF FormSet, SymDiff
  <1>3. new \in FormSet /\ new.text = form.text BY <1>1, <1>2 DEF FormSet
  <1> HIDE DEF new
  <1>4. Filled(new) BY <1>1, <1>3 DEF Filled
  <1> QED BY <1>3, <1>4 DEF Fillable, new

LEMMA SerialWritten ==
  ASSUME NEW form \in Fillable, NEW serials \in Ticks
  PROVE  WithSerial(form, serials) \in Fillable
  <1>1. FirstTicked(serials) \in Written /\ FirstTicked(serials) # NotGiven
        <2>1. Devices \subseteq Written /\ NotGiven \notin Devices
              BY FormAssumption DEF Written
        <2>2. "" \in Written /\ "" # NotGiven BY DEF NotGiven, Written
        <2>3. FirstTicked(serials) \in Devices \cup {""} BY TicksAre
        <2> QED BY <2>1, <2>2, <2>3
  <1>2. "serial" \in Texts BY Defaults
  <1>3. [form EXCEPT !.text["serial"] = FirstTicked(serials)] \in Fillable
        BY <1>1, <1>2, TextWritten
  <1> QED BY <1>3 DEF WithSerial

LEMMA FillKeeps ==
  ASSUME NEW form \in Fillable, NEW serials \in Ticks, Fill(form, serials)
  PROVE  FillInv'
  BY DEF Fill, FillInv, Refreshed, ToCommandLineFor, ToFlags

(* The cards are forms that were filled in.                                  *)
LEMMA CardsWritten ==
  ASSUME NEW cards \in Seq(Fillable), NEW form \in Fillable, NEW new \in WithCard(cards, form)
  PROVE  new \in Seq(Fillable)
  <1>1. CASE new = Append(cards, form) BY <1>1, AppendProperties
  <1>2. CASE \E i \in DOMAIN cards : new = ReplaceAt(cards, i, form)
        BY <1>2, ExceptSeq, LenProperties DEF ReplaceAt
  <1> QED BY <1>1, <1>2 DEF WithCard

LEMMA CardRemoved ==
  ASSUME NEW cards \in Seq(Fillable), NEW i \in DOMAIN cards
  PROVE  RemoveAt(cards, i) \in Seq(Fillable)
  <1>1. Len(cards) \in Nat /\ DOMAIN cards = 1 .. Len(cards)
        /\ \A j \in 1 .. Len(cards) : cards[j] \in Fillable
        BY LenProperties, ElementOfSeq
  <1>2. i \in Int /\ i - 1 \in Int /\ i + 1 \in Int /\ Len(cards) \in Int /\ 1 \in Int
        /\ (\A j \in 1 .. i - 1 : j \in 1 .. Len(cards))
        /\ (\A j \in i + 1 .. Len(cards) : j \in 1 .. Len(cards))
        BY <1>1
  <1>3. SubSeq(cards, 1, i - 1) \in Seq(Fillable) BY <1>1, <1>2, SubSeqProperties
  <1>4. SubSeq(cards, i + 1, Len(cards)) \in Seq(Fillable) BY <1>1, <1>2, SubSeqProperties
  <1> QED BY <1>3, <1>4, ConcatProperties DEF RemoveAt

LEMMA NoTick == << >> \in Ticks /\ FirstTicked(<< >>) = ""
  <1>1. << >> \in [1 .. 0 -> Devices] OBVIOUS
  <1>2. IsInjective(<< >>) BY DEF IsInjective
  <1> QED BY <1>1, <1>2 DEF Ticks, SeqOf, FirstTicked

(* What the panel starts with.                                               *)
LEMMA FormBegins == FormInit => FormInv
  <1> SUFFICES ASSUME FormInit PROVE FormInv OBVIOUS
  <1>1. FillInv BY DefaultFills, NoTick DEF FormInit, FillInv
  <1>2. memory.profiles = << >> BY DEF FormInit, Nothing
  <1>3. disk["profiles"].is = "none" BY FileKinds DEF FormInit, Untouched, Files
  <1>4. << >> \in Seq(Fillable) BY EmptySeq
  <1> QED BY <1>1, <1>2, <1>3, <1>4 DEF FormInv

(* A file is written with cards that were filled in, or with settings.       *)
LEMMA SaveKeepsForms ==
  ASSUME FilesInv, FormInv, NEW f \in Files, NEW content, Save(f, content),
         f = "profiles" => content \in Seq(Fillable),
         UNCHANGED <<config, ticked, shown>>
  PROVE  FormInv'
  <1>1. /\ memory' = [g \in Files |-> IF g = f THEN content ELSE memory[g]]
        /\ \/ disk' = [g \in Files |-> IF g = f THEN Whole(content) ELSE disk[g]]
           \/ disk' = [g \in Files |-> IF g = f THEN Broken(f) ELSE disk[g]]
           \/ disk' = disk
        BY DEF FilesInv, Save
  <1>2. "profiles" \in Files BY DEF Files
  <1>3. /\ memory["profiles"] \in Seq(Fillable)
        /\ disk["profiles"].is = "whole" => disk["profiles"].holds \in Seq(Fillable)
        BY DEF FormInv
  <1>4. memory'["profiles"] \in Seq(Fillable) BY <1>1, <1>2, <1>3
  <1>5. disk'["profiles"].is = "whole" => disk'["profiles"].holds \in Seq(Fillable)
        BY <1>1, <1>2, <1>3, FileKinds
  <1>6. FillInv' BY DEF FormInv, FillInv, Refreshed
  <1> QED BY <1>4, <1>5, <1>6 DEF FormInv

(* The form is filled while the panel runs, from what there is.              *)
LEMMA FillsForm ==
  ASSUME FormInv, KeepFiles, NEW form \in Fillable, NEW serials \in Ticks, Fill(form, serials)
  PROVE  FormInv'
  <1>1. FillInv' BY FillKeeps
  <1> QED BY <1>1 DEF FormInv, KeepFiles

LEMMA TheFormKeeps ==
  ASSUME FormInv, TheForm
  PROVE  FormInv'
  <1>1. config \in Fillable /\ ticked \in Ticks BY DEF FormInv, FillInv
  <1>2. CASE EditText
        <2>a. PICK c \in DOMAIN Typed : \E text \in Typed[c] \cup {DefaultText[c]} :
                Fill([config EXCEPT !.text[c] = text], ticked) /\ KeepFiles
              BY <1>2 DEF EditText
        <2>1. PICK text \in Typed[c] \cup {DefaultText[c]} :
                Fill([config EXCEPT !.text[c] = text], ticked) /\ KeepFiles
              BY <2>a
        <2>2. c \in Texts BY FormAssumption
        <2>3. text \in Written
              <3>1. Typed[c] \subseteq Written BY Zenon DEF Written
              <3>2. DefaultText[c] \in Written BY <2>2, Defaults
              <3> QED BY <3>1, <3>2
        <2>4. text # NotGiven
              <3>1. NotGiven \notin Typed[c] BY FormAssumption
              <3>2. DefaultText[c] # NotGiven BY <2>2, Defaults
              <3> QED BY <3>1, <3>2
        <2>5. c = "clipboard_direction" => text \in {"", "both", "toDevice", "toPc"}
              BY Defaults, FormAssumption
        <2>6. [config EXCEPT !.text[c] = text] \in Fillable
              BY <1>1, <2>2, <2>3, <2>4, <2>5, TextWritten
        <2> QED BY <1>1, <2>1, <2>6, FillsForm
  <1>3. CASE PickOrientation
        <2>1. PICK degrees \in Quarters :
                /\ Fill([config EXCEPT !.text.orientation = degrees,
                                       !.text.display_orientation = degrees,
                                       !.text.record_orientation = degrees], ticked)
                /\ KeepFiles
              BY <1>3 DEF PickOrientation
        <2>2. degrees \in Written BY Zenon DEF Written
        <2>3. degrees # NotGiven BY DEF Quarters, NotGiven
        <2> DEFINE a == [config EXCEPT !.text["orientation"] = degrees]
                   b == [a EXCEPT !.text["display_orientation"] = degrees]
                   c == [b EXCEPT !.text["record_orientation"] = degrees]
        <2>4. Fill(c, ticked) BY <2>1
        <2>5. a \in Fillable BY <1>1, <2>2, <2>3, Defaults, TextWritten
        <2> HIDE DEF a
        <2>6. b \in Fillable BY <2>2, <2>3, <2>5, Defaults, TextWritten
        <2> HIDE DEF b
        <2>7. c \in Fillable BY <2>2, <2>3, <2>6, Defaults, TextWritten
        <2> HIDE DEF c
        <2> QED BY <1>1, <2>1, <2>4, <2>7, FillsForm
  <1>4. CASE Flip
        <2>1. PICK s \in Switches :
                Fill([config EXCEPT !.on = SymDiff(@, {s})], ticked) /\ KeepFiles
              BY <1>4 DEF Flip
        <2>2. [config EXCEPT !.on = SymDiff(@, {s})] \in Fillable BY <1>1, SwitchTurned
        <2> QED BY <1>1, <2>1, <2>2, FillsForm
  <1>5. CASE ToggleRecording
        <2> DEFINE flipped == [config EXCEPT !.on = SymDiff(@, {"record_enabled"})]
                   named == [flipped EXCEPT !.text["record_path"] = "scrcpy.mp4"]
        <2>1. (Fill(flipped, ticked) \/ Fill(named, ticked)) /\ KeepFiles
              BY <1>5 DEF ToggleRecording
        <2>2. "record_enabled" \in Switches BY DEF Switches
        <2>3. flipped \in Fillable BY <1>1, <2>2, SwitchTurned
        <2> HIDE DEF flipped
        <2>4. "scrcpy.mp4" \in Written BY Zenon DEF Written
        <2>5. "scrcpy.mp4" # NotGiven BY DEF NotGiven
        <2>6. named \in Fillable BY <2>3, <2>4, <2>5, Defaults, TextWritten
        <2> HIDE DEF named
        <2> QED BY <1>1, <2>1, <2>3, <2>6, FillsForm
  <1>6. CASE Tick
        <2>1. PICK serials \in Ticks : Fill(WithSerial(config, serials), serials) /\ KeepFiles
              BY <1>6 DEF Tick, Ticks
        <2>2. WithSerial(config, serials) \in Fillable BY <1>1, SerialWritten
        <2> QED BY <2>1, <2>2, FillsForm
  <1>7. CASE ResetForm
        <2>1. WithSerial(DefaultForm, ticked) \in Fillable BY <1>1, DefaultFills, SerialWritten
        <2> QED BY <1>1, <1>7, <2>1, FillsForm DEF ResetForm
  <1>8. CASE ApplyCard
        <2>1. PICK card \in ToSet(memory.profiles) :
                Fill(WithSerial(card, ticked), ticked) /\ KeepFiles
              BY <1>8 DEF ApplyCard
        <2>2. memory.profiles \in Seq(Fillable) BY DEF FormInv
        <2>3. card \in Fillable BY <2>2, LenProperties, ElementOfSeq DEF ToSet
        <2>4. WithSerial(card, ticked) \in Fillable BY <1>1, <2>3, SerialWritten
        <2> QED BY <1>1, <2>1, <2>4, FillsForm
  <1> QED BY <1>2, <1>3, <1>4, <1>5, <1>6, <1>7, <1>8 DEF TheForm

(* The panel is left, whole or while a file is written.                      *)
LEMMA LeaveKeeps ==
  ASSUME FormInv, Fill(DefaultForm, << >>), memory' = Nothing,
         disk' = disk \/ \E f \in Files : disk' = [disk EXCEPT ![f] = Broken(f)], FilesInv
  PROVE  FormInv'
  <1>1. FillInv' BY DefaultFills, NoTick, FillKeeps
  <1>2. memory'.profiles = << >> BY DEF Nothing
  <1>3. << >> \in Seq(Fillable) BY EmptySeq
  <1>4. disk'["profiles"].is = "whole" => disk'["profiles"].holds \in Seq(Fillable)
        <2>1. disk["profiles"].is = "whole" => disk["profiles"].holds \in Seq(Fillable)
              BY DEF FormInv
        <2>2. "profiles" \in Files BY DEF Files
        <2>3. disk'["profiles"] = disk["profiles"] \/ disk'["profiles"].is = "broken"
              <3>1. disk = [g \in Files |-> disk[g]] BY DEF FilesInv
              <3>2. CASE disk' = disk BY <3>2
              <3>3. ASSUME NEW f \in Files, disk' = [disk EXCEPT ![f] = Broken(f)]
                    PROVE  disk'["profiles"] = disk["profiles"] \/ disk'["profiles"] = Broken(f)
                    BY <2>2, <3>1, <3>3
              <3> QED BY <3>2, <3>3, FileKinds
        <2>4. "broken" # "whole" OBVIOUS
        <2> QED BY <2>1, <2>3, <2>4
  <1> QED BY <1>1, <1>2, <1>3, <1>4 DEF FormInv

LEMMA FormKeeps == FilesInv /\ FormInv /\ [FormNext]_formVars => FormInv'
  <1> SUFFICES ASSUME FilesInv, FormInv, [FormNext]_formVars PROVE FormInv' OBVIOUS
  <1>0. /\ memory["profiles"] \in Seq(Fillable) /\ memory.profiles \in Seq(Fillable)
        /\ disk["profiles"].is = "whole" => disk["profiles"].holds \in Seq(Fillable)
        /\ config \in Fillable
        BY DEF FormInv, FillInv
  <1>1. CASE UNCHANGED formVars BY <1>1 DEF formVars, FormInv, FillInv, Refreshed
  <1>2. CASE TheForm BY <1>2, TheFormKeeps
  <1>3. CASE SaveCard
        <2>1. PICK cards \in WithCard(memory.profiles, config) :
                Save("profiles", cards) /\ UNCHANGED <<config, ticked, shown>>
              BY <1>3 DEF SaveCard
        <2>2. cards \in Seq(Fillable) BY <1>0, CardsWritten
        <2> QED BY <2>1, <2>2, SaveKeepsForms DEF Files
  <1>4. CASE DeleteCard
        <2>1. PICK i \in DOMAIN memory.profiles :
                /\ Save("profiles", RemoveAt(memory.profiles, i))
                /\ UNCHANGED <<config, ticked, shown>>
              BY <1>4 DEF DeleteCard
        <2>2. RemoveAt(memory.profiles, i) \in Seq(Fillable) BY <1>0, CardRemoved
        <2> QED BY <2>1, <2>2, SaveKeepsForms DEF Files
  <1>5. CASE ChangeSettings
        <2>1. PICK folder \in Folders :
                Save("settings", folder) /\ UNCHANGED <<config, ticked, shown>>
              BY <1>5 DEF ChangeSettings
        <2>2. "settings" \in Files /\ "settings" # "profiles" BY DEF Files
        <2> QED BY <2>1, <2>2, SaveKeepsForms
  <1>6. CASE Quit BY <1>6, LeaveKeeps DEF Quit
  <1>7. CASE Killed BY <1>7, LeaveKeeps DEF Killed
  <1>8. CASE EditedByHand
        <2>1. PICK f \in Files : \E text \in {Broken(f), NoText(f), NoFile(f)} :
                disk' = [disk EXCEPT ![f] = text]
              BY <1>8 DEF EditedByHand
        <2>2. \A text \in {Broken(f), NoText(f), NoFile(f)} : text.is # "whole" BY FileKinds
        <2>3. "profiles" \in Files BY DEF Files
        <2>4. disk'["profiles"] = disk["profiles"] \/ disk'["profiles"].is # "whole"
              BY <2>1, <2>2, <2>3 DEF FilesInv
        <2>5. FillInv' /\ memory' = memory BY <1>8 DEF EditedByHand, FormInv, FillInv, Refreshed
        <2> QED BY <1>0, <2>4, <2>5 DEF FormInv
  <1>9. CASE Run
        <2>1. /\ memory' = [f \in Files |-> Read(f)]
              /\ \E stuck : disk' = [f \in Files |-> IF disk[f].is = "broken" /\ f \notin stuck
                                                     THEN NoFile(f) ELSE disk[f]]
              /\ UNCHANGED <<config, ticked, shown>>
              BY <1>9 DEF Run, Load, Aside
        <2>2. "profiles" \in Files BY DEF Files
        <2>3. disk'["profiles"] = disk["profiles"] \/ disk'["profiles"].is # "whole"
              BY <2>1, <2>2, FileKinds
        <2>4. memory'["profiles"] \in Seq(Fillable)
              <3>1. Nothing["profiles"] = << >> BY DEF Nothing
              <3> QED BY <1>0, <2>1, <2>2, <3>1, EmptySeq DEF Read
        <2>5. FillInv' BY <2>1 DEF FormInv, FillInv, Refreshed
        <2> QED BY <1>0, <2>3, <2>4, <2>5 DEF FormInv
  <1> QED BY <1>1, <1>2, <1>3, <1>4, <1>5, <1>6, <1>7, <1>8, <1>9 DEF FormNext, TheFiles

(* Whatever the user types, ticks, saves, deletes and applies, and however    *)
(* the panel ends and starts again: the form, and every card in the memory   *)
(* or in a whole file, holds only what a control may hold, and the bar shows *)
(* the form as it is.                                                        *)
THEOREM FormInvariance == FormSpec => []FormInv
  BY FilesInvariance, FormBegins, FormKeeps, PTL DEF FormSpec

(* For every form, devices ticked and folder of recordings: if the form does *)
(* not contradict itself, each client the panel starts, one for each device  *)
(* ticked, parses its line and is not refused; a client that runs does what  *)
(* the form says, itself and by the arguments it gives the server; and the   *)
(* bar shows as many lines, which do the same, and which scrcpy itself would *)
(* take when it is scrcpy they name.                                         *)
THEOREM TheLineRuns == FormSpec => []TheLineIsWhatRuns
  <1>1. FormInv => TheLineIsWhatRuns BY LineSound DEF FormInv, FillInv
  <1> QED BY <1>1, FormInvariance, PTL
================================================================================
