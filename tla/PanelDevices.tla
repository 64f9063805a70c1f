---------------------------- MODULE PanelDevices ----------------------------
(***************************************************************************)
(* The devices, the ticks and the profiles of the control panel            *)
(* (panel/devices.rs, panel/wiring.rs, autostart in panel/mod.rs).  A scan *)
(* lists the devices on a thread of its own and its result is applied      *)
(* later, on the event loop; several may be on their way at once and they  *)
(* come back in any order.  Everything else is a callback of the window.   *)
(*                                                                         *)
(* Which device a session goes to is written in two places: the ticked     *)
(* rows, and the serial of the form, which the user may type in, every     *)
(* profile carries, and which every ticking handler rewrites.              *)
(*                                                                         *)
(* The session itself is module PanelSession; here it runs or it does not. *)
(* A profile is its identity, the serial it carries, and the rest of the   *)
(* form, which is told apart only by the profile it was read from.         *)
(***************************************************************************)
EXTENDS Filtering, SequencesExt

CONSTANTS
  Serials,      \* the devices
  None,         \* no serial
  Other,        \* a serial that none of the rows has
  Scans,        \* names of the scanning threads: bound on the scans at once
  Profiles      \* identities of the profiles: one more than there may be cards

ASSUME PanelDevicesAssumption ==
  /\ None \notin Serials /\ Other \notin Serials /\ None # Other
  /\ None \notin Profiles

VARIABLES
  bus,          \* what adb has: the usable devices
  scan,         \* each thread: idle, "asked", or the list it came back with
  rows,         \* the rows of the table
  selected,     \* Panel::selected, in the order they were ticked
  serial,       \* Cfg.serial
  typed,        \* history: the user typed it after anything else wrote it
  autostart,    \* the setting
  autostarted,  \* Panel::autostarted
  profiles,     \* Panel::profiles
  editing,      \* Panel::editing_profile, an index, or 0
  filled,       \* history: the profile the form was last filled from, or None
  target        \* the serials the running session was started for: Panel::is_running
                \* is target # {}

deviceVars == <<bus, scan, rows, selected, serial, typed, autostart, autostarted, profiles,
          editing, filled, target>>

NoScan == [is |-> "idle", listed |-> FALSE, found |-> << >>]
Asked == [is |-> "asked", listed |-> FALSE, found |-> << >>]
Back(listed, found) == [is |-> "back", listed |-> listed, found |-> found]

First(s) == IF s = << >> THEN None ELSE Head(s)

DevicesInit ==
  /\ bus = << >>
  /\ scan = [t \in Scans |-> NoScan]
  /\ rows = {}
  /\ selected = << >>
  /\ serial = None
  /\ typed = FALSE
  /\ autostart \in BOOLEAN
  /\ autostarted = None
  /\ profiles = << >>
  /\ editing = 0
  /\ filled = None
  /\ target = {}

-----------------------------------------------------------------------------
(* apply_selection: the form's serial is the first ticked device, or none.   *)
ApplySelection(ticked) ==
  /\ selected' = ticked
  /\ serial' = First(ticked)
  /\ typed' = FALSE

(* restore_the_ticked_serial, after something has rewritten the form.        *)
RestoreTheTickedSerial_Not(carried) == serial' = carried /\ typed' = FALSE
RestoreTheTickedSerial(carried) == serial' = First(selected) /\ typed' = FALSE

(* start_session: several ticked devices get a client each, otherwise the    *)
(* client goes where the form says; refused while one runs.                  *)
Target(ticked, inForm) == IF Len(ticked) > 1 THEN ToSet(ticked) ELSE {inForm}

Running == target # {}
Start(ticked, inForm) ==
  target' = IF Running THEN target ELSE Target(ticked, inForm)

-----------------------------------------------------------------------------
(* A scan: asked for by a button, at the start, and after a device has been  *)
(* reached over the network; the list is what adb has at one moment.         *)
SpawnScan == \E t \in Scans :
  /\ scan[t] = NoScan
  /\ scan' = [scan EXCEPT ![t] = Asked]
  /\ UNCHANGED <<bus, rows, selected, serial, typed, autostart, autostarted, profiles,
                 editing, filled, target>>

ScanAnswers == \E t \in Scans, listed \in BOOLEAN :
  /\ scan[t] = Asked
  /\ scan' = [scan EXCEPT ![t] = Back(listed, IF listed THEN bus ELSE << >>)]
  /\ UNCHANGED <<bus, rows, selected, serial, typed, autostart, autostarted, profiles,
                 editing, filled, target>>

(* The ticks of devices the list does not have go, if there is a list.       *)
Pruned_Always(ticked, result) == Filtered(ticked, ToSet(result.found))
Pruned(ticked, result) ==
  IF result.listed THEN Filtered(ticked, ToSet(result.found)) ELSE ticked

(* autostart_if_wanted, with the first usable device of the scan.            *)
NothingUsable(ready) == ready = None
Fires(ready) == autostart /\ autostarted # ready /\ ~Running

EndTheEdit_Not == UNCHANGED editing
EndTheEdit == editing' = 0

AutostartIfWanted(ready, ticked) ==
  \/ /\ NothingUsable(ready)
     /\ autostarted' = None
     /\ ApplySelection(ticked)
     /\ UNCHANGED <<editing, filled, target>>
  \/ /\ ~NothingUsable(ready)
     /\ ~Fires(ready)
     /\ ApplySelection(ticked)
     /\ UNCHANGED <<autostarted, editing, filled, target>>
  \/ /\ ~NothingUsable(ready)
     /\ Fires(ready)
     /\ autostarted' = ready
     /\ IF profiles = << >>
        THEN /\ ApplySelection(ticked)
             /\ UNCHANGED <<editing, filled, target>>
        ELSE /\ filled' = Head(profiles)
             /\ EndTheEdit
             /\ ApplySelection(<<ready>>)
             /\ Start(<<ready>>, ready)

ScanIsApplied == \E t \in Scans :
  LET result == scan[t] IN
  /\ result.is = "back"
  /\ scan' = [scan EXCEPT ![t] = NoScan]
  /\ rows' = ToSet(result.found)
  /\ AutostartIfWanted(First(result.found), Pruned(selected, result))
  /\ UNCHANGED <<bus, autostart, profiles>>

-----------------------------------------------------------------------------
(* The devices tab.                                                          *)
SelectDevice == \E d \in rows :
  /\ ApplySelection(IF d \in ToSet(selected) THEN Filtered(selected, Serials \ {d})
                    ELSE Append(selected, d))
  /\ UNCHANGED <<bus, scan, rows, autostart, autostarted, profiles, editing, filled,
                 target>>

MirrorDevice == \E d \in rows :
  /\ ApplySelection(<<d>>)
  /\ Start(<<d>>, d)
  /\ UNCHANGED <<bus, scan, rows, autostart, autostarted, profiles, editing, filled>>

(* The form.                                                                 *)
TypeSerial ==
  /\ serial' = Other
  /\ typed' = TRUE
  /\ UNCHANGED <<bus, scan, rows, selected, autostart, autostarted, profiles, editing,
                 filled, target>>

StartButton ==
  /\ Start(selected, serial)
  /\ UNCHANGED <<bus, scan, rows, selected, serial, typed, autostart, autostarted,
                 profiles, editing, filled>>

ResetDefaults ==
  /\ RestoreTheTickedSerial(None)
  /\ EndTheEdit
  /\ filled' = None
  /\ UNCHANGED <<bus, scan, rows, selected, autostart, autostarted, profiles,
                 target>>

-----------------------------------------------------------------------------
(* The profiles.  Whatever serial a profile carries it is not the device of  *)
(* today.                                                                    *)
Unused == Profiles \ (ToSet(profiles) \cup {filled})   \* bounds the cards
IsEditing == editing # 0 /\ editing <= Len(profiles)

(* Saving writes back while editing, which changes nothing here but the rest *)
(* of the form, and makes a new card otherwise.                              *)
SaveProfile ==
  /\ \/ IsEditing /\ UNCHANGED <<profiles, editing>>
     \/ /\ ~IsEditing
        /\ editing' = 0
        /\ \E new \in Unused : profiles' = Append(profiles, new)
  /\ UNCHANGED <<bus, scan, rows, selected, serial, typed, autostart, autostarted, filled,
                 target>>

ApplyProfile == \E i \in 1..Len(profiles) :
  /\ RestoreTheTickedSerial(Other)
  /\ EndTheEdit
  /\ filled' = profiles[i]
  /\ UNCHANGED <<bus, scan, rows, selected, autostart, autostarted, profiles,
                 target>>

EditProfile == \E i \in 1..Len(profiles) :
  /\ RestoreTheTickedSerial(Other)
  /\ editing' = i
  /\ filled' = profiles[i]
  /\ UNCHANGED <<bus, scan, rows, selected, autostart, autostarted, profiles,
                 target>>

DeleteProfile == \E i \in 1..Len(profiles) :
  /\ EndTheEdit
  /\ profiles' = RemoveAt(profiles, i)
  /\ UNCHANGED <<bus, scan, rows, selected, serial, typed, autostart, autostarted, filled,
                 target>>

-----------------------------------------------------------------------------
(* The desk: devices come and go, and sessions end.                          *)
BusChanges ==
  /\ \/ \E d \in Serials \ ToSet(bus) : bus' = Append(bus, d)
     \/ \E d \in ToSet(bus) : bus' = Filtered(bus, Serials \ {d})
  /\ UNCHANGED <<scan, rows, selected, serial, typed, autostart, autostarted, profiles,
                 editing, filled, target>>

SessionEnds ==
  /\ Running
  /\ target' = {}
  /\ UNCHANGED <<bus, scan, rows, selected, serial, typed, autostart, autostarted,
                 profiles, editing, filled>>

Window == SelectDevice \/ MirrorDevice \/ TypeSerial \/ StartButton \/ ResetDefaults
Cards == SaveProfile \/ ApplyProfile \/ EditProfile \/ DeleteProfile

DevicesNext == SpawnScan \/ ScanAnswers \/ ScanIsApplied \/ Window \/ Cards \/ BusChanges \/ SessionEnds

DevicesSpec == DevicesInit /\ [][DevicesNext]_deviceVars

-----------------------------------------------------------------------------
(* A session goes to the ticked devices, or to the one the user typed since: *)
(* no profile read into the form, no reset and no scan moves it to another   *)
(* phone (wiring.rs, restore_the_ticked_serial; devices.rs, apply_selection; *)
(* mod.rs, autostart_if_wanted).                                             *)
SessionGoesToTheTick ==
  [][(target = {} /\ target' # {}) =>
       \/ typed
       \/ target' = (IF selected' = << >> THEN {None} ELSE ToSet(selected'))]_deviceVars

(* A save writes back to the profile the form was filled from and to no      *)
(* other, whatever was deleted, applied or started meanwhile (wiring.rs,     *)
(* on_save_profile; mod.rs, autostart_if_wanted).                            *)
SaveWritesItsOwn == IsEditing => profiles[editing] = filled

(* A tick goes away by the hand of the user, with a device that was not on   *)
(* the bus when a scan looked, or to make room for the one device of a       *)
(* mirror button or of autostart; a scan that failed takes none              *)
(* (devices.rs, the comment at the pruning).                                 *)
TicksAreKept ==
  [][\A t \in Scans : (scan[t].is = "back" /\ scan'[t] = NoScan /\ target' = target) =>
       \A d \in ToSet(selected) \ ToSet(selected') :
         scan[t].listed /\ d \notin ToSet(scan[t].found)]_deviceVars
=============================================================================
