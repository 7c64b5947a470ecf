------------------------------ MODULE HeadsetJack ------------------------------
(***************************************************************************)
(* The headset jack of the Apple CS8409 machines: the cs42l83 codec chip   *)
(* latches interrupt causes and pulls a GPIO line low while an unmasked    *)
(* one is latched; the bridge turns the falling edge into an unsolicited   *)
(* response; the bus worker reads the latched causes, picks one of them    *)
(* and walks the chip through plug-in, type detection, button detection    *)
(* or disconnection by i2c.  A plug event alone sleeps 1.8 s, so the user  *)
(* may move the plug between any two of the worker's accesses to the chip. *)
(*                                                                         *)
(* A worker step is what it does between two points where the chip can     *)
(* have changed: a read of the latched causes, of the tip sense, or a      *)
(* write of an interrupt mask.  The state is that after a boot with an     *)
(* empty jack.  What playback and capture do to the chip is left out.      *)
(*                                                                         *)
(* Definitions whose name starts with Bug are mutations of the definition  *)
(* that follows them; nothing but the mutation runs uses them.             *)
(***************************************************************************)
EXTENDS Integers, FiniteSets

CONSTANTS LoopMax,   \* loopmax of the status loop: 11 in the driver
          MaxMoves,  \* bound: how often the user moves the plug
          MaxPress   \* bound: how often the user presses a headset button

ASSUME LoopMaxAssumption == LoopMax \in Nat
ASSUME MaxMovesAssumption == MaxMoves \in Nat
ASSUME MaxPressAssumption == MaxPress \in Nat

Headset == {"none", "plain", "mic"}   \* "mic": with a microphone and buttons

\* The causes by the status register that latches them: 0x1b7b, 0x1b7c, 0x1308.
Det1  == {"plug", "unplug", "press"}
Det2  == {"button_detect", "toggle"}
Cdc   == {"hsdet"}
Cause == Det1 \cup Det2 \cup Cdc

VARIABLES
  headset,       \* what is in the jack; the tip sense tells "none" from the rest
  status,        \* the latched causes
  masked,        \* the causes whose mask bit is set
  hstype,        \* the result register of the last type detection
  detecting,     \* a headset type detection is under way
  probing,       \* the button comparator is armed
  ur,            \* an unsolicited response is on the bus
  pc,            \* where the worker is
  last,          \* retint: the causes the last status read returned
  loopcnt,       \* loopcnt of the status loop
  jack_present,  \* spec->jack_present
  have_mike,     \* spec->have_mike
  mike_input,    \* switch_input_src has selected the headset microphone
  jack_dirty,    \* the jack table entry must be sensed again
  reported,      \* what user space was told
  moves, presses,
  hasty,         \* history: the plug was moved before the last event was dealt with
  missed         \* history: a cause came in one of the driver's windows

chip == <<status, masked, ur>>
unit == <<hstype, detecting, probing>>
loop == <<last, loopcnt>>
spec == <<jack_present, have_mike, mike_input>>
user == <<jack_dirty, reported>>
env  == <<headset, moves, presses, hasty, missed>>
vars == <<chip, unit, pc, loop, spec, user, env>>

LineLow(st, m) == st \ m # {}

Init ==
  /\ headset = "none"
  /\ status = {}
  /\ masked = Cause \ {"plug", "press"}
  /\ hstype = "plain"
  /\ detecting = FALSE /\ probing = FALSE
  /\ ur = FALSE
  /\ pc = "idle"
  /\ last = {} /\ loopcnt = 0
  /\ jack_present = 0 /\ have_mike = FALSE /\ mike_input = FALSE
  /\ jack_dirty = FALSE /\ reported = FALSE
  /\ moves = 0 /\ presses = 0
  /\ hasty = FALSE /\ missed = FALSE

Goto(from, to) == pc = from /\ pc' = to

\* New latched causes and masks; a falling edge of the line sends a response.
Chip(st, m) ==
  /\ status' = st
  /\ masked' = m
  /\ ur' = (ur \/ (~LineLow(status, masked) /\ LineLow(st, m)))

Sensed == headset # "none"

-----------------------------------------------------------------------------
(* The worker reads the causes: cs_8409_external_device_unsolicited_response. *)

UnsolDeliver ==
  /\ ur
  /\ Goto("idle", "gpio")
  /\ ur' = FALSE
  /\ UNCHANGED <<status, masked, unit, loop, spec, user, env>>

\* Mutation: the check has the polarity of the line wrong.
BugGpioCheck ==
  /\ Goto("gpio", IF LineLow(status, masked) THEN "idle" ELSE "read")
  /\ loopcnt' = 0
  /\ UNCHANGED <<chip, unit, last, spec, user, env>>

\* Both GPIO checks before the loop; only the worker makes the line go up.
GpioCheck ==
  /\ Goto("gpio", IF LineLow(status, masked) THEN "read" ELSE "idle")
  /\ loopcnt' = 0
  /\ UNCHANGED <<chip, unit, last, spec, user, env>>

\* The twelve status registers are read, which clears them.
ReadStatus ==
  /\ Goto("read", "check")
  /\ last' = status
  /\ Chip({}, masked)
  /\ UNCHANGED <<unit, loopcnt, spec, user, env>>

\* Mutation: the limit is tested with > instead of >=.
BugLoopCheck ==
  LET again == LineLow(status, masked) /\ loopcnt <= LoopMax IN
    /\ Goto("check", IF again THEN "read" ELSE "action")
    /\ loopcnt' = IF loopcnt <= LoopMax THEN loopcnt + 1 ELSE loopcnt
    /\ UNCHANGED <<chip, unit, last, spec, user, env>>

\* The loop goes on while the line is low and keeps the last causes only.
LoopCheck ==
  LET again == LineLow(status, masked) /\ loopcnt < LoopMax IN
    /\ Goto("check", IF again THEN "read" ELSE "action")
    /\ loopcnt' = IF loopcnt < LoopMax THEN loopcnt + 1 ELSE loopcnt
    /\ UNCHANGED <<chip, unit, last, spec, user, env>>

\* cs_8409_interrupt_action handles one of the unmasked causes.
ActionOf(causes) ==
  IF "plug" \in causes THEN "plug"
  ELSE IF "unplug" \in causes THEN "unplug"
  ELSE IF "hsdet" \in causes THEN "type"
  ELSE IF "button_detect" \in causes THEN "buttons"
  ELSE "idle"

InterruptAction ==
  /\ Goto("action", ActionOf(last \ masked))
  /\ UNCHANGED <<chip, unit, loop, spec, user, env>>

-----------------------------------------------------------------------------
(* Plug in: cs_8409_headset_plugin_event.                                  *)

\* cs_8409_plugin_handle_detect, then the sleep.
PluginHandleDetect ==
  /\ Goto("plug", "sleep")
  /\ jack_present' = 2
  /\ Chip(status \ Det2, masked \cup Det2)
  /\ UNCHANGED <<unit, loop, have_mike, mike_input, user, env>>

\* Mutation: the tip is not sensed again after the sleep.
BugPluginCompleteDetect ==
  /\ Goto("sleep", "auto_int")
  /\ jack_present' = 1
  /\ UNCHANGED <<chip, unit, loop, have_mike, mike_input, user, env>>

\* cs_8409_plugin_complete_detect senses the tip.
PluginCompleteDetect ==
  /\ Goto("sleep", IF Sensed THEN "auto_int" ELSE "idle")
  /\ jack_present' = IF Sensed THEN 1 ELSE 0
  /\ UNCHANGED <<chip, unit, loop, have_mike, mike_input, user, env>>

\* cs42l83_enable_hs_auto_int_on.
EnableAutoInt ==
  /\ Goto("auto_int", "unplug_read")
  /\ Chip(status, masked \ {"hsdet"})
  /\ UNCHANGED <<unit, loop, spec, user, env>>

\* cs42l83_unplug_interrupt_setup reads, and so clears, the detect causes ...
UnplugSetupRead ==
  /\ Goto("unplug_read", "unplug_mask")
  /\ Chip(status \ Det1, masked)
  /\ UNCHANGED <<unit, loop, spec, user, env>>

\* Mutation: the unplug interrupt is not set up (the argument unplug is 0).
BugUnplugSetupMask ==
  /\ Goto("unplug_mask", "detect_on")
  /\ UNCHANGED <<chip, unit, loop, spec, user, env>>

\* ... before it unmasks unplug and masks plug.
UnplugSetupMask ==
  /\ Goto("unplug_mask", "detect_on")
  /\ Chip(status, (masked \ {"unplug"}) \cup {"plug"})
  /\ UNCHANGED <<unit, loop, spec, user, env>>

\* cs42l83_headset_detect_on starts the type detection.
HeadsetDetectOn ==
  /\ Goto("detect_on", "idle")
  /\ detecting' = TRUE
  /\ UNCHANGED <<chip, hstype, probing, loop, spec, user, env>>

-----------------------------------------------------------------------------
(* Type and buttons.                                                       *)

\* cs_8409_headset_type_detect_event and the marking of the jack; a headset
\* with a microphone goes on when its buttons are detected.  The flag is not
\* cleared for one without.
TypeDetectEvent ==
  LET mike == have_mike \/ hstype = "mic" IN
    /\ Goto("type", IF mike THEN "idle" ELSE "continued")
    /\ have_mike' = mike
    /\ detecting' = FALSE
    /\ probing' = mike
    /\ Chip(IF mike THEN status \ Det2 ELSE status,
            IF mike THEN (masked \cup {"hsdet"}) \ {"button_detect"}
                    ELSE masked \cup {"hsdet"})
    /\ jack_dirty' = (jack_dirty \/ ~mike)
    /\ UNCHANGED <<hstype, loop, jack_present, mike_input, reported, env>>

\* cs_8409_headset_button_detect_event and the marking of the jack.
ButtonDetectEvent ==
  /\ Goto("buttons", "continued")
  /\ probing' = FALSE
  /\ Chip(status \ Det2, masked \cup Det2)
  /\ jack_dirty' = TRUE
  /\ UNCHANGED <<hstype, detecting, loop, spec, reported, env>>

\* cs_8409_plugin_event_continued: nothing if the headset has gone; the
\* microphone input is switched to and the buttons are enabled otherwise.
PluginEventContinued ==
  /\ Goto("continued", "report")
  /\ IF Sensed /\ have_mike
       THEN /\ mike_input' = ~mike_input
            /\ Chip(status \ Det2, (masked \cup Det2) \ {"toggle"})
       ELSE UNCHANGED <<mike_input, chip>>
  /\ UNCHANGED <<unit, loop, jack_present, have_mike, user, env>>

\* snd_hda_jack_report_sync senses a dirty jack through cs_8409_apple_exec_verb.
Report == /\ reported' = IF jack_dirty THEN jack_present' # 0 ELSE reported
          /\ jack_dirty' = FALSE

\* Mutation: the jack is not reported after the headset is set up.
BugReportSync ==
  /\ Goto("report", "idle")
  /\ UNCHANGED <<chip, unit, loop, spec, user, env>>

ReportSync ==
  /\ Goto("report", "idle")
  /\ UNCHANGED jack_present
  /\ Report
  /\ UNCHANGED <<chip, unit, loop, have_mike, mike_input, env>>

-----------------------------------------------------------------------------
(* Unplug: cs_8409_headset_unplug_event.                                   *)

\* A headset that is still sensed is not handled.
UnplugEvent ==
  /\ Goto("unplug", IF Sensed THEN "idle" ELSE "plug_read")
  /\ jack_dirty' = TRUE
  /\ UNCHANGED <<chip, unit, loop, spec, reported, env>>

\* cs42l83_plugin_interrupt_setup reads, and so clears, the detect causes ...
PluginSetupRead ==
  /\ Goto("plug_read", "plug_mask")
  /\ Chip(status \ Det1, masked)
  /\ UNCHANGED <<unit, loop, spec, user, env>>

\* ... and unmasks plug; then the detection and button causes are masked.
PluginSetupMask ==
  /\ Goto("plug_mask", "disconnect")
  /\ Chip(status \ Det2, (masked \ {"plug"}) \cup {"unplug"} \cup Det2 \cup Cdc)
  /\ probing' = FALSE
  /\ UNCHANGED <<hstype, detecting, loop, spec, user, env>>

\* cs_8409_unplug_handle_disconnect reports the unplug unless it senses a
\* headset again.
UnplugHandleDisconnect ==
  \/ /\ Sensed
     /\ Goto("disconnect", "reset")
     /\ UNCHANGED <<chip, unit, loop, spec, user, env>>
  \/ /\ ~Sensed
     /\ Goto("disconnect", "resetup")
     /\ jack_present' = 0
     /\ Report
     /\ UNCHANGED <<chip, unit, loop, have_mike, mike_input, env>>

\* Mutation: the inputs are not given back.
BugUnplugResetup ==
  /\ Goto("resetup", "reset")
  /\ detecting' = (detecting /\ Sensed)
  /\ UNCHANGED <<chip, hstype, probing, loop, spec, user, env>>

\* At least 100 ms later it gives the inputs back and stops the detection,
\* again unless it senses a headset.
UnplugResetup ==
  /\ Goto("resetup", "reset")
  /\ mike_input' = IF ~Sensed /\ have_mike THEN ~mike_input ELSE mike_input
  /\ detecting' = (detecting /\ Sensed)
  /\ UNCHANGED <<chip, hstype, probing, loop, jack_present, have_mike, user, env>>

\* Mutation: the headset's properties are not forgotten.
BugUnplugReset ==
  /\ Goto("reset", "idle")
  /\ jack_present' = 0
  /\ UNCHANGED <<chip, unit, loop, have_mike, mike_input, user, env>>

\* All headset variables are reset whatever was sensed.
UnplugReset ==
  /\ Goto("reset", "idle")
  /\ jack_present' = 0
  /\ have_mike' = FALSE
  /\ UNCHANGED <<chip, unit, loop, mike_input, user, env>>

WorkerStep ==
  \/ UnsolDeliver \/ GpioCheck \/ ReadStatus \/ LoopCheck \/ InterruptAction
  \/ PluginHandleDetect \/ PluginCompleteDetect \/ EnableAutoInt
  \/ UnplugSetupRead \/ UnplugSetupMask \/ HeadsetDetectOn
  \/ TypeDetectEvent \/ ButtonDetectEvent \/ PluginEventContinued \/ ReportSync
  \/ UnplugEvent \/ PluginSetupRead \/ PluginSetupMask
  \/ UnplugHandleDisconnect \/ UnplugResetup \/ UnplugReset

-----------------------------------------------------------------------------
(* The user and the chip.                                                  *)

\* Between two events, as far as the driver and the chip are concerned.
AtRest == pc = "idle" /\ ~ur /\ ~detecting /\ ~(probing /\ headset = "mic")

\* The worker between two accesses that the code takes for one: reading the
\* causes and looking at the line again, or sensing the tip and clearing the
\* detect causes.
InWindow == pc \in {"check", "auto_int", "unplug_read", "plug_read"}

\* A cause is latched.
Raise(cause) ==
  /\ Chip(status \cup {cause}, masked)
  /\ missed' = (missed \/ InWindow)

MovePlug(h) ==
  /\ moves < MaxMoves
  /\ (headset = "none") # (h = "none")
  /\ headset' = h
  /\ moves' = moves + 1
  /\ hasty' = (hasty \/ ~AtRest)
  /\ Raise(IF h = "none" THEN "unplug" ELSE "plug")
  /\ UNCHANGED <<unit, pc, loop, spec, user, presses>>

PressButton(cause) ==
  /\ presses < MaxPress
  /\ headset = "mic"
  /\ presses' = presses + 1
  /\ Raise(cause)
  /\ UNCHANGED <<unit, pc, loop, spec, user, headset, moves, hasty>>

\* The chip ends the type detection.
AutoDone ==
  /\ detecting
  /\ detecting' = FALSE
  /\ hstype' = IF headset = "mic" THEN "mic" ELSE "plain"
  /\ Raise("hsdet")
  /\ UNCHANGED <<probing, pc, loop, spec, user, headset, moves, presses, hasty>>

\* The chip finds the buttons of a headset that has them.
ButtonsFound ==
  /\ probing /\ headset = "mic"
  /\ probing' = FALSE
  /\ Raise("button_detect")
  /\ UNCHANGED <<hstype, detecting, pc, loop, spec, user, headset, moves, presses, hasty>>

UserStep == \/ \E h \in Headset : MovePlug(h)
            \/ \E cause \in {"press", "toggle"} : PressButton(cause)

ChipStep == AutoDone \/ ButtonsFound

Next == WorkerStep \/ UserStep \/ ChipStep

Spec == Init /\ [][Next]_vars

Fairness == WF_vars(WorkerStep) /\ WF_vars(AutoDone) /\ WF_vars(ButtonsFound)

FairSpec == Spec /\ Fairness

-----------------------------------------------------------------------------
(* Properties.                                                             *)

\* The type of every variable.
TypeOK ==
  /\ headset \in Headset
  /\ status \in SUBSET Cause
  /\ masked \in SUBSET Cause
  /\ hstype \in {"plain", "mic"}
  /\ detecting \in BOOLEAN /\ probing \in BOOLEAN /\ ur \in BOOLEAN
  /\ have_mike \in BOOLEAN /\ mike_input \in BOOLEAN
  /\ jack_dirty \in BOOLEAN /\ reported \in BOOLEAN
  /\ pc \in {"idle", "gpio", "read", "check", "action", "plug", "sleep", "auto_int",
             "unplug_read", "unplug_mask", "detect_on", "type", "buttons", "continued",
             "report", "unplug", "plug_read", "plug_mask", "disconnect", "resetup",
             "reset"}
  /\ last \in SUBSET Cause
  /\ loopcnt \in 0 .. LoopMax
  /\ jack_present \in 0 .. 2
  /\ moves \in 0 .. MaxMoves
  /\ presses \in 0 .. MaxPress
  /\ hasty \in BOOLEAN /\ missed \in BOOLEAN

\* A low line never goes unattended, although a response is sent on its edges
\* only and the status loop may give up: a response is on the bus or the
\* worker is about to read the causes.
LineAttended == LineLow(status, masked) => ur \/ pc \in {"gpio", "read"}

\* Between two responses the driver listens for the event that would change
\* its mind: for an unplug when it takes the jack for used, else for a plug.
ListensForChange ==
  pc = "idle" => IF jack_present = 1 THEN "unplug" \notin masked
                                     ELSE "plug" \notin masked

\* Between two responses an empty jack has no microphone and no interrupt of
\* a headset enabled, whichever way the headset was lost.
EmptyJackForgotten ==
  pc = "idle" /\ jack_present # 1 => ~have_mike /\ Det2 \cup Cdc \subseteq masked

\* A plug at rest is found out: the driver ends up with the jack present if
\* and only if a headset is in it, if no cause comes in one of its windows.
JackSettles ==
  \A h \in Headset :
    []~missed /\ <>[](headset = h) => <>[](jack_present = IF h = "none" THEN 0 ELSE 1)

\* A headset that plugin_event_continued finds unplugged is "handled by the
\* unplug interrupt", as the comment there says.
UnplugHandled == pc = "continued" /\ ~Sensed ~> jack_present # 1 \/ Sensed

\* "Switch the inputs on headset plugin/unplug events", says the comment at
\* switch_input_src: between two responses the input is not the headset's
\* when the driver knows the jack to be empty.
InputReturned == pc = "idle" /\ jack_present = 0 => ~mike_input

\* A user who waits between two moves, as NOTES.md advises, ends up with user
\* space knowing whether a headset is plugged in.
UserSettles ==
  \A h \in Headset :
    []~(missed \/ hasty) /\ <>[](headset = h) => <>[](reported = (h # "none"))

\* For such a user the microphone input is the headset's while a headset with
\* a microphone is in the jack and the internal one otherwise.
InputSettles ==
  \A h \in Headset :
    []~(missed \/ hasty) /\ <>[](headset = h) => <>[](mike_input = (h = "mic"))

=============================================================================
