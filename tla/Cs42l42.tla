------------------------------- MODULE Cs42l42 -------------------------------
(***************************************************************************)
(* The jack and the volume of a headset chip (cs42l42) behind the CS8409   *)
(* driver (cs8409.c).                                                      *)
(*                                                                         *)
(* Threads: the handler of unsolicited responses, pm (initialisation,      *)
(* suspend and resume), ctl (the volume control) and hook (the PCM hook).  *)
(* Beside them the chip detects the type of a headset and the user moves   *)
(* the plug.  A step is one i2c access (Cs8409I2c shows that they exclude  *)
(* each other) or one access to a field that the threads share.            *)
(*                                                                         *)
(* Reads may fail; the failures of writes are left to Cs8409I2c.  A driver *)
(* with two chips treats both alike: one is modelled.                      *)
(*                                                                         *)
(* Definitions whose name starts with Bug are mutations of the definition  *)
(* that follows them; nothing but the mutation runs uses them.             *)
(***************************************************************************)
EXTENDS Integers

CONSTANT Budget  \* bound: moves, failed reads, suspends, volume changes and PCM operations

ASSUME BudgetAssumption == Budget \in Nat

VARIABLES
  pc,         \* by thread: where it is
  word,       \* hp_jack_in, mic_jack_in and suspended, three bits of one word
  local,      \* the word as a thread has loaded it
  read,       \* what the handler, or pm, has read
  chip,       \* the chip's registers
  jack,       \* the plug
  config,     \* no_type_dect and full_scale_vol
  bus,        \* GPIO responses: enabled, allowed by the kernel, falling edges to handle
  built,      \* build_ctrl_done
  told,       \* what the kernel's jacks show, and the speaker's pin
  audio,      \* vol, playback_started, the values that threads have computed
  budget,     \* what is left of the bound
  history,    \* premises of the properties
  overlapped, \* and two of them: pm was at work during an event,
  torn        \* and stored the word while the handler held a copy to store

jackVars == <<word, local, jack, config, built, told>>
vars == <<pc, jackVars, read, chip, bus, audio, budget, history, overlapped, torn>>

Thread == {"handler", "pm", "ctl", "hook"}
Plug == {"none", "moving", "headphone", "headset"}
EIO == 5    \* the driver tests for a value below zero, here -EIO
Mute == 63

InReset == [powered |-> FALSE, tip_masked |-> TRUE, auto_masked |-> TRUE,
            tip_latch |-> FALSE, auto_done |-> FALSE, detecting |-> FALSE,
            steady |-> FALSE, type |-> "none", hp_ctl |-> 13, mixer |-> Mute]

Asleep == [hp |-> FALSE, mic |-> FALSE, suspended |-> TRUE]

Unread == [done |-> FALSE, type |-> "none", level |-> "none", failed |-> FALSE,
           hp |-> FALSE, mic |-> FALSE, hp_ctl |-> 0]

Forget == read' = [Unread EXCEPT !.hp_ctl = read.hp_ctl]

Init ==
  /\ pc = [t \in Thread |-> IF t = "pm" THEN "release" ELSE "idle"]
  /\ word = Asleep
  /\ local = [t \in {"handler", "pm"} |-> Asleep]
  /\ read = Unread
  /\ chip = InReset
  /\ jack \in Plug \ {"moving"}
  /\ config \in {c \in [no_type : BOOLEAN, full_scale : BOOLEAN] : c.no_type => c.full_scale}
  /\ bus = [ur |-> FALSE, allowed |-> TRUE, falls |-> 0]
  /\ built = FALSE
  /\ told = [hp |-> FALSE, mic |-> FALSE, speaker |-> TRUE]
  /\ audio = [vol |-> 0, started |-> FALSE, ctl |-> 0, hook |-> 0]
  /\ budget = Budget
  /\ history = [late |-> FALSE, stale |-> FALSE, faulted |-> FALSE, raced |-> FALSE, asleep |-> FALSE]
  /\ overlapped = FALSE
  /\ torn = FALSE

-----------------------------------------------------------------------------
(* The chip, its interrupt line, and i2c accesses. *)

\* The line to the CS8409's GPIO is low while an unmasked interrupt is latched.
Asserted(c) ==
  /\ c.powered
  /\ (c.tip_latch /\ ~c.tip_masked) \/ (c.auto_done /\ ~c.auto_masked)

\* Only a change of the line makes a response; the driver ignores a rising one.
ChipBecomes(c) ==
  /\ chip' = c
  /\ bus' = [bus EXCEPT !.falls = @ + IF bus.ur /\ Asserted(c) /\ ~Asserted(chip) THEN 1 ELSE 0]

Goto(t, place) == pc' = [pc EXCEPT ![t] = place]

\* cs8409_i2c_read and _write do nothing for a chip that is marked suspended.
Reachable == ~word.suspended /\ chip.powered

Write(c) == ChipBecomes(IF Reachable THEN c ELSE chip)

\* A failed read may have cleared a status all the same.
Fails(failed, c) ==
  IF Reachable
  THEN /\ failed => budget > 0
       /\ budget' = IF failed THEN budget - 1 ELSE budget
       /\ history' = [history EXCEPT !.faulted = @ \/ failed]
       /\ \E d \in IF failed THEN {chip, c} ELSE {c} : ChipBecomes(d)
  ELSE failed /\ UNCHANGED <<budget, history, chip, bus>>

Writes(t, from, to, c) ==
  pc[t] = from /\ Goto(t, to) /\ Write(c) /\ UNCHANGED <<jackVars, read, audio, budget, history>>

Reads(t, from, to, c) ==
  pc[t] = from /\ Goto(t, to) /\ (\E f \in BOOLEAN : Fails(f, c)) /\ UNCHANGED <<jackVars, read, audio>>

-----------------------------------------------------------------------------
(* cs42l42_run_jack_detect, by the handler or by pm. *)

\* Mutation: the plug's interrupt stays enabled during the detection.
BugRunJackDetect(t, after) ==
  \/ Reads(t, "detect1", "detect3", [chip EXCEPT !.auto_done = FALSE])
  \/ Reads(t, "detect3", "detect4", [chip EXCEPT !.tip_latch = FALSE])
  \/ Writes(t, "detect4", "detect5", [chip EXCEPT !.auto_masked = FALSE])
  \/ Writes(t, "detect5", "detect6", [chip EXCEPT !.detecting = FALSE])
  \/ Writes(t, "detect6", after, [chip EXCEPT !.detecting = TRUE, !.steady = TRUE])

\* Both statuses are cleared, the plug's interrupt is masked for the detection.
RunJackDetect(t, after) ==
  \/ Reads(t, "detect1", "detect2", [chip EXCEPT !.auto_done = FALSE])
  \/ Writes(t, "detect2", "detect3", [chip EXCEPT !.tip_masked = TRUE])
  \/ Reads(t, "detect3", "detect4", [chip EXCEPT !.tip_latch = FALSE])
  \/ Writes(t, "detect4", "detect5", [chip EXCEPT !.auto_masked = FALSE])
  \/ Writes(t, "detect5", "detect6", [chip EXCEPT !.detecting = FALSE])
  \/ Writes(t, "detect6", after, [chip EXCEPT !.detecting = TRUE, !.steady = TRUE])

-----------------------------------------------------------------------------
(* The handler: cs8409_cs42l42_jack_unsol_event, cs42l42_jack_unsol_event. *)

\* The kernel drops the responses of a codec that sleeps.
Event ==
  /\ pc["handler"] = "idle" /\ bus.falls > 0
  /\ bus' = [bus EXCEPT !.falls = @ - 1]
  /\ Goto("handler", IF bus.allowed THEN "codec_status" ELSE "idle")
  /\ UNCHANGED <<jackVars, read, chip, audio, budget, history>>

ReadCodecStatus ==
  /\ pc["handler"] = "codec_status" /\ Goto("handler", "hs_status")
  /\ \E f \in BOOLEAN :
       /\ Fails(f, [chip EXCEPT !.auto_done = FALSE])
       /\ read' = [read EXCEPT !.done = chip.auto_done, !.failed = f]
  /\ UNCHANGED <<jackVars, audio>>

ReadHsStatus ==
  /\ pc["handler"] = "hs_status" /\ Goto("handler", "plug_status")
  /\ \E f \in BOOLEAN :
       /\ Fails(f, chip)
       /\ read' = [read EXCEPT !.type = chip.type, !.failed = @ \/ f]
  /\ UNCHANGED <<jackVars, audio>>

\* Where cs42l42_handle_tip_sense goes, and the flags it sets.
TipSense(r, none) ==
  CASE r.level = "moving" -> none
    [] r.level = "none" -> "load"
    [] OTHER -> IF config.no_type THEN "load" ELSE "detect1"

\* Mutation: the microphone is not looked at.
BugTipFlags(r) == [r EXCEPT !.hp = r.level # "none", !.mic = word.mic]

TipFlags(r) == [r EXCEPT !.hp = r.level # "none", !.mic = FALSE]

ReadPlugStatus ==
  /\ pc["handler"] = "plug_status"
  /\ \E f \in BOOLEAN :
       /\ Fails(f, [chip EXCEPT !.tip_latch = FALSE])
       /\ LET r == [read EXCEPT !.level = jack, !.failed = @ \/ f]
          IN \* a negative code counts as a change of the status
             IF r.failed THEN read' = r /\ Goto("handler", "report")
             ELSE IF r.done THEN read' = r /\ Goto("handler", "auto_done")
             ELSE /\ Goto("handler", TipSense(r, "idle"))
                  /\ IF TipSense(r, "idle") = "load" THEN read' = TipFlags(r) ELSE Forget
  /\ UNCHANGED <<jackVars, audio>>

AutoDone == Writes("handler", "auto_done", "stop", [chip EXCEPT !.auto_masked = TRUE])

\* Mutation: an invalid type is detected once more instead of measured.
BugStopDetection ==
  /\ pc["handler"] = "stop"
  /\ Write([chip EXCEPT !.detecting = FALSE])
  /\ IF config.no_type
     THEN read' = TipFlags(read) /\ Goto("handler", TipSense(read, "tip_on"))
     ELSE /\ read' = [read EXCEPT !.hp = (read.type # "none"), !.mic = (read.type = "headset")]
          /\ Goto("handler", IF read.type \in {"none", "headphone"} THEN "detect1" ELSE "load")
  /\ UNCHANGED <<jackVars, audio, budget, history>>

StopDetection ==
  /\ pc["handler"] = "stop"
  /\ Write([chip EXCEPT !.detecting = FALSE])
  /\ IF config.no_type
     THEN read' = TipFlags(read) /\ Goto("handler", TipSense(read, "tip_on"))
     ELSE /\ read' = [read EXCEPT !.hp = (read.type # "none"), !.mic = (read.type = "headset")]
          /\ Goto("handler", IF read.type \in {"none", "headphone"} THEN "manual" ELSE "load")
  /\ UNCHANGED <<jackVars, audio, budget, history>>

\* Two measurements.  A plug in motion or a failed read can look like anything.
ManualDetection ==
  /\ pc["handler"] = "manual" /\ Goto("handler", "load")
  /\ \E f \in BOOLEAN, type \in Plug \ {"moving"} :
       /\ Fails(f, chip)
       /\ ~f /\ jack # "moving" => type = jack
       /\ read' = [read EXCEPT !.hp = (type # "none"), !.mic = (type = "headset")]
  /\ UNCHANGED <<jackVars, audio>>

\* Mutation: the handler takes the chip to be up.
BugLoadFlags ==
  /\ pc["handler"] = "load" /\ Goto("handler", "store")
  /\ local' = [local EXCEPT !["handler"] = [hp |-> read.hp, mic |-> read.mic, suspended |-> FALSE]]
  /\ UNCHANGED <<word, jack, config, built, told, read, chip, bus, audio, budget, history>>

\* The flags are bits of a word: it is loaded, changed and stored.
LoadFlags ==
  /\ pc["handler"] = "load" /\ Goto("handler", "store")
  /\ local' = [local EXCEPT !["handler"] = [word EXCEPT !.hp = read.hp, !.mic = read.mic]]
  /\ UNCHANGED <<word, jack, config, built, told, read, chip, bus, audio, budget, history>>

\* Mutation: an unplug is not a change of the status.
BugStoreFlags ==
  /\ pc["handler"] = "store"
  /\ word' = local["handler"] /\ local' = [local EXCEPT !["handler"] = Asleep]
  /\ Goto("handler", IF read.done THEN "tip_on" ELSE "idle")
  /\ UNCHANGED <<jack, config, built, told, read, chip, bus, audio, budget, history>>

StoreFlags ==
  /\ pc["handler"] = "store"
  /\ word' = local["handler"] /\ local' = [local EXCEPT !["handler"] = Asleep]
  /\ Goto("handler", IF read.done THEN "tip_on" ELSE "report")
  /\ UNCHANGED <<jack, config, built, told, read, chip, bus, audio, budget, history>>

\* Without the type of headsets a plug in motion is not a change to report.
TipInterruptOn ==
  /\ pc["handler"] = "tip_on"
  /\ Write([chip EXCEPT !.tip_masked = FALSE])
  /\ IF config.no_type /\ read.level = "moving"
     THEN Goto("handler", "idle") /\ Forget
     ELSE Goto("handler", "report") /\ UNCHANGED read
  /\ UNCHANGED <<jackVars, audio, budget, history>>

\* The speaker's pin and both jacks; exec_verb answers with the flags.
Report ==
  /\ pc["handler"] = "report" /\ Goto("handler", "idle")
  /\ told' = [hp |-> word.hp, mic |-> word.mic, speaker |-> ~word.hp]
  /\ Forget
  /\ UNCHANGED <<word, local, jack, config, built, chip, bus, audio, budget, history>>

HandlerStep ==
  \/ ReadCodecStatus \/ ReadHsStatus \/ ReadPlugStatus \/ AutoDone \/ StopDetection
  \/ ManualDetection \/ LoadFlags \/ StoreFlags \/ TipInterruptOn \/ Report
  \/ RunJackDetect("handler", "idle")

-----------------------------------------------------------------------------
(* Initialisation, resume and suspend: cs8409_cs42l42_fixups with ACT_INIT *)
(* and ACT_BUILD, cs42l42_resume, cs42l42_suspend.                         *)

\* Out of reset; the plug may be latched as an event.
Release ==
  /\ pc["pm"] = "release" /\ Goto("pm", "wake_load")
  /\ \E latch \in BOOLEAN : chip' = [chip EXCEPT !.powered = TRUE, !.tip_latch = latch]
  /\ UNCHANGED <<jackVars, read, bus, audio, budget, history>>

\* suspended, and the flags when it sleeps, are stored in the shared word.
LoadWord ==
  /\ \/ pc["pm"] = "wake_load" /\ Goto("pm", "wake_store")
     \/ pc["pm"] = "sleep_load" /\ Goto("pm", "sleep_store")
  /\ local' = [local EXCEPT !["pm"] = word]
  /\ UNCHANGED <<word, jack, config, built, told, read, chip, bus, audio, budget, history>>

StoreWord ==
  /\ \/ pc["pm"] = "wake_store" /\ Goto("pm", "irq_regs")
        /\ word' = [local["pm"] EXCEPT !.suspended = FALSE]
     \/ pc["pm"] = "sleep_store" /\ Goto("pm", "reset")
        /\ word' = Asleep
  /\ local' = [local EXCEPT !["pm"] = Asleep]
  /\ UNCHANGED <<jack, config, built, told, read, chip, bus, audio, budget, history>>

\* init_seq, whose registers are not modelled, and the bulk read of the statuses.
ClearStatuses ==
  Reads("pm", "irq_regs", "hp_read", [chip EXCEPT !.auto_done = FALSE, !.tip_latch = FALSE])

\* HP_CTL is read; nothing looks for a negative code.
ReadHpCtl ==
  /\ pc["pm"] = "hp_read" /\ Goto("pm", "hp_write")
  /\ \E f \in BOOLEAN :
       /\ Fails(f, chip)
       /\ read' = [read EXCEPT !.hp_ctl = IF f THEN -EIO ELSE chip.hp_ctl]
  /\ UNCHANGED <<jackVars, audio>>

Bit1Set(v) == IF (v \div 2) % 2 = 1 THEN v ELSE v + 2
Bits23Clear(v) == v - 4 * ((v \div 4) % 4)

\* Mutation: the mute bits stay as they are.
BugHpCtl(v) == (IF config.full_scale THEN Bit1Set(v) ELSE v) % 256

\* The scale bit is set if configured, the mute bits are cleared; a byte is written.
HpCtl(v) == Bits23Clear(IF config.full_scale THEN Bit1Set(v) ELSE v) % 256

\* Both writes.
WriteHpCtl ==
  /\ pc["pm"] = "hp_write" /\ Goto("pm", "allow")
  /\ Write([chip EXCEPT !.hp_ctl = HpCtl(read.hp_ctl)])
  /\ read' = [read EXCEPT !.hp_ctl = 0]
  /\ UNCHANGED <<jackVars, audio, budget, history>>

AllowEvents ==
  /\ pc["pm"] = "allow" /\ Goto("pm", "ts_clear")
  /\ bus' = [bus EXCEPT !.allowed = TRUE]
  /\ UNCHANGED <<jackVars, read, chip, audio, budget, history>>

EnableJackDetect ==
  \/ Reads("pm", "ts_clear", "ts_on", [chip EXCEPT !.tip_latch = FALSE])
  \/ Writes("pm", "ts_on", "ur_on", [chip EXCEPT !.tip_masked = FALSE])

\* Enabling makes no response for a line that is low already.
EnableUr ==
  /\ pc["pm"] = "ur_on" /\ Goto("pm", "first")
  /\ bus' = [bus EXCEPT !.ur = TRUE]
  /\ UNCHANGED <<jackVars, read, chip, audio, budget, history>>

\* The first detection: not before the controls are built.
FirstDetect ==
  /\ pc["pm"] = "first"
  /\ Goto("pm", IF built /\ ~word.hp THEN "detect1" ELSE "sync")
  /\ UNCHANGED <<jackVars, read, chip, bus, audio, budget, history>>

\* The kernel shows the jacks again after it has built or resumed the codec.
Sync ==
  /\ pc["pm"] = "sync" /\ Goto("pm", IF built THEN "up" ELSE "build")
  /\ told' = [told EXCEPT !.hp = word.hp, !.mic = word.mic]
  /\ UNCHANGED <<word, local, jack, config, built, read, chip, bus, audio, budget, history>>

Build ==
  /\ pc["pm"] = "build" /\ Goto("pm", "first")
  /\ built' = TRUE
  /\ UNCHANGED <<word, local, jack, config, told, read, chip, bus, audio, budget, history>>

\* The kernel allows no more events; the driver disables responses.
Suspend ==
  /\ pc["pm"] = "up" /\ Goto("pm", "power_down")
  /\ budget > 0 /\ budget' = budget - 1
  /\ bus' = [bus EXCEPT !.ur = FALSE, !.allowed = FALSE]
  /\ history' = [history EXCEPT !.asleep = TRUE]
  /\ UNCHANGED <<jackVars, read, chip, audio>>

PowerDown ==
  \/ Writes("pm", "power_down", "poll", [chip EXCEPT !.hp_ctl = 13, !.mixer = Mute])
  \/ Reads("pm", "poll", "sleep_load", [chip EXCEPT !.auto_done = FALSE])

Reset ==
  /\ pc["pm"] = "reset" /\ Goto("pm", "asleep")
  /\ chip' = InReset
  /\ history' = [history EXCEPT !.faulted = FALSE]
  /\ UNCHANGED <<jackVars, read, bus, audio, budget>>

Resume ==
  /\ pc["pm"] = "asleep" /\ Goto("pm", "release")
  /\ UNCHANGED <<jackVars, read, chip, bus, audio, budget, history>>

PmStep ==
  \/ Release \/ LoadWord \/ StoreWord \/ ClearStatuses \/ ReadHpCtl \/ WriteHpCtl
  \/ AllowEvents \/ EnableJackDetect \/ EnableUr \/ FirstDetect \/ Sync \/ Build
  \/ RunJackDetect("pm", "sync") \/ PowerDown \/ Reset \/ Resume

-----------------------------------------------------------------------------
(* The volume control and the PCM hook, for one channel of the headphones. *)
(* The system is not suspended, nor a codec used, during a call.           *)

Volume == {0, -1}

\* Mutation: the control's value is not negated.
BugAttenuation(v) == v

Attenuation(v) == (-v) % 64

\* Stored, and computed for the chip if a stream plays; the i2c write comes later.
VolumePut ==
  /\ pc["ctl"] = "idle" /\ pc["pm"] = "up"
  /\ budget > 0 /\ budget' = budget - 1
  /\ \E v \in Volume \ {audio.vol} :
       audio' = [audio EXCEPT !.vol = v, !.ctl = Attenuation(v)]
  /\ Goto("ctl", IF audio.started THEN "write" ELSE "idle")
  /\ history' = [history EXCEPT !.raced = @ \/ pc["hook"] # "idle"]
  /\ UNCHANGED <<jackVars, read, chip, bus>>

VolumeWrite == Writes("ctl", "write", "idle", [chip EXCEPT !.mixer = audio.ctl])

\* Mutation: playback_started is only ever set.
BugPcmHook(prepare) ==
  /\ pc["hook"] = "idle" /\ pc["pm"] = "up" /\ prepare # audio.started
  /\ budget > 0 /\ budget' = budget - 1
  /\ audio' = [audio EXCEPT !.started = @ \/ prepare,
                            !.hook = IF prepare THEN Attenuation(audio.vol) ELSE Mute]
  /\ Goto("hook", "write")
  /\ history' = [history EXCEPT !.raced = (pc["ctl"] # "idle"), !.asleep = @ /\ ~prepare]
  /\ UNCHANGED <<jackVars, read, chip, bus>>

\* PREPARE unmutes, CLEANUP mutes.
PcmHook(prepare) ==
  /\ pc["hook"] = "idle" /\ pc["pm"] = "up" /\ (prepare \/ audio.started)
  /\ budget > 0 /\ budget' = budget - 1
  /\ audio' = [audio EXCEPT !.started = prepare,
                            !.hook = IF prepare THEN Attenuation(audio.vol) ELSE Mute]
  /\ Goto("hook", "write")
  /\ history' = [history EXCEPT !.raced = (pc["ctl"] # "idle"), !.asleep = @ /\ ~prepare]
  /\ UNCHANGED <<jackVars, read, chip, bus>>

HookWrite == Writes("hook", "write", "idle", [chip EXCEPT !.mixer = audio.hook])

-----------------------------------------------------------------------------
(* The user and the chip. *)

\* Nothing happens, or will, until the user or the system does something.
AtRest ==
  /\ pc["handler"] = "idle" /\ pc["ctl"] = "idle" /\ pc["hook"] = "idle"
  /\ pc["pm"] \in {"up", "asleep"}
  /\ bus.falls = 0 /\ ~chip.detecting

\* In, out, or stuck on the way: every change of the plug's status is latched.
MovePlug ==
  /\ budget > 0 /\ budget' = budget - 1
  /\ jack' \in Plug \ {jack}
  /\ ChipBecomes(IF chip.powered THEN [chip EXCEPT !.tip_latch = TRUE, !.steady = FALSE] ELSE chip)
  /\ history' = [history EXCEPT !.late = ~AtRest, !.stale = chip.auto_done]
  /\ UNCHANGED <<pc, word, local, config, built, told, read, audio>>

\* A headset may pass for invalid; a plug that was moved can look like anything.
DetectionDone ==
  /\ chip.detecting
  /\ \E type \in Plug \ {"moving"} :
       /\ chip.steady /\ jack # "moving" => type \in {jack, "none"}
       /\ ChipBecomes([chip EXCEPT !.detecting = FALSE, !.auto_done = TRUE, !.type = type])
  /\ UNCHANGED <<pc, jackVars, read, audio, budget, history>>

Step ==
  \/ Event \/ HandlerStep \/ PmStep \/ Suspend
  \/ VolumePut \/ VolumeWrite \/ (\E p \in BOOLEAN : PcmHook(p)) \/ HookWrite
  \/ MovePlug \/ DetectionDone

\* An event during a suspend, a resume or a detection of pm's, which may meet the
\* handler's own.
Overlap ==
  \/ pc["handler"] # "idle" /\ pc["pm"] \notin {"up", "sync", "build"}
  \/ /\ pc["pm"] \in {"detect1", "detect2", "detect3", "detect4", "detect5", "detect6"}
     /\ bus.falls > 0 \/ chip.detecting

\* pm stores the word.
Stores == pc["pm"] \in {"wake_store", "sleep_store"} /\ pc'["pm"] # pc["pm"]

Noted(step) ==
  /\ step
  /\ overlapped' = (Overlap' \/ (overlapped /\ pc'["pm"] # "power_down"))
  /\ torn' = IF Stores THEN pc["handler"] = "store" ELSE torn

Next == Noted(Step)

Spec == Init /\ [][Next]_vars

\* The threads run; the chip ends a detection.  The user and the system may stop.
Fairness ==
  /\ WF_vars(Noted(Event \/ HandlerStep)) /\ WF_vars(Noted(PmStep))
  /\ WF_vars(Noted(VolumeWrite)) /\ WF_vars(Noted(HookWrite))
  /\ WF_vars(Noted(DetectionDone))

FairSpec == Spec /\ Fairness

-----------------------------------------------------------------------------
DetectPlace == {"detect1", "detect2", "detect3", "detect4", "detect5", "detect6"}

HandlerPlace == DetectPlace \cup
  {"idle", "codec_status", "hs_status", "plug_status", "auto_done", "stop", "manual",
   "load", "store", "tip_on", "report"}

PmPlace == DetectPlace \cup
  {"release", "wake_load", "wake_store", "irq_regs", "hp_read", "hp_write", "allow",
   "ts_clear", "ts_on", "ur_on", "first", "sync", "build", "up",
   "power_down", "poll", "sleep_load", "sleep_store", "reset", "asleep"}

Word == [hp : BOOLEAN, mic : BOOLEAN, suspended : BOOLEAN]
Type == Plug \ {"moving"}
Chip == [powered : BOOLEAN, tip_masked : BOOLEAN, auto_masked : BOOLEAN,
         tip_latch : BOOLEAN, auto_done : BOOLEAN, detecting : BOOLEAN,
         steady : BOOLEAN, type : Type, hp_ctl : 0..255, mixer : 0..63]
Read == [done : BOOLEAN, type : Type, level : Plug, failed : BOOLEAN,
         hp : BOOLEAN, mic : BOOLEAN, hp_ctl : -EIO..255]
Bus == [ur : BOOLEAN, allowed : BOOLEAN, falls : Nat]
History == [late : BOOLEAN, stale : BOOLEAN, faulted : BOOLEAN, raced : BOOLEAN, asleep : BOOLEAN]

\* Types; registers and computed values are bytes.
TypeOK ==
  /\ pc \in [Thread -> HandlerPlace \cup PmPlace \cup {"write"}]
  /\ pc["handler"] \in HandlerPlace /\ pc["pm"] \in PmPlace
  /\ pc["ctl"] \in {"idle", "write"} /\ pc["hook"] \in {"idle", "write"}
  /\ word \in Word /\ local \in [{"handler", "pm"} -> Word]
  /\ chip \in Chip /\ read \in Read /\ bus \in Bus
  /\ jack \in Plug /\ built \in BOOLEAN
  /\ config \in [no_type : BOOLEAN, full_scale : BOOLEAN]
  /\ told \in [hp : BOOLEAN, mic : BOOLEAN, speaker : BOOLEAN]
  /\ audio \in [vol : Volume, started : BOOLEAN, ctl : 0..63, hook : 0..63]
  /\ budget \in 0..Budget
  /\ history \in History /\ overlapped \in BOOLEAN /\ torn \in BOOLEAN

\* Up, with no failed read since the reset, and with no handler that ran while the
\* system went to sleep or came up.
Sound == pc["pm"] = "up" /\ ~history.faulted /\ ~overlapped

\* The plug is watched: at rest its interrupt is enabled, and the line is high, for
\* a line that stays low makes no further response.
Watched == Sound /\ AtRest => ~chip.tip_masked /\ ~Asserted(chip)

Truth == [hp |-> jack # "none", mic |-> jack = "headset" /\ ~config.no_type,
          speaker |-> jack = "none"]

Settled == pc["pm"] = "up" /\ ~history.faulted /\ AtRest /\ jack # "moving"

\* The kernel's jacks and the speaker's pin follow the plug, if its last move was
\* made at rest and no earlier detection was still latched.
JackFollows == Settled /\ ~overlapped /\ ~history.late /\ ~history.stale => told = Truth

\* cs8409.c:975: "Companion codec CS42L42 will generate interrupt via gpio 4 to notify
\* jack events".  An unplug at rest is notified.  The code does not keep this: a
\* response that is queued behind the event that starts a detection starts it again,
\* and the done bit of the first (its status was cleared before it was stopped,
\* cs8409.c:659) calls the handler while the second runs.  If that one ends between
\* the mask of its interrupt and its stop (cs8409.c:821-827), its bit stays latched
\* and masked; the handler reads it with the unplug and keeps the headset plugged in.
StatusNotified ==
  Settled /\ ~overlapped /\ ~config.no_type /\ ~history.late /\ jack = "none" => ~told.hp

\* Whatever failed or overlapped: at rest the kernel's jacks show the driver's flags,
\* so that a negative code of the handler, which counts as a change, does no harm.
ToldAgrees == pc["pm"] = "up" /\ AtRest => told.hp = word.hp /\ told.mic = word.mic

\* The headphone amplifier is unmuted while the chip is up, whatever was read; its
\* scale is as configured if the read did not fail.
AmplifierOn ==
  pc["pm"] = "up" /\ ~overlapped
    => /\ (chip.hp_ctl \div 4) % 4 = 0
       /\ ~history.faulted => (chip.hp_ctl \div 2) % 2 = IF config.full_scale THEN 1 ELSE 0

\* The mark and the flags are bits of one word, which the handler and pm load, change
\* and store.  A chip in reset is marked suspended and one that is up is not, also after
\* a handler that ran on into the suspend, unless pm's last store came between the
\* handler's load and its store.  A suspend that no handler ran into leaves no jack.
SuspendedMarked ==
  /\ ~torn => /\ pc["pm"] = "asleep" => word.suspended
              /\ pc["pm"] = "up" => ~word.suspended
  /\ ~overlapped /\ pc["pm"] = "asleep" => word = Asleep

\* The mixer has the volume of the control while a stream plays and is muted when
\* none does, unless a volume change overlapped the last PCM operation.
VolumeFollows ==
  Sound /\ pc["ctl"] = "idle" /\ pc["hook"] = "idle" /\ ~history.raced /\ ~history.asleep
    => chip.mixer = IF audio.started THEN Attenuation(audio.vol) ELSE Mute

\* Every event is dealt with.  A response that is queued behind the event that starts
\* a detection starts it again; if each detection ends just after the handler has read
\* the status, that can go on: the plug was then moved during an event.
ComesToRest == []<>(AtRest \/ history.late \/ history.stale \/ overlapped)
=============================================================================
