------------------------------- MODULE StreamPath -------------------------------
(***************************************************************************)
(* AudioRoute with the registers: every action does what AudioRoute says   *)
(* and writes what the code writes.  The units that AudioRoute turns on    *)
(* and off are seen in the registers, and so are the stream and its format *)
(* on the way from the PCM operation, which stores them, to the converter, *)
(* and the jack registers that decide whether the next move of the plug    *)
(* will be noticed.                                                        *)
(*                                                                         *)
(* There are two capture devices, one for each microphone; one of them is  *)
(* open at a time.  The kernel's sweep of converters that share a stream   *)
(* with an inactive one is left out.                                       *)
(*                                                                         *)
(* Definitions whose name starts with Bug are mutations of the definition  *)
(* that follows them; nothing but the mutation runs uses them.             *)
(***************************************************************************)
EXTENDS AudioRoute, CodecPath

CONSTANT Patient  \* bound: no PCM operation overlaps a jack event

ASSUME PatientAssumption == Patient \in BOOLEAN

VARIABLES
  path,        \* the registers and the stored parameters
  device,      \* the converter of the capture device that was prepared last
  reprepared,  \* history: a playback was prepared again with another format
  joined       \* history: it was prepared with the headset's output set up for a capture

pathVars == <<vars, path, device, reprepared, joined>>

PathInit ==
  /\ Init
  /\ path = boot_setup(headset # "none", have_mike)
  /\ device = \h22
  /\ reprepared = FALSE /\ joined = FALSE

Tag(n) == IF n = \h22 THEN 2 ELSE IF n = \h1a THEN 3 ELSE 1

Registers(new) == path' = new /\ UNCHANGED <<device, reprepared, joined>>

-----------------------------------------------------------------------------
(* The PCM operations. *)

\* The converters of both outputs are given the stream.
store_playback(h, fmt) ==
  LET store(g, n) == store_stream_format(g, n, Tag(n), fmt)
  IN [store(store(store(h, \h02), \h03), \h0a)
        EXCEPT !.channels = IF fmt = \h4031 THEN 2 ELSE 4]

PathPrepare(s) ==
  /\ Prepare(s)
  /\ Patient => ~Busy
  /\ UNCHANGED joined
  /\ \E fmt \in Format, n \in {\h22, \h1a} :
       IF s = "playback"
       THEN /\ n = device
            /\ path' = store_playback(path, fmt)
            /\ reprepared' = (init_count[s] > 0 /\ (reprepared \/ path.papl[\h02].fmt # fmt))
            /\ UNCHANGED device
       ELSE /\ fmt = \h4031
            /\ init_count[s] > 0 => n = device
            /\ path' = store_stream_format(path, n, Tag(n), fmt)
            /\ device' = n
            /\ UNCHANGED reprepared

PathCleanup(s) ==
  /\ Cleanup(s)
  /\ Patient => ~Busy
  /\ Registers(path)

PathHeadsetOutputOn ==
  /\ HeadsetOutputOn
  /\ path' = IF headset_enable /\ OutputNeeded THEN enable_headset_streaming(path) ELSE path
  /\ joined' = IF stream = "playback" THEN ~OutputNeeded ELSE joined
  /\ UNCHANGED <<device, reprepared>>

PathHeadsetInputOn ==
  /\ HeadsetInputOn
  /\ Registers(IF headset_enable /\ setup_needed["capture"]
               THEN enable_headset_mike_streaming(path) ELSE path)

PathHeadsetInputOff ==
  /\ HeadsetInputOff
  /\ Registers(IF setup_needed["capture"] THEN path ELSE disable_headset_mike_streaming(path))

\* Mutation: only the stream that is closed is stopped.
BugPathHeadsetOutputOff ==
  /\ HeadsetOutputOff
  /\ Registers(IF stream = "playback" THEN disable_headset_streaming(path) ELSE path)

PathHeadsetOutputOff ==
  /\ HeadsetOutputOff
  /\ Registers(IF OutputEnds THEN disable_headset_streaming(path) ELSE path)

\* Both set the function group to D0 first.
PathInternalSetUp ==
  /\ InternalSetUp
  /\ LET h == Put(path, {}, {"afg"})
     IN path' = IF stream = "playback" THEN play(h) ELSE capture(h)
  /\ joined' = (joined /\ stream # "playback")
  /\ UNCHANGED <<device, reprepared>>

\* The end of a playback powers the function group and the inputs off.
PathInternalCleanUp ==
  /\ InternalCleanUp
  /\ Registers(IF stream = "playback"
               THEN inputs_power_nids_off(Put(amps_disable_streaming(path), {"afg"}, {}))
               ELSE capturestop(path))

\* A prepared capture is also set up by the kernel, which trusts its cache.
PathHookUnblock ==
  /\ HookUnblock
  /\ LET p == path.papl[device]
     IN Registers(IF stream = "capture" /\ op = "prepare"
                  THEN setup_stream(path, device, p.tag, 0, p.fmt) ELSE path)

PathPcmStep ==
  \/ PathHeadsetOutputOn \/ PathHeadsetInputOn \/ PathHeadsetInputOff \/ PathHeadsetOutputOff
  \/ PathInternalSetUp \/ PathInternalCleanUp \/ PathHookUnblock
  \/ (BlockUnsol \/ HeadsetMark \/ RealDrain \/ RealUnblock \/ HookDrain \/ HookDone)
     /\ Registers(path)

-----------------------------------------------------------------------------
(* The jack events. *)

Plugged(action, c) == action /\ Registers(OnChip(path, c))

PathPluginHandleDetect == Plugged(PluginHandleDetect, plugin_handle_detect(path.chip))

PathPluginCompleteDetect == Plugged(PluginCompleteDetect, plugin_complete_detect(path.chip))

PathTypeDetectEvent == Plugged(TypeDetectEvent, headset_type_detect(path.chip, have_mike'))

PathButtonDetectEvent == Plugged(ButtonDetectEvent, headset_button_detect(path.chip))

PathPluginWhilePlaying ==
  /\ PluginWhilePlaying
  /\ Registers(IF active["playback"]
               THEN enable_headset_streaming(amps_disable_streaming(path)) ELSE path)

PathPluginInputs ==
  /\ PluginInputs
  /\ LET h1 == inputs_power_nids_off(path)
         h2 == intmike_linein_disable(h1)
     IN Registers(IF have_mike THEN OnChip(h2, headset_mike_buttons_enable(h2.chip)) ELSE h1)

PathUnplugEvent == Plugged(UnplugEvent, unplug_detect(path.chip, have_mike))

PathUnplugHeadsetOff ==
  /\ UnplugHeadsetOff
  /\ Registers(IF active["playback"] THEN unplug_headset_output(path, have_mike) ELSE path)

PathUnplugAmpsOn ==
  /\ UnplugAmpsOn
  /\ LET h1 == IF active["playback"] THEN play(path) ELSE path
         h2 == IF have_mike THEN unplug_headset_input(h1) ELSE inputs_power_nids_off(h1)
     IN Registers(OnChip(h2, unplug_detect_end(h2.chip)))

PathEventStep ==
  \/ PathPluginHandleDetect \/ PathPluginCompleteDetect
  \/ PathTypeDetectEvent \/ PathButtonDetectEvent
  \/ PathPluginWhilePlaying \/ PathPluginInputs
  \/ PathUnplugEvent \/ PathUnplugHeadsetOff \/ PathUnplugAmpsOn
  \/ UnplugReset /\ Registers(path)

-----------------------------------------------------------------------------
PathNext ==
  \/ WorkerStep /\ Registers(path)
  \/ MovePlug /\ (Patient => pc = "idle") /\ Registers(path)
  \/ PathEventStep \/ PathPcmStep
  \/ \E s \in Stream : PathPrepare(s) \/ PathCleanup(s)

PathSpec == PathInit /\ [][PathNext]_pathVars

-----------------------------------------------------------------------------
Stored == [tag : 0..3, ch : {0, 2}, fmt : Format \cup {0}]

\* Types, and that the jack's registers only take the values the code knows.
PathTypeOK ==
  /\ TypeOK
  /\ path \in [bits : SUBSET Bit, hw : [Nid -> Stored], cvt : [Nid -> Stored],
               papl : [Nid -> Stored], channels : {0, 2, 4}, chip : Chip]
  /\ device \in {\h22, \h1a}
  /\ reprepared \in BOOLEAN /\ joined \in BOOLEAN

Chipped(c, u) ==
  CASE u = "clock" -> c.pll /\ c.oscillator
    [] u = "headphones" -> ~c.hp_muted /\ c.buffers /\ c.down \cap OutputBlock = {}
    [] u = "headset_mike" -> c.mike_slots /\ ~c.adc_muted /\ c.down \cap InputBlock = {}
    [] OTHER -> TRUE

Wired(u) ==
  CASE u = "speakers" -> {"slots12", "slots34", "pin24", "pin25", "amps12", "amps34", "sync2", "sync3"}
    [] u = "headphones" -> {"slots_out", "pin2c"}
    [] u = "headset_mike" -> {"slots_in", "pin3c"}
    [] u = "internal_mike" -> {"intmike", "pin_intmike", "pad_intmike", "dmic_intmike", "intmike_unmuted"}
    [] OTHER -> {}

\* A unit is on for AudioRoute when and only when all its registers are.
UnitsMatchRegisters ==
  \A u \in Unit : u \in on <=> Wired(u) \subseteq path.bits /\ Chipped(path.chip, u)

\* The premises of AudioRoute: no operation during a jack event, no plug moved
\* during an operation or while a capture was prepared.
Calm == AtRest /\ ~(crossed \/ during \/ swapped)

Carries(n, ch) == path.hw[n] = [path.papl[n] EXCEPT !.ch = ch]

PlaybackCarried ==
  Calm /\ active["playback"]
    => /\ path.papl[\h02].tag = 1
       /\ IF headset = "none"
          THEN Carries(\h02, 0) /\ Carries(\h03, IF path.channels = 2 THEN 0 ELSE 2)
          ELSE Carries(\h0a, 0)

\* However the plug has been moved and the streams opened and closed: the
\* converters of the output in use have the tag and the format of the stream that
\* plays, and the rear speakers its third channel or its first, unless it was
\* prepared again with another format, or beside a capture from the headset.
StreamCarried == ~reprepared /\ ~joined => PlaybackCarried

\* patch_cirrus_new84.h:1552: "so lets let it set the stream parameters every time
\* but only do the main apple setup once".  A second prepare only stores them:
\* the converters keep the format and the channels of the first.
ParametersEveryTime == ~joined => PlaybackCarried

\* patch_cirrus_new84.h:1597: "actually we always need to do
\* cs_8409_headplay_setup - here we are about to play".  A capture has done it, with
\* no stream yet, and the flag it has cleared keeps the playback from doing it: the
\* headphones are on, and their converter is connected to nothing.
AlwaysSetUp == ~reprepared => PlaybackCarried

\* A capture whose device is the microphone of the jack gets its stream, from a
\* converter that is powered; playback must not have been closed meanwhile.
CaptureCarried ==
  Calm /\ ~starved /\ active["capture"]
    => /\ headset = "none" /\ device = \h22 => Carries(\h22, 0) /\ {"afg", "intmike"} \subseteq path.bits
       /\ headset = "mic" /\ device = \h1a => Carries(\h1a, 0) /\ "afg" \in path.bits

\* A port in use has its clock: every function that ends one port rewrites the
\* clock register of all of them, and the test of tdm_in_use before it is not used.
TdmClocked ==
  Calm /\ ~starved
    => /\ "speakers" \in on => {"clock_amps", "gate", "src_amps"} \subseteq path.bits
       /\ on \cap {"headphones", "headset_mike"} # {} => {"clock_headset", "gate"} \subseteq path.bits
       /\ "headphones" \in on => "src_headset" \in path.bits

\* With both streams closed no output converter is connected to a stream, no block
\* of the chip is powered, and no output port of the CS8409 is on.  (A capture
\* device that is not the microphone of the jack stays connected.)
ClosedIsQuiet ==
  Calm /\ (\A s \in Stream : init_count[s] = 0)
    => /\ \A n \in {\h02, \h03, \h0a} : path.hw[n].tag = 0
       /\ path.chip.down = Block /\ ~path.chip.pll /\ ~path.chip.buffers
       /\ path.bits \cap {"slots12", "slots34", "slots_out", "amps12", "amps34", "clock_amps"} = {}

\* At rest, whatever came before, the chip waits for the other move of the plug:
\* an interrupt of the wrong kind would leave the next one unnoticed.  The buttons
\* are armed for a headset with a microphone only.
JackArmed ==
  AtRest => /\ path.chip.tip_mask = IF headset = "none" THEN \ha0 ELSE \hc0
            /\ path.chip.button_mask = IF headset = "mic" THEN \hdc ELSE \hff
            /\ path.chip.bias_sense = (headset = "mic")
            /\ path.chip.auto_int = \h03
=============================================================================
