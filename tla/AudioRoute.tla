------------------------------- MODULE AudioRoute -------------------------------
(***************************************************************************)
(* Where sound goes and comes from.  Preparing a stream sets up the        *)
(* speaker amplifiers or the headset chip, the internal microphone or that *)
(* of the headset; cleaning it up undoes it.  A jack event that comes in   *)
(* between moves a running playback to the other output.  Both decide by   *)
(* flags the other one writes: jack_present, have_mike, playing and the    *)
(* two format_setup_needed flags.                                          *)
(*                                                                         *)
(* A unit of the hardware is on or off: "clock" stands for the PLL and     *)
(* oscillator of the headset chip, which its output and its input share.   *)
(* The responses of UnsolQueue are here one at a time: the user moves the  *)
(* plug only when the last jack event has been handled (HeadsetJack has    *)
(* what happens otherwise), so at most one response is on the bus, on the  *)
(* list or being handled.  One test of block_unsol and what it decides are *)
(* one step.  The computer may boot with a headset in its jack.            *)
(*                                                                         *)
(* Definitions whose name starts with Bug are mutations of the definition  *)
(* that follows them; nothing but the mutation runs uses them.             *)
(***************************************************************************)
EXTENDS Integers

CONSTANTS MaxMoves,  \* bound: how often the user moves the plug
          MaxInit    \* bound: prepare calls of a stream between two cleanups

ASSUME MaxMovesAssumption == MaxMoves \in Nat
ASSUME MaxInitAssumption == MaxInit \in Nat \ {0}

Stream  == {"playback", "capture"}
Headset == {"none", "plain", "mic"}
Unit    == {"speakers", "headphones", "clock", "headset_mike", "internal_mike"}
Cause   == {"plug", "type", "buttons", "unplug"}
\* The places of the code that handles a response.
Place   == Cause \cup {"sense", "amps", "inputs", "headset_off", "amps_on", "reset"}

VARIABLES
  headset,         \* what is in the jack
  cause,           \* the latched cause whose response is on the bus or the list
  stored,          \* the response is on unsol_list
  event, by,       \* the response being handled: its place, and the thread
  worker,          \* where the bus worker is, outside the handling
  block_unsol,
  jack_present, have_mike, headset_enable,
  active,          \* playing and capturing
  init_count,      \* play_init_count and capture_init_count
  setup_needed,    \* headset_{play,capture}_format_setup_needed
  on,              \* the units that are on
  stream, op, pc,  \* the PCM operation: its stream, prepare or cleanup, its place
  moves,
  crossed,         \* history: an operation was called during a jack event
  during,          \* history: the plug was moved during an operation
  swapped,         \* history: the plug was moved while a capture was prepared
  starved          \* history: playback was cleaned up while a capture was prepared

bus   == <<cause, stored>>
doing == <<event, by>>
jack  == <<jack_present, have_mike, headset_enable>>
flags == <<active, init_count, setup_needed>>
call  == <<stream, op, pc>>
hist  == <<headset, moves, crossed, during, swapped, starved>>
vars  == <<bus, doing, worker, block_unsol, jack, flags, on, call, hist>>

Init ==
  /\ headset \in Headset /\ cause = "none" /\ stored = FALSE
  /\ event = "none" /\ by = "nobody" /\ worker = "idle"
  /\ block_unsol = FALSE
  /\ jack_present = IF headset = "none" THEN 0 ELSE 1
  /\ have_mike = (headset = "mic") /\ headset_enable = (headset # "none")
  /\ active = [s \in Stream |-> FALSE]
  /\ init_count = [s \in Stream |-> 0]
  /\ setup_needed = [s \in Stream |-> TRUE]
  /\ on = {}
  /\ stream = "playback" /\ op = "prepare" /\ pc = "idle"
  /\ moves = 0
  /\ crossed = FALSE /\ during = FALSE /\ swapped = FALSE /\ starved = FALSE

-----------------------------------------------------------------------------
(* Responses: the bus worker, and whoever drains the list. *)

\* A jack event is on its way or being handled.
Busy == cause # "none" \/ event # "none" \/ worker # "idle"

\* The response is taken and its cause read and cleared.
Handle(thread) ==
  /\ event' = cause
  /\ by' = thread
  /\ cause' = "none"
  /\ stored' = FALSE

UnsolStore ==
  /\ worker = "idle" /\ cause # "none" /\ ~stored
  /\ block_unsol
  /\ stored' = TRUE
  /\ UNCHANGED <<cause, doing, worker, block_unsol, jack, flags, on, call, hist>>

UnsolHandle ==
  /\ worker = "idle" /\ cause # "none" /\ ~stored
  /\ ~block_unsol
  /\ block_unsol' = TRUE
  /\ Handle("worker")
  /\ worker' = "list"
  /\ UNCHANGED <<jack, flags, on, call, hist>>

Drain(thread) ==
  \/ stored /\ Handle(thread)
  \/ ~stored /\ UNCHANGED <<bus, doing>>

UnsolList ==
  /\ worker = "list" /\ by # "worker"
  /\ Drain("worker")
  /\ worker' = "unblock"
  /\ UNCHANGED <<block_unsol, jack, flags, on, call, hist>>

UnsolUnblock ==
  /\ worker = "unblock" /\ by # "worker"
  /\ block_unsol' = FALSE
  /\ worker' = "idle"
  /\ UNCHANGED <<bus, doing, jack, flags, on, call, hist>>

-----------------------------------------------------------------------------
(* The jack events, run by the worker or by a drain. *)

At(place, next) == event = place /\ event' = next /\ UNCHANGED <<by, bus>>

\* The handler returns; the chip has latched the next cause, if there is one.
Return(place, next) ==
  /\ event = place
  /\ event' = "none"
  /\ by' = "nobody"
  /\ cause' = next
  /\ UNCHANGED stored

PluginHandleDetect ==
  /\ At("plug", "sense")
  /\ jack_present' = 2
  /\ UNCHANGED <<worker, block_unsol, have_mike, headset_enable, flags, on, call, hist>>

\* After 1.8 s the tip is sensed; the type detection it starts ends with a cause.
PluginCompleteDetect ==
  /\ Return("sense", "type")
  /\ jack_present' = 1
  /\ headset_enable' = TRUE
  /\ UNCHANGED <<worker, block_unsol, have_mike, flags, on, call, hist>>

\* have_mike decides whether to go on now or after the button detection.
TypeDetectEvent ==
  /\ IF headset = "mic"
     THEN have_mike' = TRUE /\ Return("type", "buttons")
     ELSE UNCHANGED have_mike /\ At("type", "amps")
  /\ UNCHANGED <<worker, block_unsol, jack_present, headset_enable, flags, on, call, hist>>

ButtonDetectEvent ==
  /\ At("buttons", "amps")
  /\ UNCHANGED <<worker, block_unsol, jack, flags, on, call, hist>>

HeadphonesOn == {"headphones", "clock"}

\* Mutation: the amplifiers are left on.
BugPluginWhilePlaying ==
  /\ At("amps", "inputs")
  /\ on' = IF active["playback"] THEN on \cup HeadphonesOn ELSE on
  /\ UNCHANGED <<worker, block_unsol, jack, flags, call, hist>>

\* cs_8409_plugin_event_continued: a running playback is moved to the headset.
PluginWhilePlaying ==
  /\ At("amps", "inputs")
  /\ on' = IF active["playback"] THEN (on \ {"speakers"}) \cup HeadphonesOn ELSE on
  /\ UNCHANGED <<worker, block_unsol, jack, flags, call, hist>>

\* The second half of it: the internal inputs are powered off.
PluginInputs ==
  /\ Return("inputs", "none")
  /\ on' = on \ {"internal_mike"}
  /\ UNCHANGED <<worker, block_unsol, jack, flags, call, hist>>

UnplugEvent ==
  /\ At("unplug", "headset_off")
  /\ jack_present' = 0
  /\ UNCHANGED <<worker, block_unsol, have_mike, headset_enable, flags, on, call, hist>>

\* With a microphone the chip's clock stays on until UnplugInputs.
UnplugHeadsetOff ==
  /\ At("headset_off", "amps_on")
  /\ on' = IF ~active["playback"] THEN on
           ELSE IF have_mike THEN on \ {"headphones"} ELSE on \ HeadphonesOn
  /\ UNCHANGED <<worker, block_unsol, jack, flags, call, hist>>

\* After 100 ms: the amplifiers if playback is still running, then the inputs.
UnplugAmpsOn ==
  /\ At("amps_on", "reset")
  /\ LET amps == IF active["playback"] THEN {"speakers"} ELSE {}
         mike == IF have_mike THEN {"clock", "headset_mike"} ELSE {}
     IN on' = ((on \cup amps) \ mike) \ {"internal_mike"}
  /\ UNCHANGED <<worker, block_unsol, jack, flags, call, hist>>

\* Mutation: only the playback flag is reset.
BugUnplugReset ==
  /\ Return("reset", "none")
  /\ jack_present' = 0
  /\ have_mike' = FALSE
  /\ setup_needed' = [setup_needed EXCEPT !["playback"] = TRUE]
  /\ UNCHANGED <<worker, block_unsol, headset_enable, active, init_count, on, call, hist>>

UnplugReset ==
  /\ Return("reset", "none")
  /\ jack_present' = 0
  /\ have_mike' = FALSE
  /\ setup_needed' = [s \in Stream |-> TRUE]
  /\ UNCHANGED <<worker, block_unsol, headset_enable, active, init_count, on, call, hist>>

-----------------------------------------------------------------------------
(* The PCM operations; prepare_mutex serialises them. *)

Goto(from, to) == pc = from /\ by # "pcm" /\ pc' = to

\* A prepare sets up on the first call only.  jack_present chooses the headset's
\* functions or the internal ones, and only then is block_unsol set.
Begin(s, o, first) ==
  /\ pc = "idle"
  /\ stream' = s /\ op' = o
  /\ crossed' = (crossed \/ Busy)
  /\ pc' = IF ~first THEN "hook" ELSE IF jack_present # 0 THEN "headset" ELSE "internal"
  /\ UNCHANGED <<bus, doing, worker, block_unsol, jack, setup_needed, on, headset, moves,
                 during, swapped>>

\* A capture is marked as not capturing at every prepare.
Prepare(s) ==
  /\ init_count[s] < MaxInit
  /\ Begin(s, "prepare", init_count[s] = 0)
  /\ init_count' = [init_count EXCEPT ![s] = @ + 1]
  /\ active' = IF s = "capture" THEN [active EXCEPT ![s] = FALSE] ELSE active
  /\ UNCHANGED starved

Cleanup(s) ==
  /\ Begin(s, "cleanup", TRUE)
  /\ starved' = (starved \/ (s = "playback" /\ init_count["capture"] > 0))
  /\ UNCHANGED <<active, init_count>>

\* The hook blocks for the headset's functions, cs_8409_*_real block for themselves.
BlockUnsol ==
  /\ \/ Goto("headset", IF op = "cleanup" /\ stream = "capture" THEN "input" ELSE "output")
     \/ Goto("internal", "real")
  /\ block_unsol' = TRUE
  /\ UNCHANGED <<bus, doing, worker, jack, flags, on, stream, op, hist>>

\* The end of the set-up at a first prepare clears playing or capturing.
Proceed(from, to) ==
  /\ Goto(from, to)
  /\ active' = IF op = "prepare" /\ to = "hook" THEN [active EXCEPT ![stream] = FALSE] ELSE active

\* A prepare sets up the output and then, for a capture, the input; the cleanup
\* of a capture stops the input and then the output.
AfterOutput == IF op = "prepare" /\ stream = "capture" THEN "input" ELSE "hook"
AfterInput  == IF op = "prepare" THEN "hook" ELSE "output"

\* cs_8409_headplay_real and cs_8409_headcapture_real.
Enabled(units) == IF headset_enable THEN units ELSE {}

\* With a microphone the headset's output is set up once for both streams;
\* without one a capture sets up nothing.
OutputNeeded == IF have_mike THEN setup_needed["playback"] ELSE stream = "playback"

\* Mutation: a capture sets up the microphone without the headset's output.
BugHeadsetOutputOn ==
  /\ op = "prepare"
  /\ Proceed("output", IF stream = "playback" /\ OutputNeeded /\ have_mike
                       THEN "mark_output" ELSE IF have_mike THEN AfterOutput ELSE "hook")
  /\ on' = IF stream = "playback" /\ OutputNeeded THEN on \cup Enabled(HeadphonesOn) ELSE on
  /\ UNCHANGED <<bus, doing, worker, block_unsol, jack, init_count, setup_needed, stream, op, hist>>

\* The flags are only kept for a headset with a microphone.
HeadsetOutputOn ==
  /\ op = "prepare"
  /\ Proceed("output", IF ~have_mike THEN "hook"
                       ELSE IF OutputNeeded THEN "mark_output" ELSE AfterOutput)
  /\ on' = IF OutputNeeded THEN on \cup Enabled(HeadphonesOn) ELSE on
  /\ UNCHANGED <<bus, doing, worker, block_unsol, jack, init_count, setup_needed, stream, op, hist>>

HeadsetInputOn ==
  /\ op = "prepare"
  /\ Proceed("input", IF setup_needed["capture"] THEN "mark_input" ELSE "hook")
  /\ on' = IF setup_needed["capture"] THEN on \cup Enabled({"headset_mike"}) ELSE on
  /\ UNCHANGED <<bus, doing, worker, block_unsol, jack, init_count, setup_needed, stream, op, hist>>

HeadsetInputOff ==
  /\ op = "cleanup"
  /\ Proceed("input", IF setup_needed["capture"] THEN "output" ELSE "mark_input")
  /\ on' = IF setup_needed["capture"] THEN on ELSE on \ {"headset_mike"}
  /\ UNCHANGED <<bus, doing, worker, block_unsol, jack, init_count, setup_needed, stream, op, hist>>

\* Playback always stops the headset's output; a capture stops the output it has
\* set up unless playback is running.
OutputEnds == stream = "playback" \/ (~active["playback"] /\ ~setup_needed["playback"])

\* Mutation: a capture leaves the headset's output on when it ends.
BugHeadsetOutputOff ==
  /\ op = "cleanup"
  /\ Proceed("output", IF OutputEnds THEN "mark_output" ELSE "hook")
  /\ on' = IF stream = "playback" THEN on \ HeadphonesOn ELSE on
  /\ UNCHANGED <<bus, doing, worker, block_unsol, jack, init_count, setup_needed, stream, op, hist>>

HeadsetOutputOff ==
  /\ op = "cleanup"
  /\ Proceed("output", IF OutputEnds THEN "mark_output" ELSE "hook")
  /\ on' = IF OutputEnds THEN on \ HeadphonesOn ELSE on
  /\ UNCHANGED <<bus, doing, worker, block_unsol, jack, init_count, setup_needed, stream, op, hist>>

\* The flag is written when the transfers to the chip are through.
HeadsetMark ==
  /\ \/ /\ Proceed("mark_output", AfterOutput)
        /\ setup_needed' = [setup_needed EXCEPT !["playback"] = (op = "cleanup")]
     \/ /\ Proceed("mark_input", AfterInput)
        /\ setup_needed' = [setup_needed EXCEPT !["capture"] = (op = "cleanup")]
  /\ UNCHANGED <<bus, doing, worker, block_unsol, jack, init_count, on, stream, op, hist>>

\* cs_8409_play_real and cs_8409_capture_real up to their drain.
InternalSetUp ==
  /\ op = "prepare"
  /\ Goto("real", "drain")
  /\ on' = on \cup (IF stream = "playback" THEN {"speakers"} ELSE {"internal_mike"})
  /\ UNCHANGED <<bus, doing, worker, block_unsol, jack, flags, stream, op, hist>>

\* cs_8409_playstop_real powers the inputs off as well.
InternalCleanUp ==
  /\ op = "cleanup"
  /\ Goto("real", "drain")
  /\ on' = on \ (IF stream = "playback" THEN {"speakers", "internal_mike"} ELSE {"internal_mike"})
  /\ UNCHANGED <<bus, doing, worker, block_unsol, jack, flags, stream, op, hist>>

RealDrain ==
  /\ Goto("drain", "unblock")
  /\ Drain("pcm")
  /\ UNCHANGED <<worker, block_unsol, jack, flags, on, stream, op, hist>>

\* The end of a _real function.
RealUnblock ==
  /\ Proceed("unblock", "hook")
  /\ block_unsol' = FALSE
  /\ UNCHANGED <<bus, doing, worker, jack, init_count, setup_needed, on, stream, op, hist>>

HookUnblock ==
  /\ Goto("hook", "list")
  /\ block_unsol' = FALSE
  /\ UNCHANGED <<bus, doing, worker, jack, flags, on, stream, op, hist>>

HookDrain ==
  /\ Goto("list", "done")
  /\ Drain("pcm")
  /\ UNCHANGED <<worker, block_unsol, jack, flags, on, stream, op, hist>>

\* Mutation: a cleanup takes one prepare back instead of all.
BugHookDone ==
  /\ Goto("done", "idle")
  /\ active' = [active EXCEPT ![stream] = (op = "prepare")]
  /\ init_count' = IF op = "cleanup" THEN [init_count EXCEPT ![stream] = @ - 1] ELSE init_count
  /\ UNCHANGED <<bus, doing, worker, block_unsol, jack, setup_needed, on, stream, op, hist>>

\* playing or capturing is set, or reset, after the drain.
HookDone ==
  /\ Goto("done", "idle")
  /\ active' = [active EXCEPT ![stream] = (op = "prepare")]
  /\ init_count' = IF op = "cleanup" THEN [init_count EXCEPT ![stream] = 0] ELSE init_count
  /\ UNCHANGED <<bus, doing, worker, block_unsol, jack, setup_needed, on, stream, op, hist>>

-----------------------------------------------------------------------------
(* The user. *)

MovePlug ==
  /\ ~Busy
  /\ moves < MaxMoves /\ moves' = moves + 1
  /\ headset' \in IF headset = "none" THEN Headset \ {"none"} ELSE {"none"}
  /\ cause' = IF headset = "none" THEN "plug" ELSE "unplug"
  /\ during' = (during \/ pc # "idle")
  /\ swapped' = (swapped \/ init_count["capture"] > 0)
  /\ UNCHANGED <<stored, doing, worker, block_unsol, jack, flags, on, call, crossed, starved>>

WorkerStep == UnsolHandle \/ UnsolStore \/ UnsolList \/ UnsolUnblock

EventStep ==
  \/ PluginHandleDetect \/ PluginCompleteDetect \/ TypeDetectEvent \/ ButtonDetectEvent
  \/ PluginWhilePlaying \/ PluginInputs
  \/ UnplugEvent \/ UnplugHeadsetOff \/ UnplugAmpsOn \/ UnplugReset

PcmStep ==
  \/ BlockUnsol
  \/ HeadsetOutputOn \/ HeadsetInputOn \/ HeadsetInputOff \/ HeadsetOutputOff \/ HeadsetMark
  \/ InternalSetUp \/ InternalCleanUp
  \/ RealDrain \/ RealUnblock \/ HookUnblock \/ HookDrain \/ HookDone

PcmCall == \E s \in Stream : Prepare(s) \/ Cleanup(s)

Next == WorkerStep \/ EventStep \/ PcmStep \/ PcmCall \/ MovePlug

Spec == Init /\ [][Next]_vars

-----------------------------------------------------------------------------
\* Types; init_count returns to 0 at every cleanup, whatever came before.
TypeOK ==
  /\ headset \in Headset
  /\ cause \in Cause \cup {"none"} /\ stored \in BOOLEAN
  /\ event \in Place \cup {"none"} /\ by \in {"nobody", "worker", "pcm"}
  /\ worker \in {"idle", "list", "unblock"}
  /\ block_unsol \in BOOLEAN
  /\ jack_present \in 0..2 /\ have_mike \in BOOLEAN /\ headset_enable \in BOOLEAN
  /\ active \in [Stream -> BOOLEAN]
  /\ init_count \in [Stream -> 0..MaxInit]
  /\ setup_needed \in [Stream -> BOOLEAN]
  /\ on \in SUBSET Unit
  /\ stream \in Stream /\ op \in {"prepare", "cleanup"}
  /\ pc \in {"idle", "headset", "internal", "output", "mark_output", "input", "mark_input",
             "real", "drain", "unblock", "hook", "list", "done"}
  /\ moves \in 0..MaxMoves
  /\ crossed \in BOOLEAN /\ during \in BOOLEAN /\ swapped \in BOOLEAN /\ starved \in BOOLEAN

AtRest == pc = "idle" /\ ~Busy

OutputOf(h) == IF h = "none" THEN {"speakers"} ELSE HeadphonesOn

OutputFollows ==
  AtRest /\ active["playback"]
    => on \cap {"speakers", "headphones", "clock"} = OutputOf(headset)

\* Whatever was prepared, cleaned up, plugged in and unplugged before: at rest a
\* running playback has the output of the jack, and no other, provided that no
\* operation was called during a jack event (NOTES.md line 8: "there are still
\* issues"), no plug was moved during one, and none while a capture was prepared
\* ("PLUGIN WHILE CAPTURING UNIMPLEMENTED").
OutputFollowsJack == ~(crossed \/ during \/ swapped) => OutputFollows

\* A headset that is plugged in takes the sound over, also when that is during an
\* operation, which is what blocking and draining are for.  NOTES.md line 11: "Plugging
\* while playing and then unplugging while playing is known to work."  It does not
\* hold: the drains of a prepare run before playing is set, so that the response to a
\* headset plugged in during the prepare leaves the sound on the speakers.
PlugWhilePlaying == ~(crossed \/ swapped) /\ headset # "none" => OutputFollows

\* When both streams are closed and the user has been as patient, no amplifier,
\* headset path, chip clock or microphone is left on.
QuietWhenClosed ==
  AtRest /\ ~(crossed \/ during \/ swapped) /\ (\A s \in Stream : init_count[s] = 0) => on = {}

InputOf(h) ==
  IF h = "none" THEN {"internal_mike"} ELSE IF h = "mic" THEN {"headset_mike"} ELSE {}

\* A running capture has the microphone of the jack and no other, and that of a
\* headset has its clock, unless playback was cleaned up meanwhile: that powers
\* off the internal inputs, or the clock of the headset chip.
CaptureFollowsJack ==
  AtRest /\ ~(crossed \/ during \/ swapped \/ starved) /\ active["capture"]
    => /\ on \cap {"internal_mike", "headset_mike"} = InputOf(headset)
       /\ headset = "mic" => "clock" \in on

\* headset_capture_format_setup_needed tells the truth when nothing is under
\* way: a microphone it calls set up is on, and one that is on is called set up,
\* so that a cleanup will turn it off.  The transfers to the chip and the writing
\* of the flag are steps of their own; that a jack event resets both in between is
\* excluded by the premise that none is handled while an operation runs.
MikeMarked ==
  AtRest /\ ~(crossed \/ during) => (~setup_needed["capture"] <=> "headset_mike" \in on)
=============================================================================
