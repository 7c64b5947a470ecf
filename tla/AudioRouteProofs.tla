---------------------------- MODULE AudioRouteProofs ----------------------------
(***************************************************************************)
(* Proofs about AudioRoute for any number of moves of the plug and of      *)
(* repeated prepares: its type invariant, that the capture flag tells      *)
(* whether the headset's microphone is on, and that at rest the units that *)
(* are on are those of the jack and of the streams that are open.          *)
(***************************************************************************)
EXTENDS AudioRoute, TLAPS

MikeOn == "headset_mike" \in on

\* No operation is called during a jack event, and no plug moved during one.
Alone == ~(crossed \/ during)

\* There is one response at a time.
Single == (stored => cause # "none") /\ (cause # "none" => event = "none")

\* A headset has been sensed before its type is detected.
Sensed ==
  have_mike \/ cause = "type" \/ event = "type" => headset_enable

\* If so, nothing of a jack event runs while an operation does.
Apart == Alone /\ pc # "idle" => ~Busy

Plugging  == {"plug", "sense", "type", "buttons", "amps", "inputs"}
Unplugging == {"unplug", "headset_off", "amps_on", "reset"}

\* The jack's flags at each place of a jack event, and between two of them.
Known ==
  /\ cause = "none" /\ event = "none" =>
       /\ jack_present # 0 <=> headset # "none"
       /\ have_mike <=> headset = "mic"
       /\ headset # "none" => headset_enable
  /\ cause \in Plugging \/ event \in Plugging => headset # "none"
  /\ cause \in {"plug", "type"} \/ event \in {"plug", "sense", "type"} => ~have_mike
  /\ cause = "buttons" \/ event = "buttons" => headset = "mic" /\ have_mike
  /\ event \in {"amps", "inputs"} => (have_mike <=> headset = "mic")
  /\ cause \in {"type", "buttons"} \/ event \in {"type", "buttons", "amps", "inputs"} =>
       jack_present = 1 /\ headset_enable
  /\ cause = "unplug" \/ event \in Unplugging => headset = "none"

\* Where an operation can be with the headset that is in the jack.
Chosen ==
  Alone =>
    /\ pc \in {"headset", "output", "mark_output", "input", "mark_input"} => headset # "none"
    /\ pc \in {"internal", "real", "drain", "unblock"} => headset = "none"
    /\ pc \in {"input", "mark_input"} => stream = "capture"
    /\ pc \in {"mark_output", "input", "mark_input"} /\ op = "prepare" => headset = "mic"

\* The microphone is on only for a headset that has one, and is what its flag says
\* but between the transfers to the chip and the writing of the flag, and when an
\* unplug has turned it off and not yet reset the flags.
MikeKept ==
  Alone =>
    /\ MikeOn \/ ~setup_needed["capture"] => have_mike
    /\ event = "reset" => ~MikeOn
    /\ pc = "mark_input" => (MikeOn <=> op = "prepare")
    /\ pc # "mark_input" /\ event # "reset" => (MikeOn <=> ~setup_needed["capture"])

Inv == TypeOK /\ Single /\ Sensed /\ Apart /\ Known /\ Chosen /\ MikeKept

USE DEF Stream, Headset, Unit, Cause, Place

-----------------------------------------------------------------------------
(* The inductive invariant.                                                *)

\* The initial state satisfies the inductive invariant.
LEMMA InvInit == Init => Inv
<1> SUFFICES ASSUME Init PROVE Inv
  OBVIOUS
<1>1. TypeOK
  <2>1. moves \in 0 .. MaxMoves /\ init_count \in [Stream -> 0 .. MaxInit]
    BY MaxMovesAssumption, MaxInitAssumption DEF Init
  <2>2. stored \in BOOLEAN /\ block_unsol \in BOOLEAN /\ have_mike \in BOOLEAN
        /\ headset_enable \in BOOLEAN /\ crossed \in BOOLEAN /\ during \in BOOLEAN
        /\ swapped \in BOOLEAN /\ starved \in BOOLEAN
    BY Zenon DEF Init
  <2>3. on \in SUBSET Unit /\ jack_present \in 0 .. 2
    BY DEF Init
  <2> QED BY <2>1, <2>2, <2>3 DEF Init, TypeOK
<1>2. Known
  <2>1. (have_mike <=> headset = "mic") /\ (headset_enable <=> headset # "none")
    BY Zenon DEF Init
  <2> QED BY <2>1 DEF Init, Known, Plugging, Unplugging
<1>3. Single /\ Sensed /\ Apart /\ Chosen /\ MikeKept
  BY DEF Init, Single, Sensed, Apart, Busy, Chosen, MikeKept, MikeOn
<1> QED BY <1>1, <1>2, <1>3 DEF Inv

\* Every step keeps the types.
LEMMA TypeStep ==
  ASSUME TypeOK, [Next]_vars
  PROVE  TypeOK'
<1> DEFINE Goal == TypeOK'
<1> USE MaxMovesAssumption, MaxInitAssumption
    DEF TypeOK, bus, doing, jack, flags, call, hist
<1>1. CASE UnsolStore
  BY <1>1 DEF UnsolStore
<1>2. CASE UnsolHandle
  <2>1. stored' \in BOOLEAN /\ block_unsol' \in BOOLEAN
    BY <1>2, Zenon DEF UnsolHandle, Handle
  <2> QED BY <1>2, <2>1 DEF UnsolHandle, Handle
<1>3. CASE UnsolList
  <2>1. CASE stored
    <3>1. stored' \in BOOLEAN
      BY <1>3, <2>1, Zenon DEF UnsolList, Drain, Handle
    <3> QED BY <1>3, <2>1, <3>1 DEF UnsolList, Drain, Handle
  <2>2. CASE ~stored
    BY <1>3, <2>2 DEF UnsolList, Drain
  <2> QED BY <2>1, <2>2
<1>4. CASE UnsolUnblock
  <2>1. block_unsol' \in BOOLEAN
    BY <1>4, Zenon DEF UnsolUnblock
  <2> QED BY <1>4, <2>1 DEF UnsolUnblock
<1>5. CASE PluginHandleDetect
  BY <1>5 DEF PluginHandleDetect, At
<1>6. CASE PluginCompleteDetect
  BY <1>6 DEF PluginCompleteDetect, Return
<1>7. CASE TypeDetectEvent
  <2>1. have_mike' \in BOOLEAN
    BY <1>7, Zenon DEF TypeDetectEvent
  <2>2. CASE headset = "mic"
    BY <1>7, <2>1, <2>2 DEF TypeDetectEvent, Return
  <2>3. CASE headset # "mic"
    BY <1>7, <2>1, <2>3 DEF TypeDetectEvent, At
  <2> QED BY <2>2, <2>3
<1>8. CASE ButtonDetectEvent
  BY <1>8 DEF ButtonDetectEvent, At
<1>9. CASE PluginWhilePlaying
  BY <1>9 DEF PluginWhilePlaying, At, HeadphonesOn
<1>10. CASE PluginInputs
  BY <1>10 DEF PluginInputs, Return
<1>11. CASE UnplugEvent
  BY <1>11 DEF UnplugEvent, At
<1>12. CASE UnplugHeadsetOff
  BY <1>12 DEF UnplugHeadsetOff, At, HeadphonesOn
<1>13. CASE UnplugAmpsOn
  BY <1>13 DEF UnplugAmpsOn, At
<1>14. CASE UnplugReset
  <2>1. have_mike' \in BOOLEAN
    BY <1>14, Zenon DEF UnplugReset
  <2>2. setup_needed' \in [Stream -> BOOLEAN]
    BY <1>14, Zenon DEF UnplugReset
  <2> QED BY <1>14, <2>1, <2>2 DEF UnplugReset, Return
<1>15. CASE BlockUnsol
  <2>1. block_unsol' \in BOOLEAN
    BY <1>15, Zenon DEF BlockUnsol
  <2> QED BY <1>15, <2>1 DEF BlockUnsol, Goto
<1>16. CASE HeadsetOutputOn
  <2>1. active' \in [Stream -> BOOLEAN]
    BY <1>16 DEF HeadsetOutputOn, Proceed
  <2> QED BY <1>16, <2>1 DEF HeadsetOutputOn, Proceed, Goto, OutputNeeded, AfterOutput, Enabled, HeadphonesOn
<1>17. CASE HeadsetInputOn
  <2>1. active' \in [Stream -> BOOLEAN]
    BY <1>17 DEF HeadsetInputOn, Proceed
  <2> QED BY <1>17, <2>1 DEF HeadsetInputOn, Proceed, Goto, Enabled
<1>18. CASE HeadsetInputOff
  <2>1. active' \in [Stream -> BOOLEAN]
    BY <1>18 DEF HeadsetInputOff, Proceed
  <2> QED BY <1>18, <2>1 DEF HeadsetInputOff, Proceed, Goto
<1>19. CASE HeadsetOutputOff
  <2>1. active' \in [Stream -> BOOLEAN]
    BY <1>19 DEF HeadsetOutputOff, Proceed
  <2> QED BY <1>19, <2>1 DEF HeadsetOutputOff, Proceed, Goto, OutputEnds, HeadphonesOn
<1>20. CASE HeadsetMark
  <2>1. active' \in [Stream -> BOOLEAN]
    BY <1>20 DEF HeadsetMark, Proceed
  <2>2. setup_needed' \in [Stream -> BOOLEAN]
    BY <1>20, Zenon DEF HeadsetMark
  <2> QED BY <1>20, <2>1, <2>2 DEF HeadsetMark, Proceed, Goto, AfterOutput, AfterInput
<1>21. CASE InternalSetUp
  BY <1>21 DEF InternalSetUp, Goto
<1>22. CASE InternalCleanUp
  BY <1>22 DEF InternalCleanUp, Goto
<1>23. CASE RealDrain
  <2>1. CASE stored
    <3>1. stored' \in BOOLEAN
      BY <1>23, <2>1, Zenon DEF RealDrain, Drain, Handle
    <3> QED BY <1>23, <2>1, <3>1 DEF RealDrain, Goto, Drain, Handle
  <2>2. CASE ~stored
    BY <1>23, <2>2 DEF RealDrain, Goto, Drain
  <2> QED BY <2>1, <2>2
<1>24. CASE RealUnblock
  <2>1. block_unsol' \in BOOLEAN
    BY <1>24, Zenon DEF RealUnblock
  <2>2. active' \in [Stream -> BOOLEAN]
    BY <1>24 DEF RealUnblock, Proceed
  <2> QED BY <1>24, <2>1, <2>2 DEF RealUnblock, Proceed, Goto
<1>25. CASE HookUnblock
  <2>1. block_unsol' \in BOOLEAN
    BY <1>25, Zenon DEF HookUnblock
  <2> QED BY <1>25, <2>1 DEF HookUnblock, Goto
<1>26. CASE HookDrain
  <2>1. CASE stored
    <3>1. stored' \in BOOLEAN
      BY <1>26, <2>1, Zenon DEF HookDrain, Drain, Handle
    <3> QED BY <1>26, <2>1, <3>1 DEF HookDrain, Goto, Drain, Handle
  <2>2. CASE ~stored
    BY <1>26, <2>2 DEF HookDrain, Goto, Drain
  <2> QED BY <2>1, <2>2
<1>27. CASE HookDone
  BY <1>27 DEF HookDone, Goto
<1>28. CASE MovePlug
  BY <1>28 DEF MovePlug, Busy
<1>29. ASSUME NEW s \in Stream, Prepare(s) PROVE Goal
  <2>1. init_count' \in [Stream -> 0 .. MaxInit]
    BY <1>29 DEF Prepare
  <2>2. active' \in [Stream -> BOOLEAN]
    BY <1>29 DEF Prepare
  <2>3. crossed' \in BOOLEAN /\ block_unsol' \in BOOLEAN
    BY <1>29, Zenon DEF Prepare, Begin
  <2> QED BY <1>29, <2>1, <2>2, <2>3 DEF Prepare, Begin
<1>30. ASSUME NEW s \in Stream, Cleanup(s) PROVE Goal
  BY <1>30 DEF Cleanup, Begin, Busy
<1>31. CASE UNCHANGED vars
  BY <1>31 DEF vars
<1> QED
  BY <1>1, <1>2, <1>3, <1>4, <1>5, <1>6, <1>7, <1>8, <1>9, <1>10, <1>11, <1>12, <1>13,
     <1>14, <1>15, <1>16, <1>17, <1>18, <1>19, <1>20, <1>21, <1>22, <1>23, <1>24, <1>25,
     <1>26, <1>27, <1>28, <1>29, <1>30, <1>31
  DEF Next, WorkerStep, EventStep, PcmStep, PcmCall

\* The next cause is latched when a response is done.
LEMMA SingleStep ==
  ASSUME TypeOK, Single, [Next]_vars
  PROVE  Single'
<1> DEFINE Goal == Single'
<1> USE DEF Single, bus, doing, jack, flags, call, hist
<1>1. CASE UnsolStore
  BY <1>1 DEF UnsolStore
<1>2. CASE UnsolHandle
  BY <1>2 DEF UnsolHandle, Handle
<1>3. CASE UnsolList
  BY <1>3 DEF UnsolList, Drain, Handle
<1>4. CASE UnsolUnblock
  BY <1>4 DEF UnsolUnblock
<1>5. CASE PluginHandleDetect
  BY <1>5 DEF PluginHandleDetect, At
<1>6. CASE PluginCompleteDetect
  BY <1>6 DEF PluginCompleteDetect, Return
<1>7. CASE TypeDetectEvent
  BY <1>7 DEF TypeDetectEvent, At, Return
<1>8. CASE ButtonDetectEvent
  BY <1>8 DEF ButtonDetectEvent, At
<1>9. CASE PluginWhilePlaying
  BY <1>9 DEF PluginWhilePlaying, At, HeadphonesOn
<1>10. CASE PluginInputs
  BY <1>10 DEF PluginInputs, Return
<1>11. CASE UnplugEvent
  BY <1>11 DEF UnplugEvent, At
<1>12. CASE UnplugHeadsetOff
  BY <1>12 DEF UnplugHeadsetOff, At, HeadphonesOn
<1>13. CASE UnplugAmpsOn
  BY <1>13 DEF UnplugAmpsOn, At
<1>14. CASE UnplugReset
  BY <1>14 DEF UnplugReset, Return
<1>15. CASE BlockUnsol
  BY <1>15 DEF BlockUnsol, Goto
<1>16. CASE HeadsetOutputOn
  BY <1>16 DEF HeadsetOutputOn, Proceed, Goto, OutputNeeded, AfterOutput, Enabled, HeadphonesOn
<1>17. CASE HeadsetInputOn
  BY <1>17 DEF HeadsetInputOn, Proceed, Goto, Enabled
<1>18. CASE HeadsetInputOff
  BY <1>18 DEF HeadsetInputOff, Proceed, Goto
<1>19. CASE HeadsetOutputOff
  BY <1>19 DEF HeadsetOutputOff, Proceed, Goto, OutputEnds, HeadphonesOn
<1>20. CASE HeadsetMark
  BY <1>20 DEF HeadsetMark, Proceed, Goto, AfterOutput, AfterInput
<1>21. CASE InternalSetUp
  BY <1>21 DEF InternalSetUp, Goto
<1>22. CASE InternalCleanUp
  BY <1>22 DEF InternalCleanUp, Goto
<1>23. CASE RealDrain
  BY <1>23 DEF RealDrain, Goto, Drain, Handle
<1>24. CASE RealUnblock
  BY <1>24 DEF RealUnblock, Proceed, Goto
<1>25. CASE HookUnblock
  BY <1>25 DEF HookUnblock, Goto
<1>26. CASE HookDrain
  BY <1>26 DEF HookDrain, Goto, Drain, Handle
<1>27. CASE HookDone
  BY <1>27 DEF HookDone, Goto
<1>28. CASE MovePlug
  BY <1>28 DEF MovePlug, Busy
<1>29. ASSUME NEW s \in Stream, Prepare(s) PROVE Goal
  BY <1>29 DEF Prepare, Begin, Busy
<1>30. ASSUME NEW s \in Stream, Cleanup(s) PROVE Goal
  BY <1>30 DEF Cleanup, Begin, Busy
<1>31. CASE UNCHANGED vars
  BY <1>31 DEF vars
<1> QED
  BY <1>1, <1>2, <1>3, <1>4, <1>5, <1>6, <1>7, <1>8, <1>9, <1>10, <1>11, <1>12, <1>13,
     <1>14, <1>15, <1>16, <1>17, <1>18, <1>19, <1>20, <1>21, <1>22, <1>23, <1>24, <1>25,
     <1>26, <1>27, <1>28, <1>29, <1>30, <1>31
  DEF Next, WorkerStep, EventStep, PcmStep, PcmCall

\* A headset stays sensed.
LEMMA SensedStep ==
  ASSUME TypeOK, Sensed, [Next]_vars
  PROVE  Sensed'
<1> DEFINE Goal == Sensed'
<1> USE DEF Sensed, bus, doing, jack, flags, call, hist
<1>1. CASE UnsolStore
  BY <1>1 DEF UnsolStore
<1>2. CASE UnsolHandle
  BY <1>2 DEF UnsolHandle, Handle
<1>3. CASE UnsolList
  BY <1>3 DEF UnsolList, Drain, Handle
<1>4. CASE UnsolUnblock
  BY <1>4 DEF UnsolUnblock
<1>5. CASE PluginHandleDetect
  BY <1>5 DEF PluginHandleDetect, At
<1>6. CASE PluginCompleteDetect
  BY <1>6 DEF PluginCompleteDetect, Return
<1>7. CASE TypeDetectEvent
  BY <1>7 DEF TypeDetectEvent, At, Return
<1>8. CASE ButtonDetectEvent
  BY <1>8 DEF ButtonDetectEvent, At
<1>9. CASE PluginWhilePlaying
  BY <1>9 DEF PluginWhilePlaying, At, HeadphonesOn
<1>10. CASE PluginInputs
  BY <1>10 DEF PluginInputs, Return
<1>11. CASE UnplugEvent
  BY <1>11 DEF UnplugEvent, At
<1>12. CASE UnplugHeadsetOff
  BY <1>12 DEF UnplugHeadsetOff, At, HeadphonesOn
<1>13. CASE UnplugAmpsOn
  BY <1>13 DEF UnplugAmpsOn, At
<1>14. CASE UnplugReset
  BY <1>14 DEF UnplugReset, Return
<1>15. CASE BlockUnsol
  BY <1>15 DEF BlockUnsol, Goto
<1>16. CASE HeadsetOutputOn
  BY <1>16 DEF HeadsetOutputOn, Proceed, Goto, OutputNeeded, AfterOutput, Enabled, HeadphonesOn
<1>17. CASE HeadsetInputOn
  BY <1>17 DEF HeadsetInputOn, Proceed, Goto, Enabled
<1>18. CASE HeadsetInputOff
  BY <1>18 DEF HeadsetInputOff, Proceed, Goto
<1>19. CASE HeadsetOutputOff
  BY <1>19 DEF HeadsetOutputOff, Proceed, Goto, OutputEnds, HeadphonesOn
<1>20. CASE HeadsetMark
  BY <1>20 DEF HeadsetMark, Proceed, Goto, AfterOutput, AfterInput
<1>21. CASE InternalSetUp
  BY <1>21 DEF InternalSetUp, Goto
<1>22. CASE InternalCleanUp
  BY <1>22 DEF InternalCleanUp, Goto
<1>23. CASE RealDrain
  BY <1>23 DEF RealDrain, Goto, Drain, Handle
<1>24. CASE RealUnblock
  BY <1>24 DEF RealUnblock, Proceed, Goto
<1>25. CASE HookUnblock
  BY <1>25 DEF HookUnblock, Goto
<1>26. CASE HookDrain
  BY <1>26 DEF HookDrain, Goto, Drain, Handle
<1>27. CASE HookDone
  BY <1>27 DEF HookDone, Goto
<1>28. CASE MovePlug
  BY <1>28 DEF MovePlug, Busy
<1>29. ASSUME NEW s \in Stream, Prepare(s) PROVE Goal
  BY <1>29 DEF Prepare, Begin, Busy
<1>30. ASSUME NEW s \in Stream, Cleanup(s) PROVE Goal
  BY <1>30 DEF Cleanup, Begin, Busy
<1>31. CASE UNCHANGED vars
  BY <1>31 DEF vars
<1> QED
  BY <1>1, <1>2, <1>3, <1>4, <1>5, <1>6, <1>7, <1>8, <1>9, <1>10, <1>11, <1>12, <1>13,
     <1>14, <1>15, <1>16, <1>17, <1>18, <1>19, <1>20, <1>21, <1>22, <1>23, <1>24, <1>25,
     <1>26, <1>27, <1>28, <1>29, <1>30, <1>31
  DEF Next, WorkerStep, EventStep, PcmStep, PcmCall

\* An operation called during a jack event and a move during an operation are noted.
LEMMA ApartStep ==
  ASSUME TypeOK, Single, Apart, [Next]_vars
  PROVE  Apart'
<1> DEFINE Goal == Apart'
<1> USE DEF TypeOK, Single, Apart, Alone, Busy, bus, doing, jack, flags, call, hist
<1>1. CASE UnsolStore
  BY <1>1 DEF UnsolStore
<1>2. CASE UnsolHandle
  BY <1>2 DEF UnsolHandle, Handle
<1>3. CASE UnsolList
  BY <1>3 DEF UnsolList, Drain, Handle
<1>4. CASE UnsolUnblock
  BY <1>4 DEF UnsolUnblock
<1>5. CASE PluginHandleDetect
  BY <1>5 DEF PluginHandleDetect, At
<1>6. CASE PluginCompleteDetect
  BY <1>6 DEF PluginCompleteDetect, Return
<1>7. CASE TypeDetectEvent
  BY <1>7 DEF TypeDetectEvent, At, Return
<1>8. CASE ButtonDetectEvent
  BY <1>8 DEF ButtonDetectEvent, At
<1>9. CASE PluginWhilePlaying
  BY <1>9 DEF PluginWhilePlaying, At, HeadphonesOn
<1>10. CASE PluginInputs
  BY <1>10 DEF PluginInputs, Return
<1>11. CASE UnplugEvent
  BY <1>11 DEF UnplugEvent, At
<1>12. CASE UnplugHeadsetOff
  BY <1>12 DEF UnplugHeadsetOff, At, HeadphonesOn
<1>13. CASE UnplugAmpsOn
  BY <1>13 DEF UnplugAmpsOn, At
<1>14. CASE UnplugReset
  BY <1>14 DEF UnplugReset, Return
<1>15. CASE BlockUnsol
  BY <1>15 DEF BlockUnsol, Goto
<1>16. CASE HeadsetOutputOn
  BY <1>16 DEF HeadsetOutputOn, Proceed, Goto, OutputNeeded, AfterOutput, Enabled, HeadphonesOn
<1>17. CASE HeadsetInputOn
  BY <1>17 DEF HeadsetInputOn, Proceed, Goto, Enabled
<1>18. CASE HeadsetInputOff
  BY <1>18 DEF HeadsetInputOff, Proceed, Goto
<1>19. CASE HeadsetOutputOff
  BY <1>19 DEF HeadsetOutputOff, Proceed, Goto, OutputEnds, HeadphonesOn
<1>20. CASE HeadsetMark
  BY <1>20 DEF HeadsetMark, Proceed, Goto, AfterOutput, AfterInput
<1>21. CASE InternalSetUp
  BY <1>21 DEF InternalSetUp, Goto
<1>22. CASE InternalCleanUp
  BY <1>22 DEF InternalCleanUp, Goto
<1>23. CASE RealDrain
  BY <1>23 DEF RealDrain, Goto, Drain, Handle
<1>24. CASE RealUnblock
  BY <1>24 DEF RealUnblock, Proceed, Goto
<1>25. CASE HookUnblock
  BY <1>25 DEF HookUnblock, Goto
<1>26. CASE HookDrain
  BY <1>26 DEF HookDrain, Goto, Drain, Handle
<1>27. CASE HookDone
  BY <1>27 DEF HookDone, Goto
<1>28. CASE MovePlug
  BY <1>28 DEF MovePlug, Busy
<1>29. ASSUME NEW s \in Stream, Prepare(s) PROVE Goal
  BY <1>29 DEF Prepare, Begin, Busy
<1>30. ASSUME NEW s \in Stream, Cleanup(s) PROVE Goal
  BY <1>30 DEF Cleanup, Begin, Busy
<1>31. CASE UNCHANGED vars
  BY <1>31 DEF vars
<1> QED
  BY <1>1, <1>2, <1>3, <1>4, <1>5, <1>6, <1>7, <1>8, <1>9, <1>10, <1>11, <1>12, <1>13,
     <1>14, <1>15, <1>16, <1>17, <1>18, <1>19, <1>20, <1>21, <1>22, <1>23, <1>24, <1>25,
     <1>26, <1>27, <1>28, <1>29, <1>30, <1>31
  DEF Next, WorkerStep, EventStep, PcmStep, PcmCall

\* The handler starts at the place of the cause.
LEMMA HandleKnown ==
  ASSUME TypeOK, Single, Known, cause # "none",
         NEW thread, Handle(thread), UNCHANGED <<headset, jack>>
  PROVE  Known'
<1> USE DEF TypeOK, Single, Known, Plugging, Unplugging, Handle, jack
<1>1. CASE cause = "plug"
  BY <1>1
<1>2. CASE cause = "type"
  BY <1>2
<1>3. CASE cause = "buttons"
  BY <1>3
<1>4. CASE cause = "unplug"
  BY <1>4
<1> QED BY <1>1, <1>2, <1>3, <1>4

\* The jack's flags follow the plug.
LEMMA KnownStep ==
  ASSUME TypeOK, Single, Known,
         [Next]_vars
  PROVE  Known'
<1> DEFINE Goal == Known'
<1> USE DEF TypeOK, Single, Known, Plugging, Unplugging,
           bus, doing, jack, flags, call, hist
<1>1. CASE UnsolStore
  BY <1>1 DEF UnsolStore
<1>2. CASE UnsolHandle
  BY <1>2, HandleKnown DEF UnsolHandle
<1>3. CASE UnsolList
  <2>1. CASE stored
    BY <1>3, <2>1, HandleKnown DEF UnsolList, Drain
  <2>2. CASE ~stored
    BY <1>3, <2>2 DEF UnsolList, Drain
  <2> QED BY <2>1, <2>2
<1>4. CASE UnsolUnblock
  BY <1>4 DEF UnsolUnblock
<1>5. CASE PluginHandleDetect
  BY <1>5 DEF PluginHandleDetect, At
<1>6. CASE PluginCompleteDetect
  BY <1>6 DEF PluginCompleteDetect, Return
<1>7. CASE TypeDetectEvent
  BY <1>7 DEF TypeDetectEvent, At, Return
<1>8. CASE ButtonDetectEvent
  BY <1>8 DEF ButtonDetectEvent, At
<1>9. CASE PluginWhilePlaying
  BY <1>9 DEF PluginWhilePlaying, At, HeadphonesOn
<1>10. CASE PluginInputs
  BY <1>10 DEF PluginInputs, Return
<1>11. CASE UnplugEvent
  BY <1>11 DEF UnplugEvent, At
<1>12. CASE UnplugHeadsetOff
  BY <1>12 DEF UnplugHeadsetOff, At, HeadphonesOn
<1>13. CASE UnplugAmpsOn
  BY <1>13 DEF UnplugAmpsOn, At
<1>14. CASE UnplugReset
  BY <1>14 DEF UnplugReset, Return
<1>15. CASE BlockUnsol
  BY <1>15 DEF BlockUnsol, Goto
<1>16. CASE HeadsetOutputOn
  BY <1>16 DEF HeadsetOutputOn, Proceed, Goto, OutputNeeded, AfterOutput, Enabled, HeadphonesOn
<1>17. CASE HeadsetInputOn
  BY <1>17 DEF HeadsetInputOn, Proceed, Goto, Enabled
<1>18. CASE HeadsetInputOff
  BY <1>18 DEF HeadsetInputOff, Proceed, Goto
<1>19. CASE HeadsetOutputOff
  BY <1>19 DEF HeadsetOutputOff, Proceed, Goto, OutputEnds, HeadphonesOn
<1>20. CASE HeadsetMark
  BY <1>20 DEF HeadsetMark, Proceed, Goto, AfterOutput, AfterInput
<1>21. CASE InternalSetUp
  BY <1>21 DEF InternalSetUp, Goto
<1>22. CASE InternalCleanUp
  BY <1>22 DEF InternalCleanUp, Goto
<1>23. CASE RealDrain
  <2>1. CASE stored
    BY <1>23, <2>1, HandleKnown DEF RealDrain, Drain, Goto
  <2>2. CASE ~stored
    BY <1>23, <2>2 DEF RealDrain, Drain, Goto
  <2> QED BY <2>1, <2>2
<1>24. CASE RealUnblock
  BY <1>24 DEF RealUnblock, Proceed, Goto
<1>25. CASE HookUnblock
  BY <1>25 DEF HookUnblock, Goto
<1>26. CASE HookDrain
  <2>1. CASE stored
    BY <1>26, <2>1, HandleKnown DEF HookDrain, Drain, Goto
  <2>2. CASE ~stored
    BY <1>26, <2>2 DEF HookDrain, Drain, Goto
  <2> QED BY <2>1, <2>2
<1>27. CASE HookDone
  BY <1>27 DEF HookDone, Goto
<1>28. CASE MovePlug
  BY <1>28 DEF MovePlug, Busy
<1>29. ASSUME NEW s \in Stream, Prepare(s) PROVE Goal
  BY <1>29 DEF Prepare, Begin, Busy
<1>30. ASSUME NEW s \in Stream, Cleanup(s) PROVE Goal
  BY <1>30 DEF Cleanup, Begin, Busy
<1>31. CASE UNCHANGED vars
  BY <1>31 DEF vars
<1> QED
  BY <1>1, <1>2, <1>3, <1>4, <1>5, <1>6, <1>7, <1>8, <1>9, <1>10, <1>11, <1>12, <1>13,
     <1>14, <1>15, <1>16, <1>17, <1>18, <1>19, <1>20, <1>21, <1>22, <1>23, <1>24, <1>25,
     <1>26, <1>27, <1>28, <1>29, <1>30, <1>31
  DEF Next, WorkerStep, EventStep, PcmStep, PcmCall

\* An operation goes by the jack, which does not change meanwhile.
LEMMA ChosenStep ==
  ASSUME TypeOK, Single, Apart, Known, Chosen, [Next]_vars
  PROVE  Chosen'
<1> DEFINE Goal == Chosen'
<1> USE DEF TypeOK, Single, Apart, Known, Chosen, Alone, Busy, Plugging, Unplugging,
           bus, doing, jack, flags, call, hist
<1>1. CASE UnsolStore
  BY <1>1 DEF UnsolStore
<1>2. CASE UnsolHandle
  BY <1>2 DEF UnsolHandle, Handle
<1>3. CASE UnsolList
  BY <1>3 DEF UnsolList, Drain, Handle
<1>4. CASE UnsolUnblock
  BY <1>4 DEF UnsolUnblock
<1>5. CASE PluginHandleDetect
  BY <1>5 DEF PluginHandleDetect, At
<1>6. CASE PluginCompleteDetect
  BY <1>6 DEF PluginCompleteDetect, Return
<1>7. CASE TypeDetectEvent
  BY <1>7 DEF TypeDetectEvent, At, Return
<1>8. CASE ButtonDetectEvent
  BY <1>8 DEF ButtonDetectEvent, At
<1>9. CASE PluginWhilePlaying
  BY <1>9 DEF PluginWhilePlaying, At, HeadphonesOn
<1>10. CASE PluginInputs
  BY <1>10 DEF PluginInputs, Return
<1>11. CASE UnplugEvent
  BY <1>11 DEF UnplugEvent, At
<1>12. CASE UnplugHeadsetOff
  BY <1>12 DEF UnplugHeadsetOff, At, HeadphonesOn
<1>13. CASE UnplugAmpsOn
  BY <1>13 DEF UnplugAmpsOn, At
<1>14. CASE UnplugReset
  BY <1>14 DEF UnplugReset, Return
<1>15. CASE BlockUnsol
  BY <1>15 DEF BlockUnsol, Goto
<1>16. CASE HeadsetOutputOn
  BY <1>16 DEF HeadsetOutputOn, Proceed, Goto, OutputNeeded, AfterOutput, Enabled, HeadphonesOn
<1>17. CASE HeadsetInputOn
  BY <1>17 DEF HeadsetInputOn, Proceed, Goto, Enabled
<1>18. CASE HeadsetInputOff
  BY <1>18 DEF HeadsetInputOff, Proceed, Goto
<1>19. CASE HeadsetOutputOff
  BY <1>19 DEF HeadsetOutputOff, Proceed, Goto, OutputEnds, HeadphonesOn
<1>20. CASE HeadsetMark
  BY <1>20 DEF HeadsetMark, Proceed, Goto, AfterOutput, AfterInput
<1>21. CASE InternalSetUp
  BY <1>21 DEF InternalSetUp, Goto
<1>22. CASE InternalCleanUp
  BY <1>22 DEF InternalCleanUp, Goto
<1>23. CASE RealDrain
  BY <1>23 DEF RealDrain, Goto, Drain, Handle
<1>24. CASE RealUnblock
  BY <1>24 DEF RealUnblock, Proceed, Goto
<1>25. CASE HookUnblock
  BY <1>25 DEF HookUnblock, Goto
<1>26. CASE HookDrain
  BY <1>26 DEF HookDrain, Goto, Drain, Handle
<1>27. CASE HookDone
  BY <1>27 DEF HookDone, Goto
<1>28. CASE MovePlug
  BY <1>28 DEF MovePlug, Busy
<1>29. ASSUME NEW s \in Stream, Prepare(s) PROVE Goal
  BY <1>29 DEF Prepare, Begin, Busy
<1>30. ASSUME NEW s \in Stream, Cleanup(s) PROVE Goal
  BY <1>30 DEF Cleanup, Begin, Busy
<1>31. CASE UNCHANGED vars
  BY <1>31 DEF vars
<1> QED
  BY <1>1, <1>2, <1>3, <1>4, <1>5, <1>6, <1>7, <1>8, <1>9, <1>10, <1>11, <1>12, <1>13,
     <1>14, <1>15, <1>16, <1>17, <1>18, <1>19, <1>20, <1>21, <1>22, <1>23, <1>24, <1>25,
     <1>26, <1>27, <1>28, <1>29, <1>30, <1>31
  DEF Next, WorkerStep, EventStep, PcmStep, PcmCall

\* The microphone goes off before it is forgotten.
LEMMA MikeKeptStep ==
  ASSUME TypeOK, Single, Sensed, Apart, Known, Chosen, MikeKept, [Next]_vars
  PROVE  MikeKept'
<1> DEFINE Goal == MikeKept'
<1> USE DEF TypeOK, Single, Sensed, Apart, Known, Chosen, MikeKept, MikeOn, Alone, Busy,
           Plugging, Unplugging, bus, doing, jack, flags, call, hist
<1>1. CASE UnsolStore
  BY <1>1 DEF UnsolStore
<1>2. CASE UnsolHandle
  BY <1>2 DEF UnsolHandle, Handle
<1>3. CASE UnsolList
  BY <1>3 DEF UnsolList, Drain, Handle
<1>4. CASE UnsolUnblock
  BY <1>4 DEF UnsolUnblock
<1>5. CASE PluginHandleDetect
  BY <1>5 DEF PluginHandleDetect, At
<1>6. CASE PluginCompleteDetect
  BY <1>6 DEF PluginCompleteDetect, Return
<1>7. CASE TypeDetectEvent
  BY <1>7 DEF TypeDetectEvent, At, Return
<1>8. CASE ButtonDetectEvent
  BY <1>8 DEF ButtonDetectEvent, At
<1>9. CASE PluginWhilePlaying
  BY <1>9 DEF PluginWhilePlaying, At, HeadphonesOn
<1>10. CASE PluginInputs
  BY <1>10 DEF PluginInputs, Return
<1>11. CASE UnplugEvent
  BY <1>11 DEF UnplugEvent, At
<1>12. CASE UnplugHeadsetOff
  BY <1>12 DEF UnplugHeadsetOff, At, HeadphonesOn
<1>13. CASE UnplugAmpsOn
  BY <1>13 DEF UnplugAmpsOn, At
<1>14. CASE UnplugReset
  BY <1>14 DEF UnplugReset, Return
<1>15. CASE BlockUnsol
  BY <1>15 DEF BlockUnsol, Goto
<1>16. CASE HeadsetOutputOn
  BY <1>16 DEF HeadsetOutputOn, Proceed, Goto, OutputNeeded, AfterOutput, Enabled, HeadphonesOn
<1>17. CASE HeadsetInputOn
  BY <1>17 DEF HeadsetInputOn, Proceed, Goto, Enabled
<1>18. CASE HeadsetInputOff
  BY <1>18 DEF HeadsetInputOff, Proceed, Goto
<1>19. CASE HeadsetOutputOff
  BY <1>19 DEF HeadsetOutputOff, Proceed, Goto, OutputEnds, HeadphonesOn
<1>20. CASE HeadsetMark
  BY <1>20 DEF HeadsetMark, Proceed, Goto, AfterOutput, AfterInput
<1>21. CASE InternalSetUp
  BY <1>21 DEF InternalSetUp, Goto
<1>22. CASE InternalCleanUp
  BY <1>22 DEF InternalCleanUp, Goto
<1>23. CASE RealDrain
  BY <1>23 DEF RealDrain, Goto, Drain, Handle
<1>24. CASE RealUnblock
  BY <1>24 DEF RealUnblock, Proceed, Goto
<1>25. CASE HookUnblock
  BY <1>25 DEF HookUnblock, Goto
<1>26. CASE HookDrain
  BY <1>26 DEF HookDrain, Goto, Drain, Handle
<1>27. CASE HookDone
  BY <1>27 DEF HookDone, Goto
<1>28. CASE MovePlug
  BY <1>28 DEF MovePlug, Busy
<1>29. ASSUME NEW s \in Stream, Prepare(s) PROVE Goal
  BY <1>29 DEF Prepare, Begin, Busy
<1>30. ASSUME NEW s \in Stream, Cleanup(s) PROVE Goal
  BY <1>30 DEF Cleanup, Begin, Busy
<1>31. CASE UNCHANGED vars
  BY <1>31 DEF vars
<1> QED
  BY <1>1, <1>2, <1>3, <1>4, <1>5, <1>6, <1>7, <1>8, <1>9, <1>10, <1>11, <1>12, <1>13,
     <1>14, <1>15, <1>16, <1>17, <1>18, <1>19, <1>20, <1>21, <1>22, <1>23, <1>24, <1>25,
     <1>26, <1>27, <1>28, <1>29, <1>30, <1>31
  DEF Next, WorkerStep, EventStep, PcmStep, PcmCall

\* Every step keeps the inductive invariant.
LEMMA InvStep == Inv /\ [Next]_vars => Inv'
<1> SUFFICES ASSUME Inv, [Next]_vars PROVE Inv'
  OBVIOUS
<1>1. TypeOK /\ Single /\ Sensed /\ Apart /\ Known /\ Chosen /\ MikeKept
  BY DEF Inv
<1>2. TypeOK' /\ Single' /\ Sensed'
  BY <1>1, TypeStep, SingleStep, SensedStep
<1>3. Apart' /\ Known' /\ Chosen'
  BY <1>1, ApartStep, KnownStep, ChosenStep
<1>4. MikeKept'
  BY <1>1, MikeKeptStep
<1> QED BY <1>2, <1>3, <1>4 DEF Inv

-----------------------------------------------------------------------------
(* The theorems.                                                           *)

\* The inductive invariant holds in every reachable state.
THEOREM Invariance == Spec => []Inv
<1> QED BY InvInit, InvStep, PTL DEF Spec

\* Type correctness: in particular init_count stays within its bound and every
\* response is at a place of the code that handles it.
THEOREM TypeCorrect == Spec => []TypeOK
<1>1. Inv => TypeOK
  BY DEF Inv
<1> QED BY <1>1, Invariance, PTL

\* The capture flag and the headset's microphone agree at rest, if no operation was
\* called during a jack event and no plug moved during an operation: what the flag
\* calls set up is on, and what is on will be turned off by a cleanup.
THEOREM MikeIsMarked == Spec => []MikeMarked
<1>1. Inv => MikeMarked
  BY DEF Inv, Alone, MikeKept, MikeOn, MikeMarked, AtRest, Busy
<1> QED BY <1>1, Invariance, PTL

-----------------------------------------------------------------------------
(* The units: what strengthens the invariant.                              *)

\* A stream is active if it has been prepared, outside of its own operations.
Counted ==
  /\ \A s \in Stream : pc = "idle" \/ s # stream => (active[s] <=> init_count[s] > 0)
  /\ pc # "idle" /\ op = "prepare" => init_count[stream] > 0

\* Only for a headset with a microphone anything is called set up, and the clock is
\* on if its output is.
Marked ==
  Alone =>
    /\ ~have_mike => setup_needed["playback"]
    /\ pc = "mark_output" /\ op = "prepare" => "clock" \in on
    /\ ~setup_needed["playback"] /\ pc # "mark_output" => "clock" \in on \/ event = "reset"
    /\ pc \in {"input", "mark_input"} /\ op = "prepare" => ~setup_needed["playback"]

SetUp == pc \in {"drain", "unblock", "hook", "list", "done"}

\* Nor is the plug moved while a capture is prepared.
Orderly == ~(crossed \/ during \/ swapped)

\* A microphone belongs to a capture that has been prepared and to the jack.
InputsOwned ==
  Orderly =>
    /\ init_count["capture"] > 0 => ~Busy
    /\ "internal_mike" \in on => init_count["capture"] > 0 /\ headset = "none"
    /\ ~setup_needed["capture"] => init_count["capture"] > 0
    /\ op = "cleanup" /\ stream = "capture" =>
         /\ SetUp \/ pc \in {"output", "mark_output"} => setup_needed["capture"]
         /\ SetUp => "internal_mike" \notin on

Capturing ==
  /\ init_count["capture"] > 0
  /\ stream = "capture" => pc = "idle" \/ (SetUp /\ op = "prepare")

\* A capture has the microphone it was prepared with, if playback has left it alone.
InputKept ==
  Orderly =>
    /\ pc # "idle" /\ op = "cleanup" /\ stream = "playback" => starved \/ init_count["capture"] = 0
    /\ Capturing /\ ~starved =>
         /\ headset = "none" => "internal_mike" \in on
         /\ headset = "mic" => \A s \in Stream : ~setup_needed[s]

\* A headset comes in when nothing is set up, and its output is for a stream that
\* has been prepared.
OutputOwned ==
  Orderly =>
    /\ cause \in Plugging \/ event \in Plugging => \A s \in Stream : setup_needed[s]
    /\ ~setup_needed["playback"] => \E s \in Stream : init_count[s] > 0
    /\ op = "cleanup" =>
         /\ SetUp /\ stream = "playback" => setup_needed["playback"]
         /\ SetUp /\ stream = "capture" => setup_needed["playback"] \/ active["playback"]
         /\ pc = "mark_output" /\ stream = "capture" => ~active["playback"]

OutputIs(units) == \A u \in {"speakers", "headphones", "clock"} : u \in on <=> u \in units

\* The output of a playback: while it is set up or stopped, during a jack event, and at rest.
Output ==
  IF pc = "mark_output"
  THEN IF op = "prepare" THEN HeadphonesOn ELSE {}
  ELSE IF SetUp /\ stream = "playback"
  THEN IF op = "prepare" THEN OutputOf(headset) ELSE {}
  ELSE IF \/ headset = "none" /\ cause # "unplug"
             /\ event \notin {"unplug", "headset_off", "amps_on"}
          \/ cause \in Plugging
          \/ event \in Plugging \ {"inputs"}
  THEN IF active["playback"] THEN {"speakers"} ELSE {}
  ELSE IF event = "amps_on"
  THEN IF active["playback"] /\ have_mike THEN {"clock"} ELSE {}
  ELSE IF active["playback"] \/ ~setup_needed["playback"] THEN HeadphonesOn ELSE {}

OutputKept == Orderly => OutputIs(Output)

-----------------------------------------------------------------------------
(* Its parts, one by one. *)

\* A stream becomes active when its prepare ends, and stops with its cleanup.
LEMMA CountedStep ==
  ASSUME TypeOK, Single, Counted,
         [Next]_vars
  PROVE  Counted'
<1> DEFINE Goal == Counted'
<1> USE DEF TypeOK, Counted,
           bus, doing, jack, flags, call, hist
<1>1. CASE UnsolStore
  BY <1>1 DEF UnsolStore
<1>2. CASE UnsolHandle
  BY <1>2 DEF UnsolHandle, Handle
<1>3. CASE UnsolList
  BY <1>3 DEF UnsolList, Drain, Handle
<1>4. CASE UnsolUnblock
  BY <1>4 DEF UnsolUnblock
<1>5. CASE PluginHandleDetect
  BY <1>5 DEF PluginHandleDetect, At
<1>6. CASE PluginCompleteDetect
  BY <1>6 DEF PluginCompleteDetect, Return
<1>7. CASE TypeDetectEvent
  BY <1>7 DEF TypeDetectEvent, At, Return
<1>8. CASE ButtonDetectEvent
  BY <1>8 DEF ButtonDetectEvent, At
<1>9. CASE PluginWhilePlaying
  BY <1>9 DEF PluginWhilePlaying, At, HeadphonesOn
<1>10. CASE PluginInputs
  BY <1>10 DEF PluginInputs, Return
<1>11. CASE UnplugEvent
  BY <1>11 DEF UnplugEvent, At
<1>12. CASE UnplugHeadsetOff
  BY <1>12 DEF UnplugHeadsetOff, At, HeadphonesOn
<1>13. CASE UnplugAmpsOn
  BY <1>13 DEF UnplugAmpsOn, At
<1>14. CASE UnplugReset
  BY <1>14 DEF UnplugReset, Return
<1>15. CASE BlockUnsol
  BY <1>15 DEF BlockUnsol, Goto
<1>16. CASE HeadsetOutputOn
  BY <1>16 DEF HeadsetOutputOn, Proceed, Goto, OutputNeeded, AfterOutput, Enabled, HeadphonesOn
<1>17. CASE HeadsetInputOn
  BY <1>17 DEF HeadsetInputOn, Proceed, Goto, Enabled
<1>18. CASE HeadsetInputOff
  BY <1>18 DEF HeadsetInputOff, Proceed, Goto
<1>19. CASE HeadsetOutputOff
  BY <1>19 DEF HeadsetOutputOff, Proceed, Goto, OutputEnds, HeadphonesOn
<1>20. CASE HeadsetMark
  BY <1>20 DEF HeadsetMark, Proceed, Goto, AfterOutput, AfterInput
<1>21. CASE InternalSetUp
  BY <1>21 DEF InternalSetUp, Goto
<1>22. CASE InternalCleanUp
  BY <1>22 DEF InternalCleanUp, Goto
<1>23. CASE RealDrain
  BY <1>23 DEF RealDrain, Goto, Drain, Handle
<1>24. CASE RealUnblock
  BY <1>24 DEF RealUnblock, Proceed, Goto
<1>25. CASE HookUnblock
  BY <1>25 DEF HookUnblock, Goto
<1>26. CASE HookDrain
  BY <1>26 DEF HookDrain, Goto, Drain, Handle
<1>27. CASE HookDone
  <2>1. pc' = "idle" /\ stream' = stream
    BY <1>27 DEF HookDone, Goto
  <2>2. \A s \in Stream : s # stream => active'[s] = active[s] /\ init_count'[s] = init_count[s]
    BY <1>27 DEF HookDone
  <2>3. \A s \in Stream : s # stream => (active[s] <=> init_count[s] > 0)
    OBVIOUS
  <2>4. active'[stream] <=> init_count'[stream] > 0
    <3>1. CASE op = "prepare"
      <4>1. active'[stream] /\ init_count' = init_count
        BY <1>27, <3>1 DEF HookDone
      <4>2. init_count[stream] > 0
        BY <1>27, <3>1 DEF HookDone, Goto
      <4> QED BY <4>1, <4>2
    <3>2. CASE op = "cleanup"
      <4>1. active'[stream] = (op = "prepare") /\ init_count'[stream] = 0
        BY <1>27, <3>2 DEF HookDone
      <4>2. ~active'[stream]
        BY <4>1, <3>2, Zenon
      <4> QED BY <4>1, <4>2
    <3> QED BY <3>1, <3>2
  <2> QED BY <2>1, <2>2, <2>3, <2>4
<1>28. CASE MovePlug
  BY <1>28 DEF MovePlug, Busy
<1>29. ASSUME NEW s \in Stream, Prepare(s) PROVE Goal
  BY <1>29 DEF Prepare, Begin, Busy
<1>30. ASSUME NEW s \in Stream, Cleanup(s) PROVE Goal
  BY <1>30 DEF Cleanup, Begin, Busy
<1>31. CASE UNCHANGED vars
  BY <1>31 DEF vars
<1> QED
  BY <1>1, <1>2, <1>3, <1>4, <1>5, <1>6, <1>7, <1>8, <1>9, <1>10, <1>11, <1>12, <1>13,
     <1>14, <1>15, <1>16, <1>17, <1>18, <1>19, <1>20, <1>21, <1>22, <1>23, <1>24, <1>25,
     <1>26, <1>27, <1>28, <1>29, <1>30, <1>31
  DEF Next, WorkerStep, EventStep, PcmStep, PcmCall

\* A set-up output keeps its clock.
LEMMA MarkedStep ==
  ASSUME TypeOK, Single, Sensed, Apart, Known, Chosen, Marked,
         [Next]_vars
  PROVE  Marked'
<1> DEFINE Goal == Marked'
<1> USE DEF TypeOK, Single, Sensed, Apart, Known, Chosen, Marked,
           Alone, Busy, Plugging, Unplugging, bus, doing, jack, flags, call, hist
<1> USE MaxInitAssumption
<1>1. CASE UnsolStore
  BY <1>1 DEF UnsolStore
<1>2. CASE UnsolHandle
  BY <1>2 DEF UnsolHandle, Handle
<1>3. CASE UnsolList
  BY <1>3 DEF UnsolList, Drain, Handle
<1>4. CASE UnsolUnblock
  BY <1>4 DEF UnsolUnblock
<1>5. CASE PluginHandleDetect
  BY <1>5 DEF PluginHandleDetect, At
<1>6. CASE PluginCompleteDetect
  BY <1>6 DEF PluginCompleteDetect, Return
<1>7. CASE TypeDetectEvent
  BY <1>7 DEF TypeDetectEvent, At, Return
<1>8. CASE ButtonDetectEvent
  BY <1>8 DEF ButtonDetectEvent, At
<1>9. CASE PluginWhilePlaying
  BY <1>9 DEF PluginWhilePlaying, At, HeadphonesOn
<1>10. CASE PluginInputs
  BY <1>10 DEF PluginInputs, Return
<1>11. CASE UnplugEvent
  BY <1>11 DEF UnplugEvent, At
<1>12. CASE UnplugHeadsetOff
  BY <1>12 DEF UnplugHeadsetOff, At, HeadphonesOn
<1>13. CASE UnplugAmpsOn
  BY <1>13 DEF UnplugAmpsOn, At
<1>14. CASE UnplugReset
  BY <1>14 DEF UnplugReset, Return
<1>15. CASE BlockUnsol
  BY <1>15 DEF BlockUnsol, Goto
<1>16. CASE HeadsetOutputOn
  BY <1>16 DEF HeadsetOutputOn, Proceed, Goto, OutputNeeded, AfterOutput, Enabled, HeadphonesOn
<1>17. CASE HeadsetInputOn
  BY <1>17 DEF HeadsetInputOn, Proceed, Goto, Enabled
<1>18. CASE HeadsetInputOff
  BY <1>18 DEF HeadsetInputOff, Proceed, Goto
<1>19. CASE HeadsetOutputOff
  BY <1>19 DEF HeadsetOutputOff, Proceed, Goto, OutputEnds, HeadphonesOn
<1>20. CASE HeadsetMark
  BY <1>20 DEF HeadsetMark, Proceed, Goto, AfterOutput, AfterInput
<1>21. CASE InternalSetUp
  BY <1>21 DEF InternalSetUp, Goto
<1>22. CASE InternalCleanUp
  BY <1>22 DEF InternalCleanUp, Goto
<1>23. CASE RealDrain
  BY <1>23 DEF RealDrain, Goto, Drain, Handle
<1>24. CASE RealUnblock
  BY <1>24 DEF RealUnblock, Proceed, Goto
<1>25. CASE HookUnblock
  BY <1>25 DEF HookUnblock, Goto
<1>26. CASE HookDrain
  BY <1>26 DEF HookDrain, Goto, Drain, Handle
<1>27. CASE HookDone
  BY <1>27 DEF HookDone, Goto
<1>28. CASE MovePlug
  BY <1>28 DEF MovePlug, Busy
<1>29. ASSUME NEW s \in Stream, Prepare(s) PROVE Goal
  BY <1>29 DEF Prepare, Begin, Busy
<1>30. ASSUME NEW s \in Stream, Cleanup(s) PROVE Goal
  BY <1>30 DEF Cleanup, Begin, Busy
<1>31. CASE UNCHANGED vars
  BY <1>31 DEF vars
<1> QED
  BY <1>1, <1>2, <1>3, <1>4, <1>5, <1>6, <1>7, <1>8, <1>9, <1>10, <1>11, <1>12, <1>13,
     <1>14, <1>15, <1>16, <1>17, <1>18, <1>19, <1>20, <1>21, <1>22, <1>23, <1>24, <1>25,
     <1>26, <1>27, <1>28, <1>29, <1>30, <1>31
  DEF Next, WorkerStep, EventStep, PcmStep, PcmCall

\* The internal microphone comes and goes with a capture.
LEMMA InputsOwnedStep ==
  ASSUME TypeOK, Single, Apart, Known, Chosen, Counted, Marked, MikeKept, InputsOwned,
         [Next]_vars
  PROVE  InputsOwned'
<1> DEFINE Goal == InputsOwned'
<1> USE DEF TypeOK, Single, Apart, Known, Chosen, Counted, Marked, MikeKept, MikeOn,
           InputsOwned, Orderly, SetUp,
           Alone, Busy, Plugging, Unplugging, bus, doing, jack, flags, call, hist
<1> USE MaxInitAssumption
<1>1. CASE UnsolStore
  BY <1>1 DEF UnsolStore
<1>2. CASE UnsolHandle
  BY <1>2 DEF UnsolHandle, Handle
<1>3. CASE UnsolList
  BY <1>3 DEF UnsolList, Drain, Handle
<1>4. CASE UnsolUnblock
  BY <1>4 DEF UnsolUnblock
<1>5. CASE PluginHandleDetect
  BY <1>5 DEF PluginHandleDetect, At
<1>6. CASE PluginCompleteDetect
  BY <1>6 DEF PluginCompleteDetect, Return
<1>7. CASE TypeDetectEvent
  BY <1>7 DEF TypeDetectEvent, At, Return
<1>8. CASE ButtonDetectEvent
  BY <1>8 DEF ButtonDetectEvent, At
<1>9. CASE PluginWhilePlaying
  BY <1>9 DEF PluginWhilePlaying, At, HeadphonesOn
<1>10. CASE PluginInputs
  BY <1>10 DEF PluginInputs, Return
<1>11. CASE UnplugEvent
  BY <1>11 DEF UnplugEvent, At
<1>12. CASE UnplugHeadsetOff
  BY <1>12 DEF UnplugHeadsetOff, At, HeadphonesOn
<1>13. CASE UnplugAmpsOn
  BY <1>13 DEF UnplugAmpsOn, At
<1>14. CASE UnplugReset
  BY <1>14 DEF UnplugReset, Return
<1>15. CASE BlockUnsol
  BY <1>15 DEF BlockUnsol, Goto
<1>16. CASE HeadsetOutputOn
  BY <1>16 DEF HeadsetOutputOn, Proceed, Goto, OutputNeeded, AfterOutput, Enabled, HeadphonesOn
<1>17. CASE HeadsetInputOn
  BY <1>17 DEF HeadsetInputOn, Proceed, Goto, Enabled
<1>18. CASE HeadsetInputOff
  BY <1>18 DEF HeadsetInputOff, Proceed, Goto
<1>19. CASE HeadsetOutputOff
  BY <1>19 DEF HeadsetOutputOff, Proceed, Goto, OutputEnds, HeadphonesOn
<1>20. CASE HeadsetMark
  BY <1>20 DEF HeadsetMark, Proceed, Goto, AfterOutput, AfterInput
<1>21. CASE InternalSetUp
  BY <1>21 DEF InternalSetUp, Goto
<1>22. CASE InternalCleanUp
  BY <1>22 DEF InternalCleanUp, Goto
<1>23. CASE RealDrain
  BY <1>23 DEF RealDrain, Goto, Drain, Handle
<1>24. CASE RealUnblock
  BY <1>24 DEF RealUnblock, Proceed, Goto
<1>25. CASE HookUnblock
  BY <1>25 DEF HookUnblock, Goto
<1>26. CASE HookDrain
  BY <1>26 DEF HookDrain, Goto, Drain, Handle
<1>27. CASE HookDone
  BY <1>27 DEF HookDone, Goto
<1>28. CASE MovePlug
  BY <1>28 DEF MovePlug, Busy
<1>29. ASSUME NEW s \in Stream, Prepare(s) PROVE Goal
  BY <1>29 DEF Prepare, Begin, Busy
<1>30. ASSUME NEW s \in Stream, Cleanup(s) PROVE Goal
  BY <1>30 DEF Cleanup, Begin, Busy
<1>31. CASE UNCHANGED vars
  BY <1>31 DEF vars
<1> QED
  BY <1>1, <1>2, <1>3, <1>4, <1>5, <1>6, <1>7, <1>8, <1>9, <1>10, <1>11, <1>12, <1>13,
     <1>14, <1>15, <1>16, <1>17, <1>18, <1>19, <1>20, <1>21, <1>22, <1>23, <1>24, <1>25,
     <1>26, <1>27, <1>28, <1>29, <1>30, <1>31
  DEF Next, WorkerStep, EventStep, PcmStep, PcmCall

\* A capture is left alone by jack events, and by playback unless it is cleaned up.
LEMMA InputKeptStep ==
  ASSUME TypeOK, Single, Apart, Known, Chosen, Counted, Marked, MikeKept, InputsOwned,
         InputKept,
         [Next]_vars
  PROVE  InputKept'
<1> DEFINE Goal == InputKept'
<1> USE DEF TypeOK, Single, Apart, Known, Chosen, Counted, Marked, MikeKept, MikeOn,
           InputsOwned, InputKept, Capturing, Orderly, SetUp,
           Alone, Busy, Plugging, Unplugging, bus, doing, jack, flags, call, hist
<1> USE MaxInitAssumption
<1>1. CASE UnsolStore
  BY <1>1 DEF UnsolStore
<1>2. CASE UnsolHandle
  BY <1>2 DEF UnsolHandle, Handle
<1>3. CASE UnsolList
  BY <1>3 DEF UnsolList, Drain, Handle
<1>4. CASE UnsolUnblock
  BY <1>4 DEF UnsolUnblock
<1>5. CASE PluginHandleDetect
  BY <1>5 DEF PluginHandleDetect, At
<1>6. CASE PluginCompleteDetect
  BY <1>6 DEF PluginCompleteDetect, Return
<1>7. CASE TypeDetectEvent
  BY <1>7 DEF TypeDetectEvent, At, Return
<1>8. CASE ButtonDetectEvent
  BY <1>8 DEF ButtonDetectEvent, At
<1>9. CASE PluginWhilePlaying
  BY <1>9 DEF PluginWhilePlaying, At, HeadphonesOn
<1>10. CASE PluginInputs
  BY <1>10 DEF PluginInputs, Return
<1>11. CASE UnplugEvent
  BY <1>11 DEF UnplugEvent, At
<1>12. CASE UnplugHeadsetOff
  BY <1>12 DEF UnplugHeadsetOff, At, HeadphonesOn
<1>13. CASE UnplugAmpsOn
  BY <1>13 DEF UnplugAmpsOn, At
<1>14. CASE UnplugReset
  BY <1>14 DEF UnplugReset, Return
<1>15. CASE BlockUnsol
  BY <1>15 DEF BlockUnsol, Goto
<1>16. CASE HeadsetOutputOn
  BY <1>16 DEF HeadsetOutputOn, Proceed, Goto, OutputNeeded, AfterOutput, Enabled, HeadphonesOn
<1>17. CASE HeadsetInputOn
  BY <1>17 DEF HeadsetInputOn, Proceed, Goto, Enabled
<1>18. CASE HeadsetInputOff
  BY <1>18 DEF HeadsetInputOff, Proceed, Goto
<1>19. CASE HeadsetOutputOff
  BY <1>19 DEF HeadsetOutputOff, Proceed, Goto, OutputEnds, HeadphonesOn
<1>20. CASE HeadsetMark
  BY <1>20 DEF HeadsetMark, Proceed, Goto, AfterOutput, AfterInput
<1>21. CASE InternalSetUp
  BY <1>21 DEF InternalSetUp, Goto
<1>22. CASE InternalCleanUp
  BY <1>22 DEF InternalCleanUp, Goto
<1>23. CASE RealDrain
  BY <1>23 DEF RealDrain, Goto, Drain, Handle
<1>24. CASE RealUnblock
  BY <1>24 DEF RealUnblock, Proceed, Goto
<1>25. CASE HookUnblock
  BY <1>25 DEF HookUnblock, Goto
<1>26. CASE HookDrain
  BY <1>26 DEF HookDrain, Goto, Drain, Handle
<1>27. CASE HookDone
  BY <1>27 DEF HookDone, Goto
<1>28. CASE MovePlug
  BY <1>28 DEF MovePlug, Busy
<1>29. ASSUME NEW s \in Stream, Prepare(s) PROVE Goal
  BY <1>29 DEF Prepare, Begin, Busy
<1>30. ASSUME NEW s \in Stream, Cleanup(s) PROVE Goal
  BY <1>30 DEF Cleanup, Begin, Busy
<1>31. CASE UNCHANGED vars
  BY <1>31 DEF vars
<1> QED
  BY <1>1, <1>2, <1>3, <1>4, <1>5, <1>6, <1>7, <1>8, <1>9, <1>10, <1>11, <1>12, <1>13,
     <1>14, <1>15, <1>16, <1>17, <1>18, <1>19, <1>20, <1>21, <1>22, <1>23, <1>24, <1>25,
     <1>26, <1>27, <1>28, <1>29, <1>30, <1>31
  DEF Next, WorkerStep, EventStep, PcmStep, PcmCall

\* Nothing crosses an operation of an orderly user.
LEMMA OutputOwnedStep ==
  ASSUME TypeOK, Single, Apart, Known, Chosen, Counted, Marked, MikeKept, OutputOwned,
         [Next]_vars
  PROVE  OutputOwned'
<1> DEFINE Goal == OutputOwned'
<1> USE DEF TypeOK, Single, Apart, Known, Chosen, Counted, Marked, MikeKept, OutputOwned,
           Orderly, SetUp,
           Alone, Busy, Plugging, Unplugging, bus, doing, jack, flags, call, hist
<1> USE MaxInitAssumption
<1>1. CASE UnsolStore
  BY <1>1 DEF UnsolStore
<1>2. CASE UnsolHandle
  BY <1>2 DEF UnsolHandle, Handle
<1>3. CASE UnsolList
  BY <1>3 DEF UnsolList, Drain, Handle
<1>4. CASE UnsolUnblock
  BY <1>4 DEF UnsolUnblock
<1>5. CASE PluginHandleDetect
  BY <1>5 DEF PluginHandleDetect, At
<1>6. CASE PluginCompleteDetect
  BY <1>6 DEF PluginCompleteDetect, Return
<1>7. CASE TypeDetectEvent
  BY <1>7 DEF TypeDetectEvent, At, Return
<1>8. CASE ButtonDetectEvent
  BY <1>8 DEF ButtonDetectEvent, At
<1>9. CASE PluginWhilePlaying
  BY <1>9 DEF PluginWhilePlaying, At, HeadphonesOn
<1>10. CASE PluginInputs
  BY <1>10 DEF PluginInputs, Return
<1>11. CASE UnplugEvent
  BY <1>11 DEF UnplugEvent, At
<1>12. CASE UnplugHeadsetOff
  BY <1>12 DEF UnplugHeadsetOff, At, HeadphonesOn
<1>13. CASE UnplugAmpsOn
  BY <1>13 DEF UnplugAmpsOn, At
<1>14. CASE UnplugReset
  BY <1>14 DEF UnplugReset, Return
<1>15. CASE BlockUnsol
  BY <1>15 DEF BlockUnsol, Goto
<1>16. CASE HeadsetOutputOn
  BY <1>16 DEF HeadsetOutputOn, Proceed, Goto, OutputNeeded, AfterOutput, Enabled, HeadphonesOn
<1>17. CASE HeadsetInputOn
  BY <1>17 DEF HeadsetInputOn, Proceed, Goto, Enabled
<1>18. CASE HeadsetInputOff
  BY <1>18 DEF HeadsetInputOff, Proceed, Goto
<1>19. CASE HeadsetOutputOff
  BY <1>19 DEF HeadsetOutputOff, Proceed, Goto, OutputEnds, HeadphonesOn
<1>20. CASE HeadsetMark
  BY <1>20 DEF HeadsetMark, Proceed, Goto, AfterOutput, AfterInput
<1>21. CASE InternalSetUp
  BY <1>21 DEF InternalSetUp, Goto
<1>22. CASE InternalCleanUp
  BY <1>22 DEF InternalCleanUp, Goto
<1>23. CASE RealDrain
  BY <1>23 DEF RealDrain, Goto, Drain, Handle
<1>24. CASE RealUnblock
  BY <1>24 DEF RealUnblock, Proceed, Goto
<1>25. CASE HookUnblock
  BY <1>25 DEF HookUnblock, Goto
<1>26. CASE HookDrain
  BY <1>26 DEF HookDrain, Goto, Drain, Handle
<1>27. CASE HookDone
  BY <1>27 DEF HookDone, Goto
<1>28. CASE MovePlug
  BY <1>28 DEF MovePlug, Busy
<1>29. ASSUME NEW s \in Stream, Prepare(s) PROVE Goal
  BY <1>29 DEF Prepare, Begin, Busy
<1>30. ASSUME NEW s \in Stream, Cleanup(s) PROVE Goal
  BY <1>30 DEF Cleanup, Begin, Busy
<1>31. CASE UNCHANGED vars
  BY <1>31 DEF vars
<1> QED
  BY <1>1, <1>2, <1>3, <1>4, <1>5, <1>6, <1>7, <1>8, <1>9, <1>10, <1>11, <1>12, <1>13,
     <1>14, <1>15, <1>16, <1>17, <1>18, <1>19, <1>20, <1>21, <1>22, <1>23, <1>24, <1>25,
     <1>26, <1>27, <1>28, <1>29, <1>30, <1>31
  DEF Next, WorkerStep, EventStep, PcmStep, PcmCall

\* The output goes with the jack.
LEMMA OutputKeptStep ==
  ASSUME TypeOK, Single, Apart, Known, Chosen, Counted, Marked, InputsOwned,
         OutputOwned, OutputKept,
         [Next]_vars
  PROVE  OutputKept'
<1> DEFINE Goal == OutputKept'
<1> USE DEF TypeOK, Single, Apart, Known, Chosen, Counted, Marked, InputsOwned,
           OutputOwned, OutputKept, Orderly, SetUp, OutputIs, Output, OutputOf, HeadphonesOn,
           Alone, Busy, Plugging, Unplugging, bus, doing, jack, flags, call, hist
<1> USE MaxInitAssumption
<1>1. CASE UnsolStore
  BY <1>1 DEF UnsolStore
<1>2. CASE UnsolHandle
  BY <1>2 DEF UnsolHandle, Handle
<1>3. CASE UnsolList
  BY <1>3 DEF UnsolList, Drain, Handle
<1>4. CASE UnsolUnblock
  BY <1>4 DEF UnsolUnblock
<1>5. CASE PluginHandleDetect
  BY <1>5 DEF PluginHandleDetect, At
<1>6. CASE PluginCompleteDetect
  BY <1>6 DEF PluginCompleteDetect, Return
<1>7. CASE TypeDetectEvent
  BY <1>7 DEF TypeDetectEvent, At, Return
<1>8. CASE ButtonDetectEvent
  BY <1>8 DEF ButtonDetectEvent, At
<1>9. CASE PluginWhilePlaying
  BY <1>9 DEF PluginWhilePlaying, At, HeadphonesOn
<1>10. CASE PluginInputs
  BY <1>10 DEF PluginInputs, Return
<1>11. CASE UnplugEvent
  BY <1>11 DEF UnplugEvent, At
<1>12. CASE UnplugHeadsetOff
  BY <1>12 DEF UnplugHeadsetOff, At, HeadphonesOn
<1>13. CASE UnplugAmpsOn
  BY <1>13 DEF UnplugAmpsOn, At
<1>14. CASE UnplugReset
  BY <1>14 DEF UnplugReset, Return
<1>15. CASE BlockUnsol
  BY <1>15 DEF BlockUnsol, Goto
<1>16. CASE HeadsetOutputOn
  BY <1>16 DEF HeadsetOutputOn, Proceed, Goto, OutputNeeded, AfterOutput, Enabled, HeadphonesOn
<1>17. CASE HeadsetInputOn
  BY <1>17 DEF HeadsetInputOn, Proceed, Goto, Enabled
<1>18. CASE HeadsetInputOff
  BY <1>18 DEF HeadsetInputOff, Proceed, Goto
<1>19. CASE HeadsetOutputOff
  BY <1>19 DEF HeadsetOutputOff, Proceed, Goto, OutputEnds, HeadphonesOn
<1>20. CASE HeadsetMark
  BY <1>20 DEF HeadsetMark, Proceed, Goto, AfterOutput, AfterInput
<1>21. CASE InternalSetUp
  BY <1>21 DEF InternalSetUp, Goto
<1>22. CASE InternalCleanUp
  BY <1>22 DEF InternalCleanUp, Goto
<1>23. CASE RealDrain
  BY <1>23 DEF RealDrain, Goto, Drain, Handle
<1>24. CASE RealUnblock
  BY <1>24 DEF RealUnblock, Proceed, Goto
<1>25. CASE HookUnblock
  BY <1>25 DEF HookUnblock, Goto
<1>26. CASE HookDrain
  BY <1>26 DEF HookDrain, Goto, Drain, Handle
<1>27. CASE HookDone
  BY <1>27 DEF HookDone, Goto
<1>28. CASE MovePlug
  BY <1>28 DEF MovePlug, Busy
<1>29. ASSUME NEW s \in Stream, Prepare(s) PROVE Goal
  BY <1>29 DEF Prepare, Begin, Busy
<1>30. ASSUME NEW s \in Stream, Cleanup(s) PROVE Goal
  BY <1>30 DEF Cleanup, Begin, Busy
<1>31. CASE UNCHANGED vars
  BY <1>31 DEF vars
<1> QED
  BY <1>1, <1>2, <1>3, <1>4, <1>5, <1>6, <1>7, <1>8, <1>9, <1>10, <1>11, <1>12, <1>13,
     <1>14, <1>15, <1>16, <1>17, <1>18, <1>19, <1>20, <1>21, <1>22, <1>23, <1>24, <1>25,
     <1>26, <1>27, <1>28, <1>29, <1>30, <1>31
  DEF Next, WorkerStep, EventStep, PcmStep, PcmCall

-----------------------------------------------------------------------------
(* The inductive invariant.                                                *)

UnitsInv ==
  /\ Inv
  /\ Counted /\ Marked
  /\ InputsOwned /\ InputKept /\ OutputOwned /\ OutputKept

\* The initial state satisfies the inductive invariant.
LEMMA UnitsInit == Init => UnitsInv
<1> SUFFICES ASSUME Init PROVE UnitsInv
  OBVIOUS
<1>1. Inv
  BY InvInit
<1>2. Counted /\ Marked
  BY DEF Init, Counted, Marked
<1>3. InputsOwned /\ InputKept
  BY DEF Init, InputsOwned, InputKept, Capturing, SetUp
<1>4. OutputOwned /\ OutputKept
  BY DEF Init, OutputOwned, OutputKept, OutputIs, Output, SetUp, Plugging
<1> QED BY <1>1, <1>2, <1>3, <1>4 DEF UnitsInv

\* Every step keeps the inductive invariant.
LEMMA UnitsStep == UnitsInv /\ [Next]_vars => UnitsInv'
<1> SUFFICES ASSUME UnitsInv, [Next]_vars PROVE UnitsInv'
  OBVIOUS
<1> USE DEF UnitsInv
<1>1. TypeOK /\ Single /\ Sensed /\ Apart /\ Known /\ Chosen /\ MikeKept
  BY DEF Inv
<1>2. Inv'
  BY InvStep
<1>3. Counted' /\ Marked'
  BY <1>1, CountedStep, MarkedStep
<1>4. InputsOwned' /\ InputKept'
  BY <1>1, InputsOwnedStep, InputKeptStep
<1>5. OutputOwned' /\ OutputKept'
  BY <1>1, OutputOwnedStep, OutputKeptStep
<1> QED BY <1>2, <1>3, <1>4, <1>5

-----------------------------------------------------------------------------
(* The theorems.                                                           *)

\* The inductive invariant holds in every reachable state.
THEOREM UnitsInvariance == Spec => []UnitsInv
<1> QED BY UnitsInit, UnitsStep, PTL DEF Spec

\* A running playback has the output of the jack at rest, whatever the user has
\* prepared, cleaned up and plugged before, one thing at a time.
THEOREM OutputIsOfTheJack == Spec => []OutputFollowsJack
<1>1. UnitsInv => OutputFollowsJack
  <2> SUFFICES ASSUME UnitsInv, Orderly, AtRest, active["playback"]
               PROVE  on \cap {"speakers", "headphones", "clock"} = OutputOf(headset)
    BY DEF OutputFollowsJack, OutputFollows, Orderly
  <2>1. Output = OutputOf(headset)
    BY DEF UnitsInv, Inv, TypeOK, AtRest, Busy, SetUp, Output, OutputOf, Plugging
  <2>2. OutputIs(OutputOf(headset))
    BY <2>1 DEF UnitsInv, OutputKept
  <2>3. OutputOf(headset) \subseteq {"speakers", "headphones", "clock"}
    BY DEF OutputOf, HeadphonesOn
  <2> QED BY <2>2, <2>3 DEF OutputIs
<1> QED BY <1>1, UnitsInvariance, PTL

\* Nothing is left on when both streams are closed.
THEOREM NothingIsLeftOn == Spec => []QuietWhenClosed
<1>1. UnitsInv => QuietWhenClosed
  <2> SUFFICES ASSUME UnitsInv, AtRest, Orderly, \A s \in Stream : init_count[s] = 0
               PROVE  on = {}
    BY DEF QuietWhenClosed, Orderly
  <2>1. "internal_mike" \notin on /\ setup_needed["capture"]
    BY DEF UnitsInv, InputsOwned
  <2>2. "headset_mike" \notin on
    BY <2>1 DEF UnitsInv, Inv, MikeKept, MikeOn, Alone, Orderly, AtRest, Busy
  <2>3. ~active["playback"] /\ setup_needed["playback"]
    BY DEF UnitsInv, Counted, OutputOwned, AtRest
  <2>4. OutputIs({})
    BY <2>3 DEF UnitsInv, OutputKept, Output, AtRest, Busy, SetUp
  <2> QED BY <2>1, <2>2, <2>4 DEF OutputIs, UnitsInv, Inv, TypeOK
<1> QED BY <1>1, UnitsInvariance, PTL

\* A running capture has the microphone of the jack at rest, whatever came before
\* one thing at a time, if playback was not cleaned up meanwhile.
THEOREM InputIsOfTheJack == Spec => []CaptureFollowsJack
<1>1. UnitsInv => CaptureFollowsJack
  <2> SUFFICES ASSUME UnitsInv, AtRest, Orderly, ~starved, active["capture"]
               PROVE  /\ on \cap {"internal_mike", "headset_mike"} = InputOf(headset)
                      /\ headset = "mic" => "clock" \in on
    BY DEF CaptureFollowsJack, Orderly
  <2>1. Capturing
    BY DEF UnitsInv, Counted, Capturing, AtRest
  <2>2. cause = "none" /\ event = "none" /\ (have_mike <=> headset = "mic")
    BY DEF UnitsInv, Inv, Known, AtRest, Busy
  <2>3. "internal_mike" \in on <=> headset = "none"
    BY <2>1 DEF UnitsInv, InputsOwned, InputKept
  <2>4. headset = "mic" => ~setup_needed["playback"] /\ ~setup_needed["capture"]
    BY <2>1 DEF UnitsInv, InputKept
  <2>5. "headset_mike" \in on <=> headset = "mic"
    BY <2>2, <2>4 DEF UnitsInv, Inv, MikeKept, MikeOn, Alone, Orderly, AtRest
  <2>6. headset = "mic" => "clock" \in on
    BY <2>2, <2>4 DEF UnitsInv, Marked, Alone, Orderly, AtRest
  <2> QED BY <2>3, <2>5, <2>6 DEF InputOf
<1> QED BY <1>1, UnitsInvariance, PTL
=============================================================================
