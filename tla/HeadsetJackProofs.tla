--------------------------- MODULE HeadsetJackProofs ---------------------------
(***************************************************************************)
(* Proofs about HeadsetJack for any limit of the status loop and any       *)
(* number of moves of the plug and presses of a button: its type           *)
(* invariant, that a low interrupt line is always attended to, that the    *)
(* driver listens for the event that would change its mind, and that       *)
(* nothing of a lost headset stays behind.                                 *)
(***************************************************************************)
EXTENDS HeadsetJack, TLAPS

\* The pcs between which the masks fit what jack_present says.
Settled == {"idle", "gpio", "read", "check", "action", "type", "buttons",
            "continued", "report", "unplug", "plug_read", "plug_mask"}

\* Only plug, unplug and press can call, and plug does.
Quiet == "plug" \notin masked /\ Det2 \subseteq masked /\ Cdc \subseteq masked

\* How the masks and the flags fit together at every pc.
Mode ==
  /\ pc \in Settled =>
       IF jack_present = 1 THEN "unplug" \notin masked /\ "plug" \in masked
                           ELSE Quiet /\ ~have_mike
  /\ pc \in {"type", "buttons", "continued", "report",
             "auto_int", "unplug_read", "unplug_mask", "detect_on"} => jack_present = 1
  /\ pc \in {"plug", "sleep"} => Quiet /\ ~have_mike
  /\ pc = "sleep" => jack_present = 2
  /\ pc = "detect_on" => "unplug" \notin masked /\ "plug" \in masked
  /\ pc \in {"disconnect", "resetup", "reset"} => Quiet

Inv == TypeOK /\ LineAttended /\ Mode

USE DEF Headset, Det1, Det2, Cdc, Cause

-----------------------------------------------------------------------------
(* The inductive invariant.                                                *)

\* The initial state satisfies the inductive invariant.
LEMMA InvInit == Init => Inv
<1> SUFFICES ASSUME Init PROVE Inv
  OBVIOUS
<1>1. TypeOK
  <2>1. loopcnt \in 0 .. LoopMax /\ moves \in 0 .. MaxMoves /\ presses \in 0 .. MaxPress
    BY LoopMaxAssumption, MaxMovesAssumption, MaxPressAssumption DEF Init
  <2>2. jack_present \in 0 .. 2
    BY DEF Init
  <2> QED BY <2>1, <2>2 DEF Init, TypeOK
<1>2. LineAttended
  BY DEF Init, LineAttended, LineLow
<1>3. Mode
  BY DEF Init, Mode, Settled, Quiet
<1> QED BY <1>1, <1>2, <1>3 DEF Inv

\* Every step keeps the types.
LEMMA TypeStep ==
  ASSUME TypeOK, [Next]_vars
  PROVE  TypeOK'
<1> DEFINE Goal == TypeOK'
<1> USE LoopMaxAssumption, MaxMovesAssumption, MaxPressAssumption
    DEF TypeOK, Goto, Chip, chip, unit, loop, spec, user, env
<1>1. CASE UnsolDeliver
  BY <1>1 DEF UnsolDeliver
<1>2. CASE GpioCheck
  BY <1>2 DEF GpioCheck
<1>3. CASE ReadStatus
  BY <1>3 DEF ReadStatus
<1>4. CASE LoopCheck
  BY <1>4 DEF LoopCheck
<1>5. CASE InterruptAction
  BY <1>5 DEF InterruptAction, ActionOf
<1>6. CASE PluginHandleDetect
  BY <1>6 DEF PluginHandleDetect
<1>7. CASE PluginCompleteDetect
  BY <1>7 DEF PluginCompleteDetect
<1>8. CASE EnableAutoInt
  BY <1>8 DEF EnableAutoInt
<1>9. CASE UnplugSetupRead
  BY <1>9 DEF UnplugSetupRead
<1>10. CASE UnplugSetupMask
  BY <1>10 DEF UnplugSetupMask
<1>11. CASE HeadsetDetectOn
  BY <1>11 DEF HeadsetDetectOn
<1>12. CASE TypeDetectEvent
  BY <1>12 DEF TypeDetectEvent
<1>13. CASE ButtonDetectEvent
  BY <1>13 DEF ButtonDetectEvent
<1>14. CASE PluginEventContinued
  BY <1>14 DEF PluginEventContinued
<1>15. CASE ReportSync
  BY <1>15 DEF ReportSync, Report
<1>16. CASE UnplugEvent
  BY <1>16 DEF UnplugEvent
<1>17. CASE PluginSetupRead
  BY <1>17 DEF PluginSetupRead
<1>18. CASE PluginSetupMask
  BY <1>18 DEF PluginSetupMask
<1>19. CASE UnplugHandleDisconnect
  <2>1. CASE Sensed
    <3>1. pc' = "reset" /\ UNCHANGED <<chip, unit, loop, spec, user, env>>
      BY <1>19, <2>1, Zenon DEF UnplugHandleDisconnect
    <3> QED BY <3>1
  <2>2. CASE ~Sensed
    <3>1. reported' \in BOOLEAN /\ jack_dirty' \in BOOLEAN
      BY <1>19, <2>2, Zenon DEF UnplugHandleDisconnect, Report
    <3>2. /\ pc' = "resetup" /\ jack_present' = 0
          /\ UNCHANGED <<chip, unit, loop, have_mike, mike_input, env>>
      BY <1>19, <2>2, Zenon DEF UnplugHandleDisconnect
    <3>3. jack_present' \in 0 .. 2
      BY <3>2
    <3> QED BY <3>1, <3>2, <3>3
  <2> QED BY <2>1, <2>2
<1>20. CASE UnplugResetup
  BY <1>20 DEF UnplugResetup
<1>21. CASE UnplugReset
  <2>1. jack_present' \in 0 .. 2
    BY <1>21 DEF UnplugReset
  <2> QED BY <1>21, <2>1 DEF UnplugReset
<1>22. ASSUME NEW h \in Headset, MovePlug(h)
       PROVE  Goal
  <2>1. hasty' \in BOOLEAN /\ missed' \in BOOLEAN
    BY <1>22, Zenon DEF MovePlug, Raise
  <2> QED BY <1>22, <2>1 DEF MovePlug, Raise
<1>23. ASSUME NEW cause \in {"press", "toggle"}, PressButton(cause)
       PROVE  Goal
  <2>1. missed' \in BOOLEAN
    BY <1>23, Zenon DEF PressButton, Raise
  <2> QED BY <1>23, <2>1 DEF PressButton, Raise
<1>24. CASE AutoDone
  <2>1. ur' \in BOOLEAN /\ missed' \in BOOLEAN
    BY <1>24, Zenon DEF AutoDone, Raise
  <2>2. hstype' \in {"plain", "mic"}
    BY <1>24 DEF AutoDone
  <2>3. status' \in SUBSET Cause /\ masked' \in SUBSET Cause
    BY <1>24 DEF AutoDone, Raise
  <2> QED BY <1>24, <2>1, <2>2, <2>3 DEF AutoDone
<1>25. CASE ButtonsFound
  <2>1. missed' \in BOOLEAN
    BY <1>25, Zenon DEF ButtonsFound, Raise
  <2> QED BY <1>25, <2>1 DEF ButtonsFound, Raise
<1>26. CASE UNCHANGED vars
  BY <1>26 DEF vars
<1> QED BY <1>1, <1>2, <1>3, <1>4, <1>5, <1>6, <1>7, <1>8, <1>9, <1>10, <1>11, <1>12, <1>13, <1>14, <1>15, <1>16, <1>17, <1>18, <1>19, <1>20, <1>21, <1>22, <1>23, <1>24, <1>25, <1>26
      DEF Next, WorkerStep, UserStep, ChipStep

\* Every step keeps a low line attended to: only a read of the causes by the
\* worker makes it high, and each fall puts a response on the bus.
LEMMA LineStep ==
  ASSUME TypeOK, LineAttended, [Next]_vars
  PROVE  LineAttended'
<1> DEFINE Goal == LineAttended'
<1> USE DEF TypeOK, LineAttended, LineLow, Goto, Chip, chip, unit, loop, spec, user, env
<1>1. CASE UnsolDeliver
  BY <1>1 DEF UnsolDeliver
<1>2. CASE GpioCheck
  BY <1>2 DEF GpioCheck
<1>3. CASE ReadStatus
  BY <1>3 DEF ReadStatus
<1>4. CASE LoopCheck
  BY <1>4 DEF LoopCheck
<1>5. CASE InterruptAction
  BY <1>5 DEF InterruptAction, ActionOf
<1>6. CASE PluginHandleDetect
  BY <1>6 DEF PluginHandleDetect
<1>7. CASE PluginCompleteDetect
  BY <1>7 DEF PluginCompleteDetect
<1>8. CASE EnableAutoInt
  BY <1>8 DEF EnableAutoInt
<1>9. CASE UnplugSetupRead
  BY <1>9 DEF UnplugSetupRead
<1>10. CASE UnplugSetupMask
  BY <1>10 DEF UnplugSetupMask
<1>11. CASE HeadsetDetectOn
  BY <1>11 DEF HeadsetDetectOn
<1>12. CASE TypeDetectEvent
  BY <1>12 DEF TypeDetectEvent
<1>13. CASE ButtonDetectEvent
  BY <1>13 DEF ButtonDetectEvent
<1>14. CASE PluginEventContinued
  BY <1>14 DEF PluginEventContinued
<1>15. CASE ReportSync
  BY <1>15 DEF ReportSync, Report
<1>16. CASE UnplugEvent
  BY <1>16 DEF UnplugEvent
<1>17. CASE PluginSetupRead
  BY <1>17 DEF PluginSetupRead
<1>18. CASE PluginSetupMask
  BY <1>18 DEF PluginSetupMask
<1>19. CASE UnplugHandleDisconnect
  BY <1>19 DEF UnplugHandleDisconnect, Report
<1>20. CASE UnplugResetup
  BY <1>20 DEF UnplugResetup
<1>21. CASE UnplugReset
  BY <1>21 DEF UnplugReset
<1>22. ASSUME NEW h \in Headset, MovePlug(h)
       PROVE  Goal
  BY <1>22 DEF MovePlug, Raise
<1>23. ASSUME NEW cause \in {"press", "toggle"}, PressButton(cause)
       PROVE  Goal
  BY <1>23 DEF PressButton, Raise
<1>24. CASE AutoDone
  BY <1>24 DEF AutoDone, Raise
<1>25. CASE ButtonsFound
  BY <1>25 DEF ButtonsFound, Raise
<1>26. CASE UNCHANGED vars
  BY <1>26 DEF vars
<1> QED BY <1>1, <1>2, <1>3, <1>4, <1>5, <1>6, <1>7, <1>8, <1>9, <1>10, <1>11, <1>12, <1>13, <1>14, <1>15, <1>16, <1>17, <1>18, <1>19, <1>20, <1>21, <1>22, <1>23, <1>24, <1>25, <1>26
      DEF Next, WorkerStep, UserStep, ChipStep

\* Every step keeps the masks in line with what the driver knows.
LEMMA ModeStep ==
  ASSUME TypeOK, Mode, [Next]_vars
  PROVE  Mode'
<1> DEFINE Goal == Mode'
<1> USE DEF TypeOK, Mode, Settled, Quiet, Goto, Chip, chip, unit, loop, spec, user, env
<1>1. CASE UnsolDeliver
  BY <1>1 DEF UnsolDeliver
<1>2. CASE GpioCheck
  BY <1>2 DEF GpioCheck
<1>3. CASE ReadStatus
  BY <1>3 DEF ReadStatus
<1>4. CASE LoopCheck
  BY <1>4 DEF LoopCheck
<1>5. CASE InterruptAction
  BY <1>5 DEF InterruptAction, ActionOf
<1>6. CASE PluginHandleDetect
  BY <1>6 DEF PluginHandleDetect
<1>7. CASE PluginCompleteDetect
  BY <1>7 DEF PluginCompleteDetect
<1>8. CASE EnableAutoInt
  BY <1>8 DEF EnableAutoInt
<1>9. CASE UnplugSetupRead
  BY <1>9 DEF UnplugSetupRead
<1>10. CASE UnplugSetupMask
  BY <1>10 DEF UnplugSetupMask
<1>11. CASE HeadsetDetectOn
  BY <1>11 DEF HeadsetDetectOn
<1>12. CASE TypeDetectEvent
  BY <1>12 DEF TypeDetectEvent
<1>13. CASE ButtonDetectEvent
  BY <1>13 DEF ButtonDetectEvent
<1>14. CASE PluginEventContinued
  BY <1>14 DEF PluginEventContinued
<1>15. CASE ReportSync
  BY <1>15 DEF ReportSync, Report
<1>16. CASE UnplugEvent
  BY <1>16 DEF UnplugEvent
<1>17. CASE PluginSetupRead
  BY <1>17 DEF PluginSetupRead
<1>18. CASE PluginSetupMask
  BY <1>18 DEF PluginSetupMask
<1>19. CASE UnplugHandleDisconnect
  BY <1>19 DEF UnplugHandleDisconnect, Report
<1>20. CASE UnplugResetup
  BY <1>20 DEF UnplugResetup
<1>21. CASE UnplugReset
  BY <1>21 DEF UnplugReset
<1>22. ASSUME NEW h \in Headset, MovePlug(h)
       PROVE  Goal
  BY <1>22 DEF MovePlug, Raise
<1>23. ASSUME NEW cause \in {"press", "toggle"}, PressButton(cause)
       PROVE  Goal
  BY <1>23 DEF PressButton, Raise
<1>24. CASE AutoDone
  BY <1>24 DEF AutoDone, Raise
<1>25. CASE ButtonsFound
  BY <1>25 DEF ButtonsFound, Raise
<1>26. CASE UNCHANGED vars
  BY <1>26 DEF vars
<1> QED BY <1>1, <1>2, <1>3, <1>4, <1>5, <1>6, <1>7, <1>8, <1>9, <1>10, <1>11, <1>12, <1>13, <1>14, <1>15, <1>16, <1>17, <1>18, <1>19, <1>20, <1>21, <1>22, <1>23, <1>24, <1>25, <1>26
      DEF Next, WorkerStep, UserStep, ChipStep

\* The inductive invariant holds in every behaviour.
LEMMA Invariance == Spec => []Inv
<1>1. Inv /\ [Next]_vars => Inv'
  BY TypeStep, LineStep, ModeStep DEF Inv
<1> QED BY <1>1, InvInit, PTL DEF Spec

-----------------------------------------------------------------------------
(* The properties.                                                         *)

\* Every variable of the jack keeps its type.
THEOREM TypeCorrect == Spec => []TypeOK
BY Invariance, PTL DEF Inv

\* A low interrupt line is always attended to, however many causes come
\* while the worker reads and handles others, and whatever the loop's limit.
THEOREM LineIsAttended == Spec => []LineAttended
BY Invariance, PTL DEF Inv

\* Between two responses the driver listens for an unplug if it takes the
\* jack for used and for a plug otherwise.
THEOREM ListensAlways == Spec => []ListensForChange
<1>1. Inv => ListensForChange
  BY DEF Inv, Mode, Settled, Quiet, ListensForChange
<1> QED BY <1>1, Invariance, PTL

\* Between two responses an empty jack has no microphone and none of the
\* interrupts of a headset.
THEOREM NothingStaysBehind == Spec => []EmptyJackForgotten
<1>1. Inv => EmptyJackForgotten
  BY DEF Inv, Mode, Settled, Quiet, EmptyJackForgotten
<1> QED BY <1>1, Invariance, PTL

=============================================================================
