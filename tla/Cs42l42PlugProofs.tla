--------------------------- MODULE Cs42l42PlugProofs ---------------------------
(***************************************************************************)
(* The plug of Cs42l42 is watched, and the kernel's jacks follow it, for   *)
(* every Budget.                                                           *)
(***************************************************************************)
EXTENDS Cs42l42Proofs

-----------------------------------------------------------------------------
(* The strengthening.                                                      *)

\* A detection of pm is not disturbed.
Undisturbed == ~overlapped /\ pc["pm"] \in DetectPlace => bus.falls = 0 /\ ~chip.detecting

Early == {"asleep", "release", "wake_load", "wake_store", "irq_regs", "hp_read", "hp_write",
          "allow", "ts_clear", "ts_on"}
Late == DetectPlace \cup {"first", "sync", "build", "up"}

\* What holds whatever failed: when responses come, and where the handler has read a
\* finished detection.
Ordered ==
  /\ pc["pm"] \in Late => bus.ur
  /\ pc["pm"] \in Late \cup {"ts_clear", "ts_on", "ur_on"} => bus.allowed
  /\ pc["pm"] \in DetectPlace => built
  /\ pc["handler"] \in {"auto_done", "stop", "manual", "tip_on"} => read.done
  /\ ~overlapped /\ pc["handler"] \in {"hs_status", "plug_status"} /\ read.failed => history.faulted

\* pm wakes up with the flags of a chip that sleeps.
Unflagged ==
  ~overlapped =>
    /\ pc["pm"] = "wake_store" => ~local["pm"].hp
    /\ pc["pm"] \in {"irq_regs", "hp_read", "hp_write", "allow", "ts_clear", "ts_on", "ur_on"}
         => ~word.hp

At(places) == pc["handler"] \in places \/ pc["pm"] \in places

\* Why the plug's interrupt is masked: a detection runs, or its end is dealt with.
Detecting ==
  \/ At(DetectPlace \ {"detect1"})
  \/ chip.detecting
  \/ chip.auto_done /\ ~chip.auto_masked
  \/ /\ read.done
     /\ pc["handler"] \in {"hs_status", "plug_status", "auto_done", "stop", "manual", "load",
                           "store", "tip_on"}

\* Why the line may be low: the handler is about to read what pulls it, ...
Attended ==
  \/ bus.falls > 0 \/ pc["handler"] = "codec_status"
  \/ ~chip.tip_masked /\ pc["handler"] \in {"hs_status", "plug_status"}

\* ... or it was low when responses were enabled, and the first detection will read it.
Awaited ==
  /\ pc["handler"] = "idle" /\ ~word.hp /\ ~chip.tip_masked
  /\ \/ pc["pm"] \in {"first", "build", "detect1", "detect2"}
     \/ pc["pm"] = "sync" /\ ~built

\* The two masks: at most one interrupt is enabled, and one is unless a detection runs.
LateMasks ==
  /\ ~chip.auto_masked => chip.tip_masked
  /\ chip.tip_masked => Detecting
  /\ chip.detecting => ~chip.auto_masked \/ pc["handler"] = "stop"
  /\ read.done /\ pc["handler"] \in {"stop", "manual", "load", "store", "tip_on"}
       => chip.auto_masked
  /\ At({"detect3", "detect4", "detect5", "detect6"}) => chip.tip_masked
  /\ At({"detect5", "detect6"}) => ~chip.auto_masked

Hears == LateMasks /\ (Asserted(chip) => Attended \/ Awaited)

Heard ==
  ~overlapped /\ ~history.faulted =>
    /\ pc["pm"] \in Early => chip.tip_masked /\ chip.auto_masked /\ ~chip.detecting
    /\ pc["pm"] = "ur_on" => ~chip.tip_masked /\ chip.auto_masked /\ ~chip.detecting
    /\ pc["pm"] \in Late => Hears

PlugInv == Inv /\ Unflagged /\ Undisturbed /\ Ordered /\ Heard

-----------------------------------------------------------------------------
(* The interrupt line.                                                     *)

\* A response is queued when the line falls.
Edge ==
  /\ bus.falls \in Nat /\ bus'.falls \in Nat /\ bus'.falls >= bus.falls
  /\ bus'.ur = bus.ur /\ bus'.allowed = bus.allowed
  /\ bus.ur /\ Asserted(chip') => Asserted(chip) \/ bus'.falls > 0

LEMMA EdgeCounted == ASSUME TypeOK, NEW c, ChipBecomes(c) PROVE chip' = c /\ Edge
  <1> DEFINE n == IF bus.ur /\ Asserted(c) /\ ~Asserted(chip) THEN 1 ELSE 0
  <1>1. bus' = [bus EXCEPT !.falls = @ + n] /\ chip' = c
    BY DEF ChipBecomes
  <1>2. n \in {0, 1} /\ (bus.ur /\ Asserted(c) => Asserted(chip) \/ n = 1)
    OBVIOUS
  <1> HIDE DEF n
  <1>3. bus'.falls = bus.falls + n /\ bus'.ur = bus.ur /\ bus'.allowed = bus.allowed
    BY <1>1, <1>2 DEF TypeOK, Bus
  <1> QED BY <1>1, <1>2, <1>3 DEF TypeOK, Bus, Edge

LEMMA WriteEdge ==
  ASSUME TypeOK, NEW c, Write(c)
  PROVE  Edge /\ (Reachable => chip' = c) /\ chip' \in {chip, c}
  BY EdgeCounted DEF Write

LEMMA FailsEdge ==
  ASSUME TypeOK, NEW f \in BOOLEAN, NEW c, Fails(f, c)
  PROVE  Edge /\ (Reachable /\ ~history'.faulted => chip' = c /\ ~f)
  <1>1. CASE Reachable
    <2>1. PICK d \in IF f THEN {chip, c} ELSE {c} : ChipBecomes(d)
      BY <1>1 DEF Fails
    <2> QED BY <2>1, EdgeCounted, FailsChip
  <1>2. CASE ~Reachable
    BY <1>2 DEF Fails, Edge, TypeOK, Bus
  <1> QED BY <1>1, <1>2

LEMMA SameEdge == ASSUME TypeOK, chip' = chip, bus' = bus PROVE Edge
  BY DEF Edge, TypeOK, Bus

LEMMA UndisturbedStep ==
  ASSUME TypeOK, TypeOK', Undisturbed, [Next]_vars
  PROVE  Undisturbed'
  <1>1. CASE UNCHANGED vars
    BY <1>1 DEF vars, Undisturbed
  <1>2. CASE Next
    <2>1. bus' \in Bus
      BY DEF TypeOK
    <2>2. bus'.falls \in Nat
      BY <2>1 DEF Bus
    <2> QED BY <1>2, <2>2, OverlapStep DEF Overlap, Undisturbed, DetectPlace
  <1> QED BY <1>1, <1>2

\* What a step of the handler leaves of what pm has set up.
LEMMA HandlerBus ==
  ASSUME TypeOK, Event \/ HandlerStep
  PROVE  built' = built /\ bus'.ur = bus.ur /\ bus'.allowed = bus.allowed /\ (~Event => Edge)
  <1> USE DEF jackVars
  <1>1. CASE Event
    BY <1>1 DEF Event, TypeOK, Bus
  <1>2. CASE ReadCodecStatus
    BY <1>2, FailsEdge DEF ReadCodecStatus, Edge
  <1>3. CASE ReadHsStatus
    BY <1>3, FailsEdge DEF ReadHsStatus, Edge
  <1>4. CASE ReadPlugStatus
    BY <1>4, FailsEdge DEF ReadPlugStatus, Edge
  <1>5. CASE AutoDone
    BY <1>5, WriteEdge DEF AutoDone, Writes, Edge
  <1>6. CASE StopDetection
    BY <1>6, WriteEdge DEF StopDetection, Edge
  <1>7. CASE ManualDetection
    BY <1>7, FailsEdge DEF ManualDetection, Edge
  <1>8. CASE LoadFlags \/ StoreFlags \/ Report
    BY <1>8, SameEdge DEF LoadFlags, StoreFlags, Report, Edge
  <1>9. CASE TipInterruptOn
    BY <1>9, WriteEdge DEF TipInterruptOn, Edge
  <1>10. CASE RunJackDetect("handler", "idle")
    <2>1. ASSUME NEW from, NEW to, NEW c, Reads("handler", from, to, c) \/ Writes("handler", from, to, c)
          PROVE  built' = built /\ Edge
      <3>1. CASE Reads("handler", from, to, c)
        BY <3>1, FailsEdge DEF Reads
      <3>2. CASE Writes("handler", from, to, c)
        BY <3>2, WriteEdge DEF Writes
      <3> QED BY <2>1, <3>1, <3>2
    <2>2. built' = built /\ Edge
      BY <1>10, <2>1 DEF RunJackDetect
    <2> QED BY <2>2 DEF Edge
  <1> QED BY <1>1, <1>2, <1>3, <1>4, <1>5, <1>6, <1>7, <1>8, <1>9, <1>10 DEF HandlerStep

\* What a step of pm leaves of the bus and of what the handler has read.
LEMMA PmBus ==
  ASSUME TypeOK, PmStep \/ Suspend
  PROVE  /\ built' = built \/ (Build /\ built')
         /\ AllowEvents \/ EnableUr \/ Suspend \/ Release \/ Reset \/ Edge
         /\ read'.done = read.done /\ read'.failed = read.failed
         /\ Reset \/ (history.faulted => history'.faulted)
  <1>1. read \in Read /\ history \in History
    BY DEF TypeOK
  <1> USE DEF jackVars
  <1>2. CASE LoadWord \/ StoreWord \/ FirstDetect \/ Sync \/ Resume
    <2>1. /\ built' = built /\ read' = read /\ history' = history
          /\ chip' = chip /\ bus' = bus
      BY <1>2 DEF LoadWord, StoreWord, FirstDetect, Sync, Resume
    <2> QED BY <2>1, SameEdge
  <1>3. CASE AllowEvents \/ EnableUr \/ Release
    <2>1. built' = built /\ read' = read /\ history' = history
      BY <1>3 DEF AllowEvents, EnableUr, Release
    <2> QED BY <1>3, <2>1
  <1>4. CASE Suspend
    BY <1>1, <1>4 DEF Suspend, History
  <1>5. CASE Reset
    BY <1>5 DEF Reset
  <1>6. CASE ReadHpCtl
    <2>1. PICK f \in BOOLEAN :
            /\ Fails(f, chip)
            /\ read' = [read EXCEPT !.hp_ctl = IF f THEN -EIO ELSE chip.hp_ctl]
      BY <1>6 DEF ReadHpCtl
    <2>2. read'.done = read.done /\ read'.failed = read.failed
      BY <1>1, <2>1 DEF Read
    <2>3. built' = built
      BY <1>6 DEF ReadHpCtl
    <2> QED BY <2>1, <2>2, <2>3, FailsEdge, FailsChip
  <1>7. CASE WriteHpCtl
    <2>1. read'.done = read.done /\ read'.failed = read.failed
      BY <1>1, <1>7 DEF WriteHpCtl, Read
    <2>2. Edge /\ built' = built /\ history' = history
      BY <1>7, WriteEdge DEF WriteHpCtl
    <2> QED BY <2>1, <2>2
  <1>10. CASE Build
    <2>1. /\ built' /\ read' = read /\ history' = history
          /\ chip' = chip /\ bus' = bus
      BY <1>10 DEF Build
    <2> QED BY <1>10, <2>1, SameEdge
  <1>8. ASSUME NEW from, NEW to, NEW c, Reads("pm", from, to, c) \/ Writes("pm", from, to, c)
        PROVE  /\ built' = built /\ Edge /\ read' = read
               /\ history.faulted => history'.faulted
    <2>1. CASE Reads("pm", from, to, c)
      BY <2>1, FailsEdge, FailsChip DEF Reads
    <2>2. CASE Writes("pm", from, to, c)
      BY <2>2, WriteEdge DEF Writes
    <2> QED BY <1>8, <2>1, <2>2
  <1>9. CASE ClearStatuses \/ EnableJackDetect \/ PowerDown \/ RunJackDetect("pm", "sync")
    <2>1. /\ built' = built /\ Edge /\ read' = read
          /\ history.faulted => history'.faulted
      BY <1>8, <1>9 DEF ClearStatuses, EnableJackDetect, PowerDown, RunJackDetect
    <2> QED BY <2>1
  <1> QED BY <1>2, <1>3, <1>4, <1>5, <1>6, <1>7, <1>9, <1>10 DEF PmStep

LEMMA OrderedHandler ==
  ASSUME TypeOK, Alone, Powered, Marked, Ordered, Next, Event \/ HandlerStep
  PROVE  Ordered'
  <1>1. /\ pc'["pm"] = pc["pm"] /\ built' = built /\ bus'.ur = bus.ur /\ bus'.allowed = bus.allowed
        /\ history.faulted => history'.faulted
    BY HandlerFrame, HandlerBus DEF Frame, Thread
  <1>2. "handler" \in Thread /\ read \in Read
    BY DEF Thread, TypeOK
  <1> DEFINE Done == pc'["handler"] \in {"auto_done", "stop", "manual", "tip_on"} => read'.done
             Failed == ~overlapped' /\ pc'["handler"] \in {"hs_status", "plug_status"}
                         /\ read'.failed => history'.faulted
  <1>3. SUFFICES Done /\ Failed
    BY <1>1 DEF Ordered
  <1>4. CASE Event
    BY <1>2, <1>4, GotoPlace DEF Event
  <1>5. CASE ReadCodecStatus
    <2>1. pc["handler"] = "codec_status" /\ pc'["handler"] = "hs_status"
      BY <1>2, <1>5, GotoPlace DEF ReadCodecStatus
    <2>2. PICK f \in BOOLEAN : /\ Fails(f, [chip EXCEPT !.auto_done = FALSE])
                               /\ read' = [read EXCEPT !.done = chip.auto_done, !.failed = f]
      BY <1>5 DEF ReadCodecStatus
    <2>3. ASSUME ~overlapped' PROVE Reachable
      <3>1. pc["pm"] # "power_down" /\ ~overlapped
        BY <1>1, <2>1, <2>3, OverlapStep DEF Overlap
      <3> QED BY <2>1, <3>1, UpIsReachable DEF Alone, Awake
    <2>4. read'.failed = f
      BY <1>2, <2>2 DEF Read
    <2> QED BY <2>1, <2>2, <2>3, <2>4, FailsChip
  <1>6. CASE ReadHsStatus
    <2>1. pc["handler"] = "hs_status" /\ pc'["handler"] = "plug_status"
      BY <1>2, <1>6, GotoPlace DEF ReadHsStatus
    <2>2. PICK f \in BOOLEAN : /\ Fails(f, chip)
                               /\ read' = [read EXCEPT !.type = chip.type, !.failed = @ \/ f]
      BY <1>6 DEF ReadHsStatus
    <2>3. ASSUME ~overlapped' PROVE Reachable /\ ~overlapped
      <3>1. pc["pm"] # "power_down" /\ ~overlapped
        BY <1>1, <2>1, <2>3, OverlapStep DEF Overlap
      <3> QED BY <2>1, <3>1, UpIsReachable DEF Alone, Awake
    <2>4. read'.failed = (read.failed \/ f)
      BY <1>2, <2>2 DEF Read
    <2>5. ~overlapped' /\ f => history'.faulted
      BY <2>2, <2>3, FailsChip
    <2> QED BY <1>1, <2>1, <2>3, <2>4, <2>5 DEF Ordered
  <1>7. CASE ReadPlugStatus
    <2>1. PICK f \in BOOLEAN :
            LET r == [read EXCEPT !.level = jack, !.failed = @ \/ f]
            IN IF r.failed THEN read' = r /\ Goto("handler", "report")
               ELSE IF r.done THEN read' = r /\ Goto("handler", "auto_done")
               ELSE Goto("handler", TipSense(r, "idle"))
      BY <1>7 DEF ReadPlugStatus
    <2> DEFINE r == [read EXCEPT !.level = jack, !.failed = @ \/ f]
    <2>2. TipSense(r, "idle") \in {"idle", "load", "detect1"}
      BY DEF TipSense
    <2>3. CASE r.failed
      <3>1. Goto("handler", "report")
        BY <2>1, <2>3
      <3> QED BY <1>2, <3>1, GotoPlace
    <2>4. CASE ~r.failed /\ r.done
      <3>1. read' = r /\ Goto("handler", "auto_done")
        BY <2>1, <2>4
      <3>2. pc'["handler"] = "auto_done"
        BY <1>2, <3>1, GotoPlace
      <3> QED BY <2>4, <3>1, <3>2
    <2>5. CASE ~r.failed /\ ~r.done
      <3>1. Goto("handler", TipSense(r, "idle"))
        BY <2>1, <2>5
      <3>2. pc'["handler"] \in {"idle", "load", "detect1"}
        BY <1>2, <2>2, <3>1, GotoPlace
      <3> QED BY <3>2
    <2> QED BY <2>3, <2>4, <2>5
  <1>8. CASE AutoDone
    <2>1. pc["handler"] = "auto_done" /\ pc'["handler"] = "stop" /\ read' = read
      BY <1>2, <1>8, GotoPlace DEF AutoDone, Writes
    <2> QED BY <2>1 DEF Ordered
  <1>9. CASE StopDetection
    <2>1. TipSense(read, "tip_on") \in {"tip_on", "load", "detect1"}
      BY DEF TipSense
    <2>2. pc["handler"] = "stop" /\ pc'["handler"] \in {"tip_on", "load", "detect1", "manual"}
      BY <1>2, <1>9, <2>1, GotoPlace DEF StopDetection
    <2>3. read'.done = read.done
      BY <1>2, <1>9 DEF StopDetection, TipFlags, Read
    <2> QED BY <2>2, <2>3 DEF Ordered
  <1>10. CASE ManualDetection \/ LoadFlags
    <2>1. pc'["handler"] \in {"load", "store"}
      BY <1>2, <1>10, GotoPlace DEF ManualDetection, LoadFlags
    <2> QED BY <2>1
  <1>11. CASE StoreFlags
    <2>1. pc'["handler"] = IF read.done THEN "tip_on" ELSE "report"
      BY <1>2, <1>11, GotoPlace DEF StoreFlags
    <2> QED BY <1>11, <2>1 DEF StoreFlags
  <1>12. CASE TipInterruptOn \/ Report
    <2>1. pc'["handler"] \in {"idle", "report"}
      BY <1>2, <1>12, GotoPlace DEF TipInterruptOn, Report
    <2> QED BY <2>1
  <1>13. CASE RunJackDetect("handler", "idle")
    <2>1. pc'["handler"] \in DetectPlace \cup {"idle"}
      BY <1>13, DetectFrame
    <2> QED BY <2>1 DEF DetectPlace
  <1> QED BY <1>4, <1>5, <1>6, <1>7, <1>8, <1>9, <1>10, <1>11, <1>12, <1>13 DEF HandlerStep

LEMMA OrderedStep ==
  ASSUME TypeOK, Alone, Powered, Marked, Ordered, [Next]_vars
  PROVE  Ordered'
  <1>1. CASE UNCHANGED vars
    BY <1>1 DEF vars, jackVars, Ordered
  <1>2. CASE Next /\ (Event \/ HandlerStep)
    BY <1>2, OrderedHandler
  <1>3. CASE Next /\ (PmStep \/ Suspend)
    <2>1. pc'["handler"] = pc["handler"] /\ Moves(pc["pm"], pc'["pm"])
          /\ read'.done = read.done /\ read'.failed = read.failed
          /\ (built => built')
      BY <1>3, PmFrame, PmBus DEF Thread
    <2>2. pc'["pm"] \in Late => bus'.ur
      <3>1. CASE pc["pm"] = "ur_on"
        <4>1. EnableUr
          BY <1>3, <3>1, PmPlaces
        <4> QED BY <4>1 DEF EnableUr, TypeOK, Bus
      <3>2. CASE pc["pm"] \in Late \ {"up"}
        <4>1. Edge
          BY <1>3, <3>2, PmBus DEF AllowEvents, EnableUr, Suspend, Release, Reset, Late, DetectPlace
        <4> QED BY <3>2, <4>1 DEF Ordered, Edge
      <3>3. pc'["pm"] \in Late => pc["pm"] = "ur_on" \/ pc["pm"] \in Late \ {"up"}
        BY <2>1 DEF Moves, Late, DetectPlace
      <3> QED BY <3>1, <3>2, <3>3
    <2>3. pc'["pm"] \in Late \cup {"ts_clear", "ts_on", "ur_on"} => bus'.allowed
      <3>1. CASE pc["pm"] = "allow"
        <4>1. AllowEvents
          BY <1>3, <3>1, PmPlaces
        <4> QED BY <4>1 DEF AllowEvents, TypeOK, Bus
      <3>2. CASE pc["pm"] \in (Late \ {"up"}) \cup {"ts_clear", "ts_on", "ur_on"}
        <4>1. Edge \/ EnableUr
          BY <1>3, <3>2, PmBus DEF AllowEvents, Suspend, Release, Reset, Late, DetectPlace
        <4>2. bus'.allowed = bus.allowed
          <5>1. CASE Edge
            BY <5>1 DEF Edge
          <5>2. CASE EnableUr
            BY <5>2 DEF EnableUr, TypeOK, Bus
          <5> QED BY <4>1, <5>1, <5>2
        <4> QED BY <3>2, <4>2 DEF Ordered
      <3>3. pc'["pm"] \in Late \cup {"ts_clear", "ts_on", "ur_on"}
              => pc["pm"] = "allow" \/ pc["pm"] \in (Late \ {"up"}) \cup {"ts_clear", "ts_on", "ur_on"}
        BY <2>1 DEF Moves, Late, DetectPlace
      <3> QED BY <3>1, <3>2, <3>3
    <2>4. pc'["pm"] \in DetectPlace => built'
      <3>1. CASE pc["pm"] = "first"
        <4>1. FirstDetect
          BY <1>3, <3>1, PmPlaces
        <4>2. pc'["pm"] = IF built /\ ~word.hp THEN "detect1" ELSE "sync"
          BY <4>1, GotoPlace DEF FirstDetect, Thread
        <4> QED BY <2>1, <4>2 DEF DetectPlace
      <3>2. pc'["pm"] \in DetectPlace => pc["pm"] = "first" \/ pc["pm"] \in DetectPlace
        BY <2>1 DEF Moves, DetectPlace
      <3> QED BY <2>1, <3>1, <3>2 DEF Ordered
    <2>5. ASSUME ~overlapped', pc'["handler"] \in {"hs_status", "plug_status"}, read'.failed
          PROVE  history'.faulted
      <3>1. pc'["pm"] \in {"up", "sync", "build"} /\ ~overlapped
        BY <1>3, <2>5, OverlapStep DEF Overlap
      <3>2. ~Reset
        BY <3>1, GotoPlace DEF Reset, Thread
      <3> QED BY <1>3, <2>1, <2>5, <3>1, <3>2, PmBus DEF Ordered
    <2> QED BY <2>1, <2>2, <2>3, <2>4, <2>5 DEF Ordered
  <1>4. CASE Next /\ (VolumePut \/ VolumeWrite \/ (\E p \in BOOLEAN : PcmHook(p)) \/ HookWrite)
    <2>1. bus'.ur = bus.ur /\ bus'.allowed = bus.allowed /\ built' = built
      BY <1>4, WriteEdge DEF VolumePut, VolumeWrite, HookWrite, PcmHook, Writes, Edge, jackVars
    <2>2. pc'["handler"] = pc["handler"] /\ pc'["pm"] = pc["pm"] /\ read' = read
          /\ history'.faulted = history.faulted
      BY <1>4, SoundFrame
    <2>3. ~overlapped' => ~overlapped \/ pc["pm"] = "power_down"
      BY <1>4, <2>2, OverlapStep
    <2>4. pc["pm"] = "power_down" /\ ~overlapped' => pc["handler"] = "idle"
      BY <1>4, <2>2, OverlapStep DEF Overlap
    <2> QED BY <2>1, <2>2, <2>3, <2>4 DEF Ordered
  <1>5. CASE Next /\ (MovePlug \/ DetectionDone)
    <2>1. bus'.ur = bus.ur /\ bus'.allowed = bus.allowed /\ built' = built
      BY <1>5, EdgeCounted DEF MovePlug, DetectionDone, Edge, jackVars
    <2>2. pc' = pc /\ read' = read /\ (history.faulted => history'.faulted)
      BY <1>5, OutsideFrame DEF Frame
    <2>3. ~overlapped' => ~overlapped \/ pc["pm"] = "power_down"
      BY <1>5, <2>2, OverlapStep
    <2>4. pc["pm"] = "power_down" /\ ~overlapped' => pc["handler"] = "idle"
      BY <1>5, <2>2, OverlapStep DEF Overlap
    <2> QED BY <2>1, <2>2, <2>3, <2>4 DEF Ordered
  <1> QED BY <1>1, <1>2, <1>3, <1>4, <1>5, StepCases

LEMMA UnflaggedStep ==
  ASSUME TypeOK, TypeOK', Alone', Marked, Unflagged, [Next]_vars
  PROVE  Unflagged'
  <1> DEFINE Waking == {"irq_regs", "hp_read", "hp_write", "allow", "ts_clear", "ts_on", "ur_on"}
  <1>1. CASE UNCHANGED vars
    BY <1>1 DEF vars, jackVars, Unflagged
  <1>2. SUFFICES ASSUME Next, ~overlapped', pc'["pm"] \in Waking \cup {"wake_store"}
                 PROVE  /\ pc'["pm"] = "wake_store" => ~local'["pm"].hp
                        /\ pc'["pm"] \in Waking => ~word'.hp
    BY <1>1 DEF Unflagged
  <1>3. ~overlapped /\ pc'["handler"] = "idle"
    BY <1>2, OverlapStep DEF Alone
  <1>4. CASE Event \/ HandlerStep
    <2>1. pc'["pm"] = pc["pm"] /\ (WordKept \/ LoadFlags \/ StoreFlags)
      BY <1>4, HandlerFrame DEF Frame, Thread
    <2>2. ~LoadFlags /\ ~StoreFlags
      BY <1>3, GotoPlace DEF LoadFlags, StoreFlags, Thread
    <2> QED BY <1>3, <2>1, <2>2 DEF WordKept, Unflagged
  <1>5. CASE PmStep \/ Suspend
    <2>1. Moves(pc["pm"], pc'["pm"]) /\ (WordKept \/ LoadWord \/ StoreWord)
      BY <1>5, PmFrame
    <2>2. CASE pc["pm"] = "wake_load"
      <3>1. LoadWord /\ pc'["pm"] = "wake_store"
        BY <1>5, <2>1, <2>2, PmPlaces DEF Moves, DetectPlace
      <3>2. word = Asleep
        BY <1>3, <2>2 DEF Marked
      <3> QED BY <3>1, <3>2 DEF LoadWord, Asleep, TypeOK
    <2>3. CASE pc["pm"] = "wake_store"
      <3>1. StoreWord /\ pc'["pm"] = "irq_regs"
        BY <1>5, <2>1, <2>3, PmPlaces DEF Moves, DetectPlace
      <3>2. word' = [local["pm"] EXCEPT !.suspended = FALSE] /\ local["pm"] \in Word
        BY <2>3, <3>1 DEF StoreWord, TypeOK
      <3> QED BY <1>3, <2>3, <3>1, <3>2 DEF Unflagged, Word
    <2>4. CASE pc["pm"] \in Waking
      <3>1. WordKept
        BY <2>1, <2>4 DEF LoadWord, StoreWord
      <3>2. pc'["pm"] # "wake_store"
        BY <2>1, <2>4 DEF Moves, DetectPlace
      <3> QED BY <1>3, <2>4, <3>1, <3>2 DEF WordKept, Unflagged
    <2> QED BY <1>2, <2>1, <2>2, <2>3, <2>4 DEF Moves, DetectPlace
  <1>6. CASE VolumePut \/ VolumeWrite \/ (\E p \in BOOLEAN : PcmHook(p)) \/ HookWrite
    BY <1>3, <1>6, SoundFrame DEF WordKept, Unflagged
  <1>7. CASE MovePlug \/ DetectionDone
    BY <1>3, <1>7, OutsideFrame DEF WordKept, Unflagged
  <1> QED BY <1>2, <1>4, <1>5, <1>6, <1>7, StepCases

-----------------------------------------------------------------------------
(* The masks and the line while responses are enabled.                     *)

\* The masks and latches of a chip.
Latches(c, tipMasked, autoMasked, tipLatch, autoDone, detecting) ==
  /\ c.powered <=> chip.powered
  /\ c.tip_masked <=> tipMasked
  /\ c.auto_masked <=> autoMasked
  /\ c.tip_latch <=> tipLatch
  /\ c.auto_done <=> autoDone
  /\ c.detecting <=> detecting

LEMMA LatchesSet ==
  ASSUME TypeOK, NEW b \in BOOLEAN
  PROVE  /\ Latches([chip EXCEPT !.auto_done = b],
                    chip.tip_masked, chip.auto_masked, chip.tip_latch, b, chip.detecting)
         /\ Latches([chip EXCEPT !.tip_masked = b],
                    b, chip.auto_masked, chip.tip_latch, chip.auto_done, chip.detecting)
         /\ Latches([chip EXCEPT !.auto_masked = b],
                    chip.tip_masked, b, chip.tip_latch, chip.auto_done, chip.detecting)
         /\ Latches([chip EXCEPT !.tip_latch = b],
                    chip.tip_masked, chip.auto_masked, b, chip.auto_done, chip.detecting)
         /\ Latches([chip EXCEPT !.detecting = b],
                    chip.tip_masked, chip.auto_masked, chip.tip_latch, chip.auto_done, b)
         /\ Latches([chip EXCEPT !.detecting = TRUE, !.steady = TRUE],
                    chip.tip_masked, chip.auto_masked, chip.tip_latch, chip.auto_done, TRUE)
         /\ Latches([chip EXCEPT !.tip_latch = TRUE, !.steady = FALSE],
                    chip.tip_masked, chip.auto_masked, TRUE, chip.auto_done, chip.detecting)
         /\ \A y : Latches([chip EXCEPT !.detecting = FALSE, !.auto_done = TRUE, !.type = y],
                           chip.tip_masked, chip.auto_masked, chip.tip_latch, TRUE, FALSE)
         /\ \A v : Latches([chip EXCEPT !.mixer = v],
                           chip.tip_masked, chip.auto_masked, chip.tip_latch, chip.auto_done, chip.detecting)
         /\ Latches(chip,
                    chip.tip_masked, chip.auto_masked, chip.tip_latch, chip.auto_done, chip.detecting)
  BY DEF TypeOK, Chip, Latches

LEMMA ReadsCalm ==
  ASSUME TypeOK, Reachable, ~history'.faulted,
         NEW t \in Thread, NEW from, NEW to, NEW c, Reads(t, from, to, c)
  PROVE  /\ chip' = c /\ Edge /\ read' = read /\ word' = word /\ built' = built
         /\ pc[t] = from /\ pc'[t] = to /\ \A u \in Thread \ {t} : pc'[u] = pc[u]
  <1>1. PICK f \in BOOLEAN : Fails(f, c)
    BY DEF Reads
  <1>2. chip' = c /\ Edge
    BY <1>1, FailsEdge
  <1> QED BY <1>2, GotoPlace DEF Reads, jackVars

LEMMA WritesCalm ==
  ASSUME TypeOK, Reachable,
         NEW t \in Thread, NEW from, NEW to, NEW c, Writes(t, from, to, c)
  PROVE  /\ chip' = c /\ Edge /\ read' = read /\ word' = word /\ built' = built
         /\ pc[t] = from /\ pc'[t] = to /\ \A u \in Thread \ {t} : pc'[u] = pc[u]
  BY GotoPlace, WriteEdge DEF Writes, jackVars

\* A detection by the handler, beside a pm that does not detect.
LEMMA HearsOwnDetection ==
  ASSUME TypeOK, Reachable, ~history'.faulted, bus.ur,
         pc["pm"] \in {"up", "sync", "build"}, Hears, RunJackDetect("handler", "idle")
  PROVE  Hears'
  <1>1. "handler" \in Thread /\ "pm" \in Thread \ {"handler"}
    BY DEF Thread
  <1>2. CASE Reads("handler", "detect1", "detect2", [chip EXCEPT !.auto_done = FALSE])
    <2>1. /\ chip' = [chip EXCEPT !.auto_done = FALSE]
          /\ pc["handler"] = "detect1" /\ pc'["handler"] = "detect2" /\ pc'["pm"] = pc["pm"]
          /\ Edge /\ read' = read
      BY <1>1, <1>2, ReadsCalm
    <2>2. Latches(chip', chip.tip_masked, chip.auto_masked, chip.tip_latch, FALSE, chip.detecting)
      BY <2>1, LatchesSet
    <2> QED BY <2>1, <2>2
        DEF Hears, LateMasks, Detecting, DetectPlace, At, Attended, Awaited, Asserted, Latches, Edge
  <1>3. CASE Writes("handler", "detect2", "detect3", [chip EXCEPT !.tip_masked = TRUE])
    <2>1. /\ chip' = [chip EXCEPT !.tip_masked = TRUE]
          /\ pc["handler"] = "detect2" /\ pc'["handler"] = "detect3" /\ pc'["pm"] = pc["pm"]
          /\ Edge /\ read' = read
      BY <1>1, <1>3, WritesCalm
    <2>2. Latches(chip', TRUE, chip.auto_masked, chip.tip_latch, chip.auto_done, chip.detecting)
      BY <2>1, LatchesSet
    <2> QED BY <2>1, <2>2
        DEF Hears, LateMasks, Detecting, DetectPlace, At, Attended, Awaited, Asserted, Latches, Edge
  <1>4. CASE Reads("handler", "detect3", "detect4", [chip EXCEPT !.tip_latch = FALSE])
    <2>1. /\ chip' = [chip EXCEPT !.tip_latch = FALSE]
          /\ pc["handler"] = "detect3" /\ pc'["handler"] = "detect4" /\ pc'["pm"] = pc["pm"]
          /\ Edge /\ read' = read
      BY <1>1, <1>4, ReadsCalm
    <2>2. Latches(chip', chip.tip_masked, chip.auto_masked, FALSE, chip.auto_done, chip.detecting)
      BY <2>1, LatchesSet
    <2> QED BY <2>1, <2>2
        DEF Hears, LateMasks, Detecting, DetectPlace, At, Attended, Awaited, Asserted, Latches, Edge
  <1>5. CASE Writes("handler", "detect4", "detect5", [chip EXCEPT !.auto_masked = FALSE])
    <2>1. /\ chip' = [chip EXCEPT !.auto_masked = FALSE]
          /\ pc["handler"] = "detect4" /\ pc'["handler"] = "detect5" /\ pc'["pm"] = pc["pm"]
          /\ Edge /\ read' = read
      BY <1>1, <1>5, WritesCalm
    <2>2. Latches(chip', chip.tip_masked, FALSE, chip.tip_latch, chip.auto_done, chip.detecting)
      BY <2>1, LatchesSet
    <2> QED BY <2>1, <2>2
        DEF Hears, LateMasks, Detecting, DetectPlace, At, Attended, Awaited, Asserted, Latches, Edge
  <1>6. CASE Writes("handler", "detect5", "detect6", [chip EXCEPT !.detecting = FALSE])
    <2>1. /\ chip' = [chip EXCEPT !.detecting = FALSE]
          /\ pc["handler"] = "detect5" /\ pc'["handler"] = "detect6" /\ pc'["pm"] = pc["pm"]
          /\ Edge /\ read' = read
      BY <1>1, <1>6, WritesCalm
    <2>2. Latches(chip', chip.tip_masked, chip.auto_masked, chip.tip_latch, chip.auto_done, FALSE)
      BY <2>1, LatchesSet
    <2> QED BY <2>1, <2>2
        DEF Hears, LateMasks, Detecting, DetectPlace, At, Attended, Awaited, Asserted, Latches, Edge
  <1>7. CASE Writes("handler", "detect6", "idle", [chip EXCEPT !.detecting = TRUE, !.steady = TRUE])
    <2>1. /\ chip' = [chip EXCEPT !.detecting = TRUE, !.steady = TRUE]
          /\ pc["handler"] = "detect6" /\ pc'["handler"] = "idle" /\ pc'["pm"] = pc["pm"]
          /\ Edge /\ read' = read
      BY <1>1, <1>7, WritesCalm
    <2>2. Latches(chip', chip.tip_masked, chip.auto_masked, chip.tip_latch, chip.auto_done, TRUE)
      BY <2>1, LatchesSet
    <2> QED BY <2>1, <2>2
        DEF Hears, LateMasks, Detecting, DetectPlace, At, Attended, Awaited, Asserted, Latches, Edge
  <1> QED BY <1>2, <1>3, <1>4, <1>5, <1>6, <1>7 DEF RunJackDetect

\* The other steps of the handler.
LEMMA HearsHandler ==
  ASSUME TypeOK, Reachable, Ordered, ~overlapped, ~history.faulted, ~history'.faulted,
         pc["pm"] \in {"up", "sync", "build"}, Hears, HandlerStep
  PROVE  Hears'
  <1> DEFINE Same5 == Latches(chip', chip.tip_masked, chip.auto_masked, chip.tip_latch,
                              chip.auto_done, chip.detecting)
  <1>1. "handler" \in Thread /\ "pm" \in Thread \ {"handler"}
    BY DEF Thread
  <1>2. pc'["pm"] = pc["pm"] /\ bus.ur
    BY HandlerFrame, <1>1 DEF Frame, Ordered, Late
  <1>3. read \in Read /\ Latches(chip, chip.tip_masked, chip.auto_masked, chip.tip_latch,
                                 chip.auto_done, chip.detecting)
    BY DEF TypeOK, Latches
  <1>4. CASE ReadCodecStatus
    <2>1. PICK f \in BOOLEAN : /\ Fails(f, [chip EXCEPT !.auto_done = FALSE])
                               /\ read' = [read EXCEPT !.done = chip.auto_done, !.failed = f]
      BY <1>4 DEF ReadCodecStatus
    <2>2. chip' = [chip EXCEPT !.auto_done = FALSE] /\ Edge
      BY <2>1, FailsEdge
    <2>3. Latches(chip', chip.tip_masked, chip.auto_masked, chip.tip_latch, FALSE, chip.detecting)
      BY <2>2, LatchesSet
    <2>4. pc["handler"] = "codec_status" /\ pc'["handler"] = "hs_status"
      BY <1>1, <1>4, GotoPlace DEF ReadCodecStatus
    <2>5. read'.done <=> chip.auto_done
      BY <1>3, <2>1 DEF Read
    <2>6. Edge
      BY <2>2
    <2> QED BY <1>2, <2>3, <2>4, <2>5, <2>6
        DEF Hears, LateMasks, Detecting, DetectPlace, At, Attended, Awaited, Asserted, Latches, Edge
  <1>5. CASE ReadHsStatus
    <2>1. PICK f \in BOOLEAN : /\ Fails(f, chip)
                               /\ read' = [read EXCEPT !.type = chip.type, !.failed = @ \/ f]
      BY <1>5 DEF ReadHsStatus
    <2>2. chip' = chip /\ Edge
      BY <2>1, FailsEdge
    <2>3. Same5 /\ Edge
      BY <1>3, <2>2
    <2>4. pc["handler"] = "hs_status" /\ pc'["handler"] = "plug_status"
      BY <1>1, <1>5, GotoPlace DEF ReadHsStatus
    <2>5. read'.done <=> read.done
      BY <1>3, <2>1 DEF Read
    <2> QED BY <1>2, <2>3, <2>4, <2>5
        DEF Hears, LateMasks, Detecting, DetectPlace, At, Attended, Awaited, Asserted, Latches, Edge
  <1>6. CASE ReadPlugStatus
    <2>1. PICK f \in BOOLEAN :
            /\ Fails(f, [chip EXCEPT !.tip_latch = FALSE])
            /\ LET r == [read EXCEPT !.level = jack, !.failed = @ \/ f]
               IN IF r.failed THEN read' = r /\ Goto("handler", "report")
                  ELSE IF r.done THEN read' = r /\ Goto("handler", "auto_done")
                  ELSE /\ Goto("handler", TipSense(r, "idle"))
                       /\ IF TipSense(r, "idle") = "load" THEN read' = TipFlags(r) ELSE Forget
      BY <1>6 DEF ReadPlugStatus
    <2> DEFINE r == [read EXCEPT !.level = jack, !.failed = @ \/ f]
    <2>2. chip' = [chip EXCEPT !.tip_latch = FALSE] /\ Edge /\ ~f
      BY <2>1, FailsEdge
    <2>3. Latches(chip', chip.tip_masked, chip.auto_masked, FALSE, chip.auto_done, chip.detecting)
      BY <2>2, LatchesSet
    <2>4. pc["handler"] = "plug_status" /\ ~read.failed
      BY <1>6 DEF ReadPlugStatus, Ordered
    <2>5. ~r.failed /\ (r.done <=> read.done) /\ r \in Read
      <3>1. r.failed <=> (read.failed \/ f)
        BY <1>3 DEF Read
      <3>2. r.done <=> read.done
        BY <1>3 DEF Read
      <3>3. jack \in Plug /\ (read.failed \/ f) \in BOOLEAN
        BY DEF TypeOK
      <3>4. "none" \in Type
        BY DEF Type, Plug
      <3>5. r \in Read
        BY <1>3, <3>3, <3>4, ReadTyped
      <3> QED BY <2>2, <2>4, <3>1, <3>2, <3>5
    <2>6. Edge
      BY <2>2
    <2>7. TipSense(r, "idle") \in {"idle", "load", "detect1"}
      BY DEF TipSense
    <2>8. \/ read.done /\ pc'["handler"] = "auto_done" /\ read'.done
          \/ ~read'.done /\ ~read.done /\ pc'["handler"] \in {"idle", "load", "detect1"}
      <3>1. CASE read.done
        <4>1. read' = r /\ Goto("handler", "auto_done")
          BY <2>1, <2>5, <3>1
        <4>2. pc'["handler"] = "auto_done"
          BY <1>1, <4>1, GotoPlace
        <4> QED BY <2>5, <3>1, <4>1, <4>2
      <3>2. CASE ~read.done
        <4>1. Goto("handler", TipSense(r, "idle")) /\ (read' = TipFlags(r) \/ Forget)
          BY <2>1, <2>5, <3>2
        <4>2. pc'["handler"] \in {"idle", "load", "detect1"}
          BY <1>1, <2>7, <4>1, GotoPlace
        <4>3. ~TipFlags(r).done
          <5> HIDE DEF r
          <5> QED BY <2>5, <3>2 DEF TipFlags, Read
        <4>4. Forget => ~read'.done
          BY DEF Forget, Unread
        <4> QED BY <3>2, <4>1, <4>2, <4>3, <4>4
      <3> QED BY <3>1, <3>2
    <2> HIDE DEF r
    <2> QED BY <1>2, <2>3, <2>4, <2>6, <2>8
        DEF Hears, LateMasks, Detecting, DetectPlace, At, Attended, Awaited, Asserted, Latches, Edge
  <1>7. CASE AutoDone
    <2>1. /\ chip' = [chip EXCEPT !.auto_masked = TRUE] /\ Edge /\ read' = read
          /\ pc["handler"] = "auto_done" /\ pc'["handler"] = "stop"
      BY <1>1, <1>7, WritesCalm DEF AutoDone
    <2>2. Latches(chip', chip.tip_masked, TRUE, chip.tip_latch, chip.auto_done, chip.detecting)
      BY <2>1, LatchesSet
    <2>3. read'.done
      BY <2>1 DEF Ordered
    <2> QED BY <1>2, <2>1, <2>2, <2>3
        DEF Hears, LateMasks, Detecting, DetectPlace, At, Attended, Awaited, Asserted, Latches, Edge
  <1>8. CASE StopDetection
    <2>1. chip' = [chip EXCEPT !.detecting = FALSE] /\ Edge
      BY <1>8, WriteEdge DEF StopDetection
    <2>2. Latches(chip', chip.tip_masked, chip.auto_masked, chip.tip_latch, chip.auto_done, FALSE)
      BY <2>1, LatchesSet
    <2>3. config.no_type => TipSense(read, "tip_on") \in {"tip_on", "load"}
      BY DEF TipSense
    <2>4. \/ Goto("handler", TipSense(read, "tip_on")) /\ config.no_type
          \/ Goto("handler", "manual")
          \/ Goto("handler", "load")
      BY <1>8 DEF StopDetection
    <2>5. pc["handler"] = "stop" /\ pc'["handler"] \in {"tip_on", "load", "manual"}
      <3>1. CASE Goto("handler", TipSense(read, "tip_on")) /\ config.no_type
        BY <1>1, <1>8, <2>3, <3>1, GotoPlace DEF StopDetection
      <3>2. CASE Goto("handler", "manual") \/ Goto("handler", "load")
        BY <1>1, <1>8, <3>2, GotoPlace DEF StopDetection
      <3> QED BY <2>4, <3>1, <3>2
    <2>6. read.done /\ read'.done
      BY <1>3, <1>8, <2>5 DEF StopDetection, TipFlags, Read, Ordered
    <2>7. Edge
      BY <2>1
    <2> QED BY <1>2, <2>2, <2>5, <2>6, <2>7
        DEF Hears, LateMasks, Detecting, DetectPlace, At, Attended, Awaited, Asserted, Latches, Edge
  <1>9. CASE ManualDetection
    <2>1. PICK f \in BOOLEAN, type \in Plug \ {"moving"} :
            /\ Fails(f, chip)
            /\ read' = [read EXCEPT !.hp = (type # "none"), !.mic = (type = "headset")]
      BY <1>9 DEF ManualDetection
    <2>2. chip' = chip /\ Edge
      BY <2>1, FailsEdge
    <2>3. Same5 /\ Edge
      BY <1>3, <2>2
    <2>4. pc["handler"] = "manual" /\ pc'["handler"] = "load"
      BY <1>1, <1>9, GotoPlace DEF ManualDetection
    <2>5. read'.done <=> read.done
      BY <1>3, <2>1 DEF Read
    <2> QED BY <1>2, <2>3, <2>4, <2>5
        DEF Hears, LateMasks, Detecting, DetectPlace, At, Attended, Awaited, Asserted, Latches, Edge
  <1>10. CASE LoadFlags \/ StoreFlags
    <2>1. chip' = chip /\ bus' = bus /\ read' = read
      BY <1>10 DEF LoadFlags, StoreFlags
    <2>2. Same5 /\ Edge
      BY <1>3, <2>1, SameEdge
    <2>3. \/ pc["handler"] = "load" /\ pc'["handler"] = "store"
          \/ pc["handler"] = "store" /\ pc'["handler"] = IF read.done THEN "tip_on" ELSE "report"
      BY <1>1, <1>10, GotoPlace DEF LoadFlags, StoreFlags
    <2> QED BY <1>2, <2>1, <2>2, <2>3
        DEF Hears, LateMasks, Detecting, DetectPlace, At, Attended, Awaited, Asserted, Latches, Edge
  <1>11. CASE TipInterruptOn
    <2>1. chip' = [chip EXCEPT !.tip_masked = FALSE] /\ Edge
      BY <1>11, WriteEdge DEF TipInterruptOn
    <2>2. Latches(chip', FALSE, chip.auto_masked, chip.tip_latch, chip.auto_done, chip.detecting)
      BY <2>1, LatchesSet
    <2>3. pc["handler"] = "tip_on" /\ pc'["handler"] \in {"idle", "report"}
      BY <1>1, <1>11, GotoPlace DEF TipInterruptOn
    <2>4. read.done /\ Edge
      BY <2>1, <2>3 DEF Ordered
    <2> QED BY <1>2, <2>2, <2>3, <2>4
        DEF Hears, LateMasks, Detecting, DetectPlace, At, Attended, Awaited, Asserted, Latches, Edge
  <1>12. CASE Report
    <2>1. chip' = chip /\ bus' = bus
      BY <1>12 DEF Report
    <2>2. Same5 /\ Edge
      BY <1>3, <2>1, SameEdge
    <2>3. pc["handler"] = "report" /\ pc'["handler"] = "idle"
      BY <1>1, <1>12, GotoPlace DEF Report
    <2> QED BY <1>2, <2>2, <2>3
        DEF Hears, LateMasks, Detecting, DetectPlace, At, Attended, Awaited, Asserted, Latches, Edge
  <1>13. CASE RunJackDetect("handler", "idle")
    BY <1>2, <1>13, HearsOwnDetection
  <1> QED BY <1>4, <1>5, <1>6, <1>7, <1>8, <1>9, <1>10, <1>11, <1>12, <1>13 DEF HandlerStep

\* A detection by pm, while the handler is idle and nothing disturbs it.
LEMMA HearsPmDetection ==
  ASSUME TypeOK, Reachable, ~overlapped, ~history'.faulted, bus.ur, Undisturbed, Ordered,
         pc["handler"] = "idle", Hears, RunJackDetect("pm", "sync")
  PROVE  Hears'
  <1>1. "pm" \in Thread /\ "handler" \in Thread \ {"pm"}
    BY DEF Thread
  <1>2. bus.falls = 0 /\ ~chip.detecting
    BY DetectFrame DEF Undisturbed
  <1>3. CASE Reads("pm", "detect1", "detect2", [chip EXCEPT !.auto_done = FALSE])
    <2>1. /\ chip' = [chip EXCEPT !.auto_done = FALSE]
          /\ pc["pm"] = "detect1" /\ pc'["pm"] = "detect2" /\ pc'["handler"] = "idle"
          /\ Edge /\ read' = read /\ word' = word /\ built' = built
      BY <1>1, <1>3, ReadsCalm
    <2>2. Latches(chip', chip.tip_masked, chip.auto_masked, chip.tip_latch, FALSE, chip.detecting)
      BY <2>1, LatchesSet
    <2>3. built
      BY <2>1 DEF Ordered, DetectPlace
    <2> QED BY <1>2, <2>1, <2>2, <2>3
        DEF Hears, LateMasks, Detecting, DetectPlace, At, Attended, Awaited, Asserted, Latches, Edge
  <1>4. CASE Writes("pm", "detect2", "detect3", [chip EXCEPT !.tip_masked = TRUE])
    <2>1. /\ chip' = [chip EXCEPT !.tip_masked = TRUE]
          /\ pc["pm"] = "detect2" /\ pc'["pm"] = "detect3" /\ pc'["handler"] = "idle"
          /\ Edge /\ read' = read /\ word' = word /\ built' = built
      BY <1>1, <1>4, WritesCalm
    <2>2. Latches(chip', TRUE, chip.auto_masked, chip.tip_latch, chip.auto_done, chip.detecting)
      BY <2>1, LatchesSet
    <2>3. built
      BY <2>1 DEF Ordered, DetectPlace
    <2> QED BY <1>2, <2>1, <2>2, <2>3
        DEF Hears, LateMasks, Detecting, DetectPlace, At, Attended, Awaited, Asserted, Latches, Edge
  <1>5. CASE Reads("pm", "detect3", "detect4", [chip EXCEPT !.tip_latch = FALSE])
    <2>1. /\ chip' = [chip EXCEPT !.tip_latch = FALSE]
          /\ pc["pm"] = "detect3" /\ pc'["pm"] = "detect4" /\ pc'["handler"] = "idle"
          /\ Edge /\ read' = read /\ word' = word /\ built' = built
      BY <1>1, <1>5, ReadsCalm
    <2>2. Latches(chip', chip.tip_masked, chip.auto_masked, FALSE, chip.auto_done, chip.detecting)
      BY <2>1, LatchesSet
    <2>3. built
      BY <2>1 DEF Ordered, DetectPlace
    <2> QED BY <1>2, <2>1, <2>2, <2>3
        DEF Hears, LateMasks, Detecting, DetectPlace, At, Attended, Awaited, Asserted, Latches, Edge
  <1>6. CASE Writes("pm", "detect4", "detect5", [chip EXCEPT !.auto_masked = FALSE])
    <2>1. /\ chip' = [chip EXCEPT !.auto_masked = FALSE]
          /\ pc["pm"] = "detect4" /\ pc'["pm"] = "detect5" /\ pc'["handler"] = "idle"
          /\ Edge /\ read' = read /\ word' = word /\ built' = built
      BY <1>1, <1>6, WritesCalm
    <2>2. Latches(chip', chip.tip_masked, FALSE, chip.tip_latch, chip.auto_done, chip.detecting)
      BY <2>1, LatchesSet
    <2>3. built
      BY <2>1 DEF Ordered, DetectPlace
    <2> QED BY <1>2, <2>1, <2>2, <2>3
        DEF Hears, LateMasks, Detecting, DetectPlace, At, Attended, Awaited, Asserted, Latches, Edge
  <1>7. CASE Writes("pm", "detect5", "detect6", [chip EXCEPT !.detecting = FALSE])
    <2>1. /\ chip' = [chip EXCEPT !.detecting = FALSE]
          /\ pc["pm"] = "detect5" /\ pc'["pm"] = "detect6" /\ pc'["handler"] = "idle"
          /\ Edge /\ read' = read /\ word' = word /\ built' = built
      BY <1>1, <1>7, WritesCalm
    <2>2. Latches(chip', chip.tip_masked, chip.auto_masked, chip.tip_latch, chip.auto_done, FALSE)
      BY <2>1, LatchesSet
    <2>3. built
      BY <2>1 DEF Ordered, DetectPlace
    <2> QED BY <1>2, <2>1, <2>2, <2>3
        DEF Hears, LateMasks, Detecting, DetectPlace, At, Attended, Awaited, Asserted, Latches, Edge
  <1>8. CASE Writes("pm", "detect6", "sync", [chip EXCEPT !.detecting = TRUE, !.steady = TRUE])
    <2>1. /\ chip' = [chip EXCEPT !.detecting = TRUE, !.steady = TRUE]
          /\ pc["pm"] = "detect6" /\ pc'["pm"] = "sync" /\ pc'["handler"] = "idle"
          /\ Edge /\ read' = read /\ word' = word /\ built' = built
      BY <1>1, <1>8, WritesCalm
    <2>2. Latches(chip', chip.tip_masked, chip.auto_masked, chip.tip_latch, chip.auto_done, TRUE)
      BY <2>1, LatchesSet
    <2>3. built
      BY <2>1 DEF Ordered, DetectPlace
    <2> QED BY <1>2, <2>1, <2>2, <2>3
        DEF Hears, LateMasks, Detecting, DetectPlace, At, Attended, Awaited, Asserted, Latches, Edge
  <1> QED BY <1>3, <1>4, <1>5, <1>6, <1>7, <1>8 DEF RunJackDetect

\* The first detection waits for the controls; pm shows the jacks; the controls are built.
LEMMA HearsFirst ==
  ASSUME TypeOK, Ordered, FirstDetect, Hears, pc["handler"] = "idle"
  PROVE  Hears'
  <1>1. /\ chip' = chip /\ bus' = bus /\ read' = read /\ word' = word /\ built' = built
        /\ pc["pm"] = "first" /\ pc'["handler"] = "idle"
        /\ pc'["pm"] = IF built /\ ~word.hp THEN "detect1" ELSE "sync"
    BY GotoPlace DEF FirstDetect, Thread, jackVars
  <1> QED BY <1>1 DEF Hears, LateMasks, Detecting, DetectPlace, At, Attended, Awaited, Asserted

LEMMA HearsSync ==
  ASSUME TypeOK, Sync, Hears
  PROVE  Hears'
  <1>1. /\ chip' = chip /\ bus' = bus /\ read' = read /\ word' = word /\ built' = built
        /\ pc["pm"] = "sync" /\ pc'["handler"] = pc["handler"]
        /\ pc'["pm"] = IF built THEN "up" ELSE "build"
    BY GotoPlace DEF Sync, Thread
  <1> QED BY <1>1 DEF Hears, LateMasks, Detecting, DetectPlace, At, Attended, Awaited, Asserted

LEMMA HearsBuild ==
  ASSUME TypeOK, Build, Hears
  PROVE  Hears'
  <1>1. /\ chip' = chip /\ bus' = bus /\ read' = read /\ word' = word
        /\ pc["pm"] = "build" /\ pc'["handler"] = pc["handler"] /\ pc'["pm"] = "first"
    BY GotoPlace DEF Build, Thread
  <1> QED BY <1>1 DEF Hears, LateMasks, Detecting, DetectPlace, At, Attended, Awaited, Asserted

\* A write to the mixer leaves the interrupts alone.
LEMMA SoundLatches ==
  ASSUME TypeOK, VolumePut \/ VolumeWrite \/ (\E p \in BOOLEAN : PcmHook(p)) \/ HookWrite
  PROVE  /\ Latches(chip', chip.tip_masked, chip.auto_masked, chip.tip_latch,
                    chip.auto_done, chip.detecting)
         /\ Edge
  <1>1. CASE VolumePut
    <2>1. chip' = chip /\ bus' = bus
      BY <1>1 DEF VolumePut
    <2> QED BY <2>1, LatchesSet, SameEdge
  <1>2. CASE VolumeWrite
    <2>1. Write([chip EXCEPT !.mixer = audio.ctl])
      BY <1>2 DEF VolumeWrite, Writes
    <2>2. Edge /\ chip' \in {chip, [chip EXCEPT !.mixer = audio.ctl]}
      BY <2>1, WriteEdge
    <2> QED BY <2>2, LatchesSet
  <1>3. CASE \E p \in BOOLEAN : PcmHook(p)
    <2>1. chip' = chip /\ bus' = bus
      BY <1>3 DEF PcmHook
    <2> QED BY <2>1, LatchesSet, SameEdge
  <1>4. CASE HookWrite
    <2>1. Write([chip EXCEPT !.mixer = audio.hook])
      BY <1>4 DEF HookWrite, Writes
    <2>2. Edge /\ chip' \in {chip, [chip EXCEPT !.mixer = audio.hook]}
      BY <2>1, WriteEdge
    <2> QED BY <2>2, LatchesSet
  <1> QED BY <1>1, <1>2, <1>3, <1>4

LEMMA HearsSound ==
  ASSUME TypeOK, bus.ur, Hears,
         VolumePut \/ VolumeWrite \/ (\E p \in BOOLEAN : PcmHook(p)) \/ HookWrite
  PROVE  Hears'
  <1>1. /\ pc'["handler"] = pc["handler"] /\ pc'["pm"] = pc["pm"]
        /\ read' = read /\ word' = word
    BY SoundFrame DEF WordKept
  <1>2. built' = built
    BY DEF VolumePut, VolumeWrite, HookWrite, PcmHook, Writes, jackVars
  <1>3. /\ Latches(chip', chip.tip_masked, chip.auto_masked, chip.tip_latch,
                   chip.auto_done, chip.detecting)
        /\ Edge
    BY SoundLatches
  <1> QED BY <1>1, <1>2, <1>3
      DEF Hears, LateMasks, Detecting, DetectPlace, At, Attended, Awaited, Asserted, Latches, Edge

LEMMA HearsPlug ==
  ASSUME TypeOK, bus.ur, Hears, MovePlug
  PROVE  Hears'
  <1>1. pc' = pc /\ read' = read /\ word' = word /\ built' = built
    BY DEF MovePlug
  <1>2. /\ chip' = IF chip.powered THEN [chip EXCEPT !.tip_latch = TRUE, !.steady = FALSE] ELSE chip
        /\ Edge
    BY EdgeCounted DEF MovePlug
  <1>3. CASE chip.powered
    <2>1. Latches(chip', chip.tip_masked, chip.auto_masked, TRUE, chip.auto_done, chip.detecting)
      BY <1>2, <1>3, LatchesSet
    <2>2. Edge
      BY <1>2
    <2> QED BY <1>1, <2>1, <2>2
        DEF Hears, LateMasks, Detecting, DetectPlace, At, Attended, Awaited, Asserted, Latches, Edge
  <1>4. CASE ~chip.powered
    <2>1. chip' = chip
      BY <1>2, <1>4
    <2> QED BY <1>1, <1>4, <2>1
        DEF Hears, LateMasks, Detecting, DetectPlace, At, Attended, Awaited, Asserted
  <1> QED BY <1>3, <1>4

LEMMA HearsDone ==
  ASSUME TypeOK, bus.ur, Ordered, Hears, DetectionDone
  PROVE  Hears'
  <1>1. pc' = pc /\ read' = read /\ word' = word /\ built' = built /\ chip.detecting
    BY DEF DetectionDone, jackVars
  <1>2. PICK y : ChipBecomes([chip EXCEPT !.detecting = FALSE, !.auto_done = TRUE, !.type = y])
    BY DEF DetectionDone
  <1>3. chip' = [chip EXCEPT !.detecting = FALSE, !.auto_done = TRUE, !.type = y] /\ Edge
    BY <1>2, EdgeCounted
  <1>4. Latches(chip', chip.tip_masked, chip.auto_masked, chip.tip_latch, TRUE, FALSE)
    BY <1>3, LatchesSet
  <1>5. Edge /\ (pc["handler"] = "stop" => read.done)
    BY <1>3 DEF Ordered
  <1> QED BY <1>1, <1>4, <1>5
      DEF Hears, LateMasks, Detecting, DetectPlace, At, Attended, Awaited, Asserted, Latches, Edge

LEMMA HearsEvent ==
  ASSUME TypeOK, Ordered, pc["pm"] \in Late, Hears, Event
  PROVE  Hears'
  <1>1. pc["handler"] = "idle" /\ pc'["handler"] = "codec_status" /\ pc'["pm"] = pc["pm"]
    BY GotoPlace DEF Event, Ordered, Thread
  <1>2. chip' = chip /\ read' = read
    BY DEF Event
  <1> QED BY <1>1, <1>2 DEF Hears, LateMasks, Detecting, DetectPlace, At, Attended, Awaited, Asserted

LEMMA HearsEnabled ==
  ASSUME TypeOK, pc["handler"] = "idle", ~word.hp, EnableUr,
         ~chip.tip_masked, chip.auto_masked, ~chip.detecting
  PROVE  Hears'
  <1>1. /\ chip' = chip /\ word' = word
        /\ pc'["handler"] = "idle" /\ pc'["pm"] = "first"
    BY GotoPlace DEF EnableUr, Thread, jackVars
  <1> QED BY <1>1 DEF Hears, LateMasks, Detecting, DetectPlace, At, Attended, Awaited, Asserted

-----------------------------------------------------------------------------
(* The masks before responses are enabled.                                 *)

MasksKept ==
  /\ chip'.tip_masked <=> chip.tip_masked
  /\ chip'.auto_masked <=> chip.auto_masked
  /\ chip'.detecting <=> chip.detecting

LEMMA EarlyMasks ==
  ASSUME TypeOK, Release \/ ClearStatuses \/ ReadHpCtl \/ WriteHpCtl \/ AllowEvents \/ Resume
                   \/ LoadWord \/ StoreWord
  PROVE  MasksKept
  <1>1. chip \in Chip
    BY DEF TypeOK
  <1>2. CASE Release
    BY <1>1, <1>2 DEF Release, Chip, MasksKept
  <1>3. CASE ClearStatuses
    <2>1. PICK f \in BOOLEAN : Fails(f, [chip EXCEPT !.auto_done = FALSE, !.tip_latch = FALSE])
      BY <1>3 DEF ClearStatuses, Reads
    <2>2. chip' \in {chip, [chip EXCEPT !.auto_done = FALSE, !.tip_latch = FALSE]}
      BY <2>1, FailsChip
    <2> QED BY <1>1, <2>2 DEF Chip, MasksKept
  <1>4. CASE ReadHpCtl
    <2>1. PICK f \in BOOLEAN : Fails(f, chip)
      BY <1>4 DEF ReadHpCtl
    <2> QED BY <2>1, FailsChip DEF MasksKept
  <1>5. CASE WriteHpCtl
    <2>1. chip' \in {chip, [chip EXCEPT !.hp_ctl = HpCtl(read.hp_ctl)]}
      BY <1>5, WriteChip DEF WriteHpCtl
    <2> QED BY <1>1, <2>1 DEF Chip, MasksKept
  <1>6. CASE AllowEvents \/ Resume \/ LoadWord \/ StoreWord
    BY <1>6 DEF AllowEvents, Resume, LoadWord, StoreWord, MasksKept
  <1> QED BY <1>2, <1>3, <1>4, <1>5, <1>6

LEMMA HeardPm ==
  ASSUME TypeOK, Alone, Powered, Marked, Unflagged, Undisturbed, Ordered, Heard, Next,
         ~overlapped, ~history.faulted, ~history'.faulted, PmStep
  PROVE  /\ pc'["pm"] \in Early => chip'.tip_masked /\ chip'.auto_masked /\ ~chip'.detecting
         /\ pc'["pm"] = "ur_on" => ~chip'.tip_masked /\ chip'.auto_masked /\ ~chip'.detecting
         /\ pc'["pm"] \in Late => Hears'
  <1>1. "pm" \in Thread
    BY DEF Thread
  <1>2. /\ pc["pm"] \in Early => chip.tip_masked /\ chip.auto_masked /\ ~chip.detecting
        /\ pc["pm"] = "ur_on" => ~chip.tip_masked /\ chip.auto_masked /\ ~chip.detecting
        /\ pc["pm"] \in Late => Hears
    BY DEF Heard
  <1>3. pc["handler"] = "idle" \/ pc["pm"] \in {"up", "sync", "build"}
    BY DEF Alone
  <1>4. CASE Release \/ ClearStatuses \/ ReadHpCtl \/ WriteHpCtl \/ AllowEvents \/ Resume
               \/ LoadWord \/ StoreWord
    <2>1. /\ pc["pm"] \in {"release", "irq_regs", "hp_read", "hp_write", "allow", "asleep",
                           "wake_load", "wake_store"}
          /\ pc'["pm"] \in {"wake_load", "hp_read", "hp_write", "allow", "ts_clear", "release",
                            "wake_store", "irq_regs"}
          \/ /\ pc["pm"] \in {"sleep_load", "sleep_store"}
             /\ pc'["pm"] \in {"sleep_store", "reset"}
      <3>1. CASE Release \/ ReadHpCtl \/ WriteHpCtl \/ AllowEvents \/ Resume
        BY <1>1, <3>1, GotoPlace DEF Release, ReadHpCtl, WriteHpCtl, AllowEvents, Resume
      <3>2. CASE ClearStatuses
        BY <1>1, <3>2, GotoPlace DEF ClearStatuses, Reads
      <3>3. CASE LoadWord \/ StoreWord
        BY <1>1, <3>3, GotoPlace DEF LoadWord, StoreWord
      <3> QED BY <1>4, <3>1, <3>2, <3>3
    <2>2. MasksKept
      BY <1>4, EarlyMasks
    <2> QED BY <1>2, <2>1, <2>2 DEF MasksKept, Early, Late, DetectPlace
  <1>5. CASE EnableJackDetect
    <2>1. CASE Reads("pm", "ts_clear", "ts_on", [chip EXCEPT !.tip_latch = FALSE])
      <3>1. pc["pm"] = "ts_clear" /\ pc'["pm"] = "ts_on"
        BY <1>1, <2>1, GotoPlace DEF Reads
      <3>2. Reachable
        BY <3>1, UpIsReachable DEF Awake
      <3>3. chip' = [chip EXCEPT !.tip_latch = FALSE]
        BY <1>1, <2>1, <3>2, ReadsCalm
      <3>4. Latches(chip', chip.tip_masked, chip.auto_masked, FALSE, chip.auto_done, chip.detecting)
        BY <3>3, LatchesSet
      <3> QED BY <1>2, <3>1, <3>4 DEF Latches, Early, Late, DetectPlace
    <2>2. CASE Writes("pm", "ts_on", "ur_on", [chip EXCEPT !.tip_masked = FALSE])
      <3>1. pc["pm"] = "ts_on" /\ pc'["pm"] = "ur_on"
        BY <1>1, <2>2, GotoPlace DEF Writes
      <3>2. Reachable
        BY <3>1, UpIsReachable DEF Awake
      <3>3. chip' = [chip EXCEPT !.tip_masked = FALSE]
        BY <1>1, <2>2, <3>2, WritesCalm
      <3>4. Latches(chip', FALSE, chip.auto_masked, chip.tip_latch, chip.auto_done, chip.detecting)
        BY <3>3, LatchesSet
      <3> QED BY <1>2, <3>1, <3>4 DEF Latches, Early, Late, DetectPlace
    <2> QED BY <1>5, <2>1, <2>2 DEF EnableJackDetect
  <1>6. CASE EnableUr
    <2>1. pc["pm"] = "ur_on" /\ pc'["pm"] = "first"
      BY <1>1, <1>6, GotoPlace DEF EnableUr
    <2>2. Hears'
      BY <1>2, <1>3, <1>6, <2>1, HearsEnabled DEF Unflagged
    <2> QED BY <2>1, <2>2 DEF Early
  <1>7. CASE FirstDetect
    <2>1. pc["pm"] = "first" /\ pc'["pm"] \in {"detect1", "sync"}
      BY <1>1, <1>7, GotoPlace DEF FirstDetect
    <2>2. Hears'
      BY <1>2, <1>3, <1>7, <2>1, HearsFirst DEF Late
    <2> QED BY <2>1, <2>2 DEF Early
  <1>8. CASE Sync
    <2>1. pc["pm"] = "sync" /\ pc'["pm"] \in {"up", "build"}
      BY <1>1, <1>8, GotoPlace DEF Sync
    <2>2. Hears'
      BY <1>2, <1>8, <2>1, HearsSync DEF Late
    <2> QED BY <2>1, <2>2 DEF Early
  <1>9. CASE Build
    <2>1. pc["pm"] = "build" /\ pc'["pm"] = "first"
      BY <1>1, <1>9, GotoPlace DEF Build
    <2>2. Hears'
      BY <1>2, <1>9, <2>1, HearsBuild DEF Late
    <2> QED BY <2>1, <2>2 DEF Early
  <1>10. CASE RunJackDetect("pm", "sync")
    <2>1. pc["pm"] \in DetectPlace /\ pc'["pm"] \in DetectPlace \cup {"sync"}
      BY <1>10, DetectFrame
    <2>2. Reachable /\ bus.ur /\ pc["handler"] = "idle"
      BY <1>3, <2>1, UpIsReachable DEF Awake, DetectPlace, Ordered, Late
    <2>3. Hears'
      BY <1>2, <1>10, <2>1, <2>2, HearsPmDetection DEF Late
    <2> QED BY <2>1, <2>3 DEF Early, DetectPlace
  <1>11. CASE PowerDown
    <2>1. pc'["pm"] \in {"poll", "sleep_load"}
      BY <1>1, <1>11, GotoPlace DEF PowerDown, Reads, Writes
    <2> QED BY <2>1 DEF Early, Late, DetectPlace
  <1>12. CASE Reset
    <2>1. chip' = InReset /\ pc'["pm"] = "asleep"
      BY <1>1, <1>12, GotoPlace DEF Reset
    <2> QED BY <2>1 DEF InReset, Late, DetectPlace
  <1> QED BY <1>4, <1>5, <1>6, <1>7, <1>8, <1>9, <1>10, <1>11, <1>12 DEF PmStep

LEMMA HeardStep ==
  ASSUME TypeOK, TypeOK', Alone, Powered, Marked, Unflagged, Undisturbed, Ordered, Heard,
         [Next]_vars
  PROVE  Heard'
  <1>1. CASE UNCHANGED vars
    BY <1>1 DEF vars, jackVars, Heard, Hears, LateMasks, Detecting, At, Attended, Awaited
  <1>2. SUFFICES ASSUME Next, ~overlapped', ~history'.faulted
                 PROVE  /\ pc'["pm"] \in Early => chip'.tip_masked /\ chip'.auto_masked /\ ~chip'.detecting
                        /\ pc'["pm"] = "ur_on" => ~chip'.tip_masked /\ chip'.auto_masked /\ ~chip'.detecting
                        /\ pc'["pm"] \in Late => Hears'
    BY <1>1 DEF Heard
  <1>3. CASE pc'["pm"] \in {"power_down", "poll", "sleep_load", "sleep_store", "reset"}
    BY <1>3 DEF Early, Late, DetectPlace
  <1>4. CASE pc'["pm"] \notin {"power_down", "poll", "sleep_load", "sleep_store", "reset"}
    <2>1. ~overlapped
      BY <1>2, <1>4, OverlapStep
    <2>2. CASE Reset
      <3>1. chip' = InReset /\ pc'["pm"] = "asleep"
        BY <2>2, GotoPlace DEF Reset, Thread
      <3> QED BY <3>1 DEF InReset, Late, DetectPlace
    <2>3. CASE Suspend
      BY <1>4, <2>3, GotoPlace DEF Suspend, Thread
    <2>4. CASE PmStep /\ ~Reset
      <3>1. ~history.faulted
        BY <1>2, <2>4, PmBus
      <3> QED BY <1>2, <2>1, <2>4, <3>1, HeardPm
    <2>5. CASE Event
      <3>1. pc'["pm"] = pc["pm"] /\ chip' = chip /\ history' = history
        BY <2>5, GotoPlace DEF Event, Thread
      <3>2. pc["pm"] \in Late => Hears'
        BY <1>2, <2>1, <2>5, <3>1, HearsEvent DEF Heard
      <3> QED BY <1>2, <2>1, <3>1, <3>2 DEF Heard
    <2>6. CASE HandlerStep
      <3>1. /\ pc'["pm"] = pc["pm"]
            /\ ~history.faulted
        BY <1>2, <2>6, HandlerFrame DEF Frame, Thread
      <3>2. pc["handler"] # "idle"
        BY <2>6 DEF HandlerStep, ReadCodecStatus, ReadHsStatus, ReadPlugStatus, AutoDone, StopDetection,
                    ManualDetection, LoadFlags, StoreFlags, TipInterruptOn, Report, RunJackDetect,
                    Reads, Writes
      <3>3. pc["pm"] \in {"up", "sync", "build"}
        BY <2>1, <3>2 DEF Alone
      <3>4. Reachable
        BY <2>1, <3>3, UpIsReachable DEF Awake
      <3>5. Hears
        BY <2>1, <3>1, <3>3 DEF Heard, Late
      <3>6. Hears'
        BY <1>2, <2>1, <2>6, <3>1, <3>3, <3>4, <3>5, HearsHandler
      <3> QED BY <3>1, <3>3, <3>6 DEF Early
    <2>7. CASE VolumePut \/ VolumeWrite \/ (\E p \in BOOLEAN : PcmHook(p)) \/ HookWrite
      <3>1. pc'["pm"] = pc["pm"] /\ ~history.faulted
        BY <1>2, <2>7, SoundFrame
      <3>2. Latches(chip', chip.tip_masked, chip.auto_masked, chip.tip_latch,
                    chip.auto_done, chip.detecting)
        BY <2>7, SoundLatches
      <3>3. pc["pm"] \in Late => Hears'
        BY <2>1, <2>7, <3>1, HearsSound DEF Heard, Ordered
      <3> QED BY <2>1, <3>1, <3>2, <3>3 DEF Heard, Latches
    <2>8. CASE MovePlug
      <3>1. pc' = pc /\ ~history.faulted
        BY <1>2, <2>8, OutsideFrame DEF Frame
      <3>2. chip' = IF chip.powered THEN [chip EXCEPT !.tip_latch = TRUE, !.steady = FALSE] ELSE chip
        BY <2>8 DEF MovePlug, ChipBecomes
      <3>3. Latches(chip', chip.tip_masked, chip.auto_masked, TRUE, chip.auto_done, chip.detecting)
              \/ chip' = chip
        BY <3>2, LatchesSet
      <3>4. pc["pm"] \in Late => Hears'
        BY <2>1, <2>8, <3>1, HearsPlug DEF Heard, Ordered
      <3> QED BY <2>1, <3>1, <3>3, <3>4 DEF Heard, Latches
    <2>9. CASE DetectionDone
      <3>1. pc' = pc /\ ~history.faulted
        BY <1>2, <2>9, OutsideFrame DEF Frame
      <3>2. chip.detecting
        BY <2>9 DEF DetectionDone
      <3>3. pc["pm"] \in Late => Hears'
        BY <2>1, <2>9, <3>1, HearsDone DEF Heard, Ordered
      <3> QED BY <2>1, <3>1, <3>2, <3>3 DEF Heard
    <2> QED BY <1>2, <2>2, <2>3, <2>4, <2>5, <2>6, <2>7, <2>8, <2>9, StepCases
  <1> QED BY <1>3, <1>4

-----------------------------------------------------------------------------
(* The theorem.                                                            *)

LEMMA PlugInit == Init => PlugInv
  <1> SUFFICES ASSUME Init PROVE PlugInv
    OBVIOUS
  <1>1. pc["pm"] = "release" /\ pc["handler"] = "idle"
    BY DEF Init, Thread
  <1>2. Unflagged /\ Undisturbed
    BY <1>1 DEF Unflagged, Undisturbed, DetectPlace
  <1>3. Ordered
    BY <1>1 DEF Ordered, Late, DetectPlace
  <1>4. Heard
    BY <1>1 DEF Init, InReset, Heard, Early, Late, DetectPlace
  <1> QED BY <1>2, <1>3, <1>4, InvInit DEF PlugInv

LEMMA PlugStep == PlugInv /\ [Next]_vars => PlugInv'
  <1> SUFFICES ASSUME PlugInv, [Next]_vars PROVE PlugInv'
    OBVIOUS
  <1>1. Inv' /\ TypeOK' /\ Alone'
    BY InvStep DEF PlugInv, Inv
  <1>2. Unflagged'
    BY <1>1, UnflaggedStep DEF PlugInv, Inv
  <1>3. Undisturbed'
    BY <1>1, UndisturbedStep DEF PlugInv, Inv
  <1>4. Ordered'
    BY <1>1, OrderedStep DEF PlugInv, Inv
  <1>5. Heard'
    BY <1>1, HeardStep DEF PlugInv, Inv
  <1> QED BY <1>1, <1>2, <1>3, <1>4, <1>5 DEF PlugInv

LEMMA PlugWatched == PlugInv => Watched
  <1> SUFFICES ASSUME PlugInv, Sound, AtRest PROVE ~chip.tip_masked /\ ~Asserted(chip)
    BY DEF Watched
  <1>1. Hears /\ pc["pm"] = "up" /\ pc["handler"] = "idle" /\ bus.falls = 0 /\ ~chip.detecting
    BY DEF PlugInv, Heard, Sound, AtRest, Late
  <1>2. chip.powered
    BY <1>1 DEF PlugInv, Inv, Powered
  <1>3. ~Asserted(chip)
    BY <1>1 DEF Hears, Attended, Awaited
  <1>4. ~(chip.auto_done /\ ~chip.auto_masked)
    BY <1>2, <1>3 DEF Asserted
  <1> QED BY <1>1, <1>3, <1>4 DEF Hears, LateMasks, Detecting, At, DetectPlace

\* The plug is watched: at rest its interrupt is enabled and the line is high, whatever
\* the order of the handler's accesses, pm's first detection, the moves of the plug and
\* the end of a detection.
THEOREM PlugIsWatched == Spec => []Watched
  <1> QED BY PlugInit, PlugStep, PlugWatched, PTL DEF Spec

-----------------------------------------------------------------------------
(* What the plug is taken for.                                             *)

\* The premises of JackFollows, but for a system that is up and at rest.
Undoubted ==
  ~overlapped /\ ~history.faulted /\ ~history.late /\ ~history.stale /\ jack # "moving"

\* A detection is of the plug as it is now, and so is one that is still latched.
Genuine ==
  ~history.late /\ ~history.stale /\ jack # "moving" =>
    /\ chip.detecting => chip.steady
    /\ chip.auto_done => chip.type \in {jack, "none"}

Right(flags) ==
  /\ flags.hp <=> jack # "none"
  /\ flags.mic <=> jack = "headset" /\ ~config.no_type

\* What the handler has read of the plug so far.
Measured ==
  Undoubted =>
    /\ pc["handler"] = "hs_status" /\ read.done => chip.type \in {jack, "none"}
    /\ pc["handler"] = "plug_status" /\ read.done => read.type \in {jack, "none"}
    /\ pc["handler"] \in {"auto_done", "stop"} => read.type \in {jack, "none"}
    /\ pc["handler"] \in {"auto_done", "stop", "manual", "load", "store", "tip_on"}
         => read.level = jack
    /\ pc["handler"] = "load" => Right(read)
    /\ pc["handler"] = "store" => Right(local["handler"])
    /\ pc["handler"] \in {"tip_on", "report"} => Right(word)

\* The handler will run, ...
Noticed == bus.falls > 0 \/ chip.detecting

\* ... or has no more to do.
Shown == Right(word) /\ (told.speaker <=> jack = "none")

\* Before its first detection pm need not know of a plug.
Followed ==
  Undoubted /\ pc["handler"] = "idle" =>
    /\ pc["pm"] = "up" \/ (pc["pm"] = "sync" /\ built) => Noticed \/ Shown
    /\ pc["pm"] \in {"first", "sync", "build"} => Noticed \/ Shown \/ ~word.hp

TruthInv == PlugInv /\ Genuine /\ Measured /\ Followed

-----------------------------------------------------------------------------
(* Genuine detections.                                                     *)

\* A step of the driver begins a detection, or ends one without a result.
Plain(c) ==
  /\ c.auto_done => chip.auto_done
  /\ (chip.detecting => chip.steady) => (c.detecting => c.steady)

Driven == jack' = jack /\ config' = config
          /\ history'.late = history.late /\ history'.stale = history.stale

LEMMA PlainChips ==
  ASSUME TypeOK
  PROVE  /\ Plain(chip) /\ Plain(InReset)
         /\ \A b \in BOOLEAN : /\ Plain([chip EXCEPT !.tip_masked = b])
                               /\ Plain([chip EXCEPT !.auto_masked = b])
                               /\ Plain([chip EXCEPT !.tip_latch = b])
                               /\ Plain([chip EXCEPT !.powered = TRUE, !.tip_latch = b])
         /\ Plain([chip EXCEPT !.auto_done = FALSE])
         /\ Plain([chip EXCEPT !.detecting = FALSE])
         /\ Plain([chip EXCEPT !.detecting = TRUE, !.steady = TRUE])
         /\ Plain([chip EXCEPT !.auto_done = FALSE, !.tip_latch = FALSE])
         /\ \A v : /\ Plain([chip EXCEPT !.mixer = v])
                   /\ Plain([chip EXCEPT !.hp_ctl = v])
                   /\ Plain([chip EXCEPT !.hp_ctl = v, !.mixer = Mute])
  <1>1. chip \in Chip
    BY DEF TypeOK
  <1>2. Plain(chip) /\ Plain(InReset)
    BY DEF Plain, InReset
  <1>3. \A b \in BOOLEAN : /\ Plain([chip EXCEPT !.tip_masked = b])
                           /\ Plain([chip EXCEPT !.auto_masked = b])
                           /\ Plain([chip EXCEPT !.tip_latch = b])
                           /\ Plain([chip EXCEPT !.powered = TRUE, !.tip_latch = b])
    BY <1>1 DEF Plain, Chip
  <1>4. /\ Plain([chip EXCEPT !.auto_done = FALSE])
        /\ Plain([chip EXCEPT !.detecting = FALSE])
        /\ Plain([chip EXCEPT !.detecting = TRUE, !.steady = TRUE])
        /\ Plain([chip EXCEPT !.auto_done = FALSE, !.tip_latch = FALSE])
    BY <1>1 DEF Plain, Chip
  <1>5. \A v : /\ Plain([chip EXCEPT !.mixer = v])
               /\ Plain([chip EXCEPT !.hp_ctl = v])
               /\ Plain([chip EXCEPT !.hp_ctl = v, !.mixer = Mute])
    BY <1>1 DEF Plain, Chip
  <1> QED BY <1>2, <1>3, <1>4, <1>5

LEMMA TypeIsKept ==
  ASSUME TypeOK
  PROVE  /\ \A b : /\ [chip EXCEPT !.tip_masked = b].type = chip.type
                   /\ [chip EXCEPT !.auto_masked = b].type = chip.type
                   /\ [chip EXCEPT !.tip_latch = b].type = chip.type
                   /\ [chip EXCEPT !.auto_done = b].type = chip.type
                   /\ [chip EXCEPT !.detecting = b].type = chip.type
                   /\ [chip EXCEPT !.mixer = b].type = chip.type
                   /\ [chip EXCEPT !.hp_ctl = b].type = chip.type
                   /\ [chip EXCEPT !.hp_ctl = b, !.mixer = Mute].type = chip.type
                   /\ [chip EXCEPT !.powered = TRUE, !.tip_latch = b].type = chip.type
         /\ [chip EXCEPT !.detecting = TRUE, !.steady = TRUE].type = chip.type
         /\ [chip EXCEPT !.auto_done = FALSE, !.tip_latch = FALSE].type = chip.type
  BY DEF TypeOK, Chip

LEMMA FailsPlain ==
  ASSUME TypeOK, NEW f \in BOOLEAN, NEW c, Fails(f, c), Plain(c), c.type = chip.type
  PROVE  /\ Plain(chip') /\ chip'.type = chip.type
         /\ history'.late = history.late /\ history'.stale = history.stale
  <1>1. chip' \in {chip, c} /\ Plain(chip)
    BY FailsChip, PlainChips
  <1>2. history' = history \/ history' = [history EXCEPT !.faulted = @ \/ f]
    BY FailsChip
  <1>3. history \in History
    BY DEF TypeOK
  <1> QED BY <1>1, <1>2, <1>3 DEF History

LEMMA WritePlain ==
  ASSUME TypeOK, NEW c, Write(c), Plain(c), c.type = chip.type
  PROVE  Plain(chip') /\ chip'.type = chip.type
  <1>1. chip' = c \/ chip' = chip
    BY WriteChip
  <1> QED BY <1>1, PlainChips

LEMMA ReadsPlain ==
  ASSUME TypeOK, NEW t, NEW from, NEW to, NEW c, Reads(t, from, to, c), Plain(c), c.type = chip.type
  PROVE  Plain(chip') /\ chip'.type = chip.type /\ Driven
  <1>1. PICK f \in BOOLEAN : Fails(f, c)
    BY DEF Reads
  <1> QED BY <1>1, FailsPlain DEF Reads, jackVars, Driven

LEMMA WritesPlain ==
  ASSUME TypeOK, NEW t, NEW from, NEW to, NEW c, Writes(t, from, to, c), Plain(c), c.type = chip.type
  PROVE  Plain(chip') /\ chip'.type = chip.type /\ Driven
  BY WritePlain DEF Writes, jackVars, Driven

LEMMA DetectPlain ==
  ASSUME TypeOK, NEW t, NEW after, RunJackDetect(t, after)
  PROVE  Plain(chip') /\ chip'.type = chip.type /\ Driven
  <1>1. CASE Reads(t, "detect1", "detect2", [chip EXCEPT !.auto_done = FALSE])
    BY <1>1, PlainChips, TypeIsKept, ReadsPlain
  <1>2. CASE Writes(t, "detect2", "detect3", [chip EXCEPT !.tip_masked = TRUE])
    BY <1>2, PlainChips, TypeIsKept, WritesPlain
  <1>3. CASE Reads(t, "detect3", "detect4", [chip EXCEPT !.tip_latch = FALSE])
    BY <1>3, PlainChips, TypeIsKept, ReadsPlain
  <1>4. CASE Writes(t, "detect4", "detect5", [chip EXCEPT !.auto_masked = FALSE])
    BY <1>4, PlainChips, TypeIsKept, WritesPlain
  <1>5. CASE Writes(t, "detect5", "detect6", [chip EXCEPT !.detecting = FALSE])
    BY <1>5, PlainChips, TypeIsKept, WritesPlain
  <1>6. CASE Writes(t, "detect6", after, [chip EXCEPT !.detecting = TRUE, !.steady = TRUE])
    BY <1>6, PlainChips, TypeIsKept, WritesPlain
  <1> QED BY <1>1, <1>2, <1>3, <1>4, <1>5, <1>6 DEF RunJackDetect

\* A step of the handler.
LEMMA HandlerPlain ==
  ASSUME TypeOK, Event \/ HandlerStep
  PROVE  Plain(chip') /\ chip'.type = chip.type /\ Driven
  <1> USE DEF jackVars, Driven
  <1>1. CASE Event
    BY <1>1, PlainChips DEF Event
  <1>2. CASE ReadCodecStatus
    BY <1>2, PlainChips, TypeIsKept, FailsPlain DEF ReadCodecStatus
  <1>3. CASE ReadHsStatus
    BY <1>3, PlainChips, TypeIsKept, FailsPlain DEF ReadHsStatus
  <1>4. CASE ReadPlugStatus
    BY <1>4, PlainChips, TypeIsKept, FailsPlain DEF ReadPlugStatus
  <1>5. CASE AutoDone
    BY <1>5, PlainChips, TypeIsKept, WritesPlain DEF AutoDone
  <1>6. CASE StopDetection
    BY <1>6, PlainChips, TypeIsKept, WritePlain DEF StopDetection
  <1>7. CASE ManualDetection
    BY <1>7, PlainChips, TypeIsKept, FailsPlain DEF ManualDetection
  <1>8. CASE LoadFlags \/ StoreFlags \/ Report
    BY <1>8, PlainChips DEF LoadFlags, StoreFlags, Report
  <1>9. CASE TipInterruptOn
    BY <1>9, PlainChips, TypeIsKept, WritePlain DEF TipInterruptOn
  <1>10. CASE RunJackDetect("handler", "idle")
    BY <1>10, DetectPlain
  <1> QED BY <1>1, <1>2, <1>3, <1>4, <1>5, <1>6, <1>7, <1>8, <1>9, <1>10 DEF HandlerStep

\* A step of pm.
LEMMA PmPlain ==
  ASSUME TypeOK, PmStep \/ Suspend
  PROVE  Plain(chip') /\ (Reset \/ chip'.type = chip.type) /\ Driven
  <1>0. history \in History
    BY DEF TypeOK
  <1> USE DEF jackVars, Driven
  <1>1. CASE Release
    <2>1. PICK latch \in BOOLEAN : chip' = [chip EXCEPT !.powered = TRUE, !.tip_latch = latch]
      BY <1>1 DEF Release
    <2> QED BY <1>1, <2>1, PlainChips, TypeIsKept DEF Release
  <1>2. CASE LoadWord \/ StoreWord \/ AllowEvents \/ EnableUr \/ FirstDetect \/ Sync \/ Build \/ Resume
    BY <1>2, PlainChips
       DEF LoadWord, StoreWord, AllowEvents, EnableUr, FirstDetect, Sync, Build, Resume
  <1>3. CASE ClearStatuses
    BY <1>3, PlainChips, TypeIsKept, ReadsPlain DEF ClearStatuses
  <1>4. CASE ReadHpCtl
    BY <1>4, PlainChips, TypeIsKept, FailsPlain DEF ReadHpCtl
  <1>5. CASE WriteHpCtl
    BY <1>5, PlainChips, TypeIsKept, WritePlain DEF WriteHpCtl
  <1>6. CASE EnableJackDetect
    BY <1>6, PlainChips, TypeIsKept, ReadsPlain, WritesPlain DEF EnableJackDetect
  <1>7. CASE RunJackDetect("pm", "sync")
    BY <1>7, DetectPlain
  <1>8. CASE PowerDown
    BY <1>8, PlainChips, TypeIsKept, ReadsPlain, WritesPlain DEF PowerDown
  <1>9. CASE Reset
    BY <1>0, <1>9, PlainChips DEF Reset, History
  <1>10. CASE Suspend
    BY <1>0, <1>10, PlainChips DEF Suspend, History
  <1> QED BY <1>1, <1>2, <1>3, <1>4, <1>5, <1>6, <1>7, <1>8, <1>9, <1>10 DEF PmStep

\* A step of the volume control or of the PCM hook.
LEMMA SoundPlain ==
  ASSUME TypeOK, VolumePut \/ VolumeWrite \/ (\E p \in BOOLEAN : PcmHook(p)) \/ HookWrite
  PROVE  Plain(chip') /\ chip'.type = chip.type /\ Driven
  <1>0. history \in History
    BY DEF TypeOK
  <1> USE DEF jackVars, Driven
  <1>1. CASE VolumePut
    BY <1>0, <1>1, PlainChips DEF VolumePut, History
  <1>2. CASE \E p \in BOOLEAN : PcmHook(p)
    BY <1>0, <1>2, PlainChips DEF PcmHook, History
  <1>3. CASE VolumeWrite \/ HookWrite
    BY <1>3, PlainChips, TypeIsKept, WritesPlain DEF VolumeWrite, HookWrite
  <1> QED BY <1>1, <1>2, <1>3

\* The user and the chip.
LEMMA MoveMarks ==
  ASSUME TypeOK, MovePlug
  PROVE  /\ history'.late <=> ~AtRest
         /\ history'.stale <=> chip.auto_done
         /\ history'.faulted = history.faulted
         /\ chip'.auto_done = chip.auto_done /\ chip'.detecting = chip.detecting
  <1>1. history \in History /\ chip \in Chip
    BY DEF TypeOK
  <1>2. chip' = IF chip.powered THEN [chip EXCEPT !.tip_latch = TRUE, !.steady = FALSE] ELSE chip
    BY DEF MovePlug, ChipBecomes
  <1>3. history' = [history EXCEPT !.late = ~AtRest, !.stale = chip.auto_done]
    BY DEF MovePlug
  <1>4. /\ history'.late <=> ~AtRest
        /\ history'.stale <=> chip.auto_done
        /\ history'.faulted = history.faulted
    BY <1>1, <1>3 DEF History
  <1>5. chip'.auto_done = chip.auto_done /\ chip'.detecting = chip.detecting
    BY <1>1, <1>2 DEF Chip
  <1> QED BY <1>4, <1>5

LEMMA DoneMarks ==
  ASSUME TypeOK, Genuine, DetectionDone
  PROVE  /\ Driven /\ history' = history /\ pc' = pc /\ read' = read /\ word' = word
         /\ local' = local /\ told' = told /\ built' = built
         /\ ~chip'.detecting /\ chip'.auto_done
         /\ ~history.late /\ ~history.stale /\ jack # "moving" => chip'.type \in {jack, "none"}
  <1>1. PICK type \in Plug \ {"moving"} :
          /\ chip.steady /\ jack # "moving" => type \in {jack, "none"}
          /\ ChipBecomes([chip EXCEPT !.detecting = FALSE, !.auto_done = TRUE, !.type = type])
    BY DEF DetectionDone
  <1>2. chip' = [chip EXCEPT !.detecting = FALSE, !.auto_done = TRUE, !.type = type]
    BY <1>1 DEF ChipBecomes
  <1>3. ~chip'.detecting /\ chip'.auto_done /\ chip'.type = type
    BY <1>2 DEF TypeOK, Chip
  <1>4. ~history.late /\ ~history.stale /\ jack # "moving" => chip.steady
    BY DEF Genuine, DetectionDone
  <1> QED BY <1>1, <1>3, <1>4 DEF DetectionDone, jackVars, Driven

LEMMA GenuineStep ==
  ASSUME TypeOK, Genuine, [Next]_vars
  PROVE  Genuine'
  <1>1. CASE UNCHANGED vars
    BY <1>1 DEF vars, jackVars, Genuine
  <1>2. ASSUME Plain(chip'), Driven, chip' = InReset \/ chip'.type = chip.type
        PROVE  Genuine'
    <2>1. chip' = InReset => ~chip'.detecting /\ ~chip'.auto_done
      BY DEF InReset
    <2> QED BY <1>2, <2>1 DEF Plain, Driven, Genuine
  <1>3. CASE Event \/ HandlerStep
    BY <1>2, <1>3, HandlerPlain
  <1>4. CASE PmStep \/ Suspend
    BY <1>2, <1>4, PmPlain DEF Reset
  <1>5. CASE VolumePut \/ VolumeWrite \/ (\E p \in BOOLEAN : PcmHook(p)) \/ HookWrite
    BY <1>2, <1>5, SoundPlain
  <1>6. CASE MovePlug
    BY <1>6, MoveMarks DEF Genuine, AtRest
  <1>7. CASE DetectionDone
    BY <1>7, DoneMarks DEF Genuine, Driven
  <1> QED BY <1>1, <1>3, <1>4, <1>5, <1>6, <1>7, StepCases

-----------------------------------------------------------------------------
(* The handler finds out about the plug.                                   *)

LEMMA TipFlagsRight ==
  ASSUME NEW r \in Read, r.level = jack, jack # "moving",
         jack = "none" \/ config.no_type
  PROVE  Right(TipFlags(r)) /\ TipFlags(r).level = jack
  BY DEF TipFlags, Right, Read

LEMMA MeasuredHandler ==
  ASSUME TypeOK, Reachable, Ordered, Undoubted, ~history'.faulted, Genuine, Measured, Agreed,
         pc["pm"] \in {"up", "sync", "build"}, HandlerStep
  PROVE  Measured' /\ Followed'
  <1>1. /\ "handler" \in Thread /\ read \in Read /\ word \in Word /\ local \in [{"handler", "pm"} -> Word]
        /\ jack # "moving"
    BY DEF Thread, TypeOK, Undoubted
  <1>2. /\ jack' = jack /\ config' = config /\ chip'.type = chip.type
        /\ pc'["pm"] = pc["pm"] /\ built' = built
    BY HandlerPlain, HandlerFrame, HandlerBus DEF Driven, Frame, Thread
  <1>3. chip.auto_done => chip.type \in {jack, "none"}
    BY DEF Genuine, Undoubted
  <1>4. /\ pc["handler"] = "hs_status" /\ read.done => chip.type \in {jack, "none"}
        /\ pc["handler"] = "plug_status" /\ read.done => read.type \in {jack, "none"}
        /\ pc["handler"] \in {"auto_done", "stop"} => read.type \in {jack, "none"}
        /\ pc["handler"] \in {"auto_done", "stop", "manual", "load", "store", "tip_on"}
             => read.level = jack
        /\ pc["handler"] = "load" => Right(read)
        /\ pc["handler"] = "store" => Right(local["handler"])
        /\ pc["handler"] \in {"tip_on", "report"} => Right(word)
    BY DEF Measured
  <1>5. ASSUME NEW f \in BOOLEAN, NEW c, Fails(f, c) PROVE ~f
    BY <1>5, FailsChip
  <1> DEFINE Goal ==
    /\ pc'["handler"] = "hs_status" /\ read'.done => chip'.type \in {jack, "none"}
    /\ pc'["handler"] = "plug_status" /\ read'.done => read'.type \in {jack, "none"}
    /\ pc'["handler"] \in {"auto_done", "stop"} => read'.type \in {jack, "none"}
    /\ pc'["handler"] \in {"auto_done", "stop", "manual", "load", "store", "tip_on"}
         => read'.level = jack
    /\ pc'["handler"] = "load" => Right(read')
    /\ pc'["handler"] = "store" => Right(local'["handler"])
    /\ pc'["handler"] \in {"tip_on", "report"} => Right(word')
    /\ pc'["handler"] = "idle" => Noticed' \/ (Right(word') /\ (told'.speaker <=> jack = "none"))
  <1>6. SUFFICES Goal
    BY <1>2 DEF Measured, Followed, Right, Shown
  <1>7. CASE ReadCodecStatus
    <2>1. pc'["handler"] = "hs_status"
      BY <1>1, <1>7, GotoPlace DEF ReadCodecStatus
    <2>2. read'.done = chip.auto_done
      BY <1>1, <1>7 DEF ReadCodecStatus, Read
    <2> QED BY <1>2, <1>3, <2>1, <2>2
  <1>8. CASE ReadHsStatus
    <2>1. pc["handler"] = "hs_status" /\ pc'["handler"] = "plug_status"
      BY <1>1, <1>8, GotoPlace DEF ReadHsStatus
    <2>2. read'.type = chip.type /\ read'.done = read.done
      BY <1>1, <1>8 DEF ReadHsStatus, Read
    <2> QED BY <1>4, <2>1, <2>2
  <1>9. CASE ReadPlugStatus
    <2>1. PICK f \in BOOLEAN :
            /\ Fails(f, [chip EXCEPT !.tip_latch = FALSE])
            /\ LET r == [read EXCEPT !.level = jack, !.failed = @ \/ f]
               IN IF r.failed THEN read' = r /\ Goto("handler", "report")
                  ELSE IF r.done THEN read' = r /\ Goto("handler", "auto_done")
                  ELSE /\ Goto("handler", TipSense(r, "idle"))
                       /\ IF TipSense(r, "idle") = "load" THEN read' = TipFlags(r) ELSE Forget
      BY <1>9 DEF ReadPlugStatus
    <2> DEFINE r == [read EXCEPT !.level = jack, !.failed = @ \/ f]
    <2>2. ~f /\ pc["handler"] = "plug_status" /\ ~read.failed
      BY <1>5, <1>9, <2>1 DEF ReadPlugStatus, Ordered, Undoubted
    <2>3. r.level = jack /\ r.type = read.type /\ r.done = read.done /\ ~r.failed
      BY <1>1, <2>2 DEF Read
    <2>4. r \in Read
      <3>1. jack \in Plug /\ (read.failed \/ f) \in BOOLEAN /\ "none" \in Type
        BY DEF TypeOK, Type, Plug
      <3> QED BY <1>1, <3>1, ReadTyped
    <2>5. CASE read.done
      <3>1. read' = r /\ pc'["handler"] = "auto_done"
        BY <1>1, <2>1, <2>3, <2>5, GotoPlace
      <3> QED BY <1>4, <2>2, <2>3, <2>5, <3>1
    <2>6. CASE ~read.done
      <3>1. /\ Goto("handler", TipSense(r, "idle"))
            /\ TipSense(r, "idle") = "load" => read' = TipFlags(r)
        BY <2>1, <2>3, <2>6
      <3> HIDE DEF r
      <3>2. CASE jack = "none" \/ config.no_type
        <4>1. TipSense(r, "idle") = "load"
          BY <1>1, <2>3, <3>2 DEF TipSense
        <4>2. pc'["handler"] = "load"
          BY <1>1, <3>1, <4>1, GotoPlace
        <4>3. Right(read') /\ read'.level = jack
          BY <1>1, <2>3, <2>4, <3>1, <3>2, <4>1, TipFlagsRight
        <4> QED BY <4>2, <4>3
      <3>3. CASE ~(jack = "none" \/ config.no_type)
        <4>1. TipSense(r, "idle") = "detect1"
          BY <1>1, <2>3, <3>3 DEF TipSense
        <4>2. pc'["handler"] = "detect1"
          BY <1>1, <3>1, <4>1, GotoPlace
        <4> QED BY <4>2
      <3> QED BY <3>2, <3>3
    <2> QED BY <2>5, <2>6
  <1>10. CASE AutoDone
    <2>1. pc["handler"] = "auto_done" /\ pc'["handler"] = "stop" /\ read' = read
      BY <1>1, <1>10, GotoPlace DEF AutoDone, Writes
    <2> QED BY <1>4, <2>1
  <1>11. CASE StopDetection
    <2>1. pc["handler"] = "stop" /\ read.level = jack /\ read.type \in {jack, "none"}
      BY <1>4, <1>11 DEF StopDetection
    <2>2. CASE config.no_type
      <3>1. TipSense(read, "tip_on") = "load"
        BY <1>1, <2>1, <2>2 DEF TipSense
      <3>2. read' = TipFlags(read) /\ pc'["handler"] = "load"
        BY <1>1, <1>11, <2>2, <3>1, GotoPlace DEF StopDetection
      <3> QED BY <1>1, <2>1, <2>2, <3>2, TipFlagsRight
    <2>3. CASE ~config.no_type
      <3>1. /\ read' = [read EXCEPT !.hp = (read.type # "none"), !.mic = (read.type = "headset")]
            /\ pc'["handler"] = IF read.type \in {"none", "headphone"} THEN "manual" ELSE "load"
        BY <1>1, <1>11, <2>3, GotoPlace DEF StopDetection
      <3>2. /\ read'.level = read.level
            /\ read'.hp <=> read.type # "none"
            /\ read'.mic <=> read.type = "headset"
        BY <1>1, <3>1 DEF Read
      <3>3. pc'["handler"] = "load" => read.type = jack
        BY <2>1, <3>1
      <3> QED BY <2>1, <2>3, <3>1, <3>2, <3>3 DEF Right
    <2> QED BY <2>2, <2>3
  <1>12. CASE ManualDetection
    <2>1. PICK f \in BOOLEAN, type \in Plug \ {"moving"} :
            /\ Fails(f, chip)
            /\ ~f /\ jack # "moving" => type = jack
            /\ read' = [read EXCEPT !.hp = (type # "none"), !.mic = (type = "headset")]
      BY <1>12 DEF ManualDetection
    <2>2. type = jack
      BY <1>1, <1>5, <2>1
    <2>3. pc["handler"] = "manual" /\ pc'["handler"] = "load"
      BY <1>1, <1>12, GotoPlace DEF ManualDetection
    <2>4. /\ read'.level = read.level
          /\ read'.hp <=> jack # "none"
          /\ read'.mic <=> jack = "headset"
      BY <1>1, <2>1, <2>2 DEF Read
    <2> QED BY <1>4, <2>3, <2>4 DEF Right, Agreed
  <1>13. CASE LoadFlags
    <2>1. pc["handler"] = "load" /\ pc'["handler"] = "store" /\ read' = read
      BY <1>1, <1>13, GotoPlace DEF LoadFlags
    <2>2. local'["handler"] = [word EXCEPT !.hp = read.hp, !.mic = read.mic]
      BY <1>1, <1>13 DEF LoadFlags
    <2>3. local'["handler"].hp = read.hp /\ local'["handler"].mic = read.mic
      BY <1>1, <2>2 DEF Word
    <2> QED BY <1>4, <2>1, <2>3 DEF Right
  <1>14. CASE StoreFlags
    <2>1. /\ pc["handler"] = "store" /\ pc'["handler"] \in {"tip_on", "report"}
          /\ read' = read /\ word' = local["handler"]
      BY <1>1, <1>14, GotoPlace DEF StoreFlags
    <2> QED BY <1>4, <2>1
  <1>15. CASE TipInterruptOn
    <2>1. pc["handler"] = "tip_on" /\ word' = word
      BY <1>15 DEF TipInterruptOn, jackVars
    <2>2. pc'["handler"] = "report"
      BY <1>1, <1>4, <1>15, <2>1, GotoPlace DEF TipInterruptOn
    <2> QED BY <1>4, <2>1, <2>2
  <1>16. CASE Report
    <2>1. /\ pc["handler"] = "report" /\ pc'["handler"] = "idle" /\ word' = word
          /\ told' = [hp |-> word.hp, mic |-> word.mic, speaker |-> ~word.hp]
      BY <1>1, <1>16, GotoPlace DEF Report
    <2>2. told'.speaker <=> ~word.hp
      BY <2>1
    <2> QED BY <1>4, <2>1, <2>2 DEF Right
  <1>17. CASE RunJackDetect("handler", "idle")
    <2>1. CASE Writes("handler", "detect6", "idle", [chip EXCEPT !.detecting = TRUE, !.steady = TRUE])
      <3>1. chip' = [chip EXCEPT !.detecting = TRUE, !.steady = TRUE] /\ pc'["handler"] = "idle"
        BY <1>1, <2>1, WritesCalm
      <3>2. chip'.detecting
        BY <3>1 DEF TypeOK, Chip
      <3> QED BY <3>1, <3>2 DEF Noticed
    <2>2. CASE ~Writes("handler", "detect6", "idle", [chip EXCEPT !.detecting = TRUE, !.steady = TRUE])
      <3>1. pc'["handler"] \in DetectPlace
        BY <1>1, <1>17, <2>2, GotoPlace DEF RunJackDetect, Reads, Writes, DetectPlace
      <3> QED BY <3>1 DEF DetectPlace
    <2> QED BY <2>1, <2>2
  <1> QED BY <1>7, <1>8, <1>9, <1>10, <1>11, <1>12, <1>13, <1>14, <1>15, <1>16, <1>17
          DEF HandlerStep

-----------------------------------------------------------------------------
(* The others leave it alone, or call the handler.                         *)

LEMMA FollowedPm ==
  ASSUME TypeOK, TypeOK', Alone, Alone', Powered, Marked, Unflagged, Ordered, Undoubted, Undoubted',
         Measured, Followed, PmStep \/ Suspend
  PROVE  Measured' /\ Followed'
  <1>1. /\ "pm" \in Thread /\ "handler" \in Thread \ {"pm"}
        /\ read \in Read /\ told \in [hp : BOOLEAN, mic : BOOLEAN, speaker : BOOLEAN]
    BY DEF Thread, TypeOK
  <1>2. /\ pc'["handler"] = pc["handler"] /\ Moves(pc["pm"], pc'["pm"])
        /\ jack' = jack /\ config' = config
    BY <1>1, PmFrame, PmPlain DEF Driven
  <1>3. CASE Sync
    <2>1. /\ pc["pm"] = "sync" /\ pc'["pm"] = IF built THEN "up" ELSE "build"
          /\ word' = word /\ local' = local /\ read' = read /\ chip' = chip /\ bus' = bus
          /\ built' = built /\ told' = [told EXCEPT !.hp = word.hp, !.mic = word.mic]
      BY <1>1, <1>3, GotoPlace DEF Sync
    <2>2. told'.speaker = told.speaker
      BY <1>1, <2>1
    <2>3. Measured'
      BY <1>2, <2>1 DEF Measured, Right
    <2>4. Followed'
      BY <1>2, <2>1, <2>2 DEF Followed, Noticed, Shown, Right
    <2> QED BY <2>3, <2>4
  <1>4. CASE ~Sync
    <2>1. pc["pm"] # "sync"
      BY <1>4, PmPlaces
    <2>2. pc'["pm"] \in {"sync", "first", "up", "build"}
            => pc["pm"] \in {"first", "detect6", "ur_on", "build"}
      BY <1>2, <2>1 DEF Moves, DetectPlace
    <2>3. pc'["pm"] # "up" /\ (pc'["pm"] = "build" => pc["pm"] = "build")
      BY <1>2, <2>1 DEF Moves, DetectPlace
    <2>4. ~overlapped /\ ~overlapped'
      BY DEF Undoubted
    <2>5. pc["pm"] = "build" => Build /\ pc'["pm"] = "first"
      BY <1>1, PmPlaces, GotoPlace DEF Build
    <2>6. pc'["handler"] = "idle"
      <3>1. CASE pc'["pm"] \in {"up", "sync", "build"}
        BY <1>2, <2>2, <2>3, <2>4, <2>5, <3>1 DEF Alone
      <3>2. CASE pc'["pm"] \notin {"up", "sync", "build"}
        BY <2>4, <3>2 DEF Alone
      <3> QED BY <3>1, <3>2
    <2>7. Measured'
      BY <2>6 DEF Measured
    <2>8. CASE pc["pm"] = "ur_on"
      <3>1. EnableUr
        BY <2>8, PmPlaces
      <3>2. word' = word /\ pc'["pm"] = "first"
        BY <1>1, <3>1, GotoPlace DEF EnableUr, jackVars
      <3> QED BY <2>4, <2>7, <2>8, <3>2 DEF Unflagged, Followed
    <2>9. CASE pc["pm"] = "build"
      <3>1. word' = word /\ told' = told /\ chip' = chip /\ bus' = bus
        BY <2>5, <2>9 DEF Build
      <3> QED BY <1>2, <2>5, <2>6, <2>7, <2>9, <3>1 DEF Followed, Noticed, Shown, Right
    <2>10. CASE pc["pm"] = "first"
      <3>1. FirstDetect
        BY <2>10, PmPlaces
      <3>2. /\ word' = word /\ told' = told /\ chip' = chip /\ bus' = bus /\ built' = built
            /\ pc'["pm"] = IF built /\ ~word.hp THEN "detect1" ELSE "sync"
        BY <1>1, <3>1, GotoPlace DEF FirstDetect, jackVars
      <3> QED BY <1>2, <2>6, <2>7, <2>10, <3>2 DEF Followed, Noticed, Shown, Right
    <2>11. CASE pc["pm"] = "detect6"
      <3>1. RunJackDetect("pm", "sync") /\ Reachable
        BY <2>4, <2>11, PmPlaces, UpIsReachable DEF Awake, DetectPlace
      <3>2. Writes("pm", "detect6", "sync", [chip EXCEPT !.detecting = TRUE, !.steady = TRUE])
        BY <2>11, <3>1 DEF RunJackDetect, Reads, Writes
      <3>3. chip' = [chip EXCEPT !.detecting = TRUE, !.steady = TRUE]
        BY <1>1, <3>1, <3>2, WritesCalm
      <3>4. chip'.detecting
        BY <3>3 DEF TypeOK, Chip
      <3> QED BY <2>7, <3>4 DEF Followed, Noticed
    <2>12. CASE pc["pm"] \notin {"first", "detect6", "ur_on", "build"}
      BY <2>2, <2>7, <2>12 DEF Followed
    <2> QED BY <2>8, <2>9, <2>10, <2>11, <2>12
  <1> QED BY <1>3, <1>4

LEMMA FollowedSound ==
  ASSUME TypeOK, TypeOK', Undoubted, Measured, Followed,
         VolumePut \/ VolumeWrite \/ (\E p \in BOOLEAN : PcmHook(p)) \/ HookWrite
  PROVE  Measured' /\ Followed'
  <1>1. /\ pc'["handler"] = pc["handler"] /\ pc'["pm"] = pc["pm"]
        /\ read' = read /\ word' = word /\ local' = local /\ told' = told
        /\ chip'.type = chip.type /\ jack' = jack /\ config' = config
    BY SoundFrame, SoundPlain DEF WordKept, Driven
  <1>2. built' = built
    BY DEF VolumePut, VolumeWrite, HookWrite, PcmHook, Writes, jackVars
  <1>3. chip'.detecting = chip.detecting /\ bus'.falls >= bus.falls
        /\ bus.falls \in Nat /\ bus'.falls \in Nat
    <2>1. chip'.detecting \in BOOLEAN /\ chip.detecting \in BOOLEAN
      BY DEF TypeOK, Chip
    <2> QED BY <2>1, SoundLatches DEF Latches, Edge
  <1>4. Noticed => Noticed'
    BY <1>3 DEF Noticed
  <1>5. Measured'
    BY <1>1 DEF Measured, Right, Undoubted
  <1>6. Followed'
    BY <1>1, <1>2, <1>4 DEF Followed, Shown, Right, Undoubted
  <1> QED BY <1>5, <1>6

\* A move of the plug at rest makes a response.
LEMMA FollowedMove ==
  ASSUME PlugInv, PlugInv', Undoubted', ~overlapped, MovePlug
  PROVE  Measured' /\ Followed'
  <1>1. TypeOK /\ pc' = pc /\ built' = built
    BY DEF PlugInv, Inv, MovePlug
  <1>2. AtRest /\ ~history.faulted
    BY <1>1, MoveMarks DEF Undoubted
  <1>3. pc'["handler"] = "idle" /\ pc'["pm"] \in {"up", "asleep"}
    BY <1>1, <1>2 DEF AtRest
  <1>4. Measured'
    BY <1>3 DEF Measured
  <1>5. pc["pm"] = "up" => Noticed'
    <2> SUFFICES ASSUME pc["pm"] = "up" PROVE bus'.falls > 0
      BY DEF Noticed
    <2>1. ~chip.tip_masked /\ ~Asserted(chip)
      BY <1>2, PlugWatched DEF Sound, Watched
    <2>2. bus.ur /\ chip.powered
      BY DEF PlugInv, Ordered, Late, Inv, Powered
    <2>3. chip' = [chip EXCEPT !.tip_latch = TRUE, !.steady = FALSE] /\ Edge
      BY <1>1, <2>2, EdgeCounted DEF MovePlug
    <2>4. Asserted(chip')
      BY <1>1, <2>1, <2>2, <2>3, LatchesSet DEF Latches, Asserted
    <2> QED BY <2>1, <2>2, <2>3, <2>4 DEF Edge
  <1>6. Followed'
    BY <1>1, <1>3, <1>5 DEF Followed
  <1> QED BY <1>4, <1>6

\* So does the end of a detection.
LEMMA FollowedDone ==
  ASSUME PlugInv, PlugInv', Genuine, Undoubted, Measured, Followed, DetectionDone
  PROVE  Measured' /\ Followed'
  <1>1. TypeOK /\ chip.detecting /\ Ordered
    BY DEF PlugInv, Inv, DetectionDone
  <1>2. /\ Driven /\ history' = history /\ pc' = pc /\ read' = read /\ word' = word
        /\ local' = local /\ told' = told /\ built' = built
        /\ chip'.type \in {jack, "none"}
    BY <1>1, DoneMarks DEF Undoubted
  <1>3. Measured'
    BY <1>2 DEF Measured, Driven, Right, Undoubted
  <1>4. ASSUME pc["handler"] = "idle", pc["pm"] \in {"up", "sync", "first", "build"}
        PROVE  bus'.falls > 0
    <2>1. Hears /\ bus.ur /\ chip.powered
      BY <1>4 DEF PlugInv, Heard, Undoubted, Late, Ordered, Inv, Powered
    <2>2. ~chip.auto_masked /\ chip.tip_masked
      BY <1>1, <1>4, <2>1 DEF Hears, LateMasks
    <2>3. PICK y : ChipBecomes([chip EXCEPT !.detecting = FALSE, !.auto_done = TRUE, !.type = y])
      BY DEF DetectionDone
    <2>4. chip' = [chip EXCEPT !.detecting = FALSE, !.auto_done = TRUE, !.type = y] /\ Edge
      BY <1>1, <2>3, EdgeCounted
    <2>5. Asserted(chip')
      BY <1>1, <2>1, <2>2, <2>4, LatchesSet DEF Latches, Asserted
    <2>6. Asserted(chip) => bus.falls > 0
      BY <1>4, <2>1, <2>2 DEF Hears, Attended, Awaited
    <2> QED BY <2>1, <2>4, <2>5, <2>6 DEF Edge
  <1>5. Followed'
    BY <1>2, <1>4 DEF Followed, Noticed
  <1> QED BY <1>3, <1>5

LEMMA MeasuredStep ==
  ASSUME PlugInv, PlugInv', Genuine, Measured, Followed, [Next]_vars
  PROVE  Measured' /\ Followed'
  <1>1. TypeOK /\ TypeOK' /\ Alone /\ Alone' /\ Powered /\ Marked /\ Agreed /\ Ordered /\ Unflagged
    BY DEF PlugInv, Inv
  <1>2. CASE UNCHANGED vars
    BY <1>2 DEF vars, jackVars, Measured, Followed, Undoubted, Right, Noticed, Shown
  <1>3. SUFFICES ASSUME Next, Undoubted' PROVE Measured' /\ Followed'
    BY <1>2 DEF Measured, Followed
  <1>4. ASSUME pc'["handler"] = "idle", pc'["pm"] \notin {"up", "sync", "first", "build"}
        PROVE  Measured' /\ Followed'
    BY <1>4 DEF Measured, Followed
  <1>5. ~Overlap' /\ (~overlapped \/ pc'["pm"] = "power_down")
    BY <1>3, OverlapStep DEF Undoubted
  <1>6. CASE overlapped \/ Reset
    <2>1. Reset => pc'["pm"] = "asleep"
      BY <1>1, GotoPlace DEF Reset, Thread
    <2>2. pc'["pm"] \in {"power_down", "asleep"}
      BY <1>5, <1>6, <2>1
    <2>3. pc'["handler"] = "idle"
      BY <1>5, <2>2 DEF Overlap
    <2> QED BY <1>4, <2>2, <2>3
  <1>7. CASE ~overlapped /\ ~Reset
    <2>1. CASE Event
      <3>1. /\ pc["handler"] = "idle" /\ pc'["pm"] = pc["pm"]
            /\ pc'["handler"] = IF bus.allowed THEN "codec_status" ELSE "idle"
        BY <1>1, <2>1, GotoPlace DEF Event, Thread
      <3>2. CASE bus.allowed
        BY <3>1, <3>2 DEF Measured, Followed
      <3>3. CASE ~bus.allowed
        <4>1. pc["pm"] \notin Late
          BY <1>1, <3>3 DEF Ordered
        <4> QED BY <1>4, <3>1, <3>3, <4>1 DEF Late
      <3> QED BY <3>2, <3>3
    <2>2. CASE HandlerStep
      <3>1. Undoubted
        BY <1>1, <1>3, <1>7, <2>2, HandlerPlain, HandlerFrame DEF Driven, Frame, Undoubted
      <3>2. pc["handler"] # "idle"
        BY <2>2 DEF HandlerStep, ReadCodecStatus, ReadHsStatus, ReadPlugStatus, AutoDone, StopDetection,
                    ManualDetection, LoadFlags, StoreFlags, TipInterruptOn, Report, RunJackDetect,
                    Reads, Writes
      <3>3. pc["pm"] \in {"up", "sync", "build"}
        BY <1>1, <1>7, <3>2 DEF Alone
      <3>4. Reachable
        BY <1>1, <1>7, <3>3, UpIsReachable DEF Awake
      <3>5. ~history'.faulted
        BY <1>3 DEF Undoubted
      <3> QED BY <1>1, <2>2, <3>1, <3>3, <3>4, <3>5, MeasuredHandler
    <2>3. CASE PmStep \/ Suspend
      <3>1. Undoubted
        BY <1>1, <1>3, <1>7, <2>3, PmPlain, PmBus DEF Driven, Undoubted, Suspend
      <3> QED BY <1>1, <1>3, <2>3, <3>1, FollowedPm
    <2>4. CASE VolumePut \/ VolumeWrite \/ (\E p \in BOOLEAN : PcmHook(p)) \/ HookWrite
      <3>1. Undoubted
        BY <1>1, <1>3, <1>7, <2>4, SoundPlain, SoundFrame DEF Driven, Undoubted
      <3> QED BY <1>1, <2>4, <3>1, FollowedSound
    <2>5. CASE MovePlug
      BY <1>3, <1>7, <2>5, FollowedMove
    <2>6. CASE DetectionDone
      <3>1. Undoubted
        BY <1>1, <1>3, <1>7, <2>6, DoneMarks DEF Driven, Undoubted
      <3> QED BY <2>6, <3>1, FollowedDone
    <2> QED BY <1>3, <2>1, <2>2, <2>3, <2>4, <2>5, <2>6, StepCases
  <1> QED BY <1>6, <1>7

LEMMA TruthInit == Init => TruthInv
  <1> SUFFICES ASSUME Init PROVE TruthInv
    OBVIOUS
  <1>1. pc["pm"] = "release" /\ pc["handler"] = "idle"
    BY DEF Init, Thread
  <1>2. Genuine
    BY DEF Init, InReset, Genuine
  <1>3. Measured /\ Followed
    BY <1>1 DEF Measured, Followed
  <1> QED BY <1>2, <1>3, PlugInit DEF TruthInv

LEMMA TruthStep == TruthInv /\ [Next]_vars => TruthInv'
  <1> SUFFICES ASSUME TruthInv, [Next]_vars PROVE TruthInv'
    OBVIOUS
  <1>1. PlugInv /\ PlugInv'
    BY PlugStep DEF TruthInv
  <1>2. Genuine'
    BY <1>1, GenuineStep DEF TruthInv, PlugInv, Inv
  <1>3. Measured' /\ Followed'
    BY <1>1, MeasuredStep DEF TruthInv
  <1> QED BY <1>1, <1>2, <1>3 DEF TruthInv

\* The kernel's jacks and the speaker's pin follow the plug: whatever the order of the
\* handler's accesses, pm's first detection, the volume and the PCM operations, once all
\* is at rest they show the plug, if its last move was made at rest with no detection
\* still latched, no read failed and no event overlapped a suspend or a resume.
THEOREM PlugIsShown == Spec => []JackFollows
  <1>1. TruthInv => JackFollows
    <2> SUFFICES ASSUME TruthInv, Settled, ~overlapped, ~history.late, ~history.stale
                 PROVE  told = Truth
      BY DEF JackFollows
    <2>1. /\ Undoubted /\ pc["pm"] = "up" /\ pc["handler"] = "idle"
          /\ bus.falls = 0 /\ ~chip.detecting
      BY DEF Settled, AtRest, Undoubted
    <2>2. Shown
      BY <2>1 DEF TruthInv, Followed, Noticed
    <2>3. told.hp = word.hp /\ told.mic = word.mic
      BY <2>1 DEF TruthInv, PlugInv, Inv, Agreed
    <2>4. /\ told.hp <=> jack # "none"
          /\ told.mic <=> jack = "headset" /\ ~config.no_type
          /\ told.speaker <=> jack = "none"
      BY <2>2, <2>3 DEF Shown, Right
    <2>5. told \in [hp : BOOLEAN, mic : BOOLEAN, speaker : BOOLEAN]
      BY DEF TruthInv, PlugInv, Inv, TypeOK
    <2> QED BY <2>4, <2>5 DEF Truth
  <1> QED BY <1>1, TruthInit, TruthStep, PTL DEF Spec

================================================================================
