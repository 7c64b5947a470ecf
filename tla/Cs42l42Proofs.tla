----------------------------- MODULE Cs42l42Proofs -----------------------------
(***************************************************************************)
(* Theorems about Cs42l42, for every Budget.                               *)
(***************************************************************************)
EXTENDS Cs42l42, TLAPS

-----------------------------------------------------------------------------
(* The strengthening.                                                      *)

\* Without an overlap the handler runs while pm is up, or shows the jacks.
Alone == ~overlapped => pc["handler"] = "idle" \/ pc["pm"] \in {"up", "sync", "build"}

Powered == chip.powered <=> pc["pm"] \notin {"release", "asleep"}

Awake == DetectPlace \cup {"irq_regs", "hp_read", "hp_write", "allow", "ts_clear", "ts_on",
                           "ur_on", "first", "sync", "build", "up"}

\* The word says "suspended" in reset and not after; a handler that has loaded it
\* will store the same.
Marked ==
  ~overlapped =>
    /\ pc["pm"] \in {"reset", "asleep", "release", "wake_load"} => word = Asleep
    /\ pc["pm"] \in Awake =>
         ~word.suspended /\ (pc["handler"] = "store" => ~local["handler"].suspended)

\* So it does with an overlap, but for a torn store.
Kept ==
  ~torn =>
    /\ pc["handler"] = "store" => local["handler"].suspended = word.suspended
    /\ pc["pm"] \in {"reset", "asleep", "release", "wake_load", "wake_store"} => word.suspended
    /\ pc["pm"] \in Awake => ~word.suspended

Unmuted(v) == (v \div 4) % 4 = 0
Scaled(v) == (v \div 2) % 2 = IF config.full_scale THEN 1 ELSE 0

\* The value of HP_CTL, from the reset to the end of the resume.
Amplified ==
  ~overlapped =>
    /\ pc["pm"] \in {"asleep", "release", "wake_load", "wake_store", "irq_regs", "hp_read"}
         => chip.hp_ctl = 13
    /\ pc["pm"] = "hp_write" /\ ~history.faulted => read.hp_ctl = 13
    /\ pc["pm"] \in Awake \ {"irq_regs", "hp_read", "hp_write"}
         => Unmuted(chip.hp_ctl) /\ (~history.faulted => Scaled(chip.hp_ctl))

Target == IF audio.started THEN Attenuation(audio.vol) ELSE Mute

\* What is on its way to the mixer.
Mixed ==
  ~history.asleep =>
    /\ pc["pm"] \in Awake \cup {"release", "wake_load", "wake_store"}
    /\ pc["pm"] # "up" => pc["ctl"] = "idle" /\ pc["hook"] = "idle"
    /\ ~overlapped /\ ~history.raced =>
         /\ pc["ctl"] = "idle" /\ pc["hook"] = "idle" => chip.mixer = Target
         /\ pc["ctl"] = "write" => pc["hook"] = "idle" /\ audio.ctl = Target
         /\ pc["hook"] = "write" => pc["ctl"] = "idle" /\ audio.hook = Target

InMotion == config.no_type /\ read.level = "moving"

\* The kernel's jacks lag behind the flags only where the handler will report.
Agreed ==
  /\ pc["handler"] = "manual" => ~config.no_type
  /\ pc["handler"] \in {"load", "store"} => ~InMotion
  /\ pc["pm"] = "up" =>
       \/ told.hp = word.hp /\ told.mic = word.mic
       \/ pc["handler"] = "report"
       \/ pc["handler"] = "tip_on" /\ ~InMotion

Inv == TypeOK /\ Alone /\ Powered /\ Marked /\ Kept /\ Amplified /\ Mixed /\ Agreed


-----------------------------------------------------------------------------
(* Types.                                                                  *)

Place(t) == CASE t = "handler" -> HandlerPlace
              [] t = "pm" -> PmPlace
              [] OTHER -> {"idle", "write"}

\* What a step does to the place of its thread.
LEMMA GotoTyped ==
  ASSUME TypeOK, NEW t \in Thread, NEW to \in Place(t), Goto(t, to)
  PROVE  /\ pc' \in [Thread -> HandlerPlace \cup PmPlace \cup {"write"}]
         /\ pc'["handler"] \in HandlerPlace /\ pc'["pm"] \in PmPlace
         /\ pc'["ctl"] \in {"idle", "write"} /\ pc'["hook"] \in {"idle", "write"}
         /\ pc'[t] = to
         /\ \A u \in Thread \ {t} : pc'[u] = pc[u]
  <1>1. pc \in [Thread -> HandlerPlace \cup PmPlace \cup {"write"}]
    BY DEF TypeOK
  <1>2. pc' = [pc EXCEPT ![t] = to]
    BY DEF Goto
  <1>3. "idle" \in HandlerPlace
    BY DEF HandlerPlace
  <1>4. to \in HandlerPlace \cup PmPlace \cup {"write"}
    BY <1>3 DEF Place, Thread
  <1>5. /\ pc'[t] = to
        /\ \A u \in Thread \ {t} : pc'[u] = pc[u]
        /\ pc' \in [Thread -> HandlerPlace \cup PmPlace \cup {"write"}]
    BY <1>1, <1>2, <1>4
  <1>6. /\ pc["handler"] \in HandlerPlace /\ pc["pm"] \in PmPlace
        /\ pc["ctl"] \in {"idle", "write"} /\ pc["hook"] \in {"idle", "write"}
    BY DEF TypeOK
  <1>7. CASE t = "handler"
    BY <1>5, <1>6, <1>7 DEF Place, Thread
  <1>8. CASE t = "pm"
    BY <1>5, <1>6, <1>8 DEF Place, Thread
  <1>9. CASE t \in {"ctl", "hook"}
    BY <1>5, <1>6, <1>9 DEF Place, Thread
  <1> QED BY <1>5, <1>7, <1>8, <1>9 DEF Thread

\* A chip that changes may pull the line.
LEMMA BecomesTyped ==
  ASSUME TypeOK, NEW c \in Chip, ChipBecomes(c)
  PROVE  chip' \in Chip /\ bus' \in Bus
  <1>1. (IF bus.ur /\ Asserted(c) /\ ~Asserted(chip) THEN 1 ELSE 0) \in Nat
    OBVIOUS
  <1> DEFINE n == IF bus.ur /\ Asserted(c) /\ ~Asserted(chip) THEN 1 ELSE 0
  <1>2. bus' = [bus EXCEPT !.falls = @ + n] /\ chip' = c
    BY DEF ChipBecomes
  <1> HIDE DEF n
  <1>3. n \in Nat
    BY <1>1 DEF n
  <1> QED BY <1>2, <1>3 DEF TypeOK, Bus

LEMMA WriteTyped ==
  ASSUME TypeOK, NEW c \in Chip, Write(c)
  PROVE  chip' \in Chip /\ bus' \in Bus
  <1>1. (IF Reachable THEN c ELSE chip) \in Chip
    BY DEF TypeOK
  <1> QED BY <1>1, BecomesTyped DEF Write

LEMMA FailsTyped ==
  ASSUME TypeOK, NEW f \in BOOLEAN, NEW c \in Chip, Fails(f, c)
  PROVE  chip' \in Chip /\ bus' \in Bus /\ budget' \in 0..Budget /\ history' \in History
  <1>1. CASE Reachable
    <2>1. PICK d \in IF f THEN {chip, c} ELSE {c} : ChipBecomes(d)
      BY <1>1 DEF Fails
    <2>2. d \in Chip
      BY DEF TypeOK
    <2>3. chip' \in Chip /\ bus' \in Bus
      BY <2>1, <2>2, BecomesTyped
    <2>4. budget' \in 0..Budget
      BY <1>1, BudgetAssumption DEF Fails, TypeOK
    <2>5. history' \in History
      BY <1>1 DEF Fails, TypeOK, History
    <2> QED BY <2>3, <2>4, <2>5
  <1>2. CASE ~Reachable
    BY <1>2 DEF Fails, TypeOK
  <1> QED BY <1>1, <1>2

LEMMA WritesTyped ==
  ASSUME TypeOK, NEW t \in Thread, NEW from, NEW to \in Place(t), NEW c \in Chip,
         Writes(t, from, to, c), overlapped' \in BOOLEAN, torn' \in BOOLEAN
  PROVE  TypeOK'
  <1>1. chip' \in Chip /\ bus' \in Bus
    BY WriteTyped DEF Writes
  <1>2. Goto(t, to)
    BY DEF Writes
  <1> QED BY <1>1, <1>2, GotoTyped DEF Writes, TypeOK, jackVars

LEMMA ReadsTyped ==
  ASSUME TypeOK, NEW t \in Thread, NEW from, NEW to \in Place(t), NEW c \in Chip,
         Reads(t, from, to, c), overlapped' \in BOOLEAN, torn' \in BOOLEAN
  PROVE  TypeOK'
  <1>1. PICK f \in BOOLEAN : Fails(f, c)
    BY DEF Reads
  <1>2. Goto(t, to)
    BY DEF Reads
  <1> QED BY <1>1, <1>2, FailsTyped, GotoTyped DEF Reads, TypeOK, jackVars

\* The chips that the reads and writes of both threads may leave.
LEMMA ChipTyped ==
  ASSUME NEW c \in Chip, NEW b \in BOOLEAN
  PROVE  /\ [c EXCEPT !.auto_done = b] \in Chip
         /\ [c EXCEPT !.tip_masked = b] \in Chip
         /\ [c EXCEPT !.auto_masked = b] \in Chip
         /\ [c EXCEPT !.tip_latch = b] \in Chip
         /\ [c EXCEPT !.detecting = b] \in Chip
         /\ [c EXCEPT !.detecting = TRUE, !.steady = TRUE] \in Chip
         /\ [c EXCEPT !.auto_done = FALSE, !.tip_latch = FALSE] \in Chip
         /\ [c EXCEPT !.hp_ctl = 13, !.mixer = Mute] \in Chip
         /\ [c EXCEPT !.powered = TRUE, !.tip_latch = b] \in Chip
         /\ [c EXCEPT !.tip_latch = TRUE, !.steady = FALSE] \in Chip
         /\ \A v \in 0..255 : [c EXCEPT !.hp_ctl = v] \in Chip
         /\ \A v \in 0..63 : [c EXCEPT !.mixer = v] \in Chip
         /\ \A y \in Type : [c EXCEPT !.detecting = FALSE, !.auto_done = TRUE, !.type = y] \in Chip
  <1>1. [c EXCEPT !.auto_done = b] \in Chip
    BY DEF Chip, Mute
  <1>2. [c EXCEPT !.tip_masked = b] \in Chip
    BY DEF Chip, Mute
  <1>3. [c EXCEPT !.auto_masked = b] \in Chip
    BY DEF Chip, Mute
  <1>4. [c EXCEPT !.tip_latch = b] \in Chip
    BY DEF Chip, Mute
  <1>5. [c EXCEPT !.detecting = b] \in Chip
    BY DEF Chip, Mute
  <1>6. [c EXCEPT !.detecting = TRUE, !.steady = TRUE] \in Chip
    BY DEF Chip, Mute
  <1>7. [c EXCEPT !.auto_done = FALSE, !.tip_latch = FALSE] \in Chip
    BY DEF Chip, Mute
  <1>8. [c EXCEPT !.hp_ctl = 13, !.mixer = Mute] \in Chip
    <2> DEFINE d == [c EXCEPT !.hp_ctl = 13]
    <2>1. d \in Chip
      BY DEF Chip
    <2>2. \A e \in Chip : [e EXCEPT !.mixer = Mute] \in Chip
      BY DEF Chip, Mute
    <2>3. [d EXCEPT !.mixer = Mute] \in Chip
      BY <2>1, <2>2
    <2>4. [c EXCEPT !.hp_ctl = 13, !.mixer = Mute] = [d EXCEPT !.mixer = Mute]
      OBVIOUS
    <2> QED BY <2>3, <2>4
  <1>9. [c EXCEPT !.powered = TRUE, !.tip_latch = b] \in Chip
    BY DEF Chip, Mute
  <1>10. [c EXCEPT !.tip_latch = TRUE, !.steady = FALSE] \in Chip
    BY DEF Chip, Mute
  <1>11. \A v \in 0..255 : [c EXCEPT !.hp_ctl = v] \in Chip
    BY DEF Chip, Mute
  <1>12. \A v \in 0..63 : [c EXCEPT !.mixer = v] \in Chip
    BY DEF Chip, Mute
  <1>13. \A y \in Type : [c EXCEPT !.detecting = FALSE, !.auto_done = TRUE, !.type = y] \in Chip
    BY DEF Chip, Mute
  <1> QED BY <1>1, <1>2, <1>3, <1>4, <1>5, <1>6, <1>7, <1>8, <1>9, <1>10, <1>11, <1>12, <1>13

\* What the handler and pm may write into what they have read.
LEMMA ReadTyped ==
  ASSUME NEW r \in Read, NEW b \in BOOLEAN, NEW d \in BOOLEAN, NEW y \in Type
  PROVE  /\ [r EXCEPT !.done = b, !.failed = d] \in Read
         /\ [r EXCEPT !.type = y, !.failed = b] \in Read
         /\ \A l \in Plug : [r EXCEPT !.level = l, !.failed = b] \in Read
         /\ [r EXCEPT !.hp = b, !.mic = d] \in Read
         /\ \A v \in -EIO..255 : [r EXCEPT !.hp_ctl = v] \in Read
  <1>1. \A e \in Read : [e EXCEPT !.failed = b] \in Read /\ [e EXCEPT !.failed = d] \in Read
    BY DEF Read
  <1>2. [r EXCEPT !.done = b] \in Read /\ [r EXCEPT !.type = y] \in Read
    BY DEF Read
  <1>3. \A l \in Plug : [r EXCEPT !.level = l] \in Read
    BY DEF Read
  <1>4. \A e \in Read : [e EXCEPT !.mic = d] \in Read
    BY DEF Read
  <1>5. [r EXCEPT !.hp = b] \in Read
    BY DEF Read
  <1>6. [r EXCEPT !.done = b, !.failed = d] \in Read
    <2>1. [r EXCEPT !.done = b, !.failed = d] = [[r EXCEPT !.done = b] EXCEPT !.failed = d]
      OBVIOUS
    <2> QED BY <1>1, <1>2, <2>1
  <1>7. [r EXCEPT !.type = y, !.failed = b] \in Read
    <2>1. [r EXCEPT !.type = y, !.failed = b] = [[r EXCEPT !.type = y] EXCEPT !.failed = b]
      OBVIOUS
    <2> QED BY <1>1, <1>2, <2>1
  <1>8. ASSUME NEW l \in Plug PROVE [r EXCEPT !.level = l, !.failed = b] \in Read
    <2>1. [r EXCEPT !.level = l, !.failed = b] = [[r EXCEPT !.level = l] EXCEPT !.failed = b]
      OBVIOUS
    <2> QED BY <1>1, <1>3, <2>1
  <1>9. [r EXCEPT !.hp = b, !.mic = d] \in Read
    <2>1. [r EXCEPT !.hp = b, !.mic = d] = [[r EXCEPT !.hp = b] EXCEPT !.mic = d]
      OBVIOUS
    <2> QED BY <1>4, <1>5, <2>1
  <1>10. \A v \in -EIO..255 : [r EXCEPT !.hp_ctl = v] \in Read
    BY DEF Read
  <1> QED BY <1>6, <1>7, <1>8, <1>9, <1>10

LEMMA RunJackDetectTyped ==
  ASSUME TypeOK, NEW t \in {"handler", "pm"}, NEW after \in Place(t),
         RunJackDetect(t, after), overlapped' \in BOOLEAN, torn' \in BOOLEAN
  PROVE  TypeOK'
  <1>1. t \in Thread /\ DetectPlace \subseteq Place(t)
    BY DEF Thread, Place, HandlerPlace, PmPlace
  <1>2. \A n \in DetectPlace : n \in Place(t)
    BY <1>1
  <1>3. chip \in Chip
    BY DEF TypeOK
  <1> USE DEF DetectPlace
  <1>4. CASE Reads(t, "detect1", "detect2", [chip EXCEPT !.auto_done = FALSE])
    BY <1>1, <1>2, <1>3, <1>4, ReadsTyped, ChipTyped
  <1>5. CASE Writes(t, "detect2", "detect3", [chip EXCEPT !.tip_masked = TRUE])
    BY <1>1, <1>2, <1>3, <1>5, WritesTyped, ChipTyped
  <1>6. CASE Reads(t, "detect3", "detect4", [chip EXCEPT !.tip_latch = FALSE])
    BY <1>1, <1>2, <1>3, <1>6, ReadsTyped, ChipTyped
  <1>7. CASE Writes(t, "detect4", "detect5", [chip EXCEPT !.auto_masked = FALSE])
    BY <1>1, <1>2, <1>3, <1>7, WritesTyped, ChipTyped
  <1>8. CASE Writes(t, "detect5", "detect6", [chip EXCEPT !.detecting = FALSE])
    BY <1>1, <1>2, <1>3, <1>8, WritesTyped, ChipTyped
  <1>9. CASE Writes(t, "detect6", after, [chip EXCEPT !.detecting = TRUE, !.steady = TRUE])
    BY <1>1, <1>2, <1>3, <1>9, WritesTyped, ChipTyped
  <1> QED BY <1>4, <1>5, <1>6, <1>7, <1>8, <1>9 DEF RunJackDetect

LEMMA EventTyped ==
  ASSUME TypeOK, Event, overlapped' \in BOOLEAN, torn' \in BOOLEAN
  PROVE  TypeOK'
  <1>1. PICK to \in Place("handler") : Goto("handler", to)
    BY DEF Event, Place, HandlerPlace
  <1>2. bus' \in Bus
    BY DEF Event, TypeOK, Bus
  <1> QED BY <1>1, <1>2, GotoTyped DEF Event, TypeOK, jackVars, Thread

LEMMA ReadCodecStatusTyped ==
  ASSUME TypeOK, ReadCodecStatus, overlapped' \in BOOLEAN, torn' \in BOOLEAN
  PROVE  TypeOK'
  <1>1. Goto("handler", "hs_status") /\ "hs_status" \in Place("handler") /\ "handler" \in Thread
    BY DEF ReadCodecStatus, Place, HandlerPlace, Thread
  <1>2. PICK f \in BOOLEAN : /\ Fails(f, [chip EXCEPT !.auto_done = FALSE])
                             /\ read' = [read EXCEPT !.done = chip.auto_done, !.failed = f]
    BY DEF ReadCodecStatus
  <1>3. [chip EXCEPT !.auto_done = FALSE] \in Chip
    BY ChipTyped DEF TypeOK
  <1>4. read \in Read /\ chip.auto_done \in BOOLEAN /\ read.type \in Type
    BY DEF TypeOK, Chip, Read
  <1>5. read' \in Read
    BY <1>2, <1>4, ReadTyped
  <1> QED BY <1>1, <1>2, <1>3, <1>5, FailsTyped, GotoTyped DEF ReadCodecStatus, TypeOK, jackVars

LEMMA ReadHsStatusTyped ==
  ASSUME TypeOK, ReadHsStatus, overlapped' \in BOOLEAN, torn' \in BOOLEAN
  PROVE  TypeOK'
  <1>1. Goto("handler", "plug_status") /\ "plug_status" \in Place("handler") /\ "handler" \in Thread
    BY DEF ReadHsStatus, Place, HandlerPlace, Thread
  <1>2. PICK f \in BOOLEAN : /\ Fails(f, chip)
                             /\ read' = [read EXCEPT !.type = chip.type, !.failed = @ \/ f]
    BY DEF ReadHsStatus
  <1>3. chip \in Chip
    BY DEF TypeOK
  <1>4. read \in Read /\ chip.type \in Type /\ (read.failed \/ f) \in BOOLEAN
    BY DEF TypeOK, Chip
  <1>5. read' \in Read
    BY <1>2, <1>4, ReadTyped
  <1> QED BY <1>1, <1>2, <1>3, <1>5, FailsTyped, GotoTyped DEF ReadHsStatus, TypeOK, jackVars

\* The steps that forget what was read, or go by it.
LEMMA ForgetTyped ==
  ASSUME TypeOK, Forget
  PROVE  read' \in Read
  <1>1. read.hp_ctl \in -EIO..255
    BY DEF TypeOK, Read
  <1>2. Unread \in Read /\ Unread.done \in BOOLEAN /\ Unread.type \in Type
    BY DEF Unread, Read, Type, Plug, EIO
  <1> QED BY <1>1, <1>2, ReadTyped DEF Forget

LEMMA TipFlagsTyped ==
  ASSUME TypeOK, NEW r \in Read
  PROVE  TipFlags(r) \in Read
  <1>1. (r.level # "none") \in BOOLEAN
    OBVIOUS
  <1> QED BY <1>1 DEF TipFlags, Read

LEMMA TipSenseTyped ==
  ASSUME NEW r \in Read, NEW none \in HandlerPlace
  PROVE  TipSense(r, none) \in HandlerPlace
  BY DEF TipSense, HandlerPlace, DetectPlace

LEMMA ReadPlugStatusTyped ==
  ASSUME TypeOK, ReadPlugStatus, overlapped' \in BOOLEAN, torn' \in BOOLEAN
  PROVE  TypeOK'
  <1>1. PICK f \in BOOLEAN :
          /\ Fails(f, [chip EXCEPT !.tip_latch = FALSE])
          /\ LET r == [read EXCEPT !.level = jack, !.failed = @ \/ f]
             IN IF r.failed THEN read' = r /\ Goto("handler", "report")
                ELSE IF r.done THEN read' = r /\ Goto("handler", "auto_done")
                ELSE /\ Goto("handler", TipSense(r, "idle"))
                     /\ IF TipSense(r, "idle") = "load" THEN read' = TipFlags(r) ELSE Forget
    BY DEF ReadPlugStatus
  <1> DEFINE r == [read EXCEPT !.level = jack, !.failed = @ \/ f]
  <1>2. [chip EXCEPT !.tip_latch = FALSE] \in Chip
    BY ChipTyped DEF TypeOK
  <1>3. r \in Read
    <2>1. read \in Read /\ jack \in Plug /\ (read.failed \/ f) \in BOOLEAN /\ read.type \in Type
      BY DEF TypeOK, Read
    <2> QED BY <2>1, ReadTyped
  <1>4. read' \in Read
    BY <1>1, <1>3, TipFlagsTyped, ForgetTyped
  <1>5. "idle" \in HandlerPlace /\ "report" \in HandlerPlace /\ "auto_done" \in HandlerPlace
    BY DEF HandlerPlace
  <1>6. TipSense(r, "idle") \in HandlerPlace
    BY <1>3, <1>5, TipSenseTyped
  <1>7. PICK to \in Place("handler") : Goto("handler", to)
    BY <1>1, <1>5, <1>6 DEF Place
  <1> QED BY <1>1, <1>2, <1>4, <1>7, FailsTyped, GotoTyped DEF ReadPlugStatus, TypeOK, jackVars, Thread

LEMMA AutoDoneTyped ==
  ASSUME TypeOK, AutoDone, overlapped' \in BOOLEAN, torn' \in BOOLEAN
  PROVE  TypeOK'
  <1>1. "stop" \in Place("handler") /\ "handler" \in Thread /\ chip \in Chip
    BY DEF Place, HandlerPlace, Thread, TypeOK
  <1> QED BY <1>1, ChipTyped, WritesTyped DEF AutoDone

LEMMA StopDetectionTyped ==
  ASSUME TypeOK, StopDetection, overlapped' \in BOOLEAN, torn' \in BOOLEAN
  PROVE  TypeOK'
  <1>1. chip' \in Chip /\ bus' \in Bus
    BY ChipTyped, WriteTyped DEF StopDetection, TypeOK
  <1>2. read \in Read
    BY DEF TypeOK
  <1>3. {"tip_on", "detect1", "manual", "load"} \subseteq HandlerPlace
    BY DEF HandlerPlace, DetectPlace
  <1>4. TipSense(read, "tip_on") \in HandlerPlace
    BY <1>2, <1>3, TipSenseTyped
  <1>5. PICK to \in Place("handler") : Goto("handler", to)
    BY <1>3, <1>4 DEF StopDetection, Place
  <1>6. read' \in Read
    <2>1. (read.type # "none") \in BOOLEAN /\ (read.type = "headset") \in BOOLEAN
      OBVIOUS
    <2>2. [read EXCEPT !.hp = (read.type # "none"), !.mic = (read.type = "headset")] \in Read
      BY <1>2, <2>1 DEF Read
    <2> QED BY <1>2, <2>2, TipFlagsTyped DEF StopDetection
  <1> QED BY <1>1, <1>5, <1>6, GotoTyped DEF StopDetection, TypeOK, jackVars, Thread

LEMMA ManualDetectionTyped ==
  ASSUME TypeOK, ManualDetection, overlapped' \in BOOLEAN, torn' \in BOOLEAN
  PROVE  TypeOK'
  <1>1. Goto("handler", "load") /\ "load" \in Place("handler") /\ "handler" \in Thread
    BY DEF ManualDetection, Place, HandlerPlace, Thread
  <1>2. PICK f \in BOOLEAN, type \in Plug \ {"moving"} :
          /\ Fails(f, chip)
          /\ read' = [read EXCEPT !.hp = (type # "none"), !.mic = (type = "headset")]
    BY DEF ManualDetection
  <1>3. chip \in Chip
    BY DEF TypeOK
  <1>4. read' \in Read
    <2>1. (type # "none") \in BOOLEAN /\ (type = "headset") \in BOOLEAN
      OBVIOUS
    <2>2. read \in Read /\ read.type \in Type
      BY DEF TypeOK, Read
    <2> QED BY <1>2, <2>1, <2>2, ReadTyped
  <1> QED BY <1>1, <1>2, <1>3, <1>4, FailsTyped, GotoTyped DEF ManualDetection, TypeOK, jackVars

LEMMA LoadFlagsTyped ==
  ASSUME TypeOK, LoadFlags, overlapped' \in BOOLEAN, torn' \in BOOLEAN
  PROVE  TypeOK'
  <1>1. Goto("handler", "store") /\ "store" \in Place("handler") /\ "handler" \in Thread
    BY DEF LoadFlags, Place, HandlerPlace, Thread
  <1>2. local' \in [{"handler", "pm"} -> Word]
    BY DEF LoadFlags, TypeOK, Word, Read
  <1> QED BY <1>1, <1>2, GotoTyped DEF LoadFlags, TypeOK

LEMMA StoreFlagsTyped ==
  ASSUME TypeOK, StoreFlags, overlapped' \in BOOLEAN, torn' \in BOOLEAN
  PROVE  TypeOK'
  <1>1. PICK to \in Place("handler") : Goto("handler", to)
    BY DEF StoreFlags, Place, HandlerPlace
  <1>2. word' \in Word /\ local' \in [{"handler", "pm"} -> Word]
    BY DEF StoreFlags, TypeOK, Word, Asleep
  <1> QED BY <1>1, <1>2, GotoTyped DEF StoreFlags, TypeOK, Thread

LEMMA TipInterruptOnTyped ==
  ASSUME TypeOK, TipInterruptOn, overlapped' \in BOOLEAN, torn' \in BOOLEAN
  PROVE  TypeOK'
  <1>1. PICK to \in Place("handler") : Goto("handler", to)
    BY DEF TipInterruptOn, Place, HandlerPlace
  <1>2. chip' \in Chip /\ bus' \in Bus
    BY ChipTyped, WriteTyped DEF TipInterruptOn, TypeOK
  <1>3. read' \in Read
    BY ForgetTyped DEF TipInterruptOn, TypeOK
  <1> QED BY <1>1, <1>2, <1>3, GotoTyped DEF TipInterruptOn, TypeOK, jackVars, Thread

LEMMA ReportTyped ==
  ASSUME TypeOK, Report, overlapped' \in BOOLEAN, torn' \in BOOLEAN
  PROVE  TypeOK'
  <1>1. Goto("handler", "idle") /\ "idle" \in Place("handler") /\ "handler" \in Thread
    BY DEF Report, Place, HandlerPlace, Thread
  <1>2. told' \in [hp : BOOLEAN, mic : BOOLEAN, speaker : BOOLEAN]
    BY DEF Report, TypeOK, Word
  <1>3. read' \in Read
    BY ForgetTyped DEF Report
  <1> QED BY <1>1, <1>2, <1>3, GotoTyped DEF Report, TypeOK

LEMMA ReleaseTyped ==
  ASSUME TypeOK, Release, overlapped' \in BOOLEAN, torn' \in BOOLEAN
  PROVE  TypeOK'
  <1>1. Goto("pm", "wake_load") /\ "wake_load" \in Place("pm") /\ "pm" \in Thread
    BY DEF Release, Place, PmPlace, Thread
  <1>2. chip \in Chip
    BY DEF TypeOK
  <1>3. PICK latch \in BOOLEAN : chip' = [chip EXCEPT !.powered = TRUE, !.tip_latch = latch]
    BY DEF Release
  <1>4. chip' \in Chip
    BY <1>2, <1>3, ChipTyped
  <1> QED BY <1>1, <1>4, GotoTyped DEF Release, TypeOK, jackVars

LEMMA LoadWordTyped ==
  ASSUME TypeOK, LoadWord, overlapped' \in BOOLEAN, torn' \in BOOLEAN
  PROVE  TypeOK'
  <1>1. PICK to \in Place("pm") : Goto("pm", to)
    BY DEF LoadWord, Place, PmPlace
  <1>2. local' \in [{"handler", "pm"} -> Word]
    BY DEF LoadWord, TypeOK
  <1> QED BY <1>1, <1>2, GotoTyped DEF LoadWord, TypeOK, Thread

LEMMA StoreWordTyped ==
  ASSUME TypeOK, StoreWord, overlapped' \in BOOLEAN, torn' \in BOOLEAN
  PROVE  TypeOK'
  <1>1. PICK to \in Place("pm") : Goto("pm", to)
    BY DEF StoreWord, Place, PmPlace
  <1>2. Asleep \in Word /\ local["pm"] \in Word /\ local \in [{"handler", "pm"} -> Word]
    BY DEF TypeOK, Word, Asleep
  <1>3. [local["pm"] EXCEPT !.suspended = FALSE] \in Word
    BY <1>2 DEF Word
  <1>4. word' \in Word
    BY <1>2, <1>3 DEF StoreWord
  <1>5. local' \in [{"handler", "pm"} -> Word]
    BY <1>2 DEF StoreWord
  <1> QED BY <1>1, <1>4, <1>5, GotoTyped DEF StoreWord, TypeOK, Thread

LEMMA ReadHpCtlTyped ==
  ASSUME TypeOK, ReadHpCtl, overlapped' \in BOOLEAN, torn' \in BOOLEAN
  PROVE  TypeOK'
  <1>1. Goto("pm", "hp_write") /\ "hp_write" \in Place("pm") /\ "pm" \in Thread
    BY DEF ReadHpCtl, Place, PmPlace, Thread
  <1>2. PICK f \in BOOLEAN :
          /\ Fails(f, chip)
          /\ read' = [read EXCEPT !.hp_ctl = IF f THEN -EIO ELSE chip.hp_ctl]
    BY DEF ReadHpCtl
  <1>3. (IF f THEN -EIO ELSE chip.hp_ctl) \in -EIO..255
    BY DEF TypeOK, Chip, EIO
  <1>4. read \in Read /\ read.done \in BOOLEAN /\ read.type \in Type
    BY DEF TypeOK, Read
  <1>5. read' \in Read
    BY <1>2, <1>3, <1>4, ReadTyped
  <1>6. chip \in Chip
    BY DEF TypeOK
  <1> QED BY <1>1, <1>2, <1>5, <1>6, FailsTyped, GotoTyped DEF ReadHpCtl, TypeOK, jackVars

LEMMA HpCtlTyped == ASSUME NEW v \in -EIO..255 PROVE HpCtl(v) \in 0..255
  <1>1. Bit1Set(v) \in Int
    BY DEF Bit1Set, EIO
  <1> DEFINE w == IF config.full_scale THEN Bit1Set(v) ELSE v
  <1>2. w \in Int
    BY <1>1 DEF EIO
  <1>3. \A u \in Int : Bits23Clear(u) % 256 \in 0..255
    BY DEF Bits23Clear
  <1> QED BY <1>2, <1>3 DEF HpCtl

LEMMA WriteHpCtlTyped ==
  ASSUME TypeOK, WriteHpCtl, overlapped' \in BOOLEAN, torn' \in BOOLEAN
  PROVE  TypeOK'
  <1>1. Goto("pm", "allow") /\ "allow" \in Place("pm") /\ "pm" \in Thread
    BY DEF WriteHpCtl, Place, PmPlace, Thread
  <1>2. read \in Read /\ read.hp_ctl \in -EIO..255 /\ read.done \in BOOLEAN /\ read.type \in Type
    BY DEF TypeOK, Read
  <1>3. HpCtl(read.hp_ctl) \in 0..255
    BY <1>2, HpCtlTyped
  <1>4. [chip EXCEPT !.hp_ctl = HpCtl(read.hp_ctl)] \in Chip
    BY <1>2, <1>3, ChipTyped DEF TypeOK
  <1>5. chip' \in Chip /\ bus' \in Bus
    BY <1>4, WriteTyped DEF WriteHpCtl
  <1>6. 0 \in -EIO..255
    BY DEF EIO
  <1>7. read' \in Read
    BY <1>2, <1>6, ReadTyped DEF WriteHpCtl
  <1> QED BY <1>1, <1>5, <1>7, GotoTyped DEF WriteHpCtl, TypeOK, jackVars

\* The steps of pm that access no register.
LEMMA PmPlainTyped ==
  ASSUME TypeOK, AllowEvents \/ EnableUr \/ FirstDetect \/ Sync \/ Build \/ Suspend \/ Resume,
         overlapped' \in BOOLEAN, torn' \in BOOLEAN
  PROVE  TypeOK'
  <1> USE DEF jackVars
  <1>1. "pm" \in Thread
    BY DEF Thread
  <1>2. CASE AllowEvents
    <2>1. Goto("pm", "ts_clear") /\ "ts_clear" \in Place("pm")
      BY <1>2 DEF AllowEvents, Place, PmPlace
    <2> QED BY <1>1, <1>2, <2>1, GotoTyped DEF AllowEvents, TypeOK, Bus
  <1>3. CASE EnableUr
    <2>1. Goto("pm", "first") /\ "first" \in Place("pm")
      BY <1>3 DEF EnableUr, Place, PmPlace
    <2> QED BY <1>1, <1>3, <2>1, GotoTyped DEF EnableUr, TypeOK, Bus
  <1>4. CASE FirstDetect
    <2>1. PICK to \in Place("pm") : Goto("pm", to)
      BY <1>4 DEF FirstDetect, Place, PmPlace, DetectPlace
    <2> QED BY <1>1, <1>4, <2>1, GotoTyped DEF FirstDetect, TypeOK
  <1>5. CASE Sync
    <2>1. PICK to \in Place("pm") : Goto("pm", to)
      BY <1>5 DEF Sync, Place, PmPlace
    <2>2. told' \in [hp : BOOLEAN, mic : BOOLEAN, speaker : BOOLEAN]
      BY <1>5 DEF Sync, TypeOK, Word
    <2> QED BY <1>1, <1>5, <2>1, <2>2, GotoTyped DEF Sync, TypeOK
  <1>6. CASE Build
    <2>1. Goto("pm", "first") /\ "first" \in Place("pm")
      BY <1>6 DEF Build, Place, PmPlace
    <2> QED BY <1>1, <1>6, <2>1, GotoTyped DEF Build, TypeOK
  <1>7. CASE Suspend
    <2>1. Goto("pm", "power_down") /\ "power_down" \in Place("pm")
      BY <1>7 DEF Suspend, Place, PmPlace
    <2>2. bus' \in Bus
      BY <1>7 DEF Suspend, TypeOK, Bus
    <2>3. history' \in History
      BY <1>7 DEF Suspend, TypeOK, History
    <2>4. budget' \in 0..Budget
      BY <1>7, BudgetAssumption DEF Suspend, TypeOK
    <2> QED BY <1>1, <1>7, <2>1, <2>2, <2>3, <2>4, GotoTyped DEF Suspend, TypeOK
  <1>8. CASE Resume
    <2>1. Goto("pm", "release") /\ "release" \in Place("pm")
      BY <1>8 DEF Resume, Place, PmPlace
    <2> QED BY <1>1, <1>8, <2>1, GotoTyped DEF Resume, TypeOK
  <1> QED BY <1>2, <1>3, <1>4, <1>5, <1>6, <1>7, <1>8

LEMMA PmAccessTyped ==
  ASSUME TypeOK, ClearStatuses \/ EnableJackDetect \/ PowerDown, overlapped' \in BOOLEAN, torn' \in BOOLEAN
  PROVE  TypeOK'
  <1>1. chip \in Chip /\ "pm" \in Thread
    BY DEF TypeOK, Thread
  <1>2. {"hp_read", "ts_on", "ur_on", "poll", "sleep_load"} \subseteq Place("pm")
    BY DEF Place, PmPlace
  <1>3. CASE ClearStatuses
    BY <1>1, <1>2, <1>3, ChipTyped, ReadsTyped DEF ClearStatuses
  <1>4. CASE EnableJackDetect
    <2>1. CASE Reads("pm", "ts_clear", "ts_on", [chip EXCEPT !.tip_latch = FALSE])
      BY <1>1, <1>2, <2>1, ChipTyped, ReadsTyped
    <2>2. CASE Writes("pm", "ts_on", "ur_on", [chip EXCEPT !.tip_masked = FALSE])
      BY <1>1, <1>2, <2>2, ChipTyped, WritesTyped
    <2> QED BY <1>4, <2>1, <2>2 DEF EnableJackDetect
  <1>5. CASE PowerDown
    <2>1. CASE Writes("pm", "power_down", "poll", [chip EXCEPT !.hp_ctl = 13, !.mixer = Mute])
      BY <1>1, <1>2, <2>1, ChipTyped, WritesTyped
    <2>2. CASE Reads("pm", "poll", "sleep_load", [chip EXCEPT !.auto_done = FALSE])
      BY <1>1, <1>2, <2>2, ChipTyped, ReadsTyped
    <2> QED BY <1>5, <2>1, <2>2 DEF PowerDown
  <1> QED BY <1>3, <1>4, <1>5

LEMMA ResetTyped ==
  ASSUME TypeOK, Reset, overlapped' \in BOOLEAN, torn' \in BOOLEAN
  PROVE  TypeOK'
  <1>1. Goto("pm", "asleep") /\ "asleep" \in Place("pm") /\ "pm" \in Thread
    BY DEF Reset, Place, PmPlace, Thread
  <1>2. InReset \in Chip
    BY DEF InReset, Chip, Mute, Type, Plug
  <1>3. chip' \in Chip /\ history' \in History
    BY <1>2 DEF Reset, TypeOK, History
  <1> QED BY <1>1, <1>3, GotoTyped DEF Reset, TypeOK, jackVars

LEMMA AttenuationTyped == ASSUME NEW v \in Volume PROVE Attenuation(v) \in 0..63
  BY DEF Attenuation, Volume

LEMMA VolumePutTyped ==
  ASSUME TypeOK, VolumePut, overlapped' \in BOOLEAN, torn' \in BOOLEAN
  PROVE  TypeOK'
  <1>1. PICK to \in Place("ctl") : Goto("ctl", to)
    BY DEF VolumePut, Place
  <1>2. PICK v \in Volume \ {audio.vol} : audio' = [audio EXCEPT !.vol = v, !.ctl = Attenuation(v)]
    BY DEF VolumePut
  <1>3. audio' \in [vol : Volume, started : BOOLEAN, ctl : 0..63, hook : 0..63]
    BY <1>2, AttenuationTyped DEF TypeOK
  <1>4. (history.raced \/ pc["hook"] # "idle") \in BOOLEAN
    OBVIOUS
  <1>5. history' \in History
    BY <1>4 DEF VolumePut, TypeOK, History
  <1>6. budget' \in 0..Budget
    BY BudgetAssumption DEF VolumePut, TypeOK
  <1> QED BY <1>1, <1>3, <1>5, <1>6, GotoTyped DEF VolumePut, TypeOK, jackVars, Thread

LEMMA PcmHookTyped ==
  ASSUME TypeOK, NEW p \in BOOLEAN, PcmHook(p), overlapped' \in BOOLEAN, torn' \in BOOLEAN
  PROVE  TypeOK'
  <1>1. Goto("hook", "write") /\ "write" \in Place("hook") /\ "hook" \in Thread
    BY DEF PcmHook, Place, Thread
  <1>2. (IF p THEN Attenuation(audio.vol) ELSE Mute) \in 0..63
    BY AttenuationTyped DEF TypeOK, Mute
  <1>3. audio' \in [vol : Volume, started : BOOLEAN, ctl : 0..63, hook : 0..63]
    BY <1>2 DEF PcmHook, TypeOK
  <1>4. (pc["ctl"] # "idle") \in BOOLEAN /\ (history.asleep /\ ~p) \in BOOLEAN
    OBVIOUS
  <1>5. history' \in History
    BY <1>4 DEF PcmHook, TypeOK, History
  <1>6. budget' \in 0..Budget
    BY BudgetAssumption DEF PcmHook, TypeOK
  <1> QED BY <1>1, <1>3, <1>5, <1>6, GotoTyped DEF PcmHook, TypeOK, jackVars

LEMMA MixerWriteTyped ==
  ASSUME TypeOK, VolumeWrite \/ HookWrite, overlapped' \in BOOLEAN, torn' \in BOOLEAN
  PROVE  TypeOK'
  <1>1. chip \in Chip /\ audio.ctl \in 0..63 /\ audio.hook \in 0..63 /\ TRUE \in BOOLEAN
    BY DEF TypeOK
  <1>2. [chip EXCEPT !.mixer = audio.ctl] \in Chip /\ [chip EXCEPT !.mixer = audio.hook] \in Chip
    BY <1>1, ChipTyped
  <1>3. "idle" \in Place("ctl") /\ "idle" \in Place("hook") /\ {"ctl", "hook"} \subseteq Thread
    BY DEF Place, Thread
  <1> QED BY <1>2, <1>3, WritesTyped DEF VolumeWrite, HookWrite

LEMMA MovePlugTyped ==
  ASSUME TypeOK, MovePlug, overlapped' \in BOOLEAN, torn' \in BOOLEAN
  PROVE  TypeOK'
  <1>1. chip \in Chip
    BY DEF TypeOK
  <1>2. (IF chip.powered THEN [chip EXCEPT !.tip_latch = TRUE, !.steady = FALSE] ELSE chip) \in Chip
    BY <1>1, ChipTyped
  <1>3. chip' \in Chip /\ bus' \in Bus
    BY <1>2, BecomesTyped DEF MovePlug
  <1>4. AtRest \in BOOLEAN /\ chip.auto_done \in BOOLEAN
    BY <1>1 DEF AtRest, Chip
  <1>5. history' \in History
    BY <1>4 DEF MovePlug, TypeOK, History
  <1>6. budget' \in 0..Budget
    BY BudgetAssumption DEF MovePlug, TypeOK
  <1> QED BY <1>3, <1>5, <1>6 DEF MovePlug, TypeOK

LEMMA DetectionDoneTyped ==
  ASSUME TypeOK, DetectionDone, overlapped' \in BOOLEAN, torn' \in BOOLEAN
  PROVE  TypeOK'
  <1>1. PICK y \in Type :
          ChipBecomes([chip EXCEPT !.detecting = FALSE, !.auto_done = TRUE, !.type = y])
    BY DEF DetectionDone, Type
  <1>2. [chip EXCEPT !.detecting = FALSE, !.auto_done = TRUE, !.type = y] \in Chip
    BY ChipTyped DEF TypeOK
  <1>3. chip' \in Chip /\ bus' \in Bus
    BY <1>1, <1>2, BecomesTyped
  <1> QED BY <1>3 DEF DetectionDone, TypeOK, jackVars

LEMMA TypeInit == Init => TypeOK
  <1> SUFFICES ASSUME Init PROVE TypeOK
    OBVIOUS
  <1>1. Asleep \in Word /\ Unread \in Read /\ InReset \in Chip
    BY DEF Asleep, Word, Unread, Read, InReset, Chip, Type, Plug, EIO, Mute
  <1>2. pc \in [Thread -> HandlerPlace \cup PmPlace \cup {"write"}]
    BY DEF Init, Thread, HandlerPlace, PmPlace
  <1>3. /\ pc["handler"] \in HandlerPlace /\ pc["pm"] \in PmPlace
        /\ pc["ctl"] \in {"idle", "write"} /\ pc["hook"] \in {"idle", "write"}
    BY DEF Init, Thread, HandlerPlace, PmPlace
  <1>4. config \in [no_type : BOOLEAN, full_scale : BOOLEAN] /\ jack \in Plug
    BY DEF Init
  <1>5. history \in History /\ bus \in Bus /\ budget \in 0..Budget
    BY BudgetAssumption DEF Init, History, Bus
  <1>6. audio \in [vol : Volume, started : BOOLEAN, ctl : 0..63, hook : 0..63]
    BY DEF Init, Volume
  <1> QED BY <1>1, <1>2, <1>3, <1>4, <1>5, <1>6 DEF Init, TypeOK

LEMMA OverlapTyped == 
  ASSUME TypeOK, NEW step, Noted(step)
  PROVE  overlapped' \in BOOLEAN /\ torn' \in BOOLEAN
  BY DEF Noted, TypeOK

LEMMA TypeStep == TypeOK /\ [Next]_vars => TypeOK'
  <1> SUFFICES ASSUME TypeOK, [Next]_vars PROVE TypeOK'
    OBVIOUS
  <1>1. CASE UNCHANGED vars
    BY <1>1 DEF vars, jackVars, TypeOK
  <1>2. CASE Next
    <2>1. Step /\ overlapped' \in BOOLEAN /\ torn' \in BOOLEAN
      BY <1>2, OverlapTyped DEF Next, Noted
    <2>2. CASE Event
      BY <2>1, <2>2, EventTyped
    <2>3. CASE HandlerStep
      <3>1. CASE RunJackDetect("handler", "idle")
        <4>1. "idle" \in Place("handler")
          BY DEF Place, HandlerPlace
        <4> QED BY <2>1, <3>1, <4>1, RunJackDetectTyped
      <3> QED BY <2>1, <2>3, <3>1, ReadCodecStatusTyped, ReadHsStatusTyped, ReadPlugStatusTyped,
                 StopDetectionTyped, ManualDetectionTyped, LoadFlagsTyped, StoreFlagsTyped,
                 TipInterruptOnTyped, ReportTyped, AutoDoneTyped DEF HandlerStep
    <2>4. CASE PmStep
      <3>1. CASE RunJackDetect("pm", "sync")
        <4>1. "sync" \in Place("pm")
          BY DEF Place, PmPlace
        <4> QED BY <2>1, <3>1, <4>1, RunJackDetectTyped
      <3> QED BY <2>1, <2>4, <3>1, ReleaseTyped, LoadWordTyped, StoreWordTyped, ReadHpCtlTyped,
                 WriteHpCtlTyped, PmPlainTyped, PmAccessTyped, ResetTyped DEF PmStep
    <2>5. CASE Suspend
      BY <2>1, <2>5, PmPlainTyped
    <2>6. CASE VolumePut \/ VolumeWrite \/ (\E p \in BOOLEAN : PcmHook(p)) \/ HookWrite
      BY <2>1, <2>6, VolumePutTyped, MixerWriteTyped, PcmHookTyped
    <2>7. CASE MovePlug \/ DetectionDone
      BY <2>1, <2>7, MovePlugTyped, DetectionDoneTyped
    <2> QED BY <2>1, <2>2, <2>3, <2>4, <2>5, <2>6, <2>7 DEF Step
  <1> QED BY <1>1, <1>2

\* Registers, flags and computed values stay in their ranges: a negative code that
\* is read and written back becomes a byte.
THEOREM TypeCorrect == Spec => []TypeOK
  <1> QED BY TypeInit, TypeStep, PTL DEF Spec

-----------------------------------------------------------------------------
(* What the steps of each thread leave alone.                              *)

Same(c) == c.powered = chip.powered /\ c.hp_ctl = chip.hp_ctl /\ c.mixer = chip.mixer

Frame(t) ==
  /\ \A u \in Thread \ {t} : pc'[u] = pc[u]
  /\ audio' = audio /\ config' = config
  /\ Same(chip')
  /\ history'.raced = history.raced /\ history'.asleep = history.asleep
  /\ history.faulted => history'.faulted

WordKept == word' = word /\ local' = local

LEMMA GotoPlace ==
  ASSUME TypeOK, NEW t \in Thread, NEW to, Goto(t, to)
  PROVE  pc'[t] = to /\ \A u \in Thread \ {t} : pc'[u] = pc[u]
  <1>1. pc \in [Thread -> HandlerPlace \cup PmPlace \cup {"write"}]
    BY DEF TypeOK
  <1> QED BY <1>1 DEF Goto

LEMMA WriteChip == ASSUME NEW c, Write(c) PROVE chip' = IF Reachable THEN c ELSE chip
  BY DEF Write, ChipBecomes

LEMMA FailsChip ==
  ASSUME TypeOK, NEW f \in BOOLEAN, NEW c, Fails(f, c)
  PROVE  /\ chip' \in {chip, c}
         /\ history' = history \/ (Reachable /\ history' = [history EXCEPT !.faulted = @ \/ f])
         /\ Reachable /\ ~history'.faulted => chip' = c /\ ~f
         /\ ~Reachable => f
         /\ history'.raced = history.raced /\ history'.asleep = history.asleep
         /\ history.faulted => history'.faulted
  <1>1. CASE Reachable
    <2>1. PICK d \in IF f THEN {chip, c} ELSE {c} : ChipBecomes(d)
      BY <1>1 DEF Fails
    <2>2. chip' = d
      BY <2>1 DEF ChipBecomes
    <2>3. history' = [history EXCEPT !.faulted = @ \/ f]
      BY <1>1 DEF Fails
    <2>4. history \in History
      BY DEF TypeOK
    <2>5. /\ history'.raced = history.raced /\ history'.asleep = history.asleep
          /\ history'.faulted = (history.faulted \/ f)
      BY <2>3, <2>4 DEF History
    <2> QED BY <1>1, <2>1, <2>2, <2>3, <2>5
  <1>2. CASE ~Reachable
    BY <1>2 DEF Fails
  <1> QED BY <1>1, <1>2

LEMMA WritesFrame ==
  ASSUME TypeOK, NEW t \in Thread, NEW from, NEW to, NEW c, Same(c), Writes(t, from, to, c)
  PROVE  Frame(t) /\ pc[t] = from /\ pc'[t] = to /\ read' = read /\ WordKept
  <1>1. pc'[t] = to /\ \A u \in Thread \ {t} : pc'[u] = pc[u]
    BY GotoPlace DEF Writes
  <1>2. Same(chip')
    BY WriteChip DEF Writes, Same
  <1> QED BY <1>1, <1>2 DEF Writes, Frame, WordKept, jackVars

LEMMA ReadsFrame ==
  ASSUME TypeOK, NEW t \in Thread, NEW from, NEW to, NEW c, Same(c), Reads(t, from, to, c)
  PROVE  Frame(t) /\ pc[t] = from /\ pc'[t] = to /\ read' = read /\ WordKept
  <1>1. pc'[t] = to /\ \A u \in Thread \ {t} : pc'[u] = pc[u]
    BY GotoPlace DEF Reads
  <1>2. PICK f \in BOOLEAN : Fails(f, c)
    BY DEF Reads
  <1>3. Same(chip')
    BY <1>2, FailsChip DEF Same
  <1> QED BY <1>1, <1>2, <1>3, FailsChip DEF Reads, Frame, WordKept, jackVars

LEMMA SameChips ==
  ASSUME TypeOK
  PROVE  /\ Same(chip)
         /\ \A b \in BOOLEAN : /\ Same([chip EXCEPT !.auto_done = b])
                               /\ Same([chip EXCEPT !.tip_masked = b])
                               /\ Same([chip EXCEPT !.auto_masked = b])
                               /\ Same([chip EXCEPT !.tip_latch = b])
                               /\ Same([chip EXCEPT !.detecting = b])
         /\ Same([chip EXCEPT !.detecting = TRUE, !.steady = TRUE])
         /\ Same([chip EXCEPT !.auto_done = FALSE, !.tip_latch = FALSE])
         /\ Same([chip EXCEPT !.tip_latch = TRUE, !.steady = FALSE])
         /\ \A y : Same([chip EXCEPT !.detecting = FALSE, !.auto_done = TRUE, !.type = y])
  BY DEF TypeOK, Chip, Same

LEMMA DetectFrame ==
  ASSUME TypeOK, NEW t \in {"handler", "pm"}, NEW after, RunJackDetect(t, after)
  PROVE  /\ Frame(t) /\ read' = read /\ WordKept
         /\ pc[t] \in DetectPlace
         /\ pc'[t] \in DetectPlace \/ (pc[t] = "detect6" /\ pc'[t] = after)
  <1>1. t \in Thread
    BY DEF Thread
  <1> USE DEF DetectPlace
  <1>2. CASE Reads(t, "detect1", "detect2", [chip EXCEPT !.auto_done = FALSE])
    BY <1>1, <1>2, SameChips, ReadsFrame
  <1>3. CASE Writes(t, "detect2", "detect3", [chip EXCEPT !.tip_masked = TRUE])
    BY <1>1, <1>3, SameChips, WritesFrame
  <1>4. CASE Reads(t, "detect3", "detect4", [chip EXCEPT !.tip_latch = FALSE])
    BY <1>1, <1>4, SameChips, ReadsFrame
  <1>5. CASE Writes(t, "detect4", "detect5", [chip EXCEPT !.auto_masked = FALSE])
    BY <1>1, <1>5, SameChips, WritesFrame
  <1>6. CASE Writes(t, "detect5", "detect6", [chip EXCEPT !.detecting = FALSE])
    BY <1>1, <1>6, SameChips, WritesFrame
  <1>7. CASE Writes(t, "detect6", after, [chip EXCEPT !.detecting = TRUE, !.steady = TRUE])
    <2>1. Same([chip EXCEPT !.detecting = TRUE, !.steady = TRUE])
      BY SameChips
    <2>2. Frame(t) /\ pc[t] = "detect6" /\ pc'[t] = after /\ read' = read /\ WordKept
      BY <1>1, <1>7, <2>1, WritesFrame
    <2> QED BY <2>2
  <1> QED BY <1>2, <1>3, <1>4, <1>5, <1>6, <1>7 DEF RunJackDetect

LEMMA ForgetKeeps == ASSUME TypeOK, Forget PROVE read'.hp_ctl = read.hp_ctl
  BY DEF Forget, Unread

\* A step of the handler.
LEMMA HandlerFrame ==
  ASSUME TypeOK, Event \/ HandlerStep
  PROVE  /\ Frame("handler") /\ read'.hp_ctl = read.hp_ctl
         /\ LoadFlags \/ StoreFlags \/ (WordKept /\ pc'["handler"] # "store")
         /\ pc["pm"] \in PmPlace
  <1>1. "handler" \in Thread /\ read \in Read /\ pc["pm"] \in PmPlace
    BY DEF Thread, TypeOK
  <1> USE DEF jackVars, WordKept
  <1>2. CASE Event
    <2>1. pc'["handler"] # "store" /\ \A u \in Thread \ {"handler"} : pc'[u] = pc[u]
      BY <1>1, <1>2, GotoPlace DEF Event
    <2> QED BY <1>1, <1>2, <2>1, SameChips DEF Event, Frame
  <1>3. CASE ReadCodecStatus
    <2>1. PICK f \in BOOLEAN : /\ Fails(f, [chip EXCEPT !.auto_done = FALSE])
                               /\ read' = [read EXCEPT !.done = chip.auto_done, !.failed = f]
      BY <1>3 DEF ReadCodecStatus
    <2>2. Same(chip')
      BY <2>1, FailsChip, SameChips
    <2>3. pc'["handler"] # "store" /\ \A u \in Thread \ {"handler"} : pc'[u] = pc[u]
      BY <1>1, <1>3, GotoPlace DEF ReadCodecStatus
    <2>4. read'.hp_ctl = read.hp_ctl
      BY <1>1, <2>1 DEF Read
    <2> QED BY <1>1, <1>3, <2>1, <2>2, <2>3, <2>4, FailsChip DEF ReadCodecStatus, Frame
  <1>4. CASE ReadHsStatus
    <2>1. PICK f \in BOOLEAN : /\ Fails(f, chip)
                               /\ read' = [read EXCEPT !.type = chip.type, !.failed = @ \/ f]
      BY <1>4 DEF ReadHsStatus
    <2>2. Same(chip')
      BY <2>1, FailsChip, SameChips
    <2>3. pc'["handler"] # "store" /\ \A u \in Thread \ {"handler"} : pc'[u] = pc[u]
      BY <1>1, <1>4, GotoPlace DEF ReadHsStatus
    <2>4. read'.hp_ctl = read.hp_ctl
      BY <1>1, <2>1 DEF Read
    <2> QED BY <1>1, <1>4, <2>1, <2>2, <2>3, <2>4, FailsChip DEF ReadHsStatus, Frame
  <1>5. CASE ReadPlugStatus
    <2>1. PICK f \in BOOLEAN :
            /\ Fails(f, [chip EXCEPT !.tip_latch = FALSE])
            /\ LET r == [read EXCEPT !.level = jack, !.failed = @ \/ f]
               IN IF r.failed THEN read' = r /\ Goto("handler", "report")
                  ELSE IF r.done THEN read' = r /\ Goto("handler", "auto_done")
                  ELSE /\ Goto("handler", TipSense(r, "idle"))
                       /\ IF TipSense(r, "idle") = "load" THEN read' = TipFlags(r) ELSE Forget
      BY <1>5 DEF ReadPlugStatus
    <2> DEFINE r == [read EXCEPT !.level = jack, !.failed = @ \/ f]
    <2>2. Same(chip')
      BY <2>1, FailsChip, SameChips
    <2>3. TipSense(r, "idle") # "store"
      BY DEF TipSense
    <2>4. \E to : to # "store" /\ Goto("handler", to)
      BY <2>1, <2>3
    <2>5. pc'["handler"] # "store" /\ \A u \in Thread \ {"handler"} : pc'[u] = pc[u]
      BY <1>1, <2>4, GotoPlace
    <2>6. r.hp_ctl = read.hp_ctl /\ TipFlags(r).hp_ctl = r.hp_ctl
      BY <1>1 DEF Read, TipFlags
    <2>7. read'.hp_ctl = read.hp_ctl
      BY <2>1, <2>6, ForgetKeeps
    <2> QED BY <1>1, <1>5, <2>1, <2>2, <2>5, <2>7, FailsChip DEF ReadPlugStatus, Frame
  <1>6. CASE AutoDone
    <2>1. Same([chip EXCEPT !.auto_masked = TRUE])
      BY SameChips
    <2> QED BY <1>1, <1>6, <2>1, WritesFrame DEF AutoDone
  <1>7. CASE StopDetection
    <2>1. Same(chip')
      <3>1. Same([chip EXCEPT !.detecting = FALSE]) /\ Same(chip)
        BY SameChips
      <3>2. Write([chip EXCEPT !.detecting = FALSE])
        BY <1>7 DEF StopDetection
      <3>3. chip' = [chip EXCEPT !.detecting = FALSE] \/ chip' = chip
        BY <3>2, WriteChip
      <3> QED BY <3>1, <3>3
    <2>2. TipSense(read, "tip_on") # "store"
      BY DEF TipSense
    <2>3. \E to : to # "store" /\ Goto("handler", to)
      BY <1>7, <2>2 DEF StopDetection
    <2>4. pc'["handler"] # "store" /\ \A u \in Thread \ {"handler"} : pc'[u] = pc[u]
      BY <1>1, <2>3, GotoPlace
    <2>5. read'.hp_ctl = read.hp_ctl
      BY <1>1, <1>7 DEF StopDetection, TipFlags, Read
    <2> QED BY <1>1, <1>7, <2>1, <2>4, <2>5 DEF StopDetection, Frame
  <1>8. CASE ManualDetection
    <2>1. PICK f \in BOOLEAN, type \in Plug \ {"moving"} :
            /\ Fails(f, chip)
            /\ read' = [read EXCEPT !.hp = (type # "none"), !.mic = (type = "headset")]
      BY <1>8 DEF ManualDetection
    <2>2. Same(chip')
      BY <2>1, FailsChip, SameChips
    <2>3. pc'["handler"] # "store" /\ \A u \in Thread \ {"handler"} : pc'[u] = pc[u]
      BY <1>1, <1>8, GotoPlace DEF ManualDetection
    <2>4. read'.hp_ctl = read.hp_ctl
      BY <1>1, <2>1 DEF Read
    <2> QED BY <1>1, <1>8, <2>1, <2>2, <2>3, <2>4, FailsChip DEF ManualDetection, Frame
  <1>9. CASE LoadFlags
    <2>1. \A u \in Thread \ {"handler"} : pc'[u] = pc[u]
      BY <1>1, <1>9, GotoPlace DEF LoadFlags
    <2> QED BY <1>1, <1>9, <2>1, SameChips DEF LoadFlags, Frame
  <1>10. CASE StoreFlags
    <2>1. \A u \in Thread \ {"handler"} : pc'[u] = pc[u]
      BY <1>1, <1>10, GotoPlace DEF StoreFlags
    <2> QED BY <1>1, <1>10, <2>1, SameChips DEF StoreFlags, Frame
  <1>11. CASE TipInterruptOn
    <2>1. Same(chip')
      BY <1>11, WriteChip, SameChips DEF TipInterruptOn
    <2>2. \E to : to # "store" /\ Goto("handler", to)
      BY <1>11 DEF TipInterruptOn
    <2>3. pc'["handler"] # "store" /\ \A u \in Thread \ {"handler"} : pc'[u] = pc[u]
      BY <1>1, <2>2, GotoPlace
    <2>4. read'.hp_ctl = read.hp_ctl
      BY <1>11, ForgetKeeps DEF TipInterruptOn
    <2> QED BY <1>1, <1>11, <2>1, <2>3, <2>4 DEF TipInterruptOn, Frame
  <1>12. CASE Report
    <2>1. pc'["handler"] # "store" /\ \A u \in Thread \ {"handler"} : pc'[u] = pc[u]
      BY <1>1, <1>12, GotoPlace DEF Report
    <2> QED BY <1>1, <1>12, <2>1, ForgetKeeps, SameChips DEF Report, Frame
  <1>13. CASE RunJackDetect("handler", "idle")
    <2>1. pc'["handler"] # "store"
      BY <1>13, DetectFrame DEF DetectPlace
    <2> QED BY <1>1, <1>13, <2>1, DetectFrame
  <1> QED BY <1>2, <1>3, <1>4, <1>5, <1>6, <1>7, <1>8, <1>9, <1>10, <1>11, <1>12, <1>13
          DEF HandlerStep

\* A step of the user or of the chip.
LEMMA OutsideFrame ==
  ASSUME TypeOK, MovePlug \/ DetectionDone
  PROVE  pc' = pc /\ Frame("handler") /\ read' = read /\ WordKept /\ told' = told
  <1> USE DEF jackVars, WordKept
  <1>1. CASE MovePlug
    <2>1. Same(chip')
      BY <1>1, SameChips DEF MovePlug, ChipBecomes
    <2>2. history'.raced = history.raced /\ history'.asleep = history.asleep
          /\ history'.faulted = history.faulted
      BY <1>1 DEF MovePlug, TypeOK, History
    <2> QED BY <1>1, <2>1, <2>2 DEF MovePlug, Frame
  <1>2. CASE DetectionDone
    <2>1. Same(chip')
      BY <1>2, SameChips DEF DetectionDone, ChipBecomes
    <2> QED BY <1>2, <2>1 DEF DetectionDone, Frame
  <1> QED BY <1>1, <1>2

\* The way of pm.
Moves(a, b) ==
  \/ <<a, b>> \in {
       <<"release", "wake_load">>, <<"wake_load", "wake_store">>, <<"wake_store", "irq_regs">>,
       <<"irq_regs", "hp_read">>, <<"hp_read", "hp_write">>, <<"hp_write", "allow">>,
       <<"allow", "ts_clear">>, <<"ts_clear", "ts_on">>, <<"ts_on", "ur_on">>,
       <<"ur_on", "first">>, <<"first", "detect1">>, <<"first", "sync">>, <<"detect6", "sync">>,
       <<"sync", "up">>, <<"sync", "build">>, <<"build", "first">>, <<"up", "power_down">>,
       <<"power_down", "poll">>, <<"poll", "sleep_load">>, <<"sleep_load", "sleep_store">>,
       <<"sleep_store", "reset">>, <<"reset", "asleep">>, <<"asleep", "release">>}
  \/ a \in DetectPlace /\ b \in DetectPlace

\* The steps of pm that change the registers looked at here, what was read of them,
\* or a history.
PowerDownWrite == Writes("pm", "power_down", "poll", [chip EXCEPT !.hp_ctl = 13, !.mixer = Mute])

PmSpecial == Release \/ ReadHpCtl \/ WriteHpCtl \/ Reset \/ PowerDownWrite \/ Suspend

\* A step of pm.
LEMMA PmFrame ==
  ASSUME TypeOK, PmStep \/ Suspend
  PROVE  /\ \A u \in Thread \ {"pm"} : pc'[u] = pc[u]
         /\ audio' = audio /\ config' = config
         /\ Moves(pc["pm"], pc'["pm"])
         /\ WordKept \/ LoadWord \/ StoreWord
         /\ PmSpecial \/ (Frame("pm") /\ read' = read)
  <1>1. "pm" \in Thread /\ read \in Read
    BY DEF Thread, TypeOK
  <1> USE DEF jackVars, WordKept
  <1>2. CASE Release
    BY <1>1, <1>2, GotoPlace DEF Release, Moves, PmSpecial
  <1>3. CASE LoadWord
    <2>1. PICK to : Goto("pm", to) /\ Moves(pc["pm"], to)
      BY <1>3 DEF LoadWord, Moves
    <2>2. pc'["pm"] = to /\ \A u \in Thread \ {"pm"} : pc'[u] = pc[u]
      BY <1>1, <2>1, GotoPlace
    <2> QED BY <1>3, <2>1, <2>2, SameChips DEF LoadWord, Frame
  <1>4. CASE StoreWord
    <2>1. PICK to : Goto("pm", to) /\ Moves(pc["pm"], to)
      BY <1>4 DEF StoreWord, Moves
    <2>2. pc'["pm"] = to /\ \A u \in Thread \ {"pm"} : pc'[u] = pc[u]
      BY <1>1, <2>1, GotoPlace
    <2> QED BY <1>4, <2>1, <2>2, SameChips DEF StoreWord, Frame
  <1>5. CASE ClearStatuses
    <2>1. Same([chip EXCEPT !.auto_done = FALSE, !.tip_latch = FALSE])
      BY SameChips
    <2>2. Frame("pm") /\ pc["pm"] = "irq_regs" /\ pc'["pm"] = "hp_read" /\ read' = read /\ WordKept
      BY <1>1, <1>5, <2>1, ReadsFrame DEF ClearStatuses
    <2> QED BY <2>2 DEF Moves, Frame
  <1>6. CASE ReadHpCtl
    BY <1>1, <1>6, GotoPlace DEF ReadHpCtl, Moves, PmSpecial
  <1>7. CASE WriteHpCtl
    BY <1>1, <1>7, GotoPlace DEF WriteHpCtl, Moves, PmSpecial
  <1>8. CASE AllowEvents \/ EnableUr \/ FirstDetect \/ Sync \/ Build \/ Resume
    <2>1. PICK to : Goto("pm", to) /\ Moves(pc["pm"], to)
      BY <1>8 DEF AllowEvents, EnableUr, FirstDetect, Sync, Build, Resume, Moves
    <2>2. pc'["pm"] = to /\ \A u \in Thread \ {"pm"} : pc'[u] = pc[u]
      BY <1>1, <2>1, GotoPlace
    <2>3. word' = word /\ local' = local /\ config' = config /\ read' = read /\ chip' = chip
          /\ audio' = audio /\ history' = history
      BY <1>8 DEF AllowEvents, EnableUr, FirstDetect, Sync, Build, Resume
    <2> QED BY <2>1, <2>2, <2>3, SameChips DEF Frame
  <1>9. CASE EnableJackDetect
    <2>1. Same([chip EXCEPT !.tip_latch = FALSE]) /\ Same([chip EXCEPT !.tip_masked = FALSE])
      BY SameChips
    <2>2. CASE Reads("pm", "ts_clear", "ts_on", [chip EXCEPT !.tip_latch = FALSE])
      <3>1. Frame("pm") /\ pc["pm"] = "ts_clear" /\ pc'["pm"] = "ts_on" /\ read' = read /\ WordKept
        BY <1>1, <2>1, <2>2, ReadsFrame
      <3> QED BY <3>1 DEF Moves, Frame
    <2>3. CASE Writes("pm", "ts_on", "ur_on", [chip EXCEPT !.tip_masked = FALSE])
      <3>1. Frame("pm") /\ pc["pm"] = "ts_on" /\ pc'["pm"] = "ur_on" /\ read' = read /\ WordKept
        BY <1>1, <2>1, <2>3, WritesFrame
      <3> QED BY <3>1 DEF Moves, Frame
    <2> QED BY <1>9, <2>2, <2>3 DEF EnableJackDetect
  <1>10. CASE RunJackDetect("pm", "sync")
    BY <1>10, DetectFrame DEF Moves, Frame
  <1>11. CASE PowerDown
    <2>1. CASE PowerDownWrite
      BY <1>1, <2>1, GotoPlace DEF PowerDownWrite, Writes, Moves, PmSpecial
    <2>2. CASE Reads("pm", "poll", "sleep_load", [chip EXCEPT !.auto_done = FALSE])
      <3>1. Same([chip EXCEPT !.auto_done = FALSE])
        BY SameChips
      <3>2. Frame("pm") /\ pc["pm"] = "poll" /\ pc'["pm"] = "sleep_load" /\ read' = read /\ WordKept
        BY <1>1, <2>2, <3>1, ReadsFrame
      <3> QED BY <3>2 DEF Moves, Frame
    <2> QED BY <1>11, <2>1, <2>2 DEF PowerDown, PowerDownWrite
  <1>12. CASE Reset
    BY <1>1, <1>12, GotoPlace DEF Reset, Moves, PmSpecial
  <1>13. CASE Suspend
    BY <1>1, <1>13, GotoPlace DEF Suspend, Moves, PmSpecial
  <1> QED BY <1>2, <1>3, <1>4, <1>5, <1>6, <1>7, <1>8, <1>9, <1>10, <1>11, <1>12, <1>13 DEF PmStep

\* At these places there is one step to take.
LEMMA PmPlaces ==
  ASSUME TypeOK, PmStep \/ Suspend
  PROVE  /\ pc["pm"] = "reset" => Reset
         /\ pc["pm"] = "release" => Release
         /\ pc["pm"] = "hp_read" => ReadHpCtl
         /\ pc["pm"] = "hp_write" => WriteHpCtl
         /\ pc["pm"] \in {"wake_store", "sleep_store"} => StoreWord
         /\ pc["pm"] \in {"wake_load", "sleep_load"} => LoadWord
         /\ pc["pm"] = "up" => Suspend
         /\ pc["pm"] = "sync" => Sync
         /\ pc["pm"] = "allow" => AllowEvents
         /\ pc["pm"] = "ur_on" => EnableUr
         /\ pc["pm"] = "first" => FirstDetect
         /\ pc["pm"] = "build" => Build
         /\ pc["pm"] = "ts_on" => EnableJackDetect
         /\ pc["pm"] \in DetectPlace => RunJackDetect("pm", "sync")
  BY DEF DetectPlace, PmStep, Suspend, Release, LoadWord, StoreWord, ClearStatuses, ReadHpCtl, WriteHpCtl,
         AllowEvents, EnableJackDetect, EnableUr, FirstDetect, Sync, Build, RunJackDetect,
         PowerDown, Reset, Resume, Reads, Writes

\* A step of the volume control or of the PCM hook.
LEMMA SoundFrame ==
  ASSUME TypeOK, VolumePut \/ VolumeWrite \/ (\E p \in BOOLEAN : PcmHook(p)) \/ HookWrite
  PROVE  /\ pc'["handler"] = pc["handler"] /\ pc'["pm"] = pc["pm"]
         /\ chip'.powered = chip.powered /\ chip'.hp_ctl = chip.hp_ctl
         /\ history'.faulted = history.faulted
         /\ config' = config /\ read' = read /\ WordKept /\ told' = told
  <1>1. {"handler", "pm", "ctl", "hook"} = Thread
    BY DEF Thread
  <1> USE DEF jackVars, WordKept
  <1>2. CASE VolumePut
    <2>1. \A u \in Thread \ {"ctl"} : pc'[u] = pc[u]
      BY <1>1, <1>2, GotoPlace DEF VolumePut
    <2> QED BY <1>1, <1>2, <2>1 DEF VolumePut, TypeOK, History
  <1>3. CASE \E p \in BOOLEAN : PcmHook(p)
    <2>1. \A u \in Thread \ {"hook"} : pc'[u] = pc[u]
      BY <1>1, <1>3, GotoPlace DEF PcmHook
    <2> QED BY <1>1, <1>3, <2>1 DEF PcmHook, TypeOK, History
  <1>4. CASE VolumeWrite \/ HookWrite
    <2>1. PICK t \in {"ctl", "hook"}, v \in 0..63 :
            Writes(t, "write", "idle", [chip EXCEPT !.mixer = v])
      BY <1>4 DEF VolumeWrite, HookWrite, TypeOK
    <2>2. \A u \in Thread \ {t} : pc'[u] = pc[u]
      BY <1>1, <2>1, GotoPlace DEF Writes
    <2>3. chip' \in {chip, [chip EXCEPT !.mixer = v]}
      BY <2>1, WriteChip DEF Writes
    <2> QED BY <1>1, <2>1, <2>2, <2>3 DEF Writes, TypeOK, Chip
  <1> QED BY <1>2, <1>3, <1>4

-----------------------------------------------------------------------------
(* The invariant.                                                          *)

LEMMA OverlapStep ==
  ASSUME Next, ~overlapped'
  PROVE  ~Overlap' /\ (~overlapped \/ pc'["pm"] = "power_down")
  BY DEF Next, Noted

LEMMA AloneStep ==
  ASSUME TypeOK, TypeOK', Alone, [Next]_vars
  PROVE  Alone'
  <1>1. CASE UNCHANGED vars
    BY <1>1 DEF vars, Alone
  <1>2. CASE Next
    BY <1>2, OverlapStep DEF Overlap, Alone
  <1> QED BY <1>1, <1>2

LEMMA StepCases ==
  ASSUME Next
  PROVE  \/ Event \/ HandlerStep
         \/ PmStep \/ Suspend
         \/ VolumePut \/ VolumeWrite \/ (\E p \in BOOLEAN : PcmHook(p)) \/ HookWrite
         \/ MovePlug \/ DetectionDone
  BY DEF Next, Noted, Step

LEMMA PoweredStep ==
  ASSUME TypeOK, Powered, [Next]_vars
  PROVE  Powered'
  <1>1. CASE UNCHANGED vars
    BY <1>1 DEF vars, Powered
  <1>2. CASE Event \/ HandlerStep
    BY <1>2, HandlerFrame DEF Powered, Frame, Same, Thread
  <1>3. CASE PmStep \/ Suspend
    <2>1. Moves(pc["pm"], pc'["pm"]) /\ chip \in Chip
      BY <1>3, PmFrame DEF TypeOK
    <2>2. CASE Release
      <3>1. chip'.powered = TRUE /\ pc'["pm"] = "wake_load"
        BY <2>1, <2>2, GotoPlace DEF Release, Chip, Thread
      <3> QED BY <3>1 DEF Powered
    <2>3. CASE Reset
      <3>1. chip'.powered = FALSE /\ pc'["pm"] = "asleep"
        BY <2>3, GotoPlace DEF Reset, InReset, Thread
      <3> QED BY <3>1 DEF Powered
    <2>4. CASE ReadHpCtl
      <3>1. chip' = chip /\ pc["pm"] = "hp_read" /\ pc'["pm"] = "hp_write"
        BY <2>4, FailsChip, GotoPlace DEF ReadHpCtl, Thread
      <3> QED BY <3>1 DEF Powered
    <2>5. CASE WriteHpCtl
      <3>1. chip' \in {chip, [chip EXCEPT !.hp_ctl = HpCtl(read.hp_ctl)]}
        BY <2>5, WriteChip DEF WriteHpCtl
      <3>2. pc["pm"] = "hp_write" /\ pc'["pm"] = "allow"
        BY <2>5, GotoPlace DEF WriteHpCtl, Thread
      <3> QED BY <2>1, <3>1, <3>2 DEF Powered, Chip
    <2>6. CASE PowerDownWrite
      <3>1. chip' \in {chip, [chip EXCEPT !.hp_ctl = 13, !.mixer = Mute]}
        BY <2>6, WriteChip DEF PowerDownWrite, Writes
      <3>2. pc["pm"] = "power_down" /\ pc'["pm"] = "poll"
        BY <2>6, GotoPlace DEF PowerDownWrite, Writes, Thread
      <3> QED BY <2>1, <3>1, <3>2 DEF Powered, Chip
    <2>7. CASE Suspend
      <3>1. chip' = chip /\ pc["pm"] = "up" /\ pc'["pm"] = "power_down"
        BY <2>7, GotoPlace DEF Suspend, Thread
      <3> QED BY <3>1 DEF Powered
    <2>8. CASE Frame("pm") /\ ~Release /\ ~Reset
      <3>1. pc["pm"] # "reset" /\ pc["pm"] # "release"
        BY <1>3, <2>8, PmPlaces
      <3> QED BY <2>1, <2>8, <3>1 DEF Powered, Moves, DetectPlace, Frame, Same
    <2> QED BY <1>3, <2>2, <2>3, <2>4, <2>5, <2>6, <2>7, <2>8, PmFrame DEF PmSpecial
  <1>4. CASE VolumePut \/ VolumeWrite \/ (\E p \in BOOLEAN : PcmHook(p)) \/ HookWrite
    BY <1>4, SoundFrame DEF Powered
  <1>5. CASE MovePlug \/ DetectionDone
    BY <1>5, OutsideFrame DEF Powered, Frame, Same
  <1> QED BY <1>1, <1>2, <1>3, <1>4, <1>5, StepCases

LEMMA MarkedStep ==
  ASSUME TypeOK, Alone, Alone', Marked, [Next]_vars
  PROVE  Marked'
  <1>1. CASE UNCHANGED vars
    BY <1>1 DEF vars, jackVars, Marked
  <1>2. CASE Next /\ overlapped'
    BY <1>2 DEF Marked
  <1>3. CASE Next /\ pc'["pm"] = "power_down"
    BY <1>3 DEF Marked, Awake, DetectPlace
  <1>4. CASE Next /\ ~overlapped' /\ pc'["pm"] # "power_down"
    <2> USE DEF Marked
    <2>1. ~overlapped
      BY <1>4, OverlapStep
    <2>2. CASE Event \/ HandlerStep
      <3>1. pc'["pm"] = pc["pm"]
        BY <2>2, HandlerFrame DEF Frame, Thread
      <3>2. CASE LoadFlags
        <4>1. pc["pm"] \in {"up", "sync", "build"}
          BY <2>1, <3>2 DEF Alone, LoadFlags
        <4>2. ~word.suspended
          BY <2>1, <4>1 DEF Awake
        <4>3. word' = word /\ ~local'["handler"].suspended
          BY <3>2, <4>2 DEF LoadFlags, TypeOK, Word
        <4> QED BY <3>1, <4>1, <4>2, <4>3
      <3>3. CASE StoreFlags
        <4>1. pc["pm"] \in {"up", "sync", "build"} /\ pc["handler"] = "store"
          BY <2>1, <3>3 DEF Alone, StoreFlags
        <4>2. ~local["handler"].suspended
          BY <2>1, <4>1 DEF Awake
        <4>3. ~word'.suspended /\ pc'["handler"] # "store"
          BY <3>3, <4>2, GotoPlace DEF StoreFlags, Thread
        <4> QED BY <3>1, <4>1, <4>3
      <3>4. CASE WordKept /\ pc'["handler"] # "store"
        BY <2>1, <3>1, <3>4 DEF WordKept
      <3> QED BY <2>2, <3>2, <3>3, <3>4, HandlerFrame
    <2>3. CASE PmStep \/ Suspend
      <3>1. pc'["handler"] = pc["handler"] /\ Moves(pc["pm"], pc'["pm"])
        BY <2>3, PmFrame DEF Thread
      <3>2. CASE LoadWord
        <4>1. pc'["pm"] \in {"wake_store", "sleep_store"}
          BY <3>2, GotoPlace DEF LoadWord, Thread
        <4> QED BY <4>1 DEF Awake, DetectPlace
      <3>3. CASE StoreWord /\ pc["pm"] = "wake_store"
        <4>1. pc'["pm"] = "irq_regs" /\ ~word'.suspended
          BY <3>3, GotoPlace DEF StoreWord, Thread, TypeOK, Word
        <4>2. pc'["handler"] = "idle"
          BY <1>4, <4>1 DEF Alone
        <4> QED BY <4>1, <4>2
      <3>4. CASE StoreWord /\ pc["pm"] = "sleep_store"
        <4>1. pc'["pm"] = "reset" /\ word' = Asleep
          BY <3>4, GotoPlace DEF StoreWord, Thread
        <4> QED BY <4>1 DEF Awake, DetectPlace
      <3>5. CASE WordKept /\ ~LoadWord /\ ~StoreWord
        <4>1. pc["pm"] \notin {"wake_store", "sleep_store", "wake_load", "sleep_load"}
          BY <2>3, <3>5, PmPlaces
        <4>2. pc'["pm"] \in Awake => pc["pm"] \in Awake
          BY <3>1, <4>1 DEF Moves, Awake, DetectPlace
        <4>3. pc'["pm"] \in {"reset", "asleep", "release", "wake_load"}
                => pc["pm"] \in {"reset", "asleep", "release", "wake_load"}
          BY <3>1, <4>1 DEF Moves, DetectPlace
        <4> QED BY <2>1, <3>1, <3>5, <4>2, <4>3 DEF WordKept
      <3>6. StoreWord => pc["pm"] \in {"wake_store", "sleep_store"}
        BY DEF StoreWord
      <3> QED BY <2>3, <3>2, <3>3, <3>4, <3>5, <3>6, PmFrame
    <2>4. CASE VolumePut \/ VolumeWrite \/ (\E p \in BOOLEAN : PcmHook(p)) \/ HookWrite
      BY <2>1, <2>4, SoundFrame DEF WordKept
    <2>5. CASE MovePlug \/ DetectionDone
      BY <2>1, <2>5, OutsideFrame DEF WordKept
    <2> QED BY <1>4, <2>2, <2>3, <2>4, <2>5, StepCases
  <1> QED BY <1>1, <1>2, <1>3, <1>4

\* Awake and the places of the other half are left by pm's stores alone.
LEMMA KeptStep ==
  ASSUME TypeOK, TypeOK', Kept, [Next]_vars
  PROVE  Kept'
  <1> USE DEF Kept
  <1>1. CASE UNCHANGED vars
    BY <1>1 DEF vars, jackVars
  <1>2. CASE Next /\ torn'
    BY <1>2
  <1>3. CASE Next /\ ~torn' /\ Stores
    <2>1. PmStep \/ Suspend
      <3>1. pc'["pm"] # pc["pm"]
        BY <1>3 DEF Stores
      <3> QED BY <1>3, <3>1, StepCases, HandlerFrame, SoundFrame, OutsideFrame DEF Frame, Thread
    <2>2. StoreWord /\ pc'["handler"] = pc["handler"] /\ pc["handler"] # "store"
      BY <1>3, <2>1, PmPlaces, PmFrame DEF Stores, Noted, Next, Thread
    <2>3. CASE pc["pm"] = "wake_store"
      <3>1. pc'["pm"] = "irq_regs" /\ ~word'.suspended
        BY <2>2, <2>3, GotoPlace DEF StoreWord, Thread, TypeOK, Word
      <3> QED BY <2>2, <3>1
    <2>4. CASE pc["pm"] = "sleep_store"
      <3>1. pc'["pm"] = "reset" /\ word'.suspended
        BY <2>2, <2>4, GotoPlace DEF StoreWord, Thread, Asleep
      <3> QED BY <2>2, <3>1 DEF Awake, DetectPlace
    <2> QED BY <1>3, <2>3, <2>4 DEF Stores
  <1>4. CASE Next /\ ~torn' /\ ~Stores
    <2>1. ~torn
      BY <1>4 DEF Next, Noted
    <2>2. CASE Event \/ HandlerStep
      <3>1. pc'["pm"] = pc["pm"]
        BY <2>2, HandlerFrame DEF Frame, Thread
      <3>2. CASE LoadFlags
        BY <2>1, <3>1, <3>2 DEF LoadFlags, TypeOK, Word
      <3>3. CASE StoreFlags
        <4>1. word'.suspended = word.suspended /\ pc'["handler"] # "store"
          BY <2>1, <3>3, GotoPlace DEF StoreFlags, Thread
        <4> QED BY <2>1, <3>1, <4>1
      <3>4. CASE WordKept /\ pc'["handler"] # "store"
        BY <2>1, <3>1, <3>4 DEF WordKept
      <3> QED BY <2>2, <3>2, <3>3, <3>4, HandlerFrame
    <2>3. CASE PmStep \/ Suspend
      <3>1. pc'["handler"] = pc["handler"] /\ Moves(pc["pm"], pc'["pm"])
        BY <2>3, PmFrame DEF Thread
      <3>2. pc["pm"] \notin {"wake_store", "sleep_store"}
        BY <1>4, <3>1 DEF Stores, Moves, DetectPlace
      <3>3. word' = word /\ local'["handler"] = local["handler"]
        <4>1. CASE LoadWord
          BY <4>1 DEF LoadWord, TypeOK
        <4>2. CASE WordKept
          BY <4>2 DEF WordKept
        <4>3. ~StoreWord
          BY <3>2 DEF StoreWord
        <4> QED BY <2>3, <4>1, <4>2, <4>3, PmFrame
      <3>4. /\ pc'["pm"] \in Awake => pc["pm"] \in Awake
            /\ pc'["pm"] \in {"reset", "asleep", "release", "wake_load", "wake_store"}
                 => pc["pm"] \in {"reset", "asleep", "release", "wake_load"}
        BY <3>1, <3>2 DEF Moves, Awake, DetectPlace
      <3> QED BY <2>1, <3>1, <3>3, <3>4
    <2>4. CASE VolumePut \/ VolumeWrite \/ (\E p \in BOOLEAN : PcmHook(p)) \/ HookWrite
      BY <2>1, <2>4, SoundFrame DEF WordKept
    <2>5. CASE MovePlug \/ DetectionDone
      BY <2>1, <2>5, OutsideFrame DEF WordKept, Frame
    <2> QED BY <1>4, <2>2, <2>3, <2>4, <2>5, StepCases
  <1> QED BY <1>1, <1>2, <1>3, <1>4

\* What is written to HP_CTL.
LEMMA HpCtlUnmutes == ASSUME NEW v \in -EIO..255 PROVE Unmuted(HpCtl(v))
  <1> DEFINE w == IF config.full_scale THEN Bit1Set(v) ELSE v
  <1>1. w \in Int
    BY DEF Bit1Set, EIO
  <1>2. \A u \in Int : Unmuted(Bits23Clear(u) % 256)
    BY DEF Unmuted, Bits23Clear
  <1> QED BY <1>1, <1>2 DEF HpCtl

LEMMA HpCtlScales == ASSUME config.full_scale \in BOOLEAN PROVE Scaled(HpCtl(13))
  <1>1. CASE config.full_scale
    BY <1>1 DEF HpCtl, Scaled, Bits23Clear, Bit1Set
  <1>2. CASE ~config.full_scale
    BY <1>2 DEF HpCtl, Scaled, Bits23Clear, Bit1Set
  <1> QED BY <1>1, <1>2

\* A chip that is up and marked so can be reached.
LEMMA UpIsReachable ==
  ASSUME Powered, Marked, ~overlapped, pc["pm"] \in Awake
  PROVE  Reachable
  BY DEF Powered, Marked, Awake, DetectPlace, Reachable

LEMMA AmplifiedStep ==
  ASSUME TypeOK, Powered, Marked, Amplified, [Next]_vars
  PROVE  Amplified'
  <1>1. CASE UNCHANGED vars
    BY <1>1 DEF vars, jackVars, Amplified, Scaled
  <1>2. CASE Next /\ overlapped'
    BY <1>2 DEF Amplified
  <1>3. CASE Next /\ pc'["pm"] = "power_down"
    BY <1>3 DEF Amplified, Awake, DetectPlace
  <1>4. CASE Next /\ ~overlapped' /\ pc'["pm"] # "power_down"
    <2> USE DEF Amplified
    <2>1. ~overlapped
      BY <1>4, OverlapStep
    <2>2. CASE Event \/ HandlerStep
      <3>1. pc'["pm"] = pc["pm"] /\ chip'.hp_ctl = chip.hp_ctl /\ read'.hp_ctl = read.hp_ctl
            /\ config' = config /\ (history.faulted => history'.faulted)
        BY <2>2, HandlerFrame DEF Frame, Same, Thread
      <3> QED BY <2>1, <3>1 DEF Scaled
    <2>3. CASE PmStep \/ Suspend
      <3>1. Moves(pc["pm"], pc'["pm"]) /\ config' = config
        BY <2>3, PmFrame
      <3>2. CASE Release
        <4>1. pc["pm"] = "release" /\ pc'["pm"] = "wake_load" /\ chip'.hp_ctl = chip.hp_ctl
          BY <3>2, GotoPlace DEF Release, Thread, TypeOK, Chip
        <4> QED BY <2>1, <4>1 DEF Awake, DetectPlace
      <3>3. CASE ReadHpCtl
        <4>1. pc["pm"] = "hp_read" /\ pc'["pm"] = "hp_write"
          BY <3>3, GotoPlace DEF ReadHpCtl, Thread
        <4>2. PICK f \in BOOLEAN :
                /\ Fails(f, chip)
                /\ read' = [read EXCEPT !.hp_ctl = IF f THEN -EIO ELSE chip.hp_ctl]
          BY <3>3 DEF ReadHpCtl
        <4>3. Reachable
          BY <2>1, <4>1, UpIsReachable DEF Awake
        <4>4. ~history'.faulted => ~f
          BY <4>2, <4>3, FailsChip
        <4>5. ~f => read'.hp_ctl = 13
          BY <2>1, <4>1, <4>2 DEF TypeOK, Read
        <4> QED BY <4>1, <4>4, <4>5
      <3>4. CASE WriteHpCtl
        <4>1. pc["pm"] = "hp_write" /\ pc'["pm"] = "allow" /\ history' = history
          BY <3>4, GotoPlace DEF WriteHpCtl, Thread
        <4>2. Reachable
          BY <2>1, <4>1, UpIsReachable DEF Awake
        <4>3. chip'.hp_ctl = HpCtl(read.hp_ctl)
          BY <3>4, <4>2, WriteChip DEF WriteHpCtl, TypeOK, Chip
        <4>4. Unmuted(chip'.hp_ctl)
          BY <4>3, HpCtlUnmutes DEF TypeOK, Read
        <4>5. ~history.faulted => Scaled(chip'.hp_ctl)
          BY <2>1, <4>1, <4>3, HpCtlScales DEF TypeOK
        <4> QED BY <3>1, <4>1, <4>4, <4>5 DEF Scaled
      <3>5. CASE Reset
        <4>1. pc'["pm"] = "asleep" /\ chip'.hp_ctl = 13
          BY <3>5, GotoPlace DEF Reset, Thread, InReset
        <4> QED BY <4>1 DEF Awake, DetectPlace
      <3>6. CASE PowerDownWrite \/ Suspend
        <4>1. pc'["pm"] \in {"poll", "power_down"}
          BY <3>6, GotoPlace DEF PowerDownWrite, Writes, Suspend, Thread
        <4> QED BY <4>1 DEF Awake, DetectPlace
      <3>7. CASE Frame("pm") /\ read' = read /\ ~PmSpecial
        <4>1. pc["pm"] \notin {"release", "hp_read", "hp_write", "reset", "up"}
          BY <2>3, <3>7, PmPlaces DEF PmSpecial
        <4>2. chip'.hp_ctl = chip.hp_ctl /\ (history.faulted => history'.faulted)
          BY <3>7 DEF Frame, Same
        <4>3. pc'["pm"] # "hp_write" /\ pc'["pm"] # "wake_load"
          BY <3>1, <4>1 DEF Moves, DetectPlace
        <4>4. pc'["pm"] \in {"asleep", "release", "wake_store", "irq_regs", "hp_read"}
                => pc["pm"] \in {"asleep", "wake_load", "wake_store", "irq_regs"}
          BY <3>1, <4>1 DEF Moves, DetectPlace
        <4>5. pc'["pm"] \in Awake \ {"irq_regs", "hp_read", "hp_write"}
                => pc["pm"] \in Awake \ {"irq_regs", "hp_read", "hp_write"}
          BY <3>1, <4>1 DEF Moves, DetectPlace, Awake
        <4> QED BY <2>1, <3>1, <4>2, <4>3, <4>4, <4>5 DEF Scaled
      <3> QED BY <2>3, <3>2, <3>3, <3>4, <3>5, <3>6, <3>7, PmFrame DEF PmSpecial
    <2>4. CASE VolumePut \/ VolumeWrite \/ (\E p \in BOOLEAN : PcmHook(p)) \/ HookWrite
      BY <2>1, <2>4, SoundFrame DEF Scaled
    <2>5. CASE MovePlug \/ DetectionDone
      BY <2>1, <2>5, OutsideFrame DEF Frame, Same, Scaled
    <2> QED BY <1>4, <2>2, <2>3, <2>4, <2>5, StepCases
  <1> QED BY <1>1, <1>2, <1>3, <1>4

LEMMA MixedStep ==
  ASSUME TypeOK, Powered, Marked, Mixed, [Next]_vars
  PROVE  Mixed'
  <1>1. CASE UNCHANGED vars
    BY <1>1 DEF vars, Mixed, Target
  <1>2. CASE Next /\ history'.asleep
    BY <1>2 DEF Mixed
  <1>3. CASE Next /\ ~history'.asleep
    <2> DEFINE Waking == {"release", "wake_load", "wake_store"}
    <2>1. CASE Event \/ HandlerStep \/ MovePlug \/ DetectionDone
      <3>1. \A u \in {"pm", "ctl", "hook"} : pc'[u] = pc[u]
        BY <2>1, HandlerFrame, OutsideFrame DEF Frame, Thread
      <3>2. audio' = audio /\ chip'.mixer = chip.mixer /\ history'.raced = history.raced
            /\ history'.asleep = history.asleep
        BY <2>1, HandlerFrame, OutsideFrame DEF Frame, Same
      <3>3. pc'["pm"] # "power_down"
        BY <1>3, <3>1, <3>2 DEF Mixed, Awake, DetectPlace
      <3>4. ~overlapped' => ~overlapped
        BY <1>3, <3>3, OverlapStep
      <3> QED BY <1>3, <3>1, <3>2, <3>4 DEF Mixed, Target
    <2>2. CASE PmStep \/ Suspend
      <3>1. /\ pc'["ctl"] = pc["ctl"] /\ pc'["hook"] = pc["hook"] /\ audio' = audio
            /\ Moves(pc["pm"], pc'["pm"])
        BY <2>2, PmFrame DEF Thread
      <3>2. ~Suspend
        BY <1>3 DEF Suspend, TypeOK, History
      <3>3. history'.asleep = history.asleep /\ history'.raced = history.raced
        <4>1. CASE Release \/ WriteHpCtl
          BY <4>1 DEF Release, WriteHpCtl
        <4>2. CASE PowerDownWrite
          BY <4>2 DEF PowerDownWrite, Writes
        <4>3. CASE ReadHpCtl
          BY <4>3, FailsChip DEF ReadHpCtl
        <4>4. CASE Reset
          BY <4>4 DEF Reset, TypeOK, History
        <4>5. CASE Frame("pm")
          BY <4>5 DEF Frame
        <4> QED BY <2>2, <3>2, <4>1, <4>2, <4>3, <4>4, <4>5, PmFrame DEF PmSpecial
      <3>4. pc["pm"] \in Awake \cup Waking /\ pc["pm"] # "up"
        BY <1>3, <2>2, <3>2, <3>3, PmPlaces DEF Mixed
      <3>5. pc'["pm"] \in Awake \cup Waking
        BY <3>1, <3>4 DEF Moves, Awake, DetectPlace
      <3>6. chip'.mixer = chip.mixer
        <4>1. ~Reset /\ ~PowerDownWrite
          BY <3>4 DEF Reset, PowerDownWrite, Writes, Awake, DetectPlace
        <4>2. CASE Release
          BY <4>2 DEF Release, TypeOK, Chip
        <4>3. CASE ReadHpCtl
          BY <4>3, FailsChip DEF ReadHpCtl
        <4>4. CASE WriteHpCtl
          <5>1. chip' \in {chip, [chip EXCEPT !.hp_ctl = HpCtl(read.hp_ctl)]}
            BY <4>4, WriteChip DEF WriteHpCtl
          <5> QED BY <5>1 DEF TypeOK, Chip
        <4>5. CASE Frame("pm")
          BY <4>5 DEF Frame, Same
        <4> QED BY <2>2, <3>2, <4>1, <4>2, <4>3, <4>4, <4>5, PmFrame DEF PmSpecial
      <3>7. pc'["pm"] # "power_down"
        BY <3>5 DEF Awake, DetectPlace
      <3>8. ~overlapped' => ~overlapped
        BY <1>3, <3>7, OverlapStep
      <3>9. pc["ctl"] = "idle" /\ pc["hook"] = "idle"
        BY <1>3, <3>3, <3>4 DEF Mixed
      <3> QED BY <1>3, <3>1, <3>3, <3>5, <3>6, <3>8, <3>9 DEF Mixed, Target
    <2>3. CASE VolumePut
      <3>1. /\ pc["ctl"] = "idle" /\ pc["pm"] = "up"
            /\ pc'["pm"] = pc["pm"] /\ pc'["hook"] = pc["hook"]
            /\ pc'["ctl"] = IF audio.started THEN "write" ELSE "idle"
        BY <2>3, GotoPlace DEF VolumePut, Thread
      <3>2. /\ history'.asleep = history.asleep
            /\ history'.raced = (history.raced \/ pc["hook"] # "idle")
        BY <2>3 DEF VolumePut, TypeOK, History
      <3>3. PICK v \in Volume : audio' = [audio EXCEPT !.vol = v, !.ctl = Attenuation(v)]
        BY <2>3 DEF VolumePut
      <3>4. audio'.ctl = Attenuation(audio'.vol) /\ audio'.started = audio.started
        BY <3>3 DEF TypeOK
      <3>5. ~overlapped' => ~overlapped
        BY <1>3, <3>1, OverlapStep
      <3>6. chip' = chip
        BY <2>3 DEF VolumePut
      <3>7. CASE audio.started
        BY <1>3, <3>1, <3>2, <3>4, <3>5, <3>6, <3>7 DEF Mixed, Target, Awake
      <3>8. CASE ~audio.started
        BY <1>3, <3>1, <3>2, <3>4, <3>5, <3>6, <3>8 DEF Mixed, Target, Awake
      <3> QED BY <3>7, <3>8
    <2>4. CASE VolumeWrite \/ HookWrite
      <3>1. history' = history /\ audio' = audio
        BY <2>4 DEF VolumeWrite, HookWrite, Writes
      <3>2. pc["pm"] = "up"
        BY <1>3, <2>4, <3>1 DEF Mixed, VolumeWrite, HookWrite, Writes
      <3>3. pc'["pm"] = "up"
        BY <2>4, <3>2, SoundFrame
      <3>4. ~overlapped' => ~overlapped
        BY <1>3, <3>3, OverlapStep
      <3>5. ~overlapped => Reachable
        BY <3>2, UpIsReachable DEF Awake
      <3>6. CASE VolumeWrite
        <4>1. pc["ctl"] = "write" /\ pc'["ctl"] = "idle" /\ pc'["hook"] = pc["hook"]
          BY <3>6, GotoPlace DEF VolumeWrite, Writes, Thread
        <4>2. ~overlapped => chip'.mixer = audio.ctl
          BY <3>5, <3>6, WriteChip DEF VolumeWrite, Writes, TypeOK, Chip
        <4> QED BY <1>3, <3>1, <3>2, <3>3, <3>4, <4>1, <4>2 DEF Mixed, Target
      <3>7. CASE HookWrite
        <4>1. pc["hook"] = "write" /\ pc'["hook"] = "idle" /\ pc'["ctl"] = pc["ctl"]
          BY <3>7, GotoPlace DEF HookWrite, Writes, Thread
        <4>2. ~overlapped => chip'.mixer = audio.hook
          BY <3>5, <3>7, WriteChip DEF HookWrite, Writes, TypeOK, Chip
        <4> QED BY <1>3, <3>1, <3>2, <3>3, <3>4, <4>1, <4>2 DEF Mixed, Target
      <3> QED BY <2>4, <3>6, <3>7
    <2>5. CASE \E p \in BOOLEAN : PcmHook(p)
      <3>1. PICK p \in BOOLEAN : PcmHook(p)
        BY <2>5
      <3>2. /\ pc["pm"] = "up" /\ pc'["pm"] = pc["pm"] /\ pc'["ctl"] = pc["ctl"]
            /\ pc'["hook"] = "write"
        BY <3>1, GotoPlace DEF PcmHook, Thread
      <3>3. history'.raced = (pc["ctl"] # "idle")
        BY <3>1 DEF PcmHook, TypeOK, History
      <3>4. audio'.started = p /\ audio'.vol = audio.vol
            /\ audio'.hook = IF p THEN Attenuation(audio.vol) ELSE Mute
        BY <3>1 DEF PcmHook, TypeOK
      <3> QED BY <3>2, <3>3, <3>4 DEF Mixed, Target, Awake, TypeOK
    <2> QED BY <1>3, <2>1, <2>2, <2>3, <2>4, <2>5, StepCases
  <1> QED BY <1>1, <1>2, <1>3

\* What pm does to the level that the handler has read, and to the jacks.
LEMMA PmToldFrame ==
  ASSUME TypeOK, PmStep \/ Suspend
  PROVE  read'.level = read.level /\ (Sync \/ told' = told)
  <1>1. read \in Read
    BY DEF TypeOK
  <1>2. read'.level = read.level
    <2>1. CASE ReadHpCtl \/ WriteHpCtl
      BY <1>1, <2>1 DEF ReadHpCtl, WriteHpCtl, Read
    <2>2. CASE Release \/ Reset \/ PowerDownWrite \/ Suspend
      BY <2>2 DEF Release, Reset, PowerDownWrite, Suspend, Writes
    <2> QED BY <2>1, <2>2, PmFrame DEF PmSpecial
  <1>3. Sync \/ told' = told
    BY DEF PmStep, Suspend, Release, LoadWord, StoreWord, ClearStatuses, ReadHpCtl, WriteHpCtl,
           AllowEvents, EnableJackDetect, EnableUr, FirstDetect, Build, RunJackDetect,
           PowerDown, Reset, Resume, Reads, Writes, jackVars
  <1> QED BY <1>2, <1>3

LEMMA AgreedHandler ==
  ASSUME TypeOK, Agreed, Event \/ HandlerStep
  PROVE  Agreed'
  <1>1. /\ pc'["pm"] = pc["pm"] /\ config' = config /\ read \in Read
        /\ "handler" \in Thread
    BY HandlerFrame DEF Frame, Thread, TypeOK
  <1> USE DEF Agreed
  <1>2. CASE Event
    <2>1. pc["handler"] = "idle" /\ pc'["handler"] \in {"codec_status", "idle"}
      BY <1>1, <1>2, GotoPlace DEF Event
    <2> QED BY <1>1, <1>2, <2>1 DEF Event, jackVars
  <1>3. CASE ReadCodecStatus
    <2>1. pc["handler"] = "codec_status" /\ pc'["handler"] = "hs_status"
      BY <1>1, <1>3, GotoPlace DEF ReadCodecStatus
    <2> QED BY <1>1, <1>3, <2>1 DEF ReadCodecStatus, jackVars
  <1>4. CASE ReadHsStatus
    <2>1. pc["handler"] = "hs_status" /\ pc'["handler"] = "plug_status"
      BY <1>1, <1>4, GotoPlace DEF ReadHsStatus
    <2> QED BY <1>1, <1>4, <2>1 DEF ReadHsStatus, jackVars
  <1>5. CASE ReadPlugStatus
    <2>1. PICK f \in BOOLEAN :
            /\ Fails(f, [chip EXCEPT !.tip_latch = FALSE])
            /\ LET r == [read EXCEPT !.level = jack, !.failed = @ \/ f]
               IN IF r.failed THEN read' = r /\ Goto("handler", "report")
                  ELSE IF r.done THEN read' = r /\ Goto("handler", "auto_done")
                  ELSE /\ Goto("handler", TipSense(r, "idle"))
                       /\ IF TipSense(r, "idle") = "load" THEN read' = TipFlags(r) ELSE Forget
      BY <1>5 DEF ReadPlugStatus
    <2> DEFINE r == [read EXCEPT !.level = jack, !.failed = @ \/ f]
    <2>2. pc["handler"] = "plug_status" /\ word' = word /\ told' = told
      BY <1>5 DEF ReadPlugStatus, jackVars
    <2>3. CASE pc'["handler"] \in {"report", "auto_done"}
      BY <1>1, <2>2, <2>3
    <2>4. CASE Goto("handler", TipSense(r, "idle"))
               /\ IF TipSense(r, "idle") = "load" THEN read' = TipFlags(r) ELSE Forget
      <3>1. pc'["handler"] = TipSense(r, "idle")
        BY <1>1, <2>4, GotoPlace
      <3>2. TipSense(r, "idle") \in {"idle", "load", "detect1"}
        BY DEF TipSense
      <3>3. TipSense(r, "idle") = "load" => r.level # "moving"
        BY DEF TipSense
      <3>4. TipFlags(r).level = r.level
        BY <1>1 DEF TipFlags, Read
      <3> QED BY <1>1, <2>2, <2>4, <3>1, <3>2, <3>3, <3>4 DEF InMotion
    <2> QED BY <1>1, <2>1, <2>3, <2>4, GotoPlace
  <1>6. CASE AutoDone
    <2>1. pc["handler"] = "auto_done" /\ pc'["handler"] = "stop"
      BY <1>1, <1>6, GotoPlace DEF AutoDone, Writes
    <2> QED BY <1>1, <1>6, <2>1 DEF AutoDone, Writes, jackVars
  <1>7. CASE StopDetection
    <2>1. pc["handler"] = "stop" /\ word' = word /\ told' = told
      BY <1>7 DEF StopDetection, jackVars
    <2>2. CASE config.no_type
      <3>1. pc'["handler"] = TipSense(read, "tip_on") /\ read' = TipFlags(read)
        BY <1>1, <1>7, <2>2, GotoPlace DEF StopDetection
      <3>2. TipSense(read, "tip_on") \in {"tip_on", "load", "detect1"}
        BY DEF TipSense
      <3>3. TipSense(read, "tip_on") = "load" => read.level # "moving"
        BY DEF TipSense
      <3>4. read'.level = read.level
        BY <1>1, <3>1 DEF TipFlags, Read
      <3> QED BY <1>1, <2>1, <3>1, <3>2, <3>3, <3>4 DEF InMotion
    <2>3. CASE ~config.no_type
      <3>1. pc'["handler"] \in {"manual", "load"}
        BY <1>1, <1>7, <2>3, GotoPlace DEF StopDetection
      <3> QED BY <1>1, <2>1, <2>3, <3>1 DEF InMotion
    <2> QED BY <2>2, <2>3
  <1>8. CASE ManualDetection
    <2>1. pc["handler"] = "manual" /\ pc'["handler"] = "load"
      BY <1>1, <1>8, GotoPlace DEF ManualDetection
    <2> QED BY <1>1, <1>8, <2>1 DEF ManualDetection, jackVars, InMotion
  <1>9. CASE LoadFlags
    <2>1. pc["handler"] = "load" /\ pc'["handler"] = "store"
      BY <1>1, <1>9, GotoPlace DEF LoadFlags
    <2> QED BY <1>1, <1>9, <2>1 DEF LoadFlags, InMotion
  <1>10. CASE StoreFlags
    <2>1. pc["handler"] = "store" /\ pc'["handler"] \in {"tip_on", "report"}
      BY <1>1, <1>10, GotoPlace DEF StoreFlags
    <2> QED BY <1>1, <1>10, <2>1 DEF StoreFlags, InMotion
  <1>11. CASE TipInterruptOn
    <2>1. pc["handler"] = "tip_on" /\ word' = word /\ told' = told
      BY <1>11 DEF TipInterruptOn, jackVars
    <2>2. pc'["handler"] = IF InMotion THEN "idle" ELSE "report"
      BY <1>1, <1>11, GotoPlace DEF TipInterruptOn, InMotion
    <2> QED BY <1>1, <2>1, <2>2
  <1>12. CASE Report
    <2>1. pc'["handler"] = "idle"
      BY <1>1, <1>12, GotoPlace DEF Report
    <2>2. told'.hp = word'.hp /\ told'.mic = word'.mic
      BY <1>12 DEF Report
    <2> QED BY <1>1, <2>1, <2>2
  <1>13. CASE RunJackDetect("handler", "idle")
    <2>1. pc["handler"] \in DetectPlace /\ pc'["handler"] \in DetectPlace \cup {"idle"}
          /\ read' = read /\ word' = word
      BY <1>13, DetectFrame DEF WordKept
    <2>2. told' = told
      BY <1>13 DEF RunJackDetect, Reads, Writes, jackVars
    <2> QED BY <1>1, <2>1, <2>2 DEF DetectPlace
  <1> QED BY <1>2, <1>3, <1>4, <1>5, <1>6, <1>7, <1>8, <1>9, <1>10, <1>11, <1>12, <1>13
          DEF HandlerStep

LEMMA AgreedStep ==
  ASSUME TypeOK, Agreed, [Next]_vars
  PROVE  Agreed'
  <1>1. CASE UNCHANGED vars
    BY <1>1 DEF vars, jackVars, Agreed, InMotion
  <1>2. CASE Event \/ HandlerStep
    BY <1>2, AgreedHandler
  <1>3. CASE PmStep \/ Suspend
    <2>1. /\ pc'["handler"] = pc["handler"] /\ config' = config /\ read'.level = read.level
          /\ Moves(pc["pm"], pc'["pm"])
      BY <1>3, PmFrame, PmToldFrame DEF Thread
    <2>2. pc'["pm"] = "up" => pc["pm"] = "sync"
      BY <2>1 DEF Moves, DetectPlace
    <2>3. pc["pm"] = "sync" => Sync
      BY <1>3, PmPlaces
    <2>4. Sync => told'.hp = word'.hp /\ told'.mic = word'.mic
      BY DEF Sync, TypeOK
    <2> QED BY <2>1, <2>2, <2>3, <2>4 DEF Agreed, InMotion
  <1>4. CASE VolumePut \/ VolumeWrite \/ (\E p \in BOOLEAN : PcmHook(p)) \/ HookWrite
    BY <1>4, SoundFrame DEF WordKept, Agreed, InMotion
  <1>5. CASE MovePlug \/ DetectionDone
    BY <1>5, OutsideFrame DEF Frame, WordKept, Agreed, InMotion
  <1> QED BY <1>1, <1>2, <1>3, <1>4, <1>5, StepCases

LEMMA InvInit == Init => Inv
  <1> SUFFICES ASSUME Init PROVE Inv
    OBVIOUS
  <1>1. pc["pm"] = "release" /\ pc["handler"] = "idle" /\ pc["ctl"] = "idle" /\ pc["hook"] = "idle"
    BY DEF Init, Thread
  <1>2. TypeOK
    BY TypeInit
  <1>3. Alone /\ Powered /\ Marked /\ Kept
    BY <1>1 DEF Init, Alone, Powered, Marked, Kept, InReset, Awake, Asleep, DetectPlace
  <1>4. Amplified
    BY <1>1 DEF Init, Amplified, InReset, Awake, DetectPlace
  <1>5. Mixed
    BY <1>1 DEF Init, Mixed, Target, InReset
  <1>6. Agreed
    BY <1>1 DEF Init, Agreed
  <1> QED BY <1>2, <1>3, <1>4, <1>5, <1>6 DEF Inv

LEMMA InvStep == Inv /\ [Next]_vars => Inv'
  <1> SUFFICES ASSUME Inv, [Next]_vars PROVE Inv'
    OBVIOUS
  <1>1. TypeOK'
    BY TypeStep DEF Inv
  <1>2. Alone'
    BY <1>1, AloneStep DEF Inv
  <1> QED BY <1>1, <1>2, PoweredStep, MarkedStep, KeptStep, AmplifiedStep, MixedStep, AgreedStep DEF Inv

LEMMA InvHolds == Spec => []Inv
  <1> QED BY InvInit, InvStep, PTL DEF Spec

\* Whatever failed or overlapped: at rest the kernel's jacks show the driver's flags.
THEOREM JacksShowFlags == Spec => []ToldAgrees
  <1>1. Inv => ToldAgrees
    BY DEF Inv, Agreed, ToldAgrees, AtRest
  <1> QED BY <1>1, InvHolds, PTL

\* The headphone amplifier is unmuted while the chip is up, also when the register was
\* read as a negative code, and scaled as configured when it was not.
THEOREM AmplifierIsOn == Spec => []AmplifierOn
  <1>1. Inv => AmplifierOn
    BY DEF Inv, Amplified, AmplifierOn, Unmuted, Scaled, Awake, DetectPlace
  <1> QED BY <1>1, InvHolds, PTL

\* A chip in reset is marked suspended and one that is up is not, also when the handler
\* ran on into the suspend or the resume and stored the word that holds the mark: the one
\* exception is a store by pm between the handler's load and its store (torn).  A suspend
\* that no handler ran into (~overlapped) leaves no jack in the word.
THEOREM SuspendedIsMarked == Spec => []SuspendedMarked
  <1>1. Inv => SuspendedMarked
    BY DEF Inv, Marked, Kept, SuspendedMarked, Awake, DetectPlace
  <1> QED BY <1>1, InvHolds, PTL

\* The mixer has the volume of the control while a stream plays and is muted when none
\* does, unless a volume change overlapped the last PCM operation.
THEOREM VolumeIsFollowed == Spec => []VolumeFollows
  <1>1. Inv => VolumeFollows
    BY DEF Inv, Mixed, Target, VolumeFollows, Sound
  <1> QED BY <1>1, InvHolds, PTL

================================================================================
