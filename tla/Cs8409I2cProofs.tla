-------------------------- MODULE Cs8409I2cProofs --------------------------
(***************************************************************************)
(* Proofs about Cs8409I2c: the types, that a transfer finds clock and      *)
(* address as it needs them, that a running clock will be stopped, that    *)
(* nothing runs after removal, that the page cache is right when nothing   *)
(* disturbs it, and that the transfers then implement RegisterFile.        *)
(***************************************************************************)
EXTENDS Cs8409I2c, TLAPS, SequenceTheorems

\* Who is in a critical section holds the mutex.
Exclusive ==
    /\ \A t \in Clients : pc[t] \in Holding => i2c_mux = t
    /\ pc[Worker] \in {"idle", "lock", "unlock"}
    /\ pc[Worker] = "unlock" => i2c_mux = Worker
    /\ pm \in {"cancelled", "clock_off", "clock_off_locked", "removed"} => pc[Pm] = "idle"
    /\ pm = "clock_off_locked" => i2c_mux = Pm

\* The caches of clock and address, and how far a transfer has got with them.
Ready ==
    /\ clock = i2c_clck_enabled
    /\ dev_addr # NoChip => hw_addr = dev_addr
    /\ \A t \in Clients :
          /\ pc[t] \in {"page", "paged", "transfer"} => clock /\ hw_addr = Chip(t)
          /\ pc[t] = "addr" /\ ~bulk[t] => clock
          /\ pc[t] \in {"cancel", "clock"} /\ bulk[t] => hw_addr = Chip(t)

\* The delayed work in a suspend and in a removal.
Stopper ==
    /\ canceling <=> pm = "cancelled"
    /\ ClockHasStopper

Removal ==
    /\ ~present => \A u \in Users : pc[u] = "idle"
    /\ ~present /\ pm \in {"cancelled", "clock_off", "clock_off_locked"} => ~work_pending
    /\ ~present /\ pm \in {"clock_off", "clock_off_locked"} => pc[Worker] = "idle"
    /\ pm = "removed" => ~present
    /\ RemovedIsQuiet

\* What is left of a request, by the place of its thread.
Pending ==
    \A t \in Clients :
        request[t].todo = <<>> <=> pc[t] \in {"idle", "unlock"}

\* The chips in and out of reset.
Powered ==
    \A c \in Chips :
        /\ reset[c] => chip_page[c] = ResetPage /\ regs[c] = BlankRegs
        /\ reset[c] => suspended[c]
        /\ suspended[c] => last_page[c] = ResetPage
        /\ suspended[c] => reset[c] \/ (c = scodec /\ pm \in {"clear", "reset"})
        /\ suspended[c] /\ pm = "clear" => chip_page[c] = ResetPage
        /\ pm = "reset" => suspended[scodec]
        /\ pm = "clear" => ~reset[scodec]
        /\ suspended[c] => \A t \in Clients : pc[t] \in Inside => Chip(t) # c

\* The page cache.
Paged ==
    /\ \A c \in Chips : ~suspended[c] =>
          \/ last_page[c] = chip_page[c]
          \/ \E t \in Clients : pc[t] = "paged" /\ Chip(t) = c
    /\ \A t \in Clients : pc[t] = "paged" => chip_page[Chip(t)] = Page(t)
    /\ \A t \in Clients : pc[t] = "transfer" =>
          last_page[Chip(t)] = Page(t) /\ chip_page[Chip(t)] = Page(t)

USE DEF Goto, clockVars, addrVars, pageVars, chipVars, callVars, pmVars, PmGoto, PmAt

-----------------------------------------------------------------------------
(* Requests and calls.                                                     *)

\* There is a first chip, and NoChip is no chip.
LEMMA Bounds == 0 \in Chips /\ NoChip \notin Chips
BY ChipAssumption DEF Chips, NoChip

\* Who is who.
LEMMA WhoIsWho ==
  /\ Pm \in Clients /\ Users \subseteq Clients /\ Pm \notin Users
  /\ Worker \notin Clients /\ NoOne \notin Clients /\ NoOne # Worker
  /\ \A t \in Clients : t \in Users \/ t = Pm
BY ThreadAssumption DEF Clients

\* The requests that are made are non-empty sequences of accesses.
LEMMA TodoSequences ==
  ASSUME NEW n \in Nat \ {0}, NEW w, NEW s \in Todo(n, w)
  PROVE  s \in Seq(Access) /\ s # <<>>
<1>1. s \in [1 .. n -> Access]
  BY DEF Todo
<1>2. s \in Seq(Access)
  BY <1>1, SeqDef
<1>3. DOMAIN s = 1 .. n /\ 1 \in 1 .. n
  BY <1>1
<1> QED BY <1>2, <1>3

\* What all calls have in common.
CallStep(t, c, w, s) ==
  /\ Begin(t, c, w, s)
  /\ \/ t \in Users /\ present /\ UNCHANGED pmVars
     \/ /\ t = Pm
        /\ pm \in {"init", "irq", "config", "pwr_down", "poll"}
        /\ pm' \in {"irq", "config", "poll", "mark"}
        /\ scodec' = scodec
        /\ present' \in {present, TRUE}

\* Every call is such a step.
LEMMA CallSteps ==
  ASSUME TypeOK,
         (\E u \in Users : Call(u)) \/ PmInitSeq \/ PmIrqRegs \/ PmConfig
           \/ PmPowerDownSeq \/ PmPoll \/ PmPowerDown
  PROVE  \E t \in Clients, c \in Chips, w \in BOOLEAN, s \in Seq(Access) :
           s # <<>> /\ CallStep(t, c, w, s)
<1>1. ASSUME NEW w, NEW s \in Single(w) \cup Bulk(w)
      PROVE  s \in Seq(Access) /\ s # <<>>
  BY <1>1, TodoSequences DEF Single, Bulk
<1>2. scodec \in Chips /\ 0 .. scodec \subseteq Chips /\ present \in BOOLEAN /\ Pm \in Clients
      /\ Users \subseteq Clients
  BY ChipAssumption DEF TypeOK, Chips, Clients
<1>3. CASE \E u \in Users : Call(u)
  BY <1>1, <1>2, <1>3 DEF Call, CallStep
<1>4. CASE PmInitSeq
  BY <1>1, <1>2, <1>4 DEF PmInitSeq, PmCallBulk, CallStep
<1>5. CASE PmIrqRegs
  <2>1. present' \in {present, TRUE}
    BY <1>2, <1>5 DEF PmIrqRegs
  <2> QED BY <1>1, <1>2, <1>5, <2>1 DEF PmIrqRegs, PmCallBulk, CallStep
<1>6. CASE PmConfig
  BY <1>1, <1>2, <1>6 DEF PmConfig, PmCallSingle, CallStep
<1>7. CASE PmPowerDownSeq
  BY <1>1, <1>2, <1>7 DEF PmPowerDownSeq, PmCallBulk, CallStep
<1>8. CASE PmPoll
  BY <1>1, <1>2, <1>8 DEF PmPoll, PmCallSingle, CallStep
<1>9. CASE PmPowerDown
  BY <1>1, <1>2, <1>9 DEF PmPowerDown, PmCallSingle, CallStep
<1> QED BY <1>3, <1>4, <1>5, <1>6, <1>7, <1>8, <1>9

-----------------------------------------------------------------------------
(* The types.                                                              *)

\* The initial state has the types.
LEMMA TypeInit == Init => TypeOK
<1> SUFFICES ASSUME Init PROVE TypeOK
  OBVIOUS
<1>1. <<>> \in Seq(Access)
  BY EmptySeq
<1>2. BlankRegs \in [Pages -> Values]
  BY ValueAssumption DEF BlankRegs
<1>3. "idle" \in Places /\ "asleep" \in PmPlaces
  BY DEF Places, PmPlaces
<1> QED BY <1>1, <1>2, <1>3, Bounds DEF Init, TypeOK

\* A sequence of more than one element has a tail.
LEMMA TailEmpty ==
  ASSUME NEW S, NEW q \in Seq(S), q # <<>>
  PROVE  Len(q) > 1 <=> Tail(q) # <<>>
<1>1. Tail(q) \in Seq(S) /\ Len(q) \in Nat \ {0}
  BY HeadTailProperties, EmptySeq
<1>2. Len(Tail(q)) = Len(q) - 1
  BY <1>1
<1>3. Tail(q) # <<>> => Len(Tail(q)) # 0
  BY <1>1, EmptySeq
<1>4. Tail(q) = <<>> => Len(Tail(q)) = 0
  BY EmptySeq
<1> QED BY <1>1, <1>2, <1>3, <1>4

\* What is known of a request while it is served.
LEMMA Entries ==
  ASSUME TypeOK, Pending, NEW t \in Clients, pc[t] \notin {"idle", "unlock"}
  PROVE  /\ Chip(t) \in Chips
         /\ Page(t) \in Pages
         /\ Head(request[t].todo) \in Access
         /\ Head(request[t].todo).value \in Values
         /\ Tail(request[t].todo) \in Seq(Access)
         /\ Len(request[t].todo) > 1 <=> Tail(request[t].todo) # <<>>
<1> DEFINE q == request[t].todo
<1>1. request[t] \in [chip : Chips, write : BOOLEAN, todo : Seq(Access)]
  BY DEF TypeOK
<1>2. q \in Seq(Access) /\ q # <<>>
  BY <1>1 DEF Pending
<1>3. Head(q) \in Access /\ Tail(q) \in Seq(Access) /\ Len(q) \in Nat \ {0}
  BY <1>2, HeadTailProperties, EmptySeq
<1>4. Len(q) > 1 <=> Tail(q) # <<>>
  BY <1>2, TailEmpty
<1> QED BY <1>1, <1>3, <1>4 DEF Chip, Page, Access

\* Giving up leaves requests and answers typed.
LEMMA GiveUpTypes ==
  ASSUME TypeOK, NEW t \in Clients, GiveUp(t)
  PROVE  /\ request' \in [Clients -> [chip : Chips, write : BOOLEAN, todo : Seq(Access)]]
         /\ got' \in [Clients -> Values \cup {Nothing, Failed}]
         /\ bulk' = bulk
<1>1. <<>> \in Seq(Access)
  BY EmptySeq
<1> QED BY <1>1 DEF GiveUp, TypeOK

\* A page write leaves the chips' pages typed.
LEMMA WritePageTypes ==
  ASSUME TypeOK, NEW t \in Clients, Page(t) \in Pages, Addressed, WritePage(t)
  PROVE  chip_page' \in [Chips -> Pages \cup {ResetPage}]
BY DEF WritePage, Addressed, TypeOK

\* Every step keeps the types.
LEMMA TypeStep ==
  ASSUME TypeOK, Pending, [Next]_vars
  PROVE  TypeOK'
<1> USE Bounds, ValueAssumption DEF TypeOK
<1>1. ASSUME NEW t \in Clients, TestSuspended(t)
       PROVE  TypeOK'
  <2>1. pc' \in [Clients \cup {Worker} -> Places]
    BY <1>1 DEF TestSuspended, Places, Holding
  <2>2. CASE suspended[Chip(t)]
    BY <1>1, <2>1, <2>2, GiveUpTypes DEF TestSuspended
  <2>3. CASE ~suspended[Chip(t)]
    BY <1>1, <2>1, <2>3 DEF TestSuspended
  <2> QED BY <2>2, <2>3
<1>2. ASSUME NEW t \in Clients, Lock(t)
       PROVE  TypeOK'
  <2>1. pc' \in [Clients \cup {Worker} -> Places]
    BY <1>2 DEF Lock, Places, Holding
  <2> QED BY <1>2, <2>1 DEF Lock
<1>3. ASSUME NEW t \in Clients, CancelWork(t)
       PROVE  TypeOK'
  <2>1. pc' \in [Clients \cup {Worker} -> Places]
    BY <1>3 DEF CancelWork, Places, Holding
  <2> QED BY <1>3, <2>1 DEF CancelWork
<1>4. ASSUME NEW t \in Clients, EnableClock(t)
       PROVE  TypeOK'
  <2>1. pc' \in [Clients \cup {Worker} -> Places]
    BY <1>4 DEF EnableClock, Places, Holding
  <2> QED BY <1>4, <2>1 DEF EnableClock
<1>5. ASSUME NEW t \in Clients, SetDevAddr(t)
       PROVE  TypeOK'
  <2>1. pc' \in [Clients \cup {Worker} -> Places]
    BY <1>5 DEF SetDevAddr, Places, Holding
  <2>2. hw_addr' \in Chips \cup {NoChip} /\ dev_addr' \in Chips
    BY <1>5, Entries DEF SetDevAddr
  <2> QED BY <1>5, <2>1, <2>2 DEF SetDevAddr
<1>6. ASSUME NEW t \in Clients, SkipPage(t)
       PROVE  TypeOK'
  <2>1. pc' \in [Clients \cup {Worker} -> Places]
    BY <1>6 DEF SkipPage, PageKnown, Places, Holding
  <2> QED BY <1>6, <2>1 DEF SkipPage, PageKnown
<1>7. ASSUME NEW t \in Clients, SetPage(t)
       PROVE  TypeOK'
  <2>1. pc' \in [Clients \cup {Worker} -> Places]
    BY <1>7 DEF SetPage, Places, Holding
  <2>2. chip_page' \in [Chips -> Pages \cup {ResetPage}]
    BY <1>7, Entries, WritePageTypes DEF SetPage
  <2> QED BY <1>7, <2>1, <2>2 DEF SetPage
<1>8. ASSUME NEW t \in Clients, PageSet(t)
       PROVE  TypeOK'
  <2>1. pc' \in [Clients \cup {Worker} -> Places]
    BY <1>8 DEF PageSet, Places, Holding
  <2>2. pc[t] \notin {"idle", "unlock"}
    BY <1>8 DEF PageSet
  <2> QED BY <1>8, <2>1, <2>2, Entries DEF PageSet
<1>9. ASSUME NEW t \in Clients, PageTimeout(t)
       PROVE  TypeOK'
  <2>1. pc' \in [Clients \cup {Worker} -> Places]
    BY <1>9 DEF PageTimeout, PageKnown, Places, Holding
  <2> QED BY <1>9, <2>1, GiveUpTypes DEF PageTimeout, PageKnown
<1>10. ASSUME NEW t \in Clients, PageLate(t)
       PROVE  TypeOK'
  <2>1. pc' \in [Clients \cup {Worker} -> Places]
    BY <1>10 DEF PageLate, Places, Holding
  <2>2. chip_page' \in [Chips -> Pages \cup {ResetPage}]
    BY <1>10, Entries, WritePageTypes DEF PageLate
  <2> QED BY <1>10, <2>1, <2>2, GiveUpTypes DEF PageLate
<1>11. ASSUME NEW t \in Clients, Transfer(t)
       PROVE  TypeOK'
  <2>1. pc' \in [Clients \cup {Worker} -> Places]
    BY <1>11 DEF Transfer, Places, Holding
  <2>2. regs' \in [Chips -> [Pages -> Values]]
    BY <1>11, Entries DEF Transfer, WriteData, Reachable, Addressed
  <2>3. got' \in [Clients -> Values \cup {Nothing, Failed}]
    BY <1>11 DEF Transfer, ReadData
  <2>4. request' \in [Clients -> [chip : Chips, write : BOOLEAN, todo : Seq(Access)]]
    BY <1>11, Entries DEF Transfer
  <2> QED BY <1>11, <2>1, <2>2, <2>3, <2>4 DEF Transfer
<1>12. ASSUME NEW t \in Clients, TransferTimeout(t)
       PROVE  TypeOK'
  <2>1. pc' \in [Clients \cup {Worker} -> Places]
    BY <1>12 DEF TransferTimeout, Places, Holding
  <2>2. UNCHANGED regs => regs' \in [Chips -> [Pages -> Values]]
    OBVIOUS
  <2>3. Addressed /\ WriteData(t) => regs' \in [Chips -> [Pages -> Values]]
    BY <1>12, Entries DEF TransferTimeout, WriteData, Reachable, Addressed
  <2> QED BY <1>12, <2>1, <2>2, <2>3, GiveUpTypes DEF TransferTimeout
<1>13. ASSUME NEW t \in Clients, Unlock(t)
       PROVE  TypeOK'
  <2>1. pc' \in [Clients \cup {Worker} -> Places]
    BY <1>13 DEF Unlock, Places, Holding
  <2> QED BY <1>13, <2>1 DEF Unlock
<1>14. ASSUME NEW t \in Clients, NEW c \in Chips, NEW w \in BOOLEAN,
              NEW s \in Seq(Access), s # <<>>, CallStep(t, c, w, s)
       PROVE  TypeOK'
  <2>1. request' \in [Clients -> [chip : Chips, write : BOOLEAN, todo : Seq(Access)]]
    BY <1>14 DEF CallStep, Begin
  <2>2. pc' \in [Clients \cup {Worker} -> Places]
    BY <1>14 DEF CallStep, Begin, Places
  <2>3. got' \in [Clients -> Values \cup {Nothing, Failed}] /\ bulk' \in [Clients -> BOOLEAN]
    BY <1>14 DEF CallStep, Begin
  <2>4. pm' \in PmPlaces /\ scodec' = scodec /\ present' \in BOOLEAN
    BY <1>14 DEF CallStep, PmPlaces
  <2> QED BY <1>14, <2>1, <2>2, <2>3, <2>4 DEF CallStep, Begin
<1>15. CASE WorkFires
  <2>1. pc' \in [Clients \cup {Worker} -> Places]
    BY <1>15 DEF WorkFires, Places, Holding
  <2> QED BY <1>15, <2>1 DEF WorkFires
<1>16. CASE WorkLock
  <2>1. pc' \in [Clients \cup {Worker} -> Places]
    BY <1>16 DEF WorkLock, Places, Holding
  <2> QED BY <1>16, <2>1 DEF WorkLock
<1>17. CASE WorkDone
  <2>1. pc' \in [Clients \cup {Worker} -> Places]
    BY <1>17 DEF WorkDone, DisableClock, Places, Holding
  <2> QED BY <1>17, <2>1 DEF WorkDone, DisableClock
<1>18. CASE PmResume
  <2>1. pm' \in PmPlaces
    BY <1>18 DEF PmResume, PmOnly, PmPlaces
  <2> QED BY <1>18, <2>1 DEF PmResume, PmOnly
<1>19. CASE ReleaseReset
  <2>1. pm' \in PmPlaces
    BY <1>19 DEF ReleaseReset, PmPlaces
  <2> QED BY <1>19, <2>1 DEF ReleaseReset
<1>20. CASE ClearSuspended
  <2>1. pm' \in PmPlaces
    BY <1>20 DEF ClearSuspended, PmPlaces
  <2> QED BY <1>20, <2>1 DEF ClearSuspended
<1>21. CASE PmConfigDone
  <2>1. pm' \in PmPlaces
    BY <1>21 DEF PmConfigDone, PmOnly, NextChip, LastChip, PmPlaces
  <2>2. scodec' \in Chips /\ present' = present
    BY <1>21, ChipAssumption DEF PmConfigDone, NextChip, LastChip, Chips
  <2> QED BY <1>21, <2>1, <2>2 DEF PmConfigDone, PmOnly
<1>22. CASE PmSuspend
  <2>1. pm' \in PmPlaces
    BY <1>22 DEF PmSuspend, PmOnly, PmPlaces
  <2> QED BY <1>22, <2>1 DEF PmSuspend, PmOnly
<1>23. CASE SuspendMark
  <2>1. pm' \in PmPlaces
    BY <1>23 DEF SuspendMark, PmPlaces
  <2> QED BY <1>23, <2>1 DEF SuspendMark
<1>24. CASE AssertReset
  <2>1. pm' \in PmPlaces
    BY <1>24 DEF AssertReset, NextChip, PmPlaces
  <2>2. scodec' \in Chips /\ present' = present
    BY <1>24, ChipAssumption DEF AssertReset, NextChip, LastChip, Chips
  <2>3. BlankRegs \in [Pages -> Values]
    BY DEF BlankRegs
  <2> QED BY <1>24, <2>1, <2>2, <2>3 DEF AssertReset
<1>25. CASE PmRemove
  <2>1. pm' \in PmPlaces
    BY <1>25 DEF PmRemove, PmOnly, PmPlaces
  <2> QED BY <1>25, <2>1 DEF PmRemove, PmOnly
<1>26. CASE CancelSync
  <2>1. pm' \in PmPlaces
    BY <1>26 DEF CancelSync, PmPlaces
  <2> QED BY <1>26, <2>1 DEF CancelSync
<1>27. CASE CancelSyncDone
  <2>1. pm' \in PmPlaces
    BY <1>27 DEF CancelSyncDone, PmPlaces
  <2> QED BY <1>27, <2>1 DEF CancelSyncDone
<1>28. CASE ClockOffLock
  <2>1. pm' \in PmPlaces
    BY <1>28 DEF ClockOffLock, PmPlaces
  <2>2. Pm \in Clients
    BY DEF Clients
  <2> QED BY <1>28, <2>1, <2>2 DEF ClockOffLock
<1>29. CASE ClockOff
  <2>1. pm' \in PmPlaces
    BY <1>29 DEF ClockOff, DisableClock, PmPlaces
  <2> QED BY <1>29, <2>1 DEF ClockOff, DisableClock
<1>30. CASE Probe
  <2>1. pm' \in PmPlaces
    BY <1>30 DEF Probe, PmPlaces
  <2>2. BlankRegs \in [Pages -> Values]
    BY DEF BlankRegs
  <2> QED BY <1>30, <2>1, <2>2 DEF Probe
<1>31. CASE UNCHANGED vars
  BY <1>31 DEF vars
<1> HIDE DEF TypeOK
<1>32. ASSUME NEW t \in Clients, Step(t)
       PROVE  TypeOK'
  BY <1>32, <1>1, <1>2, <1>3, <1>4, <1>5, <1>6, <1>7, <1>8, <1>9, <1>11, <1>12, <1>13
     DEF Step
<1>33. ASSUME (\E u \in Users : Call(u)) \/ PmInitSeq \/ PmIrqRegs \/ PmConfig
              \/ PmPowerDownSeq \/ PmPoll \/ PmPowerDown
       PROVE  TypeOK'
  BY <1>14, <1>33, CallSteps
<1>34. CASE PmStep \/ PmChoice
  BY <1>34, <1>33, <1>18, <1>19, <1>20, <1>21, <1>22, <1>24, <1>25, <1>26, <1>27, <1>28, <1>29
     DEF PmStep, PmChoice
<1>35. CASE Common
  BY <1>35, <1>32, <1>33, <1>34, <1>15, <1>16, <1>17 DEF Common
<1> QED
  BY <1>35, <1>10, <1>23, <1>30, <1>31 DEF Next

\* Every step keeps requests and places in line.
LEMMA PendingStep ==
  ASSUME TypeOK, Pending, [Next]_vars
  PROVE  Pending'
<1> USE Bounds, WhoIsWho DEF TypeOK, Pending
<1>1. ASSUME NEW t \in Clients, TestSuspended(t)
       PROVE  Pending'
  <2>1. CASE suspended[Chip(t)]
    <3>1. pc' = [pc EXCEPT ![t] = "idle"] /\ request' = [request EXCEPT ![t].todo = <<>>]
      BY <1>1, <2>1 DEF TestSuspended, GiveUp
    <3>2. request'[t].todo = <<>>
      BY <3>1
    <3> QED BY <3>1, <3>2
  <2>2. CASE ~suspended[Chip(t)]
    BY <1>1, <2>2 DEF TestSuspended
  <2> QED BY <2>1, <2>2
<1>2. ASSUME NEW t \in Clients, Lock(t)
       PROVE  Pending'
  BY <1>2 DEF Lock
<1>3. ASSUME NEW t \in Clients, CancelWork(t)
       PROVE  Pending'
  BY <1>3 DEF CancelWork
<1>4. ASSUME NEW t \in Clients, EnableClock(t)
       PROVE  Pending'
  BY <1>4 DEF EnableClock
<1>5. ASSUME NEW t \in Clients, SetDevAddr(t)
       PROVE  Pending'
  BY <1>5 DEF SetDevAddr
<1>6. ASSUME NEW t \in Clients, SkipPage(t)
       PROVE  Pending'
  BY <1>6 DEF SkipPage, PageKnown
<1>7. ASSUME NEW t \in Clients, SetPage(t)
       PROVE  Pending'
  BY <1>7 DEF SetPage, PageKnown, WritePage, Addressed
<1>8. ASSUME NEW t \in Clients, PageSet(t)
       PROVE  Pending'
  BY <1>8 DEF PageSet
<1>9. ASSUME NEW t \in Clients, PageTimeout(t)
       PROVE  Pending'
  BY <1>9 DEF PageTimeout, PageKnown, GiveUp
<1>10. ASSUME NEW t \in Clients, PageLate(t)
       PROVE  Pending'
  BY <1>10 DEF PageLate, PageKnown, WritePage, Addressed, GiveUp
<1>11. ASSUME NEW t \in Clients, Transfer(t)
       PROVE  Pending'
  <2>1. /\ request[t].todo # <<>>
        /\ Len(request[t].todo) > 1 <=> Tail(request[t].todo) # <<>>
    BY <1>11, Entries DEF Transfer
  <2>2. request' = [request EXCEPT ![t].todo = Tail(request[t].todo)]
    BY <1>11 DEF Transfer
  <2>3. pc' = [pc EXCEPT ![t] = IF Len(request[t].todo) > 1 THEN "cancel" ELSE "unlock"]
    BY <1>11 DEF Transfer
  <2>4. request'[t].todo = Tail(request[t].todo)
    BY <2>2
  <2> QED BY <2>1, <2>2, <2>3, <2>4
<1>12. ASSUME NEW t \in Clients, TransferTimeout(t)
       PROVE  Pending'
  BY <1>12 DEF TransferTimeout, WriteData, GiveUp, Addressed
<1>13. ASSUME NEW t \in Clients, Unlock(t)
       PROVE  Pending'
  BY <1>13 DEF Unlock
<1>14. ASSUME NEW t \in Clients, NEW c \in Chips, NEW w \in BOOLEAN,
              NEW s \in Seq(Access), s # <<>>, CallStep(t, c, w, s)
       PROVE  Pending'
  BY <1>14 DEF CallStep, Begin
<1>15. CASE WorkFires
  BY <1>15 DEF WorkFires
<1>16. CASE WorkLock
  BY <1>16 DEF WorkLock
<1>17. CASE WorkDone
  BY <1>17 DEF WorkDone, DisableClock
<1>18. CASE PmResume
  BY <1>18 DEF PmResume, PmOnly
<1>19. CASE ReleaseReset
  BY <1>19 DEF ReleaseReset
<1>20. CASE ClearSuspended
  BY <1>20 DEF ClearSuspended
<1>21. CASE PmConfigDone
  BY <1>21 DEF PmConfigDone, PmOnly, NextChip, LastChip
<1>22. CASE PmSuspend
  BY <1>22 DEF PmSuspend, PmOnly
<1>23. CASE SuspendMark
  BY <1>23 DEF SuspendMark
<1>24. CASE AssertReset
  BY <1>24 DEF AssertReset, NextChip, LastChip
<1>25. CASE PmRemove
  BY <1>25 DEF PmRemove, PmOnly
<1>26. CASE CancelSync
  BY <1>26 DEF CancelSync
<1>27. CASE CancelSyncDone
  BY <1>27 DEF CancelSyncDone
<1>28. CASE ClockOffLock
  BY <1>28 DEF ClockOffLock
<1>29. CASE ClockOff
  BY <1>29 DEF ClockOff, DisableClock
<1>30. CASE Probe
  BY <1>30 DEF Probe
<1>31. CASE UNCHANGED vars
  BY <1>31 DEF vars
<1> HIDE DEF TypeOK, Pending
<1>32. ASSUME NEW t \in Clients, Step(t)
       PROVE  Pending'
  BY <1>32, <1>1, <1>2, <1>3, <1>4, <1>5, <1>6, <1>7, <1>8, <1>9, <1>11, <1>12, <1>13
     DEF Step
<1>33. ASSUME (\E u \in Users : Call(u)) \/ PmInitSeq \/ PmIrqRegs \/ PmConfig
              \/ PmPowerDownSeq \/ PmPoll \/ PmPowerDown
       PROVE  Pending'
  BY <1>14, <1>33, CallSteps
<1>34. CASE PmStep \/ PmChoice
  BY <1>34, <1>33, <1>18, <1>19, <1>20, <1>21, <1>22, <1>24, <1>25, <1>26, <1>27, <1>28, <1>29
     DEF PmStep, PmChoice
<1>35. CASE Common
  BY <1>35, <1>32, <1>33, <1>34, <1>15, <1>16, <1>17 DEF Common
<1> QED
  BY <1>35, <1>10, <1>23, <1>30, <1>31 DEF Next

\* Every step keeps the mutex exclusive.
LEMMA ExclusiveStep ==
  ASSUME TypeOK, Exclusive, [Next]_vars
  PROVE  Exclusive'
<1> USE WhoIsWho DEF TypeOK, Exclusive, Holding
<1>1. ASSUME NEW t \in Clients, TestSuspended(t)
       PROVE  Exclusive'
  <2>1. CASE suspended[Chip(t)]
    BY <1>1, <2>1 DEF TestSuspended, GiveUp
  <2>2. CASE ~suspended[Chip(t)]
    BY <1>1, <2>2 DEF TestSuspended
  <2> QED BY <2>1, <2>2
<1>2. ASSUME NEW t \in Clients, Lock(t)
       PROVE  Exclusive'
  BY <1>2 DEF Lock
<1>3. ASSUME NEW t \in Clients, CancelWork(t)
       PROVE  Exclusive'
  BY <1>3 DEF CancelWork
<1>4. ASSUME NEW t \in Clients, EnableClock(t)
       PROVE  Exclusive'
  BY <1>4 DEF EnableClock
<1>5. ASSUME NEW t \in Clients, SetDevAddr(t)
       PROVE  Exclusive'
  BY <1>5 DEF SetDevAddr
<1>6. ASSUME NEW t \in Clients, SkipPage(t)
       PROVE  Exclusive'
  BY <1>6 DEF SkipPage, PageKnown
<1>7. ASSUME NEW t \in Clients, SetPage(t)
       PROVE  Exclusive'
  BY <1>7 DEF SetPage, PageKnown, WritePage, Addressed
<1>8. ASSUME NEW t \in Clients, PageSet(t)
       PROVE  Exclusive'
  BY <1>8 DEF PageSet
<1>9. ASSUME NEW t \in Clients, PageTimeout(t)
       PROVE  Exclusive'
  BY <1>9 DEF PageTimeout, PageKnown, GiveUp
<1>10. ASSUME NEW t \in Clients, PageLate(t)
       PROVE  Exclusive'
  BY <1>10 DEF PageLate, PageKnown, WritePage, Addressed, GiveUp
<1>11. ASSUME NEW t \in Clients, Transfer(t)
       PROVE  Exclusive'
  BY <1>11 DEF Transfer, WriteData, ReadData, Addressed
<1>12. ASSUME NEW t \in Clients, TransferTimeout(t)
       PROVE  Exclusive'
  BY <1>12 DEF TransferTimeout, WriteData, GiveUp, Addressed
<1>13. ASSUME NEW t \in Clients, Unlock(t)
       PROVE  Exclusive'
  BY <1>13 DEF Unlock
<1>14. ASSUME NEW t \in Clients, NEW c \in Chips, NEW w \in BOOLEAN,
              NEW s \in Seq(Access), s # <<>>, CallStep(t, c, w, s)
       PROVE  Exclusive'
  BY <1>14 DEF CallStep, Begin
<1>15. CASE WorkFires
  BY <1>15 DEF WorkFires
<1>16. CASE WorkLock
  BY <1>16 DEF WorkLock
<1>17. CASE WorkDone
  BY <1>17 DEF WorkDone, DisableClock
<1>18. CASE PmResume
  BY <1>18 DEF PmResume, PmOnly
<1>19. CASE ReleaseReset
  BY <1>19 DEF ReleaseReset
<1>20. CASE ClearSuspended
  BY <1>20 DEF ClearSuspended
<1>21. CASE PmConfigDone
  BY <1>21 DEF PmConfigDone, PmOnly, NextChip, LastChip
<1>22. CASE PmSuspend
  BY <1>22 DEF PmSuspend, PmOnly
<1>23. CASE SuspendMark
  BY <1>23 DEF SuspendMark
<1>24. CASE AssertReset
  BY <1>24 DEF AssertReset, NextChip, LastChip
<1>25. CASE PmRemove
  BY <1>25 DEF PmRemove, PmOnly
<1>26. CASE CancelSync
  BY <1>26 DEF CancelSync
<1>27. CASE CancelSyncDone
  BY <1>27 DEF CancelSyncDone
<1>28. CASE ClockOffLock
  BY <1>28 DEF ClockOffLock
<1>29. CASE ClockOff
  BY <1>29 DEF ClockOff, DisableClock
<1>30. CASE Probe
  BY <1>30 DEF Probe
<1>31. CASE UNCHANGED vars
  BY <1>31 DEF vars
<1> HIDE DEF TypeOK, Exclusive
<1>32. ASSUME NEW t \in Clients, Step(t)
       PROVE  Exclusive'
  BY <1>32, <1>1, <1>2, <1>3, <1>4, <1>5, <1>6, <1>7, <1>8, <1>9, <1>11, <1>12, <1>13
     DEF Step
<1>33. ASSUME (\E u \in Users : Call(u)) \/ PmInitSeq \/ PmIrqRegs \/ PmConfig
              \/ PmPowerDownSeq \/ PmPoll \/ PmPowerDown
       PROVE  Exclusive'
  BY <1>14, <1>33, CallSteps
<1>34. CASE PmStep \/ PmChoice
  BY <1>34, <1>33, <1>18, <1>19, <1>20, <1>21, <1>22, <1>24, <1>25, <1>26, <1>27, <1>28, <1>29
     DEF PmStep, PmChoice
<1>35. CASE Common
  BY <1>35, <1>32, <1>33, <1>34, <1>15, <1>16, <1>17 DEF Common
<1> QED
  BY <1>35, <1>10, <1>23, <1>30, <1>31 DEF Next

\* Every step keeps clock and address as the transfers under way need them.
LEMMA ReadyStep ==
  ASSUME TypeOK, Exclusive, Ready, [Next]_vars
  PROVE  Ready'
<1> USE Bounds, WhoIsWho DEF TypeOK, Exclusive, Holding, Ready, Chip
<1>1. ASSUME NEW t \in Clients, TestSuspended(t)
       PROVE  Ready'
  <2>1. CASE suspended[Chip(t)]
    BY <1>1, <2>1 DEF TestSuspended, GiveUp
  <2>2. CASE ~suspended[Chip(t)]
    BY <1>1, <2>2 DEF TestSuspended
  <2> QED BY <2>1, <2>2
<1>2. ASSUME NEW t \in Clients, Lock(t)
       PROVE  Ready'
  BY <1>2 DEF Lock
<1>3. ASSUME NEW t \in Clients, CancelWork(t)
       PROVE  Ready'
  BY <1>3 DEF CancelWork
<1>4. ASSUME NEW t \in Clients, EnableClock(t)
       PROVE  Ready'
  BY <1>4 DEF EnableClock
<1>5. ASSUME NEW t \in Clients, SetDevAddr(t)
       PROVE  Ready'
  BY <1>5 DEF SetDevAddr
<1>6. ASSUME NEW t \in Clients, SkipPage(t)
       PROVE  Ready'
  BY <1>6 DEF SkipPage, PageKnown
<1>7. ASSUME NEW t \in Clients, SetPage(t)
       PROVE  Ready'
  BY <1>7 DEF SetPage, PageKnown, WritePage, Addressed
<1>8. ASSUME NEW t \in Clients, PageSet(t)
       PROVE  Ready'
  BY <1>8 DEF PageSet
<1>9. ASSUME NEW t \in Clients, PageTimeout(t)
       PROVE  Ready'
  BY <1>9 DEF PageTimeout, PageKnown, GiveUp
<1>10. ASSUME NEW t \in Clients, PageLate(t)
       PROVE  Ready'
  BY <1>10 DEF PageLate, PageKnown, WritePage, Addressed, GiveUp
<1>11. ASSUME NEW t \in Clients, Transfer(t)
       PROVE  Ready'
  <2>1. /\ request' = [request EXCEPT ![t].todo = Tail(request[t].todo)]
        /\ pc[t] = "transfer" /\ pc'[t] \in {"cancel", "unlock"}
        /\ pc' = [pc EXCEPT ![t] = pc'[t]]
        /\ UNCHANGED <<i2c_mux, clockVars, addrVars, bulk>>
    BY <1>11 DEF Transfer
  <2>2. \A x \in Clients : request'[x].chip = request[x].chip
    BY <2>1
  <2> QED BY <2>1, <2>2
<1>12. ASSUME NEW t \in Clients, TransferTimeout(t)
       PROVE  Ready'
  BY <1>12 DEF TransferTimeout, WriteData, GiveUp, Addressed
<1>13. ASSUME NEW t \in Clients, Unlock(t)
       PROVE  Ready'
  BY <1>13 DEF Unlock
<1>14. ASSUME NEW t \in Clients, NEW c \in Chips, NEW w \in BOOLEAN,
              NEW s \in Seq(Access), s # <<>>, CallStep(t, c, w, s)
       PROVE  Ready'
  BY <1>14 DEF CallStep, Begin
<1>15. CASE WorkFires
  BY <1>15 DEF WorkFires
<1>16. CASE WorkLock
  BY <1>16 DEF WorkLock
<1>17. CASE WorkDone
  BY <1>17 DEF WorkDone, DisableClock
<1>18. CASE PmResume
  BY <1>18 DEF PmResume, PmOnly
<1>19. CASE ReleaseReset
  BY <1>19 DEF ReleaseReset
<1>20. CASE ClearSuspended
  BY <1>20 DEF ClearSuspended
<1>21. CASE PmConfigDone
  BY <1>21 DEF PmConfigDone, PmOnly, NextChip, LastChip
<1>22. CASE PmSuspend
  BY <1>22 DEF PmSuspend, PmOnly
<1>23. CASE SuspendMark
  BY <1>23 DEF SuspendMark
<1>24. CASE AssertReset
  BY <1>24 DEF AssertReset, NextChip, LastChip
<1>25. CASE PmRemove
  BY <1>25 DEF PmRemove, PmOnly
<1>26. CASE CancelSync
  BY <1>26 DEF CancelSync
<1>27. CASE CancelSyncDone
  BY <1>27 DEF CancelSyncDone
<1>28. CASE ClockOffLock
  BY <1>28 DEF ClockOffLock
<1>29. CASE ClockOff
  BY <1>29 DEF ClockOff, DisableClock
<1>30. CASE Probe
  BY <1>30 DEF Probe
<1>31. CASE UNCHANGED vars
  BY <1>31 DEF vars
<1> HIDE DEF TypeOK, Exclusive, Ready
<1>32. ASSUME NEW t \in Clients, Step(t)
       PROVE  Ready'
  BY <1>32, <1>1, <1>2, <1>3, <1>4, <1>5, <1>6, <1>7, <1>8, <1>9, <1>11, <1>12, <1>13
     DEF Step
<1>33. ASSUME (\E u \in Users : Call(u)) \/ PmInitSeq \/ PmIrqRegs \/ PmConfig
              \/ PmPowerDownSeq \/ PmPoll \/ PmPowerDown
       PROVE  Ready'
  BY <1>14, <1>33, CallSteps
<1>34. CASE PmStep \/ PmChoice
  BY <1>34, <1>33, <1>18, <1>19, <1>20, <1>21, <1>22, <1>24, <1>25, <1>26, <1>27, <1>28, <1>29
     DEF PmStep, PmChoice
<1>35. CASE Common
  BY <1>35, <1>32, <1>33, <1>34, <1>15, <1>16, <1>17 DEF Common
<1> QED
  BY <1>35, <1>10, <1>23, <1>30, <1>31 DEF Next

\* Every step keeps a stopper for the clock.
LEMMA StopperStep ==
  ASSUME TypeOK, Exclusive, Ready, Stopper, [Next]_vars
  PROVE  Stopper'
<1> USE WhoIsWho DEF TypeOK, Exclusive, Ready, Stopper, ClockHasStopper
<1>1. ASSUME NEW t \in Clients, TestSuspended(t)
       PROVE  Stopper'
  BY <1>1 DEF TestSuspended, GiveUp
<1>2. ASSUME NEW t \in Clients, Lock(t)
       PROVE  Stopper'
  BY <1>2 DEF Lock
<1>3. ASSUME NEW t \in Clients, CancelWork(t)
       PROVE  Stopper'
  BY <1>3 DEF CancelWork
<1>4. ASSUME NEW t \in Clients, EnableClock(t)
       PROVE  Stopper'
  BY <1>4 DEF EnableClock
<1>5. ASSUME NEW t \in Clients, SetDevAddr(t)
       PROVE  Stopper'
  BY <1>5 DEF SetDevAddr
<1>6. ASSUME NEW t \in Clients, SkipPage(t)
       PROVE  Stopper'
  BY <1>6 DEF SkipPage, PageKnown
<1>7. ASSUME NEW t \in Clients, SetPage(t)
       PROVE  Stopper'
  BY <1>7 DEF SetPage, PageKnown, WritePage, Addressed
<1>8. ASSUME NEW t \in Clients, PageSet(t)
       PROVE  Stopper'
  BY <1>8 DEF PageSet
<1>9. ASSUME NEW t \in Clients, PageTimeout(t)
       PROVE  Stopper'
  BY <1>9 DEF PageTimeout, PageKnown, GiveUp
<1>10. ASSUME NEW t \in Clients, PageLate(t)
       PROVE  Stopper'
  BY <1>10 DEF PageLate, PageKnown, WritePage, Addressed, GiveUp
<1>11. ASSUME NEW t \in Clients, Transfer(t)
       PROVE  Stopper'
  BY <1>11 DEF Transfer, WriteData, ReadData, Addressed
<1>12. ASSUME NEW t \in Clients, TransferTimeout(t)
       PROVE  Stopper'
  BY <1>12 DEF TransferTimeout, WriteData, GiveUp, Addressed
<1>13. ASSUME NEW t \in Clients, Unlock(t)
       PROVE  Stopper'
  BY <1>13 DEF Unlock
<1>14. ASSUME NEW t \in Clients, NEW c \in Chips, NEW w \in BOOLEAN,
              NEW s \in Seq(Access), s # <<>>, CallStep(t, c, w, s)
       PROVE  Stopper'
  BY <1>14 DEF CallStep, Begin
<1>15. CASE WorkFires
  BY <1>15 DEF WorkFires
<1>16. CASE WorkLock
  BY <1>16 DEF WorkLock
<1>17. CASE WorkDone
  BY <1>17 DEF WorkDone, DisableClock
<1>18. CASE PmResume
  BY <1>18 DEF PmResume, PmOnly
<1>19. CASE ReleaseReset
  BY <1>19 DEF ReleaseReset
<1>20. CASE ClearSuspended
  BY <1>20 DEF ClearSuspended
<1>21. CASE PmConfigDone
  BY <1>21 DEF PmConfigDone, PmOnly, NextChip, LastChip
<1>22. CASE PmSuspend
  BY <1>22 DEF PmSuspend, PmOnly
<1>23. CASE SuspendMark
  BY <1>23 DEF SuspendMark
<1>24. CASE AssertReset
  BY <1>24 DEF AssertReset, NextChip, LastChip
<1>25. CASE PmRemove
  BY <1>25 DEF PmRemove, PmOnly
<1>26. CASE CancelSync
  BY <1>26 DEF CancelSync
<1>27. CASE CancelSyncDone
  BY <1>27 DEF CancelSyncDone
<1>28. CASE ClockOffLock
  BY <1>28 DEF ClockOffLock
<1>29. CASE ClockOff
  BY <1>29 DEF ClockOff, DisableClock
<1>30. CASE Probe
  BY <1>30 DEF Probe
<1>31. CASE UNCHANGED vars
  BY <1>31 DEF vars
<1> HIDE DEF TypeOK, Exclusive, Ready, Stopper, ClockHasStopper
<1>32. ASSUME NEW t \in Clients, Step(t)
       PROVE  Stopper'
  BY <1>32, <1>1, <1>2, <1>3, <1>4, <1>5, <1>6, <1>7, <1>8, <1>9, <1>11, <1>12, <1>13
     DEF Step
<1>33. ASSUME (\E u \in Users : Call(u)) \/ PmInitSeq \/ PmIrqRegs \/ PmConfig
              \/ PmPowerDownSeq \/ PmPoll \/ PmPowerDown
       PROVE  Stopper'
  BY <1>14, <1>33, CallSteps
<1>34. CASE PmStep \/ PmChoice
  BY <1>34, <1>33, <1>18, <1>19, <1>20, <1>21, <1>22, <1>24, <1>25, <1>26, <1>27, <1>28, <1>29
     DEF PmStep, PmChoice
<1>35. CASE Common
  BY <1>35, <1>32, <1>33, <1>34, <1>15, <1>16, <1>17 DEF Common
<1> QED
  BY <1>35, <1>10, <1>23, <1>30, <1>31 DEF Next

\* Every step keeps a removed codec quiet.
LEMMA RemovalStep ==
  ASSUME TypeOK, Exclusive, Ready, Stopper, Removal, [Next]_vars
  PROVE  Removal'
<1> USE WhoIsWho DEF TypeOK, Exclusive, Ready, Stopper, Removal, RemovedIsQuiet
<1>1. ASSUME NEW t \in Clients, TestSuspended(t)
       PROVE  Removal'
  <2>1. CASE suspended[Chip(t)]
    BY <1>1, <2>1 DEF TestSuspended, GiveUp
  <2>2. CASE ~suspended[Chip(t)]
    BY <1>1, <2>2 DEF TestSuspended
  <2> QED BY <2>1, <2>2
<1>2. ASSUME NEW t \in Clients, Lock(t)
       PROVE  Removal'
  BY <1>2 DEF Lock
<1>3. ASSUME NEW t \in Clients, CancelWork(t)
       PROVE  Removal'
  BY <1>3 DEF CancelWork
<1>4. ASSUME NEW t \in Clients, EnableClock(t)
       PROVE  Removal'
  BY <1>4 DEF EnableClock
<1>5. ASSUME NEW t \in Clients, SetDevAddr(t)
       PROVE  Removal'
  BY <1>5 DEF SetDevAddr
<1>6. ASSUME NEW t \in Clients, SkipPage(t)
       PROVE  Removal'
  BY <1>6 DEF SkipPage, PageKnown
<1>7. ASSUME NEW t \in Clients, SetPage(t)
       PROVE  Removal'
  BY <1>7 DEF SetPage, PageKnown, WritePage, Addressed
<1>8. ASSUME NEW t \in Clients, PageSet(t)
       PROVE  Removal'
  BY <1>8 DEF PageSet
<1>9. ASSUME NEW t \in Clients, PageTimeout(t)
       PROVE  Removal'
  BY <1>9 DEF PageTimeout, PageKnown, GiveUp
<1>10. ASSUME NEW t \in Clients, PageLate(t)
       PROVE  Removal'
  BY <1>10 DEF PageLate, PageKnown, WritePage, Addressed, GiveUp
<1>11. ASSUME NEW t \in Clients, Transfer(t)
       PROVE  Removal'
  BY <1>11 DEF Transfer, WriteData, ReadData, Addressed
<1>12. ASSUME NEW t \in Clients, TransferTimeout(t)
       PROVE  Removal'
  BY <1>12 DEF TransferTimeout, WriteData, GiveUp, Addressed
<1>13. ASSUME NEW t \in Clients, Unlock(t)
       PROVE  Removal'
  BY <1>13 DEF Unlock
<1>14. ASSUME NEW t \in Clients, NEW c \in Chips, NEW w \in BOOLEAN,
              NEW s \in Seq(Access), s # <<>>, CallStep(t, c, w, s)
       PROVE  Removal'
  <2>1. CASE t \in Users /\ present /\ UNCHANGED pmVars
    BY <1>14, <2>1 DEF CallStep, Begin
  <2>2. CASE /\ t = Pm
             /\ pm \in {"init", "irq", "config", "pwr_down", "poll"}
             /\ pm' \in {"irq", "config", "poll", "mark"}
             /\ scodec' = scodec
             /\ present' \in {present, TRUE}
    <3>1. ~present' => ~present
      BY <2>2, Zenon
    <3>2. pc' = [pc EXCEPT ![Pm] = "test"] /\ UNCHANGED <<clock, work_pending, i2c_mux>>
      BY <1>14, <2>2 DEF CallStep, Begin
    <3> QED BY <2>2, <3>1, <3>2
  <2> QED BY <1>14, <2>1, <2>2 DEF CallStep
<1>15. CASE WorkFires
  BY <1>15 DEF WorkFires
<1>16. CASE WorkLock
  BY <1>16 DEF WorkLock
<1>17. CASE WorkDone
  BY <1>17 DEF WorkDone, DisableClock
<1>18. CASE PmResume
  BY <1>18 DEF PmResume, PmOnly
<1>19. CASE ReleaseReset
  BY <1>19 DEF ReleaseReset
<1>20. CASE ClearSuspended
  BY <1>20 DEF ClearSuspended
<1>21. CASE PmConfigDone
  BY <1>21 DEF PmConfigDone, PmOnly, NextChip, LastChip
<1>22. CASE PmSuspend
  BY <1>22 DEF PmSuspend, PmOnly
<1>23. CASE SuspendMark
  BY <1>23 DEF SuspendMark
<1>24. CASE AssertReset
  BY <1>24 DEF AssertReset, NextChip, LastChip
<1>25. CASE PmRemove
  BY <1>25 DEF PmRemove, PmOnly
<1>26. CASE CancelSync
  BY <1>26 DEF CancelSync
<1>27. CASE CancelSyncDone
  BY <1>27 DEF CancelSyncDone
<1>28. CASE ClockOffLock
  BY <1>28 DEF ClockOffLock
<1>29. CASE ClockOff
  BY <1>29 DEF ClockOff, DisableClock
<1>30. CASE Probe
  BY <1>30 DEF Probe
<1>31. CASE UNCHANGED vars
  BY <1>31 DEF vars
<1> HIDE DEF TypeOK, Exclusive, Ready, Stopper, Removal, RemovedIsQuiet
<1>32. ASSUME NEW t \in Clients, Step(t)
       PROVE  Removal'
  BY <1>32, <1>1, <1>2, <1>3, <1>4, <1>5, <1>6, <1>7, <1>8, <1>9, <1>11, <1>12, <1>13
     DEF Step
<1>33. ASSUME (\E u \in Users : Call(u)) \/ PmInitSeq \/ PmIrqRegs \/ PmConfig
              \/ PmPowerDownSeq \/ PmPoll \/ PmPowerDown
       PROVE  Removal'
  BY <1>14, <1>33, CallSteps
<1>34. CASE PmStep \/ PmChoice
  BY <1>34, <1>33, <1>18, <1>19, <1>20, <1>21, <1>22, <1>24, <1>25, <1>26, <1>27, <1>28, <1>29
     DEF PmStep, PmChoice
<1>35. CASE Common
  BY <1>35, <1>32, <1>33, <1>34, <1>15, <1>16, <1>17 DEF Common
<1> QED
  BY <1>35, <1>10, <1>23, <1>30, <1>31 DEF Next

-----------------------------------------------------------------------------
(* What holds of Spec.                                                     *)

Inv == TypeOK /\ Pending /\ Exclusive /\ Ready /\ Stopper /\ Removal

\* The initial state satisfies the inductive invariant.
LEMMA InvInit == Init => Inv
<1> SUFFICES ASSUME Init PROVE Inv
  OBVIOUS
<1>1. TypeOK
  BY TypeInit
<1>2. Pending
  BY DEF Init, Pending
<1>3. Exclusive
  BY WhoIsWho DEF Init, Exclusive, Holding
<1>4. Ready
  BY DEF Init, Ready
<1>5. Stopper
  BY DEF Init, Stopper, ClockHasStopper
<1>6. Removal
  BY WhoIsWho DEF Init, Removal, RemovedIsQuiet
<1> QED BY <1>1, <1>2, <1>3, <1>4, <1>5, <1>6 DEF Inv

\* Every step keeps the inductive invariant.
LEMMA InvStep == Inv /\ [Next]_vars => Inv'
BY TypeStep, PendingStep, ExclusiveStep, ReadyStep, StopperStep, RemovalStep DEF Inv

\* The inductive invariant holds in every reachable state.
LEMMA Invariance == Spec => []Inv
BY InvInit, InvStep, PTL DEF Spec

\* Every variable keeps its type, for any number of users, chips, pages and
\* values.
THEOREM TypeCorrect == Spec => []TypeOK
BY Invariance, PTL DEF Inv

\* No transfer meets a clock that is off or the address of another chip.
THEOREM TransfersReady == Spec => []TransferReady
<1>1. Inv => TransferReady
  BY DEF Inv, Ready, TransferReady
<1> QED BY <1>1, Invariance, PTL

\* A clock that is on always has someone to turn it off.
THEOREM ClockStopped == Spec => []ClockHasStopper
<1>1. Inv => ClockHasStopper
  BY DEF Inv, Stopper
<1> QED BY <1>1, Invariance, PTL

\* Nothing uses the freed cs8409_spec after cs8409_remove.
THEOREM RemovedStaysQuiet == Spec => []RemovedIsQuiet
<1>1. Inv => RemovedIsQuiet
  BY DEF Inv, Removal
<1> QED BY <1>1, Invariance, PTL

-----------------------------------------------------------------------------
(* The page cache, when nothing disturbs it.                               *)

\* Every quiet step keeps what is known of chips in and out of reset.
LEMMA PoweredStep ==
  ASSUME TypeOK, Pending, Exclusive, Ready, Powered, [QuietNext]_vars
  PROVE  Powered'
<1> USE Bounds, WhoIsWho DEF TypeOK, Exclusive, Holding, Ready, Powered, Inside, Chip
<1>1. ASSUME NEW t \in Clients, TestSuspended(t)
       PROVE  Powered'
  <2>1. CASE suspended[Chip(t)]
    <3>1. /\ pc' = [pc EXCEPT ![t] = "idle"]
          /\ request' = [request EXCEPT ![t].todo = <<>>]
          /\ UNCHANGED <<i2c_mux, pageVars, suspended, chipVars, pmVars>>
      BY <1>1, <2>1 DEF TestSuspended, GiveUp
    <3>2. \A x \in Clients : /\ request'[x].chip = request[x].chip
                             /\ x # t => pc'[x] = pc[x] /\ request'[x] = request[x]
      BY <3>1
    <3>3. pc'[t] = "idle" /\ pc[t] = "test"
      BY <1>1, <3>1 DEF TestSuspended
    <3> QED BY <3>1, <3>2, <3>3
  <2>2. CASE ~suspended[Chip(t)]
    BY <1>1, <2>2 DEF TestSuspended
  <2> QED BY <2>1, <2>2
<1>2. ASSUME NEW t \in Clients, Lock(t)
       PROVE  Powered'
  BY <1>2 DEF Lock
<1>3. ASSUME NEW t \in Clients, CancelWork(t)
       PROVE  Powered'
  BY <1>3 DEF CancelWork
<1>4. ASSUME NEW t \in Clients, EnableClock(t)
       PROVE  Powered'
  BY <1>4 DEF EnableClock
<1>5. ASSUME NEW t \in Clients, SetDevAddr(t)
       PROVE  Powered'
  BY <1>5 DEF SetDevAddr
<1>6. ASSUME NEW t \in Clients, SkipPage(t)
       PROVE  Powered'
  BY <1>6 DEF SkipPage, PageKnown
<1>7. ASSUME NEW t \in Clients, SetPage(t)
       PROVE  Powered'
  BY <1>7 DEF SetPage, PageKnown, WritePage, Addressed
<1>8. ASSUME NEW t \in Clients, PageSet(t)
       PROVE  Powered'
  BY <1>8 DEF PageSet
<1>9. ASSUME NEW t \in Clients, PageTimeout(t)
       PROVE  Powered'
  BY <1>9 DEF PageTimeout, PageKnown, GiveUp
<1>10. ASSUME NEW t \in Clients, Transfer(t)
       PROVE  Powered'
  BY <1>10 DEF Transfer, WriteData, ReadData, Addressed
<1>11. ASSUME NEW t \in Clients, TransferTimeout(t)
       PROVE  Powered'
  BY <1>11 DEF TransferTimeout, WriteData, GiveUp, Addressed
<1>12. ASSUME NEW t \in Clients, Unlock(t)
       PROVE  Powered'
  BY <1>12 DEF Unlock
<1>13. ASSUME NEW t \in Clients, NEW c \in Chips, NEW w \in BOOLEAN,
              NEW s \in Seq(Access), s # <<>>, CallStep(t, c, w, s)
       PROVE  Powered'
  <2>1. CASE t \in Users /\ present /\ UNCHANGED pmVars
    BY <1>13, <2>1 DEF CallStep, Begin
  <2>2. CASE /\ t = Pm
             /\ pm \in {"init", "irq", "config", "pwr_down", "poll"}
             /\ pm' \in {"irq", "config", "poll", "mark"}
             /\ scodec' = scodec
             /\ present' \in {present, TRUE}
    <3>1. /\ pc' = [pc EXCEPT ![t] = "test"]
          /\ UNCHANGED <<pageVars, suspended, chipVars>>
          /\ \A x \in Clients : x # t => request'[x] = request[x]
      BY <1>13 DEF CallStep, Begin
    <3> QED BY <2>2, <3>1
  <2> QED BY <1>13, <2>1, <2>2 DEF CallStep
<1>14. CASE WorkFires
  BY <1>14 DEF WorkFires
<1>15. CASE WorkLock
  BY <1>15 DEF WorkLock
<1>16. CASE WorkDone
  BY <1>16 DEF WorkDone, DisableClock
<1>17. CASE PmResume
  BY <1>17 DEF PmResume, PmOnly
<1>18. CASE ReleaseReset
  BY <1>18 DEF ReleaseReset
<1>19. CASE ClearSuspended
  BY <1>19 DEF ClearSuspended
<1>20. CASE PmConfigDone
  BY <1>20 DEF PmConfigDone, PmOnly, NextChip, LastChip
<1>21. CASE PmSuspend
  BY <1>21 DEF PmSuspend, PmOnly
<1>22. CASE SuspendMark /\ ~Straddles(scodec)
  BY <1>22 DEF SuspendMark, Straddles
<1>23. CASE AssertReset
  BY <1>23 DEF AssertReset, NextChip, LastChip
<1>24. CASE PmRemove
  BY <1>24 DEF PmRemove, PmOnly
<1>25. CASE CancelSync
  BY <1>25 DEF CancelSync
<1>26. CASE CancelSyncDone
  BY <1>26 DEF CancelSyncDone
<1>27. CASE ClockOffLock
  BY <1>27 DEF ClockOffLock
<1>28. CASE ClockOff
  BY <1>28 DEF ClockOff, DisableClock
<1>29. CASE Probe /\ \A c \in Chips : suspended[c]
  BY <1>29 DEF Probe
<1>30. CASE UNCHANGED vars
  BY <1>30 DEF vars
<1> HIDE DEF TypeOK, Pending, Exclusive, Ready, Powered, Inside, Chip
<1>31. ASSUME NEW t \in Clients, Step(t)
       PROVE  Powered'
  BY <1>31, <1>1, <1>2, <1>3, <1>4, <1>5, <1>6, <1>7, <1>8, <1>9, <1>10, <1>11, <1>12
     DEF Step
<1>32. ASSUME (\E u \in Users : Call(u)) \/ PmInitSeq \/ PmIrqRegs \/ PmConfig
              \/ PmPowerDownSeq \/ PmPoll \/ PmPowerDown
       PROVE  Powered'
  BY <1>13, <1>32, CallSteps
<1>33. CASE PmStep \/ PmChoice
  BY <1>33, <1>32, <1>17, <1>18, <1>19, <1>20, <1>21, <1>23, <1>24, <1>25, <1>26, <1>27, <1>28
     DEF PmStep, PmChoice
<1>34. CASE Common
  BY <1>34, <1>31, <1>32, <1>33, <1>14, <1>15, <1>16 DEF Common
<1> QED
  BY <1>34, <1>22, <1>29, <1>30 DEF QuietNext

\* Every quiet step keeps the page cache right.
LEMMA PagedStep ==
  ASSUME TypeOK, Pending, Exclusive, Ready, Powered, Paged, [QuietNext]_vars
  PROVE  Paged'
<1> USE Bounds, WhoIsWho DEF TypeOK, Exclusive, Holding, Ready, Powered, Paged, Inside, Chip, Page
<1>1. ASSUME NEW t \in Clients, TestSuspended(t)
       PROVE  Paged'
  <2>1. CASE suspended[Chip(t)]
    <3>1. /\ pc' = [pc EXCEPT ![t] = "idle"]
          /\ request' = [request EXCEPT ![t].todo = <<>>]
          /\ UNCHANGED <<i2c_mux, pageVars, suspended, chipVars, pmVars>>
      BY <1>1, <2>1 DEF TestSuspended, GiveUp
    <3>2. \A x \in Clients : /\ request'[x].chip = request[x].chip
                             /\ x # t => pc'[x] = pc[x] /\ request'[x] = request[x]
      BY <3>1
    <3>3. pc'[t] = "idle" /\ pc[t] = "test"
      BY <1>1, <3>1 DEF TestSuspended
    <3> QED BY <3>1, <3>2, <3>3
  <2>2. CASE ~suspended[Chip(t)]
    BY <1>1, <2>2 DEF TestSuspended
  <2> QED BY <2>1, <2>2
<1>2. ASSUME NEW t \in Clients, Lock(t)
       PROVE  Paged'
  BY <1>2 DEF Lock
<1>3. ASSUME NEW t \in Clients, CancelWork(t)
       PROVE  Paged'
  BY <1>3 DEF CancelWork
<1>4. ASSUME NEW t \in Clients, EnableClock(t)
       PROVE  Paged'
  BY <1>4 DEF EnableClock
<1>5. ASSUME NEW t \in Clients, SetDevAddr(t)
       PROVE  Paged'
  BY <1>5 DEF SetDevAddr
<1>6. ASSUME NEW t \in Clients, SkipPage(t)
       PROVE  Paged'
  <2>1. /\ pc[t] = "page" /\ pc' = [pc EXCEPT ![t] = "transfer"]
        /\ last_page[request[t].chip] = Head(request[t].todo).page
        /\ UNCHANGED <<i2c_mux, pageVars, suspended, chipVars, callVars, pmVars>>
    BY <1>6 DEF SkipPage, PageKnown
  <2>2. ~suspended[request[t].chip] /\ request[t].chip \in Chips
    BY <2>1
  <2>3. \A x \in Clients : pc[x] # "paged"
    BY <2>1
  <2>4. chip_page[request[t].chip] = last_page[request[t].chip]
    BY <2>2, <2>3
  <2> QED BY <2>1, <2>3, <2>4
<1>7. ASSUME NEW t \in Clients, SetPage(t)
       PROVE  Paged'
  BY <1>7 DEF SetPage, PageKnown, WritePage, Addressed
<1>8. ASSUME NEW t \in Clients, PageSet(t)
       PROVE  Paged'
  BY <1>8 DEF PageSet
<1>9. ASSUME NEW t \in Clients, PageTimeout(t)
       PROVE  Paged'
  BY <1>9 DEF PageTimeout, PageKnown, GiveUp
<1>10. ASSUME NEW t \in Clients, Transfer(t)
       PROVE  Paged'
  BY <1>10 DEF Transfer, WriteData, ReadData, Addressed
<1>11. ASSUME NEW t \in Clients, TransferTimeout(t)
       PROVE  Paged'
  BY <1>11 DEF TransferTimeout, WriteData, GiveUp, Addressed
<1>12. ASSUME NEW t \in Clients, Unlock(t)
       PROVE  Paged'
  BY <1>12 DEF Unlock
<1>13. ASSUME NEW t \in Clients, NEW c \in Chips, NEW w \in BOOLEAN,
              NEW s \in Seq(Access), s # <<>>, CallStep(t, c, w, s)
       PROVE  Paged'
  BY <1>13 DEF CallStep, Begin
<1>14. CASE WorkFires
  BY <1>14 DEF WorkFires
<1>15. CASE WorkLock
  BY <1>15 DEF WorkLock
<1>16. CASE WorkDone
  BY <1>16 DEF WorkDone, DisableClock
<1>17. CASE PmResume
  BY <1>17 DEF PmResume, PmOnly
<1>18. CASE ReleaseReset
  BY <1>18 DEF ReleaseReset
<1>19. CASE ClearSuspended
  BY <1>19 DEF ClearSuspended
<1>20. CASE PmConfigDone
  BY <1>20 DEF PmConfigDone, PmOnly, NextChip, LastChip
<1>21. CASE PmSuspend
  BY <1>21 DEF PmSuspend, PmOnly
<1>22. CASE SuspendMark /\ ~Straddles(scodec)
  BY <1>22 DEF SuspendMark, Straddles
<1>23. CASE AssertReset
  BY <1>23 DEF AssertReset, NextChip, LastChip
<1>24. CASE PmRemove
  BY <1>24 DEF PmRemove, PmOnly
<1>25. CASE CancelSync
  BY <1>25 DEF CancelSync
<1>26. CASE CancelSyncDone
  BY <1>26 DEF CancelSyncDone
<1>27. CASE ClockOffLock
  BY <1>27 DEF ClockOffLock
<1>28. CASE ClockOff
  BY <1>28 DEF ClockOff, DisableClock
<1>29. CASE Probe /\ \A c \in Chips : suspended[c]
  BY <1>29 DEF Probe
<1>30. CASE UNCHANGED vars
  BY <1>30 DEF vars
<1> HIDE DEF TypeOK, Pending, Exclusive, Ready, Powered, Paged, Inside, Chip, Page
<1>31. ASSUME NEW t \in Clients, Step(t)
       PROVE  Paged'
  BY <1>31, <1>1, <1>2, <1>3, <1>4, <1>5, <1>6, <1>7, <1>8, <1>9, <1>10, <1>11, <1>12
     DEF Step
<1>32. ASSUME (\E u \in Users : Call(u)) \/ PmInitSeq \/ PmIrqRegs \/ PmConfig
              \/ PmPowerDownSeq \/ PmPoll \/ PmPowerDown
       PROVE  Paged'
  BY <1>13, <1>32, CallSteps
<1>33. CASE PmStep \/ PmChoice
  BY <1>33, <1>32, <1>17, <1>18, <1>19, <1>20, <1>21, <1>23, <1>24, <1>25, <1>26, <1>27, <1>28
     DEF PmStep, PmChoice
<1>34. CASE Common
  BY <1>34, <1>31, <1>32, <1>33, <1>14, <1>15, <1>16 DEF Common
<1> QED
  BY <1>34, <1>22, <1>29, <1>30 DEF QuietNext

QuietInv == Inv /\ Powered /\ Paged

\* The initial state satisfies the invariant of quiet behaviours.
LEMMA QuietInvInit == Init => QuietInv
<1> SUFFICES ASSUME Init PROVE QuietInv
  OBVIOUS
<1>1. Inv
  BY InvInit
<1>2. Powered
  BY DEF Init, Powered, Inside
<1>3. Paged
  BY WhoIsWho DEF Init, Paged
<1> QED BY <1>1, <1>2, <1>3 DEF QuietInv

\* Every quiet step keeps it.
LEMMA QuietInvStep == QuietInv /\ [QuietNext]_vars => QuietInv'
<1>1. [QuietNext]_vars => [Next]_vars
  BY DEF QuietNext, Next
<1> QED BY <1>1, InvStep, PoweredStep, PagedStep DEF QuietInv, Inv

\* It holds in every state of a quiet behaviour.
LEMMA QuietInvariance == QuietSpec => []QuietInv
BY QuietInvInit, QuietInvStep, PTL DEF QuietSpec

\* Undisturbed, every transfer meets the page that its address names.
THEOREM PageIsRight == QuietSpec => []RightPage
<1>1. QuietInv => RightPage
  BY DEF QuietInv, Paged, RightPage
<1> QED BY <1>1, QuietInvariance, PTL

-----------------------------------------------------------------------------
(* The refinement.                                                         *)

\* The initial state is one of RegisterFile.
LEMMA RefinesInit == Init => Registers!Init
<1> SUFFICES ASSUME Init PROVE Registers!Init
  OBVIOUS
<1>1. <<>> \in Seq(Registers!Access)
  BY EmptySeq
<1>2. request \in [Clients -> Registers!Request]
  BY <1>1, Bounds DEF Init, Registers!Request
<1> QED BY <1>2 DEF Init, Registers!Init, Registers!Served, Registers!BlankRegs, BlankRegs

\* A step that gives up maps to a failure.
LEMMA GiveUpRefines ==
  ASSUME Pending, NEW t \in Clients, pc[t] \notin {"idle", "unlock"}, GiveUp(t),
         reset' = reset, UNCHANGED regs \/ Registers!Store(t)
  PROVE  Registers!Fail(t)
BY DEF Pending, GiveUp, Registers!Fail, Registers!Served

\* At a transfer the chip and the register are those of the request.
LEMMA StoreRefines ==
  ASSUME QuietInv, NEW t \in Clients, pc[t] = "transfer", WriteData(t)
  PROVE  Registers!Store(t)
<1>1. hw_addr = request[t].chip
  BY DEF QuietInv, Inv, Ready, Chip
<1>2. chip_page[request[t].chip] = Head(request[t].todo).page
  BY DEF QuietInv, Paged, Chip, Page
<1>3. Page(t) \in Pages
  BY Entries DEF QuietInv, Inv
<1> QED BY <1>1, <1>2, <1>3 DEF WriteData, Reachable, Page, Registers!Store

\* What a transfer reads is what the register of the request holds.
LEMMA AnswerRefines ==
  ASSUME QuietInv, NEW t \in Clients, pc[t] = "transfer", ReadData(t)
  PROVE  Registers!Answer(t)
<1>1. hw_addr = request[t].chip
  BY DEF QuietInv, Inv, Ready, Chip
<1>2. chip_page[request[t].chip] = Head(request[t].todo).page
  BY DEF QuietInv, Paged, Chip, Page
<1>3. Page(t) \in Pages
  BY Entries DEF QuietInv, Inv
<1> QED BY <1>1, <1>2, <1>3 DEF ReadData, Reachable, Page, Registers!Answer

\* Every quiet step is one of RegisterFile, or changes nothing in it.
LEMMA RefinesStep ==
  ASSUME QuietInv, [QuietNext]_vars
  PROVE  [Registers!Next]_(Registers!vars)
<1>1. ASSUME NEW t \in Clients, TestSuspended(t)
       PROVE  [Registers!Next]_(Registers!vars)
  <2>1. CASE suspended[Chip(t)]
    BY <1>1, <2>1, GiveUpRefines DEF TestSuspended, QuietInv, Inv, Registers!Next
  <2>2. CASE ~suspended[Chip(t)]
    BY <1>1, <2>2 DEF TestSuspended, Registers!vars
  <2> QED BY <2>1, <2>2
<1>2. ASSUME NEW t \in Clients, Lock(t)
       PROVE  [Registers!Next]_(Registers!vars)
  BY <1>2 DEF Lock, Registers!vars
<1>3. ASSUME NEW t \in Clients, CancelWork(t)
       PROVE  [Registers!Next]_(Registers!vars)
  BY <1>3 DEF CancelWork, Registers!vars
<1>4. ASSUME NEW t \in Clients, EnableClock(t)
       PROVE  [Registers!Next]_(Registers!vars)
  BY <1>4 DEF EnableClock, Registers!vars
<1>5. ASSUME NEW t \in Clients, SetDevAddr(t)
       PROVE  [Registers!Next]_(Registers!vars)
  BY <1>5 DEF SetDevAddr, Registers!vars
<1>6. ASSUME NEW t \in Clients, SkipPage(t)
       PROVE  [Registers!Next]_(Registers!vars)
  BY <1>6 DEF SkipPage, Registers!vars
<1>7. ASSUME NEW t \in Clients, SetPage(t)
       PROVE  [Registers!Next]_(Registers!vars)
  BY <1>7 DEF SetPage, Registers!vars
<1>8. ASSUME NEW t \in Clients, PageSet(t)
       PROVE  [Registers!Next]_(Registers!vars)
  BY <1>8 DEF PageSet, Registers!vars
<1>9. ASSUME NEW t \in Clients, PageTimeout(t)
       PROVE  [Registers!Next]_(Registers!vars)
  BY <1>9, GiveUpRefines DEF PageTimeout, QuietInv, Inv, Registers!Next
<1>10. ASSUME NEW t \in Clients, Transfer(t)
       PROVE  [Registers!Next]_(Registers!vars)
  <2>1. Registers!Store(t) /\ Registers!Answer(t)
    BY <1>10, StoreRefines, AnswerRefines DEF Transfer
  <2>2. ~Registers!Served(t)
    BY <1>10 DEF Transfer, QuietInv, Inv, Pending, Registers!Served
  <2>3. Registers!Perform(t)
    BY <1>10, <2>1, <2>2 DEF Transfer, Registers!Perform
  <2> QED BY <2>3 DEF Registers!Next
<1>11. ASSUME NEW t \in Clients, TransferTimeout(t)
       PROVE  [Registers!Next]_(Registers!vars)
  BY <1>11, GiveUpRefines, StoreRefines DEF TransferTimeout, QuietInv, Inv, Registers!Next
<1>12. ASSUME NEW t \in Clients, Unlock(t)
       PROVE  [Registers!Next]_(Registers!vars)
  BY <1>12 DEF Unlock, Registers!vars
<1>13. ASSUME NEW t \in Clients, NEW c \in Chips, NEW w \in BOOLEAN,
              NEW s \in Seq(Access), s # <<>>, CallStep(t, c, w, s)
       PROVE  [Registers!Next]_(Registers!vars)
  <2>1. Registers!Served(t)
    BY <1>13 DEF CallStep, Begin, QuietInv, Inv, Pending, Registers!Served
  <2>2. request' = [request EXCEPT ![t] = [chip |-> c, write |-> w, todo |-> s]]
    BY <1>13 DEF CallStep, Begin
  <2>3. [chip |-> c, write |-> w, todo |-> s] \in Registers!Request
    BY DEF Registers!Request, Registers!Access, Access
  <2>4. request'[t] = [chip |-> c, write |-> w, todo |-> s]
    BY <2>2 DEF QuietInv, Inv, TypeOK
  <2>5. Registers!Call(t)
    BY <1>13, <2>1, <2>2, <2>3, <2>4 DEF CallStep, Begin, Registers!Call
  <2> QED BY <2>5 DEF Registers!Next
<1>14. CASE WorkFires
  BY <1>14 DEF WorkFires, Registers!vars
<1>15. CASE WorkLock
  BY <1>15 DEF WorkLock, Registers!vars
<1>16. CASE WorkDone
  BY <1>16 DEF WorkDone, Registers!vars
<1>17. CASE PmResume
  BY <1>17 DEF PmResume, PmOnly, Registers!vars
<1>18. CASE ReleaseReset
  <2>1. scodec \in Chips /\ reset' = [reset EXCEPT ![scodec] = FALSE]
        /\ UNCHANGED <<regs, request, got>>
    BY <1>18 DEF ReleaseReset, QuietInv, Inv, TypeOK
  <2>2. CASE reset[scodec]
    BY <2>1, <2>2 DEF Registers!Release, Registers!Next
  <2>3. CASE ~reset[scodec]
    <3>1. reset' = reset
      BY <2>1, <2>3 DEF QuietInv, Inv, TypeOK
    <3> QED BY <2>1, <3>1 DEF Registers!vars
  <2> QED BY <2>2, <2>3
<1>19. CASE ClearSuspended
  BY <1>19 DEF ClearSuspended, Registers!vars
<1>20. CASE PmConfigDone
  BY <1>20 DEF PmConfigDone, PmOnly, Registers!vars
<1>21. CASE PmSuspend
  BY <1>21 DEF PmSuspend, PmOnly, Registers!vars
<1>22. CASE SuspendMark /\ ~Straddles(scodec)
  BY <1>22 DEF SuspendMark, Registers!vars
<1>23. CASE AssertReset
  <2>1. scodec \in Chips /\ reset' = [reset EXCEPT ![scodec] = TRUE]
        /\ regs' = [regs EXCEPT ![scodec] = BlankRegs] /\ UNCHANGED <<request, got>>
    BY <1>23 DEF AssertReset, QuietInv, Inv, TypeOK
  <2>2. CASE ~reset[scodec]
    BY <2>1, <2>2 DEF Registers!Reset, Registers!Next, Registers!BlankRegs, BlankRegs
  <2>3. CASE reset[scodec]
    <3>1. reset' = reset /\ regs' = regs
      BY <2>1, <2>3 DEF QuietInv, Inv, TypeOK, Powered
    <3> QED BY <2>1, <3>1 DEF Registers!vars
  <2> QED BY <2>2, <2>3
<1>24. CASE PmRemove
  BY <1>24 DEF PmRemove, PmOnly, Registers!vars
<1>25. CASE CancelSync
  BY <1>25 DEF CancelSync, Registers!vars
<1>26. CASE CancelSyncDone
  BY <1>26 DEF CancelSyncDone, Registers!vars
<1>27. CASE ClockOffLock
  BY <1>27 DEF ClockOffLock, Registers!vars
<1>28. CASE ClockOff
  BY <1>28 DEF ClockOff, Registers!vars
<1>29. CASE Probe /\ \A c \in Chips : suspended[c]
  <2>1. \A c \in Chips : reset[c] /\ regs[c] = BlankRegs
    BY <1>29 DEF Probe, QuietInv, Powered
  <2>2. reset' = reset /\ regs' = regs
    BY <1>29, <2>1 DEF Probe, QuietInv, Inv, TypeOK
  <2> QED BY <1>29, <2>2 DEF Probe, Registers!vars
<1>30. CASE UNCHANGED vars
  BY <1>30 DEF vars, Registers!vars
<1>31. ASSUME NEW t \in Clients, Step(t)
       PROVE  [Registers!Next]_(Registers!vars)
  BY <1>31, <1>1, <1>2, <1>3, <1>4, <1>5, <1>6, <1>7, <1>8, <1>9, <1>10, <1>11, <1>12
     DEF Step
<1>32. ASSUME (\E u \in Users : Call(u)) \/ PmInitSeq \/ PmIrqRegs \/ PmConfig
              \/ PmPowerDownSeq \/ PmPoll \/ PmPowerDown
       PROVE  [Registers!Next]_(Registers!vars)
  BY <1>13, <1>32, CallSteps DEF QuietInv, Inv
<1>33. CASE PmStep \/ PmChoice
  BY <1>33, <1>32, <1>17, <1>18, <1>19, <1>20, <1>21, <1>23, <1>24, <1>25, <1>26, <1>27, <1>28
     DEF PmStep, PmChoice
<1>34. CASE Common
  BY <1>34, <1>31, <1>32, <1>33, <1>14, <1>15, <1>16 DEF Common
<1> QED
  BY <1>34, <1>22, <1>29, <1>30 DEF QuietNext

\* Undisturbed, the transfer functions implement atomic registers: mutex, clock
\* and caches are invisible to their callers.
THEOREM TransfersRefine == QuietSpec => Refines
<1>1. QuietInv /\ [QuietNext]_vars => [Registers!Next]_(Registers!vars)
  BY RefinesStep
<1> QED BY <1>1, RefinesInit, QuietInvariance, PTL DEF QuietSpec, Refines, Registers!Spec
=============================================================================
