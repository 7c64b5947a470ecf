----------------------------- MODULE Cs8409I2c -----------------------------
(***************************************************************************)
(* The i2c transfers of the CS8409 driver (cs8409.c) to its headset chips: *)
(* the mutex, the clock and the delayed work that turns it off, the cached *)
(* device address and register page, suspend, resume and removal.          *)
(*                                                                         *)
(* Threads: Users call the transfer functions (jack handler, volume        *)
(* control, PCM hooks), Pm resumes, suspends and removes the codec, Worker *)
(* runs i2c_clk_work.  A step is one access to what the threads share.     *)
(***************************************************************************)
EXTENDS Naturals, Sequences

CONSTANTS Users, Pm, Worker,   \* threads
          NoOne,               \* nobody holds the mutex
          NumChips,            \* num_scodecs
          NumPages,            \* register pages of a chip, one register each
          Values, Blank,       \* contents of a register, the one after a reset
          Nothing, Failed,     \* no answer yet, a negative return code
          MaxBulk              \* bound: accesses of a user's bulk request

Chips == 0 .. NumChips - 1
Pages == 1 .. NumPages
ResetPage == 0                 \* after a reset; the driver uses no register of it
Clients == Users \cup {Pm}
NoChip == NumChips             \* dev_addr before the first transfer

ASSUME ThreadAssumption ==
    /\ Pm \notin Users
    /\ Worker \notin Clients
    /\ NoOne \notin Clients \cup {Worker}
ASSUME ChipAssumption == NumChips \in Nat \ {0} /\ NumPages \in Nat \ {0}
ASSUME ValueAssumption ==
    Blank \in Values /\ Nothing \notin Values /\ Failed \notin Values /\ Nothing # Failed
ASSUME BulkAssumption == MaxBulk \in Nat \ {0}

VARIABLES
    i2c_mux,            \* the holder of the mutex, or NoOne
    i2c_clck_enabled,   \* the driver's idea of the clock
    clock,              \* bit 3 of coefficient 0: the clock itself
    work_pending,       \* i2c_clk_work is queued
    canceling,          \* cancel_delayed_work_sync is waiting
    dev_addr,           \* cached address: the chip last addressed
    hw_addr,            \* the address coefficient
    last_page,          \* cached page, by chip
    chip_page,          \* the chip's page register
    suspended,          \* by chip
    regs, reset,        \* the chips, as in RegisterFile
    request, got,       \* the calls, as in RegisterFile
    bulk,               \* by thread: the request is a bulk one
    pc,                 \* by thread: where it is in a transfer
    pm, scodec,         \* where Pm is, and the chip it is at
    present             \* users may call: initialised and not removed

vars == <<i2c_mux, i2c_clck_enabled, clock, work_pending, canceling,
          dev_addr, hw_addr, last_page, chip_page, suspended,
          regs, reset, request, got, bulk, pc, pm, scodec, present>>

clockVars == <<i2c_clck_enabled, clock, work_pending, canceling>>
addrVars == <<dev_addr, hw_addr>>
pageVars == <<last_page, chip_page>>
chipVars == <<regs, reset>>
callVars == <<request, got, bulk>>
pmVars == <<pm, scodec, present>>

Access == [page : Pages, value : Values]

\* Requests of n accesses; the values of a read mean nothing.
Todo(n, write) ==
    {s \in [1 .. n -> Access] : write \/ \A i \in 1 .. n : s[i].value = Blank}

Single(write) == Todo(1, write)
Bulk(write) == UNION {Todo(n, write) : n \in 2 .. MaxBulk}
BlankRegs == [p \in Pages |-> Blank]

Init ==
    /\ i2c_mux = NoOne
    /\ i2c_clck_enabled = FALSE
    /\ clock = FALSE
    /\ work_pending = FALSE
    /\ canceling = FALSE
    /\ dev_addr = NoChip
    /\ hw_addr = NoChip
    /\ last_page = [c \in Chips |-> ResetPage]
    /\ chip_page = [c \in Chips |-> ResetPage]
    /\ suspended = [c \in Chips |-> TRUE]
    /\ regs = [c \in Chips |-> BlankRegs]
    /\ reset = [c \in Chips |-> TRUE]
    /\ request = [t \in Clients |-> [chip |-> 0, write |-> FALSE, todo |-> <<>>]]
    /\ got = [t \in Clients |-> Nothing]
    /\ bulk = [t \in Clients |-> FALSE]
    /\ pc = [t \in Clients \cup {Worker} |-> "idle"]
    /\ pm = "asleep"
    /\ scodec = 0
    /\ present = FALSE

-----------------------------------------------------------------------------
(* A transfer.  Client t runs from "test" to "idle".                       *)

Goto(t, place) == pc' = [pc EXCEPT ![t] = place]

Chip(t) == request[t].chip
Page(t) == Head(request[t].todo).page

Begin(t, c, write, todo) ==
    /\ pc[t] = "idle"
    /\ request' = [request EXCEPT ![t] = [chip |-> c, write |-> write, todo |-> todo]]
    /\ got' = [got EXCEPT ![t] = Nothing]
    /\ bulk' = [bulk EXCEPT ![t] = Len(todo) > 1]
    /\ Goto(t, "test")
    /\ UNCHANGED <<i2c_mux, clockVars, addrVars, pageVars, suspended, chipVars>>

\* What is left of t's request is given up with a negative code.
GiveUp(t) ==
    /\ request' = [request EXCEPT ![t].todo = <<>>]
    /\ got' = [got EXCEPT ![t] = Failed]
    /\ UNCHANGED bulk

\* The test of suspended, made before the mutex is taken.
TestSuspended(t) ==
    /\ pc[t] = "test"
    /\ IF suspended[Chip(t)]
       THEN GiveUp(t) /\ Goto(t, "idle")
       ELSE UNCHANGED callVars /\ Goto(t, "lock")
    /\ UNCHANGED <<i2c_mux, clockVars, addrVars, pageVars, suspended, chipVars, pmVars>>

Lock(t) ==
    /\ pc[t] = "lock"
    /\ i2c_mux = NoOne
    /\ i2c_mux' = t
    /\ Goto(t, IF bulk[t] THEN "addr" ELSE "cancel")
    /\ UNCHANGED <<clockVars, addrVars, pageVars, suspended, chipVars, callVars, pmVars>>

\* Mutation: waits for a running worker, by trying again until it is done.
BugCancelWork(t) ==
    /\ pc[t] = "cancel"
    /\ IF pc[Worker] = "idle"
       THEN work_pending' = FALSE /\ Goto(t, "clock")
       ELSE UNCHANGED <<work_pending, pc>>
    /\ UNCHANGED <<i2c_mux, i2c_clck_enabled, clock, canceling, addrVars, pageVars,
                   suspended, chipVars, callVars, pmVars>>

\* cancel_delayed_work: without waiting for a running worker.
CancelWork(t) ==
    /\ pc[t] = "cancel"
    /\ work_pending' = FALSE
    /\ Goto(t, "clock")
    /\ UNCHANGED <<i2c_mux, i2c_clck_enabled, clock, canceling, addrVars, pageVars,
                   suspended, chipVars, callVars, pmVars>>

\* Mutation: the work is queued only if the clock had to be turned on.
BugEnableClock(t) ==
    /\ pc[t] = "clock"
    /\ clock' = (clock \/ ~i2c_clck_enabled)
    /\ i2c_clck_enabled' = TRUE
    /\ work_pending' = (~i2c_clck_enabled /\ ~canceling)
    /\ Goto(t, IF bulk[t] THEN "page" ELSE "addr")
    /\ UNCHANGED <<i2c_mux, canceling, addrVars, pageVars, suspended, chipVars,
                   callVars, pmVars>>

\* Work that is being cancelled cannot be queued.
EnableClock(t) ==
    /\ pc[t] = "clock"
    /\ clock' = (clock \/ ~i2c_clck_enabled)
    /\ i2c_clck_enabled' = TRUE
    /\ work_pending' = ~canceling
    /\ Goto(t, IF bulk[t] THEN "page" ELSE "addr")
    /\ UNCHANGED <<i2c_mux, canceling, addrVars, pageVars, suspended, chipVars,
                   callVars, pmVars>>

SetDevAddr(t) ==
    /\ pc[t] = "addr"
    /\ hw_addr' = IF dev_addr # Chip(t) THEN Chip(t) ELSE hw_addr
    /\ dev_addr' = Chip(t)
    /\ Goto(t, IF bulk[t] THEN "cancel" ELSE "page")
    /\ UNCHANGED <<i2c_mux, clockVars, pageVars, suspended, chipVars, callVars, pmVars>>

PageKnown(t) == last_page[Chip(t)] = Page(t)

\* A chip answers that is addressed and clocked.
Addressed == clock /\ hw_addr \in Chips

WritePage(t) == chip_page' =
    IF reset[hw_addr] THEN chip_page ELSE [chip_page EXCEPT ![hw_addr] = Page(t)]

SkipPage(t) ==
    /\ pc[t] = "page"
    /\ PageKnown(t)
    /\ Goto(t, "transfer")
    /\ UNCHANGED <<i2c_mux, clockVars, addrVars, pageVars, suspended, chipVars,
                   callVars, pmVars>>

SetPage(t) ==
    /\ pc[t] = "page"
    /\ ~PageKnown(t)
    /\ Addressed
    /\ WritePage(t)
    /\ Goto(t, "paged")
    /\ UNCHANGED <<i2c_mux, clockVars, addrVars, last_page, suspended, chipVars,
                   callVars, pmVars>>

PageSet(t) ==
    /\ pc[t] = "paged"
    /\ last_page' = [last_page EXCEPT ![Chip(t)] = Page(t)]
    /\ Goto(t, "transfer")
    /\ UNCHANGED <<i2c_mux, clockVars, addrVars, chip_page, suspended, chipVars,
                   callVars, pmVars>>

\* Mutation: the page is cached before the wait.
BugPageTimeout(t) ==
    /\ pc[t] = "page"
    /\ ~PageKnown(t)
    /\ last_page' = [last_page EXCEPT ![Chip(t)] = Page(t)]
    /\ GiveUp(t)
    /\ Goto(t, "unlock")
    /\ UNCHANGED <<i2c_mux, clockVars, addrVars, chip_page, suspended, chipVars, pmVars>>

\* The wait for the page write times out; the chip has not seen the write ...
PageTimeout(t) ==
    /\ pc[t] = "page"
    /\ ~PageKnown(t)
    /\ GiveUp(t)
    /\ Goto(t, "unlock")
    /\ UNCHANGED <<i2c_mux, clockVars, addrVars, pageVars, suspended, chipVars, pmVars>>

\* ... or has taken it too late.
PageLate(t) ==
    /\ pc[t] = "page"
    /\ ~PageKnown(t)
    /\ Addressed
    /\ WritePage(t)
    /\ GiveUp(t)
    /\ Goto(t, "unlock")
    /\ UNCHANGED <<i2c_mux, clockVars, addrVars, last_page, suspended, chipVars, pmVars>>

\* The chip is out of reset and at a page with registers.
Reachable == ~reset[hw_addr] /\ chip_page[hw_addr] \in Pages

\* What the addressed chip does with the data of a write: the register is
\* that of the page the chip is at.
WriteData(t) ==
    regs' = IF request[t].write /\ Reachable
            THEN [regs EXCEPT ![hw_addr][chip_page[hw_addr]] = Head(request[t].todo).value]
            ELSE regs

\* A chip in reset, or at a page without registers, answers anything.
ReadData(t) ==
    IF request[t].write
    THEN UNCHANGED got
    ELSE \E v \in Values :
            /\ Reachable => v = regs[hw_addr][chip_page[hw_addr]]
            /\ got' = [got EXCEPT ![t] = v]

Transfer(t) ==
    /\ pc[t] = "transfer"
    /\ Addressed
    /\ WriteData(t)
    /\ ReadData(t)
    /\ request' = [request EXCEPT ![t].todo = Tail(@)]
    /\ Goto(t, IF Len(request[t].todo) > 1 THEN "cancel" ELSE "unlock")
    /\ UNCHANGED <<i2c_mux, clockVars, addrVars, pageVars, suspended, reset, bulk, pmVars>>

TransferTimeout(t) ==
    /\ pc[t] = "transfer"
    /\ UNCHANGED regs \/ (Addressed /\ WriteData(t))
    /\ GiveUp(t)
    /\ Goto(t, "unlock")
    /\ UNCHANGED <<i2c_mux, clockVars, addrVars, pageVars, suspended, reset, pmVars>>

Unlock(t) ==
    /\ pc[t] = "unlock"
    /\ i2c_mux' = NoOne
    /\ Goto(t, "idle")
    /\ UNCHANGED <<clockVars, addrVars, pageVars, suspended, chipVars, callVars, pmVars>>

\* A step of a transfer under way.
Step(t) ==
    \/ TestSuspended(t) \/ Lock(t) \/ CancelWork(t) \/ EnableClock(t) \/ SetDevAddr(t)
    \/ SkipPage(t) \/ SetPage(t) \/ PageSet(t) \/ PageTimeout(t)
    \/ Transfer(t) \/ TransferTimeout(t) \/ Unlock(t)

Call(u) ==
    /\ present
    /\ \E c \in Chips, w \in BOOLEAN :
          \E todo \in Single(w) \cup Bulk(w) : Begin(u, c, w, todo)
    /\ UNCHANGED pmVars

-----------------------------------------------------------------------------
(* The delayed work.                                                       *)

\* The 25 ms are over.
WorkFires ==
    /\ work_pending
    /\ pc[Worker] = "idle"
    /\ work_pending' = FALSE
    /\ Goto(Worker, "lock")
    /\ UNCHANGED <<i2c_mux, i2c_clck_enabled, clock, canceling, addrVars, pageVars,
                   suspended, chipVars, callVars, pmVars>>

\* Mutation: the worker does not take the mutex.
BugWorkLock ==
    /\ pc[Worker] = "lock"
    /\ Goto(Worker, "unlock")
    /\ UNCHANGED <<i2c_mux, clockVars, addrVars, pageVars, suspended, chipVars,
                   callVars, pmVars>>

WorkLock ==
    /\ pc[Worker] = "lock"
    /\ i2c_mux = NoOne
    /\ i2c_mux' = Worker
    /\ Goto(Worker, "unlock")
    /\ UNCHANGED <<clockVars, addrVars, pageVars, suspended, chipVars, callVars, pmVars>>

DisableClock ==
    /\ clock' = (clock /\ ~i2c_clck_enabled)
    /\ i2c_clck_enabled' = FALSE
    /\ i2c_mux' = NoOne
    /\ UNCHANGED <<work_pending, canceling>>

WorkDone ==
    /\ pc[Worker] = "unlock"
    /\ DisableClock
    /\ Goto(Worker, "idle")
    /\ UNCHANGED <<addrVars, pageVars, suspended, chipVars, callVars, pmVars>>

-----------------------------------------------------------------------------
(* Resume, suspend and removal.                                            *)

PmGoto(place) == pm' = place /\ UNCHANGED <<scodec, present>>

\* Pm is between two calls.
PmAt(place) == pm = place /\ pc[Pm] = "idle"

PmOnly == UNCHANGED <<i2c_mux, clockVars, addrVars, pageVars, suspended, chipVars,
                      callVars, pc>>

PmCallSingle(c, write) == \E todo \in Single(write) : Begin(Pm, c, write, todo)
PmCallBulk(write) == \E todo \in Bulk(write) : Begin(Pm, scodec, write, todo)

LastChip == scodec = NumChips - 1

\* Mutation: the index runs past the last chip.
BugNextChip(after, again) ==
    /\ pm' = IF LastChip THEN after ELSE again
    /\ scodec' = scodec + 1
    /\ UNCHANGED present

NextChip(after, again) ==
    /\ pm' = IF LastChip THEN after ELSE again
    /\ scodec' = IF LastChip THEN scodec ELSE scodec + 1
    /\ UNCHANGED present

\* cs8409_cs42l42_hw_init begins, and cs42l42_resume for each chip.
PmResume ==
    /\ PmAt("asleep")
    /\ pm' = "release"
    /\ scodec' = 0
    /\ UNCHANGED present
    /\ PmOnly

ReleaseReset ==
    /\ PmAt("release")
    /\ reset' = [reset EXCEPT ![scodec] = FALSE]
    /\ PmGoto("clear")
    /\ UNCHANGED <<i2c_mux, clockVars, addrVars, pageVars, suspended, regs, callVars, pc>>

ClearSuspended ==
    /\ PmAt("clear")
    /\ suspended' = [suspended EXCEPT ![scodec] = FALSE]
    /\ PmGoto("init")
    /\ UNCHANGED <<i2c_mux, clockVars, addrVars, pageVars, chipVars, callVars, pc>>

PmInitSeq ==
    /\ PmAt("init")
    /\ PmCallBulk(TRUE)
    /\ PmGoto("irq")

PmIrqRegs ==
    /\ PmAt("irq")
    /\ PmCallBulk(FALSE)
    /\ pm' = "config"
    /\ present' = (present \/ LastChip)
    /\ UNCHANGED scodec

\* The single accesses of cs42l42_resume, cs42l42_enable_jack_detect and, for
\* each chip resumed, cs42l42_run_jack_detect.
PmConfig ==
    /\ PmAt("config")
    /\ \E c \in 0 .. scodec, w \in BOOLEAN : PmCallSingle(c, w)
    /\ PmGoto("config")

PmConfigDone ==
    /\ PmAt("config")
    /\ NextChip("awake", "release")
    /\ PmOnly

PmSuspend ==
    /\ PmAt("awake")
    /\ pm' = "pwr_down"
    /\ scodec' = 0
    /\ UNCHANGED present
    /\ PmOnly

PmPowerDownSeq ==
    /\ PmAt("pwr_down")
    /\ PmCallBulk(TRUE)
    /\ PmGoto("poll")

\* Polls for PDN_DONE until it is seen or its time is over.
PmPoll ==
    /\ PmAt("poll")
    /\ PmCallSingle(scodec, FALSE)
    /\ PmGoto("poll")

PmPowerDown ==
    /\ PmAt("poll")
    /\ PmCallSingle(scodec, TRUE)
    /\ PmGoto("mark")

\* Mutation: the page cache is not cleared.
BugSuspendMark ==
    /\ PmAt("mark")
    /\ suspended' = [suspended EXCEPT ![scodec] = TRUE]
    /\ PmGoto("reset")
    /\ UNCHANGED <<i2c_mux, clockVars, addrVars, pageVars, chipVars, callVars, pc>>

\* Without the mutex.
SuspendMark ==
    /\ PmAt("mark")
    /\ suspended' = [suspended EXCEPT ![scodec] = TRUE]
    /\ last_page' = [last_page EXCEPT ![scodec] = ResetPage]
    /\ PmGoto("reset")
    /\ UNCHANGED <<i2c_mux, clockVars, addrVars, chip_page, chipVars, callVars, pc>>

AssertReset ==
    /\ PmAt("reset")
    /\ reset' = [reset EXCEPT ![scodec] = TRUE]
    /\ regs' = [regs EXCEPT ![scodec] = BlankRegs]
    /\ chip_page' = [chip_page EXCEPT ![scodec] = ResetPage]
    /\ NextChip("cancel", "pwr_down")
    /\ UNCHANGED <<i2c_mux, clockVars, addrVars, last_page, suspended, callVars, pc>>

\* cs8409_remove: the users are gone.
PmRemove ==
    /\ PmAt("awake") \/ PmAt("asleep")
    /\ \A u \in Users : pc[u] = "idle"
    /\ pm' = "cancel"
    /\ present' = FALSE
    /\ UNCHANGED scodec
    /\ PmOnly

\* cancel_delayed_work_sync: takes the work off the queue, then waits for it.
CancelSync ==
    /\ PmAt("cancel")
    /\ work_pending' = FALSE
    /\ canceling' = TRUE
    /\ PmGoto("cancelled")
    /\ UNCHANGED <<i2c_mux, i2c_clck_enabled, clock, addrVars, pageVars, suspended,
                   chipVars, callVars, pc>>

\* Mutation: cancel_delayed_work, which does not wait.
BugCancelSyncDone ==
    /\ PmAt("cancelled")
    /\ canceling' = FALSE
    /\ PmGoto("clock_off")
    /\ UNCHANGED <<i2c_mux, i2c_clck_enabled, clock, work_pending, addrVars, pageVars,
                   suspended, chipVars, callVars, pc>>

CancelSyncDone ==
    /\ PmAt("cancelled")
    /\ pc[Worker] = "idle"
    /\ canceling' = FALSE
    /\ PmGoto("clock_off")
    /\ UNCHANGED <<i2c_mux, i2c_clck_enabled, clock, work_pending, addrVars, pageVars,
                   suspended, chipVars, callVars, pc>>

ClockOffLock ==
    /\ PmAt("clock_off")
    /\ i2c_mux = NoOne
    /\ i2c_mux' = Pm
    /\ PmGoto("clock_off_locked")
    /\ UNCHANGED <<clockVars, addrVars, pageVars, suspended, chipVars, callVars, pc>>

\* Mutation: the clock is left as it is, since the work was cancelled.
BugClockOff ==
    /\ PmAt("clock_off_locked")
    /\ i2c_mux' = NoOne
    /\ PmGoto(IF present THEN "asleep" ELSE "removed")
    /\ UNCHANGED <<clockVars, addrVars, pageVars, suspended, chipVars, callVars, pc>>

ClockOff ==
    /\ PmAt("clock_off_locked")
    /\ DisableClock
    /\ PmGoto(IF present THEN "asleep" ELSE "removed")
    /\ UNCHANGED <<addrVars, pageVars, suspended, chipVars, callVars, pc>>

\* cs8409_probe: a new cs8409_spec with the sub_codecs as they were left, and
\* the first write of GPIO data, which puts every chip in reset.
Probe ==
    /\ PmAt("removed")
    /\ dev_addr' = NoChip
    /\ reset' = [c \in Chips |-> TRUE]
    /\ regs' = [c \in Chips |-> BlankRegs]
    /\ chip_page' = [c \in Chips |-> ResetPage]
    /\ pm' = "release"
    /\ scodec' = 0
    /\ UNCHANGED <<i2c_mux, clockVars, hw_addr, last_page, suspended, callVars, pc, present>>

-----------------------------------------------------------------------------
PmStep ==
    \/ ReleaseReset \/ ClearSuspended \/ PmInitSeq \/ PmIrqRegs \/ PmConfigDone
    \/ PmPowerDownSeq \/ PmPowerDown \/ AssertReset
    \/ CancelSync \/ CancelSyncDone \/ ClockOffLock \/ ClockOff

PmChoice == PmResume \/ PmConfig \/ PmSuspend \/ PmPoll \/ PmRemove

\* Everything but what makes the page cache stale.
Common ==
    \/ \E t \in Clients : Step(t)
    \/ \E u \in Users : Call(u)
    \/ WorkFires \/ WorkLock \/ WorkDone
    \/ PmStep \/ PmChoice

Next == Common \/ SuspendMark \/ Probe \/ \E t \in Clients : PageLate(t)

Spec == Init /\ [][Next]_vars

\* The kernel runs threads, works and timers and hands its mutexes over, and the
\* loops of a suspend or resume are finite.
Fairness ==
    /\ \A t \in Clients : SF_vars(Step(t))
    /\ SF_vars(PmStep \/ SuspendMark)
    /\ WF_vars(WorkFires) /\ SF_vars(WorkLock \/ WorkDone)

FairSpec == Spec /\ Fairness

\* A user is between its test of suspended and the end of its transfer.
Inside == {"lock", "cancel", "clock", "addr", "page", "paged", "transfer", "unlock"}

Straddles(c) == \E u \in Users : pc[u] \in Inside /\ Chip(u) = c

\* No transfer straddles a suspend, no page write is late, and the codec was
\* suspended when it was removed if it is probed again.
QuietNext ==
    \/ Common
    \/ ~Straddles(scodec) /\ SuspendMark
    \/ (\A c \in Chips : suspended[c]) /\ Probe

QuietSpec == Init /\ [][QuietNext]_vars

\* With one of the disturbances: a transfer straddles a suspend, or a codec that
\* is awake is removed and probed again.
StraddleSpec == Init /\ [][QuietNext \/ SuspendMark]_vars
ReprobeSpec == Init /\ [][QuietNext \/ Probe]_vars

-----------------------------------------------------------------------------
(* Properties.                                                             *)

Holding == {"cancel", "clock", "addr", "page", "paged", "transfer", "unlock"}

Places == {"idle", "test", "lock"} \cup Holding

PmPlaces == {"asleep", "release", "clear", "init", "irq", "config", "awake",
             "pwr_down", "poll", "mark", "reset", "cancel", "cancelled",
             "clock_off", "clock_off_locked", "removed"}

\* The types.
TypeOK ==
    /\ i2c_mux \in Clients \cup {Worker, NoOne}
    /\ i2c_clck_enabled \in BOOLEAN
    /\ clock \in BOOLEAN
    /\ work_pending \in BOOLEAN
    /\ canceling \in BOOLEAN
    /\ dev_addr \in Chips \cup {NoChip}
    /\ hw_addr \in Chips \cup {NoChip}
    /\ last_page \in [Chips -> Pages \cup {ResetPage}]
    /\ chip_page \in [Chips -> Pages \cup {ResetPage}]
    /\ suspended \in [Chips -> BOOLEAN]
    /\ regs \in [Chips -> [Pages -> Values]]
    /\ reset \in [Chips -> BOOLEAN]
    /\ request \in [Clients -> [chip : Chips, write : BOOLEAN, todo : Seq(Access)]]
    /\ got \in [Clients -> Values \cup {Nothing, Failed}]
    /\ bulk \in [Clients -> BOOLEAN]
    /\ pc \in [Clients \cup {Worker} -> Places]
    /\ pm \in PmPlaces
    /\ scodec \in Chips
    /\ present \in BOOLEAN

\* A register is touched only with the clock on and the address of the chip
\* that is meant set, whatever the worker and Pm do meanwhile: the cached
\* address and the clock flag of cs8409_set_i2c_dev_addr and
\* cs8409_enable_i2c_clock never mislead.
TransferReady ==
    \A t \in Clients : pc[t] \in {"page", "paged", "transfer"} =>
        clock /\ hw_addr = Chip(t)

\* A clock that is on has someone to turn it off: the queued work, the running
\* worker, a transfer that will queue it, or cs8409_disable_i2c_clock at the
\* end of a suspend.  It needs both halves of "cancel i2c clock disable timer,
\* and disable clock if left enabled", since work being cancelled is not queued.
ClockHasStopper ==
    clock => \/ work_pending
             \/ pc[Worker] # "idle"
             \/ \E t \in Clients : pc[t] = "clock"
             \/ pm \in {"cancelled", "clock_off", "clock_off_locked"}

\* Once cs8409_remove is done nothing of the freed cs8409_spec is used: no work
\* is queued or running, nobody is in a transfer, and the clock is off.
RemovedIsQuiet ==
    pm = "removed" =>
        ~work_pending /\ i2c_mux = NoOne /\ ~clock
        /\ \A t \in Clients \cup {Worker} : pc[t] = "idle"

\* A transfer to a chip out of reset meets the page its address names: "@addr:
\* Register to read" and "Register to write to" (comments of cs8409_i2c_read
\* and cs8409_i2c_write), against the page cache of cs8409_i2c_set_page.
RightPage ==
    \A t \in Clients : pc[t] = "transfer" /\ ~reset[Chip(t)] => chip_page[Chip(t)] = Page(t)

\* The promise of the transfer functions.
Registers == INSTANCE RegisterFile WITH Threads <- Clients

Refines == Registers!Spec

\* Every call returns: cancelling the work never waits for the worker that
\* waits for the mutex.
CallReturns == \A t \in Clients : pc[t] = "test" ~> pc[t] = "idle"

\* When no more transfers are made the clock goes off and stays off.
ClockRests ==
    <>[](\A t \in Clients : pc[t] = "idle") => <>[]~clock
=============================================================================
