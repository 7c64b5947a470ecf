--------------------------- MODULE RegisterFile ---------------------------
(***************************************************************************)
(* What the callers of cs8409_i2c_read, cs8409_i2c_write and their bulk    *)
(* forms are promised: each headset chip is a set of registers, a request  *)
(* is served one register at a time, each access is atomic, and it reads   *)
(* or writes the register the request names and no other.  A request may   *)
(* fail.  The chip in reset keeps nothing.                                 *)
(***************************************************************************)
EXTENDS Sequences

CONSTANTS Threads, Chips,
          Pages,      \* registers; one per page is enough to tell pages apart
          Values,     \* contents of a register
          Blank,      \* the content after a reset
          Nothing,    \* no answer yet
          Failed      \* a negative return code

VARIABLES regs,       \* contents, by chip and page
          reset,      \* the chip is held in reset
          request,    \* by thread: chip, direction, accesses still to be made
          got         \* by thread: the last answer

vars == <<regs, reset, request, got>>

Access == [page : Pages, value : Values]

Request == [chip : Chips, write : BOOLEAN, todo : Seq(Access)]

Served(t) == request[t].todo = <<>>

BlankRegs == [p \in Pages |-> Blank]

Init ==
    /\ regs = [c \in Chips |-> BlankRegs]
    /\ reset \in [Chips -> BOOLEAN]
    /\ request \in [Threads -> Request]
    /\ \A t \in Threads : Served(t)
    /\ got = [t \in Threads |-> Nothing]

Call(t) ==
    /\ Served(t)
    /\ request'[t] \in Request
    /\ request' = [request EXCEPT ![t] = request'[t]]
    /\ got' = [got EXCEPT ![t] = Nothing]
    /\ UNCHANGED <<regs, reset>>

\* The first access of t's request is made.
Store(t) ==
    LET r == request[t]
        a == Head(r.todo)
    IN  IF r.write /\ ~reset[r.chip]
        THEN regs' = [regs EXCEPT ![r.chip][a.page] = a.value]
        ELSE UNCHANGED regs

Answer(t) ==
    LET r == request[t]
    IN  \/ r.write /\ UNCHANGED got
        \/ /\ ~r.write
           /\ ~reset[r.chip]
           /\ got' = [got EXCEPT ![t] = regs[r.chip][Head(r.todo).page]]
        \/ /\ ~r.write
           /\ reset[r.chip]
           /\ \E v \in Values : got' = [got EXCEPT ![t] = v]

Perform(t) ==
    /\ ~Served(t)
    /\ Store(t)
    /\ Answer(t)
    /\ request' = [request EXCEPT ![t].todo = Tail(@)]
    /\ UNCHANGED reset

\* A failed write may or may not have reached its register.
Fail(t) ==
    /\ ~Served(t)
    /\ UNCHANGED regs \/ Store(t)
    /\ request' = [request EXCEPT ![t].todo = <<>>]
    /\ got' = [got EXCEPT ![t] = Failed]
    /\ UNCHANGED reset

Reset(c) ==
    /\ ~reset[c]
    /\ reset' = [reset EXCEPT ![c] = TRUE]
    /\ regs' = [regs EXCEPT ![c] = BlankRegs]
    /\ UNCHANGED <<request, got>>

Release(c) ==
    /\ reset[c]
    /\ reset' = [reset EXCEPT ![c] = FALSE]
    /\ UNCHANGED <<regs, request, got>>

Next ==
    \/ \E t \in Threads : Call(t) \/ Perform(t) \/ Fail(t)
    \/ \E c \in Chips : Reset(c) \/ Release(c)

Spec == Init /\ [][Next]_vars
=============================================================================
