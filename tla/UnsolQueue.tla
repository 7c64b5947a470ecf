------------------------------ MODULE UnsolQueue ------------------------------
(***************************************************************************)
(* How the Apple part of the CS8409 driver keeps the verb blocks of jack   *)
(* interrupts apart from those of playback and capture: the block_unsol    *)
(* flag and the list of deferred unsolicited responses.                    *)
(*                                                                         *)
(* Two threads run the code.  Worker is the HDA bus's unsol work, which    *)
(* delivers one unsolicited response at a time.  Pcm stands for the ALSA   *)
(* callers of the prepare and cleanup operations, which the kernel         *)
(* serialises with bus->prepare_mutex.  Nothing serialises the two, and    *)
(* neither the flag, the list nor the slots are protected by a lock, so    *)
(* every access to one of them is a step of its own here.  The list        *)
(* primitives and the scan for a free slot are single steps.               *)
(*                                                                         *)
(* The cs42l83 pulls a GPIO line low while it has an unread interrupt      *)
(* cause, and the bridge sends an unsolicited response on both edges.      *)
(*                                                                         *)
(* Definitions whose name starts with Bug are mutations of the definition  *)
(* that follows them; nothing but the mutation runs uses them.             *)
(***************************************************************************)
EXTENDS Integers, Sequences, SequencesExt

CONSTANTS NumItems,   \* slots of unsol_items_prealloc: 10 in the driver
          MaxIrq      \* bound: interrupt causes the cs42l83 raises

ASSUME NumItemsAssumption == NumItems \in Nat \ {0}
ASSUME MaxIrqAssumption == MaxIrq \in Nat

Worker == "worker"
Pcm    == "pcm"
Thread == {Worker, Pcm}
Stream == {"playback", "capture"}

Item == 0 .. NumItems - 1
HEAD == NumItems        \* the list head, &spec->unsol_list
NULL == NumItems + 1    \* what the links of a zeroed item hold

VARIABLES
  block_unsol,  \* spec->block_unsol
  unsol_list,   \* the items linked from spec->unsol_list, first to last
  used,         \* spec->unsol_items_prealloc_used
  zeroed,       \* the items whose list links are NULL
  idx,          \* the items' idx fields
  init_count,   \* play_init_count and capture_init_count, counted up to 2
  cleaning,     \* the stream whose CLEANUP hook is running, or "none"
  pc,           \* where each thread is
  pos,          \* the loop cursor of a drain, or new_itm; HEAD when neither
  nxt,          \* the saved next cursor of a drain
  ret,          \* where a drain returns to
  line_low,     \* GPIO bit 0 reads 0: the cs42l83 has an unread cause
  bus,          \* unsolicited responses the bus has not delivered yet
  irqs,         \* causes raised so far
  dropped,      \* a response was discarded because every slot was used
  oopsed        \* the kernel followed a NULL link, or zeroed a listed item

hooks   == <<init_count, cleaning>>
queue   == <<unsol_list, used, zeroed, idx>>
cursors == <<pos, nxt, ret>>
hw      == <<line_low, bus, irqs>>
fate    == <<dropped, oopsed>>
vars    == <<block_unsol, hooks, queue, pc, cursors, hw, fate>>

Init ==
  /\ block_unsol = FALSE
  /\ unsol_list = <<>>
  /\ used = [i \in Item |-> FALSE]
  /\ zeroed = Item
  /\ idx = [i \in Item |-> 0]
  /\ init_count = [s \in Stream |-> 0]
  /\ cleaning = "none"
  /\ pc = [t \in Thread |-> "idle"]
  /\ pos = [t \in Thread |-> HEAD]
  /\ nxt = [t \in Thread |-> HEAD]
  /\ ret = [t \in Thread |-> "idle"]
  /\ line_low = FALSE
  /\ bus = 0
  /\ irqs = 0
  /\ dropped = FALSE
  /\ oopsed = FALSE

Goto(t, from, to) == /\ ~oopsed
                     /\ pc[t] = from
                     /\ pc' = [pc EXCEPT ![t] = to]

-----------------------------------------------------------------------------
(* The drain: list_for_each_entry_safe over the deferred responses.        *)

Places(i) == {k \in 1 .. Len(unsol_list) : unsol_list[k] = i}
Listed(i) == Places(i) # {}
Place(i)  == CHOOSE k \in Places(i) : TRUE

\* What the next link of cursor p holds; an item taken off the list by
\* list_del_init links to itself.
NextOf(p) ==
  IF p \notin Item \/ p \in zeroed THEN NULL
  ELSE IF ~Listed(p) THEN p
  ELSE IF Place(p) = Len(unsol_list) THEN HEAD ELSE unsol_list[Place(p) + 1]

\* Test the list, then start the loop.
PerformStart(t) ==
  /\ \/ /\ unsol_list = <<>>
        /\ Goto(t, "perform", ret[t])
        /\ UNCHANGED <<pos, nxt>>
     \/ /\ unsol_list # <<>>
        /\ Goto(t, "perform", "del")
        /\ pos' = [pos EXCEPT ![t] = unsol_list[1]]
        /\ nxt' = [nxt EXCEPT ![t] = NextOf(unsol_list[1])]
  /\ UNCHANGED <<block_unsol, hooks, queue, ret, hw, fate>>

\* list_del_init, which writes through both links of the item.
PerformDel(t) ==
  /\ Goto(t, "del", "gpio")
  /\ oopsed' = (pos[t] \notin Item \/ pos[t] \in zeroed)
  /\ unsol_list' = IF Listed(pos[t]) THEN RemoveAt(unsol_list, Place(pos[t]))
                   ELSE unsol_list
  /\ UNCHANGED <<block_unsol, hooks, used, zeroed, idx, cursors, hw, dropped>>

\* The slot is given back through the item's idx field.
PerformFree(t) ==
  /\ Goto(t, "free", "wipe")
  /\ used' = [used EXCEPT ![idx[pos[t]]] = FALSE]
  /\ UNCHANGED <<block_unsol, hooks, unsol_list, zeroed, idx, cursors, hw, fate>>

\* memset of the item; the loop then moves to the cursor it saved before.
PerformWipe(t) ==
  /\ Goto(t, "wipe", IF nxt[t] = HEAD THEN ret[t] ELSE "del")
  /\ oopsed' = Listed(pos[t])
  /\ zeroed' = zeroed \cup {pos[t]}
  /\ idx' = [idx EXCEPT ![pos[t]] = 0]
  /\ pos' = [pos EXCEPT ![t] = nxt[t]]
  /\ nxt' = [nxt EXCEPT ![t] = IF @ = HEAD THEN HEAD
                               ELSE IF @ = pos[t] THEN NULL ELSE NextOf(@)]
  /\ UNCHANGED <<block_unsol, hooks, unsol_list, used, ret, hw, dropped>>

-----------------------------------------------------------------------------
(* cs_8409_external_device_unsolicited_response, one block of verbs.       *)

\* A response returns to the drain that called it, or to the worker.
AfterResponse(t) == IF pos[t] = HEAD THEN "chk" ELSE "free"

\* A high line means there is no cause to handle.
ResponseGpio(t) ==
  /\ Goto(t, "gpio", IF line_low THEN "status" ELSE AfterResponse(t))
  /\ UNCHANGED <<block_unsol, hooks, queue, cursors, hw, fate>>

\* Reading the status registers clears the cause; the line goes up and the
\* bridge reports that edge as well.  A second reader finds no cause.
ResponseStatus(t) ==
  /\ Goto(t, "status", IF line_low THEN "action" ELSE AfterResponse(t))
  /\ line_low' = FALSE
  /\ bus' = IF line_low THEN bus + 1 ELSE bus
  /\ UNCHANGED <<block_unsol, hooks, queue, cursors, irqs, fate>>

\* cs_8409_interrupt_action has run: seconds of verbs for a plug event.
ResponseAction(t) ==
  /\ Goto(t, "action", AfterResponse(t))
  /\ UNCHANGED <<block_unsol, hooks, queue, cursors, hw, fate>>

-----------------------------------------------------------------------------
(* The worker: cs_8409_cs42l83_unsolicited_response.                       *)

\* The bus work delivers one response.
UnsolDeliver ==
  /\ bus > 0
  /\ Goto(Worker, "idle", "test")
  /\ bus' = bus - 1
  /\ UNCHANGED <<block_unsol, hooks, queue, cursors, line_low, irqs, fate>>

\* Mutation: a blocked response is discarded instead of stored.
BugUnsolTest ==
  /\ Goto(Worker, "test", IF block_unsol THEN "idle" ELSE "block")
  /\ UNCHANGED <<block_unsol, hooks, queue, cursors, hw, fate>>

UnsolTest ==
  /\ Goto(Worker, "test", IF block_unsol THEN "store" ELSE "block")
  /\ UNCHANGED <<block_unsol, hooks, queue, cursors, hw, fate>>

\* new_itm of the scan: the first free slot, or -1.
FreeItems == {i \in Item : ~used[i]}
NewItem == IF FreeItems = {} THEN -1
           ELSE CHOOSE i \in FreeItems : \A j \in FreeItems : i <= j

\* Every slot is used: the response is ignored.
UnsolIgnore ==
  /\ NewItem < 0
  /\ Goto(Worker, "store", "idle")
  /\ dropped' = TRUE
  /\ UNCHANGED <<block_unsol, hooks, queue, cursors, hw, oopsed>>

\* Mutation: the scan's result is used without the test for -1.
BugUnsolStore ==
  /\ Goto(Worker, "store", "add")
  /\ used' = [used EXCEPT ![NewItem] = TRUE]
  /\ idx' = [idx EXCEPT ![NewItem] = NewItem]
  /\ oopsed' = Listed(NewItem)
  /\ zeroed' = zeroed \cup {NewItem}
  /\ pos' = [pos EXCEPT ![Worker] = NewItem]
  /\ UNCHANGED <<block_unsol, hooks, unsol_list, nxt, ret, hw, dropped>>

\* Take the slot and fill its item in.
UnsolStore ==
  /\ NewItem >= 0
  /\ Goto(Worker, "store", "add")
  /\ used' = [used EXCEPT ![NewItem] = TRUE]
  /\ idx' = [idx EXCEPT ![NewItem] = NewItem]
  /\ oopsed' = Listed(NewItem)
  /\ zeroed' = zeroed \cup {NewItem}
  /\ pos' = [pos EXCEPT ![Worker] = NewItem]
  /\ UNCHANGED <<block_unsol, hooks, unsol_list, nxt, ret, hw, dropped>>

\* list_add_tail.
UnsolAdd ==
  /\ Goto(Worker, "add", "idle")
  /\ unsol_list' = Append(unsol_list, pos[Worker])
  /\ zeroed' = zeroed \ {pos[Worker]}
  /\ pos' = [pos EXCEPT ![Worker] = HEAD]
  /\ UNCHANGED <<block_unsol, hooks, used, idx, nxt, ret, hw, fate>>

UnsolBlock ==
  /\ Goto(Worker, "block", "gpio")
  /\ block_unsol' = TRUE
  /\ UNCHANGED <<hooks, queue, cursors, hw, fate>>

UnsolCheckList ==
  /\ Goto(Worker, "chk", IF unsol_list = <<>> THEN "unblock" ELSE "perform")
  /\ ret' = [ret EXCEPT ![Worker] = "unblock"]
  /\ UNCHANGED <<block_unsol, hooks, queue, pos, nxt, hw, fate>>

\* Mutation: the response returns with block_unsol still set.
BugUnsolUnblock ==
  /\ Goto(Worker, "unblock", "idle")
  /\ UNCHANGED <<block_unsol, hooks, queue, cursors, hw, fate>>

UnsolUnblock ==
  /\ Goto(Worker, "unblock", "idle")
  /\ block_unsol' = FALSE
  /\ UNCHANGED <<hooks, queue, cursors, hw, fate>>

-----------------------------------------------------------------------------
(* The PCM callers.  Each operation blocks, runs its verbs, unblocks and    *)
(* drains; jack is what it reads in spec->jack_present.                     *)

\* With a jack the hook blocks by itself; without one it calls a _real
\* function that blocks and unblocks around a drain of its own.
Setup(jack) == IF jack THEN "hook_block" ELSE "real_block"

\* The OPEN action of a pcm hook; it does not take prepare_mutex.
PcmOpen(s) ==
  /\ ~oopsed
  /\ init_count[s] # 0
  /\ init_count' = [init_count EXCEPT ![s] = 0]
  /\ UNCHANGED <<block_unsol, cleaning, queue, pc, cursors, hw, fate>>

\* The prepare operation of a stream: only the first prepare after an open
\* or a cleanup sets the codec up, another one only unblocks and drains.
Prepare(s, jack) ==
  /\ Goto(Pcm, "idle", IF init_count[s] = 0 THEN Setup(jack) ELSE "hook_clear")
  /\ init_count' = [init_count EXCEPT ![s] = IF @ < 2 THEN @ + 1 ELSE @]
  /\ UNCHANGED <<block_unsol, cleaning, queue, cursors, hw, fate>>

PlaybackPrepare(jack) == Prepare("playback", jack)
CapturePrepare(jack)  == Prepare("capture", jack)

Cleanup(s, jack) ==
  /\ Goto(Pcm, "idle", Setup(jack))
  /\ cleaning' = s
  /\ UNCHANGED <<block_unsol, init_count, queue, cursors, hw, fate>>

PlaybackCleanup(jack) == Cleanup("playback", jack)
CaptureCleanup(jack)  == Cleanup("capture", jack)

\* The end of a hook; CLEANUP forgets that the stream was set up.
HookDone ==
  /\ Goto(Pcm, "done", "idle")
  /\ init_count' = [s \in Stream |-> IF s = cleaning THEN 0 ELSE init_count[s]]
  /\ cleaning' = "none"
  /\ UNCHANGED <<block_unsol, queue, cursors, hw, fate>>

HookBlock ==
  /\ Goto(Pcm, "hook_block", "hook_clear")
  /\ block_unsol' = TRUE
  /\ UNCHANGED <<hooks, queue, cursors, hw, fate>>

\* Mutation: the hook drains without clearing the flag first.
BugHookUnblock ==
  /\ Goto(Pcm, "hook_clear", "hook_chk")
  /\ UNCHANGED <<block_unsol, hooks, queue, cursors, hw, fate>>

HookUnblock ==
  /\ Goto(Pcm, "hook_clear", "hook_chk")
  /\ block_unsol' = FALSE
  /\ UNCHANGED <<hooks, queue, cursors, hw, fate>>

\* Mutation: the hook leaves the deferred responses on the list.
BugHookCheckList ==
  /\ Goto(Pcm, "hook_chk", "done")
  /\ UNCHANGED <<block_unsol, hooks, queue, cursors, hw, fate>>

HookCheckList ==
  /\ Goto(Pcm, "hook_chk", IF unsol_list = <<>> THEN "done" ELSE "perform")
  /\ ret' = [ret EXCEPT ![Pcm] = "done"]
  /\ UNCHANGED <<block_unsol, hooks, queue, pos, nxt, hw, fate>>

\* cs_8409_play_real and its three siblings: block, verbs, drain, unblock.
RealBlock ==
  /\ Goto(Pcm, "real_block", "perform")
  /\ block_unsol' = TRUE
  /\ ret' = [ret EXCEPT ![Pcm] = "real_clear"]
  /\ UNCHANGED <<hooks, queue, pos, nxt, hw, fate>>

RealUnblock ==
  /\ Goto(Pcm, "real_clear", "hook_clear")
  /\ block_unsol' = FALSE
  /\ UNCHANGED <<hooks, queue, cursors, hw, fate>>

-----------------------------------------------------------------------------
(* The cs42l83 and the two threads together.                               *)

\* A new cause pulls the line low.
RaiseIrq ==
  /\ ~oopsed
  /\ ~line_low
  /\ irqs < MaxIrq
  /\ irqs' = irqs + 1
  /\ line_low' = TRUE
  /\ bus' = bus + 1
  /\ UNCHANGED <<block_unsol, hooks, queue, pc, cursors, fate>>

\* A kernel that followed a NULL link does nothing more.
Oops == oopsed /\ UNCHANGED vars

Perform(t) ==
  PerformStart(t) \/ PerformDel(t) \/ PerformFree(t) \/ PerformWipe(t)

Response(t) == ResponseGpio(t) \/ ResponseStatus(t) \/ ResponseAction(t)

WorkerStep ==
  \/ UnsolDeliver \/ UnsolTest \/ UnsolIgnore \/ UnsolStore \/ UnsolAdd
  \/ UnsolBlock \/ UnsolCheckList \/ UnsolUnblock
  \/ Perform(Worker) \/ Response(Worker)

\* What the PCM thread does inside an operation ...
PcmStep ==
  \/ HookBlock \/ HookUnblock \/ HookCheckList \/ HookDone
  \/ RealBlock \/ RealUnblock
  \/ Perform(Pcm) \/ Response(Pcm)

\* ... and the operations an application may ask for.
PcmCall ==
  \/ \E s \in Stream : PcmOpen(s)
  \/ \E jack \in BOOLEAN :
       \/ PlaybackPrepare(jack) \/ PlaybackCleanup(jack)
       \/ CapturePrepare(jack)  \/ CaptureCleanup(jack)

Next == WorkerStep \/ PcmStep \/ PcmCall \/ RaiseIrq \/ Oops

Spec == Init /\ [][Next]_vars

\* Both threads are scheduled; what applications ask for is not promised.
FairSpec == Spec /\ WF_vars(WorkerStep) /\ WF_vars(PcmStep)

-----------------------------------------------------------------------------
(* Properties.                                                             *)

\* The type of every variable.
TypeOK ==
  /\ block_unsol \in BOOLEAN
  /\ unsol_list \in Seq(Item)
  /\ used \in [Item -> BOOLEAN]
  /\ zeroed \in SUBSET Item
  /\ idx \in [Item -> Item]
  /\ init_count \in [Stream -> 0 .. 2]
  /\ cleaning \in Stream \cup {"none"}
  /\ pc \in [Thread -> {"idle", "test", "store", "add", "block", "chk", "unblock",
                        "hook_block", "hook_clear", "hook_chk", "done", "real_block",
                        "real_clear", "perform", "del", "free", "wipe", "gpio",
                        "status", "action"}]
  /\ pos \in [Thread -> Item \cup {HEAD, NULL}]
  /\ nxt \in [Thread -> Item \cup {HEAD, NULL}]
  /\ ret \in [Thread -> {"idle", "unblock", "real_clear", "done"}]
  /\ line_low \in BOOLEAN
  /\ bus \in Nat
  /\ irqs \in 0 .. MaxIrq
  /\ dropped \in BOOLEAN
  /\ oopsed \in BOOLEAN

InResponse(t) == pc[t] \in {"gpio", "status", "action"}
InDrain(t)    == pc[t] \in {"perform", "del", "free", "wipe"} \/ InResponse(t)

\* Where the worker, or the PCM thread, has set block_unsol and has still
\* to clear it.  A drain the hook itself starts runs with the flag clear.
WorkerOwnsBlock == InDrain(Worker) \/ pc[Worker] \in {"chk", "unblock"}
PcmOwnsBlock == \/ pc[Pcm] \in {"real_clear", "hook_clear"}
                \/ InDrain(Pcm) /\ ret[Pcm] = "real_clear"

\* Whenever block_unsol is set, one of the two threads is between setting
\* and clearing it, however their blocks overlap: jack events cannot stay
\* blocked with nobody left to unblock them.
BlockHasOwner == block_unsol => WorkerOwnsBlock \/ PcmOwnsBlock

\* An interrupt cause the cs42l83 holds is never forgotten unless a slot was
\* missing: its response is still on the bus or on the list, or a thread is
\* on its way to reading the status registers.
InterruptAccounted ==
  line_low /\ ~dropped /\ ~oopsed =>
    \/ bus > 0
    \/ unsol_list # <<>>
    \/ pc[Worker] \in {"test", "store", "add", "block", "gpio", "status"}
    \/ pc[Pcm] \in {"gpio", "status"}

\* Jack events do not stay blocked: block_unsol is cleared again after every
\* block, since each thread leaves its drain.
Unblocks == block_unsol ~> ~block_unsol \/ oopsed

\* A cause whose response is stuck on the list waits no longer than until
\* PCM operations go on: if they do, it is read (or its response found no
\* slot, or the kernel died).
ServicedByNextOp ==
  []<>(pc[Pcm] = "hook_chk") => (line_low ~> ~line_low \/ dropped \/ oopsed)

\* NOTES.md: plugging and unplugging while playing work, so each cause is
\* read in the end, whatever the PCM thread does.
JackServiced == line_low ~> ~line_low \/ dropped \/ oopsed

\* The question of the same comment, whether list_for_each_entry_safe is
\* safe for additions: no drain follows a NULL link or zeroes a listed item.
DrainSafe == ~oopsed
=============================================================================
