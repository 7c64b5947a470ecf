--------------------------- MODULE UnsolQueueProofs ---------------------------
(***************************************************************************)
(* Proofs about UnsolQueue for any number of slots and any number of       *)
(* interrupts: its type invariant, that a set block_unsol always has a     *)
(* thread that will clear it, and that no interrupt cause is forgotten.    *)
(***************************************************************************)
EXTENDS UnsolQueue, TLAPS, SequenceTheorems, WellFoundedInduction, NaturalsInduction

WorkerPc == {"idle", "test", "store", "add", "block", "chk", "unblock", "perform",
             "del", "free", "wipe", "gpio", "status", "action"}
PcmPc == {"idle", "hook_block", "hook_clear", "hook_chk", "done", "real_block",
          "real_clear", "perform", "del", "free", "wipe", "gpio", "status", "action"}

\* Where each thread can be, what its cursor holds there, and where its
\* drain returns to.
Control ==
  /\ pc[Worker] \in WorkerPc
  /\ pc[Pcm] \in PcmPc
  /\ pc[Worker] \in {"idle", "test", "store", "block", "chk", "unblock", "perform"}
       => pos[Worker] = HEAD
  /\ pc[Worker] = "add" => pos[Worker] \in Item
  /\ pc[Worker] \in {"perform", "del", "free", "wipe"} => ret[Worker] = "unblock"
  /\ InResponse(Worker) /\ pos[Worker] # HEAD => ret[Worker] = "unblock"
  /\ pc[Pcm] \in {"del", "gpio", "status", "action"} => pos[Pcm] # HEAD
  /\ InDrain(Pcm) => ret[Pcm] \in {"real_clear", "done"}
  /\ \A t \in Thread :
       /\ ~oopsed /\ InResponse(t) => pos[t] \in Item \cup {HEAD}
       /\ ~oopsed /\ pc[t] \in {"free", "wipe"} => pos[t] \in Item
       /\ pc[t] = "del" => pos[t] # HEAD

Inv == TypeOK /\ Control

-----------------------------------------------------------------------------
(* Operators.                                                              *)

\* Removing an element leaves a sequence over the same set.
LEMMA RemoveAtType ==
  ASSUME NEW S, NEW s \in Seq(S), NEW k \in 1 .. Len(s)
  PROVE  RemoveAt(s, k) \in Seq(S)
<1>1. SubSeq(s, 1, k - 1) \in Seq(S)
  BY SubSeqProperties
<1>2. SubSeq(s, k + 1, Len(s)) \in Seq(S)
  BY SubSeqProperties
<1> QED BY <1>1, <1>2, ConcatProperties DEF RemoveAt

\* The cursor saved for the next round is an item, the head or NULL.
LEMMA NextOfType ==
  ASSUME TypeOK, NEW p
  PROVE  NextOf(p) \in Item \cup {HEAD, NULL}
<1>1. CASE ~(p \notin Item \/ p \in zeroed) /\ Listed(p)
  <2>1. Place(p) \in 1 .. Len(unsol_list)
    BY <1>1 DEF Listed, Place, Places
  <2>2. CASE Place(p) = Len(unsol_list)
    BY <1>1, <2>2 DEF NextOf
  <2>3. CASE Place(p) # Len(unsol_list)
    <3>1. Place(p) + 1 \in 1 .. Len(unsol_list) /\ unsol_list \in Seq(Item)
      BY <2>1, <2>3, LenProperties DEF TypeOK
    <3>2. unsol_list[Place(p) + 1] \in Item
      BY <3>1, ElementOfSeq
    <3> QED BY <1>1, <2>3, <3>2 DEF NextOf
  <2> QED BY <2>2, <2>3
<1>2. CASE p \notin Item \/ p \in zeroed
  BY <1>2 DEF NextOf
<1>3. CASE ~(p \notin Item \/ p \in zeroed) /\ ~Listed(p)
  BY <1>3 DEF NextOf
<1> QED BY <1>1, <1>2, <1>3

\* Taking a listed item off leaves a list of items.
LEMMA DelType ==
  ASSUME TypeOK, NEW i
  PROVE  (IF Listed(i) THEN RemoveAt(unsol_list, Place(i)) ELSE unsol_list) \in Seq(Item)
<1>1. CASE Listed(i)
  <2>1. Place(i) \in 1 .. Len(unsol_list)
    BY <1>1 DEF Listed, Place, Places
  <2> QED BY <1>1, <2>1, RemoveAtType DEF TypeOK
<1>2. CASE ~Listed(i)
  BY <1>2 DEF TypeOK
<1> QED BY <1>1, <1>2

\* A list that is not empty starts with an item.
LEMMA FirstType ==
  ASSUME TypeOK, unsol_list # <<>>
  PROVE  unsol_list[1] \in Item
<1>1. unsol_list \in Seq(Item)
  BY DEF TypeOK
<1>2. 1 \in 1 .. Len(unsol_list)
  BY <1>1, EmptySeq, LenProperties
<1> QED BY <1>1, <1>2, ElementOfSeq

\* The slot scan returns -1 or a slot that is free.
LEMMA NewItemType ==
  ASSUME NewItem >= 0
  PROVE  NewItem \in Item /\ ~used[NewItem]
<1>1. FreeItems # {}
  BY DEF NewItem
<1>2. FreeItems \subseteq Nat
  BY NumItemsAssumption DEF FreeItems, Item
<1>3. PICK i \in FreeItems : \A j \in FreeItems : <<j, i>> \notin OpToRel(<, Nat)
  BY <1>1, <1>2, WFMin, NatLessThanWellFounded, Zenon
<1>4. \A j \in FreeItems : ~(j < i)
  BY <1>2, <1>3, Zenon DEF OpToRel
<1>5. \A j \in FreeItems : i <= j
  BY <1>2, <1>4
<1>6. NewItem \in FreeItems
  BY <1>1, <1>5 DEF NewItem
<1> QED BY <1>6 DEF FreeItems

-----------------------------------------------------------------------------
(* The inductive invariant.                                                *)

USE DEF Thread, Worker, Pcm, Stream

\* The loop head and NULL are no items, and the first slot is one.
LEMMA HeadNull ==
  HEAD \notin Item /\ NULL \notin Item /\ HEAD # NULL /\ 0 \in Item
BY NumItemsAssumption DEF HEAD, NULL, Item

\* The initial state satisfies the inductive invariant.
LEMMA InvInit == Init => Inv
BY HeadNull, MaxIrqAssumption, EmptySeq
   DEF Init, Inv, TypeOK, Control, WorkerPc, PcmPc, InDrain, InResponse

\* Every step keeps the types.
LEMMA TypeStep ==
  ASSUME Inv, [Next]_vars
  PROVE  TypeOK'
<1> USE HeadNull DEF Inv, TypeOK, Control, Goto, hooks, queue, cursors, hw, fate
<1>1. CASE UnsolDeliver
  BY <1>1 DEF UnsolDeliver
<1>2. CASE UnsolTest
  BY <1>2 DEF UnsolTest
<1>3. CASE UnsolIgnore
  BY <1>3 DEF UnsolIgnore
<1>4. CASE UnsolStore
  BY <1>4, NewItemType DEF UnsolStore
<1>5. CASE UnsolAdd
  BY <1>5, AppendProperties DEF UnsolAdd
<1>6. CASE UnsolBlock
  BY <1>6 DEF UnsolBlock
<1>7. CASE UnsolCheckList
  BY <1>7 DEF UnsolCheckList
<1>8. CASE UnsolUnblock
  BY <1>8 DEF UnsolUnblock
<1>9. CASE HookBlock
  BY <1>9 DEF HookBlock
<1>10. CASE HookUnblock
  BY <1>10 DEF HookUnblock
<1>11. CASE HookCheckList
  BY <1>11 DEF HookCheckList
<1>12. CASE HookDone
  BY <1>12 DEF HookDone
<1>13. CASE RealBlock
  BY <1>13 DEF RealBlock
<1>14. CASE RealUnblock
  BY <1>14 DEF RealUnblock
<1>15. CASE RaiseIrq
  BY <1>15, MaxIrqAssumption DEF RaiseIrq
<1>16. ASSUME NEW t \in Thread, PerformStart(t) PROVE TypeOK'
  BY <1>16, FirstType, NextOfType DEF PerformStart
<1>17. ASSUME NEW t \in Thread, PerformDel(t) PROVE TypeOK'
  BY <1>17, DelType DEF PerformDel
<1>18. ASSUME NEW t \in Thread, PerformFree(t) PROVE TypeOK'
  BY <1>18 DEF PerformFree
<1>19. ASSUME NEW t \in Thread, PerformWipe(t) PROVE TypeOK'
  BY <1>19, NextOfType DEF Listed, PerformWipe
<1>20. ASSUME NEW t \in Thread, ResponseGpio(t) PROVE TypeOK'
  BY <1>20 DEF AfterResponse, ResponseGpio
<1>21. ASSUME NEW t \in Thread, ResponseStatus(t) PROVE TypeOK'
  BY <1>21 DEF AfterResponse, ResponseStatus
<1>22. ASSUME NEW t \in Thread, ResponseAction(t) PROVE TypeOK'
  BY <1>22 DEF AfterResponse, ResponseAction
<1>23. ASSUME NEW s \in Stream, PcmOpen(s) PROVE TypeOK'
  BY <1>23 DEF PcmOpen
<1>24. ASSUME NEW s \in Stream, NEW jack \in BOOLEAN, Prepare(s, jack) PROVE TypeOK'
  BY <1>24 DEF Setup, Prepare
<1>25. ASSUME NEW s \in Stream, NEW jack \in BOOLEAN, Cleanup(s, jack) PROVE TypeOK'
  BY <1>25 DEF Setup, Cleanup
<1>26. CASE UNCHANGED vars
  BY <1>26 DEF vars
<1> QED BY <1>1, <1>2, <1>3, <1>4, <1>5, <1>6, <1>7, <1>8, <1>9, <1>10, <1>11,
          <1>12, <1>13, <1>14, <1>15, <1>16, <1>17, <1>18, <1>19, <1>20,
          <1>21, <1>22, <1>23, <1>24, <1>25, <1>26
  DEF Next, WorkerStep, PcmStep, PcmCall, Perform, Response, Oops,
      PlaybackPrepare, PlaybackCleanup, CapturePrepare, CaptureCleanup

\* Every step keeps the threads and their cursors where they belong.
LEMMA ControlStep ==
  ASSUME Inv, [Next]_vars
  PROVE  Control'
<1> USE HeadNull DEF Inv, TypeOK, Control, Goto, hooks, queue, cursors, hw, fate,
                     InDrain, InResponse, WorkerPc, PcmPc
<1>1. CASE UnsolDeliver
  BY <1>1 DEF UnsolDeliver
<1>2. CASE UnsolTest
  BY <1>2 DEF UnsolTest
<1>3. CASE UnsolIgnore
  BY <1>3 DEF UnsolIgnore
<1>4. CASE UnsolStore
  BY <1>4, NewItemType DEF UnsolStore
<1>5. CASE UnsolAdd
  BY <1>5, AppendProperties DEF UnsolAdd
<1>6. CASE UnsolBlock
  BY <1>6 DEF UnsolBlock
<1>7. CASE UnsolCheckList
  BY <1>7 DEF UnsolCheckList
<1>8. CASE UnsolUnblock
  BY <1>8 DEF UnsolUnblock
<1>9. CASE HookBlock
  BY <1>9 DEF HookBlock
<1>10. CASE HookUnblock
  BY <1>10 DEF HookUnblock
<1>11. CASE HookCheckList
  BY <1>11 DEF HookCheckList
<1>12. CASE HookDone
  BY <1>12 DEF HookDone
<1>13. CASE RealBlock
  BY <1>13 DEF RealBlock
<1>14. CASE RealUnblock
  BY <1>14 DEF RealUnblock
<1>15. CASE RaiseIrq
  BY <1>15, MaxIrqAssumption DEF RaiseIrq
<1>16. ASSUME NEW t \in Thread, PerformStart(t) PROVE Control'
  BY <1>16, FirstType, NextOfType DEF PerformStart
<1>17. ASSUME NEW t \in Thread, PerformDel(t) PROVE Control'
  BY <1>17, DelType DEF PerformDel
<1>18. ASSUME NEW t \in Thread, PerformFree(t) PROVE Control'
  BY <1>18 DEF PerformFree
<1>19. ASSUME NEW t \in Thread, PerformWipe(t) PROVE Control'
  BY <1>19, NextOfType DEF Listed, PerformWipe
<1>20. ASSUME NEW t \in Thread, ResponseGpio(t) PROVE Control'
  BY <1>20 DEF AfterResponse, ResponseGpio
<1>21. ASSUME NEW t \in Thread, ResponseStatus(t) PROVE Control'
  BY <1>21 DEF AfterResponse, ResponseStatus
<1>22. ASSUME NEW t \in Thread, ResponseAction(t) PROVE Control'
  BY <1>22 DEF AfterResponse, ResponseAction
<1>23. ASSUME NEW s \in Stream, PcmOpen(s) PROVE Control'
  BY <1>23 DEF PcmOpen
<1>24. ASSUME NEW s \in Stream, NEW jack \in BOOLEAN, Prepare(s, jack) PROVE Control'
  BY <1>24 DEF Setup, Prepare
<1>25. ASSUME NEW s \in Stream, NEW jack \in BOOLEAN, Cleanup(s, jack) PROVE Control'
  BY <1>25 DEF Setup, Cleanup
<1>26. CASE UNCHANGED vars
  BY <1>26 DEF vars
<1> QED BY <1>1, <1>2, <1>3, <1>4, <1>5, <1>6, <1>7, <1>8, <1>9, <1>10, <1>11,
          <1>12, <1>13, <1>14, <1>15, <1>16, <1>17, <1>18, <1>19, <1>20,
          <1>21, <1>22, <1>23, <1>24, <1>25, <1>26
  DEF Next, WorkerStep, PcmStep, PcmCall, Perform, Response, Oops,
      PlaybackPrepare, PlaybackCleanup, CapturePrepare, CaptureCleanup

\* The invariant is inductive.
LEMMA InvStep == Inv /\ [Next]_vars => Inv'
BY TypeStep, ControlStep DEF Inv

\* The variables always hold values of their types: list surgery, the slot
\* scan and the saved cursors never produce anything but items, the list
\* head or a NULL link.
THEOREM TypeCorrect == Spec => []TypeOK
<1>1. Inv => TypeOK
  BY DEF Inv
<1> QED BY <1>1, InvInit, InvStep, PTL DEF Spec

\* The inductive invariant holds throughout.
LEMMA Invariance == Spec => []Inv
BY InvInit, InvStep, PTL DEF Spec

-----------------------------------------------------------------------------
(* Blocking has an owner.                                                  *)

\* No step leaves block_unsol set without an owner.
LEMMA OwnerStep ==
  ASSUME Inv, BlockHasOwner, [Next]_vars
  PROVE  BlockHasOwner'
<1> USE HeadNull DEF Inv, TypeOK, Control, Goto, hooks, queue, cursors, hw, fate,
                     InDrain, InResponse, BlockHasOwner, WorkerOwnsBlock, PcmOwnsBlock
<1>1. CASE UnsolDeliver
  BY <1>1 DEF UnsolDeliver
<1>2. CASE UnsolTest
  BY <1>2 DEF UnsolTest
<1>3. CASE UnsolIgnore
  BY <1>3 DEF UnsolIgnore
<1>4. CASE UnsolStore
  BY <1>4 DEF UnsolStore
<1>5. CASE UnsolAdd
  BY <1>5 DEF UnsolAdd
<1>6. CASE UnsolBlock
  BY <1>6 DEF UnsolBlock
<1>7. CASE UnsolCheckList
  BY <1>7 DEF UnsolCheckList
<1>8. CASE UnsolUnblock
  BY <1>8 DEF UnsolUnblock
<1>9. CASE HookBlock
  BY <1>9 DEF HookBlock
<1>10. CASE HookUnblock
  BY <1>10 DEF HookUnblock
<1>11. CASE HookCheckList
  BY <1>11 DEF HookCheckList
<1>12. CASE HookDone
  BY <1>12 DEF HookDone
<1>13. CASE RealBlock
  BY <1>13 DEF RealBlock
<1>14. CASE RealUnblock
  BY <1>14 DEF RealUnblock
<1>15. CASE RaiseIrq
  BY <1>15 DEF RaiseIrq
<1>16. ASSUME NEW t \in Thread, PerformStart(t) PROVE BlockHasOwner'
  BY <1>16 DEF PerformStart
<1>17. ASSUME NEW t \in Thread, PerformDel(t) PROVE BlockHasOwner'
  BY <1>17 DEF PerformDel
<1>18. ASSUME NEW t \in Thread, PerformFree(t) PROVE BlockHasOwner'
  BY <1>18 DEF PerformFree
<1>19. ASSUME NEW t \in Thread, PerformWipe(t) PROVE BlockHasOwner'
  BY <1>19 DEF PerformWipe
<1>20. ASSUME NEW t \in Thread, ResponseGpio(t) PROVE BlockHasOwner'
  BY <1>20 DEF AfterResponse, ResponseGpio
<1>21. ASSUME NEW t \in Thread, ResponseStatus(t) PROVE BlockHasOwner'
  BY <1>21 DEF AfterResponse, ResponseStatus
<1>22. ASSUME NEW t \in Thread, ResponseAction(t) PROVE BlockHasOwner'
  BY <1>22 DEF AfterResponse, ResponseAction
<1>23. ASSUME NEW s \in Stream, PcmOpen(s) PROVE BlockHasOwner'
  BY <1>23 DEF PcmOpen
<1>24. ASSUME NEW s \in Stream, NEW jack \in BOOLEAN, Prepare(s, jack) PROVE BlockHasOwner'
  BY <1>24 DEF Setup, Prepare
<1>25. ASSUME NEW s \in Stream, NEW jack \in BOOLEAN, Cleanup(s, jack) PROVE BlockHasOwner'
  BY <1>25 DEF Setup, Cleanup
<1>26. CASE UNCHANGED vars
  BY <1>26 DEF vars
<1> QED BY <1>1, <1>2, <1>3, <1>4, <1>5, <1>6, <1>7, <1>8, <1>9, <1>10, <1>11,
          <1>12, <1>13, <1>14, <1>15, <1>16, <1>17, <1>18, <1>19, <1>20,
          <1>21, <1>22, <1>23, <1>24, <1>25, <1>26
  DEF Next, WorkerStep, PcmStep, PcmCall, Perform, Response, Oops,
      PlaybackPrepare, PlaybackCleanup, CapturePrepare, CaptureCleanup

\* Jack events cannot stay blocked with nobody left to unblock them: in every
\* reachable state with block_unsol set, the worker or the PCM thread is
\* between setting and clearing it, although each clears the other's block.
THEOREM BlockOwned == Spec => []BlockHasOwner
<1>1. Init => BlockHasOwner
  BY DEF Init, BlockHasOwner
<1>2. Inv /\ BlockHasOwner /\ [Next]_vars => BlockHasOwner'
  BY OwnerStep
<1> QED BY <1>1, <1>2, Invariance, PTL DEF Spec

-----------------------------------------------------------------------------
(* No interrupt cause is forgotten.                                        *)

\* A list something was appended to is not empty.
LEMMA NotEmptyAfterAppend ==
  ASSUME TypeOK, NEW i \in Item
  PROVE  Append(unsol_list, i) # <<>>
<1>1. unsol_list \in Seq(Item)
  BY DEF TypeOK
<1>2. Len(Append(unsol_list, i)) = Len(unsol_list) + 1
  BY <1>1, AppendProperties
<1>3. Len(unsol_list) \in Nat /\ Len(<<>>) = 0
  BY <1>1, LenProperties, EmptySeq
<1> QED BY <1>2, <1>3

\* No step loses the last response of an unread cause.
LEMMA AccountedStep ==
  ASSUME Inv, InterruptAccounted, [Next]_vars
  PROVE  InterruptAccounted'
<1> USE HeadNull DEF Inv, TypeOK, Control, Goto, hooks, queue, cursors, hw, fate,
                     InterruptAccounted
<1>1. CASE UnsolDeliver
  BY <1>1 DEF UnsolDeliver
<1>2. CASE UnsolTest
  BY <1>2 DEF UnsolTest
<1>3. CASE UnsolIgnore
  BY <1>3 DEF UnsolIgnore
<1>4. CASE UnsolStore
  BY <1>4 DEF UnsolStore
<1>5. CASE UnsolAdd
  BY <1>5, NotEmptyAfterAppend DEF UnsolAdd
<1>6. CASE UnsolBlock
  BY <1>6 DEF UnsolBlock
<1>7. CASE UnsolCheckList
  BY <1>7 DEF UnsolCheckList
<1>8. CASE UnsolUnblock
  BY <1>8 DEF UnsolUnblock
<1>9. CASE HookBlock
  BY <1>9 DEF HookBlock
<1>10. CASE HookUnblock
  BY <1>10 DEF HookUnblock
<1>11. CASE HookCheckList
  BY <1>11 DEF HookCheckList
<1>12. CASE HookDone
  BY <1>12 DEF HookDone
<1>13. CASE RealBlock
  BY <1>13 DEF RealBlock
<1>14. CASE RealUnblock
  BY <1>14 DEF RealUnblock
<1>15. CASE RaiseIrq
  BY <1>15 DEF RaiseIrq
<1>16. ASSUME NEW t \in Thread, PerformStart(t) PROVE InterruptAccounted'
  BY <1>16 DEF PerformStart
<1>17. ASSUME NEW t \in Thread, PerformDel(t) PROVE InterruptAccounted'
  BY <1>17 DEF PerformDel
<1>18. ASSUME NEW t \in Thread, PerformFree(t) PROVE InterruptAccounted'
  BY <1>18 DEF PerformFree
<1>19. ASSUME NEW t \in Thread, PerformWipe(t) PROVE InterruptAccounted'
  BY <1>19 DEF PerformWipe
<1>20. ASSUME NEW t \in Thread, ResponseGpio(t) PROVE InterruptAccounted'
  BY <1>20 DEF AfterResponse, ResponseGpio
<1>21. ASSUME NEW t \in Thread, ResponseStatus(t) PROVE InterruptAccounted'
  BY <1>21 DEF AfterResponse, ResponseStatus
<1>22. ASSUME NEW t \in Thread, ResponseAction(t) PROVE InterruptAccounted'
  BY <1>22 DEF AfterResponse, ResponseAction
<1>23. ASSUME NEW s \in Stream, PcmOpen(s) PROVE InterruptAccounted'
  BY <1>23 DEF PcmOpen
<1>24. ASSUME NEW s \in Stream, NEW jack \in BOOLEAN, Prepare(s, jack) PROVE InterruptAccounted'
  BY <1>24 DEF Prepare
<1>25. ASSUME NEW s \in Stream, NEW jack \in BOOLEAN, Cleanup(s, jack) PROVE InterruptAccounted'
  BY <1>25 DEF Cleanup
<1>26. CASE UNCHANGED vars
  BY <1>26 DEF vars
<1> QED BY <1>1, <1>2, <1>3, <1>4, <1>5, <1>6, <1>7, <1>8, <1>9, <1>10, <1>11,
          <1>12, <1>13, <1>14, <1>15, <1>16, <1>17, <1>18, <1>19, <1>20,
          <1>21, <1>22, <1>23, <1>24, <1>25, <1>26
  DEF Next, WorkerStep, PcmStep, PcmCall, Perform, Response, Oops,
      PlaybackPrepare, PlaybackCleanup, CapturePrepare, CaptureCleanup

\* While the cs42l83 holds an unread cause and no response was discarded, the
\* response is on the bus or on the list, or a thread is on its way to the
\* status registers, for any number of slots and of interrupts.
THEOREM InterruptsAccounted == Spec => []InterruptAccounted
<1>1. Init => InterruptAccounted
  BY DEF Init, InterruptAccounted
<1>2. Inv /\ InterruptAccounted /\ [Next]_vars => InterruptAccounted'
  BY AccountedStep
<1> QED BY <1>1, <1>2, Invariance, PTL DEF Spec

=============================================================================
