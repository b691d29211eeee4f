-------------------------- MODULE Rtl8139RxProofs --------------------------
(***************************************************************************)
(* Proofs about Rtl8139Rx, for every size of the ring and every NAPI       *)
(* budget: type correctness, and the three safety properties of its run.   *)
(* None of them is inductive. FreedIsUnused speaks of an interface that is *)
(* gone, and needs to know who may be active in which phase (Control).     *)
(* InStep and NothingStranded speak of an interface that is up and awake:  *)
(* what is lost while the chip sleeps must be known to be mended by the    *)
(* resume before they speak again (Attentive), and what the poll owes      *)
(* between its acknowledgment and its end must be said for each of its     *)
(* control points (Accounted).                                             *)
(***************************************************************************)
EXTENDS Rtl8139Rx, SequenceTheorems, TLAPS

\* rtl8139_rx is between its first line and the assignment of cur_rx
InRx == poll \in {"loop", "ack", "acklast", "store"}

\* The chip has been started and neither sleeps nor waits for resume to start
\* it again
Attentive == phase \in {"starting", "up"} /\ pm \notin {"asleep", "awake"}

\* Who may be active when: NAPI is disabled exactly between napi_disable and
\* napi_enable and polls only while scheduled; the work item runs and the
\* machine suspends only with the interface up (rtnl, netif_running); poll and
\* reset exclude each other (rx_lock); what is queued after remove is late; an
\* interface that is down is masked and does not receive
Control ==
    /\ napi = "disabled" <=> phase \in {"down", "stopping", "gone"}
    /\ poll # "idle" => napi = "sched"
    /\ thr # "idle" \/ pm # "on" => phase = "up"
    /\ thrHasRxLock => poll = "idle"
    /\ phase = "gone" => removing
    /\ removing /\ pending => late
    /\ phase \in {"down", "gone"} => IntrMask = "none" /\ ~rxEnb

\* Driver and chip agree where the next packet begins
Agree == Attentive /\ ~torn => IF InRx THEN pos = RxBufPtr ELSE cur_rx = RxBufPtr

\* A receiver at rest is enabled and unmasked; a scheduled poll finds it masked
Unmasked ==
    /\ Attentive /\ pm # "stopped" => rxEnb
    /\ phase = "up" /\ pm = "on" /\ thr = "idle" /\ napi = "idle" => IntrMask = "all"
    /\ napi = "sched" /\ ~met /\ netif_running => IntrMask # "all"

\* A complete packet at the head of the ring has its interrupt to come, or is
\* known to be swallowed, or the poll goes to look at it again, or the poll has
\* used up its budget and is about to say so
Accounted ==
    Attentive /\ ~torn /\ ~RxBufEmpty /\ Head(rx_ring) # "copying" =>
        \/ intr \/ swallowed
        \/ poll \in {"loop", "ack"}
        \/ poll = "store" /\ received = Weight

IInv == TypeOK /\ Control /\ Agree /\ Unmasked /\ Accounted

USE RingSlotsAssumption, WeightAssumption

-----------------------------------------------------------------------------
(* Positions and the ring.                                                 *)

\* Every position modulo the number of slots is a slot.
LEMMA SlotOfAny == ASSUME NEW n \in Nat PROVE n % RingSlots \in Slots
BY DEF Slots

\* The slot after a slot is a slot.
LEMMA AfterTyped == ASSUME NEW p \in Slots PROVE After(p) \in Slots
<1>1. p + 1 \in Nat BY DEF Slots
<1> QED BY <1>1, SlotOfAny DEF After

\* What the chip holds for unread after the driver moved on fits in the ring.
LEMMA UnreadFromTyped ==
    ASSUME rx_ring \in Seq(Kinds), Len(rx_ring) < RingSlots, ~RxBufEmpty,
           RxBufPtr \in Slots, NEW p \in Slots, NEW r \in UnreadFrom(p)
    PROVE  r \in Seq(Kinds) /\ Len(r) < RingSlots
<1>1. CASE p = After(RxBufPtr)
  <2>1. r = Tail(rx_ring) BY <1>1 DEF UnreadFrom
  <2>2. QED BY <2>1, HeadTailProperties, LenProperties DEF RxBufEmpty
<1>2. CASE p # After(RxBufPtr)
  <2> DEFINE n == (RxBufAddr - p) % RingSlots
  <2>1. Len(rx_ring) \in Nat BY LenProperties
  <2>2. RxBufAddr \in Int BY <2>1 DEF RxBufAddr, Slots
  <2>3. n \in 0 .. RingSlots - 1 BY <2>2 DEF Slots
  <2>4. r \in [1 .. n -> Kinds] BY <1>2 DEF UnreadFrom
  <2> HIDE DEF n
  <2>5. r \in Seq(Kinds) BY <2>3, <2>4, SeqDef
  <2>6. Len(r) = n BY <2>3, <2>4, <2>5, LenProperties
  <2>7. QED BY <2>3, <2>5, <2>6
<1> QED BY <1>1, <1>2

-----------------------------------------------------------------------------
\* The invariant holds when the driver has probed the chip.
LEMMA InitIInv == Init => IInv
<1> SUFFICES ASSUME Init PROVE IInv OBVIOUS
<1>1. TypeOK
  <2>1. /\ rxEnb \in BOOLEAN /\ intr \in BOOLEAN /\ pending \in BOOLEAN
        /\ removing \in BOOLEAN /\ met \in BOOLEAN /\ torn \in BOOLEAN
        /\ swallowed \in BOOLEAN /\ late \in BOOLEAN
    BY Zenon DEF Init
  <2>2. rx_ring \in Seq(Kinds) /\ Len(rx_ring) = 0 BY EmptySeq DEF Init
  <2>3. QED BY <2>1, <2>2 DEF Init, TypeOK, Slots
<1>2. Control BY DEF Init, Control, thrHasRxLock
<1>3. Agree /\ Unmasked /\ Accounted
  BY DEF Init, Agree, Unmasked, Accounted, Attentive, netif_running
<1> QED BY <1>1, <1>2, <1>3 DEF IInv

\* rtl8139_hw_start leaves what it touches well typed.
LEMMA HwStartTyped ==
    ASSUME TypeOK, HwStart
    PROVE  /\ rx_ring' \in Seq(Kinds) /\ Len(rx_ring') < RingSlots
           /\ RxBufPtr' \in Slots /\ cur_rx' \in Slots
           /\ IntrMask' \in {"none", "norx", "all"}
           /\ rxEnb' \in BOOLEAN /\ intr' \in BOOLEAN
           /\ swallowed' \in BOOLEAN /\ torn' \in BOOLEAN
<1>1. rxEnb' \in BOOLEAN /\ intr' \in BOOLEAN /\ swallowed' \in BOOLEAN /\ torn' \in BOOLEAN
  BY Zenon DEF HwStart, TypeOK
<1>2. rx_ring' \in Seq(Kinds) /\ Len(rx_ring') < RingSlots
  <2>1. rx_ring' = <<>> \/ rx_ring' = rx_ring BY DEF HwStart
  <2>2. <<>> \in Seq(Kinds) /\ Len(<<>>) < RingSlots BY EmptySeq
  <2>3. rx_ring \in Seq(Kinds) /\ Len(rx_ring) < RingSlots BY DEF TypeOK
  <2>4. QED BY Zenon, <2>1, <2>2, <2>3
<1>3. /\ RxBufPtr' \in Slots /\ cur_rx' \in Slots
      /\ IntrMask' \in {"none", "norx", "all"}
  BY DEF HwStart, TypeOK, Slots
<1> QED BY <1>1, <1>2, <1>3

\* The variables stay well typed.
LEMMA TypeStep == TypeOK /\ [Next]_vars => TypeOK'
<1> SUFFICES ASSUME TypeOK, [Next]_vars PROVE TypeOK'
  OBVIOUS
<1> USE DEF TypeOK, chipVars, privVars, pollVars, workVars, coreVars, history
<1>1. ASSUME NEW kind \in Kinds, ChipReceives(kind) PROVE TypeOK'
  <2>1. rx_ring' \in Seq(Kinds) /\ Len(rx_ring') < RingSlots
    BY <1>1, AppendProperties, LenProperties DEF ChipReceives
  <2>2. intr' \in BOOLEAN /\ swallowed' \in BOOLEAN BY Zenon, <1>1 DEF ChipReceives
  <2>3. QED BY <1>1, <2>1, <2>2 DEF ChipReceives
<1>2. CASE ChipCopied
  <2>1. PICK i \in 1 .. Len(rx_ring) : rx_ring' = [rx_ring EXCEPT ![i] = "ok"]
    BY <1>2 DEF ChipCopied
  <2>2. rx_ring' \in Seq(Kinds) /\ Len(rx_ring') = Len(rx_ring)
    BY <2>1, ExceptSeq DEF Kinds
  <2>3. intr' \in BOOLEAN /\ swallowed' \in BOOLEAN BY Zenon, <1>2 DEF ChipCopied
  <2>4. QED BY <1>2, <2>2, <2>3 DEF ChipCopied
<1>3. CASE FifoTick
  BY <1>3 DEF FifoTick
<1>4. CASE Interrupt
  BY <1>4 DEF Interrupt
<1>5. CASE PollEnter
  BY <1>5 DEF PollEnter
<1>6. CASE RxLook
  <2>1. /\ UNCHANGED <<rxEnb, intr, IntrMask, napi, workVars, coreVars, met, late>>
        /\ received < Weight /\ ~RxBufEmpty
    BY <1>6 DEF RxLook, RxGoesOn, RxTake, RxErr
  <2>2. CASE /\ poll' = "acklast" /\ fifo_copy_timeout' = "set"
             /\ UNCHANGED <<rx_ring, RxBufPtr, intr, cur_rx, pos, received, swallowed, torn>>
    BY <2>1, <2>2
  <2>3. CASE RxTake /\ fifo_copy_timeout' = "none"
    <3>1. After(pos) \in Slots BY AfterTyped
    <3>2. rx_ring' \in Seq(Kinds) /\ Len(rx_ring') < RingSlots
      BY <2>1, <2>3, <3>1, UnreadFromTyped DEF RxTake
    <3>3. QED BY <2>1, <2>3, <3>1, <3>2 DEF RxTake
  <2>4. CASE RxErr /\ fifo_copy_timeout' = "none"
    <3>1. swallowed' \in BOOLEAN /\ torn' \in BOOLEAN BY Zenon, <2>4 DEF RxErr
    <3>2. rx_ring' \in Seq(Kinds) /\ Len(rx_ring') = 0 BY <2>4, EmptySeq DEF RxErr
    <3>3. QED BY <2>1, <2>4, <3>1, <3>2 DEF RxErr, Slots
  <2>5. QED BY <1>6, <2>2, <2>3, <2>4 DEF RxLook
<1>7. CASE RxLeave
  BY <1>7 DEF RxLeave
<1>8. CASE IsrAck
  BY <1>8 DEF IsrAck
<1>9. CASE RxStore
  BY <1>9 DEF RxStore
<1>10. CASE PollEnd
  <2>1. met' \in BOOLEAN BY Zenon, <1>10 DEF PollEnd
  <2>2. napi' \in {"idle", "sched"} /\ IntrMask' \in {"none", "norx", "all"}
    BY <1>10 DEF PollEnd
  <2>3. QED BY <1>10, <2>1, <2>2 DEF PollEnd, Slots
<1>11. CASE Open
  <2>1. rx_ring' = [i \in 1 .. Len(rx_ring) |-> "bad"] /\ "bad" \in Kinds
    BY <1>11 DEF Open, Kinds
  <2>2. Len(rx_ring) \in Nat BY LenProperties
  <2>3. rx_ring' \in [1 .. Len(rx_ring) -> Kinds] BY <2>1
  <2>4. rx_ring' \in Seq(Kinds) BY <2>2, <2>3, SeqDef
  <2>5. Len(rx_ring') = Len(rx_ring) BY <2>2, <2>3, <2>4, LenProperties
  <2>6. QED BY <1>11, <2>4, <2>5 DEF Open
<1>12. CASE OpenStart
  BY <1>12, HwStartTyped DEF OpenStart
<1>13. CASE OpenUnmask
  BY <1>13 DEF OpenUnmask, HwUnmask
<1>14. CASE CloseBegin
  BY <1>14 DEF CloseBegin
<1>15. CASE CloseNapi
  BY <1>15 DEF CloseNapi
<1>16. CASE CloseStop
  <2>1. rxEnb' \in BOOLEAN BY Zenon, <1>16 DEF CloseStop
  <2>2. QED BY <1>16, <2>1 DEF CloseStop
<1>17. CASE Remove
  <2>1. removing' \in BOOLEAN /\ pending' \in BOOLEAN BY Zenon, <1>17 DEF Remove
  <2>2. QED BY <1>17, <2>1 DEF Remove
<1>18. CASE RemoveFree
  BY <1>18 DEF RemoveFree
<1>19. CASE TxTimeout
  BY <1>19 DEF TxTimeout
<1>20. CASE ThrRun
  <2>1. pending' = FALSE \/ pending' = netif_running BY Zenon, <1>20 DEF ThrRun
  <2>2. netif_running \in BOOLEAN BY DEF netif_running
  <2>3. pending' \in BOOLEAN BY Zenon, <2>1, <2>2
  <2>4. thr' \in {"idle", "lock"} BY <1>20 DEF ThrRun
  <2>5. QED BY <1>20, <2>3, <2>4 DEF ThrRun
<1>21. CASE ThrMask
  BY <1>21 DEF ThrMask
<1>22. CASE ThrStart
  BY <1>22, HwStartTyped DEF ThrStart
<1>23. CASE ThrUnmask
  BY <1>23 DEF ThrUnmask, HwUnmask
<1>24. CASE Suspend
  <2>1. rxEnb' \in BOOLEAN BY Zenon, <1>24 DEF Suspend
  <2>2. QED BY <1>24, <2>1 DEF Suspend
<1>25. CASE Sleep
  BY <1>25 DEF Sleep
<1>26. CASE Wake
  BY <1>26 DEF Wake
<1>27. CASE ResumeStart
  BY <1>27, HwStartTyped DEF ResumeStart
<1>28. CASE ResumeUnmask
  BY <1>28 DEF ResumeUnmask, HwUnmask
<1>29. CASE UNCHANGED vars BY <1>29 DEF vars
<1> QED
  BY <1>1, <1>2, <1>3, <1>4, <1>5, <1>6, <1>7, <1>8, <1>9, <1>10, <1>11, <1>12, <1>13, <1>14,
     <1>15, <1>16, <1>17, <1>18, <1>19, <1>20, <1>21, <1>22, <1>23, <1>24, <1>25, <1>26,
     <1>27, <1>28, <1>29 DEF Next

\* Who may be active when is kept by every step.
LEMMA ControlStep == TypeOK /\ Control /\ [Next]_vars => Control'
<1> SUFFICES ASSUME TypeOK, Control, [Next]_vars PROVE Control'
  OBVIOUS
<1> USE DEF TypeOK, Control, thrHasRxLock, chipVars, privVars, pollVars, workVars, coreVars, history
<1>1. ASSUME NEW kind \in Kinds, ChipReceives(kind) PROVE Control'
  BY <1>1 DEF ChipReceives
<1>2. CASE ChipCopied
  BY <1>2 DEF ChipCopied
<1>3. CASE FifoTick
  BY <1>3 DEF FifoTick
<1>4. CASE Interrupt
  BY <1>4 DEF Interrupt, netif_running, irqRequested
<1>5. CASE PollEnter
  BY <1>5 DEF PollEnter
<1>6. CASE RxLook
  BY <1>6 DEF RxLook, RxTake, RxErr
<1>7. CASE RxLeave
  BY <1>7 DEF RxLeave
<1>8. CASE IsrAck
  BY <1>8 DEF IsrAck
<1>9. CASE RxStore
  BY <1>9 DEF RxStore
<1>10. CASE PollEnd
  BY <1>10 DEF PollEnd, asleep
<1>11. CASE Open
  BY <1>11 DEF Open, rtnlFree
<1>12. CASE OpenStart
  BY <1>12 DEF OpenStart, HwStart, asleep
<1>13. CASE OpenUnmask
  BY <1>13 DEF OpenUnmask, HwUnmask, asleep
<1>14. CASE CloseBegin
  BY <1>14 DEF CloseBegin, rtnlFree
<1>15. CASE CloseNapi
  BY <1>15 DEF CloseNapi
<1>16. CASE CloseStop
  BY <1>16 DEF CloseStop
<1>17. CASE Remove
  BY <1>17 DEF Remove, rtnlFree
<1>18. CASE RemoveFree
  BY <1>18 DEF RemoveFree, rtnlFree
<1>19. CASE TxTimeout
  BY <1>19 DEF TxTimeout
<1>20. CASE ThrRun
  BY <1>20 DEF ThrRun, netif_running, rtnlFree
<1>21. CASE ThrMask
  BY <1>21 DEF ThrMask, asleep
<1>22. CASE ThrStart
  BY <1>22 DEF ThrStart, HwStart, asleep
<1>23. CASE ThrUnmask
  BY <1>23 DEF ThrUnmask, HwUnmask, asleep
<1>24. CASE Suspend
  BY <1>24 DEF Suspend
<1>25. CASE Sleep
  BY <1>25 DEF Sleep
<1>26. CASE Wake
  BY <1>26 DEF Wake
<1>27. CASE ResumeStart
  BY <1>27 DEF ResumeStart, HwStart, asleep
<1>28. CASE ResumeUnmask
  BY <1>28 DEF ResumeUnmask, HwUnmask, asleep
<1>29. CASE UNCHANGED vars BY <1>29 DEF vars
<1> QED
  BY <1>1, <1>2, <1>3, <1>4, <1>5, <1>6, <1>7, <1>8, <1>9, <1>10, <1>11, <1>12, <1>13, <1>14,
     <1>15, <1>16, <1>17, <1>18, <1>19, <1>20, <1>21, <1>22, <1>23, <1>24, <1>25, <1>26,
     <1>27, <1>28, <1>29 DEF Next

\* Enabled and unmasked at rest, masked while polled: every step keeps it.
LEMMA UnmaskedStep == TypeOK /\ Control /\ Unmasked /\ [Next]_vars => Unmasked'
<1> SUFFICES ASSUME TypeOK, Control, Unmasked, [Next]_vars PROVE Unmasked'
  OBVIOUS
<1> USE DEF TypeOK, Control, Unmasked, Attentive, netif_running, thrHasRxLock, chipVars,
     privVars, pollVars, workVars, coreVars, history
<1>1. ASSUME NEW kind \in Kinds, ChipReceives(kind) PROVE Unmasked'
  BY <1>1 DEF ChipReceives
<1>2. CASE ChipCopied
  BY <1>2 DEF ChipCopied
<1>3. CASE FifoTick
  BY <1>3 DEF FifoTick
<1>4. CASE Interrupt
  BY <1>4 DEF Interrupt, netif_running, irqRequested
<1>5. CASE PollEnter
  BY <1>5 DEF PollEnter
<1>6. CASE RxLook
  BY <1>6 DEF RxLook, RxTake, RxErr
<1>7. CASE RxLeave
  BY <1>7 DEF RxLeave
<1>8. CASE IsrAck
  BY <1>8 DEF IsrAck
<1>9. CASE RxStore
  BY <1>9 DEF RxStore
<1>10. CASE PollEnd
  BY <1>10 DEF PollEnd, asleep
<1>11. CASE Open
  BY <1>11 DEF Open, rtnlFree
<1>12. CASE OpenStart
  BY <1>12 DEF OpenStart, HwStart, asleep
<1>13. CASE OpenUnmask
  BY <1>13 DEF OpenUnmask, HwUnmask, asleep
<1>14. CASE CloseBegin
  BY <1>14 DEF CloseBegin, rtnlFree
<1>15. CASE CloseNapi
  BY <1>15 DEF CloseNapi
<1>16. CASE CloseStop
  BY <1>16 DEF CloseStop
<1>17. CASE Remove
  BY <1>17 DEF Remove, rtnlFree
<1>18. CASE RemoveFree
  BY <1>18 DEF RemoveFree, rtnlFree
<1>19. CASE TxTimeout
  BY <1>19 DEF TxTimeout
<1>20. CASE ThrRun
  BY <1>20 DEF ThrRun, netif_running, rtnlFree
<1>21. CASE ThrMask
  BY <1>21 DEF ThrMask, asleep
<1>22. CASE ThrStart
  BY <1>22 DEF ThrStart, HwStart, asleep
<1>23. CASE ThrUnmask
  BY <1>23 DEF ThrUnmask, HwUnmask, asleep
<1>24. CASE Suspend
  BY <1>24 DEF Suspend
<1>25. CASE Sleep
  BY <1>25 DEF Sleep
<1>26. CASE Wake
  BY <1>26 DEF Wake
<1>27. CASE ResumeStart
  BY <1>27 DEF ResumeStart, HwStart, asleep
<1>28. CASE ResumeUnmask
  BY <1>28 DEF ResumeUnmask, HwUnmask, asleep
<1>29. CASE UNCHANGED vars BY <1>29 DEF vars
<1> QED
  BY <1>1, <1>2, <1>3, <1>4, <1>5, <1>6, <1>7, <1>8, <1>9, <1>10, <1>11, <1>12, <1>13, <1>14,
     <1>15, <1>16, <1>17, <1>18, <1>19, <1>20, <1>21, <1>22, <1>23, <1>24, <1>25, <1>26,
     <1>27, <1>28, <1>29 DEF Next

\* Every step keeps driver and chip in agreement.
LEMMA AgreeStep == TypeOK /\ Control /\ Agree /\ [Next]_vars => Agree'
<1> SUFFICES ASSUME TypeOK, Control, Agree, [Next]_vars PROVE Agree'
  OBVIOUS
<1> USE DEF TypeOK, Control, Agree, Attentive, InRx, thrHasRxLock, chipVars, privVars,
     pollVars, workVars, coreVars, history
<1>1. ASSUME NEW kind \in Kinds, ChipReceives(kind) PROVE Agree'
  BY <1>1 DEF ChipReceives
<1>2. CASE ChipCopied
  BY <1>2 DEF ChipCopied
<1>3. CASE FifoTick
  BY <1>3 DEF FifoTick
<1>4. CASE Interrupt
  BY <1>4 DEF Interrupt, netif_running, irqRequested
<1>5. CASE PollEnter
  BY <1>5 DEF PollEnter
<1>6. CASE RxLook
  BY <1>6 DEF RxLook, RxTake, RxErr
<1>7. CASE RxLeave
  BY <1>7 DEF RxLeave
<1>8. CASE IsrAck
  BY <1>8 DEF IsrAck
<1>9. CASE RxStore
  BY <1>9 DEF RxStore
<1>10. CASE PollEnd
  BY <1>10 DEF PollEnd, asleep
<1>11. CASE Open
  BY <1>11 DEF Open, rtnlFree
<1>12. CASE OpenStart
  BY <1>12 DEF OpenStart, HwStart, asleep
<1>13. CASE OpenUnmask
  BY <1>13 DEF OpenUnmask, HwUnmask, asleep
<1>14. CASE CloseBegin
  BY <1>14 DEF CloseBegin, rtnlFree
<1>15. CASE CloseNapi
  BY <1>15 DEF CloseNapi
<1>16. CASE CloseStop
  BY <1>16 DEF CloseStop
<1>17. CASE Remove
  BY <1>17 DEF Remove, rtnlFree
<1>18. CASE RemoveFree
  BY <1>18 DEF RemoveFree, rtnlFree
<1>19. CASE TxTimeout
  BY <1>19 DEF TxTimeout
<1>20. CASE ThrRun
  BY <1>20 DEF ThrRun, netif_running, rtnlFree
<1>21. CASE ThrMask
  BY <1>21 DEF ThrMask, asleep
<1>22. CASE ThrStart
  BY <1>22 DEF ThrStart, HwStart, asleep
<1>23. CASE ThrUnmask
  BY <1>23 DEF ThrUnmask, HwUnmask, asleep
<1>24. CASE Suspend
  BY <1>24 DEF Suspend
<1>25. CASE Sleep
  BY <1>25 DEF Sleep
<1>26. CASE Wake
  BY <1>26 DEF Wake
<1>27. CASE ResumeStart
  BY <1>27 DEF ResumeStart, HwStart, asleep
<1>28. CASE ResumeUnmask
  BY <1>28 DEF ResumeUnmask, HwUnmask, asleep
<1>29. CASE UNCHANGED vars BY <1>29 DEF vars
<1> QED
  BY <1>1, <1>2, <1>3, <1>4, <1>5, <1>6, <1>7, <1>8, <1>9, <1>10, <1>11, <1>12, <1>13, <1>14,
     <1>15, <1>16, <1>17, <1>18, <1>19, <1>20, <1>21, <1>22, <1>23, <1>24, <1>25, <1>26,
     <1>27, <1>28, <1>29 DEF Next

\* Every step keeps account of the packets.
LEMMA AccountedStep == TypeOK /\ Control /\ Agree /\ Accounted /\ [Next]_vars => Accounted'
<1> SUFFICES ASSUME TypeOK, Control, Agree, Accounted, [Next]_vars PROVE Accounted'
  OBVIOUS
<1> USE DEF TypeOK, Control, Agree, Accounted, Attentive, InRx, RxBufEmpty, thrHasRxLock,
     chipVars, privVars, pollVars, workVars, coreVars, history
<1>1. ASSUME NEW kind \in Kinds, ChipReceives(kind) PROVE Accounted'
  <2>1. CASE Len(rx_ring) = RingSlots - 1
    BY <1>1, <2>1 DEF ChipReceives
  <2>2. CASE Len(rx_ring) # RingSlots - 1
    <3>1. /\ rx_ring' = Append(rx_ring, kind) /\ (intr' <=> intr \/ kind # "copying")
          /\ swallowed' <=> swallowed /\ ~intr'
          /\ UNCHANGED <<phase, pm, torn, poll, received>>
      BY <1>1, <2>2 DEF ChipReceives
    <3>2. Head(rx_ring') = IF rx_ring = <<>> THEN kind ELSE Head(rx_ring)
      BY <3>1, HeadTailAppend
    <3>3. CASE rx_ring = <<>> BY <3>1, <3>2, <3>3
    <3>4. CASE rx_ring # <<>> BY <3>1, <3>2, <3>4
    <3>5. QED BY <3>3, <3>4
  <2>3. QED BY <2>1, <2>2
<1>2. CASE ChipCopied
  BY <1>2 DEF ChipCopied
<1>3. CASE FifoTick
  BY <1>3 DEF FifoTick
<1>4. CASE Interrupt
  BY <1>4 DEF Interrupt, netif_running, irqRequested
<1>5. CASE PollEnter
  BY <1>5 DEF PollEnter
<1>6. CASE RxLook
  <2>1. PICK kind \in Header :
           \/ /\ kind = "copying" /\ poll' = "acklast"
              /\ UNCHANGED <<rx_ring, intr, received, swallowed, torn>>
           \/ poll' = "ack"
           \/ rx_ring' = <<>>
    BY <1>6 DEF RxLook, RxTake, RxErr
  <2>2. poll = "loop" /\ UNCHANGED <<phase, pm>> BY <1>6 DEF RxLook
  <2>3. Attentive /\ ~torn => Header = {Head(rx_ring)} BY <2>2 DEF Header
  <2>4. QED BY <2>1, <2>2, <2>3
<1>7. CASE RxLeave
  <2>1. /\ poll' = IF received = 0 THEN "acklast" ELSE "store"
        /\ UNCHANGED <<rx_ring, intr, received, swallowed, torn, phase, pm>>
    BY <1>7 DEF RxLeave
  <2>2. Attentive /\ ~RxBufEmpty => received = Weight
    BY <1>7 DEF RxLeave, RxGoesOn, netif_running, asleep
  <2>3. Weight # 0 OBVIOUS
  <2>4. QED BY <2>1, <2>2, <2>3
<1>8. CASE IsrAck
  BY <1>8 DEF IsrAck
<1>9. CASE RxStore
  BY <1>9 DEF RxStore
<1>10. CASE PollEnd
  BY <1>10 DEF PollEnd, asleep
<1>11. CASE Open
  BY <1>11 DEF Open, rtnlFree
<1>12. CASE OpenStart
  BY <1>12 DEF OpenStart, HwStart, asleep
<1>13. CASE OpenUnmask
  BY <1>13 DEF OpenUnmask, HwUnmask, asleep
<1>14. CASE CloseBegin
  BY <1>14 DEF CloseBegin, rtnlFree
<1>15. CASE CloseNapi
  BY <1>15 DEF CloseNapi
<1>16. CASE CloseStop
  BY <1>16 DEF CloseStop
<1>17. CASE Remove
  BY <1>17 DEF Remove, rtnlFree
<1>18. CASE RemoveFree
  BY <1>18 DEF RemoveFree, rtnlFree
<1>19. CASE TxTimeout
  BY <1>19 DEF TxTimeout
<1>20. CASE ThrRun
  BY <1>20 DEF ThrRun, netif_running, rtnlFree
<1>21. CASE ThrMask
  BY <1>21 DEF ThrMask, asleep
<1>22. CASE ThrStart
  BY <1>22 DEF ThrStart, HwStart, asleep
<1>23. CASE ThrUnmask
  BY <1>23 DEF ThrUnmask, HwUnmask, asleep
<1>24. CASE Suspend
  BY <1>24 DEF Suspend
<1>25. CASE Sleep
  BY <1>25 DEF Sleep
<1>26. CASE Wake
  BY <1>26 DEF Wake
<1>27. CASE ResumeStart
  BY <1>27 DEF ResumeStart, HwStart, asleep
<1>28. CASE ResumeUnmask
  BY <1>28 DEF ResumeUnmask, HwUnmask, asleep
<1>29. CASE UNCHANGED vars BY <1>29 DEF vars
<1> QED
  BY <1>1, <1>2, <1>3, <1>4, <1>5, <1>6, <1>7, <1>8, <1>9, <1>10, <1>11, <1>12, <1>13, <1>14,
     <1>15, <1>16, <1>17, <1>18, <1>19, <1>20, <1>21, <1>22, <1>23, <1>24, <1>25, <1>26,
     <1>27, <1>28, <1>29 DEF Next

-----------------------------------------------------------------------------
\* IInv is an inductive invariant of the specification.
THEOREM Inductive == Spec => []IInv
<1>1. Init => IInv BY InitIInv
<1>2. IInv /\ [Next]_vars => IInv'
  BY TypeStep, ControlStep, UnmaskedStep, AgreeStep, AccountedStep DEF IInv
<1> QED BY <1>1, <1>2, PTL DEF Spec

\* Every reachable state is well typed; in particular the unread packets never
\* outgrow the ring, whatever position the driver writes to RxBufPtr.
THEOREM TypeCorrect == Spec => []TypeOK
<1>1. IInv => TypeOK BY DEF IInv
<1> QED BY <1>1, Inductive, PTL

\* For every ring and budget: while the interface is up and no reset has come in
\* the middle of a poll, driver and chip agree where the next packet begins
\* (rtl8139.c:2048-2175, cur_rx and RxBufPtr).
THEOREM StaysInStep == Spec => []InStep
<1>1. IInv => InStep
  BY DEF IInv, Agree, Attentive, InRx, InStep
<1> QED BY <1>1, Inductive, PTL

\* For every ring and budget: a scheduled poll finds the line masked unless the
\* chip was reset meanwhile; with NAPI at rest the receiver is enabled and
\* unmasked, and a packet in the ring has its interrupt to come unless a poll is
\* known to have swallowed it (rtl8139.c:2158-2170, 2211-2231, 2281-2286).
THEOREM NoPacketStranded == Spec => []NothingStranded
<1>1. IInv => NothingStranded
  <2> SUFFICES ASSUME IInv PROVE NothingStranded OBVIOUS
  <2>1. napi = "sched" /\ ~met /\ netif_running => IntrMask # "all"
    BY DEF IInv, Unmasked
  <2>2. ASSUME phase = "up", pm = "on", thr = "idle", napi = "idle"
        PROVE  /\ rxEnb /\ IntrMask = "all"
               /\ ~torn /\ ~RxBufEmpty /\ Head(rx_ring) # "copying" => intr \/ swallowed
    <3>1. Attentive /\ poll = "idle" BY <2>2 DEF Attentive, IInv, Control
    <3>2. rxEnb /\ IntrMask = "all" BY <2>2, <3>1 DEF IInv, Unmasked
    <3>3. QED BY <3>1, <3>2 DEF IInv, Accounted
  <2>3. QED BY <2>1, <2>2 DEF NothingStranded
<1> QED BY <1>1, Inductive, PTL

\* After remove has freed the device no poll, work item or interrupt of it is
\* active, and work is queued only if it was queued after the cancellation
\* (rtl8139.c:1146-1165, cancel_delayed_work_sync before unregister_netdev).
THEOREM NothingUsedAfterFree == Spec => []FreedIsUnused
<1>1. IInv => FreedIsUnused
  BY DEF IInv, TypeOK, Control, FreedIsUnused
<1> QED BY <1>1, Inductive, PTL
=============================================================================
