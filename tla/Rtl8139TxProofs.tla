-------------------------- MODULE Rtl8139TxProofs --------------------------
(***************************************************************************)
(* Proofs about Rtl8139Tx, for every ring size and any number of frames:   *)
(* type correctness, and the agreement between the ring and the queue that *)
(* holds as long as each reset finds the queue stopped. The invariant is   *)
(* IInv: RingBound alone is not inductive, because a reset empties the     *)
(* ring under a queue that stays stopped for several steps (Resetting),    *)
(* and because a transmit call in progress must be known to have found     *)
(* the queue awake (Control).                                              *)
(* That the frames leave in order is an action property: it needs to know  *)
(* where in the ring the chip is (Line), which IInv does not say.          *)
(***************************************************************************)
EXTENDS Rtl8139Tx, TLAPS

\* rtl8139_tx_timeout_task between rtl8139_tx_clear and netif_wake_queue
Resetting == {"reset", "enable", "unmask", "wake"}

\* The control points that exclude each other: a transmit call is in progress
\* only while the queue is awake and the interface not down; the work item runs
\* only while the interface is up (rtnl)
Control ==
    /\ xmit = "copied" => queue = "awake"
    /\ queue = "awake" => phase # "down"
    /\ irq # "idle" => phase # "down"
    /\ thr # "idle" => phase = "up"

\* The ring and the queue, as long as each reset found the queue stopped
Ring ==
    /\ cur_tx - dirty_tx \in 0 .. NumTxDesc
    /\ queue = "awake" => cur_tx - dirty_tx < NumTxDesc
    /\ thr \in Resetting => queue = "stopped" /\ cur_tx = 0 /\ dirty_tx = 0
    /\ phase = "up" /\ queue = "stopped" /\ thr \notin Resetting
         => cur_tx - dirty_tx = NumTxDesc

IInv == TypeOK /\ Control /\ (clean => Ring)

USE NumTxDescAssumption

\* Every index modulo NUM_TX_DESC is a descriptor.
LEMMA SlotOfAny == ASSUME NEW n \in Nat PROVE n % NumTxDesc \in Slots
BY DEF Slots

\* ChipReset leaves the chip's registers well typed.
LEMMA ChipResetTyped ==
    ChipReset => /\ TxStatus' \in [Slots -> TxStatusValues] /\ hw_tx' \in Slots
                 /\ IntrStatus' \subseteq {"TxOK", "TxErr"}
                 /\ halted' \in BOOLEAN /\ hung' \in BOOLEAN
<1> SUFFICES ASSUME ChipReset
             PROVE  /\ TxStatus' \in [Slots -> TxStatusValues] /\ hw_tx' \in Slots
                    /\ IntrStatus' \subseteq {"TxOK", "TxErr"}
                    /\ halted' \in BOOLEAN /\ hung' \in BOOLEAN
  OBVIOUS
<1>1. halted' \in BOOLEAN /\ hung' \in BOOLEAN BY Zenon DEF ChipReset
<1>2. TxStatus' \in [Slots -> TxStatusValues] BY DEF ChipReset, TxStatusValues
<1>3. hw_tx' \in Slots BY DEF ChipReset, Slots
<1> QED BY <1>1, <1>2, <1>3 DEF ChipReset

\* A chip completion leaves the chip's registers well typed.
LEMMA ChipSendsTyped ==
    ASSUME TypeOK, NEW r \in {"ok", "abort"}, NEW e \in {"TxOK", "TxErr"}, ChipSends(r, e)
    PROVE  /\ TxStatus' \in [Slots -> TxStatusValues] /\ hw_tx' \in Slots
           /\ IntrStatus' \subseteq {"TxOK", "TxErr"}
<1>1. hw_tx + 1 \in Nat BY DEF TypeOK, Slots
<1>2. hw_tx' \in Slots BY <1>1, SlotOfAny DEF ChipSends
<1> QED BY <1>2 DEF TypeOK, ChipSends, TxStatusValues

\* The invariant holds when the driver has probed the chip.
LEMMA InitIInv == Init => IInv
<1> SUFFICES ASSUME Init PROVE IInv OBVIOUS
<1>1. TypeOK
  <2>1. /\ watchdog_fired \in BOOLEAN /\ IntrMask \in BOOLEAN /\ txEnb \in BOOLEAN
        /\ halted \in BOOLEAN /\ hung \in BOOLEAN /\ pending \in BOOLEAN /\ have_thread \in BOOLEAN /\ clean \in BOOLEAN
    BY Zenon DEF Init
  <2>2. 0 \in Slots BY DEF Slots
  <2>3. QED BY <2>1, <2>2 DEF Init, TypeOK, TxStatusValues, NoFrame
<1>2. Control /\ Ring BY DEF Init, Control, Ring, Resetting
<1> QED BY <1>1, <1>2 DEF IInv

\* The variables stay well typed.
LEMMA TypeStep == TypeOK /\ [Next]_vars => TypeOK'
<1> SUFFICES ASSUME TypeOK, [Next]_vars PROVE TypeOK'
  OBVIOUS
<1>1. CASE Open
  <2>1. 0 \in Nat /\ Slots' = Slots BY DEF Slots
  <2>2. /\ watchdog_fired' \in BOOLEAN /\ pending' \in BOOLEAN /\ carrier' \in BOOLEAN
        /\ txEnb' \in BOOLEAN /\ IntrMask' \in BOOLEAN /\ clean' \in BOOLEAN
    BY <1>1, Zenon DEF Open, TypeOK
  <2>3. QED BY <1>1, <2>1, <2>2, ChipResetTyped DEF Open, TypeOK, xmitVars, irqVars
<1>2. CASE CloseBegin
  BY <1>2 DEF CloseBegin, TypeOK, driverVars, chipVars, xmitVars, irqVars, thrVars, history
<1>3. CASE CloseStop
  <2>1. txEnb' \in BOOLEAN /\ IntrMask' \in BOOLEAN /\ carrier' \in BOOLEAN
    BY <1>3, Zenon DEF CloseStop, TypeOK
  <2>2. QED BY <1>3, <2>1 DEF CloseStop, TypeOK, xmitVars, irqVars, thrVars, history
<1>4. CASE XmitCopy
  <2>1. cur_tx % NumTxDesc \in Slots BY SlotOfAny DEF TypeOK
  <2>2. entry' \in Slots /\ nframes' \in Nat BY <1>4, <2>1 DEF XmitCopy, TypeOK
  <2>3. tx_buf' \in [Slots -> Nat] BY <1>4, <2>2 DEF XmitCopy, TypeOK
  <2>4. QED BY <1>4, <2>2, <2>3 DEF XmitCopy, TypeOK, driverVars, irqVars, thrVars, history
<1>5. CASE XmitCommit
  BY <1>5 DEF XmitCommit, TypeOK, TxStatusValues, irqVars, thrVars, history
<1>6. CASE ChipSendOk
  <2>1. ChipSends("ok", "TxOK") /\ wire' = tx_buf[hw_tx] /\ UNCHANGED halted
    BY <1>6 DEF ChipSendOk
  <2>2. wire' \in Nat BY <2>1 DEF TypeOK
  <2>3. QED BY <2>1, <2>2, ChipSendsTyped DEF ChipSends, TypeOK, driverVars, coreVars, xmitVars, irqVars, thrVars
<1>7. CASE ChipAbort
  <2>1. ChipSends("abort", "TxErr") /\ halted' = TRUE /\ UNCHANGED wire
    BY <1>7 DEF ChipAbort
  <2>2. QED BY <2>1, ChipSendsTyped DEF ChipSends, TypeOK, driverVars, coreVars, xmitVars, irqVars, thrVars
<1>8. CASE ChipHang
  BY <1>8 DEF ChipHang, TypeOK, driverVars, coreVars, xmitVars, irqVars, thrVars, history
<1>9. CASE IrqEnter
  <2>1. IntrMask' \in BOOLEAN BY Zenon, <1>9 DEF IrqEnter, TypeOK
  <2>2. IntrStatus' \subseteq {"TxOK", "TxErr"} /\ irqStatus' \subseteq {"TxOK", "TxErr"}
    BY Zenon, <1>9 DEF IrqEnter, TypeOK, irqVars
  <2>3. irq' \in {"idle", "reap", "ackerr"} BY Zenon, <1>9 DEF IrqEnter, TypeOK, irqVars
  <2>4. QED BY <1>9, <2>1, <2>2, <2>3 DEF IrqEnter, TypeOK, driverVars, coreVars, xmitVars, irqVars, thrVars, history
<1>10. CASE IrqReap
  <2>1. PICK d \in dirty_tx .. cur_tx : 
           /\ dirty_tx' = IF OutOfSync(d) THEN d + NumTxDesc ELSE d
           /\ \/ halted' = FALSE /\ IntrStatus' = IntrStatus \ {"TxErr"}
              \/ UNCHANGED <<halted, IntrStatus>>
    BY <1>10 DEF IrqReap
  <2>2. dirty_tx' \in Nat BY <2>1 DEF TypeOK
  <2>3. halted' \in BOOLEAN /\ IntrStatus' \subseteq {"TxOK", "TxErr"} BY <2>1 DEF TypeOK
  <2>4. QED BY <1>10, <2>2, <2>3 DEF IrqReap, TypeOK, xmitVars, thrVars, history
<1>11. CASE IrqAckErr
  BY <1>11 DEF IrqAckErr, TypeOK, driverVars, coreVars, xmitVars, thrVars, history
<1>12. CASE TxTimeout
  <2>1. watchdog_fired' \in BOOLEAN /\ pending' \in BOOLEAN
    BY Zenon, <1>12 DEF TxTimeout, TypeOK
  <2>2. UNCHANGED <<cur_tx, dirty_tx, chipVars, coreVars, xmitVars, irqVars, thr, have_thread, history>>
    BY <1>12 DEF TxTimeout
  <2>3. QED BY <2>1, <2>2 DEF TypeOK, chipVars, coreVars, xmitVars, irqVars, history
<1>13. CASE ThrStart
  <2>1. watchdog_fired' \in BOOLEAN /\ pending' \in BOOLEAN
    BY Zenon, <1>13 DEF ThrStart, TypeOK, netif_running
  <2>2. thr' \in {"idle", "stoptx"} BY <1>13 DEF ThrStart
  <2>3. QED BY <1>13, <2>1, <2>2 DEF ThrStart, ThrUnchanged, TypeOK, chipVars, coreVars, xmitVars, irqVars, history
<1>14. CASE ThrStopTx
  <2>1. txEnb' \in BOOLEAN BY Zenon, <1>14 DEF ThrStopTx
  <2>2. QED BY <1>14, <2>1 DEF ThrStopTx, ThrUnchanged, TypeOK, driverVars, coreVars, xmitVars, irqVars, history
<1>15. CASE ThrMask
  <2>1. IntrMask' \in BOOLEAN BY Zenon, <1>15 DEF ThrMask
  <2>2. QED BY <1>15, <2>1 DEF ThrMask, ThrUnchanged, TypeOK, driverVars, coreVars, xmitVars, irqVars, history
<1>16. CASE ThrClear
  BY <1>16 DEF ThrClear, ThrUnchanged, TypeOK, chipVars, coreVars, xmitVars, irqVars
<1>17. CASE ThrReset
  BY <1>17, ChipResetTyped DEF ThrReset, ThrUnchanged, TypeOK, driverVars, coreVars, xmitVars, irqVars, history
<1>18. CASE ThrEnable
  BY <1>18 DEF ThrEnable, ThrUnchanged, TypeOK, driverVars, coreVars, xmitVars, irqVars, history
<1>19. CASE ThrUnmask
  BY <1>19 DEF ThrUnmask, ThrUnchanged, TypeOK, driverVars, coreVars, xmitVars, irqVars, history
<1>20. CASE ThrWake
  BY <1>20 DEF ThrWake, TypeOK, driverVars, chipVars, xmitVars, irqVars, history
<1>21. CASE UNCHANGED vars
  BY <1>21 DEF vars, TypeOK, driverVars, chipVars, coreVars, xmitVars, irqVars, thrVars, history
<1>22. CASE IrqLinkChange
  BY <1>22 DEF IrqLinkChange, TypeOK, driverVars, chipVars, xmitVars, irqVars, thrVars, history
<1> QED
  BY <1>1, <1>2, <1>3, <1>4, <1>5, <1>6, <1>7, <1>8, <1>9, <1>10, <1>11, <1>12, <1>13,
     <1>14, <1>15, <1>16, <1>17, <1>18, <1>19, <1>20, <1>21, <1>22 DEF Next

\* As long as each reset finds the queue stopped, the ring and the queue agree.
LEMMA RingStep == IInv /\ [Next]_vars => Control' /\ (clean' => Ring')
<1> SUFFICES ASSUME IInv, [Next]_vars PROVE Control' /\ (clean' => Ring')
  OBVIOUS
<1>0. /\ Control
      /\ clean => Ring
      /\ cur_tx \in Nat /\ dirty_tx \in Nat
      /\ xmit \in {"idle", "copied"} /\ queue \in {"awake", "stopped"}
      /\ phase \in {"down", "up", "closing"}
  BY DEF IInv, TypeOK
<1> USE <1>0 DEF Control, Ring, Resetting
<1>1. CASE Open BY <1>1 DEF Open, xmitVars, irqVars
<1>2. CASE CloseBegin
  <2>1. /\ thr = "idle" /\ phase' = "closing"
        /\ cur_tx' = cur_tx /\ dirty_tx' = dirty_tx /\ clean' = clean
        /\ queue' = queue /\ xmit' = xmit /\ irq' = irq /\ thr' = thr
    BY <1>2 DEF CloseBegin, driverVars, xmitVars, irqVars, thrVars, history
  <2>2. Control' BY <2>1
  <2>3. QED BY <2>1, <2>2
<1>3. CASE CloseStop BY <1>3 DEF CloseStop, irqFree, xmitVars, irqVars, thrVars, history
<1>4. CASE XmitCopy BY <1>4 DEF XmitCopy, netif_running, driverVars, irqVars, thrVars, history
<1>5. CASE XmitCommit
  <2>1. /\ queue = "awake" /\ phase # "down" /\ xmit' = "idle" /\ cur_tx' = cur_tx + 1
        /\ cur_tx' - NumTxDesc = dirty_tx => queue' = "stopped"
        /\ cur_tx' - NumTxDesc # dirty_tx => queue' = "awake"
        /\ dirty_tx' = dirty_tx /\ phase' = phase /\ thr' = thr /\ clean' = clean
    BY <1>5 DEF XmitCommit, irqVars, thrVars, history
  <2>2. Control' BY <2>1
  <2>3. ASSUME clean' PROVE Ring'
    <3>1. cur_tx - dirty_tx \in 0 .. NumTxDesc - 1 /\ thr \notin Resetting
      BY <2>1, <2>3
    <3>2. cur_tx' - dirty_tx' \in 1 .. NumTxDesc BY <2>1, <3>1
    <3>3. queue' = "stopped" <=> cur_tx' - dirty_tx' = NumTxDesc BY <2>1, <3>1
    <3>4. queue' = "awake" => cur_tx' - dirty_tx' < NumTxDesc BY <2>1, <3>2, <3>3
    <3>5. QED BY <2>1, <3>1, <3>2, <3>3, <3>4
  <2>4. QED BY <2>2, <2>3
<1>6. CASE ChipSendOk \/ ChipAbort
  BY <1>6 DEF ChipSendOk, ChipAbort, ChipSends, driverVars, coreVars, xmitVars, irqVars, thrVars
<1>8. CASE ChipHang BY <1>8 DEF ChipHang, driverVars, coreVars, xmitVars, irqVars, thrVars, history
<1>9. CASE IrqEnter BY <1>9 DEF IrqEnter, netif_running, driverVars, coreVars, xmitVars, irqVars, thrVars, history
<1>10. CASE IrqReap
  <2>1. PICK d \in dirty_tx .. cur_tx : 
           dirty_tx' = IF OutOfSync(d) THEN d + NumTxDesc ELSE d
    BY <1>10 DEF IrqReap
  <2>2. /\ queue' = IF dirty_tx' # dirty_tx THEN "awake" ELSE queue
        /\ UNCHANGED <<cur_tx, phase, xmit, thr, clean>>
    BY <1>10 DEF IrqReap, xmitVars, thrVars, history
  <2>3. phase # "down" BY <1>10 DEF IrqReap
  <2>4. Control' BY <2>2, <2>3
  <2>5. ASSUME clean' PROVE Ring'
    <3>1. clean /\ dirty_tx' = d BY <2>1, <2>2, <2>5 DEF OutOfSync
    <3>2. QED BY <2>2, <3>1
  <2>6. QED BY <2>4, <2>5
<1>11. CASE IrqAckErr BY <1>11 DEF IrqAckErr, driverVars, coreVars, xmitVars, irqVars, thrVars, history
<1>12. CASE TxTimeout BY <1>12 DEF TxTimeout, coreVars, xmitVars, irqVars, history
<1>13. CASE ThrStart
  BY <1>13 DEF ThrStart, ThrUnchanged, netif_running, coreVars, xmitVars, irqVars, history
<1>14. CASE ThrStopTx BY <1>14 DEF ThrStopTx, ThrUnchanged, driverVars, coreVars, xmitVars, irqVars, history
<1>15. CASE ThrMask BY <1>15 DEF ThrMask, ThrUnchanged, driverVars, coreVars, xmitVars, irqVars, history
<1>16. CASE ThrClear
  <2>1. /\ thr = "clear" /\ thr' = "reset" /\ cur_tx' = 0 /\ dirty_tx' = 0
        /\ queue' = queue /\ phase' = phase /\ xmit' = xmit /\ irq' = irq
    BY <1>16 DEF ThrClear, ThrUnchanged, coreVars, xmitVars, irqVars
  <2>2. clean' => clean /\ queue = "stopped" BY <1>16, Zenon DEF ThrClear
  <2>3. QED BY <2>1, <2>2
<1>17. CASE ThrReset BY <1>17 DEF ThrReset, ThrUnchanged, driverVars, coreVars, xmitVars, irqVars, history
<1>18. CASE ThrEnable BY <1>18 DEF ThrEnable, ThrUnchanged, driverVars, coreVars, xmitVars, irqVars, history
<1>19. CASE ThrUnmask BY <1>19 DEF ThrUnmask, ThrUnchanged, driverVars, coreVars, xmitVars, irqVars, history
<1>20. CASE ThrWake BY <1>20 DEF ThrWake, driverVars, xmitVars, irqVars, history
<1>21. CASE UNCHANGED vars
  BY <1>21 DEF vars, driverVars, coreVars, xmitVars, irqVars, thrVars, history
<1>22. CASE IrqLinkChange
  BY <1>22 DEF IrqLinkChange, driverVars, xmitVars, irqVars, thrVars, history
<1> QED
  BY <1>1, <1>2, <1>3, <1>4, <1>5, <1>6, <1>8, <1>9, <1>10, <1>11, <1>12, <1>13,
     <1>14, <1>15, <1>16, <1>17, <1>18, <1>19, <1>20, <1>21, <1>22 DEF Next

-----------------------------------------------------------------------------
\* Division with remainder.
LEMMA DivMod ==
    ASSUME NEW a \in Nat
    PROVE  /\ a = NumTxDesc * (a \div NumTxDesc) + (a % NumTxDesc)
           /\ a % NumTxDesc \in 0 .. NumTxDesc - 1
           /\ a \div NumTxDesc \in Nat
OBVIOUS

\* A positive multiple of NUM_TX_DESC is at least NUM_TX_DESC.
LEMMA MulGap == ASSUME NEW p \in Int, p > 0 PROVE NumTxDesc * p >= NumTxDesc
OBVIOUS

\* Two indices less than NUM_TX_DESC apart fall on different descriptors.
LEMMA ModDistinct ==
    ASSUME NEW a \in Nat, NEW b \in Nat, b < a, a - b < NumTxDesc
    PROVE  a % NumTxDesc # b % NumTxDesc
<1> SUFFICES ASSUME a % NumTxDesc = b % NumTxDesc PROVE FALSE
  OBVIOUS
<1> DEFINE p == a \div NumTxDesc
           q == b \div NumTxDesc
<1>1. /\ a = NumTxDesc * p + (a % NumTxDesc)
      /\ b = NumTxDesc * q + (b % NumTxDesc)
      /\ p \in Nat /\ q \in Nat
  BY DivMod
<1>2. a - b = NumTxDesc * p - NumTxDesc * q BY <1>1
<1>3. NumTxDesc * p - NumTxDesc * q = NumTxDesc * (p - q) BY <1>1
<1>4. p - q \in Int BY <1>1
<1> HIDE DEF p, q
<1>5. p - q > 0 => NumTxDesc * (p - q) >= NumTxDesc BY <1>4, MulGap
<1>6. p - q <= 0 => NumTxDesc * (p - q) <= 0 BY <1>4
<1> QED BY <1>2, <1>3, <1>4, <1>5, <1>6

\* What start_xmit has computed outside the lock is still current, and the
\* chip owns only descriptors between dirty_tx and cur_tx
EntryCurrent == xmit = "copied" => entry = cur_tx % NumTxDesc
ChipOwnsInFlight ==
    phase # "down" /\ thr # "reset" =>
        \A i \in Slots : TxStatus[i] = "chip" =>
            \E e \in dirty_tx .. cur_tx - 1 : e % NumTxDesc = i

Owned == clean => EntryCurrent /\ ChipOwnsInFlight

\* At first the ring is empty and nothing has been copied.
LEMMA InitOwned == Init => Owned
BY DEF Init, Owned, EntryCurrent, ChipOwnsInFlight

\* The chip keeps owning the frames in flight only, and the entry a call of
\* start_xmit has computed stays the next one, unless a reset met an awake queue.
LEMMA OwnedStep == IInv /\ Owned /\ [Next]_vars => Owned'
<1> SUFFICES ASSUME IInv, Owned, [Next]_vars, clean' PROVE (EntryCurrent /\ ChipOwnsInFlight)'
  BY DEF Owned
<1>0. /\ Control
      /\ clean => Ring
      /\ cur_tx \in Nat /\ dirty_tx \in Nat /\ entry \in Slots
      /\ TxStatus \in [Slots -> TxStatusValues]
      /\ xmit \in {"idle", "copied"}
  BY DEF IInv, TypeOK
<1>a. Slots' = Slots BY DEF Slots
<1> DEFINE Same == UNCHANGED <<xmit, entry, cur_tx, dirty_tx, TxStatus, clean>>
<1>b. ASSUME Same, phase' = phase, thr' = "reset" <=> thr = "reset"
      PROVE  (EntryCurrent /\ ChipOwnsInFlight)'
  BY <1>a, <1>b DEF Owned, EntryCurrent, ChipOwnsInFlight
<1>1. CASE Open
  <2>1. xmit' = "idle" BY <1>1, <1>0 DEF Open, Control, xmitVars
  <2>2. \A i \in Slots : TxStatus'[i] = "host" BY <1>1 DEF Open, ChipReset
  <2>3. QED BY <2>1, <2>2, <1>a DEF EntryCurrent, ChipOwnsInFlight
<1>2. CASE CloseBegin
  <2>1. Same /\ phase # "down" /\ thr = "idle" /\ thr' = thr
    BY <1>2 DEF CloseBegin, driverVars, chipVars, xmitVars, thrVars, history
  <2>2. QED BY <2>1, <1>a DEF Owned, EntryCurrent, ChipOwnsInFlight
<1>3. CASE CloseStop
  BY <1>3 DEF CloseStop, xmitVars, EntryCurrent, ChipOwnsInFlight
<1>4. CASE XmitCopy
  <2>1. /\ entry' = cur_tx % NumTxDesc
        /\ UNCHANGED <<cur_tx, dirty_tx, TxStatus, clean, phase, thr>>
    BY <1>4 DEF XmitCopy, driverVars, thrVars, history
  <2>2. QED BY <2>1, <1>a DEF Owned, EntryCurrent, ChipOwnsInFlight
<1>5. CASE XmitCommit
  <2>1. /\ xmit = "copied" /\ xmit' = "idle" /\ cur_tx' = cur_tx + 1
        /\ TxStatus' = [TxStatus EXCEPT ![entry] = "chip"]
        /\ UNCHANGED <<dirty_tx, clean, phase, thr>>
    BY <1>5 DEF XmitCommit, thrVars, history
  <2>2. phase # "down" /\ thr # "reset" /\ cur_tx >= dirty_tx
    BY <2>1, <1>0 DEF Control, Ring, Resetting
  <2>3. entry = cur_tx % NumTxDesc /\ ChipOwnsInFlight
    BY <2>1 DEF Owned, EntryCurrent
  <2>4. ASSUME NEW i \in Slots, TxStatus'[i] = "chip"
        PROVE  \E e \in dirty_tx' .. cur_tx' - 1 : e % NumTxDesc = i
    <3>1. CASE i = entry
      <4>1. cur_tx \in dirty_tx' .. cur_tx' - 1 BY <2>1, <2>2, <1>0
      <4>2. QED BY <4>1, <3>1, <2>3
    <3>2. CASE i # entry
      <4>1. TxStatus[i] = "chip" BY <3>2, <2>4, <2>1, <1>0
      <4>2. PICK e \in dirty_tx .. cur_tx - 1 : e % NumTxDesc = i
        BY <4>1, <2>2, <2>3 DEF ChipOwnsInFlight
      <4>3. e \in dirty_tx' .. cur_tx' - 1 BY <2>1, <1>0
      <4>4. QED BY <4>2, <4>3
    <3>3. QED BY <3>1, <3>2
  <2>5. QED BY <2>1, <2>4, <1>a DEF EntryCurrent, ChipOwnsInFlight
<1>6. CASE ChipSendOk \/ ChipAbort
  <2>1. PICK r \in {"ok", "abort"} : TxStatus' = [TxStatus EXCEPT ![hw_tx] = r]
    BY <1>6 DEF ChipSendOk, ChipAbort, ChipSends
  <2>2. UNCHANGED <<xmit, entry, cur_tx, dirty_tx, clean, phase, thr>>
    BY <1>6 DEF ChipSendOk, ChipAbort, ChipSends, driverVars, coreVars, xmitVars, thrVars
  <2>3. \A i \in Slots : TxStatus'[i] = "chip" => TxStatus[i] = "chip" BY <2>1, <1>0
  <2>4. QED BY <2>2, <2>3, <1>a DEF Owned, EntryCurrent, ChipOwnsInFlight
<1>8. CASE ChipHang
  BY <1>8, <1>b DEF ChipHang, driverVars, coreVars, xmitVars, thrVars, history
<1>9. CASE IrqEnter
  BY <1>9, <1>b DEF IrqEnter, driverVars, coreVars, xmitVars, thrVars, history
<1>10. CASE IrqReap
  <2>1. PICK d \in dirty_tx .. cur_tx :
           ReapsTo(d) /\ dirty_tx' = IF OutOfSync(d) THEN d + NumTxDesc ELSE d
    BY <1>10 DEF IrqReap
  <2>2. UNCHANGED <<xmit, entry, cur_tx, TxStatus, clean, phase, thr>>
    BY <1>10 DEF IrqReap, xmitVars, thrVars, history
  <2>3. clean /\ Ring BY <2>2, <1>0
  <2>4. dirty_tx' = d BY <2>1, <2>3, <1>0 DEF OutOfSync, Ring
  <2>5. ASSUME NEW i \in Slots, TxStatus[i] = "chip", phase # "down", thr # "reset"
        PROVE  \E e \in dirty_tx' .. cur_tx - 1 : e % NumTxDesc = i
    <3>1. PICK e \in dirty_tx .. cur_tx - 1 : e % NumTxDesc = i
      BY <2>3, <2>5 DEF Owned, ChipOwnsInFlight
    <3>2. ~Txed(e) BY <3>1, <2>5 DEF Txed
    <3>3. e >= d BY <3>2, <2>1, <1>0 DEF ReapsTo
    <3>4. e \in dirty_tx' .. cur_tx - 1 BY <3>3, <2>4, <1>0
    <3>5. QED BY <3>1, <3>4
  <2>6. QED BY <2>2, <2>3, <2>5, <1>a DEF Owned, EntryCurrent, ChipOwnsInFlight
<1>11. CASE IrqAckErr
  BY <1>11, <1>b DEF IrqAckErr, driverVars, coreVars, xmitVars, thrVars, history
<1>12. CASE TxTimeout
  BY <1>12, <1>b DEF TxTimeout, chipVars, coreVars, xmitVars, history
<1>13. CASE ThrStart
  BY <1>13, <1>b DEF ThrStart, ThrUnchanged, chipVars, coreVars, xmitVars, history
<1>14. CASE ThrStopTx
  BY <1>14, <1>b DEF ThrStopTx, ThrUnchanged, driverVars, coreVars, xmitVars, history
<1>15. CASE ThrMask
  BY <1>15, <1>b DEF ThrMask, ThrUnchanged, driverVars, coreVars, xmitVars, history
<1>16. CASE ThrClear
  <2>1. queue = "stopped" BY <1>16, Zenon DEF ThrClear
  <2>2. thr' = "reset" /\ xmit' = xmit BY <1>16 DEF ThrClear, ThrUnchanged, xmitVars
  <2>3. xmit' # "copied" BY <2>1, <2>2, <1>0 DEF Control
  <2>4. QED BY <2>2, <2>3 DEF EntryCurrent, ChipOwnsInFlight
<1>17. CASE ThrReset
  <2>1. \A i \in Slots : TxStatus'[i] = "host" BY <1>17 DEF ThrReset, ChipReset
  <2>2. UNCHANGED <<xmit, entry, cur_tx, clean>>
    BY <1>17 DEF ThrReset, ThrUnchanged, driverVars, xmitVars, history
  <2>3. QED BY <2>1, <2>2, <1>a DEF Owned, EntryCurrent, ChipOwnsInFlight
<1>18. CASE ThrEnable
  BY <1>18, <1>b DEF ThrEnable, ThrUnchanged, driverVars, coreVars, xmitVars, history
<1>19. CASE ThrUnmask
  BY <1>19, <1>b DEF ThrUnmask, ThrUnchanged, driverVars, coreVars, xmitVars, history
<1>20. CASE ThrWake
  BY <1>20, <1>b DEF ThrWake, driverVars, chipVars, xmitVars, history
<1>21. CASE UNCHANGED vars
  BY <1>21, <1>b DEF vars, driverVars, chipVars, coreVars, xmitVars, thrVars, history
<1>22. CASE IrqLinkChange
  BY <1>22, <1>b DEF IrqLinkChange, driverVars, chipVars, xmitVars, thrVars, history
<1> QED
  BY <1>1, <1>2, <1>3, <1>4, <1>5, <1>6, <1>8, <1>9, <1>10, <1>11, <1>12, <1>13,
     <1>14, <1>15, <1>16, <1>17, <1>18, <1>19, <1>20, <1>21, <1>22 DEF Next

-----------------------------------------------------------------------------
(* The order in which frames leave.                                        *)

\* Every frame in a buffer or on the wire was handed over by the stack.
Handed == wire <= nframes /\ \A i \in Slots : tx_buf[i] <= nframes

\* The transmitter is off while the work item rebuilds the ring and while the
\* interface is down
Silent == txEnb => phase # "down" /\ thr \notin {"mask", "clear", "reset", "enable"}

\* The chip is about to send the h-th frame: what is before h in the ring is
\* done, what is from h on waits, in the order it was handed over, and after
\* all that is on the wire; a frame being copied comes after it
Line(h) ==
    /\ h % NumTxDesc = hw_tx
    /\ \A e \in dirty_tx .. h - 1 : TxStatus[e % NumTxDesc] # "chip"
    /\ \A e \in h .. cur_tx - 1 :
         /\ TxStatus[e % NumTxDesc] = "chip" /\ wire < tx_buf[e % NumTxDesc]
         /\ xmit = "copied" => tx_buf[e % NumTxDesc] < nframes
    /\ \A e, f \in h .. cur_tx - 1 :
         e < f => tx_buf[e % NumTxDesc] < tx_buf[f % NumTxDesc]

\* The frame being copied is the newest one
Newest == xmit = "copied" => tx_buf[entry] = nframes /\ wire < nframes

Lined == phase # "down" /\ thr # "reset" => \E h \in dirty_tx .. cur_tx : Line(h)

Ordered == Handed /\ Silent /\ (clean => Newest /\ Lined)

\* The descriptor after that of entry n is that of entry n + 1.
LEMMA NextSlot ==
    ASSUME NEW n \in Nat
    PROVE  ((n % NumTxDesc) + 1) % NumTxDesc = (n + 1) % NumTxDesc
<1> DEFINE q == n \div NumTxDesc
           r == n % NumTxDesc
<1>1. n = NumTxDesc * q + r /\ r \in 0 .. NumTxDesc - 1 /\ q \in Nat BY DivMod
<1> HIDE DEF q, r
<1>2. CASE r + 1 < NumTxDesc
  <2>1. n + 1 = NumTxDesc * q + (r + 1) BY <1>1
  <2>2. (n + 1) % NumTxDesc = r + 1 BY <2>1, <1>1, <1>2
  <2>3. (r + 1) % NumTxDesc = r + 1 BY <1>1, <1>2
  <2>4. QED BY <2>2, <2>3 DEF r
<1>3. CASE r + 1 = NumTxDesc
  <2>1. n + 1 = NumTxDesc * (q + 1) BY <1>1, <1>3
  <2>2. (n + 1) % NumTxDesc = 0 BY <2>1, <1>1
  <2>3. (r + 1) % NumTxDesc = 0 BY <1>3
  <2>4. QED BY <2>2, <2>3 DEF r
<1> QED BY <1>1, <1>2, <1>3

\* At first nothing has been handed over.
LEMMA InitOrdered == Init => Ordered
BY DEF Init, Ordered, Handed, Silent, Newest, Lined, NoFrame

\* The frame the chip sends is the one at the head of the line.
LEMMA HeadOfLine ==
    ASSUME IInv, Owned, clean, phase # "down", thr # "reset", TxStatus[hw_tx] = "chip",
           NEW h \in dirty_tx .. cur_tx, Line(h)
    PROVE  h \in dirty_tx .. cur_tx - 1
<1>0. cur_tx \in Nat /\ dirty_tx \in Nat /\ cur_tx - dirty_tx \in 0 .. NumTxDesc /\ hw_tx \in Slots
  BY DEF IInv, TypeOK, Ring
<1> SUFFICES ASSUME h = cur_tx PROVE FALSE BY <1>0
<1>1. PICK e \in dirty_tx .. cur_tx - 1 : e % NumTxDesc = hw_tx
  BY <1>0 DEF Owned, ChipOwnsInFlight
<1>2. e \in dirty_tx .. h - 1 BY <1>1
<1> QED BY <1>1, <1>2 DEF Line

\* No buffer and no wire ever carries a frame the stack has not handed over.
LEMMA HandedStep == TypeOK /\ Handed /\ [Next]_vars => Handed'
<1> SUFFICES ASSUME TypeOK, Handed, [Next]_vars PROVE Handed'
  OBVIOUS
<1>0. /\ tx_buf \in [Slots -> Nat] /\ nframes \in Nat /\ hw_tx \in Slots /\ wire \in Nat
      /\ wire <= nframes /\ \A i \in Slots : tx_buf[i] <= nframes /\ Slots' = Slots
  BY DEF TypeOK, Handed, Slots
<1>a. ASSUME UNCHANGED <<tx_buf, nframes, wire>> PROVE Handed'
  BY <1>a, <1>0 DEF Handed
<1>1. CASE XmitCopy
  <2>1. tx_buf' = [tx_buf EXCEPT ![entry'] = nframes'] /\ nframes' = nframes + 1 /\ wire' = wire
    BY <1>1 DEF XmitCopy, history
  <2>2. ASSUME NEW i \in Slots PROVE tx_buf'[i] <= nframes' BY <2>1, <1>0
  <2>3. wire' <= nframes' BY <2>1, <1>0
  <2>4. QED BY <2>2, <2>3, <1>0 DEF Handed
<1>2. CASE ChipSendOk
  <2>1. UNCHANGED <<tx_buf, nframes>> /\ wire' = tx_buf[hw_tx]
    BY <1>2 DEF ChipSendOk, ChipSends, coreVars
  <2>2. QED BY <2>1, <1>0 DEF Handed
<1>3. CASE \/ Open \/ CloseBegin \/ CloseStop \/ XmitCommit \/ ChipAbort \/ ChipHang
           \/ IrqEnter \/ IrqReap \/ IrqAckErr \/ IrqLinkChange
  BY <1>3, <1>a DEF Open, CloseBegin, CloseStop, XmitCommit, ChipAbort, ChipSends, ChipHang,
     IrqEnter, IrqReap, IrqAckErr, IrqLinkChange, chipVars, coreVars, history
<1>4. CASE \/ TxTimeout \/ ThrStart \/ ThrStopTx \/ ThrMask \/ ThrClear \/ ThrReset \/ ThrEnable
           \/ ThrUnmask \/ ThrWake
  BY <1>4, <1>a DEF TxTimeout, ThrStart, ThrStopTx, ThrMask, ThrClear, ThrReset, ThrEnable,
     ThrUnmask, ThrWake, ThrUnchanged, chipVars, coreVars, history
<1>5. CASE UNCHANGED vars BY <1>5, <1>a DEF vars, chipVars, coreVars, history
<1> QED BY <1>1, <1>2, <1>3, <1>4, <1>5 DEF Next

\* The transmitter stays off from rtl8139_tx_timeout_task's first write to the
\* end of rtl8139_hw_start, and from rtl8139_close to rtl8139_open.
LEMMA SilentStep == IInv /\ Silent /\ [Next]_vars => Silent'
<1> SUFFICES ASSUME IInv, Silent, [Next]_vars, txEnb'
             PROVE  phase' # "down" /\ thr' \notin {"mask", "clear", "reset", "enable"}
  BY DEF Silent
<1>0. thr # "idle" => phase = "up" BY DEF IInv, Control
<1>a. ASSUME UNCHANGED <<txEnb, thr>>, phase' # "down" PROVE Silent'
  BY <1>a DEF Silent
<1>1. CASE Open BY <1>1 DEF Open
<1>2. CASE CloseBegin BY <1>2, <1>0 DEF CloseBegin, thrVars
<1>3. CASE CloseStop BY <1>3 DEF CloseStop
<1>4. CASE XmitCopy \/ XmitCommit \/ ChipSendOk \/ ChipAbort \/ ChipHang
  <2>1. UNCHANGED <<txEnb, thr, phase>>
    BY <1>4 DEF XmitCopy, XmitCommit, ChipSendOk, ChipAbort, ChipSends, ChipHang, coreVars, thrVars
  <2>2. QED BY <2>1 DEF Silent
<1>5. CASE IrqEnter \/ IrqReap \/ IrqAckErr \/ IrqLinkChange \/ TxTimeout
  <2>1. UNCHANGED <<txEnb, thr, phase>>
    BY <1>5 DEF IrqEnter, IrqReap, IrqAckErr, IrqLinkChange, TxTimeout, chipVars, coreVars, thrVars
  <2>2. QED BY <2>1 DEF Silent
<1>6. CASE ThrStart
  <2>1. thr' \in {"idle", "stoptx"} /\ txEnb' = txEnb /\ phase' = phase
    BY <1>6 DEF ThrStart, ThrUnchanged, chipVars, coreVars
  <2>2. QED BY <2>1 DEF Silent
<1>7. CASE ThrStopTx BY <1>7 DEF ThrStopTx
<1>8. CASE ThrMask \/ ThrClear \/ ThrReset
  <2>1. txEnb' = txEnb /\ thr \in {"mask", "clear", "reset"}
    BY <1>8 DEF ThrMask, ThrClear, ThrReset, chipVars
  <2>2. QED BY <2>1 DEF Silent
<1>9. CASE ThrEnable BY <1>9, <1>0 DEF ThrEnable, ThrUnchanged, coreVars
<1>10. CASE ThrUnmask \/ ThrWake
  <2>1. thr' \in {"wake", "idle"} /\ phase' = phase /\ phase = "up"
    BY <1>10, <1>0 DEF ThrUnmask, ThrWake, ThrUnchanged, coreVars
  <2>2. QED BY <2>1
<1>11. CASE UNCHANGED vars
  <2>1. UNCHANGED <<txEnb, thr, phase>> BY <1>11 DEF vars, chipVars, coreVars, thrVars
  <2>2. QED BY <2>1 DEF Silent
<1> QED BY <1>1, <1>2, <1>3, <1>4, <1>5, <1>6, <1>7, <1>8, <1>9, <1>10, <1>11 DEF Next

\* The frame being copied stays the newest one: nothing else is handed over
\* meanwhile, and the chip sends older ones.
LEMMA NewestStep ==
    IInv /\ Owned /\ Ordered /\ [Next]_vars => (clean' => Newest')
<1> SUFFICES ASSUME IInv, Owned, Ordered, [Next]_vars, clean', xmit' = "copied"
             PROVE  tx_buf'[entry'] = nframes' /\ wire' < nframes'
  BY DEF Newest
<1>0. /\ Control /\ Handed /\ Silent /\ (clean => Newest /\ Lined)
      /\ tx_buf \in [Slots -> Nat] /\ nframes \in Nat /\ wire \in Nat /\ hw_tx \in Slots
      /\ cur_tx \in Nat /\ dirty_tx \in Nat
  BY DEF IInv, TypeOK, Ordered
<1>a. ASSUME UNCHANGED <<xmit, entry, tx_buf, nframes, wire, clean>>
      PROVE  tx_buf'[entry'] = nframes' /\ wire' < nframes'
  BY <1>a, <1>0 DEF Newest
<1>1. CASE Open BY <1>1, <1>0 DEF Open, Control, xmitVars
<1>2. CASE XmitCopy
  <2>1. /\ tx_buf' = [tx_buf EXCEPT ![entry'] = nframes'] /\ nframes' = nframes + 1
        /\ wire' = wire /\ entry' = cur_tx % NumTxDesc
    BY <1>2 DEF XmitCopy, history
  <2>2. entry' \in Slots BY <2>1, <1>0, SlotOfAny
  <2>3. QED BY <2>1, <2>2, <1>0 DEF Handed
<1>3. CASE XmitCommit BY <1>3 DEF XmitCommit
<1>4. CASE ChipSendOk
  <2>1. /\ UNCHANGED <<xmit, entry, tx_buf, nframes, clean>> /\ wire' = tx_buf[hw_tx]
        /\ txEnb /\ TxStatus[hw_tx] = "chip"
    BY <1>4 DEF ChipSendOk, ChipSends, coreVars, xmitVars
  <2>2. phase # "down" /\ thr # "reset" BY <2>1, <1>0 DEF Silent
  <2>3. PICK h \in dirty_tx .. cur_tx : Line(h) BY <2>1, <2>2, <1>0 DEF Lined
  <2>4. h \in dirty_tx .. cur_tx - 1 BY <2>1, <2>2, <2>3, HeadOfLine
  <2>5. tx_buf[hw_tx] < nframes BY <2>1, <2>3, <2>4 DEF Line
  <2>6. QED BY <2>1, <2>5, <1>0 DEF Newest
<1>5. CASE ThrClear
  <2>1. queue = "stopped" BY <1>5, Zenon DEF ThrClear
  <2>2. xmit' = xmit BY <1>5 DEF ThrClear, ThrUnchanged, xmitVars
  <2>3. QED BY <2>1, <2>2, <1>0 DEF Control
<1>6. CASE \/ CloseBegin \/ CloseStop \/ ChipAbort \/ ChipHang
           \/ IrqEnter \/ IrqReap \/ IrqAckErr \/ IrqLinkChange
  BY <1>6, <1>a DEF CloseBegin, CloseStop, ChipAbort, ChipSends, ChipHang,
     IrqEnter, IrqReap, IrqAckErr, IrqLinkChange, chipVars, coreVars, xmitVars, history
<1>7. CASE \/ TxTimeout \/ ThrStart \/ ThrStopTx \/ ThrMask \/ ThrReset \/ ThrEnable
           \/ ThrUnmask \/ ThrWake
  BY <1>7, <1>a DEF TxTimeout, ThrStart, ThrStopTx, ThrMask, ThrReset, ThrEnable,
     ThrUnmask, ThrWake, ThrUnchanged, chipVars, coreVars, xmitVars, history
<1>8. CASE UNCHANGED vars BY <1>8, <1>a DEF vars, chipVars, coreVars, xmitVars, history
<1> QED BY <1>1, <1>2, <1>3, <1>4, <1>5, <1>6, <1>7, <1>8 DEF Next

\* A commit of start_xmit puts the copied frame at the end of the line.
LEMMA LineGrows ==
    ASSUME IInv, Owned, Ordered, clean, XmitCommit,
           NEW h \in dirty_tx .. cur_tx, Line(h)
    PROVE  h \in dirty_tx' .. cur_tx' /\ Line(h)'
<1>1. /\ xmit = "copied" /\ xmit' = "idle" /\ cur_tx' = cur_tx + 1
      /\ TxStatus' = [TxStatus EXCEPT ![entry] = "chip"]
      /\ UNCHANGED <<dirty_tx, tx_buf, hw_tx, nframes, wire>>
  BY DEF XmitCommit, history
<1>2. /\ cur_tx \in Nat /\ dirty_tx \in Nat /\ entry \in Slots
      /\ TxStatus \in [Slots -> TxStatusValues] /\ tx_buf \in [Slots -> Nat]
      /\ nframes \in Nat /\ wire \in Nat
  BY DEF IInv, TypeOK
<1>3. cur_tx - dirty_tx < NumTxDesc /\ dirty_tx <= cur_tx
  BY <1>1, <1>2 DEF IInv, Control, Ring
<1>4. entry = cur_tx % NumTxDesc BY <1>1 DEF Owned, EntryCurrent
<1>5. tx_buf[entry] = nframes /\ wire < nframes BY <1>1 DEF Ordered, Newest
<1>6. ASSUME NEW e \in dirty_tx .. cur_tx - 1
      PROVE  /\ e % NumTxDesc \in Slots /\ e % NumTxDesc # entry
             /\ TxStatus'[e % NumTxDesc] = TxStatus[e % NumTxDesc]
  <2>1. e \in Nat /\ e < cur_tx /\ cur_tx - e < NumTxDesc BY <1>2, <1>3
  <2>2. e % NumTxDesc # entry BY <2>1, <1>2, <1>4, ModDistinct
  <2>3. e % NumTxDesc \in Slots BY <2>1, SlotOfAny
  <2>4. QED BY <2>2, <2>3, <1>1, <1>2
<1>7. TxStatus'[cur_tx % NumTxDesc] = "chip" BY <1>1, <1>2, <1>4
<1>8. /\ h % NumTxDesc = hw_tx
      /\ \A e \in dirty_tx .. h - 1 : TxStatus[e % NumTxDesc] # "chip"
      /\ \A e \in h .. cur_tx - 1 :
           /\ TxStatus[e % NumTxDesc] = "chip" /\ wire < tx_buf[e % NumTxDesc]
           /\ tx_buf[e % NumTxDesc] < nframes
      /\ \A e, f \in h .. cur_tx - 1 :
           e < f => tx_buf[e % NumTxDesc] < tx_buf[f % NumTxDesc]
  BY <1>1 DEF Line
<1>a. h .. cur_tx' - 1 = h .. cur_tx BY <1>1, <1>2
<1>9. \A e \in dirty_tx' .. h - 1 : TxStatus'[e % NumTxDesc] # "chip"
  <2> SUFFICES ASSUME NEW e \in dirty_tx .. h - 1 PROVE TxStatus'[e % NumTxDesc] # "chip"
    BY <1>1
  <2>1. e \in dirty_tx .. cur_tx - 1 BY <1>2
  <2>2. QED BY <2>1, <1>6, <1>8
<1>10. \A e \in h .. cur_tx' - 1 :
          TxStatus'[e % NumTxDesc] = "chip" /\ wire' < tx_buf'[e % NumTxDesc]
  <2> SUFFICES ASSUME NEW e \in h .. cur_tx
               PROVE  TxStatus'[e % NumTxDesc] = "chip" /\ wire < tx_buf[e % NumTxDesc]
    BY <1>1, <1>a
  <2>1. CASE e = cur_tx BY <2>1, <1>4, <1>5, <1>7
  <2>2. CASE e # cur_tx
    <3>1. e \in h .. cur_tx - 1 /\ e \in dirty_tx .. cur_tx - 1 BY <2>2, <1>2
    <3>2. QED BY <3>1, <1>6, <1>8
  <2>3. QED BY <2>1, <2>2
<1>11. \A e, f \in h .. cur_tx' - 1 :
          e < f => tx_buf'[e % NumTxDesc] < tx_buf'[f % NumTxDesc]
  <2> SUFFICES ASSUME NEW e \in h .. cur_tx, NEW f \in h .. cur_tx, e < f
               PROVE  tx_buf[e % NumTxDesc] < tx_buf[f % NumTxDesc]
    BY <1>1, <1>a
  <2>1. e \in h .. cur_tx - 1 BY <1>2
  <2>2. CASE f = cur_tx BY <2>1, <2>2, <1>4, <1>5, <1>8
  <2>3. CASE f # cur_tx
    <3>1. f \in h .. cur_tx - 1 BY <2>3, <1>2
    <3>2. QED BY <2>1, <3>1, <1>8
  <2>4. QED BY <2>2, <2>3
<1>12. h \in dirty_tx' .. cur_tx' BY <1>1, <1>2
<1> QED BY <1>1, <1>8, <1>9, <1>10, <1>11, <1>12 DEF Line

\* The chip sends the head of the line, or aborts it, and moves on to the next.
LEMMA LineAdvances ==
    ASSUME IInv, Owned, Ordered, clean, ChipSendOk \/ ChipAbort,
           phase # "down", thr # "reset",
           NEW h \in dirty_tx .. cur_tx, Line(h)
    PROVE  h + 1 \in dirty_tx' .. cur_tx' /\ Line(h + 1)'
<1>1. PICK r \in {"ok", "abort"} :
         TxStatus[hw_tx] = "chip" /\ TxStatus' = [TxStatus EXCEPT ![hw_tx] = r]
  BY DEF ChipSendOk, ChipAbort, ChipSends
<1>2. /\ hw_tx' = (hw_tx + 1) % NumTxDesc
      /\ UNCHANGED <<cur_tx, dirty_tx, tx_buf, nframes, xmit>>
      /\ wire' = tx_buf[hw_tx] \/ wire' = wire
  BY DEF ChipSendOk, ChipAbort, ChipSends, driverVars, coreVars, xmitVars
<1>3. /\ cur_tx \in Nat /\ dirty_tx \in Nat /\ hw_tx \in Slots
      /\ TxStatus \in [Slots -> TxStatusValues] /\ tx_buf \in [Slots -> Nat]
      /\ nframes \in Nat /\ wire \in Nat
      /\ cur_tx - dirty_tx \in 0 .. NumTxDesc
  BY DEF IInv, TypeOK, Ring
<1>4. h \in dirty_tx .. cur_tx - 1 BY <1>1, HeadOfLine
<1>5. h % NumTxDesc = hw_tx /\ h \in Nat BY <1>3 DEF Line
<1>6. (h + 1) % NumTxDesc = hw_tx' BY <1>2, <1>5, NextSlot
<1>7. ASSUME NEW e \in dirty_tx .. cur_tx - 1, e # h
      PROVE  /\ e % NumTxDesc # hw_tx
             /\ TxStatus'[e % NumTxDesc] = TxStatus[e % NumTxDesc]
  <2>1. e \in Nat /\ e - h < NumTxDesc /\ h - e < NumTxDesc BY <1>3, <1>4
  <2>2. e % NumTxDesc # h % NumTxDesc BY <2>1, <1>5, <1>7, ModDistinct
  <2>3. e % NumTxDesc \in Slots BY <2>1, SlotOfAny
  <2>4. QED BY <2>2, <2>3, <1>1, <1>3, <1>5
<1>8. TxStatus'[h % NumTxDesc] # "chip" BY <1>1, <1>3, <1>5
<1>9. \A e \in dirty_tx' .. (h + 1) - 1 : TxStatus'[e % NumTxDesc] # "chip"
  <2> SUFFICES ASSUME NEW e \in dirty_tx .. h PROVE TxStatus'[e % NumTxDesc] # "chip"
    BY <1>2, <1>5
  <2>1. CASE e = h BY <2>1, <1>8
  <2>2. CASE e # h
    <3>1. e \in dirty_tx .. h - 1 /\ e \in dirty_tx .. cur_tx - 1 BY <2>2, <1>3, <1>4
    <3>2. QED BY <3>1, <2>2, <1>7 DEF Line
  <2>3. QED BY <2>1, <2>2
<1>10. \A e \in h + 1 .. cur_tx' - 1 :
          /\ TxStatus'[e % NumTxDesc] = "chip" /\ wire' < tx_buf'[e % NumTxDesc]
          /\ xmit' = "copied" => tx_buf'[e % NumTxDesc] < nframes'
  <2> SUFFICES ASSUME NEW e \in h + 1 .. cur_tx - 1
               PROVE  /\ TxStatus'[e % NumTxDesc] = "chip" /\ wire' < tx_buf[e % NumTxDesc]
                      /\ xmit = "copied" => tx_buf[e % NumTxDesc] < nframes
    BY <1>2
  <2>1. e \in h .. cur_tx - 1 /\ h \in h .. cur_tx - 1 /\ e \in dirty_tx .. cur_tx - 1 /\ h < e
    BY <1>3, <1>4
  <2>2. TxStatus'[e % NumTxDesc] = "chip" BY <2>1, <1>7 DEF Line
  <2>3. tx_buf[h % NumTxDesc] < tx_buf[e % NumTxDesc] /\ wire < tx_buf[e % NumTxDesc]
    BY <2>1 DEF Line
  <2>4. wire' < tx_buf[e % NumTxDesc] BY <2>3, <1>2, <1>5
  <2>5. xmit = "copied" => tx_buf[e % NumTxDesc] < nframes BY <2>1 DEF Line
  <2>6. QED BY <2>2, <2>4, <2>5
<1>11. \A e, f \in h + 1 .. cur_tx' - 1 :
          e < f => tx_buf'[e % NumTxDesc] < tx_buf'[f % NumTxDesc]
  <2> SUFFICES ASSUME NEW e \in h + 1 .. cur_tx - 1, NEW f \in h + 1 .. cur_tx - 1, e < f
               PROVE  tx_buf[e % NumTxDesc] < tx_buf[f % NumTxDesc]
    BY <1>2
  <2>1. e \in h .. cur_tx - 1 /\ f \in h .. cur_tx - 1 BY <1>3, <1>4
  <2>2. QED BY <2>1 DEF Line
<1>12. h + 1 \in dirty_tx' .. cur_tx' BY <1>2, <1>3, <1>4
<1> QED BY <1>6, <1>9, <1>10, <1>11, <1>12 DEF Line

\* Reaping takes what is done from the front of the ring and leaves the line.
LEMMA LineReaped ==
    ASSUME IInv, clean, IrqReap, NEW h \in dirty_tx .. cur_tx, Line(h)
    PROVE  h \in dirty_tx' .. cur_tx' /\ Line(h)'
<1>1. PICK d \in dirty_tx .. cur_tx :
         ReapsTo(d) /\ dirty_tx' = IF OutOfSync(d) THEN d + NumTxDesc ELSE d
  BY DEF IrqReap
<1>2. UNCHANGED <<cur_tx, TxStatus, tx_buf, hw_tx, nframes, xmit, wire>>
  BY DEF IrqReap, xmitVars, history
<1>3. cur_tx \in Nat /\ dirty_tx \in Nat /\ cur_tx - dirty_tx \in 0 .. NumTxDesc
  BY DEF IInv, TypeOK, Ring
<1>4. dirty_tx' = d BY <1>1, <1>3 DEF OutOfSync
<1>5. d <= h
  <2> SUFFICES ASSUME h < d PROVE FALSE BY <1>3
  <2>1. h \in dirty_tx .. d - 1 /\ h \in h .. cur_tx - 1 BY <1>3
  <2>2. TxStatus[h % NumTxDesc] \in {"ok", "abort"} BY <2>1, <1>1 DEF ReapsTo, Txed
  <2>3. TxStatus[h % NumTxDesc] = "chip" BY <2>1 DEF Line
  <2>4. QED BY <2>2, <2>3
<1>6. h \in dirty_tx' .. cur_tx' BY <1>2, <1>3, <1>4, <1>5
<1>7. \A e \in dirty_tx' .. h - 1 : e \in dirty_tx .. h - 1 BY <1>3, <1>4
<1> QED BY <1>2, <1>6, <1>7 DEF Line

\* Copying a frame into the buffer after the line leaves the line as it is.
LEMMA LineCopied ==
    ASSUME IInv, Ordered, clean, XmitCopy, NEW h \in dirty_tx .. cur_tx, Line(h)
    PROVE  h \in dirty_tx' .. cur_tx' /\ Line(h)'
<1>1. /\ queue = "awake" /\ nframes' = nframes + 1 /\ entry' = cur_tx % NumTxDesc
      /\ tx_buf' = [tx_buf EXCEPT ![entry'] = nframes']
      /\ UNCHANGED <<cur_tx, dirty_tx, TxStatus, hw_tx, wire>>
  BY DEF XmitCopy, driverVars, history
<1>2. /\ cur_tx \in Nat /\ dirty_tx \in Nat /\ tx_buf \in [Slots -> Nat]
      /\ nframes \in Nat /\ wire \in Nat
      /\ dirty_tx <= cur_tx /\ cur_tx - dirty_tx < NumTxDesc
  BY <1>1 DEF IInv, TypeOK, Ring
<1>3. ASSUME NEW e \in h .. cur_tx - 1
      PROVE  /\ tx_buf'[e % NumTxDesc] = tx_buf[e % NumTxDesc]
             /\ tx_buf[e % NumTxDesc] <= nframes
  <2>1. e \in Nat /\ e < cur_tx /\ cur_tx - e < NumTxDesc BY <1>2
  <2>2. e % NumTxDesc # entry' BY <2>1, <1>1, <1>2, ModDistinct
  <2>3. e % NumTxDesc \in Slots BY <2>1, SlotOfAny
  <2>4. QED BY <2>2, <2>3, <1>1, <1>2 DEF Ordered, Handed
<1>4. \A e \in h .. cur_tx' - 1 :
         /\ TxStatus'[e % NumTxDesc] = "chip" /\ wire' < tx_buf'[e % NumTxDesc]
         /\ xmit' = "copied" => tx_buf'[e % NumTxDesc] < nframes'
  <2> SUFFICES ASSUME NEW e \in h .. cur_tx - 1
               PROVE  /\ TxStatus[e % NumTxDesc] = "chip" /\ wire < tx_buf'[e % NumTxDesc]
                      /\ tx_buf'[e % NumTxDesc] < nframes'
    BY <1>1
  <2>1. TxStatus[e % NumTxDesc] = "chip" /\ wire < tx_buf[e % NumTxDesc] BY DEF Line
  <2>2. e % NumTxDesc \in Slots
    <3>1. e \in Nat BY <1>2
    <3>2. QED BY <3>1, SlotOfAny
  <2>3. wire < tx_buf'[e % NumTxDesc] BY <2>1, <1>3
  <2>4. tx_buf'[e % NumTxDesc] \in Nat /\ tx_buf'[e % NumTxDesc] <= nframes
    BY <2>2, <1>2, <1>3
  <2>5. tx_buf'[e % NumTxDesc] < nframes' BY <2>4, <1>1, <1>2
  <2>6. QED BY <2>1, <2>3, <2>5
<1>5. \A e, f \in h .. cur_tx' - 1 :
         e < f => tx_buf'[e % NumTxDesc] < tx_buf'[f % NumTxDesc]
  BY <1>1, <1>3 DEF Line
<1>6. h % NumTxDesc = hw_tx' /\ \A e \in dirty_tx' .. h - 1 : TxStatus'[e % NumTxDesc] # "chip"
  BY <1>1 DEF Line
<1> QED BY <1>1, <1>4, <1>5, <1>6 DEF Line

\* The frames in the ring stay in line through every step that finds the queue
\* stopped when it resets.
LEMMA LinedStep == IInv /\ Owned /\ Ordered /\ [Next]_vars => (clean' => Lined')
<1> SUFFICES ASSUME IInv, Owned, Ordered, [Next]_vars, clean' PROVE Lined'
  OBVIOUS
<1>0. /\ clean => Lined /\ Ring
      /\ Silent
      /\ cur_tx \in Nat /\ dirty_tx \in Nat /\ xmit \in {"idle", "copied"}
      /\ TxStatus \in [Slots -> TxStatusValues] /\ hw_tx \in Slots
  BY DEF IInv, TypeOK, Ordered
<1>a. ASSUME UNCHANGED <<xmit, cur_tx, dirty_tx, TxStatus, tx_buf, hw_tx, nframes, wire, clean>>,
             phase # "down", thr' = "reset" <=> thr = "reset"
      PROVE  Lined'
  BY <1>a, <1>0 DEF Lined, Line
<1>b. ASSUME UNCHANGED <<xmit, cur_tx, dirty_tx, TxStatus, tx_buf, hw_tx, nframes, wire, clean, phase>>,
             thr' = "reset" <=> thr = "reset"
      PROVE  Lined'
  BY <1>b, <1>a DEF Lined
<1>c. ASSUME cur_tx' = 0, dirty_tx' = 0, hw_tx' = 0 PROVE Lined'
  <2>1. 0 % NumTxDesc = 0 BY NumTxDescAssumption
  <2>2. Line(0)' BY <1>c, <2>1 DEF Line
  <2>3. QED BY <1>c, <2>2 DEF Lined
<1>1. CASE Open BY <1>1, <1>c DEF Open, ChipReset
<1>2. CASE CloseBegin
  BY <1>2, <1>a DEF CloseBegin, driverVars, chipVars, xmitVars, thrVars, history
<1>3. CASE CloseStop BY <1>3 DEF CloseStop, Lined
<1>4. CASE XmitCopy
  <2>1. UNCHANGED <<phase, thr, clean>> BY <1>4 DEF XmitCopy, thrVars, history
  <2>2. QED BY <1>4, <2>1, <1>0, LineCopied DEF Lined
<1>5. CASE XmitCommit
  <2>1. UNCHANGED <<phase, thr, clean>> BY <1>5 DEF XmitCommit, thrVars, history
  <2>2. QED BY <1>5, <2>1, <1>0, LineGrows DEF Lined
<1>6. CASE ChipSendOk \/ ChipAbort
  <2>1. UNCHANGED <<phase, thr, clean>> /\ txEnb
    BY <1>6 DEF ChipSendOk, ChipAbort, ChipSends, coreVars, thrVars
  <2>2. phase # "down" /\ thr # "reset" BY <2>1, <1>0 DEF Silent
  <2>3. PICK h \in dirty_tx .. cur_tx : Line(h) BY <2>1, <2>2, <1>0 DEF Lined
  <2>4. h + 1 \in dirty_tx' .. cur_tx' /\ Line(h + 1)'
    BY <1>6, <2>1, <2>2, <2>3, LineAdvances
  <2>5. QED BY <2>4 DEF Lined
<1>8. CASE ChipHang
  BY <1>8, <1>b DEF ChipHang, driverVars, coreVars, xmitVars, thrVars, history
<1>9. CASE IrqEnter
  BY <1>9, <1>b DEF IrqEnter, driverVars, coreVars, xmitVars, thrVars, history
<1>10. CASE IrqReap
  <2>1. UNCHANGED <<phase, thr, clean>> BY <1>10 DEF IrqReap, thrVars, history
  <2>2. QED BY <1>10, <2>1, <1>0, LineReaped DEF Lined
<1>11. CASE IrqAckErr
  BY <1>11, <1>b DEF IrqAckErr, driverVars, coreVars, xmitVars, thrVars, history
<1>12. CASE TxTimeout
  BY <1>12, <1>b DEF TxTimeout, chipVars, coreVars, xmitVars, history
<1>13. CASE ThrStart
  BY <1>13, <1>b DEF ThrStart, ThrUnchanged, chipVars, coreVars, xmitVars, history
<1>14. CASE ThrStopTx
  BY <1>14, <1>b DEF ThrStopTx, ThrUnchanged, driverVars, coreVars, xmitVars, history
<1>15. CASE ThrMask
  BY <1>15, <1>b DEF ThrMask, ThrUnchanged, driverVars, coreVars, xmitVars, history
<1>16. CASE ThrClear BY <1>16 DEF ThrClear, Lined
<1>17. CASE ThrReset
  <2>1. clean /\ thr = "reset" /\ UNCHANGED <<cur_tx, dirty_tx>> /\ hw_tx' = 0
    BY <1>17 DEF ThrReset, ChipReset, driverVars, history
  <2>2. cur_tx = 0 /\ dirty_tx = 0 BY <2>1, <1>0 DEF Ring, Resetting
  <2>3. QED BY <2>1, <2>2, <1>c
<1>18. CASE ThrEnable
  BY <1>18, <1>b DEF ThrEnable, ThrUnchanged, driverVars, coreVars, xmitVars, history
<1>19. CASE ThrUnmask
  BY <1>19, <1>b DEF ThrUnmask, ThrUnchanged, driverVars, coreVars, xmitVars, history
<1>20. CASE ThrWake
  BY <1>20, <1>b DEF ThrWake, driverVars, chipVars, xmitVars, history
<1>21. CASE UNCHANGED vars
  BY <1>21, <1>b DEF vars, driverVars, chipVars, coreVars, xmitVars, thrVars, history
<1>22. CASE IrqLinkChange
  BY <1>22, <1>b DEF IrqLinkChange, driverVars, chipVars, xmitVars, thrVars, history
<1> QED
  BY <1>1, <1>2, <1>3, <1>4, <1>5, <1>6, <1>8, <1>9, <1>10, <1>11, <1>12, <1>13,
     <1>14, <1>15, <1>16, <1>17, <1>18, <1>19, <1>20, <1>21, <1>22 DEF Next

-----------------------------------------------------------------------------
\* IInv is an inductive invariant of the specification.
THEOREM Inductive == Spec => []IInv
<1>1. Init => IInv BY InitIInv
<1>2. IInv /\ [Next]_vars => IInv' BY TypeStep, RingStep DEF IInv
<1> QED BY <1>1, <1>2, PTL DEF Spec

\* Every reachable state is well typed.
THEOREM TypeCorrect == Spec => []TypeOK
<1>1. IInv => TypeOK BY DEF IInv
<1> QED BY <1>1, Inductive, PTL

\* The ring never holds more frames than it has descriptors, and has room
\* whenever the queue is awake, provided each reset found the queue stopped.
THEOREM RingBounded == Spec => []RingBound
<1>1. IInv => RingBound BY DEF IInv, Ring, RingBound
<1> QED BY <1>1, Inductive, PTL

\* Under the same proviso the queue is stopped only because the ring is full,
\* so that there is always an interrupt or a watchdog due that will wake it.
THEOREM StoppedMeansFull == Spec => []StoppedOnlyWhenFull
<1>1. IInv => StoppedOnlyWhenFull
  BY DEF IInv, Ring, Resetting, StoppedOnlyWhenFull, netif_running
<1> QED BY <1>1, Inductive, PTL

\* Under the same proviso the driver's own sanity check, "Out-of-sync dirty
\* pointer", is dead code.
THEOREM CleanRunsStayInSync == Spec => [](clean => NeverOutOfSync)
<1>1. IInv => (clean => NeverOutOfSync)
  BY DEF IInv, TypeOK, Ring, NeverOutOfSync, OutOfSync
<1> QED BY <1>1, Inductive, PTL

\* Under the same proviso start_xmit copies a frame only into a buffer the chip
\* is not sending from, although it does so outside tp->lock.
THEOREM CopiesIntoFreeBuffer == Spec => []CopiedIntoFreeBuffer
<1>1. Init => Owned BY InitOwned
<1>2. IInv /\ Owned /\ [Next]_vars => Owned' BY OwnedStep
<1>3. IInv /\ Owned => CopiedIntoFreeBuffer
  <2> SUFFICES ASSUME IInv, Owned, clean, xmit = "copied"
               PROVE  entry = cur_tx % NumTxDesc /\ TxStatus[entry] # "chip"
    BY DEF CopiedIntoFreeBuffer
  <2>1. /\ entry = cur_tx % NumTxDesc /\ ChipOwnsInFlight
        /\ cur_tx \in Nat /\ dirty_tx \in Nat /\ entry \in Slots
    BY DEF Owned, EntryCurrent, IInv, TypeOK
  <2>2. phase # "down" /\ thr # "reset" /\ cur_tx - dirty_tx < NumTxDesc
    BY DEF IInv, Control, Ring, Resetting
  <2>3. ASSUME TxStatus[entry] = "chip" PROVE FALSE
    <3>1. PICK e \in dirty_tx .. cur_tx - 1 : e % NumTxDesc = entry
      BY <2>1, <2>2, <2>3 DEF ChipOwnsInFlight
    <3>2. e \in Nat /\ e < cur_tx /\ cur_tx - e < NumTxDesc BY <2>1, <2>2
    <3>3. QED BY <3>1, <3>2, <2>1, ModDistinct
  <2>4. QED BY <2>1, <2>3
<1> QED BY <1>1, <1>2, <1>3, Inductive, PTL DEF Spec

\* For every ring size: ring, queue and the buffer being filled agree whatever
\* start_xmit, the interrupt and a reset that found the queue stopped do
\* (rtl8139.c:1711-1815, 1833-1894).
THEOREM RingIsSound == Spec => []RingSound
BY RingBounded, StoppedMeansFull, CopiesIntoFreeBuffer, PTL DEF RingSound
\* For every ring size and any number of frames: as long as each reset since the
\* interface was opened found the queue stopped, every frame the chip sends was
\* handed over after the one it sent before, so that the order is the stack's and
\* no frame leaves twice, not even in a row, although start_xmit fills the buffers outside tp->lock and
\* the reset renumbers the ring under it (rtl8139.c:1711-1815, 1833-1894).
THEOREM SentInOrder == Spec => InOrderOnce
<1>1. Init => Owned /\ Ordered BY InitOwned, InitOrdered
<1>2. IInv /\ Owned /\ Ordered /\ [Next]_vars => Owned' /\ Ordered'
  BY OwnedStep, HandedStep, SilentStep, NewestStep, LinedStep DEF IInv, Ordered
<1>3. IInv /\ Owned /\ Ordered => [ChipSendOk /\ clean => wire' > wire]_vars
  <2> SUFFICES ASSUME IInv, Owned, Ordered, ChipSendOk, clean
               PROVE  wire' > wire
    OBVIOUS
  <2>1. txEnb /\ TxStatus[hw_tx] = "chip" /\ wire' = tx_buf[hw_tx]
    BY DEF ChipSendOk, ChipSends
  <2>2. phase # "down" /\ thr # "reset" BY <2>1 DEF Ordered, Silent
  <2>3. PICK h \in dirty_tx .. cur_tx : Line(h) BY <2>2 DEF Ordered, Lined
  <2>4. h \in h .. cur_tx - 1
    <3>1. h \in dirty_tx .. cur_tx - 1 BY <2>1, <2>2, <2>3, HeadOfLine
    <3>2. dirty_tx \in Nat /\ cur_tx \in Nat BY DEF IInv, TypeOK
    <3>3. QED BY <3>1, <3>2
  <2>5. wire < tx_buf[hw_tx] BY <2>3, <2>4 DEF Line
  <2>6. wire \in Nat /\ tx_buf[hw_tx] \in Nat BY DEF IInv, TypeOK
  <2>7. QED BY <2>1, <2>5, <2>6
<1> QED BY <1>1, <1>2, <1>3, Inductive, PTL DEF Spec, InOrderOnce
=============================================================================
