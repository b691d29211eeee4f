-------------------------- MODULE UsbDriversProofs --------------------------
(***************************************************************************)
(* Proofs about three drivers that share no state: Kbd, for every set of   *)
(* keys and LEDs and any number of events; Rtl8150Tx, for every set of     *)
(* frames; and Btusb, for any number of connections and of frames in       *)
(* flight.                                                                 *)
(*                                                                         *)
(* Keyboard: LedInv ties the flag, the buffer and the URB of the LEDs      *)
(* together; KeyInv says what the input core knows of the keys; OpenInv    *)
(* says who may have an interrupt URB in flight. Each of them is           *)
(* inductive on its own, given that the variables are well typed.          *)
(*                                                                         *)
(* Ethernet: a frame on its way is in one of three places, start_xmit,     *)
(* the URB, write_bulk_callback. As long as set_multicast has not woken    *)
(* the queue for one of them, a frame on its way is the only one and the   *)
(* queue is stopped (FlowInv), so that dev->tx_skb is that frame           *)
(* (FrameInv).                                                             *)
(*                                                                         *)
(* Bluetooth: both properties speak of moments of rest. What makes them    *)
(* inductive is what the work item has done and has yet to do at each of   *)
(* its control points (Stage), and that no change of the connections goes  *)
(* unnoticed: the count it compares with is always the real one, so a run  *)
(* that was overtaken by a change has another one queued behind it         *)
(* (Noticed).                                                              *)
(***************************************************************************)
EXTENDS Kbd, Rtl8150Tx, Btusb, TLAPS

-----------------------------------------------------------------------------
(* The keyboard.                                                           *)

\* the flag is the URB, and a byte that differs from the buffer waits for it
LedInv == FlagTellsInFlight /\ CaughtUp

KeyInv == KeysMatch

\* the interrupt URB belongs to an open, or a closing, device; from the kill of
\* the LED URB on there is neither, and at the end no LED URB
OpenInv ==
    /\ irqUrb # "idle" => open \/ closing
    /\ disconnect \in {"killled", "freed"} => ~open /\ ~closing
    /\ disconnect = "freed" => ledUrb = "idle"

KbdInv == KbdTypeOK /\ LedInv /\ KeyInv /\ OpenInv

\* The variables stay well typed: in particular no code but a key is ever pressed.
LEMMA KbdTypeStep == KbdTypeOK /\ [KbdNext]_kbdVars => KbdTypeOK'
<1> SUFFICES ASSUME KbdTypeOK, [KbdNext]_kbdVars PROVE KbdTypeOK'
  OBVIOUS
<1> USE DEF KbdTypeOK, Codes, LedBits
<1>1. ASSUME NEW l \in LedNames, NEW s \in BOOLEAN, LedEvent(l, s) PROVE KbdTypeOK'
  <2>1. led' \subseteq LedNames BY <1>1, SMT DEF LedEvent, Toggles
  <2>2. newleds' \in LedBits
    <3>1. Byte(led') \subseteq 0 .. 3 BY DEF Byte
    <3> QED BY <1>1, <3>1 DEF LedEvent, Toggles
  <2>3. nevents' \in 0 .. MaxEvents BY <1>1, BoundsAssumption DEF LedEvent, Toggles
  <2>4. led_urb_submitted' \in BOOLEAN /\ failed' \in BOOLEAN BY <1>1, Zenon DEF LedEvent
  <2>5. leds' \in LedBits /\ ledUrb' \in {"idle", "flying", "ok", "error"}
    BY <1>1, <2>2 DEF LedEvent
  <2>6. UNCHANGED <<shown, keyVars, irqUrb, open, closing, disconnect>>
    BY <1>1, Zenon DEF LedEvent, LedUnchanged
  <2> QED BY <2>1, <2>2, <2>3, <2>4, <2>5, <2>6 DEF keyVars
<1>2. CASE LedTransfer BY <1>2 DEF LedTransfer, LedUnchanged, keyVars
<1>3. ASSUME NEW s \in BOOLEAN, LedComplete(s) PROVE KbdTypeOK'
  BY <1>3 DEF LedComplete, LedRejects, LedUnchanged, keyVars
<1>4. CASE KeyChange BY <1>4, BoundsAssumption DEF KeyChange, KeyUnchanged, ledVars
<1>5. CASE IrqReports BY <1>5 DEF IrqReports, Report, KeyUnchanged, ledVars
<1>6. CASE IrqFails BY <1>6 DEF IrqFails, keyVars, KeyUnchanged, ledVars
<1>7. CASE IrqUnlinked BY <1>7 DEF IrqUnlinked, IrqRejects, keyVars, KeyUnchanged,
  ledVars
<1>8. ASSUME NEW s \in BOOLEAN, IrqComplete(s) PROVE KbdTypeOK'
  BY <1>8 DEF IrqComplete, Compare, IrqRejects, KeyUnchanged, ledVars
<1>9. ASSUME NEW s \in BOOLEAN, usb_kbd_open(s) PROVE KbdTypeOK'
  BY <1>9 DEF usb_kbd_open, IrqRejects, ledVars, keyVars
<1>10. CASE usb_kbd_close BY <1>10 DEF usb_kbd_close, ledVars, keyVars
<1>11. CASE CloseEnd BY <1>11 DEF CloseEnd, ledVars, keyVars
<1>12. CASE usb_kbd_disconnect BY <1>12 DEF usb_kbd_disconnect, keyVars, DiscUnchanged, ledVars
<1>13. CASE DiscIrqKilled BY <1>13 DEF DiscIrqKilled, keyVars, DiscUnchanged, ledVars
<1>14. CASE DiscUnregister BY <1>14 DEF DiscUnregister, DiscUnchanged, ledVars
<1>15. CASE Unregistered BY <1>15 DEF Unregistered, keyVars, DiscUnchanged,
  ledVars
<1>16. CASE usb_kbd_free_mem BY <1>16 DEF usb_kbd_free_mem, keyVars, DiscUnchanged, ledVars
<1>17. CASE UNCHANGED kbdVars BY <1>17 DEF kbdVars, ledVars, keyVars
<1> QED BY <1>1, <1>2, <1>3, <1>4, <1>5, <1>6, <1>7, <1>8, <1>9, <1>10, <1>11, <1>12,
  <1>13, <1>14, <1>15, <1>16, <1>17 DEF KbdNext, LedCompletes, IrqCompletes

\* The flag keeps telling whether the URB is in flight.
LEMMA LedStep == KbdTypeOK /\ LedInv /\ [KbdNext]_kbdVars => LedInv'
<1> SUFFICES ASSUME KbdTypeOK /\ LedInv, [KbdNext]_kbdVars PROVE LedInv'
  OBVIOUS
<1> USE DEF KbdTypeOK, LedInv, FlagTellsInFlight, CaughtUp
<1>1. ASSUME NEW l \in LedNames, NEW s \in BOOLEAN, LedEvent(l, s) PROVE LedInv'
  BY <1>1 DEF LedEvent, Toggles, LedUnchanged, keyVars
<1>2. CASE LedTransfer BY <1>2 DEF LedTransfer, LedUnchanged, keyVars
<1>3. ASSUME NEW s \in BOOLEAN, LedComplete(s) PROVE LedInv'
  BY <1>3 DEF LedComplete, LedRejects, LedUnchanged, keyVars
<1>4. CASE KeyChange BY <1>4 DEF KeyChange, KeyUnchanged, ledVars
<1>5. CASE IrqReports BY <1>5 DEF IrqReports, KeyUnchanged, ledVars
<1>6. CASE IrqFails BY <1>6 DEF IrqFails, keyVars, KeyUnchanged, ledVars
<1>7. CASE IrqUnlinked BY <1>7 DEF IrqUnlinked, IrqRejects, keyVars, KeyUnchanged,
  ledVars
<1>8. ASSUME NEW s \in BOOLEAN, IrqComplete(s) PROVE LedInv'
  BY <1>8 DEF IrqComplete, IrqRejects, KeyUnchanged, ledVars
<1>9. ASSUME NEW s \in BOOLEAN, usb_kbd_open(s) PROVE LedInv'
  BY <1>9 DEF usb_kbd_open, IrqRejects, ledVars, keyVars
<1>10. CASE usb_kbd_close BY <1>10 DEF usb_kbd_close, ledVars, keyVars
<1>11. CASE CloseEnd BY <1>11 DEF CloseEnd, ledVars, keyVars
<1>12. CASE usb_kbd_disconnect BY <1>12 DEF usb_kbd_disconnect, keyVars, DiscUnchanged, ledVars
<1>13. CASE DiscIrqKilled BY <1>13 DEF DiscIrqKilled, keyVars, DiscUnchanged, ledVars
<1>14. CASE DiscUnregister BY <1>14 DEF DiscUnregister, DiscUnchanged, ledVars
<1>15. CASE Unregistered BY <1>15 DEF Unregistered, keyVars, DiscUnchanged,
  ledVars
<1>16. CASE usb_kbd_free_mem BY <1>16 DEF usb_kbd_free_mem, keyVars, DiscUnchanged, ledVars
<1>17. CASE UNCHANGED kbdVars BY <1>17 DEF kbdVars, ledVars, keyVars
<1> QED BY <1>1, <1>2, <1>3, <1>4, <1>5, <1>6, <1>7, <1>8, <1>9, <1>10, <1>11, <1>12,
  <1>13, <1>14, <1>15, <1>16, <1>17 DEF KbdNext, LedCompletes, IrqCompletes

\* The input core keeps believing what the last compared report said.
LEMMA KeyStep == KbdTypeOK /\ KeyInv /\ [KbdNext]_kbdVars => KeyInv'
<1> SUFFICES ASSUME KbdTypeOK /\ KeyInv, [KbdNext]_kbdVars PROVE KeyInv'
  OBVIOUS
<1> USE DEF KbdTypeOK, Codes, KeyInv, KeysMatch
<1>1. ASSUME NEW l \in LedNames, NEW s \in BOOLEAN, LedEvent(l, s) PROVE KeyInv'
  BY <1>1 DEF LedEvent, Toggles, LedUnchanged, keyVars
<1>2. CASE LedTransfer BY <1>2 DEF LedTransfer, LedUnchanged, keyVars
<1>3. ASSUME NEW s \in BOOLEAN, LedComplete(s) PROVE KeyInv'
  BY <1>3 DEF LedComplete, LedRejects, LedUnchanged, keyVars
<1>4. CASE KeyChange BY <1>4 DEF KeyChange, KeyUnchanged, ledVars
<1>5. CASE IrqReports BY <1>5 DEF IrqReports, KeyUnchanged, ledVars
<1>6. CASE IrqFails BY <1>6 DEF IrqFails, keyVars, KeyUnchanged, ledVars
<1>7. CASE IrqUnlinked BY <1>7 DEF IrqUnlinked, IrqRejects, keyVars, KeyUnchanged,
  ledVars
<1>8. ASSUME NEW s \in BOOLEAN, IrqComplete(s) PROVE KeyInv'
  <2>1. CASE irqUrb # "ok"
    BY <1>8, <2>1 DEF IrqComplete, KeyUnchanged
  <2>2. CASE irqUrb = "ok" /\ disconnect \in {"no", "killirq", "unregister"}
    <3>1. Compare /\ pressed = old \ {Rollover} BY <1>8, <2>2 DEF IrqComplete
    <3>2. pressed' \subseteq Codes BY <3>1 DEF Compare
    <3>3. \A c \in Codes : c \in pressed' <=> c \in new /\ c # Rollover
      BY <3>1, KeysAssumption DEF Compare
    <3>4. pressed' = new \ {Rollover} BY <3>2, <3>3
    <3> QED BY <3>1, <3>4 DEF Compare
  <2>3. CASE irqUrb = "ok" /\ disconnect \notin {"no", "killirq", "unregister"}
    BY <1>8, <2>3 DEF IrqComplete, KeyUnchanged
  <2> QED BY <2>1, <2>2, <2>3
<1>9. ASSUME NEW s \in BOOLEAN, usb_kbd_open(s) PROVE KeyInv'
  BY <1>9 DEF usb_kbd_open, IrqRejects, ledVars, keyVars
<1>10. CASE usb_kbd_close BY <1>10 DEF usb_kbd_close, ledVars, keyVars
<1>11. CASE CloseEnd BY <1>11 DEF CloseEnd, ledVars, keyVars
<1>12. CASE usb_kbd_disconnect BY <1>12 DEF usb_kbd_disconnect, keyVars, DiscUnchanged, ledVars
<1>13. CASE DiscIrqKilled BY <1>13 DEF DiscIrqKilled, keyVars, DiscUnchanged, ledVars
<1>14. CASE DiscUnregister BY <1>14 DEF DiscUnregister, DiscUnchanged, ledVars
<1>15. CASE Unregistered BY <1>15 DEF Unregistered, keyVars, DiscUnchanged,
  ledVars
<1>16. CASE usb_kbd_free_mem BY <1>16 DEF usb_kbd_free_mem, keyVars, DiscUnchanged, ledVars
<1>17. CASE UNCHANGED kbdVars BY <1>17 DEF kbdVars, ledVars, keyVars
<1> QED BY <1>1, <1>2, <1>3, <1>4, <1>5, <1>6, <1>7, <1>8, <1>9, <1>10, <1>11, <1>12,
  <1>13, <1>14, <1>15, <1>16, <1>17 DEF KbdNext, LedCompletes, IrqCompletes

\* The interrupt URB keeps belonging to an open device.
LEMMA OpenStep == OpenInv /\ [KbdNext]_kbdVars => OpenInv'
<1> SUFFICES ASSUME OpenInv, [KbdNext]_kbdVars PROVE OpenInv'
  OBVIOUS
<1> USE DEF OpenInv
<1>1. ASSUME NEW l \in LedNames, NEW s \in BOOLEAN, LedEvent(l, s) PROVE OpenInv'
  BY <1>1 DEF LedEvent, Toggles, LedUnchanged, keyVars
<1>2. CASE LedTransfer BY <1>2 DEF LedTransfer, LedUnchanged, keyVars
<1>3. ASSUME NEW s \in BOOLEAN, LedComplete(s) PROVE OpenInv'
  BY <1>3 DEF LedComplete, LedRejects, LedUnchanged, keyVars
<1>4. CASE KeyChange BY <1>4 DEF KeyChange, KeyUnchanged, ledVars
<1>5. CASE IrqReports BY <1>5 DEF IrqReports, KeyUnchanged, ledVars
<1>6. CASE IrqFails BY <1>6 DEF IrqFails, keyVars, KeyUnchanged, ledVars
<1>7. CASE IrqUnlinked BY <1>7 DEF IrqUnlinked, IrqRejects, keyVars, KeyUnchanged,
  ledVars
<1>8. ASSUME NEW s \in BOOLEAN, IrqComplete(s) PROVE OpenInv'
  BY <1>8 DEF IrqComplete, IrqRejects, KeyUnchanged, ledVars
<1>9. ASSUME NEW s \in BOOLEAN, usb_kbd_open(s) PROVE OpenInv'
  BY <1>9 DEF usb_kbd_open, IrqRejects, ledVars, keyVars
<1>10. CASE usb_kbd_close BY <1>10 DEF usb_kbd_close, ledVars, keyVars
<1>11. CASE CloseEnd BY <1>11 DEF CloseEnd, ledVars, keyVars
<1>12. CASE usb_kbd_disconnect BY <1>12 DEF usb_kbd_disconnect, keyVars, DiscUnchanged, ledVars
<1>13. CASE DiscIrqKilled BY <1>13 DEF DiscIrqKilled, keyVars, DiscUnchanged, ledVars
<1>14. CASE DiscUnregister BY <1>14 DEF DiscUnregister, DiscUnchanged, ledVars
<1>15. CASE Unregistered BY <1>15 DEF Unregistered, keyVars, DiscUnchanged,
  ledVars
<1>16. CASE usb_kbd_free_mem BY <1>16 DEF usb_kbd_free_mem, keyVars, DiscUnchanged, ledVars
<1>17. CASE UNCHANGED kbdVars BY <1>17 DEF kbdVars, ledVars, keyVars
<1> QED BY <1>1, <1>2, <1>3, <1>4, <1>5, <1>6, <1>7, <1>8, <1>9, <1>10, <1>11, <1>12,
  <1>13, <1>14, <1>15, <1>16, <1>17 DEF KbdNext, LedCompletes, IrqCompletes

\* No step writes the buffer of a URB in flight.
LEMMA LedBufferStep == KbdTypeOK /\ LedInv /\ [KbdNext]_kbdVars => (ledUrb = "flying" /\ ledUrb' = "flying" => leds' = leds)
<1> SUFFICES ASSUME KbdTypeOK /\ LedInv, [KbdNext]_kbdVars PROVE (ledUrb = "flying" /\ ledUrb' = "flying" => leds' = leds)
  OBVIOUS
<1> USE DEF KbdTypeOK, LedInv, FlagTellsInFlight
<1>1. ASSUME NEW l \in LedNames, NEW s \in BOOLEAN, LedEvent(l, s) PROVE (ledUrb =
  "flying" /\ ledUrb' = "flying" => leds' = leds)
  BY <1>1 DEF LedEvent, Toggles, LedUnchanged, keyVars
<1>2. CASE LedTransfer BY <1>2 DEF LedTransfer, LedUnchanged, keyVars
<1>3. ASSUME NEW s \in BOOLEAN, LedComplete(s) PROVE (ledUrb = "flying" /\ ledUrb' =
  "flying" => leds' = leds)
  BY <1>3 DEF LedComplete, LedRejects, LedUnchanged, keyVars
<1>4. CASE KeyChange BY <1>4 DEF KeyChange, KeyUnchanged, ledVars
<1>5. CASE IrqReports BY <1>5 DEF IrqReports, KeyUnchanged, ledVars
<1>6. CASE IrqFails BY <1>6 DEF IrqFails, keyVars, KeyUnchanged, ledVars
<1>7. CASE IrqUnlinked BY <1>7 DEF IrqUnlinked, IrqRejects, keyVars, KeyUnchanged,
  ledVars
<1>8. ASSUME NEW s \in BOOLEAN, IrqComplete(s) PROVE (ledUrb = "flying" /\ ledUrb' =
  "flying" => leds' = leds)
  BY <1>8 DEF IrqComplete, IrqRejects, KeyUnchanged, ledVars
<1>9. ASSUME NEW s \in BOOLEAN, usb_kbd_open(s) PROVE (ledUrb = "flying" /\ ledUrb' = "flying"
  => leds' = leds)
  BY <1>9 DEF usb_kbd_open, IrqRejects, ledVars, keyVars
<1>10. CASE usb_kbd_close BY <1>10 DEF usb_kbd_close, ledVars, keyVars
<1>11. CASE CloseEnd BY <1>11 DEF CloseEnd, ledVars, keyVars
<1>12. CASE usb_kbd_disconnect BY <1>12 DEF usb_kbd_disconnect, keyVars, DiscUnchanged, ledVars
<1>13. CASE DiscIrqKilled BY <1>13 DEF DiscIrqKilled, keyVars, DiscUnchanged, ledVars
<1>14. CASE DiscUnregister BY <1>14 DEF DiscUnregister, DiscUnchanged, ledVars
<1>15. CASE Unregistered BY <1>15 DEF Unregistered, keyVars, DiscUnchanged,
  ledVars
<1>16. CASE usb_kbd_free_mem BY <1>16 DEF usb_kbd_free_mem, keyVars, DiscUnchanged, ledVars
<1>17. CASE UNCHANGED kbdVars BY <1>17 DEF kbdVars, ledVars, keyVars
<1> QED BY <1>1, <1>2, <1>3, <1>4, <1>5, <1>6, <1>7, <1>8, <1>9, <1>10, <1>11, <1>12,
  <1>13, <1>14, <1>15, <1>16, <1>17 DEF KbdNext, LedCompletes, IrqCompletes

\* The invariant holds when a keyboard has been probed.
LEMMA KbdInitInv == KbdInit => KbdInv
<1> SUFFICES ASSUME KbdInit PROVE KbdInv OBVIOUS
<1>1. led_urb_submitted \in BOOLEAN /\ failed \in BOOLEAN /\ open \in BOOLEAN /\ closing \in BOOLEAN
  BY Zenon DEF KbdInit
<1>2. KbdTypeOK BY <1>1, BoundsAssumption DEF KbdInit, KbdTypeOK, LedBits, Codes
<1>3. LedInv BY DEF KbdInit, LedInv, FlagTellsInFlight, CaughtUp
<1>4. KeyInv /\ OpenInv BY DEF KbdInit, KeyInv, KeysMatch, OpenInv
<1> QED BY <1>2, <1>3, <1>4 DEF KbdInv

\* The inductive invariant of the keyboard driver.
THEOREM KbdInductive == KbdSpec => []KbdInv
<1>1. KbdInv /\ [KbdNext]_kbdVars => KbdInv'
  BY KbdTypeStep, LedStep, KeyStep, OpenStep DEF KbdInv
<1> QED BY KbdInitInv, <1>1, PTL DEF KbdSpec

\* Every state is well typed; the rollover code is never reported as a key.
THEOREM KbdTypeCorrect == KbdSpec => []KbdTypeOK
<1>1. KbdInv => KbdTypeOK
  BY DEF KbdInv
<1> QED BY <1>1, KbdInductive, PTL

\* What the comment of struct usb_kbd says of led_urb_submitted is true.
THEOREM FlagIsTrue == KbdSpec => []FlagTellsInFlight
<1>1. KbdInv => FlagTellsInFlight
  BY DEF KbdInv, LedInv
<1> QED BY <1>1, KbdInductive, PTL

\* A change of the LEDs that is not in the buffer has a completion to come.
THEOREM NoChangeLeft == KbdSpec => []CaughtUp
<1>1. KbdInv => CaughtUp
  BY DEF KbdInv, LedInv
<1> QED BY <1>1, KbdInductive, PTL

\* usb_kbd_event never writes the byte a URB in flight is sending.
THEOREM BufferIsStable == KbdSpec => BufferStable
<1>1. KbdInv /\ [KbdNext]_kbdVars => [ledUrb = "flying" /\ ledUrb' = "flying" => leds' = leds]_kbdVars
  BY LedBufferStep DEF KbdInv
<1> QED BY <1>1, KbdInductive, PTL DEF KbdSpec, BufferStable

\* The keys the input core believes to be down are those of the last report.
THEOREM KeysFollowReports == KbdSpec => []KeysMatch
<1>1. KbdInv => KeysMatch
  BY DEF KbdInv, KeyInv
<1> QED BY <1>1, KbdInductive, PTL

\* usb_kbd_free_mem frees nothing that is in use.
THEOREM FreedIsUnused == KbdSpec => []FreedUnused
<1>1. KbdInv => FreedUnused
  BY DEF KbdInv, OpenInv, FreedUnused
<1> QED BY <1>1, KbdInductive, PTL

\* The flag of the LED URB tells the truth and no change is left behind, for any
\* LEDs and any number of events (kbd.c:155-211).
THEOREM LedsFollowEvents == KbdSpec => []LedsFollow
BY FlagIsTrue, NoChangeLeft, PTL DEF LedsFollow

-----------------------------------------------------------------------------
(* Frames to the RTL8150.                                                  *)

\* which operations exclude each other
TxControl ==
    /\ op # "none" => pm = "on"
    /\ op = "opening" => ~running
    /\ op = "closing" => running /\ xmit = "no"
    /\ xmit # "no" => running /\ op = "none" /\ pm # "off"
    /\ xmit = "submit" => tx_skb \in Skbs
    /\ disc # "no" => pm = "on"
    /\ disc \in {"unlink", "freed"} => ~running /\ op = "none"

TxQuiet == txUrb = "idle" /\ wcb = "no" /\ xmit = "no"

\* an interface that is closed or asleep has nothing on its way
RestInv ==
    /\ ~running \/ pm = "off" => TxQuiet
    /\ ~running /\ op = "none" => intrUrb = "idle"

FlowInv ==
    calm => /\ txUrb # "idle" => wcb = "no" /\ xmit = "no"
            /\ wcb # "no" => xmit = "no"
            /\ Awake /\ ~TxQuiet => xmit = "failed"

FrameInv ==
    calm => /\ txUrb # "idle" => inflight = tx_skb
            /\ txUrb # "idle" \/ wcb = "free" \/ xmit = "submit" => owner[tx_skb] = "driver"
            /\ \A s \in Skbs : owner[s] = "driver" =>
                   s = tx_skb /\ (txUrb # "idle" \/ wcb = "free" \/ xmit = "submit")

TxIInv == TypeOK /\ TxControl /\ RestInv /\ FlowInv /\ FrameInv

\* The variables stay well typed: the URB is submitted with a frame.
LEMMA TxTypeStep == TypeOK /\ TxControl /\ [Next]_vars => TypeOK'
<1> SUFFICES ASSUME TypeOK /\ TxControl, [Next]_vars PROVE TypeOK'
  OBVIOUS
<1> USE DEF TypeOK, TxControl
<1>1. CASE TxCompletes BY <1>1 DEF TxCompletes, skbVars, linkVars, admVars
<1>2. CASE IntrCompletes BY <1>2 DEF IntrCompletes, Killing, skbVars, txVars,
     admVars
<1>3. CASE CableChanges BY <1>3 DEF CableChanges, skbVars, txVars, admVars
<1>4. CASE Unplug BY <1>4 DEF Unplug, skbVars, txVars, linkVars
<1>5. CASE RxDetaches
  <2>1. present' \in BOOLEAN /\ stopped' \in BOOLEAN BY <1>5, Zenon DEF RxDetaches, Detach
  <2> QED BY <1>5, <2>1 DEF RxDetaches, skbVars, txVars, linkVars, admVars
<1>6. ASSUME NEW s \in Skbs, XmitFill(s) PROVE TypeOK'
  BY <1>6 DEF XmitFill, Free, txVars, TxLocal, linkVars, admVars
<1>7. ASSUME NEW r \in Outcomes, XmitSubmit(r) PROVE TypeOK'
  <2>1. present' \in BOOLEAN /\ stopped' \in BOOLEAN BY <1>7, Zenon DEF XmitSubmit,
    DetachIf, TxLocal, Detach
  <2>2. owner' \in [Skbs -> {"stack", "driver", "lost"}] BY <1>7 DEF XmitSubmit, txVars
  <2>3. txUrb' \in {"idle", "active", "unlinked"} /\ inflight' \in (IF txUrb' = "idle"
    THEN {NoSkb} ELSE Skbs) BY <1>7 DEF XmitSubmit, txVars, May
  <2>4. xmit' \in {"no", "submit", "failed"} BY <1>7 DEF XmitSubmit
  <2> QED BY <1>7, <2>1, <2>2, <2>3, <2>4 DEF XmitSubmit, txVars, TxLocal, linkVars,
    admVars
<1>8. CASE XmitFailed
  <2>1. stopped' \in BOOLEAN BY <1>8, Zenon DEF XmitFailed, TxLocal
  <2> QED BY <1>8, <2>1 DEF XmitFailed, skbVars, txVars, TxLocal, linkVars,
       admVars
<1>9. CASE WriteFree
  <2>1. stopped' \in BOOLEAN BY <1>9, Zenon DEF WriteFree, TxLocal
  <2>2. owner' \in [Skbs -> {"stack", "driver", "lost"}] BY <1>9 DEF WriteFree
  <2>3. wcb' \in {"no", "free", "check", "wake"} BY <1>9 DEF WriteFree
  <2> QED BY <1>9, <2>1, <2>2, <2>3 DEF WriteFree, txVars, TxLocal, linkVars, admVars
<1>10. CASE WriteCheck BY <1>10 DEF WriteCheck, skbVars, txVars, TxLocal,
     linkVars,
  admVars
<1>11. CASE WriteWake
  <2>1. stopped' \in BOOLEAN BY <1>11, Zenon DEF WriteWake, TxLocal
  <2> QED BY <1>11, <2>1 DEF WriteWake, skbVars, txVars, TxLocal, linkVars,
       admVars
<1>12. CASE TxTimeout BY <1>12 DEF TxTimeout, skbVars, TxLocal, linkVars, admVars
<1>13. ASSUME NEW r \in Outcomes, McastStop(r) PROVE TypeOK'
  BY <1>13 DEF McastStop, May, skbVars, txVars, linkVars, admVars, Outcomes
<1>14. CASE McastWake
  <2>1. stopped' \in BOOLEAN /\ calm' \in BOOLEAN /\ mcast' \in BOOLEAN BY <1>14, Zenon DEF
    McastWake
  <2> QED BY <1>14, <2>1 DEF McastWake, skbVars, txVars, linkVars, admVars
<1>15. ASSUME NEW r \in Outcomes, IntrHandles(r) PROVE TypeOK'
  <2>1. stopped' \in BOOLEAN /\ present' \in BOOLEAN /\ carrier' \in BOOLEAN BY <1>15,
    Zenon DEF IntrHandles, DetachIf, Detach
  <2>2. intrUrb' \in {"idle", "active", "ok", "error", "unlinked"} BY <1>15 DEF IntrHandles
  <2> QED BY <1>15, <2>1, <2>2 DEF IntrHandles, LinkLocal, skbVars, txVars, admVars
<1>16. CASE IntrUnlinked BY <1>16 DEF IntrUnlinked, LinkLocal, skbVars, txVars,
     admVars
<1>17. ASSUME NEW r \in Outcomes, Open(r) PROVE TypeOK'
  <2>1. stopped' \in BOOLEAN /\ present' \in BOOLEAN BY <1>17, Zenon DEF Open, DetachIf,
    Detach
  <2>2. intrUrb' \in {"idle", "active", "ok", "error", "unlinked"} BY <1>17 DEF Open
  <2>3. op' \in {"none", "opening", "closing"} BY <1>17 DEF Open
  <2> QED BY <1>17, <2>1, <2>2, <2>3 DEF Open, AdmLocal, skbVars, txVars
<1>18. CASE OpenStart
  <2>1. stopped' \in BOOLEAN /\ running' \in BOOLEAN /\ carrier' \in BOOLEAN BY <1>18,
    Zenon DEF OpenStart
  <2> QED BY <1>18, <2>1 DEF OpenStart, AdmLocal, skbVars, txVars
<1>19. CASE Close BY <1>19 DEF Close, Idle, AdmLocal, skbVars, txVars
<1>20. CASE Closed
  <2>1. running' \in BOOLEAN BY <1>20, Zenon DEF Closed
  <2> QED BY <1>20, <2>1 DEF Closed, TxKilled, IntrKilled, AdmLocal, skbVars, txVars
<1>21. CASE Suspend
  <2>1. stopped' \in BOOLEAN /\ present' \in BOOLEAN BY <1>21, Zenon DEF Suspend, Detach
  <2> QED BY <1>21, <2>1 DEF Suspend, AdmLocal, skbVars, txVars
<1>22. CASE Suspended BY <1>22 DEF Suspended, TxKilled, IntrKilled, AdmLocal,
     skbVars,
  txVars
<1>23. ASSUME NEW r \in Outcomes, Resume(r) PROVE TypeOK'
  <2>1. stopped' \in BOOLEAN /\ present' \in BOOLEAN /\ carrier' \in BOOLEAN BY <1>23,
    Zenon DEF Resume
  <2>2. intrUrb' \in {"idle", "active", "ok", "error", "unlinked"} BY <1>23 DEF Resume
  <2> QED BY <1>23, <2>1, <2>2 DEF Resume, AdmLocal, skbVars, txVars
<1>24. CASE DiscStart BY <1>24 DEF DiscStart, DiscLocal, AdmLocal, skbVars, txVars
<1>25. CASE DiscUnregistered BY <1>25 DEF DiscUnregistered, DiscLocal, AdmLocal,
  skbVars, txVars
<1>26. CASE DiscFree BY <1>26 DEF DiscFree, TxKilled, IntrKilled, DiscLocal,
     AdmLocal,
  skbVars, txVars
<1>27. CASE UNCHANGED vars BY <1>27 DEF vars, skbVars, txVars, linkVars, admVars
<1> QED BY <1>1, <1>2, <1>3, <1>4, <1>5, <1>6, <1>7, <1>8, <1>9, <1>10, <1>11, <1>12,
  <1>13, <1>14, <1>15, <1>16, <1>17, <1>18, <1>19, <1>20, <1>21, <1>22, <1>23, <1>24,
  <1>25, <1>26, <1>27 DEF Next, Environment, Xmit, Written, Mcast, Intr,
  Administration, Disconnect

\* The operations keep excluding each other.
LEMMA TxControlStep == TypeOK /\ TxControl /\ [Next]_vars => TxControl'
<1> SUFFICES ASSUME TypeOK /\ TxControl, [Next]_vars PROVE TxControl'
  OBVIOUS
<1> USE DEF TypeOK, TxControl
<1>1. CASE TxCompletes BY <1>1 DEF TxCompletes, skbVars, linkVars, admVars
<1>2. CASE IntrCompletes BY <1>2 DEF IntrCompletes, Killing, skbVars, txVars,
     admVars
<1>3. CASE CableChanges BY <1>3 DEF CableChanges, skbVars, txVars, admVars
<1>4. CASE Unplug BY <1>4 DEF Unplug, skbVars, txVars, linkVars
<1>5. CASE RxDetaches BY <1>5 DEF RxDetaches, Detach, skbVars, txVars, linkVars,
  admVars
<1>6. ASSUME NEW s \in Skbs, XmitFill(s) PROVE TxControl'
  BY <1>6 DEF XmitFill, Free, txVars, TxLocal, linkVars, admVars
<1>7. ASSUME NEW r \in Outcomes, XmitSubmit(r) PROVE TxControl'
  BY <1>7 DEF XmitSubmit, May, txVars, DetachIf, TxLocal, Detach,
     linkVars, admVars,
    Outcomes
<1>8. CASE XmitFailed BY <1>8 DEF XmitFailed, skbVars, txVars, TxLocal, linkVars,
  admVars
<1>9. CASE WriteFree BY <1>9 DEF WriteFree, txVars, TxLocal, linkVars, admVars
<1>10. CASE WriteCheck BY <1>10 DEF WriteCheck, skbVars, txVars, TxLocal,
     linkVars,
  admVars
<1>11. CASE WriteWake BY <1>11 DEF WriteWake, skbVars, txVars, TxLocal, linkVars,
  admVars
<1>12. CASE TxTimeout BY <1>12 DEF TxTimeout, skbVars, TxLocal, linkVars, admVars
<1>13. ASSUME NEW r \in Outcomes, McastStop(r) PROVE TxControl'
  BY <1>13 DEF McastStop, May, skbVars, txVars, linkVars, admVars, Outcomes
<1>14. CASE McastWake BY <1>14 DEF McastWake, skbVars, txVars, linkVars, admVars
<1>15. ASSUME NEW r \in Outcomes, IntrHandles(r) PROVE TxControl'
  BY <1>15 DEF IntrHandles, May, Killing, DetachIf, LinkLocal, Detach,
     skbVars, txVars,
    admVars, Outcomes
<1>16. CASE IntrUnlinked BY <1>16 DEF IntrUnlinked, LinkLocal, skbVars, txVars,
     admVars
<1>17. ASSUME NEW r \in Outcomes, Open(r) PROVE TxControl'
  BY <1>17 DEF Open, Idle, May, DetachIf, AdmLocal, Detach, skbVars,
     txVars, Outcomes
<1>18. CASE OpenStart BY <1>18 DEF OpenStart, AdmLocal, skbVars, txVars
<1>19. CASE Close BY <1>19 DEF Close, Idle, AdmLocal, skbVars, txVars
<1>20. CASE Closed BY <1>20 DEF Closed, TxKilled, IntrKilled, AdmLocal,
     skbVars, txVars
<1>21. CASE Suspend BY <1>21 DEF Suspend, Idle, Detach, AdmLocal, skbVars,
     txVars
<1>22. CASE Suspended BY <1>22 DEF Suspended, TxKilled, IntrKilled, AdmLocal,
     skbVars,
  txVars
<1>23. ASSUME NEW r \in Outcomes, Resume(r) PROVE TxControl'
  BY <1>23 DEF Resume, AdmLocal, skbVars, txVars, Outcomes
<1>24. CASE DiscStart BY <1>24 DEF DiscStart, DiscLocal, AdmLocal, skbVars, txVars
<1>25. CASE DiscUnregistered BY <1>25 DEF DiscUnregistered, DiscLocal, AdmLocal,
  skbVars, txVars
<1>26. CASE DiscFree BY <1>26 DEF DiscFree, TxKilled, IntrKilled, DiscLocal,
     AdmLocal,
  skbVars, txVars
<1>27. CASE UNCHANGED vars BY <1>27 DEF vars, skbVars, txVars, linkVars, admVars
<1> QED BY <1>1, <1>2, <1>3, <1>4, <1>5, <1>6, <1>7, <1>8, <1>9, <1>10, <1>11, <1>12,
  <1>13, <1>14, <1>15, <1>16, <1>17, <1>18, <1>19, <1>20, <1>21, <1>22, <1>23, <1>24,
  <1>25, <1>26, <1>27 DEF Next, Environment, Xmit, Written, Mcast, Intr,
  Administration, Disconnect

\* What is closed or asleep has nothing on its way.
LEMMA RestStep == TypeOK /\ TxControl /\ RestInv /\ [Next]_vars => RestInv'
<1> SUFFICES ASSUME TypeOK /\ TxControl /\ RestInv, [Next]_vars PROVE RestInv'
  OBVIOUS
<1> USE DEF TypeOK, TxControl, RestInv, TxQuiet
<1>1. CASE TxCompletes BY <1>1 DEF TxCompletes, skbVars, linkVars, admVars
<1>2. CASE IntrCompletes BY <1>2 DEF IntrCompletes, Killing, skbVars, txVars,
     admVars
<1>3. CASE CableChanges BY <1>3 DEF CableChanges, skbVars, txVars, admVars
<1>4. CASE Unplug BY <1>4 DEF Unplug, skbVars, txVars, linkVars
<1>5. CASE RxDetaches BY <1>5 DEF RxDetaches, Detach, skbVars, txVars, linkVars,
  admVars
<1>6. ASSUME NEW s \in Skbs, XmitFill(s) PROVE RestInv'
  BY <1>6 DEF XmitFill, Free, txVars, TxLocal, linkVars, admVars
<1>7. ASSUME NEW r \in Outcomes, XmitSubmit(r) PROVE RestInv'
  BY <1>7 DEF XmitSubmit, May, txVars, DetachIf, TxLocal, Detach,
     linkVars, admVars,
    Outcomes
<1>8. CASE XmitFailed BY <1>8 DEF XmitFailed, skbVars, txVars, TxLocal, linkVars,
  admVars
<1>9. CASE WriteFree BY <1>9 DEF WriteFree, txVars, TxLocal, linkVars, admVars
<1>10. CASE WriteCheck BY <1>10 DEF WriteCheck, skbVars, txVars, TxLocal,
     linkVars,
  admVars
<1>11. CASE WriteWake BY <1>11 DEF WriteWake, skbVars, txVars, TxLocal, linkVars,
  admVars
<1>12. CASE TxTimeout BY <1>12 DEF TxTimeout, skbVars, TxLocal, linkVars, admVars
<1>13. ASSUME NEW r \in Outcomes, McastStop(r) PROVE RestInv'
  BY <1>13 DEF McastStop, May, skbVars, txVars, linkVars, admVars, Outcomes
<1>14. CASE McastWake BY <1>14 DEF McastWake, skbVars, txVars, linkVars, admVars
<1>15. ASSUME NEW r \in Outcomes, IntrHandles(r) PROVE RestInv'
  BY <1>15 DEF IntrHandles, May, Killing, DetachIf, LinkLocal, Detach,
     skbVars, txVars,
    admVars, Outcomes
<1>16. CASE IntrUnlinked BY <1>16 DEF IntrUnlinked, LinkLocal, skbVars, txVars,
     admVars
<1>17. ASSUME NEW r \in Outcomes, Open(r) PROVE RestInv'
  BY <1>17 DEF Open, Idle, May, DetachIf, AdmLocal, Detach, skbVars,
     txVars, Outcomes
<1>18. CASE OpenStart BY <1>18 DEF OpenStart, AdmLocal, skbVars, txVars
<1>19. CASE Close BY <1>19 DEF Close, Idle, AdmLocal, skbVars, txVars
<1>20. CASE Closed BY <1>20 DEF Closed, TxKilled, IntrKilled, AdmLocal,
     skbVars, txVars
<1>21. CASE Suspend BY <1>21 DEF Suspend, Idle, Detach, AdmLocal, skbVars,
     txVars
<1>22. CASE Suspended BY <1>22 DEF Suspended, TxKilled, IntrKilled, AdmLocal,
     skbVars,
  txVars
<1>23. ASSUME NEW r \in Outcomes, Resume(r) PROVE RestInv'
  BY <1>23 DEF Resume, AdmLocal, skbVars, txVars, Outcomes
<1>24. CASE DiscStart BY <1>24 DEF DiscStart, DiscLocal, AdmLocal, skbVars, txVars
<1>25. CASE DiscUnregistered BY <1>25 DEF DiscUnregistered, DiscLocal, AdmLocal,
  skbVars, txVars
<1>26. CASE DiscFree BY <1>26 DEF DiscFree, TxKilled, IntrKilled, DiscLocal,
     AdmLocal,
  skbVars, txVars
<1>27. CASE UNCHANGED vars BY <1>27 DEF vars, skbVars, txVars, linkVars, admVars
<1> QED BY <1>1, <1>2, <1>3, <1>4, <1>5, <1>6, <1>7, <1>8, <1>9, <1>10, <1>11, <1>12,
  <1>13, <1>14, <1>15, <1>16, <1>17, <1>18, <1>19, <1>20, <1>21, <1>22, <1>23, <1>24,
  <1>25, <1>26, <1>27 DEF Next, Environment, Xmit, Written, Mcast, Intr,
  Administration, Disconnect

\* One frame is on its way at a time, with the queue stopped.
LEMMA FlowStep == TypeOK /\ TxControl /\ RestInv /\ FlowInv /\ [Next]_vars => FlowInv'
<1> SUFFICES ASSUME TypeOK /\ TxControl /\ RestInv /\ FlowInv, [Next]_vars PROVE FlowInv'
  OBVIOUS
<1> USE DEF TypeOK, TxControl, RestInv, TxQuiet, FlowInv, Awake
<1>1. CASE TxCompletes BY <1>1 DEF TxCompletes, skbVars, linkVars, admVars
<1>2. CASE IntrCompletes BY <1>2 DEF IntrCompletes, Killing, skbVars, txVars,
     admVars
<1>3. CASE CableChanges BY <1>3 DEF CableChanges, skbVars, txVars, admVars
<1>4. CASE Unplug BY <1>4 DEF Unplug, skbVars, txVars, linkVars
<1>5. CASE RxDetaches BY <1>5 DEF RxDetaches, Detach, skbVars, txVars, linkVars,
  admVars
<1>6. ASSUME NEW s \in Skbs, XmitFill(s) PROVE FlowInv'
  BY <1>6 DEF XmitFill, Free, txVars, TxLocal, linkVars, admVars
<1>7. ASSUME NEW r \in Outcomes, XmitSubmit(r) PROVE FlowInv'
  BY <1>7 DEF XmitSubmit, May, txVars, DetachIf, TxLocal, Detach,
     linkVars, admVars,
    Outcomes
<1>8. CASE XmitFailed BY <1>8 DEF XmitFailed, skbVars, txVars, TxLocal, linkVars,
  admVars
<1>9. CASE WriteFree BY <1>9 DEF WriteFree, txVars, TxLocal, linkVars, admVars
<1>10. CASE WriteCheck BY <1>10 DEF WriteCheck, skbVars, txVars, TxLocal,
     linkVars,
  admVars
<1>11. CASE WriteWake BY <1>11 DEF WriteWake, skbVars, txVars, TxLocal, linkVars,
  admVars
<1>12. CASE TxTimeout BY <1>12 DEF TxTimeout, skbVars, TxLocal, linkVars, admVars
<1>13. ASSUME NEW r \in Outcomes, McastStop(r) PROVE FlowInv'
  BY <1>13 DEF McastStop, May, skbVars, txVars, linkVars, admVars, Outcomes
<1>14. CASE McastWake BY <1>14 DEF McastWake, skbVars, txVars, linkVars, admVars
<1>15. ASSUME NEW r \in Outcomes, IntrHandles(r) PROVE FlowInv'
  BY <1>15 DEF IntrHandles, May, Killing, DetachIf, LinkLocal, Detach,
     skbVars, txVars,
    admVars, Outcomes
<1>16. CASE IntrUnlinked BY <1>16 DEF IntrUnlinked, LinkLocal, skbVars, txVars,
     admVars
<1>17. ASSUME NEW r \in Outcomes, Open(r) PROVE FlowInv'
  BY <1>17 DEF Open, Idle, May, DetachIf, AdmLocal, Detach, skbVars,
     txVars, Outcomes
<1>18. CASE OpenStart BY <1>18 DEF OpenStart, AdmLocal, skbVars, txVars
<1>19. CASE Close BY <1>19 DEF Close, Idle, AdmLocal, skbVars, txVars
<1>20. CASE Closed BY <1>20 DEF Closed, TxKilled, IntrKilled, AdmLocal,
     skbVars, txVars
<1>21. CASE Suspend BY <1>21 DEF Suspend, Idle, Detach, AdmLocal, skbVars,
     txVars
<1>22. CASE Suspended BY <1>22 DEF Suspended, TxKilled, IntrKilled, AdmLocal,
     skbVars,
  txVars
<1>23. ASSUME NEW r \in Outcomes, Resume(r) PROVE FlowInv'
  BY <1>23 DEF Resume, AdmLocal, skbVars, txVars, Outcomes
<1>24. CASE DiscStart BY <1>24 DEF DiscStart, DiscLocal, AdmLocal, skbVars, txVars
<1>25. CASE DiscUnregistered BY <1>25 DEF DiscUnregistered, DiscLocal, AdmLocal,
  skbVars, txVars
<1>26. CASE DiscFree BY <1>26 DEF DiscFree, TxKilled, IntrKilled, DiscLocal,
     AdmLocal,
  skbVars, txVars
<1>27. CASE UNCHANGED vars BY <1>27 DEF vars, skbVars, txVars, linkVars, admVars
<1> QED BY <1>1, <1>2, <1>3, <1>4, <1>5, <1>6, <1>7, <1>8, <1>9, <1>10, <1>11, <1>12,
  <1>13, <1>14, <1>15, <1>16, <1>17, <1>18, <1>19, <1>20, <1>21, <1>22, <1>23, <1>24,
  <1>25, <1>26, <1>27 DEF Next, Environment, Xmit, Written, Mcast, Intr,
  Administration, Disconnect

\* That frame is dev->tx_skb, and the only one that the driver has.
LEMMA FrameStep ==
    TypeOK /\ TxControl /\ RestInv /\ FlowInv /\ FrameInv /\ [Next]_vars => FrameInv'
<1> SUFFICES ASSUME TypeOK /\ TxControl /\ RestInv /\ FlowInv /\ FrameInv, [Next]_vars PROVE FrameInv'
  OBVIOUS
<1> USE DEF TypeOK, TxControl, RestInv, TxQuiet, FlowInv, Awake, FrameInv
<1>1. CASE TxCompletes BY <1>1 DEF TxCompletes, skbVars, linkVars, admVars
<1>2. CASE IntrCompletes BY <1>2 DEF IntrCompletes, Killing, skbVars, txVars,
     admVars
<1>3. CASE CableChanges BY <1>3 DEF CableChanges, skbVars, txVars, admVars
<1>4. CASE Unplug BY <1>4 DEF Unplug, skbVars, txVars, linkVars
<1>5. CASE RxDetaches BY <1>5 DEF RxDetaches, Detach, skbVars, txVars, linkVars,
  admVars
<1>6. ASSUME NEW s \in Skbs, XmitFill(s) PROVE FrameInv'
  BY <1>6 DEF XmitFill, Free, txVars, TxLocal, linkVars, admVars
<1>7. ASSUME NEW r \in Outcomes, XmitSubmit(r) PROVE FrameInv'
  BY <1>7 DEF XmitSubmit, May, txVars, DetachIf, TxLocal, Detach,
     linkVars, admVars,
    Outcomes
<1>8. CASE XmitFailed BY <1>8 DEF XmitFailed, skbVars, txVars, TxLocal, linkVars,
  admVars
<1>9. CASE WriteFree BY <1>9 DEF WriteFree, txVars, TxLocal, linkVars, admVars
<1>10. CASE WriteCheck BY <1>10 DEF WriteCheck, skbVars, txVars, TxLocal,
     linkVars,
  admVars
<1>11. CASE WriteWake BY <1>11 DEF WriteWake, skbVars, txVars, TxLocal, linkVars,
  admVars
<1>12. CASE TxTimeout BY <1>12 DEF TxTimeout, skbVars, TxLocal, linkVars, admVars
<1>13. ASSUME NEW r \in Outcomes, McastStop(r) PROVE FrameInv'
  BY <1>13 DEF McastStop, May, skbVars, txVars, linkVars, admVars, Outcomes
<1>14. CASE McastWake BY <1>14 DEF McastWake, skbVars, txVars, linkVars, admVars
<1>15. ASSUME NEW r \in Outcomes, IntrHandles(r) PROVE FrameInv'
  BY <1>15 DEF IntrHandles, May, Killing, DetachIf, LinkLocal, Detach,
     skbVars, txVars,
    admVars, Outcomes
<1>16. CASE IntrUnlinked BY <1>16 DEF IntrUnlinked, LinkLocal, skbVars, txVars,
     admVars
<1>17. ASSUME NEW r \in Outcomes, Open(r) PROVE FrameInv'
  BY <1>17 DEF Open, Idle, May, DetachIf, AdmLocal, Detach, skbVars,
     txVars, Outcomes
<1>18. CASE OpenStart BY <1>18 DEF OpenStart, AdmLocal, skbVars, txVars
<1>19. CASE Close BY <1>19 DEF Close, Idle, AdmLocal, skbVars, txVars
<1>20. CASE Closed BY <1>20 DEF Closed, TxKilled, IntrKilled, AdmLocal,
     skbVars, txVars
<1>21. CASE Suspend BY <1>21 DEF Suspend, Idle, Detach, AdmLocal, skbVars,
     txVars
<1>22. CASE Suspended BY <1>22 DEF Suspended, TxKilled, IntrKilled, AdmLocal,
     skbVars,
  txVars
<1>23. ASSUME NEW r \in Outcomes, Resume(r) PROVE FrameInv'
  BY <1>23 DEF Resume, AdmLocal, skbVars, txVars, Outcomes
<1>24. CASE DiscStart BY <1>24 DEF DiscStart, DiscLocal, AdmLocal, skbVars, txVars
<1>25. CASE DiscUnregistered BY <1>25 DEF DiscUnregistered, DiscLocal, AdmLocal,
  skbVars, txVars
<1>26. CASE DiscFree BY <1>26 DEF DiscFree, TxKilled, IntrKilled, DiscLocal,
     AdmLocal,
  skbVars, txVars
<1>27. CASE UNCHANGED vars BY <1>27 DEF vars, skbVars, txVars, linkVars, admVars
<1> QED BY <1>1, <1>2, <1>3, <1>4, <1>5, <1>6, <1>7, <1>8, <1>9, <1>10, <1>11, <1>12,
  <1>13, <1>14, <1>15, <1>16, <1>17, <1>18, <1>19, <1>20, <1>21, <1>22, <1>23, <1>24,
  <1>25, <1>26, <1>27 DEF Next, Environment, Xmit, Written, Mcast, Intr,
  Administration, Disconnect

\* The invariant holds when the device has been probed.
LEMMA TxInitIInv == Init => TxIInv
<1> SUFFICES ASSUME Init PROVE TxIInv OBVIOUS
<1> USE DEF Init
<1>1. TypeOK BY DEF TypeOK
<1>2. TxControl BY DEF TxControl
<1>3. RestInv /\ FlowInv BY DEF RestInv, FlowInv, TxQuiet
<1>4. FrameInv BY DEF FrameInv
<1> QED BY <1>1, <1>2, <1>3, <1>4 DEF TxIInv

\* The inductive invariant of transmission.
THEOREM TxInductive == Spec => []TxIInv
<1>1. TxIInv /\ [Next]_vars => TxIInv'
  BY TxTypeStep, TxControlStep, RestStep, FlowStep, FrameStep DEF TxIInv
<1> QED BY TxInitIInv, <1>1, PTL DEF Spec

\* Every state is well typed; a URB in flight has a frame.
THEOREM TxTypeCorrect == Spec => []TypeOK
<1>1. TxIInv => TypeOK
  BY DEF TxIInv
<1> QED BY <1>1, TxInductive, PTL

\* The queue is awake only when tx_urb is free.
THEOREM FlowControlHolds == Spec => []AwakeMeansFree
<1>1. TxIInv => AwakeMeansFree
  BY DEF TxIInv, FlowInv, TxQuiet, AwakeMeansFree
<1> QED BY <1>1, TxInductive, PTL

\* write_bulk_callback frees the frame that was sent, once.
THEOREM SentFrameIsFreedOnce == Spec => []FreesWhatWasSent
<1>1. TxIInv => FreesWhatWasSent
  BY DEF TxIInv, FlowInv, FrameInv, FreesWhatWasSent
<1> QED BY <1>1, TxInductive, PTL

\* The driver has no frame that is not on its way.
THEOREM NoFrameForgotten == Spec => []NothingForgotten
<1>1. TxIInv => NothingForgotten
  BY DEF TxIInv, FrameInv, NothingForgotten
<1> QED BY <1>1, TxInductive, PTL

\* Every frame is where the queue says it is, for every set of frames
\* (rtl_8150.c:598-614, 837-843, 902-932).
THEOREM FramesAreAccounted == Spec => []FramesAccounted
BY FlowControlHolds, SentFrameIsFreedOnce, NoFrameForgotten, PTL DEF FramesAccounted

-----------------------------------------------------------------------------
(* Synchronous connections and frames of the Bluetooth driver.             *)

\* btusb_work with a connection: holding the device awake, with the voice
\* setting selected, and after it has set BTUSB_ISOC_RUNNING
UpBranch == {"resume", "kill", "up", "upkill", "upset", "endpoints", "start", "first", "second"}
Resumed == {"up", "upkill", "upset", "endpoints", "start", "first", "second"}
VoiceSet == {"endpoints", "start", "first", "second"}
Running == {"first", "second"}

\* btusb_work without a connection; and after a branch has killed the URBs
DownBranch == {"down", "downkill", "downset", "put"}
Killed == {"upset", "endpoints", "downset", "put", "first"}

\* The frames: each URB is counted, and nothing is sent or left once flushed
Frames ==
    /\ tx + (IF sending = "counted" THEN 1 ELSE 0) <= tx_in_flight
    /\ tx_sco + (IF sending = "sco" THEN 1 ELSE 0) <= MaxTx
    /\ sending # "idle" => hci = "open"
    /\ hci \in {"close", "stop", "closed"} => tx = 0 /\ tx_sco = 0

\* The close: no connection, then no work item, then no isochronous URB
Closing ==
    /\ hci # "open" => conns = 0
    /\ hci \in {"stop", "closed"} => ~pending /\ work = "idle" /\ ~ISOC_RUNNING
    /\ hci = "closed" => isoc = 0

\* What btusb_work holds and has started at each of its control points
Stage ==
    /\ usage = IF DID_ISO_RESUME THEN 1 ELSE 0
    /\ work \in {"resume", "kill"} => usage = 0
    /\ work \in Resumed => usage = 1
    /\ work \in VoiceSet => altsetting = 2
    /\ work \in Killed => isoc = 0
    /\ work = "second" => isoc = 1
    /\ work \in Running => ISOC_RUNNING
    /\ ISOC_RUNNING => /\ usage = 1 /\ altsetting = 2
                       /\ work \in {"idle", "up", "start", "down"} \cup Running
    /\ isoc > 0 => usage = 1 /\ altsetting = 2 /\ isoc <= 2
    /\ isoc > 0 => ISOC_RUNNING \/ work \in {"upkill", "downkill"} \/ hci = "stop"

\* No change of the connections goes unnoticed
Noticed ==
    /\ sco_num = conns
    /\ ~pending /\ work \in UpBranch => conns > 0
    /\ ~pending /\ work \in DownBranch => conns = 0
    /\ work = "kill" => erred
    /\ ~pending /\ work = "idle" /\ ~erred /\ ~cut
         => IF conns > 0 THEN ISOC_RUNNING ELSE isoc = 0 /\ usage = 0

BtusbInv == BtusbTypeOK /\ Frames /\ Closing /\ Stage /\ Noticed

USE MaxCallsAssumption, MaxTxAssumption

-----------------------------------------------------------------------------
\* The invariant holds when the driver has been probed.
LEMMA BtusbInitInv == BtusbInit => BtusbInv
<1> SUFFICES ASSUME BtusbInit PROVE BtusbInv OBVIOUS
<1>1. /\ pending \in BOOLEAN /\ ISOC_RUNNING \in BOOLEAN /\ DID_ISO_RESUME \in BOOLEAN
      /\ endpoints \in BOOLEAN /\ erred \in BOOLEAN /\ cut \in BOOLEAN
  BY Zenon DEF BtusbInit
<1>2. BtusbTypeOK BY <1>1 DEF BtusbInit, BtusbTypeOK
<1>3. Frames /\ Closing BY DEF BtusbInit, Frames, Closing
<1>4. Stage /\ Noticed
  BY DEF BtusbInit, Stage, Noticed, UpBranch, Resumed, VoiceSet, Running, DownBranch, Killed
<1> QED BY <1>2, <1>3, <1>4 DEF BtusbInv

\* The variables stay well typed.
LEMMA BtusbTypeStep == BtusbInv /\ [BtusbNext]_btusbVars => BtusbTypeOK'
<1> SUFFICES ASSUME BtusbInv, [BtusbNext]_btusbVars PROVE BtusbTypeOK'
  OBVIOUS
<1> USE DEF BtusbInv, BtusbTypeOK, Frames, Stage, UpBranch, Resumed, VoiceSet, Running, DownBranch,
     Killed, workVars, frameVars
<1>1. CASE btusb_open BY <1>1 DEF btusb_open
<1>2. CASE Connections
  <2>1. conns' \in 0 .. MaxCalls /\ sco_num' = conns'
    BY <1>2 DEF Connections, btusb_notify
  <2>2. pending' \in BOOLEAN /\ cut' \in BOOLEAN
    BY Zenon, <1>2 DEF Connections, btusb_notify
  <2>3. QED BY <1>2, <2>1, <2>2 DEF Connections
<1>3. CASE Shutdown BY <1>3 DEF Shutdown, btusb_notify
<1>4. CASE btusb_flush BY <1>4 DEF btusb_flush
<1>5. CASE btusb_close BY <1>5 DEF btusb_close
<1>6. CASE btusb_stop_traffic BY <1>6 DEF btusb_stop_traffic
<1>7. CASE Send BY <1>7 DEF Send
<1>8. CASE Submit BY <1>8 DEF Submit
<1>9. CASE Sent BY <1>9 DEF Sent
<1>10. CASE WorkStart BY <1>10 DEF WorkStart, Works
<1>11. CASE WorkResume
  <2>1. work = "resume" /\ usage = 0 BY <1>11 DEF WorkResume, Works
  <2>2. /\ DID_ISO_RESUME' \in BOOLEAN /\ ISOC_RUNNING' \in BOOLEAN /\ erred' \in BOOLEAN
    BY Zenon, <1>11 DEF WorkResume, Works
  <2>3. QED BY <1>11, <2>1, <2>2 DEF WorkResume, Works
<1>12. CASE WorkAltsetting BY ZenonT(60), <1>12 DEF WorkAltsetting, Works
<1>13. CASE WorkDown BY <1>13 DEF WorkDown, Works
<1>14. CASE WorkKill BY <1>14 DEF WorkKill, Works
<1>15. CASE __set_isoc_interface
  <2>1. endpoints' \in BOOLEAN /\ erred' \in BOOLEAN
    BY Zenon, <1>15 DEF __set_isoc_interface, Works
  <2>2. altsetting' \in {0, 2} /\ UNCHANGED <<ISOC_RUNNING, DID_ISO_RESUME, usage, isoc>>
    BY <1>15 DEF __set_isoc_interface
  <2>3. work' \in {"endpoints", "idle", "start", "put"}
    BY <1>15 DEF __set_isoc_interface, Works
  <2>4. UNCHANGED <<hci, conns, sco_num, pending, frameVars, cut>>
    BY <1>15 DEF __set_isoc_interface, Works
  <2>5. QED BY <2>1, <2>2, <2>3, <2>4
<1>16. CASE WorkRun BY ZenonT(60), <1>16 DEF WorkRun, Works
<1>17. CASE WorkSubmit
  <2>1. ISOC_RUNNING' \in BOOLEAN /\ erred' \in BOOLEAN
    BY Zenon, <1>17 DEF WorkSubmit, Works
  <2>2. isoc' \in 0 .. 3 /\ work' \in {"second", "idle"}
    BY <1>17 DEF WorkSubmit, Works
  <2>3. UNCHANGED <<hci, conns, sco_num, pending, frameVars, cut, DID_ISO_RESUME, altsetting,
                    endpoints, usage>>
    BY <1>17 DEF WorkSubmit, Works
  <2>4. QED BY <2>1, <2>2, <2>3
<1>18. CASE WorkPut
  <2>1. DID_ISO_RESUME' \in BOOLEAN BY Zenon, <1>18 DEF WorkPut
  <2>2. usage' = 0 BY <1>18 DEF WorkPut
  <2>3. QED BY <1>18, <2>1, <2>2 DEF WorkPut, Works
<1>19. CASE IsocEnds BY <1>19 DEF IsocEnds
<1>20. CASE UNCHANGED btusbVars BY <1>20 DEF btusbVars
<1> QED
  BY <1>1, <1>2, <1>3, <1>4, <1>5, <1>6, <1>7, <1>8, <1>9, <1>10, <1>11, <1>12, <1>13, <1>14,
     <1>15, <1>16, <1>17, <1>18, <1>19, <1>20 DEF BtusbNext, btusb_work

\* The frames stay counted.
LEMMA FramesStep == BtusbTypeOK /\ Frames /\ [BtusbNext]_btusbVars => Frames'
<1> SUFFICES ASSUME BtusbTypeOK, Frames, [BtusbNext]_btusbVars PROVE Frames'
  OBVIOUS
<1> USE DEF BtusbTypeOK, Frames, workVars, frameVars
<1>1. CASE btusb_open BY <1>1 DEF btusb_open
<1>2. CASE Connections BY <1>2 DEF Connections, btusb_notify
<1>3. CASE Shutdown BY <1>3 DEF Shutdown, btusb_notify
<1>4. CASE btusb_flush BY <1>4 DEF btusb_flush
<1>5. CASE btusb_close BY <1>5 DEF btusb_close
<1>6. CASE btusb_stop_traffic BY <1>6 DEF btusb_stop_traffic
<1>7. CASE Send BY <1>7 DEF Send
<1>8. CASE Submit BY <1>8 DEF Submit
<1>9. CASE Sent BY <1>9 DEF Sent
<1>10. CASE WorkStart BY <1>10 DEF WorkStart, Works
<1>11. CASE WorkResume BY <1>11 DEF WorkResume, Works
<1>12. CASE WorkAltsetting BY <1>12 DEF WorkAltsetting, Works
<1>13. CASE WorkDown BY <1>13 DEF WorkDown, Works
<1>14. CASE WorkKill BY <1>14 DEF WorkKill, Works
<1>15. CASE __set_isoc_interface BY <1>15 DEF __set_isoc_interface, Works
<1>16. CASE WorkRun BY <1>16 DEF WorkRun, Works
<1>17. CASE WorkSubmit BY <1>17 DEF WorkSubmit, Works
<1>18. CASE WorkPut BY <1>18 DEF WorkPut, Works
<1>19. CASE IsocEnds BY <1>19 DEF IsocEnds
<1>20. CASE UNCHANGED btusbVars BY <1>20 DEF btusbVars
<1> QED
  BY <1>1, <1>2, <1>3, <1>4, <1>5, <1>6, <1>7, <1>8, <1>9, <1>10, <1>11, <1>12, <1>13, <1>14,
     <1>15, <1>16, <1>17, <1>18, <1>19, <1>20 DEF BtusbNext, btusb_work

\* Every step keeps the order of the close.
LEMMA ClosingStep == BtusbInv /\ [BtusbNext]_btusbVars => Closing'
<1> SUFFICES ASSUME BtusbInv, [BtusbNext]_btusbVars PROVE Closing'
  OBVIOUS
<1> USE DEF BtusbInv, BtusbTypeOK, Closing, Stage, UpBranch, Resumed, VoiceSet, Running, DownBranch,
     Killed, workVars, frameVars
<1>1. CASE btusb_open BY <1>1 DEF btusb_open
<1>2. CASE Connections BY <1>2 DEF Connections, btusb_notify
<1>3. CASE Shutdown BY <1>3 DEF Shutdown, btusb_notify
<1>4. CASE btusb_flush BY <1>4 DEF btusb_flush
<1>5. CASE btusb_close BY <1>5 DEF btusb_close
<1>6. CASE btusb_stop_traffic BY <1>6 DEF btusb_stop_traffic
<1>7. CASE Send BY <1>7 DEF Send
<1>8. CASE Submit BY <1>8 DEF Submit
<1>9. CASE Sent BY <1>9 DEF Sent
<1>10. CASE WorkStart BY <1>10 DEF WorkStart, Works
<1>11. CASE WorkResume BY <1>11 DEF WorkResume, Works
<1>12. CASE WorkAltsetting BY <1>12 DEF WorkAltsetting, Works
<1>13. CASE WorkDown BY <1>13 DEF WorkDown, Works
<1>14. CASE WorkKill BY <1>14 DEF WorkKill, Works
<1>15. CASE __set_isoc_interface BY <1>15 DEF __set_isoc_interface, Works
<1>16. CASE WorkRun BY <1>16 DEF WorkRun, Works
<1>17. CASE WorkSubmit BY <1>17 DEF WorkSubmit, Works
<1>18. CASE WorkPut BY <1>18 DEF WorkPut, Works
<1>19. CASE IsocEnds BY <1>19 DEF IsocEnds
<1>20. CASE UNCHANGED btusbVars BY <1>20 DEF btusbVars
<1> QED
  BY <1>1, <1>2, <1>3, <1>4, <1>5, <1>6, <1>7, <1>8, <1>9, <1>10, <1>11, <1>12, <1>13, <1>14,
     <1>15, <1>16, <1>17, <1>18, <1>19, <1>20 DEF BtusbNext, btusb_work

\* Every step of the work item leaves it with what its next stage expects.
LEMMA StageStep == BtusbInv /\ [BtusbNext]_btusbVars => Stage'
<1> SUFFICES ASSUME BtusbInv, [BtusbNext]_btusbVars PROVE Stage'
  OBVIOUS
<1> USE DEF BtusbInv, BtusbTypeOK, Closing, Stage, UpBranch, Resumed, VoiceSet, Running, DownBranch,
     Killed, workVars, frameVars
<1>1. CASE btusb_open BY <1>1 DEF btusb_open
<1>2. CASE Connections BY <1>2 DEF Connections, btusb_notify
<1>3. CASE Shutdown BY <1>3 DEF Shutdown, btusb_notify
<1>4. CASE btusb_flush BY <1>4 DEF btusb_flush
<1>5. CASE btusb_close BY <1>5 DEF btusb_close
<1>6. CASE btusb_stop_traffic BY <1>6 DEF btusb_stop_traffic
<1>7. CASE Send BY <1>7 DEF Send
<1>8. CASE Submit BY <1>8 DEF Submit
<1>9. CASE Sent BY <1>9 DEF Sent
<1>10. CASE WorkStart BY <1>10 DEF WorkStart, Works
<1>11. CASE WorkResume BY <1>11 DEF WorkResume, Works
<1>12. CASE WorkAltsetting BY <1>12 DEF WorkAltsetting, Works
<1>13. CASE WorkDown BY <1>13 DEF WorkDown, Works
<1>14. CASE WorkKill BY <1>14 DEF WorkKill, Works
<1>15. CASE __set_isoc_interface BY <1>15 DEF __set_isoc_interface, Works
<1>16. CASE WorkRun BY <1>16 DEF WorkRun, Works
<1>17. CASE WorkSubmit BY <1>17 DEF WorkSubmit, Works
<1>18. CASE WorkPut BY <1>18 DEF WorkPut, Works
<1>19. CASE IsocEnds BY <1>19 DEF IsocEnds
<1>20. CASE UNCHANGED btusbVars BY <1>20 DEF btusbVars
<1> QED
  BY <1>1, <1>2, <1>3, <1>4, <1>5, <1>6, <1>7, <1>8, <1>9, <1>10, <1>11, <1>12, <1>13, <1>14,
     <1>15, <1>16, <1>17, <1>18, <1>19, <1>20 DEF BtusbNext, btusb_work

\* No change of the connections goes unnoticed.
LEMMA NoticedStep == BtusbInv /\ [BtusbNext]_btusbVars => Noticed'
<1> SUFFICES ASSUME BtusbInv, [BtusbNext]_btusbVars PROVE Noticed'
  OBVIOUS
<1> USE DEF BtusbInv, BtusbTypeOK, Closing, Stage, Noticed, UpBranch, Resumed, VoiceSet, Running,
     DownBranch, Killed, workVars, frameVars
<1>1. CASE btusb_open BY <1>1 DEF btusb_open
<1>2. CASE Connections
  <2>1. conns' # conns /\ sco_num' = conns' BY <1>2 DEF Connections, btusb_notify
  <2>2. pending' BY <1>2, <2>1 DEF Connections, btusb_notify
  <2>3. work' = work /\ erred' = erred BY <1>2 DEF Connections
  <2>4. QED BY <2>1, <2>2, <2>3
<1>3. CASE Shutdown BY <1>3 DEF Shutdown, btusb_notify
<1>4. CASE btusb_flush BY <1>4 DEF btusb_flush
<1>5. CASE btusb_close BY <1>5 DEF btusb_close
<1>6. CASE btusb_stop_traffic BY <1>6 DEF btusb_stop_traffic
<1>7. CASE Send BY <1>7 DEF Send
<1>8. CASE Submit BY <1>8 DEF Submit
<1>9. CASE Sent BY <1>9 DEF Sent
<1>10. CASE WorkStart BY <1>10 DEF WorkStart, Works
<1>11. CASE WorkResume BY <1>11 DEF WorkResume, Works
<1>12. CASE WorkAltsetting BY <1>12 DEF WorkAltsetting, Works
<1>13. CASE WorkDown BY <1>13 DEF WorkDown, Works
<1>14. CASE WorkKill BY <1>14 DEF WorkKill, Works
<1>15. CASE __set_isoc_interface BY <1>15 DEF __set_isoc_interface, Works
<1>16. CASE WorkRun BY <1>16 DEF WorkRun, Works
<1>17. CASE WorkSubmit BY <1>17 DEF WorkSubmit, Works
<1>18. CASE WorkPut BY <1>18 DEF WorkPut, Works
<1>19. CASE IsocEnds BY <1>19 DEF IsocEnds
<1>20. CASE UNCHANGED btusbVars BY <1>20 DEF btusbVars
<1> QED
  BY <1>1, <1>2, <1>3, <1>4, <1>5, <1>6, <1>7, <1>8, <1>9, <1>10, <1>11, <1>12, <1>13, <1>14,
     <1>15, <1>16, <1>17, <1>18, <1>19, <1>20 DEF BtusbNext, btusb_work

-----------------------------------------------------------------------------
\* BtusbInv is an inductive invariant of the specification.
THEOREM BtusbInductive == BtusbSpec => []BtusbInv
<1>1. BtusbInit => BtusbInv BY BtusbInitInv
<1>2. BtusbInv /\ [BtusbNext]_btusbVars => BtusbInv'
  BY BtusbTypeStep, FramesStep, ClosingStep, StageStep, NoticedStep DEF BtusbInv
<1> QED BY <1>1, <1>2, PTL DEF BtusbSpec

\* Every reachable state is well typed: the work item holds at most one reference,
\* and neither tx_in_flight nor the isochronous URBs outgrow their bounds.
THEOREM BtusbTypeCorrect == BtusbSpec => []BtusbTypeOK
<1>1. BtusbInv => BtusbTypeOK BY DEF BtusbInv
<1> QED BY <1>1, BtusbInductive, PTL

\* For any number of connections and frames: isochronous URBs exist only while the
\* device is held awake with the voice setting, two at most, and a closed device
\* has neither a URB nor a work item (usbbt_drv.c:203-240, 512-546).
THEOREM UrbsStayInPlace == BtusbSpec => []UrbsInPlace
<1>1. BtusbInv => UrbsInPlace
  BY DEF BtusbInv, BtusbTypeOK, Frames, Closing, Stage, UrbsInPlace
<1> QED BY <1>1, BtusbInductive, PTL

\* For any number of connections: when the work item rests without an error or a
\* cancelled run behind it, voice runs exactly if there is a connection, however
\* the connections changed while it ran (usbbt_drv.c:451-461, 512-546).
THEOREM CallsAreFollowed == BtusbSpec => []CallsFollow
<1>1. BtusbInv => CallsFollow
  BY DEF BtusbInv, BtusbTypeOK, Stage, Noticed, CallsFollow
<1> QED BY <1>1, BtusbInductive, PTL
=============================================================================
