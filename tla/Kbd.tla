--------------------------------- MODULE Kbd ---------------------------------
(***************************************************************************)
(* The USB boot-protocol keyboard driver keyboard/kbd.c.                   *)
(*                                                                         *)
(* Two URBs of the driver live side by side. The interrupt URB irq brings  *)
(* reports of the keys that are down; its completion usb_kbd_irq compares  *)
(* a report with the one before, tells the input core of every key pressed *)
(* or released and submits the URB again. The control URB led carries the  *)
(* LED byte to the keyboard; usb_kbd_event (from the input core) and the   *)
(* completion usb_kbd_led share its one-byte buffer under leds_lock, so    *)
(* each of them is one action. Open, close and disconnect start and kill   *)
(* the URBs; usb_kill_urb makes submissions fail and returns when the URB  *)
(* is finished, completion included.                                       *)
(***************************************************************************)
EXTENDS Naturals, FiniteSets

CONSTANTS
    Keys,        \* scancodes above 3 with a keycode, each with its own
    Modifiers,   \* the eight modifier keys of byte 0
    Rollover,    \* the code (1) a keyboard sends when too many keys are down
    KeySlots,    \* how many keys a report has room for
    LedNames,    \* the LEDs the input core sets
    MaxEvents,   \* bound: LED events of the input core
    MaxChanges   \* bound: changes of the keys that are down

ASSUME KeysAssumption == Keys \cap Modifiers = {} /\ Rollover \notin Keys \cup Modifiers
ASSUME LedNamesAssumption == LedNames \subseteq {"NUML", "CAPSL", "SCROLLL", "COMPOSE", "KANA"}
ASSUME BoundsAssumption == KeySlots \in Nat /\ MaxEvents \in Nat /\ MaxChanges \in Nat

VARIABLES
    led,                \* dev->led of the input core, the LEDs that should be on
    newleds,            \* kbd->newleds, as the set of its bits
    leds,               \* *kbd->leds, the buffer of the led URB
    led_urb_submitted,
    ledUrb,             \* "idle", "flying", or completed: "ok", "error"
    shown,              \* the LED byte the keyboard has
    failed,             \* history: a submission or a transfer of led has failed
    nevents,
    old, new,           \* kbd->old and kbd->new, as sets of codes
    irqUrb,             \* "idle", "flying", or completed: "ok", "error", "gone"
    pressed,            \* the keys the input core believes to be down
    down, reported,     \* the keys really down, and those last reported
    nchanges,
    open, closing,      \* the device has users; usb_kbd_close is running
    disconnect                \* control point of usb_kbd_disconnect

ledVars == <<led, newleds, leds, led_urb_submitted, ledUrb, shown, failed, nevents>>
keyVars == <<old, new, pressed, down, reported, nchanges>>
kbdVars == <<ledVars, keyVars, irqUrb, open, closing, disconnect>>

Codes == Keys \cup Modifiers \cup {Rollover}
LedBits == SUBSET (0 .. 3)

KbdTypeOK ==
    /\ led \subseteq LedNames /\ newleds \in LedBits /\ leds \in LedBits /\ shown \in LedBits
    /\ led_urb_submitted \in BOOLEAN /\ failed \in BOOLEAN
    /\ ledUrb \in {"idle", "flying", "ok", "error"}
    /\ old \subseteq Codes /\ new \subseteq Codes
    /\ pressed \subseteq Keys \cup Modifiers
    /\ irqUrb \in {"idle", "flying", "ok", "error", "gone"}
    /\ down \subseteq Keys \cup Modifiers /\ reported \subseteq Keys \cup Modifiers
    /\ open \in BOOLEAN /\ closing \in BOOLEAN
    /\ disconnect \in {"no", "killirq", "unregister", "release", "killled", "freed"}
    /\ nevents \in 0 .. MaxEvents /\ nchanges \in 0 .. MaxChanges

\* usb_kbd_probe: both URBs allocated, nothing submitted
KbdInit ==
    /\ led = {} /\ newleds = {} /\ leds = {} /\ led_urb_submitted = FALSE
    /\ ledUrb = "idle" /\ shown = {} /\ failed = FALSE /\ nevents = 0
    /\ old = {} /\ new = {} /\ pressed = {} /\ irqUrb = "idle"
    /\ down = {} /\ reported = {} /\ nchanges = 0
    /\ open = FALSE /\ closing = FALSE /\ disconnect = "no"

\* usb_submit_urb fails while usb_kill_urb runs, or for a reason of its own
IrqRejects == closing \/ disconnect = "killirq"

LedRejects == disconnect = "killled"

-----------------------------------------------------------------------------
(* The LEDs.                                                               *)

\* the bits of the LED byte and the LEDs that set each of them
Lights == [b \in 0 .. 3 |-> CASE b = 0 -> {"NUML", "COMPOSE"} [] b = 1 -> {"CAPSL"}
                              [] b = 2 -> {"SCROLLL"} [] b = 3 -> {"KANA"}]
Byte(on) == {b \in 0 .. 3 : on \cap Lights[b] # {}}

\* the input core switches one LED and calls usb_kbd_event
Toggles(l) ==
    /\ disconnect \in {"no", "killirq", "unregister", "release"} /\ nevents < MaxEvents
    /\ nevents' = nevents + 1
    /\ led' = IF l \in led THEN led \ {l} ELSE led \cup {l}
    /\ newleds' = Byte(led')

LedUnchanged == UNCHANGED <<keyVars, irqUrb, open, closing, disconnect>>

\* mutant of LedEvent: the buffer is written while the URB is in flight
LedEventOverwrites(l, submitted) ==
    /\ Toggles(l)
    /\ leds' = newleds'
    /\ IF led_urb_submitted
         THEN UNCHANGED <<led_urb_submitted, ledUrb, failed>>
         ELSE /\ led_urb_submitted' = submitted
              /\ ledUrb' = IF submitted THEN "flying" ELSE "idle"
              /\ failed' = (failed \/ ~submitted)
    /\ UNCHANGED shown /\ LedUnchanged

\* usb_kbd_event: a URB in flight, or an unchanged byte, leaves nothing to send
LedEvent(l, submitted) ==
    /\ Toggles(l)
    /\ IF led_urb_submitted \/ leds = newleds'
         THEN UNCHANGED <<leds, led_urb_submitted, ledUrb, failed>>
         ELSE /\ leds' = newleds'
              /\ led_urb_submitted' = submitted
              /\ ledUrb' = IF submitted THEN "flying" ELSE "idle"
              /\ failed' = (failed \/ ~submitted)
    /\ UNCHANGED shown /\ LedUnchanged

\* the transfer ends: the keyboard has taken the byte, or it has failed
LedTransfer ==
    /\ ledUrb = "flying"
    /\ \/ ledUrb' = "ok" /\ shown' = leds /\ UNCHANGED failed
       \/ ledUrb' = "error" /\ failed' = TRUE /\ UNCHANGED shown
    /\ UNCHANGED <<led, newleds, leds, led_urb_submitted, nevents>> /\ LedUnchanged

\* mutant of LedComplete: it does not look at newleds
LedCompleteForgets(submitted) ==
    /\ ledUrb \in {"ok", "error"}
    /\ led_urb_submitted' = FALSE /\ ledUrb' = "idle"
    /\ UNCHANGED <<led, newleds, leds, shown, failed, nevents>> /\ LedUnchanged

\* usb_kbd_led, the completion; it ignores the status of the URB
LedComplete(submitted) ==
    /\ ledUrb \in {"ok", "error"}
    /\ IF leds = newleds
         THEN led_urb_submitted' = FALSE /\ ledUrb' = "idle" /\ UNCHANGED <<leds, failed>>
         ELSE /\ submitted => ~LedRejects
              /\ leds' = newleds
              /\ led_urb_submitted' = submitted
              /\ ledUrb' = IF submitted THEN "flying" ELSE "idle"
              /\ failed' = (failed \/ ~submitted)
    /\ UNCHANGED <<led, newleds, shown, nevents>> /\ LedUnchanged

-----------------------------------------------------------------------------
(* The keys.                                                               *)

KeyUnchanged == UNCHANGED <<ledVars, open, closing, disconnect>>

\* the user presses or releases keys
KeyChange ==
    /\ nchanges < MaxChanges /\ nchanges' = nchanges + 1
    /\ down' \in SUBSET (Keys \cup Modifiers) /\ down' # down
    /\ UNCHANGED <<old, new, pressed, reported, irqUrb>> /\ KeyUnchanged

Report(d) == IF Cardinality(d \cap Keys) > KeySlots
               THEN {Rollover} \cup (d \cap Modifiers) ELSE d

\* the keyboard reports a change; a transfer may fail
IrqReports ==
    /\ irqUrb = "flying" /\ down # reported
    /\ new' = Report(down) /\ reported' = down /\ irqUrb' = "ok"
    /\ UNCHANGED <<old, pressed, down, nchanges>> /\ KeyUnchanged

IrqFails ==
    /\ irqUrb = "flying" /\ irqUrb' = "error"
    /\ UNCHANGED keyVars /\ KeyUnchanged

\* usb_kill_urb takes the URB back
IrqUnlinked ==
    /\ irqUrb = "flying" /\ IrqRejects /\ irqUrb' = "gone"
    /\ UNCHANGED keyVars /\ KeyUnchanged

\* mutant of Compare: no releases
CompareNoRelease ==
    /\ pressed' = ((pressed \ Modifiers) \cup (new \cap Modifiers) \cup ((new \ old) \cap Keys))
    /\ old' = new

\* usb_kbd_irq after a report: modifiers as they are, then a release for every
\* key of old that is not in new and a press for every key of new not in old
Compare ==
    /\ pressed' = ((pressed \ (Modifiers \cup ((old \ new) \cap Keys)))
                      \cup (new \cap Modifiers) \cup ((new \ old) \cap Keys))
    /\ old' = new

\* mutant of IrqComplete: memcpy also when the report is not valid
IrqCompleteCopiesAlways(submitted) ==
    /\ irqUrb \in {"ok", "error", "gone"}
    /\ IF irqUrb = "ok" THEN Compare ELSE old' = {} /\ UNCHANGED pressed
    /\ IF irqUrb = "gone" THEN irqUrb' = "idle"
         ELSE /\ submitted => ~IrqRejects
              /\ irqUrb' = IF submitted THEN "flying" ELSE "idle"
    /\ UNCHANGED <<new, down, reported, nchanges>> /\ KeyUnchanged

IrqComplete(submitted) ==
    /\ irqUrb \in {"ok", "error", "gone"}
    /\ IF irqUrb = "ok" THEN Compare ELSE UNCHANGED <<pressed, old>>
    /\ IF irqUrb = "gone" THEN irqUrb' = "idle"
         ELSE /\ submitted => ~IrqRejects
              /\ irqUrb' = IF submitted THEN "flying" ELSE "idle"
    /\ UNCHANGED <<new, down, reported, nchanges>> /\ KeyUnchanged

-----------------------------------------------------------------------------
(* Open, close and disconnect. The input core serialises open and close.   *)

\* usb_kbd_open, for the first user; if the submission fails there is none
usb_kbd_open(submitted) ==
    /\ ~open /\ ~closing /\ disconnect \in {"no", "killirq", "unregister"}
    /\ irqUrb = "idle"
    /\ submitted => ~IrqRejects
    /\ open' = submitted /\ irqUrb' = IF submitted THEN "flying" ELSE "idle"
    /\ UNCHANGED <<ledVars, keyVars, closing, disconnect>>

\* usb_kbd_close, for the last user or on behalf of input_unregister_device
usb_kbd_close ==
    /\ open /\ ~closing
    /\ open' = FALSE /\ closing' = TRUE
    /\ UNCHANGED <<ledVars, keyVars, irqUrb, disconnect>>

CloseEnd ==
    /\ closing /\ irqUrb = "idle" /\ closing' = FALSE
    /\ UNCHANGED <<ledVars, keyVars, irqUrb, open, disconnect>>

DiscUnchanged == UNCHANGED <<ledVars, irqUrb, open, closing>>

\* usb_kill_urb(kbd->irq) ...
usb_kbd_disconnect ==
    /\ disconnect = "no" /\ disconnect' = "killirq"
    /\ UNCHANGED keyVars /\ DiscUnchanged

DiscIrqKilled ==
    /\ disconnect = "killirq" /\ irqUrb = "idle" /\ disconnect' = "unregister"
    /\ UNCHANGED keyVars /\ DiscUnchanged

\* ... input_unregister_device: no more users, the keys are released ...
DiscUnregister ==
    /\ disconnect = "unregister" /\ disconnect' = "release"
    /\ pressed' = {}
    /\ UNCHANGED <<old, new, down, reported, nchanges>> /\ DiscUnchanged

\* mutant of Unregistered: the device is not closed
UnregisteredOpen ==
    /\ disconnect = "release" /\ disconnect' = "killled"
    /\ UNCHANGED keyVars /\ DiscUnchanged

\* ... and the last user is gone and usb_kbd_close has returned ...
Unregistered ==
    /\ disconnect = "release" /\ ~open /\ ~closing /\ disconnect' = "killled"
    /\ UNCHANGED keyVars /\ DiscUnchanged

\* ... usb_kill_urb(kbd->led), usb_kbd_free_mem
usb_kbd_free_mem ==
    /\ disconnect = "killled" /\ ledUrb = "idle" /\ disconnect' = "freed"
    /\ UNCHANGED keyVars /\ DiscUnchanged

-----------------------------------------------------------------------------
LedCompletes == \E submitted \in BOOLEAN : LedComplete(submitted)
IrqCompletes == \E submitted \in BOOLEAN : IrqComplete(submitted)

KbdNext ==
    \/ \E l \in LedNames, submitted \in BOOLEAN : LedEvent(l, submitted)
    \/ LedTransfer \/ LedCompletes
    \/ KeyChange \/ IrqReports \/ IrqFails \/ IrqUnlinked \/ IrqCompletes
    \/ \E submitted \in BOOLEAN : usb_kbd_open(submitted)
    \/ usb_kbd_close \/ CloseEnd
    \/ usb_kbd_disconnect \/ DiscIrqKilled \/ DiscUnregister \/ Unregistered \/ usb_kbd_free_mem

KbdSpec == KbdInit /\ [][KbdNext]_kbdVars

\* Completions run; the host controller ends a control transfer and gives back
\* a URB that is killed; a report that is pending again and again gets through;
\* close and disconnect go on, and an unregistered device is closed.
KbdFairSpec ==
    /\ KbdSpec
    /\ WF_kbdVars(LedTransfer) /\ WF_kbdVars(LedCompletes) /\ WF_kbdVars(IrqCompletes)
    /\ SF_kbdVars(IrqReports) /\ WF_kbdVars(IrqUnlinked)
    /\ WF_kbdVars(CloseEnd) /\ WF_kbdVars(disconnect = "release" /\ usb_kbd_close)
    /\ WF_kbdVars(DiscIrqKilled \/ DiscUnregister \/ Unregistered) /\ SF_kbdVars(usb_kbd_free_mem)

-----------------------------------------------------------------------------
(* Properties.                                                             *)

\* What the comment of struct usb_kbd says of led_urb_submitted: led "has been
\* submitted and its completion handler has not returned yet without resubmitting".
FlagTellsInFlight == led_urb_submitted <=> ledUrb # "idle"

\* No change of the LEDs is left behind: if the byte to be shown is not the one
\* in the buffer a completion is still to come.
CaughtUp == newleds # leds => ledUrb # "idle"

\* Both: with a URB whose flag tells the truth, no change of the LEDs can fall
\* between an event and a completion (kbd.c:155-211).
LedsFollow == FlagTellsInFlight /\ CaughtUp

\* The byte the host controller may be reading is not written.
BufferStable == [][ledUrb = "flying" /\ ledUrb' = "flying" => leds' = leds]_kbdVars

\* The input core's idea of the keys follows the reports through errors, kills,
\* close and reopen: after any of them it is the last report that was compared.
KeysMatch == disconnect \in {"no", "killirq", "unregister"} => pressed = old \ {Rollover}

\* usb_kbd_free_mem frees no URB and no buffer still in use.
FreedUnused == disconnect = "freed" => irqUrb = "idle" /\ ledUrb = "idle" /\ ~open /\ ~closing

\* The LEDs set last reach the keyboard, unless a transfer fails or it is unplugged.
LastReaches == shown # newleds ~> shown = newleds \/ failed \/ disconnect # "no"

\* A change of the keys is reported, in spite of transient errors, as long as
\* the device is open and its URB could be submitted again.
Listening == open /\ irqUrb # "idle" /\ disconnect = "no"
KeysReach == down # reported ~> pressed = Report(down) \ {Rollover} \/ ~Listening

\* A disconnect ends.
DisconnectEnds == disconnect = "killirq" ~> disconnect = "freed"

\* What was pressed, what was switched and what was pulled out all come through:
\* no completion, kill or failure on the way is the last (kbd.c:92-211, 512-523).
Reaches == KeysReach /\ LastReaches /\ DisconnectEnds

=============================================================================
