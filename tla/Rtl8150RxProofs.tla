--------------------------- MODULE Rtl8150RxProofs ---------------------------
(***************************************************************************)
(* Proofs about Rtl8150Rx, for every size of the pool.                     *)
(*                                                                         *)
(* The work of resubmitting rx_urb is passed on from hand to hand: the     *)
(* device, the completion handler (called by the URB or by resume), the    *)
(* tasklet's queue, the tasklet. As long as the driver is only stopped     *)
(* when no hand but the device's holds it (clean), at most one hand does   *)
(* (OneHand), and the buffer is followed from hand to hand (BufferInv).    *)
(***************************************************************************)
EXTENDS Rtl8150Rx, TLAPS

-----------------------------------------------------------------------------
\* which operations exclude each other
Control ==
    /\ op # "none" => pm = "on"
    /\ op \in {"opening", "failing"} => ~running
    /\ op = "closing" => running
    /\ pm = "suspending" => running
    /\ cb["resume"] # "no" => pm = "resuming" /\ running
    /\ cb["resume"] # "deliver"
    /\ disc # "no" => pm = "on"

InCallback(c) == cb[c] \in {"deliver", "submit", "set", "resched"}
InTasklet == tl \in {"pull", "submit", "set"}

\* the hand that holds the URB is the only one; a submission that has to be
\* noted has left it with the device
OneHand ==
    /\ rxUrb # "idle" => ~InCallback("urb") /\ ~InCallback("resume") /\ ~sched /\ ~InTasklet
    /\ InCallback("urb") => ~InCallback("resume") /\ ~sched /\ ~InTasklet
    /\ InCallback("resume") => ~sched /\ ~InTasklet
    /\ sched => ~InTasklet
    /\ tl = "clear" \/ (\E c \in Callers : cb[c] = "clear") => rxUrb # "idle"

Stopped == (~running /\ op = "none") \/ pm = "off"

\* a driver that is stopped has nothing in hand
StoppedInv == Stopped => rxUrb = "idle" /\ Quiet

HandInv == clean => OneHand /\ StoppedInv

\* what each hand knows of the buffer and of RX_URB_FAIL; a device that is gone
\* takes no URB, so nobody need know
Buffers ==
    /\ rxUrb # "idle" => target /\ rx_skb = "mine"
    /\ \A c \in Callers :
          /\ cb[c] = "deliver" => rx_skb = "mine" /\ target
          /\ cb[c] = "submit" => gone \/ rx_skb = "mine"
          /\ cb[c] = "set" => gone \/ (rx_skb = "mine" /\ tbuf)
          /\ cb[c] = "resched" /\ rx_skb = "mine" => RX_URB_FAIL
    /\ sched /\ rx_skb = "mine" => RX_URB_FAIL
    /\ tl = "pull" => rx_skb # "mine"
    /\ tl \in {"submit", "set"} => gone \/ (rx_skb = "mine" /\ tbuf)
    /\ rx_skb = "given" => gone \/ cb["urb"] = "resched" \/ sched \/ tl = "pull"
    /\ RX_URB_FAIL => gone \/ (/\ rx_skb = "mine" /\ tbuf
                               /\ \/ sched \/ tl \in {"submit", "clear", "set"}
                                  \/ \E c \in Callers : cb[c] \in {"clear", "resched"})

BufferInv == clean => Buffers

\* once tasklet_kill has returned only the device still has something to do
DiscInv ==
    /\ disc = "claimed" => ~sched
    /\ ~late /\ disc \in {"unregister", "unlink", "freed"} => Quiet
    /\ ~late /\ disc = "freed" => rxUrb = "idle"

\* what the kill of close or suspend has stopped stays stopped, unless the
\* tasklet was still to submit; this needs no clean history
StrayInv ==
    Stopped /\ ~stray => /\ rxUrb = "idle" /\ cb = [c \in Callers |-> "no"]
                         /\ ~TaskletLeft

IInv == TypeOK /\ Control /\ HandInv /\ BufferInv /\ DiscInv /\ StrayInv

\* The variables stay well typed: the pool keeps within its size.
LEMMA TypeStep == TypeOK /\ [Next]_vars => TypeOK'
<1> SUFFICES ASSUME TypeOK, [Next]_vars PROVE TypeOK'
  OBVIOUS
<1> USE DEF TypeOK, Callers
<1>1. CASE UrbCompletes BY <1>1 DEF UrbCompletes, Killing, skbVars, admVars
<1>2. CASE Unplug BY <1>2 DEF Unplug, skbVars, urbVars
<1>3. CASE CbEnter BY <1>3 DEF CbEnter, UNPLUG, skbVars, admVars
<1>4. ASSUME NEW c \in Callers, CbDeliver(c) PROVE TypeOK'
  <2>1. pool' \in 0 .. PoolSize BY <1>4, PoolSizeAssumption DEF CbDeliver
  <2>2. target' \in BOOLEAN /\ tbuf' \in BOOLEAN BY <1>4, Zenon DEF CbDeliver, Replaces
  <2>3. rx_skb' \in {"none", "mine", "given"} BY <1>4 DEF CbDeliver, Replaces
  <2>4. cb' \in [Callers -> {"no", "deliver", "submit", "clear", "set", "resched"}] BY
    <1>4 DEF CbDeliver
  <2> QED BY <1>4, <2>1, <2>2, <2>3, <2>4 DEF CbDeliver, admVars
<1>5. ASSUME NEW c \in Callers, NEW r \in Outcomes, CbSubmit(c, r) PROVE TypeOK'
  <2>1. present' \in BOOLEAN BY <1>5, Zenon DEF CbSubmit
  <2>2. target' \in BOOLEAN /\ tbuf' \in BOOLEAN BY <1>5, Zenon DEF CbSubmit, Submits,
    urbVars
  <2>3. rxUrb' \in {"idle", "active", "ok", "short", "error", "unlinked"} BY <1>5 DEF
    CbSubmit, Submits, urbVars
  <2>4. cb' \in [Callers -> {"no", "deliver", "submit", "clear", "set", "resched"}] BY
    <1>5 DEF CbSubmit, Noted, Outcomes
  <2> QED BY <1>5, <2>1, <2>2, <2>3, <2>4 DEF CbSubmit, admVars
<1>6. ASSUME NEW c \in Callers, CbNote(c) PROVE TypeOK'
  BY <1>6 DEF CbNote, skbVars, urbVars, admVars
<1>7. ASSUME NEW c \in Callers, CbResched(c) PROVE TypeOK'
  BY <1>7 DEF CbResched, Schedule, skbVars, urbVars, admVars
<1>8. CASE TlBegin
  <2>1. pool' \in 0 .. PoolSize BY <1>8, PoolSizeAssumption DEF TlBegin
  <2>2. sched' \in BOOLEAN BY <1>8, Zenon DEF TlBegin
  <2>3. tl' \in {"no", "pull", "submit", "clear", "set"} BY <1>8 DEF TlBegin
  <2> QED BY <1>8, <2>1, <2>2, <2>3 DEF TlBegin, urbVars, admVars
<1>9. CASE TlPull
  <2>1. clean' \in BOOLEAN /\ sched' \in BOOLEAN /\ target' \in BOOLEAN /\ tbuf' \in
    BOOLEAN BY <1>9, Zenon DEF TlPull, Schedule, skbVars
  <2>2. pool' \in 0 .. PoolSize BY <1>9, PoolSizeAssumption DEF TlPull, skbVars
  <2>3. rx_skb' \in {"none", "mine", "given"} /\ tl' \in {"no", "pull", "submit",
    "clear", "set"} BY <1>9 DEF TlPull, skbVars
  <2> QED BY <1>9, <2>1, <2>2, <2>3 DEF TlPull, skbVars, admVars
<1>10. ASSUME NEW r \in Outcomes, TlSubmit(r) PROVE TypeOK'
  BY <1>10 DEF TlSubmit, Noted, skbVars, Submits, admVars, Killing, urbVars, Outcomes
<1>11. CASE TlNote
  <2>1. clean' \in BOOLEAN /\ sched' \in BOOLEAN /\ RX_URB_FAIL' \in BOOLEAN BY <1>11,
    Zenon DEF TlNote, Schedule
  <2> QED BY <1>11, <2>1 DEF TlNote, skbVars, urbVars, admVars
<1>12. CASE OpenIntr
  <2>1. running' \in BOOLEAN /\ present' \in BOOLEAN BY <1>12, Zenon DEF OpenIntr
  <2> QED BY <1>12, <2>1 DEF OpenIntr, OpenStep, skbVars, urbVars, AdmLocal
<1>13. ASSUME NEW r \in Outcomes, OpenRx(r) PROVE TypeOK'
  <2>1. present' \in BOOLEAN BY <1>13, Zenon DEF OpenRx
  <2>2. target' \in BOOLEAN /\ tbuf' \in BOOLEAN BY <1>13, Zenon DEF OpenRx, Submits,
    urbVars
  <2>3. rxUrb' \in {"idle", "active", "ok", "short", "error", "unlinked"} BY <1>13 DEF
    OpenRx, Submits, urbVars
  <2>4. pool' \in 0 .. PoolSize /\ rx_skb' \in {"none", "mine", "given"} BY <1>13,
    PoolSizeAssumption DEF OpenRx
  <2> QED BY <1>13, <2>1, <2>2, <2>3, <2>4 DEF OpenRx, AdmLocal
<1>14. CASE Close BY <1>14 DEF Close, Idle, AdmStep, skbVars, urbVars, AdmLocal
<1>15. CASE OpClosed
  <2>1. clean' \in BOOLEAN /\ running' \in BOOLEAN /\ stray' \in BOOLEAN BY <1>15, Zenon
    DEF OpClosed, TaskletLeft
  <2> QED BY <1>15, <2>1 DEF OpClosed, AdmStep, AdmLocal, skbVars, urbVars
<1>16. CASE Suspend
  <2>1. present' \in BOOLEAN BY <1>16, Zenon DEF Suspend
  <2>2. pm' \in {"on", "suspending", "off", "resuming"} BY <1>16 DEF Suspend
  <2> QED BY <1>16, <2>1, <2>2 DEF Suspend, AdmLocal, skbVars, urbVars
<1>17. CASE Suspended
  <2>1. clean' \in BOOLEAN /\ stray' \in BOOLEAN BY <1>17, Zenon DEF Suspended, TaskletLeft
  <2> QED BY <1>17, <2>1 DEF Suspended, AdmStep, skbVars, urbVars, AdmLocal
<1>18. CASE Resume BY <1>18 DEF Resume, skbVars, urbVars
<1>19. CASE Resumed BY <1>19 DEF Resumed, AdmStep, skbVars, urbVars, AdmLocal
<1>20. CASE DiscStart BY <1>20 DEF DiscStart, DiscStep, AdmStep, skbVars, urbVars,
  AdmLocal
<1>21. CASE DiscClaim BY <1>21 DEF DiscClaim, DiscStep, AdmStep, skbVars, urbVars,
  AdmLocal
<1>22. CASE DiscKilled BY <1>22 DEF DiscKilled, DiscStep, AdmStep, skbVars, urbVars,
  AdmLocal
<1>23. CASE DiscUnregistered BY <1>23 DEF DiscUnregistered, DiscStep, AdmStep, skbVars,
  urbVars, AdmLocal
<1>24. CASE DiscFree BY <1>24 DEF DiscFree, Killed, DiscStep, AdmStep, skbVars,
  urbVars, AdmLocal
<1>25. CASE UNCHANGED vars BY <1>25 DEF vars, skbVars, urbVars, admVars
<1> QED BY <1>1, <1>2, <1>3, <1>4, <1>5, <1>6, <1>7, <1>8, <1>9, <1>10, <1>11, <1>12,
  <1>13, <1>14, <1>15, <1>16, <1>17, <1>18, <1>19, <1>20, <1>21, <1>22, <1>23, <1>24,
  <1>25 DEF Next, Callback, Tasklet, Opening, Administration, Disconnect

\* The operations keep excluding each other.
LEMMA ControlStep == TypeOK /\ Control /\ [Next]_vars => Control'
<1> SUFFICES ASSUME TypeOK /\ Control, [Next]_vars PROVE Control'
  OBVIOUS
<1> USE DEF TypeOK, Callers, Control
<1>1. CASE UrbCompletes BY <1>1 DEF UrbCompletes, Killing, skbVars, admVars
<1>2. CASE Unplug BY <1>2 DEF Unplug, skbVars, urbVars
<1>3. CASE CbEnter BY <1>3 DEF CbEnter, UNPLUG, skbVars, admVars
<1>4. ASSUME NEW c \in Callers, CbDeliver(c) PROVE Control'
  BY <1>4 DEF CbDeliver, Replaces, admVars
<1>5. ASSUME NEW c \in Callers, NEW r \in Outcomes, CbSubmit(c, r) PROVE Control'
  BY <1>5 DEF CbSubmit, Submits, Noted, admVars, Killing, urbVars, Outcomes
<1>6. ASSUME NEW c \in Callers, CbNote(c) PROVE Control'
  BY <1>6 DEF CbNote, skbVars, urbVars, admVars
<1>7. ASSUME NEW c \in Callers, CbResched(c) PROVE Control'
  BY <1>7 DEF CbResched, Schedule, skbVars, urbVars, admVars
<1>8. CASE TlBegin BY <1>8 DEF TlBegin, urbVars, admVars
<1>9. CASE TlPull BY <1>9 DEF TlPull, Schedule, skbVars, admVars
<1>10. ASSUME NEW r \in Outcomes, TlSubmit(r) PROVE Control'
  BY <1>10 DEF TlSubmit, Noted, skbVars, Submits, admVars, Killing, urbVars, Outcomes
<1>11. CASE TlNote BY <1>11 DEF TlNote, Schedule, skbVars, urbVars, admVars
<1>12. CASE OpenIntr BY <1>12 DEF OpenIntr, OpenStep, skbVars, urbVars, AdmLocal
<1>13. ASSUME NEW r \in Outcomes, OpenRx(r) PROVE Control'
  BY <1>13 DEF OpenRx, Idle, urbVars, Submits, AdmLocal, Killing, Outcomes
<1>14. CASE Close BY <1>14 DEF Close, Idle, AdmStep, skbVars, urbVars, AdmLocal
<1>15. CASE OpClosed BY <1>15 DEF OpClosed, Killed, Quiet, AdmStep, skbVars, urbVars,
  AdmLocal
<1>16. CASE Suspend BY <1>16 DEF Suspend, Idle, skbVars, urbVars, AdmLocal
<1>17. CASE Suspended BY <1>17 DEF Suspended, Killed, Quiet, AdmStep, skbVars, urbVars,
  AdmLocal
<1>18. CASE Resume BY <1>18 DEF Resume, skbVars, urbVars
<1>19. CASE Resumed BY <1>19 DEF Resumed, AdmStep, skbVars, urbVars, AdmLocal
<1>20. CASE DiscStart BY <1>20 DEF DiscStart, DiscStep, AdmStep, skbVars, urbVars,
  AdmLocal
<1>21. CASE DiscClaim BY <1>21 DEF DiscClaim, DiscStep, AdmStep, skbVars, urbVars,
  AdmLocal
<1>22. CASE DiscKilled BY <1>22 DEF DiscKilled, DiscStep, AdmStep, skbVars, urbVars,
  AdmLocal
<1>23. CASE DiscUnregistered BY <1>23 DEF DiscUnregistered, DiscStep, AdmStep, skbVars,
  urbVars, AdmLocal
<1>24. CASE DiscFree BY <1>24 DEF DiscFree, Killed, DiscStep, AdmStep, skbVars,
  urbVars, AdmLocal
<1>25. CASE UNCHANGED vars BY <1>25 DEF vars, skbVars, urbVars, admVars, Quiet
<1> QED BY <1>1, <1>2, <1>3, <1>4, <1>5, <1>6, <1>7, <1>8, <1>9, <1>10, <1>11, <1>12,
  <1>13, <1>14, <1>15, <1>16, <1>17, <1>18, <1>19, <1>20, <1>21, <1>22, <1>23, <1>24,
  <1>25 DEF Next, Callback, Tasklet, Opening, Administration, Disconnect

\* The URB passes from one hand to one other.
LEMMA HandStep == TypeOK /\ Control /\ HandInv /\ [Next]_vars => HandInv'
<1> SUFFICES ASSUME TypeOK /\ Control /\ HandInv, [Next]_vars PROVE HandInv'
  OBVIOUS
<1> USE DEF TypeOK, Callers, Control, HandInv, OneHand, StoppedInv, Stopped,
  InCallback, InTasklet, Quiet
<1>1. CASE UrbCompletes BY <1>1 DEF UrbCompletes, Killing, skbVars, admVars
<1>2. CASE Unplug BY <1>2 DEF Unplug, skbVars, urbVars
<1>3. CASE CbEnter BY <1>3 DEF CbEnter, UNPLUG, skbVars, admVars
<1>4. ASSUME NEW c \in Callers, CbDeliver(c) PROVE HandInv'
  BY <1>4 DEF CbDeliver, Replaces, admVars
<1>5. ASSUME NEW c \in Callers, NEW r \in Outcomes, CbSubmit(c, r) PROVE HandInv'
  BY <1>5 DEF CbSubmit, Submits, Noted, admVars, Killing, urbVars, Outcomes
<1>6. ASSUME NEW c \in Callers, CbNote(c) PROVE HandInv'
  BY <1>6 DEF CbNote, skbVars, urbVars, admVars
<1>7. ASSUME NEW c \in Callers, CbResched(c) PROVE HandInv'
  BY <1>7 DEF CbResched, Schedule, skbVars, urbVars, admVars
<1>8. CASE TlBegin BY <1>8 DEF TlBegin, urbVars, admVars
<1>9. CASE TlPull BY <1>9 DEF TlPull, Schedule, skbVars, admVars
<1>10. ASSUME NEW r \in Outcomes, TlSubmit(r) PROVE HandInv'
  BY <1>10 DEF TlSubmit, Noted, skbVars, Submits, admVars, Killing, urbVars, Outcomes
<1>11. CASE TlNote BY <1>11 DEF TlNote, Schedule, skbVars, urbVars, admVars
<1>12. CASE OpenIntr BY <1>12 DEF OpenIntr, OpenStep, skbVars, urbVars, AdmLocal
<1>13. ASSUME NEW r \in Outcomes, OpenRx(r) PROVE HandInv'
  BY <1>13 DEF OpenRx, Idle, urbVars, Submits, AdmLocal, Killing, Outcomes
<1>14. CASE Close BY <1>14 DEF Close, Idle, AdmStep, skbVars, urbVars, AdmLocal
<1>15. CASE OpClosed BY <1>15 DEF OpClosed, Killed, AdmStep, skbVars, urbVars, AdmLocal
<1>16. CASE Suspend BY <1>16 DEF Suspend, Idle, skbVars, urbVars, AdmLocal
<1>17. CASE Suspended BY <1>17 DEF Suspended, Killed, AdmStep, skbVars, urbVars,
  AdmLocal
<1>18. CASE Resume BY <1>18 DEF Resume, skbVars, urbVars
<1>19. CASE Resumed BY <1>19 DEF Resumed, AdmStep, skbVars, urbVars, AdmLocal
<1>20. CASE DiscStart BY <1>20 DEF DiscStart, DiscStep, AdmStep, skbVars, urbVars,
  AdmLocal
<1>21. CASE DiscClaim BY <1>21 DEF DiscClaim, DiscStep, AdmStep, skbVars, urbVars,
  AdmLocal
<1>22. CASE DiscKilled BY <1>22 DEF DiscKilled, DiscStep, AdmStep, skbVars, urbVars,
  AdmLocal
<1>23. CASE DiscUnregistered BY <1>23 DEF DiscUnregistered, DiscStep, AdmStep, skbVars,
  urbVars, AdmLocal
<1>24. CASE DiscFree BY <1>24 DEF DiscFree, Killed, DiscStep, AdmStep, skbVars,
  urbVars, AdmLocal
<1>25. CASE UNCHANGED vars BY <1>25 DEF vars, skbVars, urbVars, admVars
<1> QED BY <1>1, <1>2, <1>3, <1>4, <1>5, <1>6, <1>7, <1>8, <1>9, <1>10, <1>11, <1>12,
  <1>13, <1>14, <1>15, <1>16, <1>17, <1>18, <1>19, <1>20, <1>21, <1>22, <1>23, <1>24,
  <1>25 DEF Next, Callback, Tasklet, Opening, Administration, Disconnect

\* Every hand keeps knowing what the buffer is.
LEMMA BufferStep == TypeOK /\ Control /\ HandInv /\ BufferInv /\ [Next]_vars => BufferInv'
<1> SUFFICES ASSUME TypeOK /\ Control /\ HandInv /\ BufferInv, [Next]_vars PROVE BufferInv'
  OBVIOUS
<1> USE DEF TypeOK, Callers, Control, HandInv, OneHand, StoppedInv, Stopped,
  InCallback, InTasklet, Quiet, BufferInv, Buffers
<1>1. CASE UrbCompletes BY <1>1 DEF UrbCompletes, Killing, skbVars, admVars
<1>2. CASE Unplug BY <1>2 DEF Unplug, skbVars, urbVars
<1>3. CASE CbEnter BY <1>3 DEF CbEnter, UNPLUG, skbVars, admVars
<1>4. ASSUME NEW c \in Callers, CbDeliver(c) PROVE BufferInv'
  BY <1>4 DEF CbDeliver, Replaces, admVars
<1>5. ASSUME NEW c \in Callers, NEW r \in Outcomes, CbSubmit(c, r) PROVE BufferInv'
  BY <1>5 DEF CbSubmit, Submits, Noted, admVars, Killing, urbVars, Outcomes
<1>6. ASSUME NEW c \in Callers, CbNote(c) PROVE BufferInv'
  <2>1. CASE cb[c] = "clear" BY <1>6, <2>1 DEF CbNote, skbVars, urbVars, admVars
  <2>2. CASE cb[c] = "set"
    <3>1. RX_URB_FAIL' BY <1>6, <2>2, Zenon DEF CbNote
    <3>2. cb' = [cb EXCEPT ![c] = "resched"] BY <1>6, <2>2 DEF CbNote
    <3>3. UNCHANGED <<skbVars, urbVars, sched, tl, admVars, clean>> BY <1>6, Zenon DEF CbNote
    <3> QED BY <2>2, <3>1, <3>2, <3>3 DEF skbVars, urbVars, admVars
  <2> QED BY <1>6, <2>1, <2>2 DEF CbNote
<1>7. ASSUME NEW c \in Callers, CbResched(c) PROVE BufferInv'
  BY <1>7 DEF CbResched, Schedule, skbVars, urbVars, admVars
<1>8. CASE TlBegin BY <1>8 DEF TlBegin, urbVars, admVars
<1>9. CASE TlPull BY <1>9 DEF TlPull, Schedule, skbVars, admVars
<1>10. ASSUME NEW r \in Outcomes, TlSubmit(r) PROVE BufferInv'
  BY <1>10 DEF TlSubmit, Noted, skbVars, Submits, admVars, Killing, urbVars, Outcomes
<1>11. CASE TlNote BY <1>11 DEF TlNote, Schedule, skbVars, urbVars, admVars
<1>12. CASE OpenIntr BY <1>12 DEF OpenIntr, OpenStep, skbVars, urbVars, AdmLocal
<1>13. ASSUME NEW r \in Outcomes, OpenRx(r) PROVE BufferInv'
  BY <1>13 DEF OpenRx, Idle, urbVars, Submits, AdmLocal, Killing, Outcomes
<1>14. CASE Close BY <1>14 DEF Close, Idle, AdmStep, skbVars, urbVars, AdmLocal
<1>15. CASE OpClosed BY <1>15 DEF OpClosed, Killed, AdmStep, skbVars, urbVars, AdmLocal
<1>16. CASE Suspend BY <1>16 DEF Suspend, Idle, skbVars, urbVars, AdmLocal
<1>17. CASE Suspended BY <1>17 DEF Suspended, Killed, AdmStep, skbVars, urbVars,
  AdmLocal
<1>18. CASE Resume BY <1>18 DEF Resume, skbVars, urbVars
<1>19. CASE Resumed BY <1>19 DEF Resumed, AdmStep, skbVars, urbVars, AdmLocal
<1>20. CASE DiscStart BY <1>20 DEF DiscStart, DiscStep, AdmStep, skbVars, urbVars,
  AdmLocal
<1>21. CASE DiscClaim BY <1>21 DEF DiscClaim, DiscStep, AdmStep, skbVars, urbVars,
  AdmLocal
<1>22. CASE DiscKilled BY <1>22 DEF DiscKilled, DiscStep, AdmStep, skbVars, urbVars,
  AdmLocal
<1>23. CASE DiscUnregistered BY <1>23 DEF DiscUnregistered, DiscStep, AdmStep, skbVars,
  urbVars, AdmLocal
<1>24. CASE DiscFree BY <1>24 DEF DiscFree, Killed, DiscStep, AdmStep, skbVars,
  urbVars, AdmLocal
<1>25. CASE UNCHANGED vars BY <1>25 DEF vars, skbVars, urbVars, admVars
<1> QED BY <1>1, <1>2, <1>3, <1>4, <1>5, <1>6, <1>7, <1>8, <1>9, <1>10, <1>11, <1>12,
  <1>13, <1>14, <1>15, <1>16, <1>17, <1>18, <1>19, <1>20, <1>21, <1>22, <1>23, <1>24,
  <1>25 DEF Next, Callback, Tasklet, Opening, Administration, Disconnect

\* What tasklet_kill has stopped stays stopped.
LEMMA KillStep == TypeOK /\ Control /\ DiscInv /\ [Next]_vars => DiscInv'
<1> SUFFICES ASSUME TypeOK /\ Control /\ DiscInv, [Next]_vars PROVE DiscInv'
  OBVIOUS
<1> USE DEF TypeOK, Callers, Control, DiscInv, Quiet
<1>1. CASE UrbCompletes BY <1>1 DEF UrbCompletes, Killing, skbVars, admVars
<1>2. CASE Unplug BY <1>2 DEF Unplug, skbVars, urbVars
<1>3. CASE CbEnter BY <1>3 DEF CbEnter, UNPLUG, skbVars, admVars
<1>4. ASSUME NEW c \in Callers, CbDeliver(c) PROVE DiscInv'
  BY <1>4 DEF CbDeliver, Replaces, admVars
<1>5. ASSUME NEW c \in Callers, NEW r \in Outcomes, CbSubmit(c, r) PROVE DiscInv'
  BY <1>5 DEF CbSubmit, Submits, Noted, admVars, Killing, urbVars, Outcomes
<1>6. ASSUME NEW c \in Callers, CbNote(c) PROVE DiscInv'
  BY <1>6 DEF CbNote, skbVars, urbVars, admVars
<1>7. ASSUME NEW c \in Callers, CbResched(c) PROVE DiscInv'
  BY <1>7 DEF CbResched, Schedule, skbVars, urbVars, admVars
<1>8. CASE TlBegin BY <1>8 DEF TlBegin, urbVars, admVars
<1>9. CASE TlPull BY <1>9 DEF TlPull, Schedule, skbVars, admVars
<1>10. ASSUME NEW r \in Outcomes, TlSubmit(r) PROVE DiscInv'
  BY <1>10 DEF TlSubmit, Noted, skbVars, Submits, admVars, Killing, urbVars, Outcomes
<1>11. CASE TlNote BY <1>11 DEF TlNote, Schedule, skbVars, urbVars, admVars
<1>12. CASE OpenIntr BY <1>12 DEF OpenIntr, OpenStep, skbVars, urbVars, AdmLocal
<1>13. ASSUME NEW r \in Outcomes, OpenRx(r) PROVE DiscInv'
  BY <1>13 DEF OpenRx, Idle, urbVars, Submits, AdmLocal, Killing, Outcomes
<1>14. CASE Close BY <1>14 DEF Close, Idle, AdmStep, skbVars, urbVars, AdmLocal
<1>15. CASE OpClosed BY <1>15 DEF OpClosed, Killed, AdmStep, skbVars, urbVars, AdmLocal
<1>16. CASE Suspend BY <1>16 DEF Suspend, Idle, skbVars, urbVars, AdmLocal
<1>17. CASE Suspended BY <1>17 DEF Suspended, Killed, AdmStep, skbVars, urbVars,
  AdmLocal
<1>18. CASE Resume BY <1>18 DEF Resume, skbVars, urbVars
<1>19. CASE Resumed BY <1>19 DEF Resumed, AdmStep, skbVars, urbVars, AdmLocal
<1>20. CASE DiscStart BY <1>20 DEF DiscStart, DiscStep, AdmStep, skbVars, urbVars,
  AdmLocal
<1>21. CASE DiscClaim BY <1>21 DEF DiscClaim, DiscStep, AdmStep, skbVars, urbVars,
  AdmLocal
<1>22. CASE DiscKilled BY <1>22 DEF DiscKilled, DiscStep, AdmStep, skbVars, urbVars,
  AdmLocal
<1>23. CASE DiscUnregistered BY <1>23 DEF DiscUnregistered, DiscStep, AdmStep, skbVars,
  urbVars, AdmLocal
<1>24. CASE DiscFree BY <1>24 DEF DiscFree, Killed, DiscStep, AdmStep, skbVars,
  urbVars, AdmLocal
<1>25. CASE UNCHANGED vars BY <1>25 DEF vars, skbVars, urbVars, admVars
<1> QED BY <1>1, <1>2, <1>3, <1>4, <1>5, <1>6, <1>7, <1>8, <1>9, <1>10, <1>11, <1>12,
  <1>13, <1>14, <1>15, <1>16, <1>17, <1>18, <1>19, <1>20, <1>21, <1>22, <1>23, <1>24,
  <1>25 DEF Next, Callback, Tasklet, Opening, Administration, Disconnect

\* What a kill of the URB has stopped stays stopped while the driver is.
LEMMA StrayStep == TypeOK /\ Control /\ StrayInv /\ [Next]_vars => StrayInv'
<1> SUFFICES ASSUME TypeOK /\ Control /\ StrayInv, [Next]_vars PROVE StrayInv'
  OBVIOUS
<1> USE DEF TypeOK, Callers, Control, StrayInv, Stopped, TaskletLeft
<1>1. CASE UrbCompletes BY <1>1 DEF UrbCompletes, Killing, skbVars, admVars
<1>2. CASE Unplug BY <1>2 DEF Unplug, skbVars, urbVars
<1>3. CASE CbEnter BY <1>3 DEF CbEnter, UNPLUG, skbVars, admVars
<1>4. ASSUME NEW c \in Callers, CbDeliver(c) PROVE StrayInv'
  BY <1>4 DEF CbDeliver, Replaces, admVars
<1>5. ASSUME NEW c \in Callers, NEW r \in Outcomes, CbSubmit(c, r) PROVE StrayInv'
  BY <1>5 DEF CbSubmit, Submits, Noted, admVars, Killing, urbVars, Outcomes
<1>6. ASSUME NEW c \in Callers, CbNote(c) PROVE StrayInv'
  BY <1>6 DEF CbNote, skbVars, urbVars, admVars
<1>7. ASSUME NEW c \in Callers, CbResched(c) PROVE StrayInv'
  BY <1>7 DEF CbResched, Schedule, skbVars, urbVars, admVars
<1>8. CASE TlBegin BY <1>8 DEF TlBegin, urbVars, admVars
<1>9. CASE TlPull BY <1>9 DEF TlPull, Schedule, skbVars, admVars
<1>10. ASSUME NEW r \in Outcomes, TlSubmit(r) PROVE StrayInv'
  BY <1>10 DEF TlSubmit, Noted, skbVars, Submits, admVars, Killing, urbVars, Outcomes
<1>11. CASE TlNote BY <1>11 DEF TlNote, Schedule, skbVars, urbVars, admVars
<1>12. CASE OpenIntr BY <1>12 DEF OpenIntr, OpenStep, skbVars, urbVars, AdmLocal
<1>13. ASSUME NEW r \in Outcomes, OpenRx(r) PROVE StrayInv'
  BY <1>13 DEF OpenRx, Idle, urbVars, Submits, AdmLocal, Killing, Outcomes
<1>14. CASE Close BY <1>14 DEF Close, Idle, AdmStep, skbVars, urbVars, AdmLocal
<1>15. CASE OpClosed BY <1>15 DEF OpClosed, Killed, AdmStep, skbVars, urbVars, AdmLocal
<1>16. CASE Suspend BY <1>16 DEF Suspend, Idle, skbVars, urbVars, AdmLocal
<1>17. CASE Suspended BY <1>17 DEF Suspended, Killed, AdmStep, skbVars, urbVars,
  AdmLocal
<1>18. CASE Resume BY <1>18 DEF Resume, skbVars, urbVars
<1>19. CASE Resumed BY <1>19 DEF Resumed, AdmStep, skbVars, urbVars, AdmLocal
<1>20. CASE DiscStart BY <1>20 DEF DiscStart, DiscStep, AdmStep, skbVars, urbVars,
  AdmLocal
<1>21. CASE DiscClaim BY <1>21 DEF DiscClaim, DiscStep, AdmStep, skbVars, urbVars,
  AdmLocal
<1>22. CASE DiscKilled BY <1>22 DEF DiscKilled, DiscStep, AdmStep, skbVars, urbVars,
  AdmLocal
<1>23. CASE DiscUnregistered BY <1>23 DEF DiscUnregistered, DiscStep, AdmStep, skbVars,
  urbVars, AdmLocal
<1>24. CASE DiscFree BY <1>24 DEF DiscFree, Killed, DiscStep, AdmStep, skbVars,
  urbVars, AdmLocal
<1>25. CASE UNCHANGED vars BY <1>25 DEF vars, skbVars, urbVars, admVars
<1> QED BY <1>1, <1>2, <1>3, <1>4, <1>5, <1>6, <1>7, <1>8, <1>9, <1>10, <1>11, <1>12,
  <1>13, <1>14, <1>15, <1>16, <1>17, <1>18, <1>19, <1>20, <1>21, <1>22, <1>23, <1>24,
  <1>25 DEF Next, Callback, Tasklet, Opening, Administration, Disconnect

\* The invariant holds when the device has been probed.
LEMMA InitIInv == Init => IInv
<1> SUFFICES ASSUME Init PROVE IInv OBVIOUS
<1> USE DEF Init, Callers
<1>1. TypeOK BY PoolSizeAssumption DEF TypeOK
<1>2. Control /\ DiscInv BY DEF Control, DiscInv, Quiet
<1>3. HandInv BY DEF HandInv, OneHand, StoppedInv, Stopped, InCallback, InTasklet, Quiet
<1>4. BufferInv BY DEF BufferInv, Buffers
<1>5. StrayInv BY DEF StrayInv, TaskletLeft
<1> QED BY <1>1, <1>2, <1>3, <1>4, <1>5 DEF IInv

\* The inductive invariant of reception.
THEOREM Inductive == Spec => []IInv
<1>1. IInv /\ [Next]_vars => IInv'
  BY TypeStep, ControlStep, HandStep, BufferStep, KillStep, StrayStep DEF IInv
<1> QED BY InitIInv, <1>1, PTL DEF Spec

\* Every state is well typed; the pool is never taken from when it is empty.
THEOREM TypeCorrect == Spec => []TypeOK
<1>1. IInv => TypeOK
  BY DEF IInv
<1> QED BY <1>1, Inductive, PTL

\* The device writes only into the driver's own buffer, rx_skb, and netif_rx is
\* given the buffer that was filled, once.
THEOREM DmaStaysInOwnBuffer == Spec => []DmaIntoOwn
<1>1. IInv => DmaIntoOwn
  BY DEF IInv, BufferInv, Buffers, DmaIntoOwn
<1> QED BY <1>1, Inductive, PTL

\* The tasklet replaces no buffer that the driver still has.
THEOREM NoBufferLost == Spec => []NothingForgotten
<1>1. IInv => NothingForgotten
  BY DEF IInv, BufferInv, Buffers, NothingForgotten
<1> QED BY <1>1, Inductive, PTL

\* A URB in flight is filled by nobody.
THEOREM OnlyTheHolderFills == Spec => []FilledByOwner
<1>1. IInv => FilledByOwner
  BY DEF IInv, HandInv, OneHand, InCallback, InTasklet, FilledByOwner, Callers
<1> QED BY <1>1, Inductive, PTL

\* A closed interface and a suspended device receive nothing, unless the tasklet
\* was still to submit the URB when the kill returned (stray).
THEOREM ClosedMeansSilent == Spec => []ClosedIsSilent
<1>1. IInv => ClosedIsSilent
  BY DEF IInv, StrayInv, Stopped, Closed, ClosedIsSilent
<1> QED BY <1>1, Inductive, PTL

\* Nothing that rtl8150_disconnect has freed is used, unless the completion
\* handler was past its checks when tasklet_kill returned (late).
THEOREM FreedStaysUnused == Spec => []FreedIsUnused
<1>1. IInv => FreedIsUnused
  BY DEF IInv, DiscInv, FreedIsUnused
<1> QED BY <1>1, Inductive, PTL

\* Each step of a receive buffer's round is taken by the one that has it, for
\* every size of the pool (rtl_8150.c:501-571, 732-804).
THEOREM BufferIsSafe == Spec => []BufferSafe
BY DmaStaysInOwnBuffer, OnlyTheHolderFills, NoBufferLost, PTL DEF BufferSafe

\* Close, suspend and disconnect leave nothing of reception running but what
\* stray and late name (rtl_8150.c:993-1048, 1244-1262).
THEOREM ItStopsClean == Spec => []StopsClean
BY ClosedMeansSilent, FreedStaysUnused, PTL DEF StopsClean
=============================================================================
