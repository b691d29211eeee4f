----------------------------- MODULE Rtl8150Rx -----------------------------
(***************************************************************************)
(* Reception in USB_Based_Ethernet/rtl_8150.c. One bulk URB, rx_urb, fills *)
(* the buffer rx_skb. Its completion read_bulk_callback gives the buffer   *)
(* to the network stack, takes another from a pool and submits the URB     *)
(* again; if the pool is empty or the submission fails it leaves that to a *)
(* tasklet, rx_fixup, which fills the pool. Open, close, suspend, resume   *)
(* and disconnect start and kill the URB; resume calls the completion      *)
(* handler itself. Nobody but disconnect stops the tasklet.                *)
(*                                                                         *)
(* A buffer is not a number here: what matters is whether rx_skb is the    *)
(* driver's or was given away, and whether the URB is set up with it.      *)
(***************************************************************************)
EXTENDS Naturals

CONSTANT PoolSize      \* RX_SKB_POOL_SIZE

ASSUME PoolSizeAssumption == PoolSize \in Nat \ {0}

VARIABLES
    pool,          \* how many buffers rx_skb_pool holds
    rx_skb,        \* none, "mine", or "given" to the stack already
    RX_URB_FAIL,   \* the bit of dev->flags
    rxUrb,         \* idle, active, or completed with a status and not yet handled
    tbuf, target,  \* is rx_skb the buffer the URB is set up with, is transferring to?
    cb,            \* control point of read_bulk_callback, by who has called it
    sched, tl,     \* the tasklet is scheduled; its control point
    running,       \* netif_running
    op,            \* what open or close is at
    present,       \* netif_device_present
    pm,            \* power management: "on", "suspending", "off", "resuming"
    gone,          \* the device has been pulled out
    disc,          \* control point of rtl8150_disconnect
    late,          \* history: tasklet_kill ended with read_bulk_callback past its checks
    stray,         \* history: the last kill of the URB by close or suspend returned
                   \* with the tasklet about to submit it again
    clean          \* history: every kill of the URB found callback and tasklet quiet,
                   \* none swallowed a tasklet_schedule, and no completion came before
                   \* the submission was noted in RX_URB_FAIL

skbVars == <<pool, rx_skb, tbuf>>
urbVars == <<rxUrb, target>>
admVars == <<running, op, pm, gone, disc, late, stray>>
vars == <<skbVars, urbVars, RX_URB_FAIL, cb, sched, tl, admVars, present, clean>>

Callers == {"urb", "resume"}

TypeOK ==
    /\ pool \in 0 .. PoolSize /\ rx_skb \in {"none", "mine", "given"}
    /\ RX_URB_FAIL \in BOOLEAN
    /\ rxUrb \in {"idle", "active", "ok", "short", "error", "unlinked"}
    /\ tbuf \in BOOLEAN /\ target \in BOOLEAN
    /\ cb \in [Callers -> {"no", "deliver", "submit", "clear", "set", "resched"}]
    /\ sched \in BOOLEAN /\ tl \in {"no", "pull", "submit", "clear", "set"}
    /\ running \in BOOLEAN /\ op \in {"none", "opening", "failing", "closing"}
    /\ present \in BOOLEAN /\ pm \in {"on", "suspending", "off", "resuming"}
    /\ gone \in BOOLEAN
    /\ disc \in {"no", "killtl", "claimed", "unregister", "unlink", "freed"}
    /\ late \in BOOLEAN /\ stray \in BOOLEAN /\ clean \in BOOLEAN

\* rtl8150_probe fills the pool
Init ==
    /\ pool \in 0 .. PoolSize /\ rx_skb = "none" /\ RX_URB_FAIL = FALSE
    /\ rxUrb = "idle" /\ tbuf = FALSE /\ target = FALSE
    /\ cb = [c \in Callers |-> "no"] /\ sched = FALSE /\ tl = "no"
    /\ running = FALSE /\ op = "none" /\ present = TRUE /\ pm = "on" /\ gone = FALSE
    /\ disc = "no" /\ late = FALSE /\ stray = FALSE /\ clean = TRUE

-----------------------------------------------------------------------------
(* The USB core and the kernel.                                            *)

UNPLUG == disc # "no"

\* usb_kill_urb is running, or the device is suspended: submissions fail
Killing == op \in {"failing", "closing"} \/ pm = "suspending" \/ disc = "unlink"
Killed == rxUrb = "idle" /\ cb["urb"] = "no"

\* the outcomes of usb_submit_urb: it may fail for a lack of memory at any time
Submits(r) ==
    /\ r = "ok" => rxUrb = "idle" /\ ~Killing /\ pm # "off" /\ ~gone
    /\ r = "nodev" <=> rxUrb = "idle" /\ gone
    /\ IF r = "ok" THEN rxUrb' = "active" /\ target' = tbuf' ELSE UNCHANGED urbVars
Outcomes == {"ok", "nodev", "fail"}

\* tasklet_schedule, which tasklet_kill makes a no-op once it has claimed the
\* tasklet by setting the bit that says it is scheduled
Schedule == sched' = (disc # "claimed") /\ clean' = (clean /\ disc # "claimed")

\* neither the callback nor the tasklet can still submit the URB
Quiet == cb = [c \in Callers |-> "no"] /\ ~sched /\ tl = "no"

\* the tasklet can: it is scheduled, or runs and has not submitted it yet
TaskletLeft == sched \/ tl \in {"pull", "submit", "set"}

UrbCompletes ==
    /\ rxUrb = "active"
    /\ \/ ~gone /\ rxUrb' \in {"ok", "short", "error"}
       \/ gone /\ rxUrb' = "error"
       \/ Killing /\ rxUrb' = "unlinked"
    /\ UNCHANGED <<skbVars, target, RX_URB_FAIL, cb, sched, tl, admVars, present, clean>>

Unplug ==
    /\ ~gone /\ gone' = TRUE
    /\ UNCHANGED <<skbVars, urbVars, RX_URB_FAIL, cb, sched, tl, running, op, pm, disc, late,
                   stray, present, clean>>

-----------------------------------------------------------------------------
(* read_bulk_callback.                                                     *)

\* the checks at its start; resume calls it with status 0 and no data
CbEnter ==
    /\ rxUrb \in {"ok", "short", "error", "unlinked"} /\ cb["urb"] = "no"
    /\ rxUrb' = "idle"
    /\ cb' = [cb EXCEPT !["urb"] =
                 IF UNPLUG \/ ~present \/ rxUrb = "unlinked" THEN "no"
                 ELSE IF rxUrb = "error" THEN "submit"
                 ELSE IF rx_skb = "none" THEN "resched"
                 ELSE IF rxUrb = "short" THEN "submit" ELSE "deliver"]
    /\ clean' = (clean /\ tl = "no" /\ cb["resume"] = "no")
    /\ UNCHANGED <<skbVars, target, RX_URB_FAIL, sched, tl, admVars, present>>

\* rx_skb is another buffer now, or none
Replaces(s) ==
    /\ rx_skb' = s /\ tbuf' = FALSE
    /\ target' = FALSE

\* netif_rx, then the next buffer from the pool
CbDeliver(c) ==
    /\ cb[c] = "deliver"
    /\ IF pool > 0
         THEN /\ Replaces("mine") /\ pool' = pool - 1
              /\ cb' = [cb EXCEPT ![c] = "submit"]
         ELSE /\ rx_skb' = "given" /\ UNCHANGED <<pool, tbuf, target>>
              /\ cb' = [cb EXCEPT ![c] = "resched"]
    /\ UNCHANGED <<rxUrb, RX_URB_FAIL, sched, tl, admVars, present, clean>>

\* what follows a submission: nothing, clear_bit or set_bit
Noted(r) == CASE r = "ok" -> "clear" [] r = "fail" -> "set" [] r = "nodev" -> "no"

\* goon: fill and submit the URB
CbSubmit(c, r) ==
    /\ cb[c] = "submit"
    /\ tbuf' = TRUE /\ Submits(r)
    /\ present' = (present /\ r # "nodev")
    /\ cb' = [cb EXCEPT ![c] = Noted(r)]
    /\ UNCHANGED <<pool, rx_skb, RX_URB_FAIL, sched, tl, admVars, clean>>

\* mutant of CbNote: a failed submission is not left to the tasklet
CbNoteGivesUp(c) ==
    /\ cb[c] \in {"clear", "set"}
    /\ RX_URB_FAIL' = (cb[c] = "set")
    /\ cb' = [cb EXCEPT ![c] = "no"]
    /\ UNCHANGED <<skbVars, urbVars, sched, tl, admVars, present, clean>>

\* RX_URB_FAIL, a step after the submission that it tells of
CbNote(c) ==
    /\ cb[c] \in {"clear", "set"}
    /\ RX_URB_FAIL' = (cb[c] = "set")
    /\ cb' = [cb EXCEPT ![c] = IF cb[c] = "set" THEN "resched" ELSE "no"]
    /\ UNCHANGED <<skbVars, urbVars, sched, tl, admVars, present, clean>>

CbResched(c) ==
    /\ cb[c] = "resched"
    /\ Schedule /\ cb' = [cb EXCEPT ![c] = "no"]
    /\ UNCHANGED <<skbVars, urbVars, RX_URB_FAIL, tl, admVars, present>>

-----------------------------------------------------------------------------
(* rx_fixup, the tasklet.                                                  *)

\* fill_skb_pool, as far as there is memory; then try_again if it was the
\* submission that failed
TlBegin ==
    /\ sched /\ tl = "no" /\ sched' = FALSE
    /\ pool' \in pool .. PoolSize
    /\ tl' = IF RX_URB_FAIL /\ rx_skb # "none" THEN "submit" ELSE "pull"
    /\ UNCHANGED <<rx_skb, tbuf, urbVars, RX_URB_FAIL, cb, admVars, present, clean>>

\* a new buffer, and the URB set up with it; without one the tasklet runs again
TlPull ==
    /\ tl = "pull"
    /\ IF pool > 0
         THEN /\ pool' = pool - 1 /\ rx_skb' = "mine" /\ tbuf' = TRUE /\ target' = FALSE
              /\ tl' = "submit" /\ UNCHANGED <<sched, clean>>
         ELSE /\ tl' = "no" /\ Schedule /\ UNCHANGED <<skbVars, target>>
    /\ UNCHANGED <<rxUrb, RX_URB_FAIL, cb, admVars, present>>

TlSubmit(r) ==
    /\ tl = "submit" /\ tl' = Noted(r)
    /\ UNCHANGED skbVars /\ Submits(r)
    /\ present' = (present /\ r # "nodev")
    /\ UNCHANGED <<RX_URB_FAIL, sched, cb, admVars, clean>>

\* mutant of TlNote: RX_URB_FAIL is not set
TlNoteNoFlag ==
    /\ tl \in {"clear", "set"} /\ tl' = "no"
    /\ RX_URB_FAIL' = (RX_URB_FAIL /\ tl = "set")
    /\ IF tl = "set" THEN Schedule ELSE UNCHANGED <<sched, clean>>
    /\ UNCHANGED <<skbVars, urbVars, cb, admVars, present>>

\* RX_URB_FAIL; a failure makes the tasklet run again
TlNote ==
    /\ tl \in {"clear", "set"} /\ tl' = "no"
    /\ RX_URB_FAIL' = (tl = "set")
    /\ IF tl = "set" THEN Schedule ELSE UNCHANGED <<sched, clean>>
    /\ UNCHANGED <<skbVars, urbVars, cb, admVars, present>>

-----------------------------------------------------------------------------
(* Open and close, under rtnl, and suspend and resume, with user programs  *)
(* frozen: none of them meets another.                                     *)

Idle == op = "none" /\ pm = "on"
AdmLocal == UNCHANGED <<cb, sched, tl>>

\* rtl8150_open up to the submission of rx_urb
OpenRx(r) ==
    /\ Idle /\ ~running /\ present /\ disc \in {"no", "killtl", "claimed", "unregister"}
    /\ IF rx_skb = "none" /\ pool > 0
         THEN rx_skb' = "mine" /\ pool' = pool - 1
         ELSE UNCHANGED <<rx_skb, pool>>
    /\ IF rx_skb' = "none"
         THEN r = "fail" /\ UNCHANGED <<tbuf, urbVars>>
         ELSE tbuf' = TRUE /\ Submits(r)
    /\ present' = (r # "nodev")
    /\ op' = IF r = "ok" THEN "opening" ELSE "none"
    /\ UNCHANGED <<RX_URB_FAIL, running, pm, gone, disc, late, stray, clean>> /\ AdmLocal

AdmStep == UNCHANGED <<skbVars, urbVars, RX_URB_FAIL, present>> /\ AdmLocal
OpenStep == UNCHANGED <<skbVars, urbVars, RX_URB_FAIL, pm, gone, disc, late, stray, clean>> /\ AdmLocal

\* mutant of OpenIntr: rx_urb is not killed
OpenIntrLeaves ==
    /\ op = "opening" /\ op' = "none" /\ running' \in BOOLEAN
    /\ UNCHANGED present /\ OpenStep

\* the rest of it: if intr_urb cannot be submitted, rx_urb is killed, and a
\* device that is gone is detached
OpenIntr ==
    /\ op = "opening"
    /\ \/ op' = "none" /\ running' = TRUE /\ UNCHANGED present
       \/ op' = "failing" /\ present' \in {present, present /\ ~gone} /\ UNCHANGED running
    /\ OpenStep

\* rtl8150_close, called by the user or by unregister_netdev
Close ==
    /\ Idle /\ running /\ op' = "closing"
    /\ UNCHANGED <<running, pm, gone, disc, late, stray, clean>> /\ AdmStep

\* usb_kill_urb has returned
OpClosed ==
    /\ op \in {"failing", "closing"} /\ Killed
    /\ op' = "none" /\ running' = FALSE
    /\ clean' = (clean /\ Quiet) /\ stray' = TaskletLeft
    /\ UNCHANGED <<pm, gone, disc, late>> /\ AdmStep

Suspend ==
    /\ Idle /\ disc = "no"
    /\ present' = FALSE /\ pm' = IF running THEN "suspending" ELSE "off"
    /\ UNCHANGED <<skbVars, urbVars, RX_URB_FAIL, running, op, gone, disc, late, stray, clean>> /\ AdmLocal

Suspended ==
    /\ pm = "suspending" /\ Killed /\ pm' = "off"
    /\ clean' = (clean /\ Quiet) /\ stray' = TaskletLeft
    /\ UNCHANGED <<running, op, gone, disc, late>> /\ AdmStep

\* rtl8150_resume; a running interface calls read_bulk_callback, whose checks
\* it passes
Resume ==
    /\ pm = "off" /\ disc = "no" /\ pm' = "resuming" /\ present' = TRUE
    /\ cb' = [cb EXCEPT !["resume"] = IF ~running THEN "no"
                                      ELSE IF rx_skb = "none" THEN "resched" ELSE "submit"]
    /\ UNCHANGED <<skbVars, urbVars, RX_URB_FAIL, sched, tl, running, op, gone, disc, late, stray, clean>>

Resumed ==
    /\ pm = "resuming" /\ cb["resume"] = "no" /\ pm' = "on"
    /\ UNCHANGED <<running, op, gone, disc, late, stray, clean>> /\ AdmStep

-----------------------------------------------------------------------------
(* rtl8150_disconnect.                                                     *)

DiscStep == UNCHANGED <<running, op, gone, stray>> /\ AdmStep

\* UNPLUG; a device that is not resumed is disconnected as it is
DiscStart ==
    /\ disc = "no" /\ pm \in {"on", "off"} /\ disc' = "killtl" /\ pm' = "on"
    /\ UNCHANGED <<late, clean>> /\ DiscStep

\* tasklet_kill
DiscClaim ==
    /\ disc = "killtl" /\ ~sched /\ disc' = "claimed"
    /\ UNCHANGED <<pm, late, clean>> /\ DiscStep

DiscKilled ==
    /\ disc = "claimed" /\ tl = "no" /\ disc' = "unregister"
    /\ late' = (cb["urb"] # "no")
    /\ UNCHANGED <<pm, clean>> /\ DiscStep

\* unregister_netdev has closed the interface
DiscUnregistered ==
    /\ disc = "unregister" /\ op = "none" /\ ~running /\ disc' = "unlink"
    /\ UNCHANGED <<pm, late, clean>> /\ DiscStep

\* unlink_all_urbs, then everything is freed
DiscFree ==
    /\ disc = "unlink" /\ Killed /\ disc' = "freed"
    /\ UNCHANGED <<pm, late, clean>> /\ DiscStep

-----------------------------------------------------------------------------
Callback ==
    \/ CbEnter
    \/ \E c \in Callers : \/ CbDeliver(c) \/ CbNote(c) \/ CbResched(c)
                          \/ \E r \in Outcomes : CbSubmit(c, r)
Tasklet == TlBegin \/ TlPull \/ TlNote \/ \E r \in Outcomes : TlSubmit(r)
Opening == OpenIntr \/ \E r \in Outcomes : OpenRx(r)
Administration == Opening \/ Close \/ OpClosed \/ Suspend \/ Suspended \/ Resume \/ Resumed
Disconnect == DiscStart \/ DiscClaim \/ DiscKilled \/ DiscUnregistered \/ DiscFree

Next == UrbCompletes \/ Unplug \/ Callback \/ Tasklet \/ Administration \/ Disconnect

Spec == Init /\ [][Next]_vars

\* Code that has started goes on; memory is found again and again, so that a
\* submission or a filling tried for ever succeeds at some time. Nobody need
\* open, close, suspend or disconnect, and no packet need arrive.
FairSpec ==
    /\ Spec
    /\ WF_vars(Callback) /\ WF_vars(Tasklet)
    /\ SF_vars(TlBegin /\ pool' > 0)
    /\ SF_vars(TlSubmit("ok"))

-----------------------------------------------------------------------------
(* Properties.                                                             *)

\* From the submission to netif_rx the buffer is the driver's, and it is the one
\* the URB was set up with: the device never writes into a buffer that was given
\* to the stack, and read_bulk_callback gives away what was filled, and only once
\* (rtl_8150.c:538-558, 782-793), as long as the kills found the driver quiet.
DmaIntoOwn ==
    clean /\ (rxUrb # "idle" \/ \E c \in Callers : cb[c] = "deliver") => target /\ rx_skb = "mine"

\* rx_fixup takes a new buffer only when the old one was given away: it never
\* forgets one that the driver still has (rtl_8150.c:777-786).
NothingForgotten == clean /\ tl = "pull" => rx_skb # "mine"

\* The URB is filled only by who has it: not while it is in flight
\* (rtl_8150.c:556, 787, 1003), as long as the kills found the driver quiet.
FilledByOwner ==
    clean /\ rxUrb = "active" =>
        (\A c \in Callers : cb[c] # "submit") /\ tl \notin {"pull", "submit"}

\* The buffer's whole round, from the pool through the URB to the stack and back
\* to a new one: each step is taken by the one that has the buffer
\* (rtl_8150.c:501-571, 732-804).
BufferSafe == DmaIntoOwn /\ FilledByOwner /\ NothingForgotten

\* While the interface is closed or the device suspended the URB is at rest, and
\* stays so. The proviso is one known fault: close, a failed open and suspend
\* kill the URB but not the tasklet, so that one that was scheduled, or at work
\* before its submission, when the kill returned may submit the URB to a closed
\* interface (stray; rtl_8150.c:690, 1044, 768-804). Nothing else does: neither
\* the completion handler, whichever way it met the kill, nor a submission that
\* failed, nor resume, nor an open that failed half-way.
Closed == ~running /\ op = "none"
ClosedIsSilent == (Closed \/ pm = "off") /\ ~stray => rxUrb = "idle"

\* After rtl8150_disconnect has freed the driver's memory neither the callback
\* nor the tasklet uses it, unless the callback had looked at RTL8150_UNPLUG
\* before and was not finished when tasklet_kill was (rtl_8150.c:514-515,
\* 1249-1259).
FreedIsUnused == ~late /\ disc = "freed" => rxUrb = "idle" /\ Quiet

\* What close, suspend and disconnect leave behind: nothing of reception but
\* what the two provisos name, a tasklet that was pending when the kill of close
\* or suspend returned (stray) and a completion handler past its checks when
\* tasklet_kill returned (late) (rtl_8150.c:993-1048, 1244-1262).
StopsClean == ClosedIsSilent /\ FreedIsUnused

\* Reception does not stop: while the interface is up the URB that has
\* completed is submitted again, whatever fails on the way
\* (rtl_8150.c:555-571, 768-804).
Receiving == running /\ present /\ ~UNPLUG /\ op = "none"
ReceptionGoesOn == Receiving /\ rxUrb = "idle" ~> rxUrb = "active" \/ ~Receiving

=============================================================================
