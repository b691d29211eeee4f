-------------------------------- MODULE Btusb --------------------------------
(***************************************************************************)
(* The Bluetooth USB driver (Bluetooth/usbbt_drv.c): frames going out, and *)
(* the work item that follows the synchronous connections: it resumes the  *)
(* device, selects the alternate setting that carries voice and starts the *)
(* isochronous URBs, and takes all that back.                              *)
(*                                                                         *)
(* btusb_open, btusb_stop_traffic, btusb_submit_isoc_urb and the           *)
(* completion handlers are called but not written in this file: they are   *)
(* modelled from their calls. Nothing sets BTUSB_SUSPENDING, so inc_tx     *)
(* always counts and no frame is deferred to the waker.                    *)
(***************************************************************************)
EXTENDS Naturals

CONSTANTS
    MaxCalls,    \* bound: synchronous connections at a time
    MaxTx        \* bound: frames counted in tx_in_flight, and SCO frames in flight

ASSUME MaxCallsAssumption == MaxCalls \in Nat \ {0}
ASSUME MaxTxAssumption == MaxTx \in Nat \ {0}

VARIABLES
    hci,             \* "closed", "open", or how far close has come
    conns,           \* hdev->conn_hash.sco_num
    sco_num,         \* data->sco_num
    pending, work,   \* the work item queued; how far btusb_work has come
    ISOC_RUNNING, DID_ISO_RESUME,
    altsetting,      \* data->isoc_altsetting
    endpoints,       \* isoc_tx_ep and isoc_rx_ep are set
    usage,           \* usb_autopm references the work item holds
    isoc,            \* URBs of isoc_anchor
    sending,         \* how far btusb_send_frame has come, and with what
    tx, tx_sco,      \* URBs of tx_anchor: counted ones, SCO
    tx_in_flight,
    erred, cut      \* history: the last btusb_work met an error; a close cancelled it

workVars == <<ISOC_RUNNING, DID_ISO_RESUME, altsetting, endpoints, usage, isoc>>
frameVars == <<sending, tx, tx_sco, tx_in_flight>>
btusbVars == <<hci, conns, sco_num, pending, work, workVars, frameVars, erred, cut>>

BtusbInit ==
    /\ hci = "closed" /\ conns = 0 /\ sco_num = 0
    /\ pending = FALSE /\ work = "idle"
    /\ ISOC_RUNNING = FALSE /\ DID_ISO_RESUME = FALSE
    /\ altsetting = 0 /\ endpoints = FALSE /\ usage = 0 /\ isoc = 0
    /\ sending = "idle" /\ tx = 0 /\ tx_sco = 0 /\ tx_in_flight = 0
    /\ erred = FALSE /\ cut = FALSE

-----------------------------------------------------------------------------
(* The HCI core: one of open, close and the connections at a time.         *)

btusb_open ==
    /\ hci = "closed"
    /\ hci' = "open"
    /\ UNCHANGED <<conns, sco_num, pending, work, workVars, frameVars, erred, cut>>

\* mutant: only a first connection makes work
btusb_notifyGrows(n) ==
    /\ sco_num' = n
    /\ pending' = (pending \/ n > sco_num)

btusb_notify(n) ==
    /\ sco_num' = n
    /\ pending' = (pending \/ n # sco_num)

\* a connection is added or deleted under the lock of hdev, which covers notify
Connections ==
    /\ hci = "open"
    /\ \/ conns < MaxCalls /\ conns' = conns + 1
       \/ conns > 0 /\ conns' = conns - 1
    /\ btusb_notify(conns')
    /\ cut' = FALSE
    /\ UNCHANGED <<hci, work, workVars, frameVars, erred>>

\* The core stops its own work and deletes the connections, ...
Shutdown ==
    /\ hci = "open" /\ sending = "idle"
    /\ conns' = 0
    /\ btusb_notify(0)
    /\ hci' = "flush"
    /\ UNCHANGED <<work, workVars, frameVars, erred, cut>>

\* ... flushes, ...
btusb_flush ==
    /\ hci = "flush"
    /\ tx' = 0 /\ tx_sco' = 0
    /\ tx_in_flight' = tx_in_flight - tx
    /\ hci' = "close"
    /\ UNCHANGED <<conns, sco_num, pending, work, workVars, sending, erred, cut>>

\* mutant: without waiting for the work item
btusb_closeAtOnce ==
    /\ hci = "close"
    /\ pending' = FALSE /\ cut' = (cut \/ pending)
    /\ hci' = "stop"
    /\ ISOC_RUNNING' = FALSE
    /\ UNCHANGED <<conns, sco_num, work, DID_ISO_RESUME, altsetting, endpoints, usage, isoc,
                   frameVars, erred>>

\* ... and calls close: cancel_work_sync takes the work item off its queue and
\* waits for a run of it, and the bits go.
btusb_close ==
    /\ hci = "close" /\ work = "idle"
    /\ pending' = FALSE /\ cut' = (cut \/ pending)
    /\ hci' = "stop"
    /\ ISOC_RUNNING' = FALSE
    /\ UNCHANGED <<conns, sco_num, work, DID_ISO_RESUME, altsetting, endpoints, usage, isoc,
                   frameVars, erred>>

btusb_stop_traffic ==
    /\ hci = "stop"
    /\ isoc' = 0
    /\ hci' = "closed"
    /\ UNCHANGED <<conns, sco_num, pending, work, ISOC_RUNNING, DID_ISO_RESUME, altsetting,
                   endpoints, usage, frameVars, erred, cut>>

-----------------------------------------------------------------------------
(* btusb_send_frame, from the core's work queue.                           *)

Send ==
    /\ hci = "open" /\ sending = "idle"
    /\ \/ tx_in_flight < MaxTx /\ sending' = "counted" /\ tx_in_flight' = tx_in_flight + 1
       \/ tx_sco < MaxTx /\ endpoints /\ conns >= 1 /\ sending' = "sco"
          /\ UNCHANGED tx_in_flight
    /\ UNCHANGED <<hci, conns, sco_num, pending, work, workVars, tx, tx_sco, erred, cut>>

\* a failed submission leaves its count in tx_in_flight
Submit ==
    /\ \/ sending = "counted" /\ tx' \in {tx, tx + 1} /\ UNCHANGED tx_sco
       \/ sending = "sco" /\ tx_sco' \in {tx_sco, tx_sco + 1} /\ UNCHANGED tx
    /\ sending' = "idle"
    /\ UNCHANGED <<hci, conns, sco_num, pending, work, workVars, tx_in_flight, erred, cut>>

Sent ==
    /\ \/ tx > 0 /\ tx' = tx - 1 /\ tx_in_flight' = tx_in_flight - 1 /\ UNCHANGED tx_sco
       \/ tx_sco > 0 /\ tx_sco' = tx_sco - 1 /\ UNCHANGED <<tx, tx_in_flight>>
    /\ UNCHANGED <<hci, conns, sco_num, pending, work, workVars, sending, erred, cut>>

-----------------------------------------------------------------------------
(* btusb_work. "up" and "down" name the two branches.                      *)

Works(from, to) ==
    /\ work = from /\ work' = to
    /\ UNCHANGED <<hci, conns, sco_num, pending, frameVars, cut>>

WorkStart ==
    /\ pending /\ work = "idle"
    /\ pending' = FALSE /\ erred' = FALSE
    /\ work' = IF conns = 0 THEN "down" ELSE IF DID_ISO_RESUME THEN "up" ELSE "resume"
    /\ UNCHANGED <<hci, conns, sco_num, workVars, frameVars, cut>>

WorkResume ==
    \/ /\ Works("resume", "up")
       /\ usage' = usage + 1 /\ DID_ISO_RESUME' = TRUE
       /\ UNCHANGED <<ISOC_RUNNING, altsetting, endpoints, isoc, erred>>
    \/ /\ Works("resume", "kill")
       /\ ISOC_RUNNING' = FALSE /\ erred' = TRUE
       /\ UNCHANGED <<DID_ISO_RESUME, altsetting, endpoints, usage, isoc>>

WorkAltsetting ==
    \/ /\ altsetting # 2
       /\ Works("up", "upkill")
       /\ ISOC_RUNNING' = FALSE
       /\ UNCHANGED <<DID_ISO_RESUME, altsetting, endpoints, usage, isoc, erred>>
    \/ /\ altsetting = 2
       /\ Works("up", "start")
       /\ UNCHANGED <<workVars, erred>>

WorkDown ==
    /\ Works("down", "downkill")
    /\ ISOC_RUNNING' = FALSE
    /\ UNCHANGED <<DID_ISO_RESUME, altsetting, endpoints, usage, isoc, erred>>

WorkKill ==
    /\ \/ Works("kill", "idle") \/ Works("upkill", "upset") \/ Works("downkill", "downset")
    /\ isoc' = 0
    /\ UNCHANGED <<ISOC_RUNNING, DID_ISO_RESUME, altsetting, endpoints, usage, erred>>

\* Setting 0 has no isochronous endpoints, and its error is ignored; setting 2
\* should have both.
__set_isoc_interface ==
    \/ /\ Works("upset", "endpoints") /\ altsetting' = 2 /\ endpoints' = FALSE
       /\ UNCHANGED <<ISOC_RUNNING, DID_ISO_RESUME, usage, isoc, erred>>
    \/ /\ Works("upset", "idle") /\ erred' = TRUE
       /\ UNCHANGED workVars
    \/ /\ Works("endpoints", "start") /\ endpoints' = TRUE
       /\ UNCHANGED <<ISOC_RUNNING, DID_ISO_RESUME, altsetting, usage, isoc, erred>>
    \/ /\ Works("endpoints", "idle") /\ erred' = TRUE
       /\ UNCHANGED workVars
    \/ /\ Works("downset", "put") /\ altsetting' = 0 /\ endpoints' = FALSE
       /\ UNCHANGED <<ISOC_RUNNING, DID_ISO_RESUME, usage, isoc, erred>>
    \/ /\ Works("downset", "put")
       /\ UNCHANGED <<workVars, erred>>

WorkRun ==
    \/ /\ ISOC_RUNNING
       /\ Works("start", "idle")
       /\ UNCHANGED <<workVars, erred>>
    \/ /\ ~ISOC_RUNNING
       /\ Works("start", "first")
       /\ ISOC_RUNNING' = TRUE
       /\ UNCHANGED <<DID_ISO_RESUME, altsetting, endpoints, usage, isoc, erred>>

\* only the first error counts
WorkSubmit ==
    \/ /\ \/ Works("first", "second")
          \/ Works("second", "idle")
       /\ isoc' = isoc + 1
       /\ UNCHANGED <<ISOC_RUNNING, DID_ISO_RESUME, altsetting, endpoints, usage, erred>>
    \/ /\ Works("second", "idle")
       /\ UNCHANGED <<workVars, erred>>
    \/ /\ Works("first", "idle")
       /\ ISOC_RUNNING' = FALSE /\ erred' = TRUE
       /\ UNCHANGED <<DID_ISO_RESUME, altsetting, endpoints, usage, isoc>>

WorkPut ==
    /\ Works("put", "idle")
    /\ DID_ISO_RESUME' = FALSE
    /\ usage' = IF DID_ISO_RESUME THEN usage - 1 ELSE usage
    /\ UNCHANGED <<ISOC_RUNNING, altsetting, endpoints, isoc, erred>>

\* the completion handler submits a URB again while ISOC_RUNNING
IsocEnds ==
    /\ isoc > 0 /\ ~ISOC_RUNNING
    /\ isoc' = isoc - 1
    /\ UNCHANGED <<hci, conns, sco_num, pending, work, ISOC_RUNNING, DID_ISO_RESUME, altsetting,
                   endpoints, usage, frameVars, erred, cut>>

-----------------------------------------------------------------------------

btusb_work == WorkStart \/ WorkResume \/ WorkAltsetting \/ WorkDown \/ WorkKill
              \/ __set_isoc_interface \/ WorkRun \/ WorkSubmit \/ WorkPut

BtusbNext ==
    \/ btusb_open \/ Connections \/ Shutdown \/ btusb_flush \/ btusb_close \/ btusb_stop_traffic
    \/ Send \/ Submit \/ Sent
    \/ btusb_work \/ IsocEnds

BtusbSpec == BtusbInit /\ [][BtusbNext]_btusbVars

-----------------------------------------------------------------------------
(* Properties.                                                             *)

BtusbTypeOK ==
    /\ hci \in {"closed", "open", "flush", "close", "stop"}
    /\ conns \in 0 .. MaxCalls /\ sco_num \in 0 .. MaxCalls
    /\ pending \in BOOLEAN
    /\ work \in {"idle", "resume", "up", "down", "kill", "upkill", "downkill", "upset",
                 "endpoints", "downset", "start", "first", "second", "put"}
    /\ ISOC_RUNNING \in BOOLEAN /\ DID_ISO_RESUME \in BOOLEAN
    /\ altsetting \in {0, 2} /\ endpoints \in BOOLEAN
    /\ usage \in 0 .. 1 /\ isoc \in 0 .. 3
    /\ sending \in {"idle", "counted", "sco"}
    /\ tx \in 0 .. MaxTx /\ tx_sco \in 0 .. MaxTx /\ tx_in_flight \in 0 .. MaxTx
    /\ erred \in BOOLEAN /\ cut \in BOOLEAN

\* Isochronous URBs exist only while the device is held awake and has the
\* setting that carries them, and never more than the two of one start; a
\* closed device has no URB and no work item. (btusb_work, btusb_flush and
\* btusb_close)
UrbsInPlace ==
    /\ isoc > 0 => usage = 1 /\ altsetting = 2 /\ isoc <= 2
    /\ hci = "closed" => isoc + tx + tx_sco = 0 /\ ~pending /\ work = "idle"

\* At rest the device follows the connections, whatever came and went while
\* the work item ran: voice is on while there is one, and without one no URB
\* is left and the device may sleep; unless the last run met an error, or a
\* close cancelled a run. (btusb_notify and btusb_work)
CallsFollow ==
    hci = "open" /\ ~pending /\ work = "idle" /\ ~erred /\ ~cut
    => IF conns > 0 THEN ISOC_RUNNING /\ usage = 1 /\ altsetting = 2
                    ELSE isoc = 0 /\ usage = 0
=============================================================================
