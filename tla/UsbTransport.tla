---------------------------- MODULE UsbTransport ----------------------------
(***************************************************************************)
(* The transports of USB/transport.c and the decisions made on what they   *)
(* return: usb_stor_Bulk_transport, usb_stor_CB_transport (CB and CBI),    *)
(* interpret_urb_result with usb_stor_clear_halt, auto-sense, residue,     *)
(* READ(10) retries and last_sector_hacks in usb_stor_invoke_transport.    *)
(*                                                                         *)
(* One thread runs them; the device answers as it likes. An abort may come *)
(* at any time: it cancels the URB and refuses new ones. How it does so is *)
(* the subject of UsbStorage.                                              *)
(***************************************************************************)
EXTENDS Integers, FiniteSets

CONSTANTS
    Commands,    \* the commands of the SCSI layer: records [op, len, in, last, underflow]
    Devices,     \* the devices: records [protocol, ufi, fflags]
    MaxCalls     \* see ScsiCommand

ASSUME CommandsAssumption ==
    \A c \in Commands : /\ c.len \in Nat /\ c.underflow \in 0 .. c.len
                        /\ c.in \in BOOLEAN /\ c.last \in BOOLEAN

ASSUME DevicesAssumption ==
    \A d \in Devices : /\ d.protocol \in {"BULK", "CB", "CBI"} /\ d.ufi \in BOOLEAN
                       /\ d.fflags \subseteq {"SANE_SENSE", "MULT_TARG", "IGNORE_TAG",
                                              "BAD_SENSE", "IGNORE_RESIDUE", "INITIAL_READ10"}

\* wrapper, data and its clearing, an empty status, a stalled one and its clearing, the
\* third reading and its clearing (usb_stor_Bulk_transport)
ASSUME MaxCallsAssumption == MaxCalls \in Nat /\ MaxCalls >= 8

VARIABLES
    \* us: protocol and subclass, flags, what was learnt about the device
    protocol, ufi, fflags, dflags, bcs_signature, use_last_sector_hacks, last_sector_retries,
    \* the endpoints the device may have halted
    halted,
    \* the command, its residual, the sense key in its buffer, its result
    cmd, resid, sense_buffer, answer,
    \* the run of the transport: which one, the stage it is in, how its transfer
    \* ended ("none": not yet), the device babbled, what it returned
    run, pc, xfer, fake_sense, result, first,
    \* history: what the device said of the command, what was moved; calls in
    \* this run; retries and last-sector failures in a row; the endpoints left
    \* halted by an error that no reset has reached
    told, moved, calls, redos, fails, unreset

usVars  == <<protocol, ufi, fflags, dflags, bcs_signature>>
lastVars == <<use_last_sector_hacks, last_sector_retries>>
cmdVars == <<cmd, resid, sense_buffer, answer>>
runVars == <<run, pc, xfer, fake_sense, result, first>>
history == <<told, moved, calls, redos, fails, unreset>>
vars == <<usVars, lastVars, halted, cmdVars, runVars, history>>

Statuses == {"GOOD", "SHORT", "EMPTY", "STALLED", "LONG", "ERROR"}
Stages == {"cbw", "data", "csw", "csw0", "csw2", "ctrl", "cbdata", "intr", "failed"}
Results == {"GOOD", "FAILED", "NO_SENSE", "ERROR"}
Answers == {"GOOD", "CHECK", "ERROR", "ABORT", "IMM_RETRY"}

TypeOK ==
    /\ protocol \in {"BULK", "CB", "CBI"} /\ ufi \in BOOLEAN
    /\ fflags \subseteq {"IGNORE_RESIDUE", "SANE_SENSE", "BAD_SENSE", "IGNORE_TAG", "MULT_TARG",
                         "INITIAL_READ10"}
    /\ dflags \subseteq {"TIMED_OUT", "REDO_READ10", "READ10_WORKED"}
    /\ bcs_signature \in {"none", "known"}
    /\ use_last_sector_hacks \in BOOLEAN /\ last_sector_retries \in 0 .. 2
    /\ halted \subseteq {"in", "out", "intr"}
    /\ cmd \in Commands /\ resid \in 0 .. cmd.len
    /\ sense_buffer \in {"empty", "sense"} /\ answer \in Answers \cup {"none"}
    /\ run \in {"command", "large", "small"}
    /\ pc \in Stages \cup {"idle", "decide", "finish", "reset"}
    /\ xfer \in Statuses \cup {"none", "halt"}
    /\ fake_sense \in BOOLEAN /\ result \in Results /\ first \in Results
    /\ told \in {"none", "OK", "FAIL", "PHASE"} /\ moved \in 0 .. cmd.len
    /\ calls \in Nat /\ redos \in Nat /\ fails \in Nat
    /\ unreset \subseteq {"in", "out", "intr"}

\* usb_stor_Bulk_transport begins with the wrapper, CB and CBI on the control pipe
FirstStage == IF protocol = "BULK" THEN "cbw" ELSE "ctrl"

\* probe: a device whose first READ(10) is bad has REDO_READ10 set; slave_configure
Init ==
    /\ \E device \in Devices : /\ protocol = device.protocol /\ ufi = device.ufi
                              /\ fflags = device.fflags
    /\ dflags = IF "INITIAL_READ10" \in fflags THEN {"REDO_READ10"} ELSE {}
    /\ bcs_signature = "none"
    /\ use_last_sector_hacks = FALSE /\ last_sector_retries = 0
    /\ halted = {}
    /\ cmd \in Commands /\ resid = 0 /\ sense_buffer = "empty" /\ answer = "none"
    /\ run = "command" /\ pc = "idle" /\ xfer = "none"
    /\ fake_sense = FALSE /\ result = "GOOD" /\ first = "GOOD"
    /\ told = "none" /\ moved = 0 /\ calls = 0 /\ redos = 0 /\ fails = 0 /\ unreset = {}

-----------------------------------------------------------------------------
TimedOut == "TIMED_OUT" \in dflags
Sensing == run # "command"               \* REQUEST SENSE, which has data to read
HasData == Sensing \/ cmd.len > 0
DataIn == Sensing \/ cmd.in
DataPipe == IF DataIn THEN "in" ELSE "out"

Pipe == CASE pc = "cbw" -> "out" [] pc \in {"csw", "csw0", "csw2"} -> "in"
          [] pc \in {"data", "cbdata", "failed"} -> DataPipe
          [] pc = "ctrl" -> "ctrl" [] OTHER -> "intr"

\* the control thread hands a new command to the protocol
Begin ==
    /\ pc = "idle"
    /\ cmd' \in Commands
    /\ run' = "command" /\ pc' = FirstStage /\ xfer' = "none" /\ fake_sense' = FALSE
    /\ resid' = 0 /\ sense_buffer' = "empty" /\ answer' = "none"
    /\ result' = "GOOD" /\ first' = "GOOD"
    /\ told' = "none" /\ moved' = 0 /\ calls' = 0
    /\ UNCHANGED <<usVars, lastVars, halted, redos, fails, unreset>>

\* slave_configure, of a new LUN or one that is scanned again; the level it
\* reports decides about the size of its sense data
Configure ==
    /\ pc = "idle"
    /\ fflags' \in {fflags, fflags \cup {"SANE_SENSE"}}
    /\ use_last_sector_hacks' =
         (use_last_sector_hacks \/ (protocol = "BULK" /\ "MULT_TARG" \notin fflags))
    /\ UNCHANGED <<protocol, ufi, dflags, bcs_signature, last_sector_retries, halted, cmdVars,
                   runVars, history>>

\* command_abort
Abort ==
    /\ pc # "idle" /\ ~TimedOut
    /\ dflags' = dflags \cup {"TIMED_OUT"}
    /\ UNCHANGED <<protocol, ufi, fflags, bcs_signature, lastVars, halted, cmdVars, runVars, history>>

\* How a transfer of the stage may end, and how much it may have moved: only a
\* complete one is GOOD. Only a status has an EMPTY answer worth telling apart.
Outcomes ==
    IF TimedOut THEN {"ERROR"}
    ELSE CASE pc \in {"cbw", "ctrl", "intr"} -> {"GOOD", "STALLED", "ERROR"}
           [] pc \in {"csw", "csw0", "csw2"} -> {"GOOD", "SHORT", "EMPTY", "STALLED", "ERROR"}
           [] OTHER -> {"GOOD", "STALLED", "ERROR"} \cup (IF DataIn THEN {"SHORT", "LONG"} ELSE {})
Amounts(status) ==
    CASE status = "GOOD" -> {cmd.len} [] status = "SHORT" -> 0 .. cmd.len - 1 [] OTHER -> 0 .. cmd.len

\* usb_stor_ctrl_transfer, _intr_transfer, _bulk_transfer_buf and _bulk_srb; a
\* stall halts any endpoint but the control endpoint, and interpret_urb_result
\* is to clear it
Transfer ==
    /\ pc \in Stages \ {"failed"} /\ xfer = "none"
    /\ \E status \in Outcomes :
         /\ IF status = "STALLED" /\ Pipe # "ctrl"
              THEN xfer' = "halt" /\ halted' = halted \cup {Pipe} /\ unreset' = unreset \ {Pipe}
              ELSE xfer' = status /\ UNCHANGED <<halted, unreset>>
         /\ IF pc \in {"data", "cbdata"} /\ ~Sensing
              THEN \E n \in Amounts(status) : moved' = n /\ resid' = cmd.len - n
              ELSE UNCHANGED <<moved, resid>>
    /\ calls' = calls + 1
    /\ UNCHANGED <<usVars, lastVars, cmd, sense_buffer, answer, run, pc, fake_sense, result, first,
                   told, redos, fails>>

\* mutant of ClearHalt: a stall on a bulk pipe is only reported
ClearHaltForgotten ==
    /\ xfer = "halt" /\ xfer' = "STALLED"
    /\ calls' = calls + 1
    /\ UNCHANGED <<usVars, lastVars, halted, cmdVars, run, pc, fake_sense, result, first, told,
                   moved, redos, fails, unreset>>

\* interpret_urb_result clears the stall; a clearing that fails is an error
ClearHalt ==
    /\ xfer = "halt"
    /\ \/ ~TimedOut /\ xfer' = "STALLED" /\ halted' = halted \ {Pipe}
       \/ xfer' = "ERROR" /\ UNCHANGED halted
    /\ calls' = calls + 1
    /\ UNCHANGED <<usVars, lastVars, cmdVars, run, pc, fake_sense, result, first, told, moved,
                   redos, fails, unreset>>

Ended == xfer \notin {"none", "halt"}
Returns(r) == pc' = "decide" /\ result' = r
Stays == UNCHANGED <<protocol, ufi, dflags, lastVars, halted, cmd, sense_buffer, answer, run, first,
                     moved, calls, redos, fails, unreset>>

-----------------------------------------------------------------------------
(* usb_stor_Bulk_transport.                                                *)

BulkCommand ==
    /\ pc = "cbw" /\ Ended /\ xfer' = "none"
    /\ IF xfer = "GOOD" THEN pc' = (IF HasData THEN "data" ELSE "csw") /\ UNCHANGED result
                        ELSE Returns("ERROR")
    /\ Stays /\ UNCHANGED <<fflags, bcs_signature, resid, fake_sense, told>>

\* a stalled or short data phase is followed by the status all the same
BulkData ==
    /\ pc = "data" /\ Ended /\ xfer' = "none"
    /\ IF xfer = "ERROR" THEN Returns("ERROR") ELSE pc' = "csw" /\ UNCHANGED result
    /\ fake_sense' = (xfer = "LONG")
    /\ Stays /\ UNCHANGED <<fflags, bcs_signature, resid, told>>

\* an empty status is read again, a stalled one too, once each
BulkStatusAgain ==
    /\ \/ pc = "csw" /\ xfer = "EMPTY" /\ pc' = "csw0"
       \/ pc \in {"csw", "csw0"} /\ xfer = "STALLED" /\ pc' = "csw2"
    /\ xfer' = "none"
    /\ Stays /\ UNCHANGED <<fflags, bcs_signature, resid, fake_sense, result, told>>

BulkStatusFails ==
    /\ \/ pc = "csw"  /\ xfer \in {"SHORT", "ERROR"}
       \/ pc = "csw0" /\ xfer \in {"SHORT", "EMPTY", "ERROR"}
       \/ pc = "csw2" /\ Ended /\ xfer # "GOOD"
    /\ xfer' = "none" /\ Returns("ERROR")
    /\ Stays /\ UNCHANGED <<fflags, bcs_signature, resid, fake_sense, told>>

\* mutant of BulkAccepts: the tag is not looked at
BulkAcceptsAny(csw) ==
    (bcs_signature = "none" \/ csw.same)

\* the tag is ours and the signature the one that the device used first
BulkAccepts(csw) ==
    /\ csw.ours \/ "IGNORE_TAG" \in fflags
    /\ (bcs_signature = "none" \/ csw.same)

\* mutant of Shortage: the device's word replaces what was seen to be missing
ShortageAsTold(residue) == residue

\* what is missing: what the device admits, and at least what we have seen
Shortage(residue) ==
    LET r == IF residue > cmd.len THEN cmd.len ELSE residue IN IF r > resid THEN r ELSE resid

\* a device that claims a residue where INQUIRY had none is not to be believed
Bogus(csw) == csw.status = "OK" /\ resid = 0 /\ cmd.op = "INQUIRY" /\ ~Sensing

\* the device's status: about this command or an earlier one, with the signature
\* of the others or not
CSW == [ours : BOOLEAN, same : BOOLEAN, status : {"OK", "FAIL", "PHASE"},
        residue : 0 .. 2]

\* checks of tag and signature, residue, verdict; the sense data made up for a
\* babble goes straight into the answer (DecideNoSense)
BulkStatus ==
    /\ pc \in {"csw", "csw0", "csw2"} /\ xfer = "GOOD" /\ xfer' = "none"
    /\ \E csw \in CSW :
         /\ told' = IF Sensing THEN told
                    ELSE IF csw.ours \/ "IGNORE_TAG" \in fflags THEN csw.status ELSE "none"
         /\ IF ~BulkAccepts(csw)
              THEN /\ Returns("ERROR")
                   /\ UNCHANGED <<fflags, bcs_signature, resid>>
              ELSE /\ bcs_signature' = "known"
                   /\ IF csw.residue = 0 \/ "IGNORE_RESIDUE" \in fflags \/ Sensing
                        THEN UNCHANGED <<fflags, resid>>
                        ELSE IF Bogus(csw)
                          THEN fflags' = fflags \cup {"IGNORE_RESIDUE"} /\ UNCHANGED resid
                          ELSE resid' = Shortage(csw.residue) /\ UNCHANGED fflags
                   /\ Returns(CASE csw.status = "OK" -> IF fake_sense THEN "NO_SENSE" ELSE "GOOD"
                                [] csw.status = "FAIL" -> "FAILED"
                                [] OTHER -> "ERROR")
    /\ Stays /\ UNCHANGED fake_sense

-----------------------------------------------------------------------------
(* usb_stor_CB_transport: command by the control pipe, data, and for CBI a *)
(* status by the interrupt pipe.                                           *)

CbCommand ==
    /\ pc = "ctrl" /\ Ended /\ xfer' = "none"
    /\ IF xfer # "GOOD"       THEN Returns(IF xfer = "STALLED" THEN "FAILED" ELSE "ERROR")
       ELSE IF HasData         THEN pc' = "cbdata" /\ UNCHANGED result
       ELSE IF protocol = "CBI" THEN pc' = "intr" /\ UNCHANGED result
       ELSE Returns("GOOD")
    /\ Stays /\ UNCHANGED <<fflags, bcs_signature, resid, fake_sense, told>>

CbData ==
    /\ pc = "cbdata" /\ Ended /\ xfer' = "none"
    /\ IF xfer \notin {"GOOD", "SHORT"} THEN Returns(IF xfer = "STALLED" THEN "FAILED" ELSE "ERROR")
       ELSE IF protocol = "CBI"         THEN pc' = "intr" /\ UNCHANGED result
       ELSE Returns("GOOD")
    /\ Stays /\ UNCHANGED <<fflags, bcs_signature, resid, fake_sense, told>>

CbStatusFails ==
    /\ pc = "intr" /\ Ended /\ xfer # "GOOD" /\ xfer' = "none" /\ Returns("ERROR")
    /\ Stays /\ UNCHANGED <<fflags, bcs_signature, resid, fake_sense, told>>

\* UFI devices report a sense code, which INQUIRY and REQUEST SENSE ignore; the
\* others a result. A failure with data has the bulk pipe cleared.
CbStatus ==
    /\ pc = "intr" /\ xfer = "GOOD" /\ xfer' = "none"
    /\ \E status \in {"OK", "FAIL", "PHASE"} :
         /\ told' = IF Sensing THEN told ELSE status
         /\ CASE status = "OK" \/ (ufi /\ (Sensing \/ cmd.op = "INQUIRY")) -> Returns("GOOD")
              [] OTHER -> \/ /\ status = "FAIL" \/ ufi
                             /\ IF HasData THEN pc' = "failed" /\ UNCHANGED result
                                           ELSE Returns("FAILED")
                          \/ status = "PHASE" /\ ~ufi /\ Returns("ERROR")
    /\ Stays /\ UNCHANGED <<fflags, bcs_signature, resid, fake_sense>>

\* usb_stor_clear_halt, whose result is not looked at
CbFailed ==
    /\ pc = "failed" /\ Returns("FAILED")
    /\ \/ ~TimedOut /\ halted' = halted \ {DataPipe} /\ unreset' = unreset \ {DataPipe}
       \/ UNCHANGED <<halted, unreset>>
    /\ calls' = calls + 1
    /\ UNCHANGED <<usVars, lastVars, cmdVars, run, xfer, fake_sense, first, told, moved, redos,
                   fails>>

-----------------------------------------------------------------------------
(* usb_stor_invoke_transport.                                              *)

\* last_sector_hacks with the result so far: the third failure in a row at the
\* end of the disk becomes one that the SCSI layer does not retry
AtLastSector == cmd.op \in {"READ10", "WRITE10"} /\ cmd.last
LastSectorHacks(ans) ==
    IF ~use_last_sector_hacks
      THEN answer' = ans /\ UNCHANGED <<lastVars, sense_buffer>>
      ELSE CASE AtLastSector /\ ans = "GOOD" /\ resid = 0 ->
                  /\ use_last_sector_hacks' = FALSE /\ last_sector_retries' = 0
                  /\ answer' = ans /\ UNCHANGED sense_buffer
             [] AtLastSector /\ ~(ans = "GOOD" /\ resid = 0) /\ last_sector_retries < 2 ->
                  /\ last_sector_retries' = last_sector_retries + 1
                  /\ answer' = ans /\ UNCHANGED <<use_last_sector_hacks, sense_buffer>>
             [] AtLastSector /\ ~(ans = "GOOD" /\ resid = 0) /\ last_sector_retries = 2 ->
                  /\ last_sector_retries' = 0 /\ answer' = "CHECK" /\ sense_buffer' = "sense"
                  /\ UNCHANGED use_last_sector_hacks
             [] ~AtLastSector ->
                  /\ last_sector_retries' = IF cmd.op = "TUR" THEN last_sector_retries ELSE 0
                  /\ answer' = ans /\ UNCHANGED <<use_last_sector_hacks, sense_buffer>>

\* history: answers that make the SCSI layer send the same again
Counts ==
    /\ redos' = IF answer' = "IMM_RETRY" THEN redos + 1
                ELSE IF cmd.op = "READ10" THEN 0 ELSE redos
    /\ fails' = IF ~use_last_sector_hacks \/ (~AtLastSector /\ cmd.op # "TUR") THEN 0
                ELSE IF cmd.op = "TUR" THEN fails
                ELSE IF (answer' = "GOOD" /\ resid = 0) \/ last_sector_retries = 2 THEN 0
                ELSE fails + 1

\* the control thread clears TIMED_OUT when it is done with the command
Leaves(where) ==
    /\ pc' = where /\ run' = "command" /\ xfer' = "none" /\ fake_sense' = FALSE
    /\ result' = "GOOD" /\ first' = "GOOD" /\ calls' = 0
Done == Leaves("idle")
DoneFlags(flags) == dflags' = flags \ {"TIMED_OUT"}

\* Run: the command's or a REQUEST SENSE in its place
Runs(r, res) ==
    /\ run' = r /\ pc' = FirstStage /\ xfer' = "none" /\ fake_sense' = FALSE
    /\ result' = "GOOD" /\ first' = res /\ calls' = 0

GoesToReset(ans) == Leaves("reset") /\ answer' = ans

\* CB cannot tell a failure, other than by stalling the bulk-in pipe
NeedsSense == result = "FAILED" \/ (protocol = "CB" /\ ~cmd.in)

\* an ATA command that succeeds shows a device behind a SAT bridge
LearnsSat == fflags' = IF cmd.op = "ATA16" /\ result = "GOOD" /\ "BAD_SENSE" \notin fflags
                         THEN fflags \cup {"SANE_SENSE"} ELSE fflags

\* the result of the command itself: abort, error, no sense, sense, or done
DecideReset ==
    /\ pc = "decide" /\ run = "command"
    /\ TimedOut \/ result = "ERROR"
    /\ GoesToReset(IF TimedOut THEN "ABORT" ELSE "ERROR")
    /\ UNCHANGED <<usVars, lastVars, halted, cmd, resid, sense_buffer, told, moved, redos, fails,
                   unreset>>

DecideNoSense ==
    /\ pc = "decide" /\ run = "command" /\ ~TimedOut /\ result = "NO_SENSE"
    /\ Done /\ DoneFlags(dflags)
    /\ LastSectorHacks("CHECK") /\ Counts
    /\ UNCHANGED <<protocol, ufi, fflags, bcs_signature, halted, cmd, resid, told, moved, unreset>>

DecideSense ==
    /\ pc = "decide" /\ run = "command" /\ ~TimedOut /\ result \in {"GOOD", "FAILED"}
    /\ NeedsSense /\ LearnsSat
    /\ Runs(IF "SANE_SENSE" \in fflags' THEN "large" ELSE "small", result)
    /\ UNCHANGED <<protocol, ufi, dflags, bcs_signature, lastVars, halted, cmdVars, told, moved, redos, fails, unreset>>

DecideGood ==
    /\ pc = "decide" /\ run = "command" /\ ~TimedOut /\ result = "GOOD" /\ ~NeedsSense
    /\ LearnsSat /\ Leaves("finish") /\ answer' = "GOOD"
    /\ UNCHANGED <<protocol, ufi, dflags, bcs_signature, lastVars, halted, cmd, resid, sense_buffer, told, moved, redos, fails,
                   unreset>>

NotSane == (fflags \ {"SANE_SENSE"}) \cup {"BAD_SENSE"}

\* an abort of a large request is held against the large request
SenseAborted ==
    /\ pc = "decide" /\ Sensing /\ TimedOut
    /\ fflags' = IF run = "large" THEN NotSane ELSE fflags
    /\ GoesToReset("ABORT")
    /\ UNCHANGED <<protocol, ufi, dflags, bcs_signature, lastVars, halted, cmd, resid, sense_buffer,
                   told, moved, redos, fails, unreset>>

\* mutant of SenseRetried: the large request is simply repeated
SenseRepeated ==
    /\ pc = "decide" /\ run = "large" /\ ~TimedOut /\ result = "FAILED"
    /\ Runs("large", first)
    /\ UNCHANGED <<usVars, lastVars, halted, cmdVars, told, moved, redos, fails, unreset>>

SenseRetried ==
    /\ pc = "decide" /\ run = "large" /\ ~TimedOut /\ result = "FAILED"
    /\ Runs("small", first)
    /\ fflags' = NotSane
    /\ UNCHANGED <<protocol, ufi, dflags, bcs_signature, lastVars, halted, cmdVars, told, moved,
                   redos, fails, unreset>>

\* on a multi-target device the failure of auto-sense is valid and no reset
SenseFails ==
    /\ pc = "decide" /\ Sensing /\ ~TimedOut
    /\ result # "GOOD" /\ ~(run = "large" /\ result = "FAILED")
    /\ IF "MULT_TARG" \in fflags
         THEN /\ Done /\ DoneFlags(dflags) /\ answer' = "ERROR"
              /\ unreset' = IF result = "ERROR" THEN unreset \cup halted ELSE unreset
         ELSE GoesToReset("ERROR") /\ UNCHANGED <<dflags, unreset>>
    /\ UNCHANGED <<protocol, ufi, fflags, bcs_signature, lastVars, halted, cmd, resid, sense_buffer,
                   told, moved, redos, fails>>

\* "This could indicate that everything worked or that there was an unspecified
\* problem. We have to decide which."
EmptySense ==
    IF first = "GOOD" THEN answer' = "GOOD" /\ sense_buffer' = "empty"
                      ELSE answer' = "ERROR" /\ sense_buffer' \in {"empty", "sense"}

\* the sense data: none, some, or more than the small request has room for; its
\* key, byte 2 of one format, may be zero
SenseRead ==
    /\ pc = "decide" /\ Sensing /\ ~TimedOut /\ result = "GOOD"
    /\ \E sense \in {"none", "some", "more"} :
         /\ fflags' = IF sense = "more" /\ "BAD_SENSE" \notin fflags
                        THEN fflags \cup {"SANE_SENSE"} ELSE fflags
         /\ told' = IF protocol = "CB" THEN (IF sense = "none" THEN "OK" ELSE "FAIL") ELSE told
         /\ IF sense = "none" THEN EmptySense
                              ELSE answer' = "CHECK" /\ sense_buffer' \in {"empty", "sense"}
    /\ Leaves("finish")
    /\ UNCHANGED <<protocol, ufi, dflags, bcs_signature, lastVars, halted, cmd, resid, moved, redos,
                   fails, unreset>>

\* READ(10): one that fails after one that worked, and the very first, is redone
Redo == cmd.op = "READ10" /\ "INITIAL_READ10" \in fflags
Failed == answer # "GOOD"
WithRead10 ==
    LET worked == "READ10_WORKED" \in dflags IN
    IF ~Redo THEN dflags
    ELSE IF ~Failed THEN dflags \cup {"READ10_WORKED"}
    ELSE IF worked THEN (dflags \ {"READ10_WORKED"}) \cup {"REDO_READ10"} ELSE dflags

\* mutant of AfterRedo: the flag that asks for the retry stays
AfterRedoStays(flags) == flags

AfterRedo(flags) == IF Redo THEN flags \ {"REDO_READ10"} ELSE flags

\* "Did we transfer less than the minimum amount required?"
Short == cmd.len - resid < cmd.underflow

Finish ==
    /\ pc = "finish" /\ Done
    /\ LET again == Redo /\ "REDO_READ10" \in WithRead10
           ans == IF again THEN "IMM_RETRY" ELSE answer
       IN /\ DoneFlags(AfterRedo(WithRead10))
          /\ LastSectorHacks(IF (ans = "GOOD" \/ sense_buffer = "empty") /\ Short
                                THEN "ERROR" ELSE ans)
    /\ Counts
    /\ UNCHANGED <<protocol, ufi, fflags, bcs_signature, halted, cmd, resid, told, moved, unreset>>

\* the port reset starts the device afresh; the class reset clears the two bulk
\* pipes, one by one, and never the interrupt pipe
PortReset == halted' = {}
ClassReset == \E cleared \in SUBSET {"in", "out"} : halted' = halted \ cleared

\* Handle_Errors: the port reset or, failing that, the class reset; a device that
\* is going away answers neither
Reset ==
    /\ pc = "reset" /\ Done /\ DoneFlags(dflags)
    /\ PortReset \/ ClassReset
    /\ unreset' = halted'
    /\ LastSectorHacks(answer) /\ Counts
    /\ UNCHANGED <<protocol, ufi, fflags, bcs_signature, cmd, resid, told, moved>>

-----------------------------------------------------------------------------
Step ==
    \/ Transfer \/ ClearHalt
    \/ BulkCommand \/ BulkData \/ BulkStatusAgain \/ BulkStatusFails \/ BulkStatus
    \/ CbCommand \/ CbData \/ CbStatusFails \/ CbStatus \/ CbFailed
    \/ DecideReset \/ DecideNoSense \/ DecideSense \/ DecideGood
    \/ SenseAborted \/ SenseRetried \/ SenseFails \/ SenseRead
    \/ Finish \/ Reset

Next ==
    \/ Begin \/ Configure \/ Abort
    \/ Transfer \/ ClearHalt
    \/ BulkCommand \/ BulkData \/ BulkStatusAgain \/ BulkStatusFails \/ BulkStatus
    \/ CbCommand \/ CbData \/ CbStatusFails \/ CbStatus \/ CbFailed
    \/ DecideReset \/ DecideNoSense \/ DecideSense \/ DecideGood
    \/ SenseAborted \/ SenseRetried \/ SenseFails \/ SenseRead
    \/ Finish \/ Reset

Spec == Init /\ [][Next]_vars

\* the thread runs, and every transfer ends (an abort sees to it, UsbStorage)
FairSpec == Spec /\ WF_vars(Step)

-----------------------------------------------------------------------------
(* Properties.                                                             *)

\* No transfer is begun on an endpoint that the device has halted, unless it has
\* been halted since an error that no reset reached: the reset failed, it was a
\* class reset, which leaves the interrupt pipe of a CBI device halted
\* (transport.c:1278-1282), or there was none, after an error of auto-sense on a
\* multi-target device. Whatever stalls in a command is cleared within it or
\* takes it to a reset (transport.c:264-323).
NoTransferOnHalted ==
    pc \in Stages \ {"failed"} /\ xfer = "none" /\ Pipe \in halted => Pipe \in unreset

\* A command is reported as good only if the device has said so of this very
\* command, or has no way to say it and reports no sense.
GoodIsReported ==
    pc = "idle" /\ answer = "GOOD" =>
      CASE protocol = "BULK" -> told = "OK"
        [] protocol = "CBI"  -> told = "OK" \/ (ufi /\ cmd.op = "INQUIRY")
        [] OTHER             -> cmd.in \/ told = "OK"

\* A good command has moved what its sender cannot do without, and owns up to
\* whatever was not moved.
NoSilentShortage ==
    pc = "idle" /\ answer = "GOOD" => /\ moved >= cmd.underflow
                                     /\ resid >= cmd.len - moved

\* The SCSI layer is never told for ever to try again: twice at most for a
\* READ(10), twice at most at the end of the disk.
RetriesEnd == redos <= 2 /\ fails <= 2

\* What runs here is a command of ScsiCommand: at most three runs of at most
\* MaxCalls calls, and one answer, in the end.
Abstract == INSTANCE ScsiCommand WITH
    stage  <- IF pc \in {"idle", "reset"} THEN pc ELSE IF pc = "finish" THEN "judge"
              ELSE IF Sensing THEN run ELSE "run",
    calls  <- IF pc \in {"idle", "reset"} THEN 0 ELSE calls,
    answer <- IF pc = "finish" THEN "none" ELSE answer
RunsCommand == Abstract!Spec
=============================================================================
