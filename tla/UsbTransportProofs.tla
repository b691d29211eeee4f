------------------------- MODULE UsbTransportProofs -------------------------
(***************************************************************************)
(* Proofs about UsbTransport, for any commands and devices: type           *)
(* correctness, the four safety properties of its run, and that every step *)
(* is one of ScsiCommand or none. The invariant is IInv. The properties    *)
(* speak of a command that is done; what makes them inductive is what each *)
(* stage of a transport knows of the device (Verdict), where an endpoint   *)
(* may be halted (Halts), what the flags and the counter of retries still  *)
(* allow (Retries), and how many calls each stage may have made (Bounded). *)
(***************************************************************************)
EXTENDS UsbTransport, TLAPS

BulkStages == {"cbw", "data", "csw", "csw0", "csw2"}
Working == pc \in Stages \cup {"decide"}

\* The control points: a transfer is under way only in a stage of the
\* transport the device has; there is no answer before there is a verdict
Flow ==
    /\ pc \notin Stages \/ pc = "failed" => xfer = "none"
    /\ Sensing => Working
    /\ pc \in Stages => (pc \in BulkStages <=> protocol = "BULK")
    /\ pc \in {"intr", "failed"} => protocol = "CBI"
    /\ Working => answer = "none"
    /\ pc = "finish" => answer \in {"GOOD", "CHECK", "ERROR"}
    /\ pc = "reset" => answer \in {"ERROR", "ABORT"}

\* But for what earlier resets have left, an endpoint is halted only until its
\* halt is cleared or the error reaches the reset
Halts ==
    \/ halted \subseteq unreset
    \/ xfer = "halt" /\ halted \subseteq unreset \cup {Pipe}
    \/ xfer = "ERROR"
    \/ pc = "decide" /\ result = "ERROR"
    \/ pc = "reset"

\* The device has said that this command is good, as far as it can
Said == CASE protocol = "BULK" -> told = "OK"
          [] protocol = "CBI"  -> told = "OK" \/ (ufi /\ cmd.op = "INQUIRY")
          [] OTHER             -> cmd.in \/ told = "OK"

\* The residual owns up to whatever was not moved
Settled == resid >= cmd.len - moved

\* What is known at each stage of a command that may become a good one
Verdict ==
    /\ ~Sensing /\ pc \in {"csw", "csw0", "csw2", "intr"} => Settled
    /\ ~Sensing /\ pc \in {"data", "cbdata"} /\ xfer # "none" => Settled
    /\ pc = "decide" /\ ~Sensing /\ result = "GOOD" => Settled /\ (protocol # "CB" => Said)
    /\ Sensing /\ first = "GOOD" => Settled /\ protocol = "CB"
    /\ answer = "GOOD" => Settled /\ Said
    /\ answer = "GOOD" /\ pc = "idle" => ~Short

\* What the retries so far leave: none before the first READ(10), one less
\* while one is known to have worked; the driver counts the failures in a row
Retries ==
    /\ redos <= 2 /\ fails <= last_sector_retries
    /\ "REDO_READ10" \in dflags => redos = 0
    /\ "READ10_WORKED" \in dflags => redos <= 1

\* The calls made when a stage begins, and when its transfer has come so far
CallsBefore ==
    CASE pc \in {"cbw", "ctrl"} -> 0 [] pc \in {"data", "cbdata"} -> 1
      [] pc \in {"csw", "intr"} -> 3 [] pc = "csw0" -> 4
      [] pc = "failed" -> 5          [] pc = "csw2" -> 6 [] OTHER -> 8
CallsOf(x) == IF x = "none" THEN 0 ELSE IF x \in {"STALLED", "ERROR"} THEN 2 ELSE 1
Bounded == pc \in Stages => calls <= CallsBefore + CallsOf(xfer)

IInv == TypeOK /\ Flow /\ Halts /\ Verdict /\ Retries /\ Bounded

-----------------------------------------------------------------------------
(* The operators that several actions share.                               *)

\* A command's length and its minimum are what the SCSI layer says.
LEMMA LengthTyped ==
    ASSUME NEW c \in Commands
    PROVE  c.len \in Nat /\ c.underflow \in 0 .. c.len /\ c.in \in BOOLEAN
BY CommandsAssumption

\* The last-sector workaround in its four cases.
LEMMA LastSectorCases ==
    ASSUME TypeOK, NEW a, LastSectorHacks(a)
    PROVE  \/ /\ ~use_last_sector_hacks /\ answer' = a
              /\ UNCHANGED <<lastVars, sense_buffer>>
           \/ /\ use_last_sector_hacks /\ AtLastSector /\ a = "GOOD" /\ resid = 0
              /\ use_last_sector_hacks' = FALSE /\ last_sector_retries' = 0
              /\ answer' = a /\ sense_buffer' = sense_buffer
           \/ /\ use_last_sector_hacks /\ AtLastSector /\ ~(a = "GOOD" /\ resid = 0)
              /\ last_sector_retries < 2 /\ last_sector_retries' = last_sector_retries + 1
              /\ answer' = a /\ UNCHANGED <<use_last_sector_hacks, sense_buffer>>
           \/ /\ use_last_sector_hacks /\ AtLastSector /\ ~(a = "GOOD" /\ resid = 0)
              /\ last_sector_retries = 2 /\ last_sector_retries' = 0
              /\ answer' = "CHECK" /\ sense_buffer' = "sense"
              /\ UNCHANGED use_last_sector_hacks
           \/ /\ use_last_sector_hacks /\ ~AtLastSector
              /\ last_sector_retries' = IF cmd.op = "TUR" THEN last_sector_retries ELSE 0
              /\ answer' = a /\ UNCHANGED <<use_last_sector_hacks, sense_buffer>>
<1>1. last_sector_retries \in 0 .. 2 BY DEF TypeOK
<1>2. last_sector_retries < 2 \/ last_sector_retries = 2 BY <1>1
<1>3. CASE ~use_last_sector_hacks BY <1>3 DEF LastSectorHacks
<1>4. CASE use_last_sector_hacks /\ ~AtLastSector BY <1>4 DEF LastSectorHacks
<1>5. CASE use_last_sector_hacks /\ AtLastSector /\ a = "GOOD" /\ resid = 0
  BY <1>5 DEF LastSectorHacks
<1>6. CASE /\ use_last_sector_hacks /\ AtLastSector /\ ~(a = "GOOD" /\ resid = 0)
           /\ last_sector_retries < 2
  BY <1>1, <1>6 DEF LastSectorHacks
<1>7. CASE /\ use_last_sector_hacks /\ AtLastSector /\ ~(a = "GOOD" /\ resid = 0)
           /\ last_sector_retries = 2
  BY <1>1, <1>7 DEF LastSectorHacks
<1> QED BY <1>2, <1>3, <1>4, <1>5, <1>6, <1>7

\* It answers what it was given or CHECK, and keeps its variables well typed.
LEMMA LastSectorTyped ==
    ASSUME TypeOK, NEW a \in Answers, LastSectorHacks(a)
    PROVE  /\ answer' \in {a, "CHECK"} /\ last_sector_retries' \in 0 .. 2
           /\ use_last_sector_hacks' \in BOOLEAN /\ sense_buffer' \in {"empty", "sense"}
<1>1. answer' \in {a, "CHECK"} BY LastSectorCases
<1>2. last_sector_retries' \in 0 .. 2
  <2>1. last_sector_retries \in 0 .. 2 BY DEF TypeOK
  <2>2. \/ last_sector_retries' = last_sector_retries \/ last_sector_retries' = 0
        \/ last_sector_retries < 2 /\ last_sector_retries' = last_sector_retries + 1
    BY LastSectorCases DEF lastVars
  <2>3. QED BY <2>1, <2>2
<1>3. use_last_sector_hacks' = use_last_sector_hacks \/ use_last_sector_hacks' = FALSE
  BY Zenon, LastSectorCases DEF lastVars
<1>4. use_last_sector_hacks' \in BOOLEAN BY Zenon, <1>3 DEF TypeOK
<1>5. sense_buffer' = sense_buffer \/ sense_buffer' = "sense" BY Zenon, LastSectorCases
<1> QED BY <1>1, <1>2, <1>4, <1>5 DEF TypeOK

\* The failures in a row never outnumber the retries the driver has counted.
LEMMA LastSectorCounts ==
    ASSUME TypeOK, fails <= last_sector_retries, NEW a, LastSectorHacks(a), Counts
    PROVE  fails' <= last_sector_retries'
<1> DEFINE counted ==
      fails' = IF ~use_last_sector_hacks \/ (~AtLastSector /\ cmd.op # "TUR") THEN 0
               ELSE IF cmd.op = "TUR" THEN fails
               ELSE IF (answer' = "GOOD" /\ resid = 0) \/ last_sector_retries = 2 THEN 0
               ELSE fails + 1
<1>1. counted BY DEF Counts
<1>2. AtLastSector => cmd.op # "TUR" BY DEF AtLastSector
<1>3. last_sector_retries \in 0 .. 2 /\ fails \in Nat BY DEF TypeOK
<1>4. CASE ~use_last_sector_hacks
  <2>1. last_sector_retries' = last_sector_retries BY <1>4, LastSectorCases DEF lastVars
  <2>2. fails' = 0 BY <1>1, <1>4
  <2>3. QED BY <1>3, <2>1, <2>2
<1>5. CASE use_last_sector_hacks /\ ~AtLastSector
  <2>1. last_sector_retries' = IF cmd.op = "TUR" THEN last_sector_retries ELSE 0
    BY <1>5, LastSectorCases
  <2>2. fails' = IF cmd.op = "TUR" THEN fails ELSE 0 BY <1>1, <1>5
  <2>3. QED BY <1>3, <2>1, <2>2
<1>6. CASE use_last_sector_hacks /\ AtLastSector
  <2>1. \/ a = "GOOD" /\ resid = 0 /\ last_sector_retries' = 0 /\ answer' = a
        \/ last_sector_retries < 2 /\ last_sector_retries' = last_sector_retries + 1
        \/ last_sector_retries = 2 /\ last_sector_retries' = 0
    BY <1>6, LastSectorCases
  <2>2. fails' = IF (answer' = "GOOD" /\ resid = 0) \/ last_sector_retries = 2 THEN 0
                 ELSE fails + 1
    BY <1>1, <1>2, <1>6
  <2>3. QED BY <1>3, <2>1, <2>2
<1> QED BY <1>4, <1>5, <1>6

\* A retry is counted; another answer to a READ(10) ends the row.
LEMMA RedosCounted ==
    ASSUME Counts
    PROVE  /\ answer' = "IMM_RETRY" => redos' = redos + 1
           /\ answer' # "IMM_RETRY" /\ cmd.op = "READ10" => redos' = 0
           /\ answer' # "IMM_RETRY" /\ cmd.op # "READ10" => redos' = redos
BY DEF Counts


\* A transfer moves no more than the command's length.
LEMMA AmountsTyped == ASSUME TypeOK, NEW status PROVE Amounts(status) \subseteq 0 .. cmd.len
<1>1. cmd.len \in Nat BY LengthTyped DEF TypeOK
<1>2. CASE status = "GOOD" BY <1>1, <1>2 DEF Amounts
<1>3. CASE status = "SHORT" BY <1>1, <1>3 DEF Amounts
<1>4. CASE status \notin {"GOOD", "SHORT"} BY <1>1, <1>4 DEF Amounts
<1> QED BY <1>2, <1>3, <1>4

\* The residual only grows by what the device admits, up to the command's length.
LEMMA ShortageGrows ==
    ASSUME TypeOK, NEW residue \in 0 .. 2
    PROVE  Shortage(residue) \in 0 .. cmd.len /\ Shortage(residue) >= resid
<1>1. cmd.len \in Nat /\ resid \in 0 .. cmd.len BY LengthTyped DEF TypeOK
<1> QED BY <1>1 DEF Shortage


\* The counts of retries and failures stay natural numbers.
LEMMA CountsTyped == ASSUME TypeOK, Counts PROVE redos' \in Nat /\ fails' \in Nat
<1>1. redos \in Nat /\ fails \in Nat BY DEF TypeOK
<1> QED BY <1>1 DEF Counts

\* The end of a run leaves its variables well typed.
LEMMA LeavesTyped ==
    ASSUME NEW where \in {"idle", "finish", "reset"}, Leaves(where)
    PROVE  /\ pc' = where /\ run' = "command" /\ xfer' = "none" /\ fake_sense' \in BOOLEAN
           /\ result' = "GOOD" /\ first' = "GOOD" /\ calls' = 0
<1>1. fake_sense' \in BOOLEAN BY Zenon DEF Leaves
<1> QED BY <1>1 DEF Leaves

\* Every step keeps to the control points of the transport.
LEMMA FlowStep == TypeOK /\ Flow /\ [Next]_vars => Flow'
<1> SUFFICES ASSUME TypeOK, Flow, [Next]_vars PROVE Flow'
  OBVIOUS
<1> USE DEF TypeOK, Flow, Working, BulkStages, Stages, Sensing, Answers, usVars, lastVars,
     cmdVars, runVars, history
<1>1. CASE Begin
  BY <1>1 DEF Begin, FirstStage
<1>2. CASE Configure
  BY <1>2 DEF Configure
<1>3. CASE Abort
  BY <1>3 DEF Abort
<1>4. CASE Transfer
  BY <1>4 DEF Transfer
<1>5. CASE ClearHalt
  BY <1>5 DEF ClearHalt
<1>6. CASE BulkCommand
  BY <1>6 DEF BulkCommand, Ended, Stays, Returns
<1>7. CASE BulkData
  BY <1>7 DEF BulkData, Ended, Stays, Returns
<1>8. CASE BulkStatusAgain
  BY <1>8 DEF BulkStatusAgain, Ended, Stays
<1>9. CASE BulkStatusFails
  BY <1>9 DEF BulkStatusFails, Ended, Stays, Returns
<1>10. CASE BulkStatus
  BY <1>10 DEF BulkStatus, Ended, Stays, Returns, BulkAccepts
<1>11. CASE CbCommand
  BY <1>11 DEF CbCommand, Ended, Stays, Returns
<1>12. CASE CbData
  BY <1>12 DEF CbData, Ended, Stays, Returns
<1>13. CASE CbStatusFails
  BY <1>13 DEF CbStatusFails, Ended, Stays, Returns
<1>14. CASE CbStatus
  BY <1>14 DEF CbStatus, Ended, Stays, Returns
<1>15. CASE CbFailed
  BY <1>15 DEF CbFailed, Returns
<1>16. CASE DecideReset
  BY <1>16 DEF DecideReset, GoesToReset, Leaves, TimedOut
<1>17. CASE DecideNoSense
  BY <1>17 DEF DecideNoSense, Done, DoneFlags, Leaves, LastSectorHacks
<1>18. CASE DecideSense
  BY <1>18 DEF DecideSense, Runs, FirstStage
<1>19. CASE DecideGood
  BY <1>19 DEF DecideGood, Leaves
<1>20. CASE SenseAborted
  BY <1>20 DEF SenseAborted, GoesToReset, Leaves
<1>21. CASE SenseRetried
  BY <1>21 DEF SenseRetried, Runs, FirstStage
<1>22. CASE SenseFails
  BY <1>22 DEF SenseFails, Done, DoneFlags, Leaves, GoesToReset
<1>23. CASE SenseRead
  BY <1>23 DEF SenseRead, Leaves, EmptySense
<1>24. CASE Finish
  BY <1>24 DEF Finish, Done, DoneFlags, Leaves, LastSectorHacks, TimedOut
<1>25. CASE Reset
  BY <1>25 DEF Reset, Done, DoneFlags, Leaves, LastSectorHacks
<1>26. CASE UNCHANGED vars BY <1>26 DEF vars
<1> QED
  BY <1>1, <1>2, <1>3, <1>4, <1>5, <1>6, <1>7, <1>8, <1>9, <1>10, <1>11, <1>12, <1>13, <1>14,
     <1>15, <1>16, <1>17, <1>18, <1>19, <1>20, <1>21, <1>22, <1>23, <1>24, <1>25, <1>26 DEF Next

\* Every step keeps the halted endpoints in sight of the reset.
LEMMA HaltsStep == TypeOK /\ Flow /\ Halts /\ [Next]_vars => Halts'
<1> SUFFICES ASSUME TypeOK, Flow, Halts, [Next]_vars PROVE Halts'
  OBVIOUS
<1> USE DEF TypeOK, Flow, Halts, Pipe, DataPipe, DataIn, Sensing, Stages, usVars, lastVars,
     cmdVars, runVars, history
<1>1. CASE Begin
  BY <1>1 DEF Begin, FirstStage
<1>2. CASE Configure
  BY <1>2 DEF Configure
<1>3. CASE Abort
  BY <1>3 DEF Abort
<1>4. CASE Transfer
  BY <1>4 DEF Transfer, Outcomes
<1>5. CASE ClearHalt
  BY <1>5 DEF ClearHalt
<1>6. CASE BulkCommand
  BY <1>6 DEF BulkCommand, Ended, Stays, Returns
<1>7. CASE BulkData
  BY <1>7 DEF BulkData, Ended, Stays, Returns
<1>8. CASE BulkStatusAgain
  BY <1>8 DEF BulkStatusAgain, Ended, Stays
<1>9. CASE BulkStatusFails
  BY <1>9 DEF BulkStatusFails, Ended, Stays, Returns
<1>10. CASE BulkStatus
  BY <1>10 DEF BulkStatus, Ended, Stays, Returns, BulkAccepts
<1>11. CASE CbCommand
  BY <1>11 DEF CbCommand, Ended, Stays, Returns
<1>12. CASE CbData
  BY <1>12 DEF CbData, Ended, Stays, Returns
<1>13. CASE CbStatusFails
  BY <1>13 DEF CbStatusFails, Ended, Stays, Returns
<1>14. CASE CbStatus
  BY <1>14 DEF CbStatus, Ended, Stays, Returns
<1>15. CASE CbFailed
  BY <1>15 DEF CbFailed, Returns
<1>16. CASE DecideReset
  BY <1>16 DEF DecideReset, GoesToReset, Leaves, TimedOut
<1>17. CASE DecideNoSense
  BY <1>17 DEF DecideNoSense, Done, DoneFlags, Leaves
<1>18. CASE DecideSense
  BY <1>18 DEF DecideSense, Runs, FirstStage
<1>19. CASE DecideGood
  BY <1>19 DEF DecideGood, Leaves
<1>20. CASE SenseAborted
  BY <1>20 DEF SenseAborted, GoesToReset, Leaves
<1>21. CASE SenseRetried
  BY <1>21 DEF SenseRetried, Runs, FirstStage
<1>22. CASE SenseFails
  BY <1>22 DEF SenseFails, Done, DoneFlags, Leaves, GoesToReset
<1>23. CASE SenseRead
  BY <1>23 DEF SenseRead, Leaves
<1>24. CASE Finish
  BY <1>24 DEF Finish, Done, DoneFlags, Leaves
<1>25. CASE Reset
  BY <1>25 DEF Reset, Done, DoneFlags, Leaves
<1>26. CASE UNCHANGED vars BY <1>26 DEF vars
<1> QED
  BY <1>1, <1>2, <1>3, <1>4, <1>5, <1>6, <1>7, <1>8, <1>9, <1>10, <1>11, <1>12, <1>13, <1>14,
     <1>15, <1>16, <1>17, <1>18, <1>19, <1>20, <1>21, <1>22, <1>23, <1>24, <1>25, <1>26 DEF Next

\* Every step keeps the count of the retries.
LEMMA RetriesStep == TypeOK /\ Flow /\ Retries /\ [Next]_vars => Retries'
<1> SUFFICES ASSUME TypeOK, Flow, Retries, [Next]_vars PROVE Retries'
  OBVIOUS
<1> USE DEF TypeOK, Flow, Retries, usVars, lastVars, cmdVars, runVars, history
<1>1. CASE Begin
  BY <1>1 DEF Begin, FirstStage
<1>2. CASE Configure
  BY <1>2 DEF Configure
<1>3. CASE Abort
  BY <1>3 DEF Abort
<1>4. CASE Transfer
  BY <1>4 DEF Transfer
<1>5. CASE ClearHalt
  BY <1>5 DEF ClearHalt
<1>6. CASE BulkCommand
  BY <1>6 DEF BulkCommand, Ended, Stays, Returns
<1>7. CASE BulkData
  BY <1>7 DEF BulkData, Ended, Stays, Returns
<1>8. CASE BulkStatusAgain
  BY <1>8 DEF BulkStatusAgain, Ended, Stays
<1>9. CASE BulkStatusFails
  BY <1>9 DEF BulkStatusFails, Ended, Stays, Returns
<1>10. CASE BulkStatus
  BY <1>10 DEF BulkStatus, Ended, Stays, Returns, BulkAccepts
<1>11. CASE CbCommand
  BY <1>11 DEF CbCommand, Ended, Stays, Returns
<1>12. CASE CbData
  BY <1>12 DEF CbData, Ended, Stays, Returns
<1>13. CASE CbStatusFails
  BY <1>13 DEF CbStatusFails, Ended, Stays, Returns
<1>14. CASE CbStatus
  BY <1>14 DEF CbStatus, Ended, Stays, Returns
<1>15. CASE CbFailed
  BY <1>15 DEF CbFailed, Returns
<1>16. CASE DecideReset
  BY <1>16 DEF DecideReset, GoesToReset, Leaves
<1>17. CASE DecideNoSense
  <2>1. LastSectorHacks("CHECK") /\ Counts /\ dflags' = dflags \ {"TIMED_OUT"}
    BY <1>17 DEF DecideNoSense, DoneFlags
  <2>2. answer' = "CHECK" BY <2>1, LastSectorTyped DEF Answers
  <2>3. redos' = 0 \/ redos' = redos BY <2>1, <2>2, RedosCounted
  <2>4. fails' <= last_sector_retries' BY <2>1, LastSectorCounts
  <2>5. QED BY <2>1, <2>3, <2>4
<1>18. CASE DecideSense
  BY <1>18 DEF DecideSense, Runs, FirstStage
<1>19. CASE DecideGood
  BY <1>19 DEF DecideGood, Leaves
<1>20. CASE SenseAborted
  BY <1>20 DEF SenseAborted, GoesToReset, Leaves
<1>21. CASE SenseRetried
  BY <1>21 DEF SenseRetried, Runs, FirstStage
<1>22. CASE SenseFails
  BY <1>22 DEF SenseFails, Done, DoneFlags, Leaves, GoesToReset
<1>23. CASE SenseRead
  BY <1>23 DEF SenseRead, Leaves
<1>24. CASE Finish
  <2> DEFINE again == Redo /\ "REDO_READ10" \in WithRead10
             ans == IF again THEN "IMM_RETRY" ELSE answer
             final == IF (ans = "GOOD" \/ sense_buffer = "empty") /\ Short THEN "ERROR" ELSE ans
  <2>1. LastSectorHacks(final) /\ Counts /\ dflags' = AfterRedo(WithRead10) \ {"TIMED_OUT"}
    BY <1>24 DEF Finish, DoneFlags
  <2>2. answer \in {"GOOD", "CHECK", "ERROR"} BY <1>24 DEF Finish
  <2>3. final \in Answers BY <2>2 DEF Answers
  <2>4. answer' = "IMM_RETRY" => again BY <2>1, <2>2, <2>3, LastSectorTyped
  <2>5. fails' <= last_sector_retries'
    <3> HIDE DEF final
    <3> QED BY <2>1, LastSectorCounts
  <2> HIDE DEF final
  <2>6. CASE ~Redo
    <3>1. dflags' \subseteq dflags BY <2>1, <2>6 DEF AfterRedo, WithRead10
    <3>2. answer' # "IMM_RETRY" BY <2>4, <2>6
    <3>3. redos' = 0 \/ redos' = redos BY <2>1, <3>2, RedosCounted
    <3>4. QED BY <2>5, <3>1, <3>3
  <2>7. CASE Redo
    <3>1. cmd.op = "READ10" BY <2>7 DEF Redo
    <3>2. "REDO_READ10" \notin dflags' BY <2>1, <2>7 DEF AfterRedo
    <3>3. CASE answer' # "IMM_RETRY"
      <4>1. redos' = 0 BY <2>1, <3>1, <3>3, RedosCounted
      <4>2. QED BY <2>5, <4>1
    <3>4. CASE answer' = "IMM_RETRY"
      <4>1. redos' = redos + 1 BY <2>1, <3>4, RedosCounted
      <4>2. "REDO_READ10" \in WithRead10 BY <2>4, <3>4
      <4>3. CASE "REDO_READ10" \in dflags
        <5>1. redos' = 1 BY <4>1, <4>3
        <5>2. QED BY <2>5, <3>2, <5>1
      <4>4. CASE "REDO_READ10" \notin dflags
        <5>1. /\ "READ10_WORKED" \in dflags
              /\ WithRead10 = (dflags \ {"READ10_WORKED"}) \cup {"REDO_READ10"}
          BY <4>2, <4>4, <2>7 DEF WithRead10
        <5>2. "READ10_WORKED" \notin dflags' BY <2>1, <2>7, <5>1 DEF AfterRedo
        <5>3. redos' <= 2 BY <4>1, <5>1
        <5>4. QED BY <2>5, <3>2, <5>2, <5>3
      <4>5. QED BY <4>3, <4>4
    <3>5. QED BY <3>3, <3>4
  <2>8. QED BY <2>6, <2>7
<1>25. CASE Reset
  <2>1. LastSectorHacks(answer) /\ Counts /\ dflags' = dflags \ {"TIMED_OUT"}
    BY <1>25 DEF Reset, DoneFlags
  <2>2. answer \in {"ERROR", "ABORT"} BY <1>25 DEF Reset
  <2>3. answer' # "IMM_RETRY" BY <2>1, <2>2, LastSectorTyped DEF Answers
  <2>4. redos' = 0 \/ redos' = redos BY <2>1, <2>3, RedosCounted
  <2>5. fails' <= last_sector_retries' BY <2>1, LastSectorCounts
  <2>6. QED BY <2>1, <2>4, <2>5
<1>26. CASE UNCHANGED vars BY <1>26 DEF vars
<1> QED
  BY <1>1, <1>2, <1>3, <1>4, <1>5, <1>6, <1>7, <1>8, <1>9, <1>10, <1>11, <1>12, <1>13, <1>14,
     <1>15, <1>16, <1>17, <1>18, <1>19, <1>20, <1>21, <1>22, <1>23, <1>24, <1>25, <1>26 DEF Next

\* Every step keeps to the calls of its stage.
LEMMA BoundedStep == TypeOK /\ Flow /\ Bounded /\ [Next]_vars => Bounded'
<1> SUFFICES ASSUME TypeOK, Flow, Bounded, [Next]_vars PROVE Bounded'
  OBVIOUS
<1> USE DEF TypeOK, Flow, Bounded, CallsBefore, CallsOf, Stages, usVars, lastVars, cmdVars,
     runVars, history
<1>1. CASE Begin
  BY <1>1 DEF Begin, FirstStage
<1>2. CASE Configure
  BY <1>2 DEF Configure
<1>3. CASE Abort
  BY <1>3 DEF Abort
<1>4. CASE Transfer
  BY <1>4 DEF Transfer, Statuses, Outcomes
<1>5. CASE ClearHalt
  BY <1>5 DEF ClearHalt
<1>6. CASE BulkCommand
  BY <1>6 DEF BulkCommand, Ended, Stays, Returns
<1>7. CASE BulkData
  BY <1>7 DEF BulkData, Ended, Stays, Returns
<1>8. CASE BulkStatusAgain
  BY <1>8 DEF BulkStatusAgain, Ended, Stays
<1>9. CASE BulkStatusFails
  BY <1>9 DEF BulkStatusFails, Ended, Stays, Returns
<1>10. CASE BulkStatus
  BY <1>10 DEF BulkStatus, Ended, Stays, Returns, BulkAccepts
<1>11. CASE CbCommand
  BY <1>11 DEF CbCommand, Ended, Stays, Returns
<1>12. CASE CbData
  BY <1>12 DEF CbData, Ended, Stays, Returns
<1>13. CASE CbStatusFails
  BY <1>13 DEF CbStatusFails, Ended, Stays, Returns
<1>14. CASE CbStatus
  BY <1>14 DEF CbStatus, Ended, Stays, Returns
<1>15. CASE CbFailed
  BY <1>15 DEF CbFailed, Returns
<1>16. CASE DecideReset
  BY <1>16 DEF DecideReset, GoesToReset, Leaves
<1>17. CASE DecideNoSense
  BY <1>17 DEF DecideNoSense, Done, DoneFlags, Leaves
<1>18. CASE DecideSense
  BY <1>18 DEF DecideSense, Runs, FirstStage
<1>19. CASE DecideGood
  BY <1>19 DEF DecideGood, Leaves
<1>20. CASE SenseAborted
  BY <1>20 DEF SenseAborted, GoesToReset, Leaves
<1>21. CASE SenseRetried
  BY <1>21 DEF SenseRetried, Runs, FirstStage
<1>22. CASE SenseFails
  BY <1>22 DEF SenseFails, Done, DoneFlags, Leaves, GoesToReset
<1>23. CASE SenseRead
  BY <1>23 DEF SenseRead, Leaves
<1>24. CASE Finish
  BY <1>24 DEF Finish, Done, DoneFlags, Leaves
<1>25. CASE Reset
  BY <1>25 DEF Reset, Done, DoneFlags, Leaves
<1>26. CASE UNCHANGED vars BY <1>26 DEF vars
<1> QED
  BY <1>1, <1>2, <1>3, <1>4, <1>5, <1>6, <1>7, <1>8, <1>9, <1>10, <1>11, <1>12, <1>13, <1>14,
     <1>15, <1>16, <1>17, <1>18, <1>19, <1>20, <1>21, <1>22, <1>23, <1>24, <1>25, <1>26 DEF Next

\* Every step keeps what is known of the command.
LEMMA VerdictStep == TypeOK /\ Flow /\ Verdict /\ [Next]_vars => Verdict'
<1> SUFFICES ASSUME TypeOK, Flow, Verdict, [Next]_vars PROVE Verdict'
  OBVIOUS
<1>c. /\ cmd.len \in Nat /\ cmd.underflow \in 0 .. cmd.len
      /\ cmd' \in Commands => cmd'.len \in Nat
  BY CommandsAssumption DEF TypeOK
<1> USE DEF TypeOK, Flow, Verdict, Settled, Said, Short, Sensing, HasData, Stages, Working,
     usVars, lastVars, cmdVars, runVars, history
<1>1. CASE Begin
  BY <1>1 DEF Begin, FirstStage
<1>2. CASE Configure
  BY <1>2 DEF Configure
<1>3. CASE Abort
  BY <1>3 DEF Abort
<1>4. CASE Transfer
  <2>1. /\ xfer = "none" /\ pc' = pc /\ run' = run /\ answer' = answer /\ cmd' = cmd
        /\ first' = first /\ result' = result /\ told' = told /\ usVars' = usVars
        /\ pc \in Stages \ {"failed"}
    BY <1>4 DEF Transfer
  <2>2. answer # "GOOD" /\ pc # "decide" BY <2>1
  <2>3. CASE ~Sensing /\ pc \in {"data", "cbdata"}
    <3>1. PICK n \in 0 .. cmd.len : moved' = n /\ resid' = cmd.len - n
      BY <1>4, <2>3, AmountsTyped DEF Transfer
    <3>2. Settled' BY <1>c, <2>1, <3>1
    <3>3. QED BY <2>1, <2>2, <2>3, <3>2
  <2>4. CASE Sensing \/ pc \notin {"data", "cbdata"}
    <3>1. UNCHANGED <<moved, resid>> BY <1>4, <2>4 DEF Transfer
    <3>2. QED BY <2>1, <2>2, <2>4, <3>1
  <2>5. QED BY <2>3, <2>4
<1>5. CASE ClearHalt
  BY <1>5 DEF ClearHalt
<1>6. CASE BulkCommand
  <2>1. /\ pc = "cbw" /\ UNCHANGED <<run, answer, cmd, first, told, protocol, ufi, resid, moved>>
    BY <1>6 DEF BulkCommand, Stays
  <2>2. \/ pc' = "data" /\ xfer' = "none"
        \/ pc' = "csw" /\ ~HasData
        \/ pc' = "decide" /\ result' = "ERROR"
    BY <1>6 DEF BulkCommand, Returns
  <2>3. ~HasData => Settled BY <1>c
  <2>4. Settled' <=> Settled BY <2>1
  <2>5. answer' # "GOOD" BY <2>1
  <2>6. QED BY <2>1, <2>2, <2>3, <2>4, <2>5
<1>7. CASE BulkData
  BY <1>7 DEF BulkData, Ended, Stays, Returns
<1>8. CASE BulkStatusAgain
  BY <1>8 DEF BulkStatusAgain, Ended, Stays
<1>9. CASE BulkStatusFails
  BY <1>9 DEF BulkStatusFails, Ended, Stays, Returns
<1>10. CASE BulkStatus
  <2>1. /\ UNCHANGED <<run, answer, cmd, first, protocol, ufi, moved>> /\ pc' = "decide"
        /\ pc \in {"csw", "csw0", "csw2"}
    BY <1>10 DEF BulkStatus, Stays, Returns
  <2>2. PICK csw \in CSW :
          /\ told' = IF Sensing THEN told
                     ELSE IF csw.ours \/ "IGNORE_TAG" \in fflags THEN csw.status ELSE "none"
          /\ ~BulkAccepts(csw) => result' = "ERROR"
          /\ result' = "GOOD" => csw.status = "OK"
          /\ resid' = resid \/ (~Sensing /\ resid' = Shortage(csw.residue))
    BY <1>10 DEF BulkStatus, Returns
  <2>3. resid' >= resid /\ (Sensing => resid' = resid)
    <3>1. csw.residue \in 0 .. 2 BY DEF CSW
    <3>2. Shortage(csw.residue) >= resid BY <3>1, ShortageGrows
    <3>3. resid \in Int BY <1>c
    <3>4. QED BY <2>2, <3>2, <3>3
  <2>4. resid' \in Int
    <3>1. Shortage(csw.residue) \in 0 .. cmd.len BY ShortageGrows DEF CSW
    <3>2. QED BY <1>c, <2>2, <3>1
  <2>5. Settled => Settled' BY <1>c, <2>1, <2>3, <2>4
  <2>6. result' = "GOOD" /\ ~Sensing => Said'
    <3>1. protocol = "BULK" BY <2>1 DEF BulkStages
    <3>2. result' = "GOOD" /\ ~Sensing => told' = "OK" BY <2>2 DEF BulkAccepts
    <3>3. QED BY <2>1, <3>1, <3>2
  <2>7. answer' # "GOOD" BY <2>1
  <2>8. QED BY <2>1, <2>5, <2>6, <2>7
<1>11. CASE CbCommand
  <2>1. /\ UNCHANGED <<run, answer, cmd, first, told, protocol, ufi, resid, moved>>
        /\ pc = "ctrl" /\ xfer' = "none"
    BY <1>11 DEF CbCommand, Stays
  <2>2. \/ pc' = "decide" /\ result' \in {"FAILED", "ERROR"}
        \/ pc' = "cbdata"
        \/ pc' = "intr" /\ ~HasData
        \/ pc' = "decide" /\ ~HasData /\ protocol # "CBI"
    BY <1>11 DEF CbCommand, Returns
  <2>3. protocol # "BULK" BY <2>1 DEF BulkStages
  <2>4. ~HasData => Settled BY <1>c
  <2>5. Settled' <=> Settled BY <2>1
  <2>6. answer' # "GOOD" BY <2>1
  <2>7. QED BY <2>1, <2>2, <2>3, <2>4, <2>5, <2>6
<1>12. CASE CbData
  <2>1. /\ UNCHANGED <<run, answer, cmd, first, told, protocol, ufi, resid, moved>>
        /\ pc = "cbdata" /\ xfer # "none" /\ xfer' = "none"
    BY <1>12 DEF CbData, Stays, Ended
  <2>2. \/ pc' = "decide" /\ result' \in {"FAILED", "ERROR"}
        \/ pc' = "intr"
        \/ pc' = "decide" /\ protocol # "CBI"
    BY <1>12 DEF CbData, Returns
  <2>3. protocol # "BULK" BY <2>1 DEF BulkStages
  <2>4. Settled' <=> Settled BY <2>1
  <2>5. answer' # "GOOD" BY <2>1
  <2>6. QED BY <2>1, <2>2, <2>3, <2>4, <2>5
<1>13. CASE CbStatusFails
  BY <1>13 DEF CbStatusFails, Ended, Stays, Returns
<1>14. CASE CbStatus
  BY <1>14 DEF CbStatus, Ended, Stays, Returns
<1>15. CASE CbFailed
  BY <1>15 DEF CbFailed, Returns
<1>16. CASE DecideReset
  BY <1>16 DEF DecideReset, GoesToReset, Leaves
<1>17. CASE DecideNoSense
  <2>1. LastSectorHacks("CHECK") /\ pc' = "idle" /\ run' = "command" /\ xfer' = "none"
    BY <1>17 DEF DecideNoSense, Done, Leaves
  <2>2. answer' = "CHECK" BY <2>1, LastSectorTyped DEF Answers
  <2>3. QED BY <2>1, <2>2
<1>18. CASE DecideSense
  BY <1>18 DEF DecideSense, Runs, FirstStage, NeedsSense
<1>19. CASE DecideGood
  BY <1>19 DEF DecideGood, Leaves, NeedsSense
<1>20. CASE SenseAborted
  BY <1>20 DEF SenseAborted, GoesToReset, Leaves
<1>21. CASE SenseRetried
  BY <1>21 DEF SenseRetried, Runs, FirstStage
<1>22. CASE SenseFails
  BY <1>22 DEF SenseFails, Done, DoneFlags, Leaves, GoesToReset
<1>23. CASE SenseRead
  BY <1>23 DEF SenseRead, Leaves, EmptySense
<1>24. CASE Finish
  <2> DEFINE again == Redo /\ "REDO_READ10" \in WithRead10
             ans == IF again THEN "IMM_RETRY" ELSE answer
             final == IF (ans = "GOOD" \/ sense_buffer = "empty") /\ Short THEN "ERROR" ELSE ans
  <2>1. /\ LastSectorHacks(final) /\ pc = "finish" /\ pc' = "idle" /\ run' = "command"
        /\ UNCHANGED <<cmd, told, protocol, ufi, resid, moved>>
    BY <1>24 DEF Finish, Done, Leaves
  <2>2. final \in Answers BY <2>1 DEF Answers
  <2>3. answer' = "GOOD" => final = "GOOD"
    <3> HIDE DEF final
    <3> QED BY <2>1, <2>2, LastSectorTyped DEF Answers
  <2>4. final = "GOOD" => answer = "GOOD" /\ ~Short OBVIOUS
  <2> HIDE DEF final
  <2>5. (Settled' <=> Settled) /\ (Said' <=> Said) /\ (Short' <=> Short) BY <2>1
  <2>6. QED BY <2>1, <2>3, <2>4, <2>5
<1>25. CASE Reset
  <2>1. LastSectorHacks(answer) /\ pc = "reset" /\ pc' = "idle" /\ run' = "command"
    BY <1>25 DEF Reset, Done, Leaves
  <2>2. answer \in {"ERROR", "ABORT"} BY <2>1
  <2>3. answer' # "GOOD" BY <2>1, <2>2, LastSectorTyped DEF Answers
  <2>4. QED BY <2>1, <2>3
<1>26. CASE UNCHANGED vars BY <1>26 DEF vars
<1> QED
  BY <1>1, <1>2, <1>3, <1>4, <1>5, <1>6, <1>7, <1>8, <1>9, <1>10, <1>11, <1>12, <1>13, <1>14,
     <1>15, <1>16, <1>17, <1>18, <1>19, <1>20, <1>21, <1>22, <1>23, <1>24, <1>25, <1>26 DEF Next

\* The variables stay well typed.
LEMMA TypeStep == TypeOK /\ Flow /\ [Next]_vars => TypeOK'
<1> SUFFICES ASSUME TypeOK, Flow, [Next]_vars PROVE TypeOK'
  OBVIOUS
<1>c. /\ cmd.len \in Nat /\ cmd.underflow \in 0 .. cmd.len
      /\ cmd' \in Commands => cmd'.len \in Nat
  BY CommandsAssumption DEF TypeOK
<1> USE DEF TypeOK, Flow, Answers, Stages, Statuses, Results, usVars, lastVars, cmdVars,
     runVars, history
<1>1. CASE Begin
  <2>1. fake_sense' \in BOOLEAN BY Zenon, <1>1 DEF Begin
  <2>2. cmd' \in Commands /\ cmd'.len \in Nat BY <1>1, <1>c DEF Begin
  <2>3. resid' \in 0 .. cmd'.len /\ moved' \in 0 .. cmd'.len BY <1>1, <2>2 DEF Begin
  <2>4. pc' \in Stages BY <1>1 DEF Begin, FirstStage
  <2>5. QED BY <1>1, <2>1, <2>2, <2>3, <2>4 DEF Begin
<1>2. CASE Configure
  BY <1>2 DEF Configure
<1>3. CASE Abort
  BY <1>3 DEF Abort
<1>4. CASE Transfer
  <2>1. /\ xfer' \in Statuses \cup {"halt"} /\ calls' = calls + 1
        /\ halted' \subseteq halted \cup (IF Pipe # "ctrl" THEN {Pipe} ELSE {})
        /\ unreset' \subseteq unreset
        /\ UNCHANGED <<usVars, lastVars, cmd, sense_buffer, answer, run, pc, fake_sense, result,
                       first, told, redos, fails>>
    BY <1>4 DEF Transfer, Outcomes
  <2>2. Pipe # "ctrl" => Pipe \in {"in", "out", "intr"} BY DEF Pipe, DataPipe
  <2>3. halted' \subseteq {"in", "out", "intr"} /\ unreset' \subseteq {"in", "out", "intr"}
    BY <2>1, <2>2
  <2>4. moved' \in 0 .. cmd.len /\ resid' \in 0 .. cmd.len
    <3>1. \/ UNCHANGED <<moved, resid>>
          \/ \E n \in 0 .. cmd.len : moved' = n /\ resid' = cmd.len - n
      BY <1>4, AmountsTyped DEF Transfer
    <3>2. QED BY <1>c, <3>1
  <2>5. calls' \in Nat BY <2>1
  <2>6. xfer' \in Statuses \cup {"none", "halt"} BY <2>1
  <2> HIDE DEF Statuses
  <2>7. QED BY <2>1, <2>3, <2>4, <2>5, <2>6
<1>5. CASE ClearHalt
  <2>1. halted' \subseteq halted /\ xfer' \in {"STALLED", "ERROR"} /\ calls' = calls + 1
    BY <1>5 DEF ClearHalt
  <2>2. UNCHANGED <<usVars, lastVars, cmdVars, run, pc, fake_sense, result, first, told, moved,
                    redos, fails, unreset>>
    BY <1>5 DEF ClearHalt
  <2>3. halted' \subseteq {"in", "out", "intr"} /\ calls' \in Nat BY <2>1
  <2>4. QED BY <2>1, <2>2, <2>3
<1>6. CASE BulkCommand
  BY <1>6 DEF BulkCommand, Ended, Stays, Returns
<1>7. CASE BulkData
  BY <1>7 DEF BulkData, Ended, Stays, Returns
<1>8. CASE BulkStatusAgain
  BY <1>8 DEF BulkStatusAgain, Ended, Stays
<1>9. CASE BulkStatusFails
  BY <1>9 DEF BulkStatusFails, Ended, Stays, Returns
<1>10. CASE BulkStatus
  <2>1. PICK csw \in CSW :
          /\ told' \in {told, csw.status, "none"}
          /\ fflags' = fflags \/ fflags' = fflags \cup {"IGNORE_RESIDUE"}
          /\ resid' = resid \/ resid' = Shortage(csw.residue)
          /\ bcs_signature' \in {bcs_signature, "known"}
          /\ result' \in Results
    BY <1>10 DEF BulkStatus, Returns
  <2>2. csw.status \in {"OK", "FAIL", "PHASE"} /\ csw.residue \in 0 .. 2 BY DEF CSW
  <2>3. resid' \in 0 .. cmd.len BY <2>1, <2>2, ShortageGrows
  <2>4. told' \in {"none", "OK", "FAIL", "PHASE"} BY <2>1, <2>2
  <2>5. /\ pc' = "decide" /\ xfer' = "none"
        /\ UNCHANGED <<protocol, ufi, dflags, lastVars, halted, cmd, sense_buffer, answer, run,
                       first, fake_sense, moved, calls, redos, fails, unreset>>
    BY <1>10 DEF BulkStatus, Returns, Stays
  <2>6. fflags' \subseteq fflags \cup {"IGNORE_RESIDUE"} /\ bcs_signature' \in {"none", "known"}
    BY <2>1
  <2>7. result' \in Results BY <2>1
  <2> HIDE DEF Results
  <2>8. QED BY <2>3, <2>4, <2>5, <2>6, <2>7
<1>11. CASE CbCommand
  BY <1>11 DEF CbCommand, Ended, Stays, Returns
<1>12. CASE CbData
  BY <1>12 DEF CbData, Ended, Stays, Returns
<1>13. CASE CbStatusFails
  BY <1>13 DEF CbStatusFails, Ended, Stays, Returns
<1>14. CASE CbStatus
  BY <1>14 DEF CbStatus, Ended, Stays, Returns
<1>15. CASE CbFailed
  <2>1. /\ halted' \subseteq halted /\ unreset' \subseteq unreset
        /\ pc' = "decide" /\ result' = "FAILED"
        /\ calls' = calls + 1
    BY <1>15 DEF CbFailed, Returns
  <2>2. UNCHANGED <<usVars, lastVars, cmdVars, run, xfer, fake_sense, first, told, moved, redos,
                    fails>>
    BY <1>15 DEF CbFailed
  <2>3. /\ halted' \subseteq {"in", "out", "intr"} /\ unreset' \subseteq {"in", "out", "intr"}
        /\ calls' \in Nat
    BY <2>1
  <2>4. QED BY <2>1, <2>2, <2>3
<1>16. CASE DecideReset
  BY <1>16 DEF DecideReset, GoesToReset, Leaves
<1>17. CASE DecideNoSense
  <2>1. LastSectorHacks("CHECK") /\ Leaves("idle") BY <1>17 DEF DecideNoSense, Done
  <2>2. /\ last_sector_retries' \in 0 .. 2 /\ use_last_sector_hacks' \in BOOLEAN
        /\ sense_buffer' \in {"empty", "sense"} /\ answer' \in Answers
    BY <2>1, LastSectorTyped
  <2>3. redos' \in Nat /\ fails' \in Nat BY <1>17, CountsTyped DEF DecideNoSense
  <2>4. dflags' \subseteq dflags BY <1>17 DEF DecideNoSense, DoneFlags
  <2>5. QED BY <1>17, <2>1, <2>2, <2>3, <2>4, LeavesTyped DEF DecideNoSense
<1>18. CASE DecideSense
  <2>1. fake_sense' \in BOOLEAN BY Zenon, <1>18 DEF DecideSense, Runs
  <2>2. fflags' \subseteq fflags \cup {"SANE_SENSE"} BY <1>18 DEF DecideSense, LearnsSat
  <2>3. /\ run' \in {"large", "small"} /\ pc' \in Stages /\ xfer' = "none"
        /\ result' = "GOOD" /\ first' = result /\ calls' = 0
    BY <1>18 DEF DecideSense, Runs, FirstStage
  <2>4. QED BY <1>18, <2>1, <2>2, <2>3 DEF DecideSense
<1>19. CASE DecideGood
  BY <1>19 DEF DecideGood, Leaves, NeedsSense, LearnsSat
<1>20. CASE SenseAborted
  BY <1>20 DEF SenseAborted, GoesToReset, Leaves, NotSane
<1>21. CASE SenseRetried
  <2>1. fake_sense' \in BOOLEAN BY Zenon, <1>21 DEF SenseRetried, Runs
  <2>2. fflags' \subseteq fflags \cup {"BAD_SENSE"} BY <1>21 DEF SenseRetried, NotSane
  <2>3. /\ run' = "small" /\ pc' \in Stages /\ xfer' = "none"
        /\ result' = "GOOD" /\ first' = first /\ calls' = 0
    BY <1>21 DEF SenseRetried, Runs, FirstStage
  <2>4. QED BY <1>21, <2>1, <2>2, <2>3 DEF SenseRetried
<1>22. CASE SenseFails
  <2>1. unreset' \subseteq unreset \cup halted BY <1>22 DEF SenseFails
  <2>2. \E where \in {"idle", "reset"} : Leaves(where)
    BY <1>22 DEF SenseFails, Done, GoesToReset
  <2>3. answer' = "ERROR" /\ dflags' \subseteq dflags
    BY <1>22 DEF SenseFails, GoesToReset, DoneFlags
  <2>4. QED BY <1>22, <2>1, <2>2, <2>3, LeavesTyped DEF SenseFails
<1>23. CASE SenseRead
  BY <1>23 DEF SenseRead, Leaves, EmptySense
<1>24. CASE Finish
  <2> DEFINE again == Redo /\ "REDO_READ10" \in WithRead10
             ans == IF again THEN "IMM_RETRY" ELSE answer
             final == IF (ans = "GOOD" \/ sense_buffer = "empty") /\ Short THEN "ERROR" ELSE ans
  <2>1. LastSectorHacks(final) /\ Leaves("idle") BY <1>24 DEF Finish, Done
  <2>2. final \in Answers BY <1>24 DEF Finish
  <2>3. /\ last_sector_retries' \in 0 .. 2 /\ use_last_sector_hacks' \in BOOLEAN
        /\ sense_buffer' \in {"empty", "sense"} /\ answer' \in Answers
    <3> HIDE DEF final
    <3> QED BY <2>1, <2>2, LastSectorTyped
  <2> HIDE DEF final
  <2>4. redos' \in Nat /\ fails' \in Nat BY <1>24, CountsTyped DEF Finish
  <2>5. dflags' \subseteq dflags \cup {"REDO_READ10", "READ10_WORKED"}
    BY <1>24 DEF Finish, DoneFlags, AfterRedo, WithRead10
  <2>6. QED BY <1>24, <2>1, <2>3, <2>4, <2>5, LeavesTyped DEF Finish
<1>25. CASE Reset
  <2>1. LastSectorHacks(answer) /\ Leaves("idle") /\ answer \in Answers
    BY <1>25 DEF Reset, Done
  <2>2. /\ last_sector_retries' \in 0 .. 2 /\ use_last_sector_hacks' \in BOOLEAN
        /\ sense_buffer' \in {"empty", "sense"} /\ answer' \in Answers
    BY <2>1, LastSectorTyped
  <2>3. redos' \in Nat /\ fails' \in Nat BY <1>25, CountsTyped DEF Reset
  <2>4. dflags' \subseteq dflags BY <1>25 DEF Reset, DoneFlags
  <2>5. halted' \subseteq halted /\ unreset' = halted' BY <1>25 DEF Reset, PortReset, ClassReset
  <2>6. QED BY <1>25, <2>1, <2>2, <2>3, <2>4, <2>5, LeavesTyped DEF Reset
<1>26. CASE UNCHANGED vars BY <1>26 DEF vars
<1> QED
  BY <1>1, <1>2, <1>3, <1>4, <1>5, <1>6, <1>7, <1>8, <1>9, <1>10, <1>11, <1>12, <1>13, <1>14,
     <1>15, <1>16, <1>17, <1>18, <1>19, <1>20, <1>21, <1>22, <1>23, <1>24, <1>25, <1>26 DEF Next

\* The invariant holds when the device has been probed.
LEMMA InitIInv == Init => IInv
<1> SUFFICES ASSUME Init PROVE IInv OBVIOUS
<1>1. /\ cmd \in Commands /\ cmd.len \in Nat /\ resid \in 0 .. cmd.len /\ moved \in 0 .. cmd.len
  BY LengthTyped DEF Init
<1>2. /\ protocol \in {"BULK", "CB", "CBI"} /\ ufi \in BOOLEAN
      /\ fflags \subseteq {"IGNORE_RESIDUE", "SANE_SENSE", "BAD_SENSE", "IGNORE_TAG", "MULT_TARG",
                           "INITIAL_READ10"}
  <2>1. PICK d \in Devices : protocol = d.protocol /\ ufi = d.ufi /\ fflags = d.fflags
    BY DEF Init
  <2>2. /\ d.protocol \in {"BULK", "CB", "CBI"} /\ d.ufi \in BOOLEAN
        /\ d.fflags \subseteq {"SANE_SENSE", "MULT_TARG", "IGNORE_TAG", "BAD_SENSE",
                               "IGNORE_RESIDUE", "INITIAL_READ10"}
    BY DevicesAssumption
  <2>3. ufi \in BOOLEAN BY Zenon, <2>1, <2>2
  <2>4. QED BY <2>1, <2>2, <2>3
<1>3. use_last_sector_hacks \in BOOLEAN /\ fake_sense \in BOOLEAN
  BY Zenon DEF Init
<1>4. dflags \subseteq {"REDO_READ10"} BY DEF Init
<1>5. TypeOK BY <1>1, <1>2, <1>3, <1>4 DEF Init, TypeOK, Statuses, Results
<1>6. Flow BY DEF Init, Flow, Working, Stages, Sensing
<1>7. Halts /\ Bounded BY DEF Init, Halts, Bounded, Stages
<1>8. Retries BY <1>4 DEF Init, Retries
<1>9. Verdict BY DEF Init, Verdict, Sensing
<1> QED BY <1>5, <1>6, <1>7, <1>8, <1>9 DEF IInv

-----------------------------------------------------------------------------
\* IInv is an inductive invariant of the specification.
THEOREM Inductive == Spec => []IInv
<1>1. Init => IInv BY InitIInv
<1>2. IInv /\ [Next]_vars => IInv'
  BY TypeStep, FlowStep, HaltsStep, VerdictStep, RetriesStep, BoundedStep DEF IInv
<1> QED BY <1>1, <1>2, PTL DEF Spec

\* Every reachable state is well typed: the residual and what was moved stay
\* within the command's length whatever the device says of its residue.
THEOREM TypeCorrect == Spec => []TypeOK
<1>1. IInv => TypeOK BY DEF IInv
<1> QED BY <1>1, Inductive, PTL

\* For every device: no transfer is begun on a halted endpoint, but for those that
\* an earlier error has left halted because its reset failed, was a class reset
\* (which forgets the interrupt pipe of a CBI device) or was not called for
\* (transport.c:264-323, 1278-1282 and the callers of interpret_urb_result).
THEOREM HaltsAreCleared == Spec => []NoTransferOnHalted
<1>1. IInv => NoTransferOnHalted
  BY DEF IInv, Halts, NoTransferOnHalted, Stages
<1> QED BY <1>1, Inductive, PTL

\* For every command and device: a good answer is one the device has given to
\* this very command, or that nothing contradicts where it has no way to say so
\* (USB/transport.c:970-1006, 1161-1233).
THEOREM GoodWasReported == Spec => []GoodIsReported
<1>1. IInv => GoodIsReported BY DEF IInv, Verdict, Said, GoodIsReported
<1> QED BY <1>1, Inductive, PTL

\* For every command and device: a good command has moved the minimum it asks
\* for, and its residual covers whatever was not moved (USB/transport.c:855-858,
\* 1187-1204).
THEOREM NothingMissing == Spec => []NoSilentShortage
<1>1. IInv => NoSilentShortage
  <2> SUFFICES ASSUME IInv, pc = "idle", answer = "GOOD"
               PROVE  moved >= cmd.underflow /\ resid >= cmd.len - moved
    BY DEF NoSilentShortage
  <2>1. resid >= cmd.len - moved /\ ~(cmd.len - resid < cmd.underflow)
    BY DEF IInv, Verdict, Settled, Short
  <2>2. /\ cmd.len \in Nat /\ cmd.underflow \in 0 .. cmd.len
        /\ resid \in 0 .. cmd.len /\ moved \in 0 .. cmd.len
    BY LengthTyped DEF IInv, TypeOK
  <2>3. QED BY <2>1, <2>2
<1> QED BY <1>1, Inductive, PTL

\* For every sequence of commands: the SCSI layer is told to try again at most
\* twice in a row for a READ(10), and sees at most two failures in a row at the
\* end of the disk before one it does not retry (USB/transport.c:522-590, 826-853).
THEOREM RetriesAreBounded == Spec => []RetriesEnd
<1>1. IInv => RetriesEnd BY DEF IInv, TypeOK, Retries, RetriesEnd
<1> QED BY <1>1, Inductive, PTL

-----------------------------------------------------------------------------
(* The refinement of ScsiCommand, but for its fairness.                    *)

\* The refinement mapping of Abstract, by the control point
StageOf(p, r) == IF p \in {"idle", "reset"} THEN p ELSE IF p = "finish" THEN "judge"
                 ELSE IF r # "command" THEN r ELSE "run"
CallsAt(p, n) == IF p \in {"idle", "reset"} THEN 0 ELSE n
AnswerAt(p, a) == IF p = "finish" THEN "none" ELSE a
stage == StageOf(pc, run)
callsMade == CallsAt(pc, calls)
answered == AnswerAt(pc, answer)

\* What the mapping yields at each control point.
LEMMA Mapped ==
    ASSUME NEW p, NEW r, NEW n, NEW a
    PROVE  /\ p \in {"idle", "reset"} => StageOf(p, r) = p /\ CallsAt(p, n) = 0 /\ AnswerAt(p, a) = a
           /\ p = "finish" => StageOf(p, r) = "judge" /\ CallsAt(p, n) = n /\ AnswerAt(p, a) = "none"
           /\ p \in Stages \cup {"decide"} =>
                /\ StageOf(p, r) = IF r = "command" THEN "run" ELSE r
                /\ CallsAt(p, n) = n /\ AnswerAt(p, a) = a
<1>1. CASE p \in {"idle", "reset"}
  <2>1. p # "finish" /\ p \notin Stages \cup {"decide"} BY <1>1 DEF Stages
  <2>2. StageOf(p, r) = p /\ CallsAt(p, n) = 0 BY <1>1 DEF StageOf, CallsAt
  <2>3. AnswerAt(p, a) = a BY <2>1 DEF AnswerAt
  <2>4. QED BY <2>1, <2>2, <2>3
<1>2. CASE p = "finish"
  <2>1. p \notin {"idle", "reset"} /\ p \notin Stages \cup {"decide"} BY <1>2 DEF Stages
  <2>2. StageOf(p, r) = "judge" /\ CallsAt(p, n) = n BY <1>2, <2>1 DEF StageOf, CallsAt
  <2>3. AnswerAt(p, a) = "none" BY <1>2 DEF AnswerAt
  <2>4. QED BY <1>2, <2>1, <2>2, <2>3
<1>3. CASE p \in Stages \cup {"decide"}
  <2>1. p \notin {"idle", "reset"} /\ p # "finish" BY <1>3 DEF Stages
  <2>2. CASE r # "command" BY <2>1, <2>2 DEF StageOf, CallsAt, AnswerAt
  <2>3. CASE r = "command" BY <2>1, <2>3 DEF StageOf, CallsAt, AnswerAt
  <2>4. QED BY <2>1, <2>2, <2>3
<1> QED BY <1>1, <1>2, <1>3

\* An endpoint's transfer, its clearing and the clearing after a failure are the
\* calls of the abstract command, and there are never more than MaxCalls of them.
LEMMA CallRefines ==
    ASSUME IInv, Transfer \/ ClearHalt \/ CbFailed PROVE Abstract!Call
<1>1. /\ pc \in Stages /\ pc' \in Stages \cup {"decide"} /\ UNCHANGED <<run, answer>>
      /\ calls' = calls + 1 /\ xfer \in {"none", "halt"}
  BY DEF Transfer, ClearHalt, CbFailed, Returns, cmdVars, IInv, Flow, Stages
<1>2. calls < MaxCalls
  <2>1. calls <= CallsBefore + CallsOf(xfer) /\ calls \in Nat BY <1>1 DEF IInv, Bounded, TypeOK
  <2>2. CallsBefore \in 0 .. 6 BY <1>1 DEF CallsBefore, Stages
  <2>3. CallsOf(xfer) \in 0 .. 1 BY <1>1 DEF CallsOf
  <2>4. QED BY <2>1, <2>2, <2>3, MaxCallsAssumption
<1>3. run \in {"command", "large", "small"} BY DEF IInv, TypeOK
<1>4. stage \in {"run", "large", "small"} /\ callsMade = calls /\ answered = answer
  BY <1>1, <1>3, Mapped DEF stage, callsMade, answered
<1>5. stage' = stage /\ callsMade' = calls' /\ answered' = answer'
  BY <1>1, <1>4, Mapped DEF stage, callsMade, answered
<1>6. Abstract!Call <=> /\ stage \in {"run", "large", "small"} /\ callsMade < MaxCalls
                        /\ callsMade' = callsMade + 1 /\ UNCHANGED <<stage, answered>>
  BY DEF Abstract!Call, stage, callsMade, answered, StageOf, CallsAt, AnswerAt, Sensing
<1> QED BY <1>1, <1>2, <1>4, <1>5, <1>6

\* The other actions of the abstract command, in terms of the mapping.
LEMMA AbstractActions ==
    /\ Abstract!Issue <=> /\ stage = "idle" /\ stage' = "run"
                          /\ callsMade' = 0 /\ answered' = "none"
    /\ Abstract!AutoSense <=> /\ \/ stage = "run" /\ stage' \in {"large", "small"}
                                 \/ stage = "large" /\ stage' = "small"
                              /\ callsMade' = 0 /\ answered' = answered
    /\ Abstract!Judge <=> /\ stage \in {"run", "large", "small"} /\ stage' = "judge"
                          /\ callsMade' = 0 /\ answered' = answered
    /\ Abstract!Answer <=> /\ stage \in {"run", "large", "small", "judge"} /\ stage' = "idle"
                           /\ callsMade' = 0 /\ answered' \in {"GOOD", "CHECK", "ERROR", "IMM_RETRY"}
    /\ Abstract!GiveUp <=> /\ stage \in {"run", "large", "small"} /\ stage' = "reset"
                           /\ callsMade' = 0 /\ answered' \in {"ERROR", "ABORT"}
    /\ Abstract!Recover <=> /\ stage = "reset" /\ stage' = "idle"
                            /\ answered' \in {answered, "CHECK"} /\ callsMade' = callsMade
BY DEF Abstract!Issue, Abstract!AutoSense, Abstract!Judge, Abstract!Answer, Abstract!Answers,
       Abstract!GiveUp, Abstract!Recover, stage, callsMade, answered, StageOf, CallsAt, AnswerAt,
       Sensing

\* A step within a run, and one beside it, changes nothing the abstract command
\* knows of.
LEMMA Stutters ==
    ASSUME IInv, Configure \/ Abort \/ BulkCommand \/ BulkData \/ BulkStatusAgain \/ BulkStatusFails
                 \/ BulkStatus \/ CbCommand \/ CbData \/ CbStatusFails \/ CbStatus \/ UNCHANGED vars
    PROVE  UNCHANGED <<stage, callsMade, answered>>
<1>1. CASE Configure \/ Abort \/ UNCHANGED vars
  BY <1>1 DEF Configure, Abort, vars, cmdVars, runVars, history, stage, callsMade, answered
<1>2. CASE BulkCommand \/ BulkData \/ BulkStatusAgain \/ BulkStatusFails \/ BulkStatus
           \/ CbCommand \/ CbData \/ CbStatusFails \/ CbStatus
  <2>1. pc \in Stages
    BY <1>2 DEF BulkCommand, BulkData, BulkStatusAgain, BulkStatusFails, BulkStatus,
                CbCommand, CbData, CbStatusFails, CbStatus, Stages
  <2>2. UNCHANGED <<run, calls, answer>>
    BY <1>2 DEF BulkCommand, BulkData, BulkStatusAgain, BulkStatusFails, BulkStatus,
                CbCommand, CbData, CbStatusFails, CbStatus, Stays
  <2>3. pc' \in Stages \cup {"decide"}
    <3>1. CASE BulkCommand \/ BulkData \/ BulkStatusAgain \/ BulkStatusFails \/ BulkStatus
      BY <3>1 DEF BulkCommand, BulkData, BulkStatusAgain, BulkStatusFails, BulkStatus,
                  Returns, Stages
    <3>2. CASE CbCommand BY <3>2 DEF CbCommand, Returns, Stages
    <3>3. CASE CbData \/ CbStatusFails BY <3>3 DEF CbData, CbStatusFails, Returns, Stages
    <3>4. CASE CbStatus BY <3>4 DEF CbStatus, Returns, Stages
    <3>5. QED BY <1>2, <3>1, <3>2, <3>3, <3>4
  <2>4. /\ stage = (IF run = "command" THEN "run" ELSE run)
        /\ callsMade = calls /\ answered = answer
    BY <2>1, Mapped DEF stage, callsMade, answered
  <2>5. /\ stage' = (IF run' = "command" THEN "run" ELSE run')
        /\ callsMade' = calls' /\ answered' = answer'
    BY <2>3, Mapped DEF stage, callsMade, answered
  <2>6. QED BY <2>2, <2>4, <2>5
<1> QED BY <1>1, <1>2

\* Every step of the transport is a step of the abstract command or none.
LEMMA StepRefines == IInv /\ [Next]_vars => [Abstract!Next]_(Abstract!vars)
<1> SUFFICES ASSUME IInv, [Next]_vars PROVE [Abstract!Next]_(Abstract!vars)
  OBVIOUS
<1>0. UNCHANGED (Abstract!vars) <=> UNCHANGED <<stage, callsMade, answered>>
  BY DEF Abstract!vars, stage, callsMade, answered, StageOf, CallsAt, AnswerAt, Sensing
<1>1. /\ pc = "idle" => stage = "idle" /\ callsMade = 0 /\ answered = answer
      /\ pc = "reset" => stage = "reset" /\ callsMade = 0 /\ answered = answer
      /\ pc = "finish" => stage = "judge" /\ answered = "none"
      /\ Working => /\ stage = (IF Sensing THEN run ELSE "run")
                    /\ callsMade = calls /\ answered = "none"
  BY Mapped DEF stage, callsMade, answered, Working, Sensing, IInv, Flow
<1>2. /\ pc' = "idle" => stage' = "idle" /\ callsMade' = 0 /\ answered' = answer'
      /\ pc' = "reset" => stage' = "reset" /\ callsMade' = 0 /\ answered' = answer'
      /\ pc' = "finish" => stage' = "judge" /\ callsMade' = calls' /\ answered' = "none"
      /\ pc' \in Stages => /\ stage' = (IF run' = "command" THEN "run" ELSE run')
                           /\ callsMade' = calls' /\ answered' = answer'
  BY Mapped DEF stage, callsMade, answered
<1>3. run \in {"command", "large", "small"} /\ FirstStage \in Stages
  BY DEF IInv, TypeOK, FirstStage, Stages
<1>4. pc = "decide" => Working BY DEF Working
<1>5. CASE Begin
  BY <1>5, <1>1, <1>2, <1>3, AbstractActions DEF Begin, Abstract!Next
<1>6. CASE Transfer \/ ClearHalt \/ CbFailed BY <1>6, CallRefines DEF Abstract!Next
<1>7. CASE Configure \/ Abort \/ BulkCommand \/ BulkData \/ BulkStatusAgain \/ BulkStatusFails
           \/ BulkStatus \/ CbCommand \/ CbData \/ CbStatusFails \/ CbStatus \/ UNCHANGED vars
  BY <1>7, <1>0, Stutters
<1>8. CASE DecideReset \/ SenseAborted
  <2>1. /\ pc = "decide" /\ pc' = "reset" /\ answer' \in {"ERROR", "ABORT"}
    BY <1>8 DEF DecideReset, SenseAborted, GoesToReset, Leaves
  <2>2. Abstract!GiveUp
    BY <2>1, <1>1, <1>2, <1>3, <1>4, AbstractActions DEF Sensing
  <2>3. QED BY <2>2 DEF Abstract!Next
<1>9. CASE DecideNoSense
  <2>1. /\ pc = "decide" /\ pc' = "idle" /\ LastSectorHacks("CHECK")
    BY <1>9 DEF DecideNoSense, Done, Leaves
  <2>2. answer' = "CHECK" BY <2>1, LastSectorTyped DEF Answers, IInv
  <2>3. Abstract!Answer
    BY <2>1, <2>2, <1>1, <1>2, <1>3, <1>4, AbstractActions DEF Sensing
  <2>4. QED BY <2>3 DEF Abstract!Next
<1>10. CASE DecideSense \/ SenseRetried
  <2>1. /\ pc = "decide" /\ pc' = FirstStage /\ calls' = 0 /\ answer' = answer
        /\ \/ run = "command" /\ run' \in {"large", "small"}
           \/ run = "large" /\ run' = "small"
    BY <1>10 DEF DecideSense, SenseRetried, Runs, cmdVars
  <2>2. answer = "none" BY <2>1, <1>4 DEF IInv, Flow
  <2>3. Abstract!AutoSense
    BY <2>1, <2>2, <1>1, <1>2, <1>3, <1>4, AbstractActions DEF Sensing
  <2>4. QED BY <2>3 DEF Abstract!Next
<1>11. CASE DecideGood \/ SenseRead
  <2>1. pc = "decide" /\ pc' = "finish" /\ calls' = 0
    BY <1>11 DEF DecideGood, SenseRead, Leaves
  <2>2. Abstract!Judge
    BY <2>1, <1>1, <1>2, <1>3, <1>4, AbstractActions DEF Sensing
  <2>3. QED BY <2>2 DEF Abstract!Next
<1>12. CASE SenseFails
  <2>1. /\ pc = "decide" /\ pc' \in {"idle", "reset"} /\ answer' = "ERROR"
    BY <1>12 DEF SenseFails, GoesToReset, Done, Leaves
  <2>2. Abstract!Answer \/ Abstract!GiveUp
    BY <2>1, <1>1, <1>2, <1>3, <1>4, AbstractActions DEF Sensing
  <2>3. QED BY <2>2 DEF Abstract!Next
<1>13. CASE Finish
  <2> DEFINE again == Redo /\ "REDO_READ10" \in WithRead10
             ans == IF again THEN "IMM_RETRY" ELSE answer
             final == IF (ans = "GOOD" \/ sense_buffer = "empty") /\ Short THEN "ERROR" ELSE ans
  <2>1. LastSectorHacks(final) /\ pc = "finish" /\ pc' = "idle"
    BY <1>13 DEF Finish, Done, Leaves
  <2>2. final \in {"GOOD", "CHECK", "ERROR", "IMM_RETRY"} BY <2>1 DEF IInv, Flow
  <2> HIDE DEF final
  <2>3. answer' \in {"GOOD", "CHECK", "ERROR", "IMM_RETRY"}
    BY <2>1, <2>2, LastSectorTyped DEF Answers, IInv
  <2>4. Abstract!Answer BY <2>1, <2>3, <1>1, <1>2, AbstractActions
  <2>5. QED BY <2>4 DEF Abstract!Next
<1>14. CASE Reset
  <2>1. LastSectorHacks(answer) /\ pc = "reset" /\ pc' = "idle"
    BY <1>14 DEF Reset, Done, Leaves
  <2>2. answer \in Answers BY <2>1 DEF IInv, Flow, Answers
  <2>3. answer' \in {answer, "CHECK"} BY <2>1, <2>2, LastSectorTyped DEF IInv
  <2>4. Abstract!Recover BY <2>1, <2>3, <1>1, <1>2, AbstractActions
  <2>5. QED BY <2>4 DEF Abstract!Next
<1> QED
  BY <1>5, <1>6, <1>7, <1>8, <1>9, <1>10, <1>11, <1>12, <1>13, <1>14 DEF Next

\* For every command and device the transport implements ScsiCommand, but for
\* the fairness: at most three runs of at most MaxCalls calls each, an answer at
\* the end, and a reset before it if and only if the transport failed
\* (USB/transport.c:592-889).
THEOREM ImplementsCommand == Spec => Abstract!Init /\ [][Abstract!Next]_(Abstract!vars)
<1>1. Init => Abstract!Init
  <2> SUFFICES ASSUME Init PROVE Abstract!Init OBVIOUS
  <2>1. pc = "idle" /\ answer = "none" BY DEF Init
  <2>2. stage = "idle" /\ callsMade = 0 /\ answered = "none"
    BY <2>1, Mapped DEF stage, callsMade, answered
  <2>3. QED
    BY <2>2 DEF Abstract!Init, stage, callsMade, answered, StageOf, CallsAt, AnswerAt, Sensing
<1>2. IInv /\ [Next]_vars => [Abstract!Next]_(Abstract!vars) BY StepRefines
<1> QED BY <1>1, <1>2, Inductive, PTL DEF Spec
=============================================================================
